SPECIFICATION Spec
CONSTANTS
    b1 = b1
    b2 = b2
    base = base
    quote = quote
    Brackets = {b1, b2}
    Master = master
    Exchange = exchange
    Base = base
    Quote = quote
    N = 4
    Listing <- TwoBrackets
    MaxAmount = 9
    Dust = 1
    MasterFunds = 3
    BracketFunds = 0
    MarketFunds = 1
    ListAmounts = {0, 2}
    TradeSizes = {1}
    Kinds = {"orders", "fund", "deposit", "transfer", "request"}
    MaxScripts = 2
    MaxTrades = 1
INVARIANTS NoAllowanceLeft
PROPERTIES FundingReachesExchange EstimateIsReliable
