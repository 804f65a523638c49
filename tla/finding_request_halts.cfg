SPECIFICATION Spec
CONSTANTS
    b1 = b1
    b2 = b2
    base = base
    quote = quote
    Brackets = {b1}
    Master = master
    Exchange = exchange
    Base = base
    Quote = quote
    N = 2
    Listing <- OneBracket
    MaxAmount = 9
    Dust = 1
    MasterFunds = 0
    BracketFunds = 1
    MarketFunds = 1
    ListAmounts = {0}
    TradeSizes = {1}
    Kinds = {"request"}
    MaxScripts = 1
    MaxTrades = 3
PROPERTIES CommandHaltsTrading
