SPECIFICATION ReturnSpec
CONSTANTS
    b1 = b1
    b2 = b2
    base = base
    quote = quote
    Brackets = {b1, b2}
    Master = master
    Exchange = exchange
    Base = base
    Quote = quote
    N = 4
    Listing <- TwoBrackets
    MaxAmount = 9
    Dust = 2
    MasterFunds = 0
    BracketFunds = 2
    MarketFunds = 2
    ListAmounts = {}
    TradeSizes = {1, 2}
    Kinds = {"request", "requestAll", "claim", "claimTransfer", "transfer"}
    MaxScripts = 12
    MaxTrades = 2
PROPERTIES FundsReturn
