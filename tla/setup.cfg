\* The checks before and after a deployment, with a market and a chain that change.
SPECIFICATION FairSpec
CONSTANTS
    b1 = b1
    b2 = b2
    t1 = t1
    t2 = t2
    usdc = usdc
    Tokens = {t1, t2, usdc}
    USDC = usdc
    Market0 <- Market
    BracketList <- OneBracket
    Master = master
    Spenders = {"friend", "other"}
    Exceptions = {"friend"}
    OwnersNamed = TRUE
    OrderLists <- Lists
    Chains <- OneFlaw
    Presets <- NoneOrOne
    Base = t1
    Quote = t2
    Settings <- SomeSettings
    Tolerance = 2
    Spread = 4
    MaxChanges = 1
    Steps = {1}
INVARIANTS TypeOK PassIsSound NoFalseAlarm LimitsAreNearMarket
PROPERTIES EveryCheckEnds
CHECK_DEADLOCK FALSE
