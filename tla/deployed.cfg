\* The file of deployed brackets, with a node that always answers or refuses.
SPECIFICATION FairSpec
CONSTANTS
    b1 = b1
    b2 = b2
    b3 = b3
    t1 = t1
    t2 = t2
    Tokens = {t1, t2}
    Ids = {1, 2}
    TokenAt <- TwoIds
    Hardcoded = {t1}
    Brackets = {b1, b2, b3}
    Mine = {b1, b2}
    Factory <- BothFactories
    Pairs <- BothWays
INVARIANTS TypeOK OneLookupPerToken CallersAgree FileIsComplete
PROPERTIES EveryScriptEnds
CHECK_DEADLOCK FALSE
