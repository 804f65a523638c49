\* Airdrops one after the other, with proposals that wait and funds that move.
SPECIFICATION Spec
CONSTANTS
    t1 = t1
    t2 = t2
    r1 = r1
    r2 = r2
    Tokens = {t1, t2}
    Addresses = {"t1", "T1", "t2"}
    TokenOf <- Spellings
    Receivers = {r1, r2}
    Files <- SomeFiles
    Funds <- ThreeOfEach
    TooMany = 3
    MaxRuns = 3
    MaxMoves = 2
    Amounts = {1, 2}
INVARIANTS TypeOK CheckedAirdropIsPaid PaidInFull
PROPERTIES RefusalIsJustified
CHECK_DEADLOCK FALSE
