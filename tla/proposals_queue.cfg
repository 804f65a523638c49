\* One script after the other, as the LiquidityFunds model takes them.
SPECIFICATION FairSpec
CONSTANTS
    r1 = r1
    r2 = r2
    r3 = r3
    Runs = {r1, r2, r3}
    Kinds = {"process", "complete", "single"}
    Nonces = {}
    Onchain = {FALSE}
    Exclusive = TRUE
INVARIANTS TypeOK
PROPERTIES ImplementsQueue
CHECK_DEADLOCK FALSE
