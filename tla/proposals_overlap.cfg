\* Scripts that overlap, with given nonces and execution on chain.
SPECIFICATION Spec
CONSTANTS
    r1 = r1
    r2 = r2
    r3 = r3
    Runs = {r1, r2, r3}
    Kinds = {"process", "send", "complete", "single"}
    Nonces = {1}
    Onchain = {FALSE, TRUE}
    Exclusive = FALSE
INVARIANTS PendingIsNotOverwritten FundsFollowOrders SaltIsUnique
SYMMETRY AnyRun
CHECK_DEADLOCK FALSE
