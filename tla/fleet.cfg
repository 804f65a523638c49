\* Fleets deployed and funded by two master Safes.
SPECIFICATION Spec
CONSTANTS
    m1 = m1
    m2 = m2
    factory = factory
    p1 = p1
    p2 = p2
    p3 = p3
    Masters = {m1, m2}
    Factory = factory
    NoOwner = nobody
    Provisions = {p1, p2, p3}
    Kinds = {"single", "complete", "reuse", "orders", "fund"}
    Nonces = {0, 1}
    Size = 2
    Lists <- NamedLists
    Funds = 3
INVARIANTS TypeOK FundsStayWithMaster ProvisionIsWhole FailsByOwnDoingOnly
SYMMETRY AnyProvision
CHECK_DEADLOCK FALSE
