\* Scripts that overlap, an owner who verifies, and owners who execute.
SPECIFICATION FairVSpec
CONSTANTS
    r1 = r1
    r2 = r2
    Runs = {r1, r2}
    Kinds = {"process", "complete", "single"}
    Nonces = {}
    Onchain = {FALSE, TRUE}
    Exclusive = FALSE
    PairList <- TwoPairs
    Worlds = {1, 2}
    MaxChanges = 1
INVARIANTS VerificationTypeOK UnchangedProposalMatches
PROPERTIES EveryTurnComes
CHECK_DEADLOCK FALSE
