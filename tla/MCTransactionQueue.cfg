CONSTANTS
    n1 = n1
    n2 = n2
    n3 = n3
    t1 = t1
    t2 = t2
    t = t
    Node = {n1, n2, n3}
    Quorum <- MCQuorum
    Manual = {n3}
    Tx = {t1, t2}
    Contents = {t}
    ContentsOf <- MCContentsOf
    MinTime <- MCMinTime
    MaxTime <- MCMaxTime
    ExpirationPeriod = 2
    MaxTxSetSize = 2
    Reaches <- MCReaches
    Levels = 2
    LastTime = 3
    MaxProposals = 2
SYMMETRY Symmetry
SPECIFICATION Spec
INVARIANTS
    AppliedOnce
    SameVerdict
    ProposalsAreValid
    NextLedgerCloses
CHECK_DEADLOCK FALSE
