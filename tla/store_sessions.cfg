SPECIFICATION FairSpec
CONSTANTS
    t1 = t1
    t2 = t2
    Tenants = {t1, t2}
    Receipts <- TwoFacts
    Callers = {c1, c2}
    Connections = {k1, k2}
    Tasks <- MixedTasks
    None = None
    MaxFaults = 2
INVARIANTS
    RowsMatchRecords
    EvidenceIsOwn
    DoneMeansDurable
    ConflictMeansContradiction
    PoolIsClean
    IInv
PROPERTIES
    KeepsTheLedger
    EveryCallerIsAnswered
