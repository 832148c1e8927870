SPECIFICATION Spec
CONSTANTS
    Keys = {k1, k2}
    Fingerprints = {fp1, fp2}
    None = None
    MaxVersion = 2
    MaxPublished = 2
    MaxReceived = 3
    PublishedInputs <- AllPublished
    ReceivedInputs <- AllReceived
CHECK_DEADLOCK FALSE
INVARIANTS
    IInv
    VerdictsAreJust
    ConvergedMeansActedOn
    ReportIsJudgement
