SPECIFICATION FairSpec
CONSTANTS
    Keys = {k1}
    Fingerprints = {fp1, fp2}
    None = None
    Auditors = {a1}
    MaxVersion = 2
    Defective = TRUE
    Lagging = TRUE
INVARIANTS
    IInv
    SettledStaysSettled
    DivergentMeansDefect
PROPERTIES
    DivergenceNeverHeals
    LostIsDelivered
    RepairEnds
