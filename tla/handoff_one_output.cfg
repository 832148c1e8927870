SPECIFICATION Spec
CONSTANTS
    o1 = o1
    o2 = o2
    d1 = d1
    d2 = d2
    Occurrences = {o1}
    Drainers = {d1, d2}
    Accounts = {a1, a2}
    Fingerprints = {fp1, fp2}
    None = None
    Answers = {a1, a2, "incoherent", "unlinked", "unmappable", "ruled_out"}
    Rank <- AnyOrder
    Limit = 2
    MaxGeneration = 2
    MaxFaults = 1
    Disturbances = {"relink", "republish", "race"}
SYMMETRY Symmetry
INVARIANTS
    ChargeMatchesEvidence
    OneVerdictPerFact
    AcknowledgedWasCharged
    IInv
PROPERTY
    KeepsTheLedger
