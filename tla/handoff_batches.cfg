SPECIFICATION FairSpec
CONSTANTS
    o1 = o1
    o2 = o2
    d1 = d1
    d2 = d2
    Occurrences = {o1, o2}
    Drainers = {d1, d2}
    Accounts = {a1}
    Fingerprints = {fp1}
    None = None
    Answers = {a1, "unlinked", "ruled_out"}
    Rank <- OldestFirst
    Limit = 2
    MaxGeneration = 2
    MaxFaults = 1
    Disturbances = {}
INVARIANTS
    AckedIffApplied
    NoWaitCycle
PROPERTIES
    KeepsThePromise
    EveryOfferIsHandedOver
