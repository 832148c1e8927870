SPECIFICATION FairSpec
CONSTANTS
    o1 = o1
    o2 = o2
    d1 = d1
    d2 = d2
    Occurrences = {o1, o2}
    Drainers = {d1}
    Accounts = {a1}
    Fingerprints = {fp1}
    None = None
    Answers = {a1, "unlinked"}
    Rank <- OldestFirst
    Limit = 1
    MaxGeneration = 1
    MaxFaults = 0
    Disturbances = {}
PROPERTY
    EveryOfferIsHandedOver
