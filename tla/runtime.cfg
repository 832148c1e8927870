SPECIFICATION FairSpec
CONSTANTS
    Workers = {w1, w2, w3}
    None = None
    PoolSize = 1
    MaxOverflow = 1
    MaxStarts = 2
    MaxCloses = 1
INVARIANT
    IInv
PROPERTIES
    OutageEndsWithServer
    EverySessionEnds
    CloseReleases
