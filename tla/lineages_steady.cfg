SPECIFICATION FairSpec
CONSTANTS
    m1 = m1
    m2 = m2
    Migrators = {m1, m2}
    Needs <- DeclaredNeeds
    Releases <- AllReleases
    Commands = {"heads", "kernel"}
    Rank <- KernelLast
    MaxRedeploys = 1
    MaxFaults = 1
INVARIANT
    NoDeadlock
PROPERTY
    SoundReleaseIsInstalled
