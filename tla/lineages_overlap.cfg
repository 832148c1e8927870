SPECIFICATION Spec
CONSTANTS
    m1 = m1
    m2 = m2
    Migrators = {m1, m2}
    Needs <- DeclaredNeeds
    Releases <- AllReleases
    Commands = {"heads", "sql", "kernel", "cloud", "billing"}
    Rank <- ModulesInAnyOrder
    MaxRedeploys = 1
    MaxFaults = 1
SYMMETRY Symmetry
INVARIANTS
    SchemaIsSupported
    IInv
PROPERTIES
    KeepsTheSchemaPromise
    SuccessIsWhole
