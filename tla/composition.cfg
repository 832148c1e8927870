SPECIFICATION Spec
CONSTANTS
    Names = {1, 2}
    Manifests <- SmallManifests
    HandBuilt <- SmallTuples
CHECK_DEADLOCK FALSE
INVARIANTS
    GateIsSound
    ReportIsComplete
    RefusalHasCause
