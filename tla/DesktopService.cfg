SPECIFICATION Spec
CONSTANTS
    Apps = {"vi", "ed"}
    Types = {"text", "html", "odd", ""}
    Known = {"text", "html"}
    Sources <- MCSources
    AppChanges <- MCAppChanges
    ListChanges <- MCListChanges
    Patches <- MCPatches
    Exact = ""
    Late = {4}
    Workers = {w1, w2}
    MaxChanges = 3
    MaxBatch = 2
INVARIANTS IdleMeansUpToDate PatchesAreSerial
PROPERTY CatchesUp
CHECK_DEADLOCK FALSE
