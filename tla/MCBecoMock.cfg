SPECIFICATION MCSpec
CONSTANTS
    Platforms = {"posix", "windows"}
    LogTargets = {"stderr", "file"}
    ExitOnFail = {TRUE, FALSE}
    InCap = 1
    OutCap = 2
    MaxRequests = 3
    Contexts = {"c1", "c2"}
    Files = {"f1", "f2", "f3"}
    CtxRules = {"give", "log"}
INVARIANTS Residue ClosedOnce InStep StreamsOwned
PROPERTIES NobodyWaits
CHECK_DEADLOCK FALSE
