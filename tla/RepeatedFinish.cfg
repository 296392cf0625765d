\* Finish sent twice, expiry with failing deletions, one restart.
SPECIFICATION Spec
CONSTANTS
    PartCount = 3
    MaxMsg = 4
    Runs = {r1, r2}
    NoRun = NoRun
    Finishers = {h1, h2}
    Deleters = {"expire"}
    Faults = {"getpart", "net", "delete"}
    RepeatFinish = TRUE
    LatePut = FALSE
    MaxCrash = 1
CHECK_DEADLOCK FALSE
INVARIANTS SingleRun
PROPERTIES BecomesReadyWhole DroppedClean
