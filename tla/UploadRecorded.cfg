\* Failing calls that leave no trace: nothing is lost, nothing counted twice.
SPECIFICATION Spec
CONSTANTS
    PartCount = 3
    MaxMsg = 3
    Runs = {r1}
    NoRun = NoRun
    Finishers = {h1}
    Deleters = {"expire"}
    Faults = {"getpart", "net", "panic", "worker", "delete"}
    RepeatFinish = FALSE
    LatePut = TRUE
    MaxCrash = 0
CHECK_DEADLOCK FALSE
INVARIANTS DoneCounted NoOrphan
