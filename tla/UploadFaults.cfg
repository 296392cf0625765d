\* Every fault of the environment but refused deletions, a restart, an admin.
SPECIFICATION Spec
CONSTANTS
    PartCount = 3
    MaxMsg = 4
    Runs = {r1}
    NoRun = NoRun
    Finishers = {h1}
    Deleters = {"admin"}
    Faults = {"getpart", "dbread", "dbwrite", "net", "lostreply", "panic", "disk", "worker", "stop", "day"}
    RepeatFinish = FALSE
    LatePut = FALSE
    MaxCrash = 1
CHECK_DEADLOCK FALSE
INVARIANTS TypeOK ReadyWhole
PROPERTIES Settled
