\* Cancel, sweep and expiry against a distribution that meets failures.
SPECIFICATION FairSpec
CONSTANTS
    PartCount = 2
    MaxMsg = 3
    Runs = {r1}
    NoRun = NoRun
    Finishers = {h1}
    Deleters = {"cancel", "expire", "sweep"}
    Faults = {"net", "lostreply", "panic", "worker", "day"}
    RepeatFinish = FALSE
    LatePut = FALSE
    MaxCrash = 0
CHECK_DEADLOCK FALSE
INVARIANTS NoGhost ReadyServable
PROPERTIES Settles Expires DirReclaimed TmpFreed
