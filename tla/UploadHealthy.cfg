\* A healthy environment and an orderly client, with two restarts.
SPECIFICATION Spec
CONSTANTS
    PartCount = 3
    MaxMsg = 9
    Runs = {r1}
    NoRun = NoRun
    Finishers = {h1}
    Deleters = {"expire"}
    Faults = {}
    RepeatFinish = FALSE
    LatePut = FALSE
    MaxCrash = 2
CHECK_DEADLOCK FALSE
INVARIANTS NeverFails
