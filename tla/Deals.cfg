\* Concurrent finish requests on a counter that is already stored.
SPECIFICATION Spec
CONSTANTS
    Callers = {c1, c2, c3}
    NoCaller = NoCaller
    Channels = 3
    Sizes = {1, 3}
    Stored = {0, 4}
    MaxCount = 7
CHECK_DEADLOCK FALSE
INVARIANTS TypeOK Balanced LockHeldOpen
PROPERTIES Deals
