\* The first start alone, over two midnights and two restarts.
SPECIFICATION FairSpec
CONSTANTS
    Bootstrappers = {startup}
    Dailies = {}
    Nobody = Nobody
    Target = 3
    Founded = {}
    FirstDay = 4
    LastDay = 6
    Faults = {"net", "dbread", "dbwrite"}
    MaxCrash = 2
CHECK_DEADLOCK FALSE
INVARIANTS GrowsDaily
PROPERTIES Ends
