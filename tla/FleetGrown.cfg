\* Startup, first upload and daily job on a fleet that exists, every fault.
SPECIFICATION FairSpec
CONSTANTS
    Bootstrappers = {startup, upload}
    Dailies = {cron}
    Nobody = Nobody
    Target = 2
    Founded = {1, 3}
    FirstDay = 4
    LastDay = 5
    Faults = {"net", "dbread", "dbwrite"}
    MaxCrash = 1
CHECK_DEADLOCK FALSE
INVARIANTS TypeOK OnePerDay
PROPERTIES Ends
