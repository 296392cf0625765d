\* Files only, dropped and pasted: the queue is a pool, and every file is reported.
SPECIFICATION FairSpec
CONSTANTS
    MaxItems = 3
    MAX_CONCURRENT = 2
    PartCount = 2
    MaxAttempts = 1
    Habits = {"paste"}
    Faults = {}
CHECK_DEADLOCK FALSE
PROPERTIES Pooled Reported
