\* Files, URLs, cancel and again, in any order, with rows that vanish.
SPECIFICATION Spec
CONSTANTS
    MaxItems = 3
    MAX_CONCURRENT = 2
    PartCount = 1
    MaxAttempts = 0
    Habits = {"paste", "cancel", "url"}
    Faults = {"drop"}
CHECK_DEADLOCK FALSE
INVARIANTS TypeOK ScreenTrue NoStall LinksGood
