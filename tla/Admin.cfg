\* The panel in one page, another page of the same browser loading behind it.
SPECIFICATION FairSpec
CONSTANTS
    Pages = {a, b}
    Background = {b}
    MaxSids = 2
    MaxPage = 1
    MaxClicks = 3
CHECK_DEADLOCK FALSE
INVARIANTS TypeOK OneCreate PrevFits
PROPERTIES Rests
