\* Two readers of one file that may have an end, one download slot, slow probes.
SPECIFICATION FairSpec
CONSTANTS
    Readers = {r1, r2}
    Probes = {p1, p2}
    MaxDownloads = 1
    DayTTL = 2
    Longest = 3
    ProbeEvery = 1
    ProbeTimeout = 1
INVARIANTS WithinLife SlotsKept OneProbe
PROPERTIES LeavesEdge DownSeen RecoverySeen
