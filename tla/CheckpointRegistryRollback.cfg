CONSTANTS
    Procs = {p1, p2}
    Requests <- OneName
    MaxActive = 2
    MaxTombstones = 2
    MaxRevision = 2
    MaxCrashes = 2
    Absent = Absent
    c1 = c1
    c2 = c2
    c3 = c3
    d1 = d1
    d2 = d2
    n1 = n1
    n2 = n2
SPECIFICATION Spec
INVARIANTS InterruptionExposesPreviousOrNext
