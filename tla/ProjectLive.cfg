CONSTANTS
    Procs = {p1, p2}
    Readers = {r1}
    Txns = {x1}
    Exclusive = {x1}
    Optimistic = {x1}
    Root = root
    RetainedAncestors = 1
    Policies = {0}
    MaxCommits = 2
    MaxCrashes = 0
    None = None
SPECIFICATION LiveSpec
PROPERTIES LocksAreReleased
