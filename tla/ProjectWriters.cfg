CONSTANTS
    Procs = {p1, p2}
    Readers = {}
    Txns = {x1, o1}
    Exclusive = {x1, o1}
    Optimistic = {o1}
    Root = root
    RetainedAncestors = 1
    Policies = {0}
    MaxCommits = 3
    MaxCrashes = 1
    None = None
SYMMETRY Symmetry
SPECIFICATION Spec
INVARIANTS CurrentAlwaysResolves CommitsExtendCurrent CleanupDecisionHolds
