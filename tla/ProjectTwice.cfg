CONSTANTS
    Procs = {p1}
    Readers = {}
    Txns = {x1, x2, x3, x4}
    Exclusive = {x1, x2, x3, x4}
    Optimistic = {}
    Root = root
    RetainedAncestors = 2
    Policies = {}
    MaxCommits = 6
    MaxCrashes = 1
    None = None
SYMMETRY Symmetry
SPECIFICATION Spec
INVARIANTS AppliedOnce
