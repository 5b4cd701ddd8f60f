CONSTANTS
    Procs = {p1, p2}
    Readers = {}
    Txns = {x1}
    Exclusive = {x1}
    Optimistic = {}
    Root = root
    RetainedAncestors = 2
    Policies = {}
    MaxCommits = 3
    MaxCrashes = 2
    None = None
SYMMETRY Symmetry
SPECIFICATION Spec
INVARIANTS AcknowledgedIsNeverLost
