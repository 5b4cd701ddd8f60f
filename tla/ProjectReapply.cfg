CONSTANTS
    Procs = {p1}
    Readers = {}
    Txns = {o1, x1, x2}
    Exclusive = {x1, x2}
    Optimistic = {o1}
    Root = root
    RetainedAncestors = 1
    Policies = {}
    MaxCommits = 5
    MaxCrashes = 2
    None = None
SYMMETRY Symmetry
SPECIFICATION Spec
INVARIANTS RetainedJournalsMatch
PROPERTIES AppliedOnceInWindow ImplementsAtomicProject
