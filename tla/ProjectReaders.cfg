CONSTANTS
    Procs = {p1, p2}
    Readers = {r1}
    Txns = {o1}
    Exclusive = {o1}
    Optimistic = {o1}
    Root = root
    RetainedAncestors = 1
    Policies = {0}
    MaxCommits = 3
    MaxCrashes = 2
    None = None
SYMMETRY Symmetry
SPECIFICATION Spec
INVARIANTS  PinnedGenerationStays AcknowledgedSurvives
