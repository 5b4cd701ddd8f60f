CONSTANTS
    Facades = {a, b}
    Optimistic = {a}
    Ops = {set1, set2, both, query, script, delete}
    Request <- MCRequest
    Fields = {x, y}
    MaxRebases = 1
    MaxCalls = 3
    MaxFaults = 2
    MaxAdmin = 1
    None = None
    Gone = Gone
    Torn = Torn
    a = a
    b = b
    x = x
    y = y
    set1 = set1
    set2 = set2
    delete = delete
    both = both
    script = script
    query = query
SPECIFICATION FairSpec
CHECK_DEADLOCK FALSE
INVARIANTS GenerationIsParentPlusOperation FacadeCoherent  CheckedPropertyConflicts
PROPERTIES FacadeMovesForward CallReturns
