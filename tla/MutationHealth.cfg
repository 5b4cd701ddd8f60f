CONSTANTS
    Owners = {o1, o2}
    Streams = {s1, s2}
    MaxEpoch = 3
SPECIFICATION FairSpec
INVARIANTS FenceHasOneOwner NoBatchAcrossRecovery FacadePlansWhole
PROPERTIES FenceIsLowered
