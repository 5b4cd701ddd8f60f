CONSTANTS
    Writers = {w1, w2, w3}
    Readers = {r1}
    Capacity = 2
    MaxTicket = 4
    Nobody = Nobody
SPECIFICATION FairSpec
INVARIANTS ActiveHasOneOwner MutationExclusive StartsInAdmissionOrder QueueMatchesCallers NoLostWakeup
PROPERTIES CancelledNeverExecutes WaitsEnd
