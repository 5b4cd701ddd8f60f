CONSTANTS
    Writers = {w1, w2}
    Data <- MCData
    Receipt = receipt
    Authority = generation
    Parent <- MCParent
    Root = root
    Initial = {route}
    Batches <- MCBatches
    MaxGeneration = 2
    MaxTx = 2
    MaxFaults = 2
    Journal = Journal
    Absent = Absent
    Nobody = Nobody
    None = None
    route = route
    moved = moved
    receipt = receipt
    generation = generation
    topology = topology
    properties = properties
    routes = routes
    root = root
SPECIFICATION FairSpec
INVARIANTS WholeUnlessBarrierMissed CommittedStays MovedFileOnDisk ReconcileTruthful GenerationNamesOne
PROPERTIES  IntentSettles
