\* Two workers whose leases may lapse under them, a crash and a replay.
CONSTANTS
    NoWorker = NoWorker
    Worker = {w1, w2}
    Event = {1, 2}
    TypeOf <- PublishAndBriefing
    Concerns <- PublishOnly
    MaxRetries = 2
    BatchSize = 2
    FaultsHappen = TRUE
    LeaseMayLapse = TRUE
    ReplayInFlight = TRUE
    MaxCrashes = 1
    MaxReplays = 1
SPECIFICATION Spec
SYMMETRY Symmetry
INVARIANTS
    TypeOK
    DeliveredComplete
    CheckpointedInOrder
    TimelineOnce
    CheckpointMeansEffect
    RetryBudget
    SingleOwner
    InFlightHasLease
PROPERTIES
    ImplementsContract
