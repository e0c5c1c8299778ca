\* Leases outlive the work under them and nobody replays a held event: the
\* deployment that the documentation describes.
CONSTANTS
    NoWorker = NoWorker
    Worker = {w1, w2}
    Event = {1, 2}
    TypeOf <- MergeAndRefresh
    Concerns <- All2
    MaxRetries = 2
    BatchSize = 2
    FaultsHappen = TRUE
    LeaseMayLapse = FALSE
    ReplayInFlight = FALSE
    MaxCrashes = 1
    MaxReplays = 1
SPECIFICATION FairSpec
PROPERTIES
    EventuallySettled
