\* An article that may be run twice, two downloads, two recoveries that may
\* overlap and two workers of the outbox, with two faults.
CONSTANTS
    Article = {a1}
    Pipeline = {p1}
    Downloader = {t1, t2}
    Recoverer = {r1, r2}
    Dispatcher = {d1, d2}
    MaxRuns = 2
    MaxImages = 2
    MaxFaults = 2
SPECIFICATION FairSpec
CHECK_DEADLOCK FALSE
INVARIANTS
    TypeOK
    RecoveringIsOwned
    DownloadsBounded
    ShownOnceDownloaded
PROPERTIES
    PendingLeaves
