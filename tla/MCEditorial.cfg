\* Two editors of one draft, the scheduled run and a request that
\* publishes, with one fault.
CONSTANTS
    Draft = {d1}
    Dated = {d1}
    Editor = {e1, e2}
    Scheduler = {p1}
    Requester = {r1}
    MaxEdits = 2
    MaxMoves = 2
    MaxArtifacts = 2
    MaxFaults = 1
SPECIFICATION FairSpec
CHECK_DEADLOCK FALSE
INVARIANTS
    TypeOK
    HistoryComplete
    PublishedOnce
    EventFollows
PROPERTIES
    ScheduledLeaves
