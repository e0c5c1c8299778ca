\* One article, one of each process, no fault.
CONSTANTS
    Article = {a1}
    Pipeline = {p1}
    Downloader = {t1}
    Recoverer = {r1}
    Dispatcher = {d1}
    MaxRuns = 1
    MaxImages = 1
    MaxFaults = 0
SPECIFICATION Spec
CHECK_DEADLOCK FALSE
INVARIANTS
    EnrichmentCompletes
