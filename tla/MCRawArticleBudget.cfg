\* One article that two planners, a worker, a replay and a crawl change at the
\* same time, with two attempts.
CONSTANTS
    t1 = t1
    t2 = t2
    Nobody = Nobody
    Raw = {1}
    TitlesOf <- OneTitle
    Unparseable = {}
    Planner = {p1, p2}
    Celery = {c1}
    Api = {}
    Replayer = {x1}
    EnqueueLimit = 1
    RecoverLimit = 1
    MaxRetries = 2
    MaxArticles = 1
    MaxFaults = 0
    MaxRevisions = 1
SPECIFICATION Spec
INVARIANTS
    GivenUpExhausted
    RetryBudget
