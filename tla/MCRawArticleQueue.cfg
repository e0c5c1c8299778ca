\* A planner, a Celery worker and an API process on one article that may be
\* renamed once.
CONSTANTS
    t1 = t1
    t2 = t2
    Nobody = Nobody
    Raw = {1}
    TitlesOf <- TwoTitles
    Unparseable = {}
    Planner = {p1}
    Celery = {c1}
    Api = {a1}
    Replayer = {}
    EnqueueLimit = 1
    RecoverLimit = 1
    MaxRetries = 1
    MaxArticles = 2
    MaxFaults = 1
    MaxRevisions = 1
SPECIFICATION Spec
INVARIANTS
    TypeOK
    PublishedTogether
    ProcessedHasArticle
    OneArticle
SYMMETRY Symmetry
