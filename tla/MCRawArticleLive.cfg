\* A planner, a Celery worker and a replay; the second article has no text.
CONSTANTS
    t1 = t1
    t2 = t2
    Nobody = Nobody
    Raw = {1, 2}
    TitlesOf <- TwoRaws
    Unparseable = {2}
    Planner = {p1}
    Celery = {c1}
    Api = {}
    Replayer = {x1}
    EnqueueLimit = 1
    RecoverLimit = 1
    MaxRetries = 1
    MaxArticles = 1
    MaxFaults = 1
    MaxRevisions = 0
SPECIFICATION FairSpec
 
PROPERTIES QueuedLeaves
