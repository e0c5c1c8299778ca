\* Two articles, one of them short-lived, a reader and a refresher, and one fault.
CONSTANTS
    Article = {x1, x2}
    Reader = {r1}
    Refresher = {w1}
    ShortLived = {x2}
    MinStories = 1
    Floor = 1
    MaxStories = 2
    MaxFaults = 1
SPECIFICATION FairSpec
INVARIANTS
    TypeOK
    NoExpiredRanked
PROPERTIES
    ExpiredLeaves
