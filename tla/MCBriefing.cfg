\* Two runs, two requests about the subscription and two webhooks at once, taken
\* together as Apart says.
CONSTANTS
    Subscriber = {s1}
    Address = {a1, a2}
    Form = {f1, f2}
    Worker = {w1, w2}
    Hook = {h1, h2}
    MaxEditions = 2
    MaxTests = 1
    MaxFaults = 1
    MaxChanges = 3
    MaxEvents = 2
SPECIFICATION Spec
SYMMETRY Symmetry
CONSTRAINT Apart
CHECK_DEADLOCK FALSE
INVARIANTS
    TypeOK
    EnabledIsVerified
    SentMeansAccepted
    SentOnce
PROPERTIES
    StoriesKept
    NeverUnsent
