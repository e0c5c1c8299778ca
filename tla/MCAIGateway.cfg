\* Two requests in flight, two providers, and a failing Redis command or a
\* death; two attempts each, and one failure opens a circuit.
CONSTANTS
    Caller = {c1, c2}
    Providers = 2
    Threshold = 1
    MaxAttempts = 2
    DailyLimit = 1
    MaxFaults = 1
SPECIFICATION Spec
SYMMETRY Symmetry
INVARIANTS
    TypeOK
    BudgetOverrun
    OpenStopsCalls
