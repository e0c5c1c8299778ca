\* Two requests in flight and one provider, no fault; two failures open the
\* circuit.
CONSTANTS
    Caller = {c1, c2}
    Providers = 1
    Threshold = 2
    MaxAttempts = 2
    DailyLimit = 2
    MaxFaults = 0
SPECIFICATION FairSpec
PROPERTIES
    OpenCircuitProbed
