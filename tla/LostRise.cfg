SPECIFICATION Spec
CONSTANTS
    a = a
    Ports = {a}
    Shared = FALSE
    MaxFlips = 1
    MaxEvents = 3
    MaxRules = 1
    MaxClock = 0
    MaxCrashes = 1
INVARIANTS OwedIsRecoverable
