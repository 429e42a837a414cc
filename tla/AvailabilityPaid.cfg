SPECIFICATION Spec
CONSTANTS
    a = a
    Ports = {a}
    Shared = TRUE
    MaxFlips = 2
    MaxEvents = 3
    MaxRules = 1
    MaxClock = 0
    MaxCrashes = 0
PROPERTY OwedIsPaid
