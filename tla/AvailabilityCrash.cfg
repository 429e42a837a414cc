SPECIFICATION Spec
CONSTANTS
    a = a
    Ports = {a}
    Shared = TRUE
    MaxFlips = 1
    MaxEvents = 3
    MaxRules = 1
    MaxClock = 1
    MaxCrashes = 1
INVARIANTS TypeOK FirstIsTold NoticeIsFresh NotifiesOnce
