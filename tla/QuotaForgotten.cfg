SPECIFICATION Spec
CONSTANTS
    u1 = u1
    u2 = u2
    p1 = p1
    Users = {u1}
    Piles = {p1}
    Quota = 1
    Openings = 1
    Events = 0
INVARIANTS DailyQuotaHolds
