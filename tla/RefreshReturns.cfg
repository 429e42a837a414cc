SPECIFICATION MCFairSpec
CONSTANTS
    u1 = u1
    u2 = u2
    p1 = p1
    Users = {u1, u2}
    Piles = {p1}
    Quota = 1
    Openings = 1
    Events = 1
    Together = 0
    Alone = 1
PROPERTY EveryRefreshReturns
