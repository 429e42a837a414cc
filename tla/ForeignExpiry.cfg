SPECIFICATION Spec
CONSTANTS
    u1 = u1
    u2 = u2
    p1 = p1
    Users = {u1, u2}
    Piles = {p1}
    Quota = 2
    Openings = 0
    Events = 1
INVARIANTS ExpiryIsAttributable
