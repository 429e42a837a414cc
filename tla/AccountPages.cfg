SPECIFICATION MCSpec
CONSTANTS
    None = None
    Slots = {k1, k2}
    Users = {u1, u2}
    Uids = {w1, w2}
    Sessions = {b1, b2}
    Requests = {h1, h2}
    MaxFaults = 1
    NoUid = NoUid
    NoUser = NoUser
    NoSession = NoSession
    Events = {e1, e2}
    CardSteps = 5
    Scans = {q1, q2}
    ScanSteps = 8
    SettingsSteps = 3
    Rules = {r1, r2}
    Piles = {p1, p2}
    WatchSteps = 3
    Notices = {n1, n2}
    Issues = {n1}
    Filters = {"all", "unread"}
    PageSize = 1
    QueueMax = 2
    Repeats = 2
    InboxSteps = 3
INVARIANTS
    TypeOK UidIsUnique OneOpenSession BoundByOwnScan
    PagesTypeOK PagesLocksAreLive RulesMatchBackend InboxIsExact AccountIsCurrent
SYMMETRY SlotSymmetry
CHECK_DEADLOCK FALSE
