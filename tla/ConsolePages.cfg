SPECIFICATION MCSpec
CONSTANTS
    Slots = {s1, s2}
    None = None
    Day = 6
    Durations = {3, 4}
    Intervals = {1, 2, 3}
    ConsoleSteps = 4
    BoardPiles = {p1, p2}
    PileStates = {"idle", "offline"}
    FramesMax = 2
    BoardSteps = 3
    UserCount = 3
    UsersSteps = 3
    Incidents = {i1, i2}
    InviteCount = 3
    SystemSteps = 3
    Posts = {a1, a2}
    DeskSteps = 4
    PerPage = 1
    RevisionSteps = 4
    Ports = {t1, t2}
    Ranges = {"24h", "7d"}
    HistorySteps = 3
INVARIANTS
    WindowsAgree EstimatesAreExact ConsoleLocksAreLive SessionIsCurrent
     AnswersAreOfSelection ShownIsCurrent
PROPERTIES
    SnapshotsOnlyAdvance WritesAreInformed
CHECK_DEADLOCK FALSE
