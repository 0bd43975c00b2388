\* Each part of the page: overlapping requests, answers out of order, other writers.
\* An item sends its columns as a task or an alarm does, always, and its categories as a
\* note does its fields, when they differ.
SPECIFICATION PageSpec
CONSTANTS
    UserActions = {"configure", "link"}
    Interval = 1
    MinDelay = 1
    FollowLimit = 1
    MaxStatus = 2
    MaxLane = 1
    EditorKinds = {"item"}
    MaxOthers = 1
    SIZE = 3
    MaxTile = 8
    Observers = {"o1", "o2"}
    MaxFocusIds = 1
    MaxVersion = 3
    Listeners = {"o1", "o2"}
    Verified = {"c1", "c2"}
    LedgerLimit = 1
    MaxEpoch = 2
    CardCount = 3
    CanvasUnits = {3, 5}
    Reference = 5
    MaxRow = 0
    MaxSession = 1
    People = {"u1", "u2"}
    Admin = "u1"
    MaxLogins = 2
    Calls = {"c1", "c2"}
    MaxOutages = 1
    ShelfApps = {"a1", "a2"}
    Nicknames = {"n1"}
    MaxRefreshes = 1
    MaxPuts = 2
    MaxShelfFaults = 1
    ListPages = {"notes", "tasks", "items"}
    NoWord = NoWord
    Words = {"w1"}
    Labels = {"l1"}
    DeepLinks <- MCLinks
    Tables <- MCTables
    MaxTurns = 2
    MaxListWrites = 1
    MaxListFaults = 1
    Alarms = {"a1"}
    Minute = 2
    DayMinutes = 2
    Week = 2
    Schedules <- MCSchedules
    MaxTime = 6
    MaxAlarmEdits = 1
    MaxAlarmFaults = 1
    MaxMounts = 2
INVARIANTS
    PeerReadNotOlder
    DraftsHonoured
    TilesAgree
    ObserversAgree
    CardsDisjoint
    ListFollowsFilters
    SpentAsRung
PROPERTIES
    OutageKeepsUser
    EditsKeepOthers
    RingsAsAnnounced

\* A user may stop, and the bounds end every part.
CHECK_DEADLOCK FALSE
