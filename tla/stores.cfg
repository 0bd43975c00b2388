\* Attachments over the database, the storage and the retry queue; one tab of the game among other devices;
\* four files of two apps to move; a backup whose dump has at most two pieces; zones that change
\* their clocks at midnight, an hour around it or at noon; two tasks while a request counts them.
SPECIFICATION StoresSpec
CONSTANTS
    AssetRequests = {"q1", "q2"}
    Attachments = {"k1", "k2"}
    Anything = Anything
    MaxAttempts = 2
    MaxStorageFaults = 2
    Tabs = {"p1"}
    MaxScore = 1
    MaxBoards = 3
    Faults = TRUE
    NoHash = NoHash
    MovedApps = {"e1", "e2"}
    MovedNames = {"f1", "f2"}
    MaxMoveFaults = 2
    Schemas = {"s1"}
    MaxPieces = 2
    MaxChanges = 2
    MaxScriptFaults = 2
    DayLength = 8
    Eastward = 1
    Changes = {16, 19, 22, 23}
    NoChange = 99
    ZoneRequests = {"z1", "z2"}
    MaxZonePuts = 2
    MaxZoneFaults = 1
    CountedTasks = {"t1", "t2"}
    DayTicks = 2
    Opening = 2
    Closing = 4
    MaxCountWrites = 1
INVARIANTS
    FilesAccounted
    GameNotStolen
    FilesMoved
    SchemasFound
    RestoreRecoverable
    TodayFollowsSetting
    CountedOnce
PROPERTIES
    DanglingRowsGo
    BoardSentOrHeld

\* The bounds end every part.
CHECK_DEADLOCK FALSE
