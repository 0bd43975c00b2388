\* Each part of the backend on its own: two requests, pages or runs on a few records, and the faults the code handles.
SPECIFICATION BackendSpec
CONSTANTS
    x1 = x1  x2 = x2  y1 = y1  y2 = y2  n1 = n1
    None = None
    Apps = {y1, y2}
    Requests = {x1, x2}
    MaxToggles = 4
    MaxFailures = 2
    FocusRequests = {x1, x2}
    Fenced = FALSE
    Durations = {2}
    LastSecond = 2
    MaxDelay = 1
    MaxSessions = 2
    MaxRevision = 2
    NoHash = NoHash
    Notes = {n1}
    TagNames = {"a"}
    LinkApps = {"notes", "assets"}
    NotePages = {x1, x2}
    MaxText = 2
    MaxTagRows = 2
    Tasks = {"t1"}
    TaskPages = {x1, x2}
    Instants = {1, 2}
    MaxWrites = 3
    WorldClocks = {y1, y2}
    ClockPages = {x1, x2}
    MaxPlace = 3
    MaxSaves = 2
    BackupRuns = {x1, x2}
    BackupObjects = {y1, y2}
    Destinations = {"d1"}
    MaxEdits = 2
    MaxRemoteFaults = 1
    NoRun = NoRun
    MergeTags = {x1, x2}
    MergeNames = {"m1", "m2"}
    MergeFiles = {"f1"}
    StagedKeys = {y1, y2}
    MaxUserEdits = 2
    NoKey = NoKey
    Owners = {"s0", "u1", "u2"}
    Seed = "s0"
    LoginNames = {"admin", "bob"}
    Passwords = {"p", "q"}
    Bootstraps = {"b1"}
    Logins = {"l1"}
    SyncRequests = {x1, x2}
    Contents = {"c1"}
    NoContent = NoContent
    NoRequest = NoRequest
    MaxKept = 0
    MaxKeys = 2
    MaxSyncFaults = 2
    Devices = {x1, x2}
    ItemIds = {"i1"}
    CategoryIds = {y1, y2}
    Texts = {"a", "b"}
    Names = {"n", "m"}
    Absent = Absent
    MaxGraphEdits = 2
SYMMETRY Interchangeable
INVARIANTS
    DisabledIsQuiet
    RunsWhileEnabled
    IntentKept
    SessionsEndOnce
    NoBlindWrite
    PatchesAgree
    ClockWritesOrdered
    BackupsRestorable
    RetrySafe
    SyncFilesKept
    Appliable
PROPERTIES
    BootstrapOnce

\* Nobody has to do anything, and the bounds end every part.
CHECK_DEADLOCK FALSE
