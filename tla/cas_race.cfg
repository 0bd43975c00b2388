\* Two servers race for one head; the acknowledgement of a PUT or of a commit is lost.
SPECIFICATION Spec
CONSTANTS
    r1 = r1  r2 = r2  r3 = r3
    w1 = w1  w2 = w2  w3 = w3
    k1 = k1  k2 = k2
    rowA = rowA  rowB = rowB
    None = None
    Keys = {k1}
    Bodies = {rowA, rowB}
    Scores <- MCScores
    FocusKeys = {}
    ActiveBodies = {}
    Replicas = {r1, r2}
    Workers = {w1, w2}
    Home <- OneEach
    Faults = {"lost-ack", "lost-commit"}
    MaxAttempts = 1
    MaxPasses = 2
    MaxEdits = 2
    MaxOps = 3
    MaxFaults = 1
SYMMETRY BodySymmetry
INVARIANTS
    TypeOK
    Provenance
PROPERTIES
    NoSilentLoss
    NoLostUpdate
    OneHistory
