\* Two requests of one server: crashes, stalls past the lease, lost requests and answers, pauses, on a
\* collection that is rolled back or emptied and a link that is dropped and made again.
SPECIFICATION Spec
CONSTANTS
    r1 = r1  r2 = r2  r3 = r3
    w1 = w1  w2 = w2  w3 = w3
    k1 = k1  k2 = k2
    rowA = rowA  rowB = rowB
    None = None
    Keys = {k1}
    Bodies = {rowA, rowB}
    Scores <- MCScores
    FocusKeys = {}
    ActiveBodies = {}
    Replicas = {r1}
    Workers = {w1, w2}
    Home <- Both
    Faults = {"lost-ack", "crash", "stall", "lost-request", "rollback", "cloud-loss", "unlink", "pause", "lost-commit", "network"}
    MaxAttempts = 1
    MaxPasses = 2
    MaxEdits = 2
    MaxOps = 3
    MaxFaults = 2
SYMMETRY BodySymmetry
INVARIANTS
    HeadsOK
PROPERTIES
    AcceptedMonotone
    NoSilentLoss
