\* Liveness, without symmetry and under FairSpec: edits stop, one acknowledgement is lost.
SPECIFICATION FairSpec
CONSTANTS
    r1 = r1  r2 = r2  r3 = r3
    w1 = w1  w2 = w2  w3 = w3
    k1 = k1  k2 = k2
    rowA = rowA  rowB = rowB
    None = None
    Keys = {k1}
    Bodies = {rowA}
    Scores <- MCScores
    FocusKeys = {}
    ActiveBodies = {}
    Replicas = {r1, r2}
    Workers = {w1, w2}
    Home <- OneEach
    Faults = {"lost-ack"}
    MaxAttempts = 1
    MaxPasses = 2
    MaxEdits = 2
    MaxOps = 5
    MaxFaults = 1
PROPERTIES
    Settles
