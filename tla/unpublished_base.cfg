\* Finding: a retried PUT records rows the head does not hold as their base.
SPECIFICATION Spec
CONSTANTS
    r1 = r1  r2 = r2  r3 = r3
    w1 = w1  w2 = w2  w3 = w3
    k1 = k1  k2 = k2
    rowA = rowA  rowB = rowB
    None = None
    Keys = {k1, k2}
    Bodies = {rowA, rowB}
    Scores <- MCScores
    FocusKeys = {}
    ActiveBodies = {}
    Replicas = {r1}
    Workers = {w1}
    Home <- Single
    Faults = {"lost-request"}
    MaxAttempts = 1
    MaxPasses = 2
    MaxEdits = 4
    MaxOps = 4
    MaxFaults = 1
SYMMETRY BodySymmetry
PROPERTIES
    NoSilentLoss
