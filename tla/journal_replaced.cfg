\* Finding: a journaled publication whose rows moved on is replaced, not retained.
SPECIFICATION Spec
CONSTANTS
    r1 = r1  r2 = r2  r3 = r3
    w1 = w1  w2 = w2  w3 = w3
    k1 = k1  k2 = k2
    rowA = rowA  rowB = rowB
    None = None
    Keys = {k1}
    Bodies = {rowA, rowB}
    Scores <- MCScores
    FocusKeys = {}
    ActiveBodies = {}
    Replicas = {r1}
    Workers = {w1}
    Home <- Single
    Faults = {"lost-request"}
    MaxAttempts = 1
    MaxPasses = 2
    MaxEdits = 2
    MaxOps = 3
    MaxFaults = 1
SYMMETRY BodySymmetry
PROPERTIES
    JournalRetained
