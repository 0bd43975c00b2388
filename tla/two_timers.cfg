\* Finding: a third server imports two active focus sessions.
SPECIFICATION Spec
CONSTANTS
    r1 = r1  r2 = r2  r3 = r3
    w1 = w1  w2 = w2  w3 = w3
    k1 = k1  k2 = k2
    rowA = rowA  rowB = rowB
    None = None
    Keys = {k1, k2}
    Bodies = {rowA}
    Scores <- MCScores
    FocusKeys = {k1, k2}
    ActiveBodies = {rowA}
    Replicas = {r1, r2, r3}
    Workers = {w1, w2, w3}
    Home <- Three
    Faults = {}
    MaxAttempts = 1
    MaxPasses = 1
    MaxEdits = 2
    MaxOps = 4
    MaxFaults = 0
INVARIANTS
    ImportsOneActive
