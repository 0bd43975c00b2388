-------------------------- MODULE MCContinuousSync --------------------------
EXTENDS SyncInvariants, TLC

CONSTANTS r1, r2, r3, w1, w2, w3, k1, k2, rowA, rowB

MCScores == {NoScore}
Single == w1 :> r1
OneEach == w1 :> r1 @@ w2 :> r2
Three == w1 :> r1 @@ w2 :> r2 @@ w3 :> r3
Both == w1 :> r1 @@ w2 :> r1
BodySymmetry == Permutations(Bodies)
=============================================================================
