--------------------------- MODULE MCAppLifecycle ---------------------------
EXTENDS AppLifecycle, TLC

CONSTANTS a1, a2, q1, q2

Interchangeable == Permutations(Apps) \union Permutations(Requests)
=============================================================================
