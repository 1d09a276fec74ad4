--------------------------- MODULE MCAccountPool ---------------------------
EXTENDS AccountPool, TLC

CONSTANTS r1, r2, m1, m2

Symmetry == Permutations({r1, r2}) \cup Permutations({m1, m2})
=============================================================================
