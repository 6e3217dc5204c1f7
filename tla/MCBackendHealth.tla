---------------------------- MODULE MCBackendHealth ----------------------------
EXTENDS BackendHealth, TLC

CONSTANTS c1, c2

Symmetry == Permutations(Conns)
=============================================================================
