---------------------------- MODULE MCBlacklistFile ----------------------------
EXTENDS BlacklistFile, TLC

CONSTANTS i1, i2, x1, x2

Symmetry == Permutations(Ips) \cup Permutations(Uids)
=============================================================================
