----------------------------- MODULE MCBilling -----------------------------
EXTENDS Billing, TLC

CONSTANTS a1, a2, u1, u2, room, home

Symmetry == Permutations(Agents)
=============================================================================
