----------------------------- MODULE MCChatRelay -----------------------------
EXTENDS ChatRelay

CONSTANTS p1, p2, p3, t1, a1, a2

Symmetry == Permutations(Players) \cup Permutations(Agents)
=============================================================================
