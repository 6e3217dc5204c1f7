---------------------------- MODULE MCChatRooms ----------------------------
EXTENDS ChatRooms, TLC

CONSTANTS p1, p2, p3, t1, t2

Symmetry == Permutations(Players)
=============================================================================
