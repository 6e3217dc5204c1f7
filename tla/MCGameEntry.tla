---------------------------- MODULE MCGameEntry ----------------------------
EXTENDS GameEntry, TLC

CONSTANTS c1, c2, u1, u2, x1, x2, m1, m2

(* The account u1 has a character, u2 has to make its own first. *)
Owners == (x1 :> u1) @@ (x2 :> u2)

Symmetry == Permutations(Conns) \cup Permutations(Maps)
=============================================================================
