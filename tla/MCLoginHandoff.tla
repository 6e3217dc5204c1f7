--------------------------- MODULE MCLoginHandoff ---------------------------
EXTENDS LoginHandoff, TLC

CONSTANTS d1, d2, a1, a2, dc1, dc2, dc3, c1, c2, c3, s1, s2, s3, s4, u1, u2

OneDist  == [x \in DConns |-> d1]
TwoDists == [x \in DConns |-> IF x = dc1 THEN d1 ELSE d2]

OneAgentHome == [x \in AConns |-> a1]
SpreadHome   == [x \in AConns |-> IF x = c1 THEN a1 ELSE a2]

Symmetry == Permutations(Slots) \cup Permutations(DConns) \cup Permutations(AConns)
              \cup Permutations(Users)

(* Agents exchanged together with the connections that belong to them. *)
AgentSwap ==
  Permutations(Slots) \cup {a1 :> a2 @@ a2 :> a1 @@ c1 :> c2 @@ c2 :> c1}
=============================================================================
