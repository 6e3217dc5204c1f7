-------------------------- MODULE MCConnectionFilter --------------------------
EXTENDS ConnectionFilter, TLC

CONSTANTS i1, x1, x2, c1, c2

OnePerIp   == [ip |-> 1, uid |-> 0, pair |-> 0]
NoLogins   == [ip |-> 0, uid |-> 0, pair |-> 0]

AdminPair  == {<<"pair", i1, x1>>}

Symmetry == Permutations(Conns)
=============================================================================
