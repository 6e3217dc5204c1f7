------------------------- MODULE MCForwardConnection -------------------------
(* The limiter decides whether a connection goes on, forwardConnection     *)
(* carries what goes on, and they share no state: one run checks each by   *)
(* itself.  Which of the two moves is chosen in the beginning.             *)
EXTENDS ForwardConnection, RateLimiter, TLC

CONSTANTS i1, x1, x2

VARIABLE moving

TightLimits == [ip |-> 2, uid |-> 2, pair |-> 1]
LooseLimits == [ip |-> 3, uid |-> 3, pair |-> 0]
LoginLimits == [ip |-> 1, uid |-> 1, pair |-> 1]

Symmetry == Permutations(Uids)

AnyInit == Init /\ LimiterStart /\ moving \in {"limiter", "connection"}

AnyNext ==
  /\ \/ moving = "connection" /\ Next /\ UNCHANGED <<limiterVars, now>>
     \/ moving = "limiter" /\ LimiterNext /\ UNCHANGED vars
  /\ UNCHANGED moving

AnySpec ==
  /\ AnyInit
  /\ [][AnyNext]_<<vars, limiterVars, now, moving>>
  /\ moving = "connection" => Fairness
=============================================================================
