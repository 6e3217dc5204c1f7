------------------------------ MODULE RateLimiter ------------------------------
(***************************************************************************)
(* The rate limiter of the gateway: one fixed window per key, opened by    *)
(* the first admission after the window before it has passed.              *)
(*                                                                         *)
(* CheckAll and the resets hold RateLimiter.mu from the first line to the  *)
(* last, so each is one action.  The proxy never calls CheckAll with       *)
(* isLogin = TRUE, so the login limits below constrain nothing.            *)
(***************************************************************************)
EXTENDS GatewayClock, Integers, Sequences, FiniteSets

CONSTANTS
  Window,     \* WindowSize
  Limited,    \* the kinds of key whose limit is enabled
  MaxConn,    \* per kind: ...MaxConnPerSec, 0 for no limit
  MaxLogin    \* per kind: ...MaxLoginPerSec

Kinds == {"ip", "uid", "pair"}

ASSUME LimiterAssumption ==
  /\ Window \in Nat \ {0}
  /\ Limited \subseteq Kinds
  /\ MaxConn \in [Kinds -> Nat]
  /\ MaxLogin \in [Kinds -> Nat]

VARIABLES
  records,    \* limitRecord of every key
  passed      \* history: times of the admissions since the key was last reset

limiterVars == <<records, passed>>

(* No record: the code makes records with Count 1 only. *)
NoRecord == [count |-> 0, start |-> 0, last |-> 0]

LimiterTypeOK ==
  /\ records \in [FilterKeys -> [count : Nat, start : Nat, last : Nat]]
  /\ passed \in [FilterKeys -> Seq(Nat)]

LimiterInit ==
  /\ records = [k \in FilterKeys |-> NoRecord]
  /\ passed  = [k \in FilterKeys |-> <<>>]

(* InWindow, with a window twice as long. *)
InWindowLong(k) == records[k].count > 0 /\ now - records[k].start <= 2 * Window

InWindow(k) == records[k].count > 0 /\ now - records[k].start <= Window

Full(k) ==
  /\ MaxConn[Kind(k)] > 0
  /\ InWindow(k)
  /\ records[k].count >= MaxConn[Kind(k)]

Checked(i, u) == {k \in KeysOf(i, u) : Kind(k) \in Limited}

(* updateRecord: count in the open window, or open a new one. *)
Counted(k) ==
  IF InWindow(k)
  THEN [records[k] EXCEPT !.count = @ + 1, !.last = now]
  ELSE [count |-> 1, start |-> now, last |-> now]

(* CheckAll counts the connection under all its keys, or under none. *)
Pass(i, u) ==
  /\ \A k \in Checked(i, u) : ~Full(k)
  /\ records' = [k \in FilterKeys |-> IF k \in Checked(i, u) THEN Counted(k) ELSE records[k]]
  /\ passed'  = [k \in FilterKeys |-> IF k \in Checked(i, u) THEN Append(passed[k], now)
                                                               ELSE passed[k]]

(* Limit, counting under the keys that would have let it in. *)
LimitCounting(i, u) ==
  /\ \E k \in Checked(i, u) : Full(k)
  /\ records' = [k \in FilterKeys |-> IF k \in Checked(i, u) /\ ~Full(k) THEN Counted(k)
                                                                      ELSE records[k]]
  /\ UNCHANGED passed

Limit(i, u) ==
  /\ \E k \in Checked(i, u) : Full(k)
  /\ UNCHANGED limiterVars

(* ResetIP and ResetUID; the record of the pair has no reset. *)
ResetLimit(k) ==
  /\ Kind(k) \in {"ip", "uid"}
  /\ records' = [records EXCEPT ![k] = NoRecord]
  /\ passed'  = [passed EXCEPT ![k] = <<>>]

CleanLimits ==
  /\ records' = [k \in FilterKeys |-> IF records[k].last < now - 3 * Window THEN NoRecord
                                                                           ELSE records[k]]
  /\ UNCHANGED passed

-----------------------------------------------------------------------------
LimiterStep ==
  \/ \E i \in Ips, u \in Uids \cup {NoUid} : Pass(i, u) \/ Limit(i, u)
  \/ \E k \in FilterKeys : ResetLimit(k)
  \/ CleanLimits

LimiterTick == Advance /\ UNCHANGED limiterVars

LimiterNext == (LimiterStep /\ UNCHANGED now) \/ LimiterTick

LimiterStart == LimiterInit /\ now = 0

LimiterSpec == LimiterStart /\ [][LimiterNext]_<<limiterVars, now>>

-----------------------------------------------------------------------------
(* Properties. *)

(* Admissions under k at the times t .. t + Window. *)
PassedIn(k, t) == Cardinality({j \in DOMAIN passed[k] : passed[k][j] \in t .. (t + Window)})

(* An open window has counted every admission since it opened, and no      *)
(* other, and a key without a record has admitted nothing for a window:    *)
(* the counts do not drift from the admissions, whatever the clean-up      *)
(* deletes and however the windows of the keys of a connection overlap.    *)
CountsAdmissions ==
  \A k \in FilterKeys :
    Kind(k) \in Limited =>
      /\ InWindow(k) =>
           records[k].count = Cardinality({j \in DOMAIN passed[k] : passed[k][j] >= records[k].start})
      /\ records[k].count = 0 =>
           \A j \in DOMAIN passed[k] : passed[k][j] < now - Window

(* What the fixed windows do guarantee: in any stretch of one window, never *)
(* more than twice the limit of a key is admitted.                         *)
AtMostTwice ==
  \A k \in FilterKeys, t \in 0 .. MaxNow :
    Kind(k) \in Limited /\ MaxConn[Kind(k)] > 0 => PassedIn(k, t) <= 2 * MaxConn[Kind(k)]

(* The records follow the admissions, and so bound them.                   *)
WindowsHold == LimiterTypeOK /\ CountsAdmissions /\ AtMostTwice

(* config.go:27, 33, 39: at most ...MaxConnPerSec connections of a key in  *)
(* one second.  The interval leaves its end out, the strictest reading in  *)
(* favour of the code.                                                     *)
LimitPerWindow ==
  \A k \in FilterKeys, t \in 0 .. MaxNow :
    Kind(k) \in Limited /\ MaxConn[Kind(k)] > 0 =>
      Cardinality({j \in DOMAIN passed[k] : passed[k][j] \in t .. (t + Window - 1)}) <= MaxConn[Kind(k)]

(* config.go:35: at most ...MaxLoginPerSec logins of a UserIdx.  A UserIdx *)
(* is known from a login packet only, so each admission under its key is a *)
(* login; twice the limit is allowed for the edge between two windows.     *)
LoginsLimited ==
  \A u \in Uids, t \in 0 .. MaxNow :
    "uid" \in Limited /\ MaxLogin["uid"] > 0 => PassedIn(UidKey(u), t) <= 2 * MaxLogin["uid"]
=============================================================================
