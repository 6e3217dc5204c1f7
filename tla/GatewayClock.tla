----------------------------- MODULE GatewayClock -----------------------------
(***************************************************************************)
(* What the connection filter of the gateway is asked about: addresses,    *)
(* UserIdx values sniffed from the first packet, pairs of both, and time.  *)
(*                                                                         *)
(* A string key of the Go maps is a tagged tuple.  A tick is the unit in   *)
(* which the windows and durations of the configuration are given.         *)
(***************************************************************************)
EXTENDS Naturals

CONSTANTS
  Ips,      \* client addresses
  Uids,     \* values of DistConnectionIndex in login packets
  NoUid,    \* no login packet was sniffed (uid = 0)
  MaxNow    \* bound: the clock stops here

ASSUME ClockAssumption == NoUid \notin Uids /\ MaxNow \in Nat

VARIABLE now

IpKey(i)      == <<"ip", i>>
UidKey(u)     == <<"uid", u>>
PairKey(i, u) == <<"pair", i, u>>

FilterKeys == {IpKey(i) : i \in Ips} \cup {UidKey(u) : u \in Uids}
                \cup {PairKey(i, u) : i \in Ips, u \in Uids}

Kind(k) == k[1]

(* The keys a connection from i with the sniffed u is looked up under: all *)
(* three when a login packet was seen, the address alone when not.         *)
KeysOf(i, u) == {IpKey(i)} \cup IF u = NoUid THEN {} ELSE {UidKey(u), PairKey(i, u)}

Advance == now < MaxNow /\ now' = now + 1
=============================================================================
