--------------------------- MODULE ConnectionFilter ---------------------------
(***************************************************************************)
(* Steps 1 and 2 of handleConnection: what a new connection is asked before*)
(* a backend is chosen for it, with the lists and the limiter it shares    *)
(* with the other connections and with the administrator.                  *)
(*                                                                         *)
(* Each question takes and gives back a lock of its own: one for the white *)
(* list, one for each of the black lists, one for the limiter, one for     *)
(* RecordReject.  Between two of them anything may happen.                 *)
(***************************************************************************)
EXTENDS RateLimiter, Blacklist

CONSTANT Conns    \* connections that can be open at a time

VARIABLES
  conn,    \* where each connection is: its stage, address, UserIdx and verdict
  stood,   \* history: its keys that were banned at every moment since it was sniffed
  seen     \* history: its keys that were banned at some moment since then

watchVars == <<stood, seen>>

vars == <<limiterVars, blackVars, conn, watchVars, now>>

Lookups == {"ip", "uid", "pair"}
Stages  == {"white", "limit", "learn", "admitted", "refused"} \cup Lookups

NoConn == [at |-> "free", ip |-> NoUid, uid |-> NoUid, by |-> "none"]

ConnTypeOK ==
  /\ conn \in [Conns -> {NoConn} \cup
                 [at : Stages, ip : Ips, uid : Uids \cup {NoUid},
                  by : {"none", "white", "ban", "limit", "all"}]]
  /\ stood \in [Conns -> SUBSET FilterKeys]
  /\ seen \in [Conns -> SUBSET FilterKeys]

TypeOK == LimiterTypeOK /\ BlacklistTypeOK /\ ConnTypeOK

Init ==
  /\ LimiterInit
  /\ BlacklistInit
  /\ now = 0
  /\ conn  = [c \in Conns |-> NoConn]
  /\ stood = [c \in Conns |-> {}]
  /\ seen  = [c \in Conns |-> {}]

MyKeys(c) == KeysOf(conn[c].ip, conn[c].uid)

BannedKeys(c) == {k \in MyKeys(c) : Banned(k)}

-----------------------------------------------------------------------------
(* The steps of one connection. *)

(* Accept, and the first read, which finds a login packet or does not. *)
Sniff(c, i, u) ==
  /\ conn[c].at = "free"
  /\ conn' = [conn EXCEPT ![c] = [at |-> "white", ip |-> i, uid |-> u, by |-> "none"]]
  /\ UNCHANGED <<limiterVars, blackVars>>

Goto(c, stage, why) ==
  conn' = [conn EXCEPT ![c].at = stage, ![c].by = why]

AskWhitelist(c) ==
  /\ conn[c].at = "white"
  /\ ~writing
  /\ IF conn[c].ip \in white THEN Goto(c, "admitted", "white") ELSE Goto(c, "ip", "none")
  /\ UNCHANGED <<limiterVars, blackVars>>

(* NextLookup, with the combined list forgotten. *)
NextLookupOfTwo(c) ==
  IF conn[c].at = "ip" /\ conn[c].uid # NoUid THEN "uid" ELSE "limit"

NextLookup(c) ==
  CASE conn[c].at = "ip" -> IF conn[c].uid = NoUid THEN "limit" ELSE "uid"
    [] conn[c].at = "uid" -> "pair"
    [] OTHER -> "limit"

KeyAsked(c) ==
  CASE conn[c].at = "ip" -> IpKey(conn[c].ip)
    [] conn[c].at = "uid" -> UidKey(conn[c].uid)
    [] OTHER -> PairKey(conn[c].ip, conn[c].uid)

(* LookUp, taking an entry for a ban whether it is over or not. *)
LookUpAnyEntry(c) ==
  /\ conn[c].at \in Lookups
  /\ ~writing
  /\ IF bans[KeyAsked(c)] # NoBan THEN Goto(c, "refused", "ban")
                                  ELSE Goto(c, NextLookup(c), "none")
  /\ UNCHANGED <<limiterVars, blackVars>>

(* One of the three lookups of IsBlacklisted. *)
LookUp(c) ==
  /\ conn[c].at \in Lookups
  /\ ~writing
  /\ IF Banned(KeyAsked(c)) THEN Goto(c, "refused", "ban") ELSE Goto(c, NextLookup(c), "none")
  /\ UNCHANGED <<limiterVars, blackVars>>

CheckAll(c) ==
  /\ conn[c].at = "limit"
  /\ \/ Pass(conn[c].ip, conn[c].uid) /\ Goto(c, "admitted", "all")
     \/ Limit(conn[c].ip, conn[c].uid) /\ Goto(c, "learn", "limit")
  /\ UNCHANGED blackVars

Learn(c) ==
  /\ conn[c].at = "learn"
  /\ Len(rejects[LearnKey(conn[c].ip, conn[c].uid)]) < MaxRejects
  /\ RecordReject(conn[c].ip, conn[c].uid)
  /\ Goto(c, "refused", "limit")
  /\ UNCHANGED limiterVars

(* The connection is over, and with it what it knew. *)
End(c) ==
  /\ conn[c].at \in {"admitted", "refused"}
  /\ conn' = [conn EXCEPT ![c] = NoConn]
  /\ UNCHANGED <<limiterVars, blackVars>>

ConnStep(c) ==
  \/ \E i \in Ips, u \in Uids \cup {NoUid} : Sniff(c, i, u)
  \/ AskWhitelist(c) \/ LookUp(c) \/ CheckAll(c) \/ Learn(c) \/ End(c)

-----------------------------------------------------------------------------
(* The administrator and the routines of the gateway. *)

Others ==
  /\ \/ (AdminStep \/ Save \/ CleanupExpired) /\ UNCHANGED limiterVars
     \/ ((\E k \in FilterKeys : ResetLimit(k)) \/ CleanLimits) /\ UNCHANGED blackVars
  /\ UNCHANGED conn

RestartGateway ==
  /\ Restart
  /\ records' = [k \in FilterKeys |-> NoRecord]
  /\ passed'  = [k \in FilterKeys |-> <<>>]
  /\ conn' = [c \in Conns |-> NoConn]

TimePasses == Advance /\ UNCHANGED <<limiterVars, blackVars, conn>>

(* What the history variables see of a step. *)
Watch ==
  /\ stood' = [c \in Conns |-> IF conn'[c] = NoConn THEN {}
                               ELSE IF conn[c] = NoConn THEN BannedKeys(c)'
                               ELSE stood[c] \cap BannedKeys(c)']
  /\ seen'  = [c \in Conns |-> IF conn'[c] = NoConn THEN {} ELSE seen[c] \cup BannedKeys(c)']

Next ==
  /\ \/ ((\E c \in Conns : ConnStep(c)) \/ Others \/ RestartGateway) /\ UNCHANGED now
     \/ TimePasses
  /\ Watch

Spec == Init /\ [][Next]_vars

-----------------------------------------------------------------------------
(* Properties. *)

(* README.md:40-49: a connection that is let in and is not on the white    *)
(* list had none of its keys banned from the moment it was sniffed on.     *)
(* Bans that come and go between its lookups may or may not be seen, but   *)
(* one that stands the whole time is never slipped past.                   *)
AdmittedWasAllowed ==
  \A c \in Conns :
    conn[c].at = "admitted" /\ conn[c].by # "white" => stood[c] = {}

(* README.md:42: nobody is refused for a ban that is over.  A connection   *)
(* refused by the black list had one of its keys banned while it was asked.*)
RefusedWasBanned ==
  \A c \in Conns : conn[c].by = "ban" => seen[c] # {}

(* limiter.go:143: a connection is refused by the limiter only if one of   *)
(* its keys has let its full number in within the last window; connections *)
(* refused or held back elsewhere have not used it up.                     *)
LimitedWasFull ==
  [][\A c \in Conns :
       conn[c].at = "limit" /\ conn'[c].by = "limit" =>
         \E k \in Checked(conn[c].ip, conn[c].uid) :
           /\ MaxConn[Kind(k)] > 0
           /\ PassedIn(k, now - Window) >= MaxConn[Kind(k)]]_vars

(* README.md:475: what is banned automatically is the UserIdx, other users *)
(* of its address are not affected.                                        *)
BanHitsOffenders ==
  [][\A c \in Conns :
       LET b == bans[IpKey(conn[c].ip)] IN
       conn[c].at = "ip" /\ conn'[c].by = "ban" /\ b.by = "auto" =>
         rejects[LearnKey(conn[c].ip, conn[c].uid)] # <<>>]_vars
=============================================================================
