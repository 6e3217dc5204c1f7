----------------------------- MODULE BackendHealth -----------------------------
(***************************************************************************)
(* How the gateway chooses a backend, what it learns of the backends from  *)
(* the traffic, and the routine that lets them recover (one forwarding     *)
(* rule, proxy.go and the ProtocolStats of protocol.go).                   *)
(*                                                                         *)
(* Connections take the locks of the RouteEntry one at a time: between     *)
(* choosing a backend, dialling it and marking it down the others go on.   *)
(* checkBackends does not take RouteEntry.mu at all.  Its writes to the    *)
(* counters race with the increments of the connections: Raced.            *)
(*                                                                         *)
(* TotalBackendResponses and TotalHeartbeatResponses are never incremented *)
(* by the code; they are the constant 0 here.                              *)
(***************************************************************************)
EXTENDS Integers, FiniteSets, FiniteSetsExt

CONSTANTS
  N,            \* number of BackendAddrs of the rule
  Strategy,     \* LBStrategy
  Conns,        \* connections that can be open at a time
  DownAfter,    \* 10: more timeouts than this mean "down"
  MinLogins,    \* 5: logins from which the failure rate counts
  MinBeats,     \* 3: heartbeats from which the loss rate counts
  MaxIdle,      \* bound: rounds of 30 s without traffic that are told apart
  MaxTraffic,   \* bound: what clients and backends do, in all
  MaxOutages    \* bound: how often backends go down

ASSUME HealthAssumption ==
  /\ N \in Nat \ {0}
  /\ Strategy \in {"round_robin", "least_conn", "random"}
  /\ DownAfter \in Nat /\ MinLogins \in Nat \ {0} /\ MinBeats \in Nat \ {0}
  /\ MaxIdle \in 1 .. 5
  /\ MaxTraffic \in Nat /\ MaxOutages \in Nat

Backends == 1 .. N

VARIABLES
  up,          \* whether the backend accepts TCP connections: the truth
  alive,       \* BackendAlive
  protoStats,  \* the counters of ProtoStats
  idle,        \* rounds of 30 s since LastUpdateTime
  conns,       \* BackendConns
  conn,        \* where each connection is, and its backend
  checker,     \* where checkBackends is
  traffic,     \* what is left of MaxTraffic
  outages,     \* what is left of MaxOutages
  trouble      \* history: backends that have ever been down

worldVars == <<up, outages, trouble>>
healthVars == <<worldVars, alive, protoStats, idle, conns, conn, checker, traffic>>

Counters == {"logins", "acks", "nacks", "beats", "timeouts"}
NoStats  == [f \in Counters |-> 0]
NoConn   == [at |-> "none", b |-> 0]
Resting  == [at |-> "rest", b |-> 1]

HealthTypeOK ==
  /\ up \in [Backends -> BOOLEAN]
  /\ alive \in [Backends -> BOOLEAN]
  /\ protoStats \in [Backends -> [Counters -> 0 .. MaxTraffic]]
  /\ idle \in [Backends -> 0 .. MaxIdle]
  /\ conns \in [Backends -> 0 .. MaxTraffic]
  /\ conn \in [Conns -> [at : {"none", "accepted"}, b : {0}]
                          \cup [at : {"chosen", "failed", "open"}, b : Backends]]
  /\ checker \in [at : {"rest", "look", "revive", "clear", "revived", "cleared"}, b : Backends]
  /\ traffic \in 0 .. MaxTraffic
  /\ outages \in 0 .. MaxOutages
  /\ trouble \subseteq Backends

HealthInit ==
  /\ up         = [b \in Backends |-> TRUE]
  /\ alive      = [b \in Backends |-> TRUE]
  /\ protoStats = [b \in Backends |-> NoStats]
  /\ idle       = [b \in Backends |-> 0]
  /\ conns      = [b \in Backends |-> 0]
  /\ conn       = [c \in Conns |-> NoConn]
  /\ checker    = Resting
  /\ traffic    = MaxTraffic
  /\ outages    = MaxOutages
  /\ trouble    = {}

-----------------------------------------------------------------------------
(* CalcCrashRisk, with the rates multiplied out. *)

NormalRisk == 0    DegradedRisk == 1    CriticalRisk == 2    DownRisk == 3

CalcCrashRisk(s) ==
  CASE s.timeouts > DownAfter -> DownRisk
    [] s.logins >= MinLogins /\ 2 * s.nacks >= s.logins -> CriticalRisk
    [] s.logins >= MinLogins /\ 10 * s.nacks >= 3 * s.logins -> DegradedRisk
    [] s.beats >= MinBeats -> DegradedRisk
    [] OTHER -> NormalRisk

Risk(b) == CalcCrashRisk(protoStats[b])
Bad(b)  == Risk(b) \in {CriticalRisk, DownRisk}

Alive == {b \in Backends : alive[b]}

IsBackendCritical == Alive # {} /\ \A b \in Alive : Bad(b)

Available == {b \in Alive : Risk(b) # DownRisk}

(* roundRobinSelect takes the first, leastConnSelect the first of the       *)
(* fewest, randomSelect any.                                                *)
Selected ==
  CASE Strategy = "round_robin" -> {Min(Available)}
    [] Strategy = "least_conn" ->
         {Min({b \in Available : \A x \in Available : conns[b] <= conns[x]})}
    [] OTHER -> Available

-----------------------------------------------------------------------------
(* A new connection: acceptLoop and step 3 of handleConnection. *)

Spend == traffic > 0 /\ traffic' = traffic - 1

Accept(c) ==
  /\ conn[c].at = "none"
  /\ ~IsBackendCritical
  /\ Spend
  /\ conn' = [conn EXCEPT ![c].at = "accepted"]
  /\ UNCHANGED <<worldVars, alive, protoStats, idle, conns, checker>>

SelectBackend(c) ==
  /\ conn[c].at = "accepted"
  /\ \/ /\ Available = {}
        /\ conn' = [conn EXCEPT ![c] = NoConn]
     \/ /\ Available # {}
        /\ \E b \in Selected : conn' = [conn EXCEPT ![c] = [at |-> "chosen", b |-> b]]
  /\ UNCHANGED <<worldVars, alive, protoStats, idle, conns, checker, traffic>>

(* net.Dial succeeds: recordBackendConn. *)
Dialled(c) ==
  /\ conn[c].at = "chosen"
  /\ up[conn[c].b]
  /\ conn'  = [conn EXCEPT ![c].at = "open"]
  /\ conns' = [conns EXCEPT ![conn[c].b] = @ + 1]
  /\ UNCHANGED <<worldVars, alive, protoStats, idle, checker, traffic>>

DialFails(c) ==
  /\ conn[c].at = "chosen"
  /\ ~up[conn[c].b]
  /\ conn' = [conn EXCEPT ![c].at = "failed"]
  /\ UNCHANGED <<worldVars, alive, protoStats, idle, conns, checker, traffic>>

MarkBackendDown(c) ==
  /\ conn[c].at = "failed"
  /\ alive' = [alive EXCEPT ![conn[c].b] = FALSE]
  /\ conn'  = [conn EXCEPT ![c] = NoConn]
  /\ UNCHANGED <<worldVars, protoStats, idle, conns, checker, traffic>>

-----------------------------------------------------------------------------
(* What the sniffing of an open connection records. *)

Record(b, f) ==
  /\ protoStats' = [protoStats EXCEPT ![b][f] = @ + 1]
  /\ idle'  = [idle EXCEPT ![b] = 0]

(* A login packet of the client, or an answer or heartbeat of the backend. *)
PacketSniffed(c, f) ==
  /\ conn[c].at = "open"
  /\ f # "timeouts"
  /\ Spend
  /\ Record(conn[c].b, f)
  /\ UNCHANGED <<worldVars, alive, conns, conn, checker>>

(* EndsWithError, taking the backend out as well. *)
EndsWithErrorMarking(c) ==
  /\ conn[c].at = "open"
  /\ Spend
  /\ Record(conn[c].b, "timeouts")
  /\ alive' = [alive EXCEPT ![conn[c].b] = FALSE]
  /\ conn'  = [conn EXCEPT ![c] = NoConn]
  /\ UNCHANGED <<worldVars, conns, checker>>

(* The client closes, or the backend's end breaks: the read on the         *)
(* backend's socket fails with an error that is not EOF.                   *)
EndsWithError(c) ==
  /\ conn[c].at = "open"
  /\ Spend
  /\ Record(conn[c].b, "timeouts")
  /\ conn' = [conn EXCEPT ![c] = NoConn]
  /\ UNCHANGED <<worldVars, alive, conns, checker>>

(* The backend closes first: EOF, and nothing is recorded. *)
EndsWithEof(c) ==
  /\ conn[c].at = "open"
  /\ conn' = [conn EXCEPT ![c] = NoConn]
  /\ UNCHANGED <<worldVars, alive, protoStats, idle, conns, checker, traffic>>

-----------------------------------------------------------------------------
(* checkBackends, every 10 s: one backend after the other. *)

(* The counters after the checker has written s: an increment that had     *)
(* read its counter before may be stored after it, and touch the time.     *)
Raced(b, s, rounds) ==
  \/ /\ protoStats' = [protoStats EXCEPT ![b] = s]
     /\ idle'  = [idle EXCEPT ![b] = rounds]
     /\ UNCHANGED <<traffic, conn>>
  \/ \E c \in Conns, f \in Counters :
       /\ conn[c] = [at |-> "open", b |-> b]
       /\ Spend
       /\ protoStats' = [protoStats EXCEPT ![b] = [s EXCEPT ![f] = protoStats[b][f] + 1]]
       /\ idle'  = [idle EXCEPT ![b] = 0]
       /\ conn'  = IF f = "timeouts" THEN [conn EXCEPT ![c] = NoConn] ELSE conn

NextBackend ==
  checker' = IF checker.b < N THEN [at |-> "look", b |-> checker.b + 1] ELSE Resting

StartRound ==
  /\ checker.at = "rest"
  /\ checker' = [at |-> "look", b |-> 1]
  /\ UNCHANGED <<worldVars, alive, protoStats, idle, conns, conn, traffic>>

Halved(s, rounds) == [f \in Counters |-> s[f] \div 2 ^ rounds]

(* DecayIfIdle has brought the counters to a normal level. *)
Recovered(s) ==
  \/ s.logins = 0 /\ s.nacks = 0 /\ s.timeouts = 0 /\ s.beats = 0
  \/ CalcCrashRisk(s) = NormalRisk

(* DecayIfIdle halves the counters once per idle round; it does nothing to *)
(* counters that were touched within the last.                             *)
Decay(b) ==
  IF idle[b] = 0 THEN UNCHANGED <<protoStats, idle, traffic, conn>>
                 ELSE Raced(b, Halved(protoStats[b], idle[b]), idle[b])

LookWell ==
  /\ checker.at = "look"
  /\ alive[checker.b] /\ ~Bad(checker.b)
  /\ NextBackend
  /\ UNCHANGED <<worldVars, alive, protoStats, idle, conns, conn, traffic>>

LookDead ==
  /\ checker.at = "look"
  /\ ~alive[checker.b]
  /\ checker' = [checker EXCEPT !.at = "revive"]
  /\ UNCHANGED <<worldVars, alive, protoStats, idle, conns, conn, traffic>>

(* LookBad, trusting the decay alone. *)
LookBadDecaying ==
  /\ checker.at = "look"
  /\ alive[checker.b] /\ Bad(checker.b)
  /\ Decay(checker.b)
  /\ NextBackend
  /\ UNCHANGED <<worldVars, alive, conns>>

LookBad ==
  LET b == checker.b IN
  /\ checker.at = "look"
  /\ alive[b] /\ Bad(b)
  /\ Decay(b)
  /\ \E s \in {protoStats'[b], Halved(protoStats[b], idle[b])} :    \* before or after a racing store
       IF idle[b] > 0 /\ Recovered(s) THEN NextBackend
                                      ELSE checker' = [checker EXCEPT !.at = "clear"]
  /\ UNCHANGED <<worldVars, alive, conns>>

(* The TCP probe of a backend that was found dead or bad. *)
ProbeSucceeds ==
  /\ checker.at \in {"revive", "clear"}
  /\ up[checker.b]
  /\ checker' = [checker EXCEPT !.at = IF @ = "revive" THEN "revived" ELSE "cleared"]
  /\ UNCHANGED <<worldVars, alive, protoStats, idle, conns, conn, traffic>>

(* What the checker writes after it, the backend's state being what it may *)
(* by then: only a backend that was found dead is made alive.              *)
Reset ==
  LET b == checker.b IN
  /\ checker.at \in {"revived", "cleared"}
  /\ alive' = IF checker.at = "revived" THEN [alive EXCEPT ![b] = TRUE] ELSE alive
  /\ Raced(b, NoStats, 0)
  /\ NextBackend
  /\ UNCHANGED <<worldVars, conns>>

ProbeFails ==
  /\ checker.at \in {"revive", "clear"}
  /\ ~up[checker.b]
  /\ NextBackend
  /\ UNCHANGED <<worldVars, alive, protoStats, idle, conns, conn, traffic>>

-----------------------------------------------------------------------------
(* Time and the backends themselves. *)

QuietRound(b) ==
  /\ idle[b] < MaxIdle
  /\ idle' = [idle EXCEPT ![b] = @ + 1]
  /\ UNCHANGED <<worldVars, alive, protoStats, conns, conn, checker, traffic>>

GoesDown(b) ==
  /\ up[b] /\ outages > 0
  /\ up' = [up EXCEPT ![b] = FALSE]
  /\ outages' = outages - 1
  /\ trouble' = trouble \cup {b}
  /\ UNCHANGED <<alive, protoStats, idle, conns, conn, checker, traffic>>

ComesUp(b) ==
  /\ ~up[b]
  /\ up' = [up EXCEPT ![b] = TRUE]
  /\ UNCHANGED <<outages, trouble, alive, protoStats, idle, conns, conn, checker, traffic>>

-----------------------------------------------------------------------------
ConnStep(c) ==
  \/ Accept(c) \/ EndsWithError(c) \/ EndsWithEof(c)
  \/ \E f \in Counters : PacketSniffed(c, f)

(* What a connection's goroutine does without anybody else. *)
DialStep(c) == SelectBackend(c) \/ Dialled(c) \/ DialFails(c) \/ MarkBackendDown(c)

CheckerStep == StartRound \/ LookWell \/ LookDead \/ LookBad \/ ProbeSucceeds \/ ProbeFails \/ Reset

HealthNext ==
  \/ CheckerStep
  \/ \E c \in Conns : ConnStep(c) \/ DialStep(c)
  \/ \E b \in Backends : QuietRound(b) \/ GoesDown(b) \/ ComesUp(b)

(* The ticker and the goroutines run on; clients and backends need not.    *)
HealthFairness ==
  /\ WF_healthVars(CheckerStep)
  /\ \A c \in Conns : WF_healthVars(DialStep(c))

HealthSpec == HealthInit /\ [][HealthNext]_healthVars /\ HealthFairness

-----------------------------------------------------------------------------
(* Properties. *)

Usable(b) == alive[b] /\ ~Bad(b)

(* README.md:21-22, 410: a backend that is reachable from some time on is  *)
(* in the end offered to new connections for good, whatever it and the     *)
(* counters went through, failures reported late and lost updates included.*)
(* Traffic is bounded here: with enough of it a backend can be taken out   *)
(* again and again.                                                        *)
Recovers == \A b \in Backends : <>[]up[b] => <>[]Usable(b)

(* proxy.go:136-161 and 516-547: a backend out of rotation has been        *)
(* unreachable at some time: traffic alone never makes BackendAlive false. *)
DeadWasDown == \A b \in Backends : ~alive[b] => b \in trouble

(* README.md:406: "down" means that the backend does not respond.          *)
DownMeansTrouble == \A b \in Backends : Risk(b) = DownRisk => b \in trouble

(* proxy.go:528: backends that are down or critical are excluded.          *)
CriticalExcluded ==
  [][\A c \in Conns :
       conn[c].at = "accepted" /\ conn'[c].at = "chosen" => ~Bad(conn'[c].b)]_healthVars

OpenAt(b) == Cardinality({c \in Conns : conn[c] = [at |-> "open", b |-> b]})

(* README.md:21, least_conn: the backend with the fewest connections.      *)
LeastConnections ==
  [][\A c \in Conns :
       conn[c].at = "accepted" /\ conn'[c].at = "chosen" =>
         \A b \in Available : OpenAt(conn'[c].b) <= OpenAt(b)]_healthVars

(* README.md:21, round_robin: the usable backends take turns, so that none *)
(* is two connections ahead of another while nothing has gone wrong.       *)
TakesTurns ==
  trouble = {} /\ (\A b \in Backends : Risk(b) = NormalRisk) =>
    \A b, x \in Backends : conns[b] <= conns[x] + 2

(* README.md:55-56: an unreachable backend is found by the periodic probe  *)
(* and taken out.                                                          *)
UnreachableTakenOut ==
  \A b \in Backends : <>[](~up[b]) => <>[](~alive[b] \/ Risk(b) = DownRisk)

(* protocol.go:344: "degraded" for heartbeats means that some were lost;   *)
(* nothing here answers or loses a heartbeat.                              *)
DegradedMeansFailures ==
  \A b \in Backends :
    Risk(b) = DegradedRisk =>
      /\ 10 * protoStats[b].nacks >= 3 * protoStats[b].logins
      /\ protoStats[b].nacks > 0
=============================================================================
