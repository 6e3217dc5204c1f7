-------------------------- MODULE LoginHandoff_proofs --------------------------
(***************************************************************************)
(* Logins for every number of accounts, servers, connections and blocks.   *)
(* In this order: the types; LoginInOrder, which is inductive, and with it *)
(* AnswersFit and TicketKeepsRow; that LoginHandoff implements             *)
(* LoginService; that no login row is orphaned; and that the tables of the *)
(* agents agree.  What the last two assume of the clients and servers is   *)
(* said there.                                                             *)
(***************************************************************************)
EXTENDS LoginHandoff, TLAPS

(* What is taken from a link is a message of that link, with its fields.   *)
LEMMA HeadToAgent ==
  ASSUME TypeOK, NEW d \in Dists, NEW a \in Agents, toAgent[d][a] # <<>>
  PROVE  /\ Head(toAgent[d][a]) \in ToAgentMsg
         /\ Tail(toAgent[d][a]) \in Seq(ToAgentMsg)
  BY DEF TypeOK, WiresTypeOK

LEMMA HeadToDist ==
  ASSUME TypeOK, NEW d \in Dists, NEW a \in Agents, toDist[a][d] # <<>>
  PROVE  /\ Head(toDist[a][d]) \in ToDistMsg
         /\ Tail(toDist[a][d]) \in Seq(ToDistMsg)
  BY DEF TypeOK, WiresTypeOK

LEMMA ToAgentFields ==
  ASSUME NEW m \in ToAgentMsg
  PROVE  /\ m.user \in Users
         /\ m.type # "force" => m.key \in Nat
         /\ m.type = "userlogin_syn" => m.dc \in DConns
  BY DEF ToAgentMsg

LEMMA ToDistFields ==
  ASSUME NEW m \in ToDistMsg
  PROVE  /\ m.user \in Users /\ m.key \in Nat /\ m.dc \in DConns
         /\ m.type = "userlogin_ack" => m.akey \in Nat
  BY DEF ToDistMsg

(* Sending keeps the types of the links. *)
LEMMA SendToAgentType ==
  ASSUME TypeOK, NEW d \in Dists, NEW a \in Agents, NEW m \in ToAgentMsg, SendToAgent(d, a, m)
  PROVE  toAgent' \in [Dists -> [Agents -> Seq(ToAgentMsg)]]
  BY DEF TypeOK, WiresTypeOK, SendToAgent

LEMMA BroadcastType ==
  ASSUME TypeOK, NEW d \in Dists, NEW m \in ToAgentMsg, Broadcast2AgentServer(d, m)
  PROVE  toAgent' \in [Dists -> [Agents -> Seq(ToAgentMsg)]]
  BY DEF TypeOK, WiresTypeOK, Broadcast2AgentServer

LEMMA SendToDistType ==
  ASSUME TypeOK, NEW d \in Dists, NEW a \in Agents, NEW m \in ToDistMsg, SendToDist(a, d, m)
  PROVE  toDist' \in [Agents -> [Dists -> Seq(ToDistMsg)]]
  BY DEF TypeOK, WiresTypeOK, SendToDist

LEMMA ReceivesType ==
  ASSUME TypeOK, NEW d \in Dists, NEW a \in Agents, NEW type, Receives(d, a, type)
  PROVE  toDist' \in [Agents -> [Dists -> Seq(ToDistMsg)]]
  BY HeadToDist DEF TypeOK, WiresTypeOK, Receives

LEMMA AReceivesType ==
  ASSUME TypeOK, NEW d \in Dists, NEW a \in Agents, NEW type, AReceives(d, a, type)
  PROVE  toAgent' \in [Dists -> [Agents -> Seq(ToAgentMsg)]]
  BY HeadToAgent DEF TypeOK, WiresTypeOK, AReceives

LEMMA LoginCheckDeleteType ==
  ASSUME TypeOK, NEW u \in Users, LoginCheckDelete(u)
  PROVE  deletes' \in [Users -> Nat]
  BY DEF TypeOK, WiresTypeOK, LoginCheckDelete

LEMMA TypeInit == Init => TypeOK
<1> SUFFICES ASSUME Init PROVE TypeOK
  OBVIOUS
<1> USE WiresAssumption, DistributeAssumption, AgentAssumption
<1>1. WiresTypeOK
  <2>1. <<>> \in Seq(ToAgentMsg) /\ <<>> \in Seq(ToDistMsg)
    OBVIOUS
  <2>2. toAgent \in [Dists -> [Agents -> Seq(ToAgentMsg)]]
    BY <2>1 DEF Init, WiresInit
  <2>3. toDist \in [Agents -> [Dists -> Seq(ToDistMsg)]]
    BY <2>1 DEF Init, WiresInit
  <2>4. QED
    BY <2>2, <2>3 DEF Init, WiresInit, WiresTypeOK
<1>2. DistributeTypeOK
  <2>1. NoDUser \in DUser
    BY DEF NoDUser, DUser
  <2>2. 1 \in 1..(MaxKey + 1)
    OBVIOUS
  <2>3. QED
    BY <2>1, <2>2 DEF Init, DistributeInit, DistributeTypeOK, NetState
<1>3. AgentTypeOK
  <2>1. Zero \in Info
    BY DEF Zero, Info
  <2>2. slots \in [Agents -> [Slots -> Info]]
    BY <2>1 DEF Init, AgentInit
  <2>3. QED
    BY <2>2 DEF Init, AgentInit, AgentTypeOK
<1>4. QED
  BY <1>1, <1>2, <1>3 DEF Init, TypeOK

-----------------------------------------------------------------------------
(* The distribute server. *)

LEMMA TypeDAccept ==
  ASSUME TypeOK, NEW dc \in DConns, DAccept(dc)
  PROVE  WiresTypeOK' /\ DistributeTypeOK'
<1> DEFINE d == DistOf[dc]
<1>1. d \in Dists /\ MaxKey \in Nat
  BY WiresAssumption
<1>2. nextKey[d] \in Nat /\ nextKey[d] + 1 \in 1..(MaxKey + 1)
  <2>1. nextKey[d] \in 1..(MaxKey + 1) /\ nextKey[d] <= MaxKey
    BY <1>1 DEF TypeOK, DistributeTypeOK, DAccept
  <2>2. QED
    BY <1>1, <2>1
<1>3. [NoDUser EXCEPT !.key = nextKey[d]] \in DUser
  BY <1>2 DEF NoDUser, DUser
<1>4. duser' \in [DConns -> DUser]
  BY <1>3 DEF TypeOK, DistributeTypeOK, DAccept
<1>5. nextKey' \in [Dists -> 1..(MaxKey + 1)]
  BY <1>1, <1>2 DEF TypeOK, DistributeTypeOK, DAccept
<1>6. QED
  BY <1>4, <1>5
     DEF TypeOK, WiresTypeOK, DistributeTypeOK, DAccept, NetState, dbVars, linkVars

LEMMA TypeLoginSyn ==
  ASSUME TypeOK, NEW dc \in DConns, NEW u \in Users, LoginSyn(dc, u)
  PROVE  WiresTypeOK' /\ DistributeTypeOK'
<1>1. duser[dc].key \in Nat
  BY DEF TypeOK, DistributeTypeOK, DUser
<1>2. LoginQuery(dc, duser[dc].key, u) \in Query
  BY <1>1 DEF LoginQuery, Query
<1>3. queries' \subseteq Query
  BY <1>2 DEF TypeOK, WiresTypeOK, LoginSyn
<1>4. dnet' \in [DConns -> NetState]
  BY DEF TypeOK, DistributeTypeOK, LoginSyn, Hangup, NetState
<1>5. QED
  BY <1>3, <1>4 DEF TypeOK, WiresTypeOK, DistributeTypeOK, LoginSyn, linkVars

LEMMA TypeForceOverlap ==
  ASSUME TypeOK, NEW dc \in DConns, ForceOverlap(dc)
  PROVE  WiresTypeOK' /\ DistributeTypeOK'
<1> DEFINE d == DistOf[dc]
           u == duser[dc].user
<1>1. d \in Dists
  BY WiresAssumption
<1>2. u \in Users \cup {NoUser}
  BY DEF TypeOK, DistributeTypeOK, DUser
<1>3. dnet' \in [DConns -> NetState]
  BY DEF TypeOK, DistributeTypeOK, ForceOverlap, Hangup, NetState
<1>4. /\ toAgent' \in [Dists -> [Agents -> Seq(ToAgentMsg)]]
      /\ waitDel' \in [Dists -> SUBSET Users]
      /\ deletes' \in [Users -> Nat]
  <2>1. CASE UNCHANGED <<toAgent, waitDel, deletes>>
    BY <2>1 DEF TypeOK, WiresTypeOK, DistributeTypeOK
  <2>2. CASE /\ u # NoUser
             /\ Broadcast2AgentServer(d, ForceDisconnect(u))
             /\ \/ waitDel' = [waitDel EXCEPT ![d] = @ \cup {u}] /\ UNCHANGED deletes
                \/ waitDel' = [waitDel EXCEPT ![d] = @ \ {u}] /\ LoginCheckDelete(u)
                \/ UNCHANGED <<waitDel, deletes>>
    <3>1. u \in Users
      BY <1>2, <2>2
    <3>2. ForceDisconnect(u) \in ToAgentMsg
      BY <3>1 DEF ForceDisconnect, ToAgentMsg
    <3>3. deletes' \in [Users -> Nat]
      BY <2>2, <3>1, LoginCheckDeleteType DEF TypeOK, WiresTypeOK
    <3>4. waitDel' \in [Dists -> SUBSET Users]
      BY <2>2, <3>1 DEF TypeOK, DistributeTypeOK
    <3>5. QED
      BY <1>1, <2>2, <3>2, <3>3, <3>4, BroadcastType
  <2>3. QED
    BY <2>1, <2>2 DEF ForceOverlap
<1>5. QED
  BY <1>3, <1>4 DEF TypeOK, WiresTypeOK, DistributeTypeOK, ForceOverlap

LEMMA TypeDistOut ==
  ASSUME TypeOK, NEW dc \in DConns, DistOut(dc)
  PROVE  WiresTypeOK' /\ DistributeTypeOK'
<1>1. duser' \in [DConns -> DUser]
  BY DEF TypeOK, DistributeTypeOK, DistOut, DUser
<1>2. dnet' \in [DConns -> NetState]
  BY DEF TypeOK, DistributeTypeOK, DistOut, Hangup, NetState
<1>3. QED
  BY <1>1, <1>2 DEF TypeOK, WiresTypeOK, DistributeTypeOK, DistOut, dbVars, linkVars

LEMMA TypeDConnLost ==
  ASSUME TypeOK, NEW dc \in DConns, DConnLost(dc)
  PROVE  WiresTypeOK' /\ DistributeTypeOK'
<1>1. dnet' \in [DConns -> NetState]
  BY DEF TypeOK, DistributeTypeOK, DConnLost, Hangup, NetState
<1>2. QED
  BY <1>1 DEF TypeOK, WiresTypeOK, DistributeTypeOK, DConnLost, dbVars, linkVars

LEMMA TypeDDisconnected ==
  ASSUME TypeOK, NEW dc \in DConns, DDisconnected(dc)
  PROVE  WiresTypeOK' /\ DistributeTypeOK'
<1> DEFINE d == DistOf[dc]
           r == duser[dc]
<1>1. d \in Dists /\ r \in DUser
  BY WiresAssumption DEF TypeOK, DistributeTypeOK
<1>2. r.user \in Users \cup {NoUser} /\ r.key \in Nat
  BY <1>1 DEF DUser
<1>3. deletes' \in [Users -> Nat]
  BY <1>2, LoginCheckDeleteType DEF TypeOK, WiresTypeOK, DDisconnected
<1>4. toAgent' \in [Dists -> [Agents -> Seq(ToAgentMsg)]]
  <2>1. CASE r.user # NoUser /\ ~r.out
    <3>1. DisconnectedOnLogin(r.user, r.key) \in ToAgentMsg
      BY <1>2, <2>1 DEF DisconnectedOnLogin, ToAgentMsg
    <3>2. Broadcast2AgentServer(d, DisconnectedOnLogin(r.user, r.key))
      BY <2>1 DEF DDisconnected
    <3>3. QED
      BY <1>1, <3>1, <3>2, BroadcastType
  <2>2. CASE ~(r.user # NoUser /\ ~r.out)
    BY <2>2 DEF DDisconnected, TypeOK, WiresTypeOK
  <2>3. QED
    BY <2>1, <2>2
<1>5. duser' \in [DConns -> DUser]
  BY DEF TypeOK, DistributeTypeOK, DDisconnected, NoDUser, DUser
<1>6. dnet' \in [DConns -> NetState]
  BY DEF TypeOK, DistributeTypeOK, DDisconnected, NetState
<1>7. QED
  BY <1>3, <1>4, <1>5, <1>6 DEF TypeOK, WiresTypeOK, DistributeTypeOK, DDisconnected

LEMMA NotedType ==
  ASSUME TypeOK, NEW r \in results, r.type = "login", HasUser(r.dc)
  PROVE  /\ r.dc \in DConns /\ r.key \in Nat /\ r.user \in Users /\ r.state \in LoginState
         /\ Noted(r) \in DUser
<1>1. r \in Result
  BY DEF TypeOK, WiresTypeOK
<1>2. r.dc \in DConns /\ r.key \in Nat /\ r.user \in Users /\ r.state \in LoginState
  BY <1>1 DEF Result
<1>3. duser[r.dc] \in DUser
  BY <1>2 DEF TypeOK, DistributeTypeOK
<1>4. CASE r.state = "ok"
  BY <1>2, <1>3, <1>4 DEF Noted, DUser
<1>5. CASE r.state # "ok"
  BY <1>2, <1>3, <1>5 DEF Noted, DUser
<1>6. QED
  BY <1>2, <1>4, <1>5

LEMMA TypeLoginAdmitted ==
  ASSUME TypeOK, NEW r \in results, r.type = "login", LoginAdmitted(r)
  PROVE  /\ duser' \in [DConns -> DUser]
         /\ dnet' \in [DConns -> NetState]
         /\ waitDel' \in [Dists -> SUBSET Users]
         /\ queries' \subseteq Query
         /\ toAgent' \in [Dists -> [Agents -> Seq(ToAgentMsg)]]
<1> DEFINE d == DistOf[r.dc]
<1>1. /\ r.dc \in DConns /\ r.key \in Nat /\ r.user \in Users
      /\ Noted(r) \in DUser
  BY NotedType DEF LoginAdmitted, Matches
<1>2. d \in Dists
  BY <1>1, WiresAssumption
<1>3. duser' \in [DConns -> DUser]
  BY <1>1 DEF TypeOK, DistributeTypeOK, LoginAdmitted
<1>4. waitDel' \in [Dists -> SUBSET Users]
  BY <1>1 DEF TypeOK, DistributeTypeOK, LoginAdmitted
<1>5. dnet' \in [DConns -> NetState]
  BY DEF TypeOK, DistributeTypeOK, LoginAdmitted, Hangup, NetState
<1>6. queries' \subseteq Query
  BY <1>1 DEF TypeOK, WiresTypeOK, LoginAdmitted, IpQuery, Query
<1>7. toAgent' \in [Dists -> [Agents -> Seq(ToAgentMsg)]]
  <2>1. UserLoginSyn(r.user, r.key, r.dc) \in ToAgentMsg
    BY <1>1 DEF UserLoginSyn, ToAgentMsg
  <2>2. CASE UNCHANGED toAgent
    BY <2>2 DEF TypeOK, WiresTypeOK
  <2>3. CASE \E a \in Agents : SendToAgent(d, a, UserLoginSyn(r.user, r.key, r.dc))
    BY <1>2, <2>1, <2>3, SendToAgentType
  <2>4. QED
    BY <2>2, <2>3 DEF LoginAdmitted
<1>8. QED
  BY <1>3, <1>4, <1>5, <1>6, <1>7

LEMMA TypeRLoginCheckQuery ==
  ASSUME TypeOK, NEW r \in results, RLoginCheckQuery(r)
  PROVE  WiresTypeOK' /\ DistributeTypeOK'
<1>1. r.type = "login" /\ results' \subseteq Result /\ UNCHANGED row
  BY DEF TypeOK, WiresTypeOK, RLoginCheckQuery
<1>2. CASE StaleLogin(r)
  <2>1. r.user \in Users
    BY <1>1 DEF TypeOK, WiresTypeOK, Result
  <2>2. deletes' \in [Users -> Nat]
    BY <1>2, <2>1, LoginCheckDeleteType DEF StaleLogin, TypeOK, WiresTypeOK
  <2>3. QED
    BY <1>1, <1>2, <2>2
       DEF TypeOK, WiresTypeOK, DistributeTypeOK, StaleLogin, distVars, linkVars
<1>3. CASE CrcFailed(r)
  BY <1>1, <1>3 DEF TypeOK, WiresTypeOK, DistributeTypeOK, CrcFailed, distVars, linkVars
<1>4. CASE LoginAdmitted(r)
  <2>1. UNCHANGED <<nextKey, deletes, toDist>>
    BY <1>4 DEF LoginAdmitted
  <2>2. QED
    BY <1>1, <1>4, <2>1, TypeLoginAdmitted DEF TypeOK, WiresTypeOK, DistributeTypeOK
<1>5. CASE LoginTurnedDown(r)
  <2>1. Noted(r) \in DUser
    BY <1>1, <1>5, NotedType DEF LoginTurnedDown, Matches
  <2>2. duser' \in [DConns -> DUser]
    BY <1>5, <2>1 DEF TypeOK, DistributeTypeOK, LoginTurnedDown
  <2>3. dnet' \in [DConns -> NetState]
    BY <1>5 DEF TypeOK, DistributeTypeOK, LoginTurnedDown, Hangup, NetState
  <2>4. QED
    BY <1>1, <1>5, <2>2, <2>3
       DEF TypeOK, WiresTypeOK, DistributeTypeOK, LoginTurnedDown, linkVars
<1>6. QED
  BY <1>2, <1>3, <1>4, <1>5 DEF RLoginCheckQuery

LEMMA TypeRIpCheckQuery ==
  ASSUME TypeOK, NEW r \in results, RIpCheckQuery(r),
         Matches(r.dc, r.key) => duser[r.dc].user \in Users
  PROVE  WiresTypeOK' /\ DistributeTypeOK'
<1> DEFINE d == DistOf[r.dc]
<1>1. r.dc \in DConns /\ r.key \in Nat /\ d \in Dists
  BY WiresAssumption DEF TypeOK, WiresTypeOK, Result
<1>2. dnet' \in [DConns -> NetState]
  BY DEF TypeOK, DistributeTypeOK, RIpCheckQuery, Hangup, NetState
<1>3. toAgent' \in [Dists -> [Agents -> Seq(ToAgentMsg)]]
  <2>1. CASE UNCHANGED toAgent
    BY <2>1 DEF TypeOK, WiresTypeOK
  <2>2. CASE /\ Matches(r.dc, r.key)
             /\ \E a \in Agents :
                  SendToAgent(d, a, UserLoginSyn(duser[r.dc].user, r.key, r.dc))
    <3>1. UserLoginSyn(duser[r.dc].user, r.key, r.dc) \in ToAgentMsg
      BY <1>1, <2>2 DEF UserLoginSyn, ToAgentMsg
    <3>2. QED
      BY <1>1, <2>2, <3>1, SendToAgentType
  <2>3. QED
    BY <2>1, <2>2 DEF RIpCheckQuery
<1>4. QED
  BY <1>2, <1>3 DEF TypeOK, WiresTypeOK, DistributeTypeOK, RIpCheckQuery

LEMMA TypeAckTooLate ==
  ASSUME TypeOK, NEW d \in Dists, NEW a \in Agents, AckTooLate(d, a)
  PROVE  WiresTypeOK' /\ DistributeTypeOK'
<1> DEFINE m == Head(toDist[a][d])
<1>1. m \in ToDistMsg /\ m.type = "userlogin_ack"
  BY HeadToDist DEF AckTooLate, Receives
<1>2. AlreadyOut(m.user, m.akey) \in ToAgentMsg
  BY <1>1, ToDistFields DEF AlreadyOut, ToAgentMsg
<1>3. toAgent' \in [Dists -> [Agents -> Seq(ToAgentMsg)]]
  BY <1>2, SendToAgentType DEF AckTooLate
<1>4. toDist' \in [Agents -> [Dists -> Seq(ToDistMsg)]]
  BY ReceivesType DEF AckTooLate
<1>5. QED
  BY <1>3, <1>4 DEF TypeOK, WiresTypeOK, DistributeTypeOK, AckTooLate, distVars, dbVars

LEMMA TypeAckDelivered ==
  ASSUME TypeOK, NEW d \in Dists, NEW a \in Agents, AckDelivered(d, a)
  PROVE  WiresTypeOK' /\ DistributeTypeOK'
<1> DEFINE m == Head(toDist[a][d])
<1>1. m.dc \in DConns
  BY HeadToDist, ToDistFields DEF AckDelivered, Receives
<1>2. duser' \in [DConns -> DUser]
  <2>1. duser[m.dc] \in DUser
    BY <1>1 DEF TypeOK, DistributeTypeOK
  <2>2. [duser[m.dc] EXCEPT !.del = ~duser[m.dc].del] \in DUser
    BY <2>1 DEF DUser
  <2>3. duser' = [duser EXCEPT ![m.dc] = [duser[m.dc] EXCEPT !.del = ~duser[m.dc].del]]
    BY DEF AckDelivered
  <2>4. QED
    BY <2>2, <2>3 DEF TypeOK, DistributeTypeOK
<1>3. toDist' \in [Agents -> [Dists -> Seq(ToDistMsg)]]
  BY ReceivesType DEF AckDelivered
<1>4. QED
  BY <1>2, <1>3 DEF TypeOK, WiresTypeOK, DistributeTypeOK, AckDelivered, dbVars

LEMMA TypeNackDelivered ==
  ASSUME TypeOK, NEW d \in Dists, NEW a \in Agents, NackDelivered(d, a)
  PROVE  WiresTypeOK' /\ DistributeTypeOK'
<1>1. dnet' \in [DConns -> NetState]
  BY DEF TypeOK, DistributeTypeOK, NackDelivered, Hangup, NetState
<1>2. toDist' \in [Agents -> [Dists -> Seq(ToDistMsg)]]
  BY ReceivesType DEF NackDelivered
<1>3. QED
  BY <1>1, <1>2 DEF TypeOK, WiresTypeOK, DistributeTypeOK, NackDelivered, dbVars

LEMMA TypeDBStep ==
  ASSUME TypeOK, DBStep
  PROVE  row' \in [Users -> BOOLEAN] /\ deletes' \in [Users -> Nat]
         /\ queries' \subseteq Query /\ results' \subseteq Result
<1>1. ASSUME NEW q \in queries, DBLogin(q)
      PROVE  row' \in [Users -> BOOLEAN] /\ queries' \subseteq Query /\ results' \subseteq Result
  <2>1. q \in Query /\ q.type = "login"
    BY <1>1 DEF TypeOK, WiresTypeOK, DBLogin
  <2>2. q.dc \in DConns /\ q.key \in Nat /\ q.user \in Users
    BY <2>1 DEF Query
  <2>3. \A st \in LoginState :
          [type |-> "login", dc |-> q.dc, key |-> q.key, user |-> q.user, state |-> st] \in Result
    BY <2>2 DEF Result
  <2>4. QED
    BY <1>1, <2>2, <2>3 DEF TypeOK, WiresTypeOK, DBLogin
<1>2. ASSUME NEW u \in Users, DBLogout(u)
      PROVE  row' \in [Users -> BOOLEAN] /\ deletes' \in [Users -> Nat]
  BY <1>2 DEF TypeOK, WiresTypeOK, DBLogout
<1>3. ASSUME NEW q \in queries, DBIpCheck(q)
      PROVE  queries' \subseteq Query /\ results' \subseteq Result
  <2>1. q.dc \in DConns /\ q.key \in Nat
    BY <1>3 DEF TypeOK, WiresTypeOK, Query
  <2>2. \A v \in BOOLEAN :
          [type |-> "ip", dc |-> q.dc, key |-> q.key, valid |-> v] \in Result
    BY <2>1 DEF Result
  <2>3. QED
    BY <1>3, <2>2 DEF TypeOK, WiresTypeOK, DBIpCheck
<1>4. CASE \E q \in queries : DBLogin(q)
  BY <1>1, <1>4 DEF TypeOK, WiresTypeOK, DBLogin
<1>5. CASE \E u \in Users : DBLogout(u)
  BY <1>2, <1>5 DEF TypeOK, WiresTypeOK, DBLogout
<1>6. CASE \E q \in queries : DBIpCheck(q)
  BY <1>3, <1>6 DEF TypeOK, WiresTypeOK, DBIpCheck
<1>7. QED
  BY <1>4, <1>5, <1>6 DEF DBStep

-----------------------------------------------------------------------------
(* The agent server. *)

(* An update of a table of an agent, for an account or for nobody. *)
LEMMA TableUpdate ==
  ASSUME NEW S, NEW f \in [Agents -> [Users -> S]], NEW a \in Agents, NEW u, NEW v,
         u \in Users => v \in S
  PROVE  [f EXCEPT ![a][u] = v] \in [Agents -> [Users -> S]]
<1>1. [f[a] EXCEPT ![u] = v] \in [Users -> S]
  OBVIOUS
<1>2. [f EXCEPT ![a] = [f[a] EXCEPT ![u] = v]] \in [Agents -> [Users -> S]]
  BY <1>1
<1>3. QED
  BY <1>2

LEMMA FreeSessionType ==
  ASSUME TypeOK, NEW a \in Agents, NEW s \in Slots, NEW u \in Users \cup {NoUser},
         FreeSession(a, s, u)
  PROVE  /\ userTab' \in [Agents -> [Users -> Slots \cup {NoSlot}]]
         /\ slots' \in [Agents -> [Slots -> Info]]
         /\ free' \in [Agents -> SUBSET Slots]
<1>1. Zero \in Info
  BY DEF Zero, Info
<1>2. slots' \in [Agents -> [Slots -> Info]]
  BY <1>1 DEF TypeOK, AgentTypeOK, FreeSession
<1>3. QED
  BY <1>2 DEF TypeOK, AgentTypeOK, FreeSession

LEMMA TypeOnDisconnectUser ==
  ASSUME TypeOK, NEW c \in AConns, OnDisconnectUser(c)
  PROVE  /\ slots' \in [Agents -> [Slots -> Info]]
         /\ free' \in [Agents -> SUBSET Slots]
         /\ connTab' \in [AConns -> Slots \cup {NoSlot}]
         /\ userTab' \in [Agents -> [Users -> Slots \cup {NoSlot}]]
         /\ charTab' \in [Agents -> [Users -> Slots \cup {NoSlot}]]
         /\ mapOut' \in [Agents -> [Users -> Nat]]
         /\ deletes' \in [Users -> Nat]
<1> DEFINE a == AgentOf[c]
           s == connTab[c]
           r == slots[a][s]
<1>1. a \in Agents
  BY WiresAssumption
<1>2. CASE s = NoSlot
  BY <1>2 DEF TypeOK, WiresTypeOK, AgentTypeOK, OnDisconnectUser
<1>3. CASE s # NoSlot
  <2>1. s \in Slots
    BY <1>3 DEF TypeOK, AgentTypeOK
  <2>2. r \in Info
    BY <1>1, <2>1 DEF TypeOK, AgentTypeOK
  <2>3. r.user \in Users \cup {NoUser} /\ r.char \in BOOLEAN
    BY <2>2 DEF Info
  <2>4. FreeSession(a, s, r.user)
    BY <1>3 DEF OnDisconnectUser
  <2>5. connTab' \in [AConns -> Slots \cup {NoSlot}]
    BY <1>3 DEF TypeOK, AgentTypeOK, OnDisconnectUser
  <2>6. charTab' \in [Agents -> [Users -> Slots \cup {NoSlot}]]
    <3>1. charTab' \in {charTab, [charTab EXCEPT ![a][r.user] = NoSlot]}
      BY <1>3 DEF OnDisconnectUser
    <3>2. [charTab EXCEPT ![a][r.user] = NoSlot] \in [Agents -> [Users -> Slots \cup {NoSlot}]]
      BY <1>1, TableUpdate DEF TypeOK, AgentTypeOK
    <3>3. QED
      BY <3>1, <3>2 DEF TypeOK, AgentTypeOK
  <2>7. mapOut' \in [Agents -> [Users -> Nat]]
    <3>1. mapOut' \in {mapOut, [mapOut EXCEPT ![a][r.user] = @ + 1]}
      BY <1>3 DEF OnDisconnectUser
    <3>2. mapOut \in [Agents -> [Users -> Nat]]
      BY DEF TypeOK, AgentTypeOK
    <3>3. r.user \in Users => mapOut[a][r.user] + 1 \in Nat
      BY <1>1, <3>2
    <3>4. [mapOut EXCEPT ![a][r.user] = mapOut[a][r.user] + 1] \in [Agents -> [Users -> Nat]]
      BY <1>1, <3>2, <3>3, TableUpdate
    <3>5. QED
      BY <3>1, <3>2, <3>4
  <2>8. deletes' \in [Users -> Nat]
    BY <1>3, <2>3, LoginCheckDeleteType DEF TypeOK, WiresTypeOK, OnDisconnectUser
  <2>9. QED
    BY <1>1, <2>1, <2>3, <2>4, <2>5, <2>6, <2>7, <2>8, FreeSessionType
<1>4. QED
  BY <1>2, <1>3

LEMMA TypeAAccept ==
  ASSUME TypeOK, NEW c \in AConns, AAccept(c)
  PROVE  WiresTypeOK' /\ AgentTypeOK'
<1> DEFINE a == AgentOf[c]
<1>1. a \in Agents
  BY WiresAssumption
<1>2. [Zero EXCEPT !.conn = c] \in Info
  BY DEF Zero, Info
<1>3. PICK s \in free[a] :
        /\ free' = [free EXCEPT ![a] = @ \ {s}]
        /\ slots' = [slots EXCEPT ![a][s] = [Zero EXCEPT !.conn = c]]
        /\ connTab' = [connTab EXCEPT ![c] = s]
  BY DEF AAccept
<1>4. s \in Slots
  BY <1>1 DEF TypeOK, AgentTypeOK
<1>5. slots' \in [Agents -> [Slots -> Info]]
  BY <1>1, <1>2, <1>3, <1>4 DEF TypeOK, AgentTypeOK
<1>6. QED
  BY <1>1, <1>3, <1>4, <1>5
     DEF TypeOK, WiresTypeOK, AgentTypeOK, AAccept, dbVars, linkVars

LEMMA TypeConnection ==
  ASSUME TypeOK, NEW c \in AConns,
         AConnLost(c) \/ ADisconnected(c) \/ ADrop(c)
  PROVE  WiresTypeOK' /\ AgentTypeOK'
<1>1. anet' \in [AConns -> {"free", "open", "closing"}]
  BY DEF TypeOK, AgentTypeOK, AConnLost, ADisconnected, ADrop
<1>2. CASE AConnLost(c)
  BY <1>1, <1>2 DEF TypeOK, WiresTypeOK, AgentTypeOK, AConnLost, dbVars, linkVars
<1>3. CASE OnDisconnectUser(c) /\ UNCHANGED <<nextAKey, row, queries, results, linkVars>>
  BY <1>1, <1>3, TypeOnDisconnectUser DEF TypeOK, WiresTypeOK, AgentTypeOK, linkVars
<1>4. QED
  BY <1>2, <1>3 DEF ADisconnected, ADrop

LEMMA TypeReap ==
  ASSUME TypeOK, NEW c \in AConns, ReapUnconnected(c)
  PROVE  WiresTypeOK' /\ AgentTypeOK'
<1> DEFINE a == AgentOf[c]
           s == connTab[c]
           u == slots[a][s].user
<1>1. a \in Agents /\ s \in Slots
  BY WiresAssumption DEF TypeOK, AgentTypeOK, ReapUnconnected
<1>2. u \in Users \cup {NoUser}
  BY <1>1 DEF TypeOK, AgentTypeOK, Info
<1>3. deletes' \in [Users -> Nat]
  BY LoginCheckDeleteType DEF TypeOK, WiresTypeOK, ReapUnconnected
<1>4. FreeSession(a, s, u)
  BY DEF ReapUnconnected
<1>5. QED
  BY <1>1, <1>2, <1>3, <1>4, FreeSessionType
     DEF TypeOK, WiresTypeOK, AgentTypeOK, ReapUnconnected, linkVars

LEMMA TypeReserve ==
  ASSUME TypeOK, NEW d \in Dists, NEW a \in Agents, NEW m \in ToAgentMsg,
         m.type = "userlogin_syn",
         NEW pool \in SUBSET Slots, NEW blocks \in [Slots -> Info],
         Reserve(d, a, m, pool, blocks)
  PROVE  /\ slots' \in [Agents -> [Slots -> Info]]
         /\ free' \in [Agents -> SUBSET Slots]
         /\ userTab' \in [Agents -> [Users -> Slots \cup {NoSlot}]]
         /\ nextAKey' \in [Agents -> Nat \ {0}]
         /\ toDist' \in [Agents -> [Dists -> Seq(ToDistMsg)]]
<1>1. m.user \in Users /\ m.key \in Nat /\ m.dc \in DConns /\ nextAKey[a] \in Nat
  BY ToAgentFields DEF TypeOK, AgentTypeOK
<1>2. CASE UNCHANGED <<slots, free, userTab, nextAKey, toDist>>
  BY <1>2 DEF TypeOK, WiresTypeOK, AgentTypeOK
<1>3. CASE pool # {} /\ ~UNCHANGED <<slots, free, userTab, nextAKey, toDist>>
  <2>1. PICK s \in pool :
          /\ free' = [free EXCEPT ![a] = pool \ {s}]
          /\ slots' = [slots EXCEPT ![a] = [blocks EXCEPT ![s] =
               [Zero EXCEPT !.user = m.user, !.dkey = m.key, !.key = nextAKey[a]]]]
          /\ userTab' = [userTab EXCEPT ![a][m.user] = s]
          /\ nextAKey' = [nextAKey EXCEPT ![a] = @ + 1]
          /\ SendToDist(a, d, UserLoginAck(m.user, m.key, nextAKey[a], m.dc))
    BY <1>3 DEF Reserve
  <2>2. [Zero EXCEPT !.user = m.user, !.dkey = m.key, !.key = nextAKey[a]] \in Info
    BY <1>1 DEF Zero, Info
  <2>3. slots' \in [Agents -> [Slots -> Info]]
    BY <2>1, <2>2 DEF TypeOK, AgentTypeOK
  <2>4. UserLoginAck(m.user, m.key, nextAKey[a], m.dc) \in ToDistMsg
    BY <1>1 DEF UserLoginAck, ToDistMsg
  <2>5. toDist' \in [Agents -> [Dists -> Seq(ToDistMsg)]]
    BY <2>1, <2>4, SendToDistType
  <2>6. userTab' \in [Agents -> [Users -> Slots \cup {NoSlot}]]
    BY <1>1, <2>1 DEF TypeOK, AgentTypeOK
  <2>7. nextAKey' \in [Agents -> Nat \ {0}]
    BY <2>1 DEF TypeOK, AgentTypeOK
  <2>8. free' \in [Agents -> SUBSET Slots]
    BY <2>1 DEF TypeOK, AgentTypeOK
  <2>9. QED
    BY <2>3, <2>5, <2>6, <2>7, <2>8
<1>4. QED
  BY <1>2, <1>3 DEF Reserve

LEMMA TypeNotifyUserLoginSyn ==
  ASSUME TypeOK, NEW d \in Dists, NEW a \in Agents, NotifyUserLoginSyn(d, a)
  PROVE  WiresTypeOK' /\ AgentTypeOK'
<1> DEFINE m == Head(toAgent[d][a])
           s == userTab[a][m.user]
<1>1. m \in ToAgentMsg /\ m.type = "userlogin_syn"
  BY HeadToAgent DEF NotifyUserLoginSyn, AReceives
<1>2. m.user \in Users /\ m.key \in Nat /\ m.dc \in DConns
  BY <1>1, ToAgentFields
<1>3. toAgent' \in [Dists -> [Agents -> Seq(ToAgentMsg)]]
  BY AReceivesType DEF NotifyUserLoginSyn
<1>4. s \in Slots \cup {NoSlot} /\ slots[a] \in [Slots -> Info] /\ free[a] \in SUBSET Slots
  BY <1>2 DEF TypeOK, AgentTypeOK
<1>5. UNCHANGED <<connTab, charTab, mapOut, dbVars>>
  BY DEF NotifyUserLoginSyn
<1>6. CASE s = NoSlot /\ Reserve(d, a, m, free[a], slots[a]) /\ UNCHANGED anet
  BY <1>1, <1>3, <1>4, <1>5, <1>6, TypeReserve
     DEF TypeOK, WiresTypeOK, AgentTypeOK, dbVars
<1>7. CASE /\ anet' \in {anet, [anet EXCEPT ![slots[a][s].conn] = "closing"]}
           /\ SendToDist(a, d, UserLoginNack(m.user, m.key, m.dc))
           /\ UNCHANGED <<slots, free, userTab, nextAKey>>
  <2>1. UserLoginNack(m.user, m.key, m.dc) \in ToDistMsg
    BY <1>2 DEF UserLoginNack, ToDistMsg
  <2>2. toDist' \in [Agents -> [Dists -> Seq(ToDistMsg)]]
    BY <1>7, <2>1, SendToDistType
  <2>3. anet' \in [AConns -> {"free", "open", "closing"}]
    BY <1>7 DEF TypeOK, AgentTypeOK
  <2>4. QED
    BY <1>3, <1>5, <1>7, <2>2, <2>3 DEF TypeOK, WiresTypeOK, AgentTypeOK, dbVars
<1>8. CASE /\ s # NoSlot
           /\ Reserve(d, a, m, free[a] \cup {s}, [slots[a] EXCEPT ![s] = Zero])
           /\ UNCHANGED anet
  <2>1. free[a] \cup {s} \in SUBSET Slots
    BY <1>4, <1>8
  <2>2. Zero \in Info
    BY DEF Zero, Info
  <2>3. [slots[a] EXCEPT ![s] = Zero] \in [Slots -> Info]
    BY <1>4, <2>2
  <2>4. QED
    BY <1>1, <1>3, <1>5, <1>8, <2>1, <2>3, TypeReserve
       DEF TypeOK, WiresTypeOK, AgentTypeOK, dbVars
<1>9. QED
  BY <1>6, <1>7, <1>8 DEF NotifyUserLoginSyn

LEMMA TypeDropAccount ==
  ASSUME TypeOK, NEW a \in Agents, NEW u \in Users, userTab[a][u] # NoSlot, DropAccount(a, u)
  PROVE  /\ userTab' \in [Agents -> [Users -> Slots \cup {NoSlot}]]
         /\ slots' \in [Agents -> [Slots -> Info]]
         /\ free' \in [Agents -> SUBSET Slots]
         /\ deletes' \in [Users -> Nat]
<1>1. userTab[a][u] \in Slots
  BY DEF TypeOK, AgentTypeOK
<1>2. LoginCheckDelete(u) /\ FreeSession(a, userTab[a][u], u)
  BY DEF DropAccount
<1>3. QED
  BY <1>1, <1>2, FreeSessionType, LoginCheckDeleteType

LEMMA TypeNotifyAlreadyOut ==
  ASSUME TypeOK, NEW d \in Dists, NEW a \in Agents,
         NotifyAlreadyOut(d, a) \/ DisconnectedDuringLogin(d, a)
  PROVE  WiresTypeOK' /\ AgentTypeOK'
<1> DEFINE m == Head(toAgent[d][a])
<1>1. m \in ToAgentMsg
  BY HeadToAgent DEF NotifyAlreadyOut, DisconnectedDuringLogin, AReceives
<1>2. m.user \in Users
  BY <1>1, ToAgentFields
<1>3. toAgent' \in [Dists -> [Agents -> Seq(ToAgentMsg)]]
  BY AReceivesType DEF NotifyAlreadyOut, DisconnectedDuringLogin
<1>4. UNCHANGED <<connTab, charTab, anet, nextAKey, mapOut, row, queries, results, toDist>>
  BY DEF NotifyAlreadyOut, DisconnectedDuringLogin
<1>5. CASE userTab[a][m.user] # NoSlot /\ DropAccount(a, m.user)
  BY <1>2, <1>3, <1>4, <1>5, TypeDropAccount DEF TypeOK, WiresTypeOK, AgentTypeOK
<1>6. CASE UNCHANGED <<slots, free, userTab, deletes>>
  BY <1>3, <1>4, <1>6 DEF TypeOK, WiresTypeOK, AgentTypeOK
<1>7. QED
  BY <1>5, <1>6 DEF NotifyAlreadyOut, DisconnectedDuringLogin

LEMMA TypeForce ==
  ASSUME TypeOK, NEW d \in Dists, NEW a \in Agents, ForceDisconnectOverlapLogin(d, a)
  PROVE  WiresTypeOK' /\ AgentTypeOK'
<1> DEFINE m == Head(toAgent[d][a])
           s == userTab[a][m.user]
           c == slots[a][s].conn
<1>1. m.user \in Users
  BY HeadToAgent, ToAgentFields DEF ForceDisconnectOverlapLogin, AReceives
<1>2. toAgent' \in [Dists -> [Agents -> Seq(ToAgentMsg)]]
  BY AReceivesType DEF ForceDisconnectOverlapLogin
<1>3. UNCHANGED <<nextAKey, row, queries, results, toDist>>
  BY DEF ForceDisconnectOverlapLogin
<1>4. CASE UNCHANGED <<slots, free, connTab, userTab, charTab, anet, mapOut, deletes>>
  BY <1>2, <1>3, <1>4 DEF TypeOK, WiresTypeOK, AgentTypeOK
<1>5. CASE /\ s # NoSlot /\ c # NoConn /\ OnDisconnectUser(c)
           /\ anet' = [anet EXCEPT ![c] = "closing"]
  <2>1. slots[a][s] \in Info
    <3>1. s \in Slots \cup {NoSlot}
      BY <1>1 DEF TypeOK, AgentTypeOK
    <3>2. QED
      BY <1>5, <3>1 DEF TypeOK, AgentTypeOK
  <2>2. c \in AConns
    BY <1>5, <2>1 DEF Info
  <2>3. anet' \in [AConns -> {"free", "open", "closing"}]
    BY <1>5 DEF TypeOK, AgentTypeOK
  <2>4. QED
    BY <1>2, <1>3, <1>5, <2>2, <2>3, TypeOnDisconnectUser
       DEF TypeOK, WiresTypeOK, AgentTypeOK
<1>6. CASE s # NoSlot /\ DropAccount(a, m.user) /\ UNCHANGED <<connTab, charTab, anet, mapOut>>
  BY <1>1, <1>2, <1>3, <1>6, TypeDropAccount DEF TypeOK, WiresTypeOK, AgentTypeOK
<1>7. QED
  BY <1>4, <1>5, <1>6 DEF ForceDisconnectOverlapLogin

LEMMA TypeCharacterlistSyn ==
  ASSUME TypeOK, NEW c \in AConns, NEW u \in Users, NEW key, CharacterlistSyn(c, u, key)
  PROVE  WiresTypeOK' /\ AgentTypeOK'
<1> DEFINE a == AgentOf[c]
           s == userTab[a][u]
           pre == connTab[c]
<1>1. a \in Agents /\ pre \in Slots \cup {NoSlot} /\ s \in Slots \cup {NoSlot}
  BY WiresAssumption DEF TypeOK, AgentTypeOK
<1>2. anet' \in [AConns -> {"free", "open", "closing"}]
  BY DEF TypeOK, AgentTypeOK, CharacterlistSyn
<1>3. UNCHANGED <<nextAKey, row, queries, results, linkVars>>
  BY DEF CharacterlistSyn
<1>4. CASE OnDisconnectUser(c)
  BY <1>2, <1>3, <1>4, TypeOnDisconnectUser DEF TypeOK, WiresTypeOK, AgentTypeOK, linkVars
<1>5. CASE UNCHANGED <<slots, free, connTab, userTab, charTab, mapOut, deletes, anet>>
  BY <1>3, <1>5 DEF TypeOK, WiresTypeOK, AgentTypeOK, linkVars
<1>6. CASE /\ HeldUnder(a, u, key) /\ pre # NoSlot
           /\ slots' = [slots EXCEPT ![a][s].conn = c]
           /\ free' = [free EXCEPT ![a] = @ \cup {pre}]
           /\ connTab' = [connTab EXCEPT ![c] = s]
           /\ UNCHANGED <<userTab, charTab, mapOut, deletes, anet>>
  <2>1. s \in Slots /\ pre \in Slots
    BY <1>1, <1>6 DEF HeldUnder
  <2>2. [slots[a][s] EXCEPT !.conn = c] \in Info
    <3>1. slots[a][s] \in Info
      BY <1>1, <2>1 DEF TypeOK, AgentTypeOK
    <3>2. QED
      BY <3>1 DEF Info
  <2>3. slots' \in [Agents -> [Slots -> Info]]
    BY <1>1, <1>6, <2>1, <2>2 DEF TypeOK, AgentTypeOK
  <2>4. free' \in [Agents -> SUBSET Slots]
    BY <1>6, <2>1 DEF TypeOK, AgentTypeOK
  <2>5. connTab' \in [AConns -> Slots \cup {NoSlot}]
    BY <1>6, <2>1 DEF TypeOK, AgentTypeOK
  <2>6. QED
    BY <1>2, <1>3, <1>6, <2>3, <2>4, <2>5 DEF TypeOK, WiresTypeOK, AgentTypeOK, linkVars
<1>7. QED
  BY <1>4, <1>5, <1>6 DEF CharacterlistSyn

LEMMA TypeCharacterSelect ==
  ASSUME TypeOK, NEW c \in AConns, CharacterSelect(c)
  PROVE  WiresTypeOK' /\ AgentTypeOK'
<1> DEFINE a == AgentOf[c]
           s == connTab[c]
           u == slots[a][s].user
<1>1. a \in Agents /\ s \in Slots
  BY WiresAssumption DEF TypeOK, AgentTypeOK, CharacterSelect
<1>2. [slots[a][s] EXCEPT !.char = TRUE] \in Info
  <2>1. slots[a][s] \in Info
    BY <1>1 DEF TypeOK, AgentTypeOK
  <2>2. QED
    BY <2>1 DEF Info
<1>3. slots' \in [Agents -> [Slots -> Info]]
  BY <1>1, <1>2 DEF TypeOK, AgentTypeOK, CharacterSelect
<1>4. charTab' \in [Agents -> [Users -> Slots \cup {NoSlot}]]
  BY <1>1 DEF TypeOK, AgentTypeOK, CharacterSelect
<1>5. QED
  BY <1>3, <1>4 DEF TypeOK, WiresTypeOK, AgentTypeOK, CharacterSelect, dbVars, linkVars

LEMMA TypeMapToAgent ==
  ASSUME TypeOK, NEW a \in Agents, NEW u \in Users,
         BackToCharSel(a, u) \/ LoginCheckDeleteFromMap(a, u)
  PROVE  WiresTypeOK' /\ AgentTypeOK'
<1>1. CASE BackToCharSel(a, u)
  <2> DEFINE s == charTab[a][u]
  <2>1. s \in Slots
    BY <1>1 DEF TypeOK, AgentTypeOK, BackToCharSel
  <2>2. [slots[a][s] EXCEPT !.char = FALSE] \in Info
    <3>1. slots[a][s] \in Info
      BY <2>1 DEF TypeOK, AgentTypeOK
    <3>2. QED
      BY <3>1 DEF Info
  <2>3. slots' \in [Agents -> [Slots -> Info]]
    BY <1>1, <2>1, <2>2 DEF TypeOK, AgentTypeOK, BackToCharSel
  <2>4. charTab' \in [Agents -> [Users -> Slots \cup {NoSlot}]]
    BY <1>1 DEF TypeOK, AgentTypeOK, BackToCharSel
  <2>5. QED
    BY <1>1, <2>3, <2>4 DEF TypeOK, WiresTypeOK, AgentTypeOK, BackToCharSel, dbVars, linkVars
<1>2. CASE LoginCheckDeleteFromMap(a, u)
  <2>1. deletes' \in [Users -> Nat]
    BY <1>2, LoginCheckDeleteType DEF TypeOK, WiresTypeOK, LoginCheckDeleteFromMap
  <2>2. mapOut[a][u] \in Nat /\ mapOut[a][u] > 0
    BY <1>2 DEF TypeOK, AgentTypeOK, LoginCheckDeleteFromMap
  <2>3. mapOut[a][u] - 1 \in Nat
    BY <2>2
  <2>4. mapOut' = [mapOut EXCEPT ![a][u] = mapOut[a][u] - 1]
    BY <1>2 DEF LoginCheckDeleteFromMap
  <2>5. mapOut' \in [Agents -> [Users -> Nat]]
    BY <2>3, <2>4 DEF TypeOK, AgentTypeOK
  <2>6. QED
    BY <1>2, <2>1, <2>5
       DEF TypeOK, WiresTypeOK, AgentTypeOK, LoginCheckDeleteFromMap, linkVars
<1>3. QED
  BY <1>1, <1>2

-----------------------------------------------------------------------------
(* THE ORDER OF THE LOGINS. *)
(* What a step does to the links: the messages it adds, and the places of  *)
(* what is about the client that has connection index e now, which are the *)
(* places it had before or one further.                                    *)

SynsFrom(ms) ==
  \A d \in Dists, a \in Agents : \A i \in 1..Len(toAgent'[d][a]) :
    \/ toAgent'[d][a][i] \in ms
    \/ \E j \in 1..Len(toAgent[d][a]) : toAgent'[d][a][i] = toAgent[d][a][j]

AnswersFrom(ms) ==
  \A d \in Dists, a \in Agents : \A i \in 1..Len(toDist'[a][d]) :
    \/ toDist'[a][d][i] \in ms
    \/ \E j \in 1..Len(toDist[a][d]) : toDist'[a][d][i] = toDist[a][d][j]

LaterSyns(new, old, e) ==
  \E n \in {0, 1} : \A i \in 1..Len(new) :
    SynOf(e, new[i]) => i + n \in 1..Len(old) /\ new[i] = old[i + n]

LaterAnswers(new, old, e) ==
  \E n \in {0, 1} : \A i \in 1..Len(new) :
    Current(e, new[i]) => i + n \in 1..Len(old) /\ new[i] = old[i + n]

SynsLater(e) ==
  \A d \in Dists, a \in Agents : LaterSyns(toAgent'[d][a], toAgent[d][a], e)

AnswersLater(e) ==
  \A d \in Dists, a \in Agents : LaterAnswers(toDist'[a][d], toDist[a][d], e)

LEMMA LaterSame ==
  ASSUME NEW S, NEW s \in Seq(S), NEW e
  PROVE  LaterSyns(s, s, e) /\ LaterAnswers(s, s, e)
<1>1. \A i \in 1..Len(s) : i + 0 \in 1..Len(s) /\ s[i] = s[i + 0]
  OBVIOUS
<1>2. QED
  BY <1>1 DEF LaterSyns, LaterAnswers

LEMMA LaterTail ==
  ASSUME NEW S, NEW s \in Seq(S), s # <<>>, NEW e
  PROVE  LaterSyns(Tail(s), s, e) /\ LaterAnswers(Tail(s), s, e)
<1>1. \A i \in 1..Len(Tail(s)) : i + 1 \in 1..Len(s) /\ Tail(s)[i] = s[i + 1]
  OBVIOUS
<1>2. QED
  BY <1>1 DEF LaterSyns, LaterAnswers

LEMMA LaterAppend ==
  ASSUME NEW S, NEW s \in Seq(S), NEW m \in S, NEW e
  PROVE  /\ ~SynOf(e, m) => LaterSyns(Append(s, m), s, e)
         /\ ~Current(e, m) => LaterAnswers(Append(s, m), s, e)
<1>1. \A i \in 1..Len(Append(s, m)) :
        Append(s, m)[i] = m \/ (i + 0 \in 1..Len(s) /\ Append(s, m)[i] = s[i + 0])
  OBVIOUS
<1>2. QED
  BY <1>1 DEF LaterSyns, LaterAnswers

LEMMA AddedLast ==
  ASSUME NEW S, NEW s \in Seq(S), NEW m \in S
  PROVE  \A i \in 1..Len(Append(s, m)) :
           Append(s, m)[i] = m \/ \E j \in 1..Len(s) : Append(s, m)[i] = s[j]
<1>1. \A i \in 1..Len(Append(s, m)) :
        Append(s, m)[i] = m \/ (i \in 1..Len(s) /\ Append(s, m)[i] = s[i])
  OBVIOUS
<1>2. QED
  BY <1>1

LEMMA TakenFirst ==
  ASSUME NEW S, NEW s \in Seq(S), s # <<>>
  PROVE  \A i \in 1..Len(Tail(s)) : \E j \in 1..Len(s) : Tail(s)[i] = s[j]
<1>1. \A i \in 1..Len(Tail(s)) : i + 1 \in 1..Len(s) /\ Tail(s)[i] = s[i + 1]
  OBVIOUS
<1>2. QED
  BY <1>1

LEMMA ToAgentStays ==
  ASSUME TypeOK, UNCHANGED toAgent
  PROVE  SynsFrom({}) /\ \A e : SynsLater(e)
<1>1. \A d \in Dists, a \in Agents : toAgent[d][a] \in Seq(ToAgentMsg)
  BY DEF TypeOK, WiresTypeOK
<1>2. QED
  BY <1>1, LaterSame DEF SynsFrom, SynsLater

LEMMA ToDistStays ==
  ASSUME TypeOK, UNCHANGED toDist
  PROVE  AnswersFrom({}) /\ \A e : AnswersLater(e)
<1>1. \A d \in Dists, a \in Agents : toDist[a][d] \in Seq(ToDistMsg)
  BY DEF TypeOK, WiresTypeOK
<1>2. QED
  BY <1>1, LaterSame DEF AnswersFrom, AnswersLater

LEMMA ToAgentSent ==
  ASSUME TypeOK, NEW d \in Dists, NEW a \in Agents, NEW m \in ToAgentMsg, SendToAgent(d, a, m)
  PROVE  SynsFrom({m}) /\ \A e : ~SynOf(e, m) => SynsLater(e)
<1>1. ASSUME NEW f \in Dists, NEW b \in Agents
      PROVE  /\ toAgent[f][b] \in Seq(ToAgentMsg)
             /\ \/ toAgent'[f][b] = toAgent[f][b]
                \/ toAgent'[f][b] = Append(toAgent[f][b], m)
  BY DEF TypeOK, WiresTypeOK, SendToAgent
<1>2. SynsFrom({m})
  <2>1. ASSUME NEW f \in Dists, NEW b \in Agents, NEW i \in 1..Len(toAgent'[f][b])
        PROVE  toAgent'[f][b][i] \in {m} \/ \E j \in 1..Len(toAgent[f][b]) : toAgent'[f][b][i] = toAgent[f][b][j]
    <3>1. CASE toAgent'[f][b] = toAgent[f][b]
      BY <3>1
    <3>2. CASE toAgent'[f][b] # toAgent[f][b]
      <4>1. toAgent[f][b] \in Seq(ToAgentMsg) /\ toAgent'[f][b] = Append(toAgent[f][b], m)
        BY <1>1, <3>2
      <4>2. \A h \in 1..Len(Append(toAgent[f][b], m)) : Append(toAgent[f][b], m)[h] = m \/ \E j \in 1..Len(toAgent[f][b]) : Append(toAgent[f][b], m)[h] = toAgent[f][b][j]
        BY <4>1, AddedLast
      <4>3. QED
        BY <4>1, <4>2
    <3>3. QED
      BY <3>1, <3>2
  <2>2. QED
    BY <2>1 DEF SynsFrom
<1>3. ASSUME NEW e, ~SynOf(e, m), NEW f \in Dists, NEW b \in Agents
      PROVE  LaterSyns(toAgent'[f][b], toAgent[f][b], e)
  <2>1. CASE toAgent'[f][b] = toAgent[f][b]
    BY <1>1, <2>1, LaterSame
  <2>2. CASE toAgent'[f][b] = Append(toAgent[f][b], m)
    BY <1>1, <1>3, <2>2, LaterAppend
  <2>3. QED
    BY <1>1, <2>1, <2>2
<1>4. QED
  BY <1>2, <1>3 DEF SynsLater

LEMMA ToAgentBroadcast ==
  ASSUME TypeOK, NEW d \in Dists, NEW m \in ToAgentMsg, Broadcast2AgentServer(d, m)
  PROVE  SynsFrom({m}) /\ \A e : ~SynOf(e, m) => SynsLater(e)
<1>1. ASSUME NEW f \in Dists, NEW b \in Agents
      PROVE  /\ toAgent[f][b] \in Seq(ToAgentMsg)
             /\ \/ toAgent'[f][b] = toAgent[f][b]
                \/ toAgent'[f][b] = Append(toAgent[f][b], m)
  BY DEF TypeOK, WiresTypeOK, Broadcast2AgentServer
<1>2. SynsFrom({m})
  <2>1. ASSUME NEW f \in Dists, NEW b \in Agents, NEW i \in 1..Len(toAgent'[f][b])
        PROVE  toAgent'[f][b][i] \in {m} \/ \E j \in 1..Len(toAgent[f][b]) : toAgent'[f][b][i] = toAgent[f][b][j]
    <3>1. CASE toAgent'[f][b] = toAgent[f][b]
      BY <3>1
    <3>2. CASE toAgent'[f][b] # toAgent[f][b]
      <4>1. toAgent[f][b] \in Seq(ToAgentMsg) /\ toAgent'[f][b] = Append(toAgent[f][b], m)
        BY <1>1, <3>2
      <4>2. \A h \in 1..Len(Append(toAgent[f][b], m)) : Append(toAgent[f][b], m)[h] = m \/ \E j \in 1..Len(toAgent[f][b]) : Append(toAgent[f][b], m)[h] = toAgent[f][b][j]
        BY <4>1, AddedLast
      <4>3. QED
        BY <4>1, <4>2
    <3>3. QED
      BY <3>1, <3>2
  <2>2. QED
    BY <2>1 DEF SynsFrom
<1>3. ASSUME NEW e, ~SynOf(e, m), NEW f \in Dists, NEW b \in Agents
      PROVE  LaterSyns(toAgent'[f][b], toAgent[f][b], e)
  <2>1. CASE toAgent'[f][b] = toAgent[f][b]
    BY <1>1, <2>1, LaterSame
  <2>2. CASE toAgent'[f][b] = Append(toAgent[f][b], m)
    BY <1>1, <1>3, <2>2, LaterAppend
  <2>3. QED
    BY <1>1, <2>1, <2>2
<1>4. QED
  BY <1>2, <1>3 DEF SynsLater

LEMMA ToAgentTaken ==
  ASSUME TypeOK, NEW d \in Dists, NEW a \in Agents, NEW type, AReceives(d, a, type)
  PROVE  SynsFrom({}) /\ \A e : SynsLater(e)
<1>1. ASSUME NEW f \in Dists, NEW b \in Agents
      PROVE  /\ toAgent[f][b] \in Seq(ToAgentMsg)
             /\ \/ toAgent'[f][b] = toAgent[f][b]
                \/ toAgent[f][b] # <<>> /\ toAgent'[f][b] = Tail(toAgent[f][b])
  BY DEF TypeOK, WiresTypeOK, AReceives
<1>2. SynsFrom({})
  <2>1. ASSUME NEW f \in Dists, NEW b \in Agents, NEW i \in 1..Len(toAgent'[f][b])
        PROVE  toAgent'[f][b][i] \in {} \/ \E j \in 1..Len(toAgent[f][b]) : toAgent'[f][b][i] = toAgent[f][b][j]
    <3>1. CASE toAgent'[f][b] = toAgent[f][b]
      BY <3>1
    <3>2. CASE toAgent'[f][b] # toAgent[f][b]
      <4>1. toAgent[f][b] \in Seq(ToAgentMsg) /\ toAgent[f][b] # <<>>
            /\ toAgent'[f][b] = Tail(toAgent[f][b])
        BY <1>1, <3>2
      <4>2. \A h \in 1..Len(Tail(toAgent[f][b])) : \E j \in 1..Len(toAgent[f][b]) : Tail(toAgent[f][b])[h] = toAgent[f][b][j]
        BY <4>1, TakenFirst
      <4>3. QED
        BY <4>1, <4>2
    <3>3. QED
      BY <3>1, <3>2
  <2>2. QED
    BY <2>1 DEF SynsFrom
<1>3. QED
  BY <1>1, <1>2, LaterSame, LaterTail DEF SynsLater

LEMMA ToDistSent ==
  ASSUME TypeOK, NEW d \in Dists, NEW a \in Agents, NEW m \in ToDistMsg, SendToDist(a, d, m)
  PROVE  AnswersFrom({m}) /\ \A e : ~Current(e, m) => AnswersLater(e)
<1>1. ASSUME NEW f \in Dists, NEW b \in Agents
      PROVE  /\ toDist[b][f] \in Seq(ToDistMsg)
             /\ \/ toDist'[b][f] = toDist[b][f]
                \/ toDist'[b][f] = Append(toDist[b][f], m)
  BY DEF TypeOK, WiresTypeOK, SendToDist
<1>2. AnswersFrom({m})
  <2>1. ASSUME NEW f \in Dists, NEW b \in Agents, NEW i \in 1..Len(toDist'[b][f])
        PROVE  toDist'[b][f][i] \in {m} \/ \E j \in 1..Len(toDist[b][f]) : toDist'[b][f][i] = toDist[b][f][j]
    <3>1. CASE toDist'[b][f] = toDist[b][f]
      BY <3>1
    <3>2. CASE toDist'[b][f] # toDist[b][f]
      <4>1. toDist[b][f] \in Seq(ToDistMsg) /\ toDist'[b][f] = Append(toDist[b][f], m)
        BY <1>1, <3>2
      <4>2. \A h \in 1..Len(Append(toDist[b][f], m)) : Append(toDist[b][f], m)[h] = m \/ \E j \in 1..Len(toDist[b][f]) : Append(toDist[b][f], m)[h] = toDist[b][f][j]
        BY <4>1, AddedLast
      <4>3. QED
        BY <4>1, <4>2
    <3>3. QED
      BY <3>1, <3>2
  <2>2. QED
    BY <2>1 DEF AnswersFrom
<1>3. ASSUME NEW e, ~Current(e, m), NEW f \in Dists, NEW b \in Agents
      PROVE  LaterAnswers(toDist'[b][f], toDist[b][f], e)
  <2>1. CASE toDist'[b][f] = toDist[b][f]
    BY <1>1, <2>1, LaterSame
  <2>2. CASE toDist'[b][f] = Append(toDist[b][f], m)
    BY <1>1, <1>3, <2>2, LaterAppend
  <2>3. QED
    BY <1>1, <2>1, <2>2
<1>4. QED
  BY <1>2, <1>3 DEF AnswersLater

LEMMA ToDistTaken ==
  ASSUME TypeOK, NEW d \in Dists, NEW a \in Agents, NEW type, Receives(d, a, type)
  PROVE  AnswersFrom({}) /\ \A e : AnswersLater(e)
<1>1. ASSUME NEW f \in Dists, NEW b \in Agents
      PROVE  /\ toDist[b][f] \in Seq(ToDistMsg)
             /\ \/ toDist'[b][f] = toDist[b][f]
                \/ toDist[b][f] # <<>> /\ toDist'[b][f] = Tail(toDist[b][f])
  BY DEF TypeOK, WiresTypeOK, Receives
<1>2. AnswersFrom({})
  <2>1. ASSUME NEW f \in Dists, NEW b \in Agents, NEW i \in 1..Len(toDist'[b][f])
        PROVE  toDist'[b][f][i] \in {} \/ \E j \in 1..Len(toDist[b][f]) : toDist'[b][f][i] = toDist[b][f][j]
    <3>1. CASE toDist'[b][f] = toDist[b][f]
      BY <3>1
    <3>2. CASE toDist'[b][f] # toDist[b][f]
      <4>1. toDist[b][f] \in Seq(ToDistMsg) /\ toDist[b][f] # <<>>
            /\ toDist'[b][f] = Tail(toDist[b][f])
        BY <1>1, <3>2
      <4>2. \A h \in 1..Len(Tail(toDist[b][f])) : \E j \in 1..Len(toDist[b][f]) : Tail(toDist[b][f])[h] = toDist[b][f][j]
        BY <4>1, TakenFirst
      <4>3. QED
        BY <4>1, <4>2
    <3>3. QED
      BY <3>1, <3>2
  <2>2. QED
    BY <2>1 DEF AnswersFrom
<1>3. QED
  BY <1>1, <1>2, LaterSame, LaterTail DEF AnswersLater

-----------------------------------------------------------------------------
(* Keys.  What a step adds about e has a key that e's server gave out.     *)

Used(e) == 1..(nextKey[DistOf[e]] - 1)

TokensKnown(e) ==
  /\ \A q \in queries' : q.dc = e => q \in queries \/ q.key \in Used(e)
  /\ \A r \in results' : r.dc = e => r \in results \/ r.key \in Used(e)
  /\ \A t \in acked' \cup spent' : t.dc = e => t \in acked \cup spent \/ t.key \in Used(e)

LEMMA KeysStayOlder ==
  ASSUME TypeOK, NEW e \in DConns, KeysOlder(e), TokensKnown(e),
         nextKey'[DistOf[e]] \in Nat, nextKey'[DistOf[e]] >= nextKey[DistOf[e]],
         duser'[e].key < nextKey'[DistOf[e]],
         NEW ms, SynsFrom(ms),
         \A m \in ms : m.type = "userlogin_syn" /\ m.dc = e => m.key \in Used(e),
         NEW ns, AnswersFrom(ns),
         \A m \in ns : m.dc = e => m.key \in Used(e)
  PROVE  KeysOlder(e)'
<1> DEFINE np == nextKey'[DistOf[e]]
<1>1. DistOf[e] \in Dists /\ nextKey[DistOf[e]] \in Nat
  BY WiresAssumption DEF TypeOK, DistributeTypeOK
<1>2. Used(e) \subseteq 1..(np - 1)
  BY <1>1 DEF Used
<1>3. /\ \A q \in queries' : q.dc = e => q.key \in Used(e)
      /\ \A r \in results' : r.dc = e => r.key \in Used(e)
      /\ \A t \in acked' \cup spent' : t.dc = e => t.key \in Used(e)
  BY DEF KeysOlder, TokensKnown, Used
<1>4. \A d \in Dists, a \in Agents : \A i \in 1..Len(toAgent'[d][a]) :
        toAgent'[d][a][i].type = "userlogin_syn" /\ toAgent'[d][a][i].dc = e
          => toAgent'[d][a][i].key \in Used(e)
  <2>1. SUFFICES ASSUME NEW d \in Dists, NEW a \in Agents, NEW i \in 1..Len(toAgent'[d][a]),
                        toAgent'[d][a][i].type = "userlogin_syn", toAgent'[d][a][i].dc = e
                 PROVE  toAgent'[d][a][i].key \in Used(e)
    OBVIOUS
  <2>2. \/ toAgent'[d][a][i] \in ms
        \/ \E j \in 1..Len(toAgent[d][a]) : toAgent'[d][a][i] = toAgent[d][a][j]
    BY DEF SynsFrom
  <2>3. \A j \in 1..Len(toAgent[d][a]) :
          toAgent[d][a][j].type = "userlogin_syn" /\ toAgent[d][a][j].dc = e
            => toAgent[d][a][j].key \in Used(e)
    BY DEF KeysOlder, Used
  <2>4. QED
    BY <2>1, <2>2, <2>3
<1>5. \A d \in Dists, a \in Agents : \A i \in 1..Len(toDist'[a][d]) :
        toDist'[a][d][i].dc = e => toDist'[a][d][i].key \in Used(e)
  <2>1. SUFFICES ASSUME NEW d \in Dists, NEW a \in Agents, NEW i \in 1..Len(toDist'[a][d]),
                        toDist'[a][d][i].dc = e
                 PROVE  toDist'[a][d][i].key \in Used(e)
    OBVIOUS
  <2>2. \/ toDist'[a][d][i] \in ns
        \/ \E j \in 1..Len(toDist[a][d]) : toDist'[a][d][i] = toDist[a][d][j]
    BY DEF AnswersFrom
  <2>3. \A j \in 1..Len(toDist[a][d]) :
          toDist[a][d][j].dc = e => toDist[a][d][j].key \in Used(e)
    BY DEF KeysOlder, Used
  <2>4. QED
    BY <2>1, <2>2, <2>3
<1>6. QED
  BY <1>2, <1>3, <1>4, <1>5 DEF KeysOlder

-----------------------------------------------------------------------------
(* A step that neither adds anything about the client e has now nor        *)
(* changes the USERINFO of e in what the login depends on.                 *)

SameUser(e) ==
  /\ duser'[e].key = duser[e].key
  /\ duser'[e].user = duser[e].user
  /\ duser'[e].state = duser[e].state
  /\ duser'[e].del = duser[e].del

NoNewTokens(e) ==
  /\ \A q \in queries' : Current(e, q) => q \in queries
  /\ \A r \in results' : Current(e, r) => r \in results
  /\ \A t \in acked' \cup spent' : Current(e, t) => t \in acked \cup spent

Frame(e) == SameUser(e) /\ NoNewTokens(e) /\ SynsLater(e) /\ AnswersLater(e)

(* Such a step leaves the login of e in order. *)
LEMMA FrameInOrder ==
  ASSUME TypeOK, NEW e \in DConns, InOrder(e), KeysOlder(e)', Frame(e)
  PROVE  InOrder(e)'
<1>1. /\ duser'[e].key = duser[e].key
      /\ duser'[e].user = duser[e].user
      /\ duser'[e].state = duser[e].state
      /\ duser'[e].del = duser[e].del
      /\ NoNewTokens(e)
  BY DEF Frame, SameUser
(* A message about e has an earlier place, the same shift for its queue. *)
<1>2. ASSUME NEW d \in Dists, NEW a \in Agents
      PROVE  /\ \E k \in {0, 1} : \A i \in 1..Len(toAgent'[d][a]) :
                  SynOf(e, toAgent[d][a][i])' =>
                    /\ i + k \in 1..Len(toAgent[d][a])
                    /\ toAgent'[d][a][i] = toAgent[d][a][i + k]
                    /\ SynOf(e, toAgent[d][a][i + k])
             /\ \E k \in {0, 1} : \A i \in 1..Len(toDist'[a][d]) :
                  Current(e, toDist[a][d][i])' =>
                    /\ i + k \in 1..Len(toDist[a][d])
                    /\ toDist'[a][d][i] = toDist[a][d][i + k]
                    /\ Current(e, toDist[a][d][i + k])
  <2>1. LaterSyns(toAgent'[d][a], toAgent[d][a], e) /\ LaterAnswers(toDist'[a][d], toDist[a][d], e)
    BY DEF Frame, SynsLater, AnswersLater
  <2>2. \E k \in {0, 1} : \A i \in 1..Len(toAgent'[d][a]) :
                  SynOf(e, toAgent[d][a][i])' =>
                    /\ i + k \in 1..Len(toAgent[d][a])
                    /\ toAgent'[d][a][i] = toAgent[d][a][i + k]
                    /\ SynOf(e, toAgent[d][a][i + k])
    BY <1>1, <2>1 DEF LaterSyns, SynOf, Current
  <2>3. \E k \in {0, 1} : \A i \in 1..Len(toDist'[a][d]) :
                  Current(e, toDist[a][d][i])' =>
                    /\ i + k \in 1..Len(toDist[a][d])
                    /\ toDist'[a][d][i] = toDist[a][d][i + k]
                    /\ Current(e, toDist[a][d][i + k])
    BY <1>1, <2>1 DEF LaterAnswers, Current
  <2>4. QED
    BY <2>2, <2>3
<1>3. OneLogin(e)' /\ OneIpCheck(e)'
  BY <1>1 DEF InOrder, OneLogin, OneIpCheck, NoNewTokens, LoginOf, IpOf, Current
<1>4. OneAnnouncement(e)'
  <2> SUFFICES ASSUME NEW d \in Dists, NEW f \in Dists, NEW a \in Agents, NEW b \in Agents
               PROVE  /\ \A i \in 1..Len(toAgent'[d][a]), j \in 1..Len(toAgent'[f][b]) :
                           SynOf(e, toAgent[d][a][i])' /\ SynOf(e, toAgent[f][b][j])'
                             => d = f /\ a = b /\ i = j
                      /\ \A i \in 1..Len(toDist'[a][d]), j \in 1..Len(toDist'[b][f]) :
                           Current(e, toDist[a][d][i])' /\ Current(e, toDist[b][f][j])'
                             => d = f /\ a = b /\ i = j
                      /\ \A i \in 1..Len(toAgent'[d][a]), j \in 1..Len(toDist'[b][f]) :
                           ~(SynOf(e, toAgent[d][a][i])' /\ Current(e, toDist[b][f][j])')
    BY DEF OneAnnouncement, SynOf, Current
  <2>1. /\ \A i \in 1..Len(toAgent[d][a]), j \in 1..Len(toAgent[f][b]) :
             SynOf(e, toAgent[d][a][i]) /\ SynOf(e, toAgent[f][b][j])
               => d = f /\ a = b /\ i = j
        /\ \A i \in 1..Len(toDist[a][d]), j \in 1..Len(toDist[b][f]) :
             Current(e, toDist[a][d][i]) /\ Current(e, toDist[b][f][j])
               => d = f /\ a = b /\ i = j
        /\ \A i \in 1..Len(toAgent[d][a]), j \in 1..Len(toDist[b][f]) :
             ~(SynOf(e, toAgent[d][a][i]) /\ Current(e, toDist[b][f][j]))
    BY DEF InOrder, OneAnnouncement
  <2>2. ASSUME NEW i \in 1..Len(toAgent'[d][a]), NEW j \in 1..Len(toAgent'[f][b]),
               SynOf(e, toAgent[d][a][i])', SynOf(e, toAgent[f][b][j])'
        PROVE  d = f /\ a = b /\ i = j
    <3>1. d = f /\ a = b
      <4>1. \E h \in 1..Len(toAgent[d][a]) : SynOf(e, toAgent[d][a][h])
        BY <1>2, <2>2
      <4>2. \E h \in 1..Len(toAgent[f][b]) : SynOf(e, toAgent[f][b][h])
        BY <1>2, <2>2
      <4>3. QED
        BY <2>1, <4>1, <4>2
    <3>2. PICK k \in {0, 1} : \A h \in 1..Len(toAgent'[d][a]) :
                  SynOf(e, toAgent[d][a][h])' =>
                    /\ h + k \in 1..Len(toAgent[d][a])
                    /\ SynOf(e, toAgent[d][a][h + k])
      BY <1>2
    <3>3. i + k = j + k
      BY <2>1, <2>2, <3>1, <3>2
    <3>4. QED
      BY <3>1, <3>3
  <2>3. ASSUME NEW i \in 1..Len(toDist'[a][d]), NEW j \in 1..Len(toDist'[b][f]),
               Current(e, toDist[a][d][i])', Current(e, toDist[b][f][j])'
        PROVE  d = f /\ a = b /\ i = j
    <3>1. d = f /\ a = b
      <4>1. \E h \in 1..Len(toDist[a][d]) : Current(e, toDist[a][d][h])
        BY <1>2, <2>3
      <4>2. \E h \in 1..Len(toDist[b][f]) : Current(e, toDist[b][f][h])
        BY <1>2, <2>3
      <4>3. QED
        BY <2>1, <4>1, <4>2
    <3>2. PICK k \in {0, 1} : \A h \in 1..Len(toDist'[a][d]) :
                  Current(e, toDist[a][d][h])' =>
                    /\ h + k \in 1..Len(toDist[a][d])
                    /\ Current(e, toDist[a][d][h + k])
      BY <1>2
    <3>3. i + k = j + k
      BY <2>1, <2>3, <3>1, <3>2
    <3>4. QED
      BY <3>1, <3>3
  <2>4. ASSUME NEW i \in 1..Len(toAgent'[d][a]), NEW j \in 1..Len(toDist'[b][f]),
               SynOf(e, toAgent[d][a][i])', Current(e, toDist[b][f][j])'
        PROVE  FALSE
    BY <1>2, <2>1, <2>4
  <2>5. QED
    BY <2>2, <2>3, <2>4
<1>5. CheckedFirst(e)'
  <2> SUFFICES ASSUME NEW q \in queries' \cup results', IpOf(e, q)',
                      NEW d \in Dists, NEW a \in Agents
               PROVE  /\ \A i \in 1..Len(toAgent'[d][a]) : ~SynOf(e, toAgent[d][a][i])'
                      /\ \A i \in 1..Len(toDist'[a][d]) : ~Current(e, toDist[a][d][i])'
    BY DEF CheckedFirst, SynOf, IpOf, Current
  <2>1. q \in queries \cup results /\ IpOf(e, q)
    BY <1>1 DEF NoNewTokens, IpOf, Current
  <2>2. /\ \A i \in 1..Len(toAgent[d][a]) : ~SynOf(e, toAgent[d][a][i])
        /\ \A i \in 1..Len(toDist[a][d]) : ~Current(e, toDist[a][d][i])
    BY <2>1 DEF InOrder, CheckedFirst
  <2>3. QED
    BY <1>2, <2>2
<1>6. StateAgrees(e)'
  <2>1. (duser[e].state # "ok" => ~duser[e].del)'
    BY <1>1 DEF InOrder, StateAgrees
  <2>2. ASSUME NEW q \in queries' \cup results'
        PROVE  /\ LoginOf(e, q)' => duser'[e].state # "ok"
               /\ IpOf(e, q)' => \E u \in Users : Admitted(e, u)'
    BY <1>1 DEF InOrder, StateAgrees, NoNewTokens, LoginOf, IpOf, Current, Admitted
  <2>3. ASSUME NEW d \in Dists, NEW a \in Agents
        PROVE  /\ \A i \in 1..Len(toAgent'[d][a]) :
                    SynOf(e, toAgent[d][a][i])' => Admitted(e, toAgent[d][a][i].user)'
               /\ \A i \in 1..Len(toDist'[a][d]) :
                    Current(e, toDist[a][d][i])' => Admitted(e, toDist[a][d][i].user)'
    <3>1. /\ \A i \in 1..Len(toAgent[d][a]) :
               SynOf(e, toAgent[d][a][i]) => Admitted(e, toAgent[d][a][i].user)
          /\ \A i \in 1..Len(toDist[a][d]) :
               Current(e, toDist[a][d][i]) => Admitted(e, toDist[a][d][i].user)
      BY DEF InOrder, StateAgrees
    <3>2. \A u : Admitted(e, u)' <=> Admitted(e, u)
      BY <1>1 DEF Admitted
    <3>3. ASSUME NEW i \in 1..Len(toAgent'[d][a]), SynOf(e, toAgent[d][a][i])'
          PROVE  Admitted(e, toAgent'[d][a][i].user)
      BY <1>2, <3>1, <3>3
    <3>4. ASSUME NEW i \in 1..Len(toDist'[a][d]), Current(e, toDist[a][d][i])'
          PROVE  Admitted(e, toDist'[a][d][i].user)
      BY <1>2, <3>1, <3>4
    <3>5. QED
      BY <1>1, <3>3, <3>4 DEF Admitted
  <2>4. ASSUME NEW t \in acked' \cup spent', Current(e, t)'
        PROVE  /\ duser'[e].user = t.user
               /\ duser'[e].state = "ok"
               /\ ~duser'[e].del
    BY <1>1, <2>4 DEF InOrder, StateAgrees, NoNewTokens, Current
  <2>5. QED
    BY <2>1, <2>2, <2>3, <2>4 DEF StateAgrees, LoginOf, IpOf, SynOf, Current, Admitted
<1>7. QED
  BY <1>3, <1>4, <1>5, <1>6 DEF InOrder

-----------------------------------------------------------------------------
(* What is not under way about the client e has now. *)

NoLogin(e)  == \A q \in queries \cup results : ~LoginOf(e, q)
NoIp(e)     == \A q \in queries \cup results : ~IpOf(e, q)
NoSyn(e)    == \A d \in Dists, a \in Agents : \A i \in 1..Len(toAgent[d][a]) :
                 ~SynOf(e, toAgent[d][a][i])
NoAnswer(e) == \A d \in Dists, a \in Agents : \A i \in 1..Len(toDist[a][d]) :
                 ~Current(e, toDist[a][d][i])
NoTicket(e) == \A t \in acked \cup spent : ~Current(e, t)

Nothing(e) == NoLogin(e) /\ NoIp(e) /\ NoSyn(e) /\ NoAnswer(e) /\ NoTicket(e)

(* The phases of a login exclude one another by the state of the USERINFO. *)
LEMMA Exclusive ==
  ASSUME NEW e \in DConns, InOrder(e)
  PROVE  /\ duser[e].state # "ok" => NoIp(e) /\ NoSyn(e) /\ NoAnswer(e) /\ NoTicket(e)
         /\ duser[e].state = "ok" => NoLogin(e)
         /\ duser[e].del => NoTicket(e)
         /\ duser[e].del => duser[e].state = "ok"
  BY DEF InOrder, StateAgrees, Admitted, NoIp, NoSyn, NoAnswer, NoTicket, NoLogin

LEMMA NothingInOrder ==
  ASSUME NEW e \in DConns, KeysOlder(e)', Nothing(e)',
         (duser[e].state # "ok" => ~duser[e].del)'
  PROVE  InOrder(e)'
<1>1. OneLogin(e)' /\ OneIpCheck(e)'
  BY DEF Nothing, NoLogin, NoIp, OneLogin, OneIpCheck
<1>2. OneAnnouncement(e)' /\ CheckedFirst(e)'
  BY DEF Nothing, NoSyn, NoAnswer, NoIp, OneAnnouncement, CheckedFirst
<1>3. StateAgrees(e)'
  BY DEF Nothing, NoLogin, NoIp, NoSyn, NoAnswer, NoTicket, StateAgrees
<1>4. QED
  BY <1>1, <1>2, <1>3 DEF InOrder

LEMMA QuietStep ==
  ASSUME TypeOK, LoginInOrder, UNCHANGED nextKey,
         \A e \in DConns : SameUser(e),
         queries' \subseteq queries, results' \subseteq results,
         acked' \cup spent' \subseteq acked \cup spent,
         NEW ms, SynsFrom(ms), \A m \in ms : m.type # "userlogin_syn",
         \A e \in DConns : SynsLater(e),
         AnswersFrom({}), \A e : AnswersLater(e)
  PROVE  LoginInOrder'
<1> SUFFICES ASSUME NEW e \in DConns PROVE InOrder(e)'
  BY DEF LoginInOrder
<1>1. InOrder(e) /\ KeysOlder(e)
  BY DEF LoginInOrder, InOrder
<1>2. nextKey[DistOf[e]] \in Nat
  BY WiresAssumption DEF TypeOK, DistributeTypeOK
<1>3. duser'[e].key < nextKey'[DistOf[e]]
  BY <1>1 DEF KeysOlder, SameUser
<1>4. TokensKnown(e) /\ NoNewTokens(e)
  BY DEF TokensKnown, NoNewTokens
<1>5. KeysOlder(e)'
  BY <1>1, <1>2, <1>3, <1>4, KeysStayOlder
<1>6. Frame(e)
  BY <1>4 DEF Frame
<1>7. QED
  BY <1>1, <1>5, <1>6, FrameInOrder

LEMMA SameUsers ==
  ASSUME UNCHANGED duser
  PROVE  \A e \in DConns : SameUser(e)
  BY DEF SameUser

(* Steps of the agents and of their clients that answer nothing. *)
LEMMA AgentQuiet ==
  ASSUME TypeOK, LoginInOrder, UNCHANGED <<distVars, queries, results, toDist>>,
         acked' \cup spent' \subseteq acked \cup spent,
         \/ UNCHANGED toAgent
         \/ \E d \in Dists, a \in Agents : \E type \in {"userlogin_syn", "alreadyout",
              "disconnected_on_login", "force"} : AReceives(d, a, type)
  PROVE  LoginInOrder'
<1>1. SynsFrom({}) /\ \A e \in DConns : SynsLater(e)
  BY ToAgentStays, ToAgentTaken
<1>2. AnswersFrom({}) /\ \A e : AnswersLater(e)
  BY ToDistStays
<1>3. UNCHANGED <<duser, nextKey>>
  BY DEF distVars
<1>4. QED
  BY <1>1, <1>2, <1>3, QuietStep, SameUsers

LEMMA OrderForceOverlap ==
  ASSUME TypeOK, LoginInOrder, NEW dc \in DConns, ForceOverlap(dc), UNCHANGED clientVars
  PROVE  LoginInOrder'
<1> DEFINE d == DistOf[dc]
           u == duser[dc].user
<1>1. UNCHANGED <<duser, nextKey, queries, results, toDist, acked, spent>>
  BY DEF ForceOverlap, clientVars
<1>2. AnswersFrom({}) /\ \A e : AnswersLater(e)
  BY <1>1, ToDistStays
<1>3. \E ms : /\ SynsFrom(ms) /\ \A m \in ms : m.type # "userlogin_syn"
              /\ \A e \in DConns : SynsLater(e)
  <2>1. CASE UNCHANGED toAgent
    BY <2>1, ToAgentStays
  <2>2. CASE u # NoUser /\ Broadcast2AgentServer(d, ForceDisconnect(u))
    <3>1. d \in Dists /\ u \in Users
      BY <2>2, WiresAssumption DEF TypeOK, DistributeTypeOK, DUser
    <3>2. ForceDisconnect(u) \in ToAgentMsg /\ ForceDisconnect(u).type # "userlogin_syn"
      BY <3>1 DEF ForceDisconnect, ToAgentMsg
    <3>3. \A e : ~SynOf(e, ForceDisconnect(u))
      BY <3>2 DEF SynOf
    <3>4. SynsFrom({ForceDisconnect(u)}) /\ \A e \in DConns : SynsLater(e)
      BY <2>2, <3>1, <3>2, <3>3, ToAgentBroadcast
    <3>5. QED
      BY <3>2, <3>4
  <2>3. QED
    BY <2>1, <2>2 DEF ForceOverlap
<1>4. QED
  BY <1>1, <1>2, <1>3, QuietStep, SameUsers

LEMMA OrderDistOut ==
  ASSUME TypeOK, LoginInOrder, NEW dc \in DConns, DistOut(dc), UNCHANGED clientVars
  PROVE  LoginInOrder'
<1>1. UNCHANGED <<nextKey, queries, results, toAgent, toDist, acked, spent>>
  BY DEF DistOut, clientVars, dbVars, linkVars
<1>2. \A e \in DConns : SameUser(e)
  BY DEF DistOut, SameUser, TypeOK, DistributeTypeOK, DUser
<1>3. QED
  BY <1>1, <1>2, QuietStep, ToAgentStays, ToDistStays

LEMMA OrderDConnLost ==
  ASSUME TypeOK, LoginInOrder, NEW dc \in DConns, DConnLost(dc),
         acked' \cup spent' \subseteq acked \cup spent
  PROVE  LoginInOrder'
<1>1. UNCHANGED <<duser, nextKey, queries, results, toAgent, toDist>>
  BY DEF DConnLost, dbVars, linkVars
<1>2. QED
  BY <1>1, QuietStep, SameUsers, ToAgentStays, ToDistStays

LEMMA OrderAckTooLate ==
  ASSUME TypeOK, LoginInOrder, NEW d \in Dists, NEW a \in Agents, AckTooLate(d, a),
         UNCHANGED clientVars
  PROVE  LoginInOrder'
<1> DEFINE m == Head(toDist[a][d])
           n == AlreadyOut(m.user, m.akey)
<1>1. UNCHANGED <<duser, nextKey, queries, results, acked, spent>>
  BY DEF AckTooLate, clientVars, distVars, dbVars
<1>2. AnswersFrom({}) /\ \A e : AnswersLater(e)
  BY ToDistTaken DEF AckTooLate
<1>3. m \in ToDistMsg /\ m.type = "userlogin_ack"
  BY HeadToDist DEF AckTooLate, Receives
<1>4. n \in ToAgentMsg /\ n.type # "userlogin_syn"
  BY <1>3, ToDistFields DEF AlreadyOut, ToAgentMsg
<1>5. \A e : ~SynOf(e, n)
  BY <1>4 DEF SynOf
<1>6. SynsFrom({n}) /\ \A e : SynsLater(e)
  BY <1>4, <1>5, ToAgentSent DEF AckTooLate
<1>7. QED
  BY <1>1, <1>2, <1>4, <1>6, QuietStep, SameUsers

LEMMA OrderNackDelivered ==
  ASSUME TypeOK, LoginInOrder, NEW d \in Dists, NEW a \in Agents, NackDelivered(d, a),
         UNCHANGED clientVars
  PROVE  LoginInOrder'
<1>1. UNCHANGED <<duser, nextKey, queries, results, toAgent, acked, spent>>
  BY DEF NackDelivered, clientVars, dbVars
<1>2. AnswersFrom({}) /\ \A e : AnswersLater(e)
  BY ToDistTaken DEF NackDelivered
<1>3. QED
  BY <1>1, <1>2, QuietStep, SameUsers, ToAgentStays

-----------------------------------------------------------------------------
(* A client arrives or leaves. *)

LEMMA OrderDAccept ==
  ASSUME TypeOK, LoginInOrder, NEW dc \in DConns, DAccept(dc), UNCHANGED clientVars
  PROVE  LoginInOrder'
<1> DEFINE d == DistOf[dc]
<1>1. UNCHANGED <<queries, results, toAgent, toDist, acked, spent>>
  BY DEF DAccept, clientVars, dbVars, linkVars
<1>2. d \in Dists /\ nextKey[d] \in Nat /\ nextKey \in [Dists -> 1..(MaxKey + 1)] /\ MaxKey \in Nat
  BY WiresAssumption DEF TypeOK, DistributeTypeOK
<1>3. /\ duser'[dc].key = nextKey[d] /\ duser'[dc].state = "none" /\ ~duser'[dc].del
      /\ \A e \in DConns : e # dc => duser'[e] = duser[e]
  BY DEF DAccept, TypeOK, DistributeTypeOK, NoDUser
<1>4. nextKey'[d] = nextKey[d] + 1 /\ \A e \in DConns : nextKey'[DistOf[e]] \in Nat
        /\ nextKey'[DistOf[e]] >= nextKey[DistOf[e]]
  BY <1>2, WiresAssumption DEF DAccept
<1>5. ASSUME NEW e \in DConns
      PROVE  KeysOlder(e)'
  <2>1. KeysOlder(e) /\ TokensKnown(e)
    BY <1>1 DEF LoginInOrder, InOrder, TokensKnown
  <2>2. duser'[e].key < nextKey'[DistOf[e]]
    <3>1. CASE e = dc
      BY <1>2, <1>3, <1>4, <3>1
    <3>2. CASE e # dc
      <4>1. duser[e].key \in Nat /\ duser[e].key < nextKey[DistOf[e]]
            /\ nextKey[DistOf[e]] \in Nat
        BY <1>2, <2>1, WiresAssumption DEF KeysOlder, TypeOK, DistributeTypeOK, DUser
      <4>2. QED
        BY <1>3, <1>4, <3>2, <4>1
    <3>3. QED
      BY <3>1, <3>2
  <2>3. QED
    BY <1>1, <1>4, <2>1, <2>2, KeysStayOlder, ToAgentStays, ToDistStays
<1>6. ASSUME NEW e \in DConns, e # dc
      PROVE  InOrder(e)'
  <2>1. Frame(e)
    BY <1>1, <1>3, <1>6, ToAgentStays, ToDistStays DEF Frame, SameUser, NoNewTokens
  <2>2. QED
    BY <1>5, <2>1, FrameInOrder DEF LoginInOrder
<1>7. InOrder(dc)'
  <2>1. KeysOlder(dc) /\ nextKey[d] \notin 1..(nextKey[d] - 1)
    BY <1>2 DEF LoginInOrder, InOrder
  <2>2. Nothing(dc)'
    BY <1>1, <1>3, <2>1
       DEF KeysOlder, Nothing, NoLogin, NoIp, NoSyn, NoAnswer, NoTicket,
           LoginOf, IpOf, SynOf, Current
  <2>3. QED
    BY <1>3, <1>5, <2>2, NothingInOrder
<1>8. QED
  BY <1>6, <1>7 DEF LoginInOrder

LEMMA OrderDDisconnected ==
  ASSUME TypeOK, LoginInOrder, NEW dc \in DConns, DDisconnected(dc),
         acked' \cup spent' \subseteq acked \cup spent
  PROVE  LoginInOrder'
<1> DEFINE d == DistOf[dc]
           r == duser[dc]
           m == DisconnectedOnLogin(r.user, r.key)
<1>1. UNCHANGED <<nextKey, queries, results, toDist>>
  BY DEF DDisconnected
<1>2. /\ duser'[dc].key = 0 /\ duser'[dc].state = "none" /\ ~duser'[dc].del
      /\ \A e \in DConns : e # dc => duser'[e] = duser[e]
  BY DEF DDisconnected, TypeOK, DistributeTypeOK, NoDUser
<1>3. \E ms : /\ SynsFrom(ms) /\ \A n \in ms : n.type # "userlogin_syn"
              /\ \A e \in DConns : SynsLater(e)
  <2>1. CASE UNCHANGED toAgent
    BY <2>1, ToAgentStays
  <2>2. CASE r.user # NoUser /\ Broadcast2AgentServer(d, m)
    <3>1. d \in Dists /\ r.user \in Users /\ r.key \in Nat
      BY <2>2, WiresAssumption DEF TypeOK, DistributeTypeOK, DUser
    <3>2. m \in ToAgentMsg /\ m.type # "userlogin_syn"
      BY <3>1 DEF DisconnectedOnLogin, ToAgentMsg
    <3>3. \A e : ~SynOf(e, m)
      BY <3>2 DEF SynOf
    <3>4. SynsFrom({m}) /\ \A e \in DConns : SynsLater(e)
      BY <2>2, <3>1, <3>2, <3>3, ToAgentBroadcast
    <3>5. QED
      BY <3>2, <3>4
  <2>3. QED
    BY <2>1, <2>2 DEF DDisconnected
<1>4. ASSUME NEW e \in DConns
      PROVE  KeysOlder(e)'
  <2>1. KeysOlder(e) /\ TokensKnown(e)
    BY <1>1 DEF LoginInOrder, InOrder, TokensKnown
  <2>2. nextKey[DistOf[e]] \in Nat \ {0}
    BY WiresAssumption DEF TypeOK, DistributeTypeOK
  <2>3. duser'[e].key < nextKey'[DistOf[e]]
    BY <1>1, <1>2, <2>1, <2>2 DEF KeysOlder
  <2>4. QED
    BY <1>1, <1>3, <2>1, <2>2, <2>3, KeysStayOlder, ToDistStays
<1>5. ASSUME NEW e \in DConns, e # dc
      PROVE  InOrder(e)'
  <2>1. SynsLater(e) /\ AnswersLater(e)
    BY <1>1, <1>3, ToDistStays
  <2>2. Frame(e)
    BY <1>1, <1>2, <1>5, <2>1 DEF Frame, SameUser, NoNewTokens
  <2>3. QED
    BY <1>4, <2>2, FrameInOrder DEF LoginInOrder
<1>6. InOrder(dc)'
  <2>1. \A n : 0 \notin 1..n
    OBVIOUS
  <2>2. Nothing(dc)'
    BY <1>2, <1>4, <2>1
       DEF KeysOlder, Nothing, NoLogin, NoIp, NoSyn, NoAnswer, NoTicket,
           LoginOf, IpOf, SynOf, Current
  <2>3. QED
    BY <1>2, <1>4, <2>2, NothingInOrder
<1>7. QED
  BY <1>5, <1>6 DEF LoginInOrder

-----------------------------------------------------------------------------
(* The phases of a login, each established by the step that enters it. *)

LEMMA LoginPhase ==
  ASSUME NEW e \in DConns, KeysOlder(e)', OneLogin(e)',
         NoIp(e)', NoSyn(e)', NoAnswer(e)', NoTicket(e)',
         (duser[e].state # "ok" /\ ~duser[e].del)'
  PROVE  InOrder(e)'
<1>1. OneIpCheck(e)' /\ OneAnnouncement(e)' /\ CheckedFirst(e)'
  BY DEF NoIp, NoSyn, NoAnswer, OneIpCheck, OneAnnouncement, CheckedFirst
<1>2. StateAgrees(e)'
  BY DEF NoIp, NoSyn, NoAnswer, NoTicket, StateAgrees
<1>3. QED
  BY <1>1, <1>2 DEF InOrder

LEMMA CheckPhase ==
  ASSUME NEW e \in DConns, KeysOlder(e)', OneIpCheck(e)',
         NoLogin(e)', NoSyn(e)', NoAnswer(e)', NoTicket(e)',
         NEW u \in Users, Admitted(e, u)'
  PROVE  InOrder(e)'
<1>1. OneLogin(e)' /\ OneAnnouncement(e)' /\ CheckedFirst(e)'
  BY DEF NoLogin, NoSyn, NoAnswer, OneLogin, OneAnnouncement, CheckedFirst
<1>2. StateAgrees(e)'
  BY DEF NoLogin, NoSyn, NoAnswer, NoTicket, StateAgrees, Admitted
<1>3. QED
  BY <1>1, <1>2 DEF InOrder

LEMMA AnnouncePhase ==
  ASSUME NEW e \in DConns, KeysOlder(e)', OneAnnouncement(e)',
         NoLogin(e)', NoIp(e)', NoTicket(e)',
         (duser[e].state = "ok")',
         \A d \in Dists, a \in Agents :
           /\ \A i \in 1..Len(toAgent'[d][a]) :
                SynOf(e, toAgent[d][a][i])' => Admitted(e, toAgent[d][a][i].user)'
           /\ \A i \in 1..Len(toDist'[a][d]) :
                Current(e, toDist[a][d][i])' => Admitted(e, toDist[a][d][i].user)'
  PROVE  InOrder(e)'
<1>1. OneLogin(e)' /\ OneIpCheck(e)' /\ CheckedFirst(e)'
  BY DEF NoLogin, NoIp, OneLogin, OneIpCheck, CheckedFirst
<1>2. StateAgrees(e)'
  BY DEF NoLogin, NoIp, NoTicket, StateAgrees
<1>3. QED
  BY <1>1, <1>2 DEF InOrder

LEMMA TicketPhase ==
  ASSUME NEW e \in DConns, KeysOlder(e)',
         NoLogin(e)', NoIp(e)', NoSyn(e)', NoAnswer(e)',
         (duser[e].state = "ok")',
         \A t \in acked' \cup spent' :
           Current(e, t)' => duser'[e].user = t.user /\ ~duser'[e].del
  PROVE  InOrder(e)'
<1>1. OneLogin(e)' /\ OneIpCheck(e)' /\ OneAnnouncement(e)' /\ CheckedFirst(e)'
  BY DEF NoLogin, NoIp, NoSyn, NoAnswer, OneLogin, OneIpCheck, OneAnnouncement, CheckedFirst
<1>2. StateAgrees(e)'
  BY DEF NoLogin, NoIp, NoSyn, NoAnswer, StateAgrees
<1>3. QED
  BY <1>1, <1>2 DEF InOrder

LEMMA OrderLoginSyn ==
  ASSUME TypeOK, LoginInOrder, NEW dc \in DConns, NEW u \in Users, LoginSyn(dc, u),
         UNCHANGED clientVars
  PROVE  LoginInOrder'
<1> DEFINE q == LoginQuery(dc, duser[dc].key, u)
<1>1. UNCHANGED <<duser, nextKey, results, toAgent, toDist, acked, spent>>
  BY DEF LoginSyn, clientVars, linkVars
<1>2. CASE UNCHANGED queries
  BY <1>1, <1>2, QuietStep, SameUsers, ToAgentStays, ToDistStays
<1>3. CASE queries' = queries \cup {q}
  <2>1. duser[dc].key \in Used(dc)
    <3>1. duser[dc].key \in Nat \ {0} /\ duser[dc].key < nextKey[DistOf[dc]]
      BY DEF LoginSyn, HasUser, LoginInOrder, InOrder, KeysOlder,
             TypeOK, DistributeTypeOK, DUser
    <3>2. nextKey[DistOf[dc]] \in Nat
      BY WiresAssumption DEF TypeOK, DistributeTypeOK
    <3>3. QED
      BY <3>1, <3>2 DEF Used
  <2>2. q.type = "login" /\ q.dc = dc /\ q.key = duser[dc].key
    BY DEF LoginQuery
  <2>3. ASSUME NEW e \in DConns
        PROVE  KeysOlder(e)'
    <3>1. KeysOlder(e) /\ TokensKnown(e)
      BY <1>1, <1>3, <2>1, <2>2 DEF LoginInOrder, InOrder, TokensKnown
    <3>2. nextKey[DistOf[e]] \in Nat
      BY WiresAssumption DEF TypeOK, DistributeTypeOK
    <3>3. duser'[e].key < nextKey'[DistOf[e]]
      BY <1>1, <3>1 DEF KeysOlder
    <3>4. QED
      BY <1>1, <3>1, <3>2, <3>3, KeysStayOlder, ToAgentStays, ToDistStays
  <2>4. ASSUME NEW e \in DConns, e # dc
        PROVE  InOrder(e)'
    <3>1. Frame(e)
      BY <1>1, <1>3, <2>2, <2>4, ToAgentStays, ToDistStays
         DEF Frame, SameUser, NoNewTokens, Current
    <3>2. QED
      BY <2>3, <3>1, FrameInOrder DEF LoginInOrder
  <2>5. InOrder(dc)'
    <3>1. duser[dc].state # "ok" /\ NoLogin(dc)
      BY DEF LoginSyn, Idle, NoLogin, LoginOf, Current
    <3>2. ~duser[dc].del /\ NoIp(dc) /\ NoSyn(dc) /\ NoAnswer(dc) /\ NoTicket(dc)
      BY <3>1, Exclusive DEF LoginInOrder
    <3>3. OneLogin(dc)'
      BY <1>1, <1>3, <3>1 DEF OneLogin, NoLogin, LoginOf, Current
    <3>4. NoIp(dc)'
      BY <1>1, <1>3, <2>2, <3>2 DEF NoIp, IpOf, Current
    <3>5. NoSyn(dc)' /\ NoAnswer(dc)' /\ NoTicket(dc)'
      BY <1>1, <3>2 DEF NoSyn, NoAnswer, NoTicket, SynOf, Current
    <3>6. QED
      BY <1>1, <2>3, <3>1, <3>2, <3>3, <3>4, <3>5, LoginPhase
  <2>6. QED
    BY <2>4, <2>5 DEF LoginInOrder
<1>4. QED
  BY <1>2, <1>3 DEF LoginSyn

-----------------------------------------------------------------------------
(* The database answers a query. *)

LEMMA AnsweredKeys ==
  ASSUME TypeOK, LoginInOrder, NEW q \in queries, NEW r, r.dc = q.dc, r.key = q.key,
         queries' = queries \ {q}, results' = results \cup {r},
         UNCHANGED <<duser, nextKey, toAgent, toDist, acked, spent>>
  PROVE  /\ \A e \in DConns : KeysOlder(e)'
         /\ \A e \in DConns : ~Current(e, q) => InOrder(e)'
<1>1. ASSUME NEW e \in DConns
      PROVE  KeysOlder(e)'
  <2>1. KeysOlder(e) /\ TokensKnown(e)
    BY DEF LoginInOrder, InOrder, TokensKnown, KeysOlder, Used
  <2>2. nextKey[DistOf[e]] \in Nat
    BY WiresAssumption DEF TypeOK, DistributeTypeOK
  <2>3. duser'[e].key < nextKey'[DistOf[e]]
    BY <2>1 DEF KeysOlder
  <2>4. QED
    BY <2>1, <2>2, <2>3, KeysStayOlder, ToAgentStays, ToDistStays
<1>2. ASSUME NEW e \in DConns, ~Current(e, q)
      PROVE  InOrder(e)'
  <2>1. Frame(e)
    BY <1>2, ToAgentStays, ToDistStays DEF Frame, SameUser, NoNewTokens, Current
  <2>2. QED
    BY <1>1, <2>1, FrameInOrder DEF LoginInOrder
<1>3. QED
  BY <1>1, <1>2

LEMMA OrderDatabase ==
  ASSUME TypeOK, LoginInOrder, DBStep, UNCHANGED <<linkVars, distVars, clientVars>>
  PROVE  LoginInOrder'
<1>1. UNCHANGED <<duser, nextKey, toAgent, toDist, acked, spent>>
  BY DEF linkVars, distVars, clientVars
<1>2. ASSUME NEW q \in queries, DBLogin(q)
      PROVE  LoginInOrder'
  <2>1. PICK s \in LoginState : results' = results \cup
          {[type |-> "login", dc |-> q.dc, key |-> q.key, user |-> q.user, state |-> s]}
    BY <1>2 DEF DBLogin
  <2> DEFINE r == [type |-> "login", dc |-> q.dc, key |-> q.key, user |-> q.user, state |-> s]
  <2>2. q.type = "login" /\ r.type = "login" /\ r.dc = q.dc /\ r.key = q.key
        /\ queries' = queries \ {q} /\ results' = results \cup {r}
    BY <1>2, <2>1 DEF DBLogin
  <2> HIDE DEF r
  <2>3. \A e \in DConns : KeysOlder(e)' /\ (~Current(e, q) => InOrder(e)')
    BY <1>1, <2>2, AnsweredKeys
  <2>4. ASSUME NEW e \in DConns, Current(e, q)
        PROVE  InOrder(e)'
    <3>1. LoginOf(e, q) /\ InOrder(e)
      BY <2>2, <2>4 DEF LoginOf, LoginInOrder
    <3>2. duser[e].state # "ok" /\ ~duser[e].del
      BY <3>1 DEF InOrder, StateAgrees
    <3>3. NoIp(e) /\ NoSyn(e) /\ NoAnswer(e) /\ NoTicket(e)
      BY <3>1, <3>2, Exclusive
    <3>4. OneLogin(e)'
      BY <1>1, <2>2, <3>1 DEF InOrder, OneLogin, LoginOf, Current
    <3>5. NoIp(e)'
      BY <1>1, <2>2, <3>3 DEF NoIp, IpOf, Current
    <3>6. NoSyn(e)' /\ NoAnswer(e)' /\ NoTicket(e)'
      BY <1>1, <3>3 DEF NoSyn, NoAnswer, NoTicket, SynOf, Current
    <3>7. QED
      BY <1>1, <2>3, <3>2, <3>4, <3>5, <3>6, LoginPhase
  <2>5. QED
    BY <2>3, <2>4 DEF LoginInOrder
<1>3. ASSUME NEW u \in Users, DBLogout(u)
      PROVE  LoginInOrder'
  BY <1>1, <1>3, QuietStep, SameUsers, ToAgentStays, ToDistStays DEF DBLogout
<1>4. ASSUME NEW q \in queries, DBIpCheck(q)
      PROVE  LoginInOrder'
  <2>1. PICK v \in BOOLEAN :
          results' = results \cup {[type |-> "ip", dc |-> q.dc, key |-> q.key, valid |-> v]}
    BY <1>4 DEF DBIpCheck
  <2> DEFINE r == [type |-> "ip", dc |-> q.dc, key |-> q.key, valid |-> v]
  <2>2. q.type = "ip" /\ r.type = "ip" /\ r.dc = q.dc /\ r.key = q.key
        /\ queries' = queries \ {q} /\ results' = results \cup {r}
    BY <1>4, <2>1 DEF DBIpCheck
  <2> HIDE DEF r
  <2>3. \A e \in DConns : KeysOlder(e)' /\ (~Current(e, q) => InOrder(e)')
    BY <1>1, <2>2, AnsweredKeys
  <2>4. ASSUME NEW e \in DConns, Current(e, q)
        PROVE  InOrder(e)'
    <3>1. IpOf(e, q) /\ InOrder(e)
      BY <2>2, <2>4 DEF IpOf, LoginInOrder
    <3>2. PICK u \in Users : Admitted(e, u)
      BY <3>1 DEF InOrder, StateAgrees
    <3>3. NoLogin(e) /\ NoTicket(e)
      BY <3>1, <3>2, Exclusive DEF Admitted
    <3>4. NoSyn(e) /\ NoAnswer(e)
      BY <3>1 DEF InOrder, CheckedFirst, NoSyn, NoAnswer
    <3>5. OneIpCheck(e)'
      BY <1>1, <2>2, <3>1 DEF InOrder, OneIpCheck, IpOf, Current
    <3>6. NoLogin(e)'
      BY <1>1, <2>2, <3>3 DEF NoLogin, LoginOf, Current
    <3>7. NoSyn(e)' /\ NoAnswer(e)' /\ NoTicket(e)'
      BY <1>1, <3>3, <3>4 DEF NoSyn, NoAnswer, NoTicket, SynOf, Current
    <3>8. Admitted(e, u)'
      BY <1>1, <3>2 DEF Admitted
    <3>9. QED
      BY <2>3, <3>5, <3>6, <3>7, <3>8, CheckPhase
  <2>5. QED
    BY <2>3, <2>4 DEF LoginInOrder
<1>5. QED
  BY <1>2, <1>3, <1>4 DEF DBStep

-----------------------------------------------------------------------------
(* A result of the database reaches the distribute server. *)

(* The announcement sent to an agent is then the only one about e. *)
LEMMA OnlySyn ==
  ASSUME TypeOK, NEW e \in DConns, NoSyn(e), NEW d \in Dists, NEW a \in Agents,
         NEW m \in ToAgentMsg, SendToAgent(d, a, m)
  PROVE  \A f \in Dists, b \in Agents : \A i \in 1..Len(toAgent'[f][b]) :
           SynOf(e, toAgent'[f][b][i]) =>
             f = d /\ b = a /\ i = Len(toAgent[d][a]) + 1 /\ toAgent'[f][b][i] = m
<1> SUFFICES ASSUME NEW f \in Dists, NEW b \in Agents, NEW i \in 1..Len(toAgent'[f][b]),
                    SynOf(e, toAgent'[f][b][i])
             PROVE  f = d /\ b = a /\ i = Len(toAgent[d][a]) + 1 /\ toAgent'[f][b][i] = m
  OBVIOUS
<1>1. CASE f = d /\ b = a
  <2>1. toAgent[d][a] \in Seq(ToAgentMsg) /\ toAgent'[d][a] = Append(toAgent[d][a], m)
    BY DEF TypeOK, WiresTypeOK, SendToAgent
  <2>2. CASE i = Len(toAgent[d][a]) + 1
    BY <1>1, <2>1, <2>2
  <2>3. CASE i # Len(toAgent[d][a]) + 1
    <3>1. i \in 1..Len(toAgent[d][a]) /\ toAgent'[d][a][i] = toAgent[d][a][i]
      BY <1>1, <2>1, <2>3
    <3>2. QED
      BY <1>1, <3>1 DEF NoSyn
  <2>4. QED
    BY <2>2, <2>3
<1>2. CASE ~(f = d /\ b = a)
  <2>1. toAgent'[f][b] = toAgent[f][b]
    BY <1>2 DEF TypeOK, WiresTypeOK, SendToAgent
  <2>2. QED
    BY <2>1 DEF NoSyn
<1>3. QED
  BY <1>1, <1>2

(* What holds of a step that takes result r and may announce, or query for, *)
(* the client r is about, whatever becomes of its USERINFO.                 *)
LEMMA TakenResult ==
  ASSUME TypeOK, LoginInOrder, NEW r \in results, NEW dc \in DConns, r.dc = dc, r.key \in Used(dc),
         results' = results \ {r}, UNCHANGED <<nextKey, toDist, acked, spent>>,
         \A e \in DConns : duser'[e].key = duser[e].key,
         \A e \in DConns : e # dc => duser'[e] = duser[e],
         \A q \in queries' : q \in queries \/ (q.dc = dc /\ q.key = r.key),
         \/ UNCHANGED toAgent
         \/ \E d \in Dists, a \in Agents : \E m \in ToAgentMsg :
              SendToAgent(d, a, m) /\ m.dc = dc /\ m.key = r.key
  PROVE  /\ \A e \in DConns : KeysOlder(e)'
         /\ \A e \in DConns : e # dc => InOrder(e)'
<1>1. \E ms : /\ SynsFrom(ms) /\ \A m \in ms : m.dc = dc /\ m.key = r.key
              /\ \A e \in DConns : e # dc => SynsLater(e)
  <2>1. CASE UNCHANGED toAgent
    BY <2>1, ToAgentStays
  <2>2. ASSUME NEW d \in Dists, NEW a \in Agents, NEW m \in ToAgentMsg,
               SendToAgent(d, a, m), m.dc = dc, m.key = r.key
        PROVE  SynsFrom({m}) /\ \A e \in DConns : e # dc => SynsLater(e)
    <3>1. \A e \in DConns : e # dc => ~SynOf(e, m)
      BY <2>2 DEF SynOf, Current
    <3>2. QED
      BY <2>2, <3>1, ToAgentSent
  <2>3. QED
    BY <2>1, <2>2
<1>2. ASSUME NEW e \in DConns
      PROVE  KeysOlder(e)'
  <2>1. KeysOlder(e) /\ TokensKnown(e)
    BY DEF LoginInOrder, InOrder, TokensKnown
  <2>2. nextKey[DistOf[e]] \in Nat
    BY WiresAssumption DEF TypeOK, DistributeTypeOK
  <2>3. duser'[e].key < nextKey'[DistOf[e]]
    BY <2>1 DEF KeysOlder
  <2>4. PICK ms : SynsFrom(ms) /\ \A m \in ms : m.dc = dc /\ m.key = r.key
    BY <1>1
  <2>5. QED
    BY <2>1, <2>2, <2>3, <2>4, KeysStayOlder, ToDistStays
<1>3. ASSUME NEW e \in DConns, e # dc
      PROVE  InOrder(e)'
  <2>1. SynsLater(e) /\ AnswersLater(e)
    BY <1>1, <1>3, ToDistStays
  <2>2. Frame(e)
    BY <1>3, <2>1 DEF Frame, SameUser, NoNewTokens, Current
  <2>3. QED
    BY <1>2, <2>2, FrameInOrder DEF LoginInOrder
<1>4. QED
  BY <1>2, <1>3

(* The client is announced for the first time. *)
LEMMA Announces ==
  ASSUME TypeOK, NEW e \in DConns, KeysOlder(e)', NoSyn(e), NoAnswer(e),
         NoLogin(e)', NoIp(e)', NoTicket(e)', UNCHANGED toDist,
         duser'[e].key = duser[e].key,
         NEW d \in Dists, NEW a \in Agents, NEW m \in ToAgentMsg,
         SendToAgent(d, a, m), Admitted(e, m.user)'
  PROVE  InOrder(e)'
<1>1. \A f \in Dists, b \in Agents : \A i \in 1..Len(toAgent'[f][b]) :
        SynOf(e, toAgent[f][b][i])' =>
          f = d /\ b = a /\ i = Len(toAgent[d][a]) + 1 /\ toAgent'[f][b][i] = m
  BY OnlySyn DEF SynOf, Current
<1>2. \A f \in Dists, b \in Agents : \A i \in 1..Len(toDist'[b][f]) :
        ~Current(e, toDist[b][f][i])'
  BY DEF NoAnswer, Current
<1>3. OneAnnouncement(e)'
  BY <1>1, <1>2 DEF OneAnnouncement
<1>4. \A f \in Dists, b \in Agents : \A i \in 1..Len(toAgent'[f][b]) :
        SynOf(e, toAgent[f][b][i])' => Admitted(e, toAgent[f][b][i].user)'
  BY <1>1 DEF Admitted
<1>5. QED
  BY <1>2, <1>3, <1>4, AnnouncePhase DEF Admitted

LEMMA ResultKnown ==
  ASSUME TypeOK, LoginInOrder, NEW r \in results, r.type = "login" \/ r.type = "ip"
  PROVE  r.dc \in DConns /\ r.key \in Used(r.dc)
<1>1. r.dc \in DConns
  BY DEF TypeOK, WiresTypeOK, Result
<1>2. QED
  BY <1>1 DEF LoginInOrder, InOrder, KeysOlder, Used

LEMMA OrderResultDropped ==
  ASSUME TypeOK, LoginInOrder, NEW r \in results, results' = results \ {r},
         UNCHANGED <<duser, nextKey, queries, toAgent, toDist, acked, spent>>
  PROVE  LoginInOrder'
  BY QuietStep, SameUsers, ToAgentStays, ToDistStays

LEMMA NotedKeeps ==
  ASSUME TypeOK, NEW r \in results, r.type = "login", Matches(r.dc, r.key),
         duser' = [duser EXCEPT ![r.dc] = Noted(r)]
  PROVE  /\ \A e \in DConns : duser'[e].key = duser[e].key
         /\ \A e \in DConns : e # r.dc => duser'[e] = duser[e]
         /\ duser'[r.dc].user = r.user /\ duser'[r.dc].state = r.state
         /\ duser'[r.dc].del = IF r.state = "ok" THEN TRUE ELSE duser[r.dc].del
<1>1. r.dc \in DConns /\ duser[r.dc] \in DUser
  BY DEF TypeOK, WiresTypeOK, DistributeTypeOK, Result
<1>2. duser \in [DConns -> DUser]
  BY DEF TypeOK, DistributeTypeOK
<1>3. duser'[r.dc] = Noted(r) /\ \A e \in DConns : e # r.dc => duser'[e] = duser[e]
  BY <1>1, <1>2
<1>4. /\ Noted(r).key = duser[r.dc].key
      /\ Noted(r).user = r.user /\ Noted(r).state = r.state
      /\ Noted(r).del = IF r.state = "ok" THEN TRUE ELSE duser[r.dc].del
  BY <1>1 DEF Noted, DUser
<1>5. QED
  BY <1>3, <1>4

LEMMA OrderLoginAdmitted ==
  ASSUME TypeOK, LoginInOrder, NEW r \in results, r.type = "login",
         results' = results \ {r}, LoginAdmitted(r), UNCHANGED clientVars
  PROVE  LoginInOrder'
<1> DEFINE dc == r.dc
           d == DistOf[r.dc]
           m == UserLoginSyn(r.user, r.key, r.dc)
<1>1. dc \in DConns /\ r.key \in Used(dc) /\ d \in Dists
  BY ResultKnown, WiresAssumption
<1>2. r.user \in Users /\ r.key \in Nat
  BY DEF TypeOK, WiresTypeOK, Result
<1>3. UNCHANGED <<nextKey, toDist, acked, spent>>
  BY DEF LoginAdmitted, clientVars
<1>4. /\ \A e \in DConns : duser'[e].key = duser[e].key
      /\ \A e \in DConns : e # dc => duser'[e] = duser[e]
      /\ \A u : Admitted(dc, u)' <=> u = r.user
  BY NotedKeeps DEF LoginAdmitted, Admitted
<1>5. m \in ToAgentMsg /\ m.dc = dc /\ m.key = r.key /\ m.user = r.user
  BY <1>1, <1>2 DEF UserLoginSyn, ToAgentMsg
<1>6. \A q \in queries' : q \in queries \/ (q.dc = dc /\ q.key = r.key)
  BY DEF LoginAdmitted, IpQuery
<1>7. \/ UNCHANGED toAgent
      \/ \E a \in Agents : SendToAgent(d, a, m)
  BY DEF LoginAdmitted
<1> HIDE DEF m
<1>8. /\ \A e \in DConns : KeysOlder(e)'
      /\ \A e \in DConns : e # dc => InOrder(e)'
  BY <1>1, <1>3, <1>4, <1>5, <1>6, <1>7, TakenResult
<1>9. InOrder(dc)'
  <2>1. LoginOf(dc, r) /\ InOrder(dc)
    BY <1>1 DEF LoginAdmitted, Matches, LoginOf, Current, LoginInOrder
  <2>2. duser[dc].state # "ok"
    BY <2>1 DEF InOrder, StateAgrees
  <2>3. NoIp(dc) /\ NoSyn(dc) /\ NoAnswer(dc) /\ NoTicket(dc)
    BY <1>1, <2>1, <2>2, Exclusive
  <2>4. \A q \in queries \cup (results \ {r}) : ~LoginOf(dc, q)
    BY <2>1 DEF InOrder, OneLogin
  <2>5. NoTicket(dc)' /\ NoAnswer(dc)'
    BY <1>1, <1>3, <1>4, <2>3 DEF NoTicket, NoAnswer, Current
  <2>6. CASE UNCHANGED queries /\ \E a \in Agents : SendToAgent(d, a, m)
    <3>1. NoLogin(dc)' /\ NoIp(dc)'
      BY <1>1, <1>4, <2>3, <2>4, <2>6 DEF NoLogin, NoIp, LoginOf, IpOf, Current
    <3>2. Admitted(dc, m.user)'
      BY <1>4, <1>5 DEF Admitted
    <3>3. QED
      BY <1>1, <1>3, <1>4, <1>5, <1>8, <2>3, <2>5, <2>6, <3>1, <3>2, Announces
  <2>7. CASE queries' = queries \cup {IpQuery(dc, r.key)} /\ UNCHANGED toAgent
    <3>1. NoLogin(dc)'
      BY <1>1, <1>4, <2>4, <2>7 DEF NoLogin, LoginOf, Current, IpQuery
    <3>2. OneIpCheck(dc)'
      BY <1>1, <1>4, <2>3, <2>7 DEF NoIp, OneIpCheck, IpOf, Current
    <3>3. NoSyn(dc)'
      BY <1>1, <1>4, <2>3, <2>7 DEF NoSyn, SynOf, Current
    <3>4. Admitted(dc, r.user)'
      BY <1>4
    <3>5. QED
      BY <1>1, <1>2, <1>8, <2>5, <3>1, <3>2, <3>3, <3>4, CheckPhase
  <2>8. CASE UNCHANGED <<queries, toAgent>>
    <3>1. NoLogin(dc)' /\ NoIp(dc)' /\ NoSyn(dc)'
      BY <1>1, <1>4, <2>3, <2>4, <2>8 DEF NoLogin, NoIp, NoSyn, LoginOf, IpOf, SynOf, Current
    <3>2. (duser[dc].state # "ok" => ~duser[dc].del)'
      BY <1>4 DEF Admitted
    <3>3. QED
      BY <1>1, <1>8, <2>5, <3>1, <3>2, NothingInOrder DEF Nothing
  <2>9. QED
    BY <2>6, <2>7, <2>8 DEF LoginAdmitted, m
<1>10. QED
  BY <1>8, <1>9 DEF LoginInOrder

LEMMA OrderLoginTurnedDown ==
  ASSUME TypeOK, LoginInOrder, NEW r \in results, r.type = "login",
         results' = results \ {r}, LoginTurnedDown(r), UNCHANGED clientVars
  PROVE  LoginInOrder'
<1> DEFINE dc == r.dc
<1>1. dc \in DConns /\ r.key \in Used(dc)
  BY ResultKnown
<1>2. UNCHANGED <<nextKey, queries, toAgent, toDist, acked, spent>> /\ r.state # "ok"
  BY DEF LoginTurnedDown, clientVars, linkVars
<1>3. /\ \A e \in DConns : duser'[e].key = duser[e].key
      /\ \A e \in DConns : e # dc => duser'[e] = duser[e]
      /\ duser'[dc].state # "ok" /\ duser'[dc].del = duser[dc].del
  BY <1>2, NotedKeeps DEF LoginTurnedDown
<1>4. /\ \A e \in DConns : KeysOlder(e)'
      /\ \A e \in DConns : e # dc => InOrder(e)'
  BY <1>1, <1>2, <1>3, TakenResult
<1>5. InOrder(dc)'
  <2>1. LoginOf(dc, r) /\ InOrder(dc)
    BY <1>1 DEF LoginTurnedDown, Matches, LoginOf, Current, LoginInOrder
  <2>2. duser[dc].state # "ok" /\ ~duser[dc].del
    BY <2>1 DEF InOrder, StateAgrees
  <2>3. NoIp(dc) /\ NoSyn(dc) /\ NoAnswer(dc) /\ NoTicket(dc)
    BY <1>1, <2>1, <2>2, Exclusive
  <2>4. \A q \in queries \cup (results \ {r}) : ~LoginOf(dc, q)
    BY <2>1 DEF InOrder, OneLogin
  <2>5. Nothing(dc)'
    BY <1>1, <1>2, <1>3, <2>3, <2>4
       DEF Nothing, NoLogin, NoIp, NoSyn, NoAnswer, NoTicket, LoginOf, IpOf, SynOf, Current
  <2>6. QED
    BY <1>1, <1>3, <1>4, <2>2, <2>5, NothingInOrder
<1>6. QED
  BY <1>4, <1>5 DEF LoginInOrder

LEMMA OrderRLoginCheckQuery ==
  ASSUME TypeOK, LoginInOrder, NEW r \in results, RLoginCheckQuery(r), UNCHANGED clientVars
  PROVE  LoginInOrder'
<1>1. r.type = "login" /\ results' = results \ {r}
  BY DEF RLoginCheckQuery
<1>2. CASE StaleLogin(r) \/ CrcFailed(r)
  BY <1>1, <1>2, OrderResultDropped DEF StaleLogin, CrcFailed, distVars, linkVars, clientVars
<1>3. QED
  BY <1>1, <1>2, OrderLoginAdmitted, OrderLoginTurnedDown DEF RLoginCheckQuery

LEMMA OrderRIpCheckQuery ==
  ASSUME TypeOK, LoginInOrder, NEW r \in results, RIpCheckQuery(r), UNCHANGED clientVars
  PROVE  LoginInOrder'
<1> DEFINE dc == r.dc
           d == DistOf[r.dc]
           m == UserLoginSyn(duser[r.dc].user, r.key, r.dc)
<1>1. r.type = "ip" /\ results' = results \ {r}
      /\ UNCHANGED <<duser, nextKey, queries, toDist, acked, spent>>
  BY DEF RIpCheckQuery, clientVars
<1>2. dc \in DConns /\ r.key \in Used(dc) /\ d \in Dists
  BY <1>1, ResultKnown, WiresAssumption
<1>3. CASE UNCHANGED toAgent
  BY <1>1, <1>3, OrderResultDropped
<1>4. CASE Matches(r.dc, r.key) /\ \E a \in Agents : SendToAgent(d, a, m)
  <2>1. IpOf(dc, r) /\ InOrder(dc)
    BY <1>1, <1>2, <1>4 DEF Matches, IpOf, Current, LoginInOrder
  <2>2. PICK u \in Users : Admitted(dc, u)
    BY <2>1 DEF InOrder, StateAgrees
  <2>3. PICK n \in ToAgentMsg : n = m /\ n.dc = dc /\ n.key = r.key /\ n.user = u
    <3>1. duser[dc].user = u /\ r.key \in Nat
      BY <2>2 DEF Admitted, TypeOK, WiresTypeOK, Result
    <3>2. m = UserLoginSyn(u, r.key, dc)
      BY <3>1
    <3>3. /\ UserLoginSyn(u, r.key, dc) \in ToAgentMsg
          /\ UserLoginSyn(u, r.key, dc).dc = dc /\ UserLoginSyn(u, r.key, dc).key = r.key
          /\ UserLoginSyn(u, r.key, dc).user = u
      BY <1>2, <3>1 DEF UserLoginSyn, ToAgentMsg
    <3>4. QED
      BY <3>2, <3>3
  <2>4. PICK b \in Agents : SendToAgent(d, b, n)
    BY <1>4, <2>3
  <2>5. /\ \A e \in DConns : KeysOlder(e)'
        /\ \A e \in DConns : e # dc => InOrder(e)'
    BY <1>1, <1>2, <2>3, <2>4, TakenResult
  <2>6. NoLogin(dc) /\ NoTicket(dc)
    BY <1>2, <2>1, <2>2, Exclusive DEF Admitted
  <2>7. NoSyn(dc) /\ NoAnswer(dc)
    BY <2>1 DEF InOrder, CheckedFirst, NoSyn, NoAnswer
  <2>8. NoIp(dc)'
    BY <1>1, <2>1 DEF InOrder, OneIpCheck, NoIp, IpOf, Current
  <2>9. NoLogin(dc)' /\ NoTicket(dc)' /\ Admitted(dc, n.user)'
    BY <1>1, <2>2, <2>3, <2>6 DEF NoLogin, NoTicket, LoginOf, Current, Admitted
  <2>10. InOrder(dc)'
    BY <1>1, <1>2, <2>3, <2>5, <2>7, <2>8, <2>9, <2>4, Announces
  <2>11. QED
    BY <2>5, <2>10 DEF LoginInOrder
<1>5. QED
  BY <1>3, <1>4 DEF RIpCheckQuery

-----------------------------------------------------------------------------
(* An agent answers the announcement, and the answer is delivered. *)

LEMMA SynTaken ==
  ASSUME TypeOK, NEW e \in DConns, OneAnnouncement(e), NEW d \in Dists, NEW a \in Agents,
         AReceives(d, a, "userlogin_syn"), SynOf(e, Head(toAgent[d][a]))
  PROVE  \A f \in Dists, b \in Agents : \A i \in 1..Len(toAgent'[f][b]) :
           ~SynOf(e, toAgent'[f][b][i])
<1> SUFFICES ASSUME NEW f \in Dists, NEW b \in Agents, NEW i \in 1..Len(toAgent'[f][b]),
                    SynOf(e, toAgent'[f][b][i])
             PROVE  FALSE
  OBVIOUS
<1>1. toAgent[d][a] \in Seq(ToAgentMsg) /\ toAgent[d][a] # <<>>
  BY DEF TypeOK, WiresTypeOK, AReceives
<1>2. 1 \in 1..Len(toAgent[d][a]) /\ SynOf(e, toAgent[d][a][1])
  BY <1>1
<1>3. CASE f = d /\ b = a
  <2>1. toAgent'[f][b] = Tail(toAgent[d][a])
    BY <1>3 DEF TypeOK, WiresTypeOK, AReceives
  <2>2. i + 1 \in 1..Len(toAgent[d][a]) /\ SynOf(e, toAgent[d][a][i + 1]) /\ i + 1 # 1
    BY <1>1, <2>1
  <2>3. QED
    BY <1>2, <2>2 DEF OneAnnouncement
<1>4. CASE ~(f = d /\ b = a)
  <2>1. toAgent'[f][b] = toAgent[f][b]
    BY <1>4 DEF TypeOK, WiresTypeOK, AReceives
  <2>2. QED
    BY <1>2, <1>4, <2>1 DEF OneAnnouncement
<1>5. QED
  BY <1>3, <1>4

LEMMA AnswerTaken ==
  ASSUME TypeOK, NEW e \in DConns, OneAnnouncement(e), NEW d \in Dists, NEW a \in Agents,
         NEW type, Receives(d, a, type), Current(e, Head(toDist[a][d]))
  PROVE  \A f \in Dists, b \in Agents : \A i \in 1..Len(toDist'[b][f]) :
           ~Current(e, toDist'[b][f][i])
<1> SUFFICES ASSUME NEW f \in Dists, NEW b \in Agents, NEW i \in 1..Len(toDist'[b][f]),
                    Current(e, toDist'[b][f][i])
             PROVE  FALSE
  OBVIOUS
<1>1. toDist[a][d] \in Seq(ToDistMsg) /\ toDist[a][d] # <<>>
  BY DEF TypeOK, WiresTypeOK, Receives
<1>2. 1 \in 1..Len(toDist[a][d]) /\ Current(e, toDist[a][d][1])
  BY <1>1
<1>3. CASE f = d /\ b = a
  <2>1. toDist'[b][f] = Tail(toDist[a][d])
    BY <1>3 DEF TypeOK, WiresTypeOK, Receives
  <2>2. i + 1 \in 1..Len(toDist[a][d]) /\ Current(e, toDist[a][d][i + 1]) /\ i + 1 # 1
    BY <1>1, <2>1
  <2>3. QED
    BY <1>2, <2>2 DEF OneAnnouncement
<1>4. CASE ~(f = d /\ b = a)
  <2>1. toDist'[b][f] = toDist[b][f]
    BY <1>4 DEF TypeOK, WiresTypeOK, Receives
  <2>2. QED
    BY <1>2, <1>4, <2>1 DEF OneAnnouncement
<1>5. QED
  BY <1>3, <1>4

LEMMA OnlyAnswer ==
  ASSUME TypeOK, NEW e \in DConns, NoAnswer(e), NEW d \in Dists, NEW a \in Agents,
         NEW m \in ToDistMsg, SendToDist(a, d, m)
  PROVE  \A f \in Dists, b \in Agents : \A i \in 1..Len(toDist'[b][f]) :
           Current(e, toDist'[b][f][i]) =>
             f = d /\ b = a /\ i = Len(toDist[a][d]) + 1 /\ toDist'[b][f][i] = m
<1> SUFFICES ASSUME NEW f \in Dists, NEW b \in Agents, NEW i \in 1..Len(toDist'[b][f]),
                    Current(e, toDist'[b][f][i])
             PROVE  f = d /\ b = a /\ i = Len(toDist[a][d]) + 1 /\ toDist'[b][f][i] = m
  OBVIOUS
<1>1. CASE f = d /\ b = a
  <2>1. toDist[a][d] \in Seq(ToDistMsg) /\ toDist'[a][d] = Append(toDist[a][d], m)
    BY DEF TypeOK, WiresTypeOK, SendToDist
  <2>2. CASE i = Len(toDist[a][d]) + 1
    BY <1>1, <2>1, <2>2
  <2>3. CASE i # Len(toDist[a][d]) + 1
    <3>1. i \in 1..Len(toDist[a][d]) /\ toDist'[a][d][i] = toDist[a][d][i]
      BY <1>1, <2>1, <2>3
    <3>2. QED
      BY <1>1, <3>1 DEF NoAnswer
  <2>4. QED
    BY <2>2, <2>3
<1>2. CASE ~(f = d /\ b = a)
  <2>1. toDist'[b][f] = toDist[b][f]
    BY <1>2 DEF TypeOK, WiresTypeOK, SendToDist
  <2>2. QED
    BY <2>1 DEF NoAnswer
<1>3. QED
  BY <1>1, <1>2

LEMMA OrderAnswered ==
  ASSUME TypeOK, LoginInOrder, NEW d \in Dists, NEW a \in Agents,
         AReceives(d, a, "userlogin_syn"),
         NEW n \in ToDistMsg, n.user = Head(toAgent[d][a]).user,
         n.key = Head(toAgent[d][a]).key, n.dc = Head(toAgent[d][a]).dc,
         SendToDist(a, d, n),
         UNCHANGED <<duser, nextKey, queries, results, acked, spent>>
  PROVE  LoginInOrder'
<1> DEFINE m == Head(toAgent[d][a])
           dc == m.dc
<1>1. toAgent[d][a] \in Seq(ToAgentMsg) /\ toAgent[d][a] # <<>>
      /\ m.type = "userlogin_syn"
  BY DEF TypeOK, WiresTypeOK, AReceives
<1>2. 1 \in 1..Len(toAgent[d][a]) /\ m = toAgent[d][a][1]
  BY <1>1
<1>3. SynsFrom({}) /\ \A e : SynsLater(e)
  BY ToAgentTaken
<1>4. AnswersFrom({n}) /\ \A e : ~Current(e, n) => AnswersLater(e)
  BY ToDistSent
<1>5. ASSUME NEW e \in DConns
      PROVE  KeysOlder(e)'
  <2>1. KeysOlder(e) /\ TokensKnown(e)
    BY DEF LoginInOrder, InOrder, TokensKnown
  <2>2. nextKey[DistOf[e]] \in Nat
    BY WiresAssumption DEF TypeOK, DistributeTypeOK
  <2>3. duser'[e].key < nextKey'[DistOf[e]]
    BY <2>1 DEF KeysOlder
  <2>4. \A x \in {n} : x.dc = e => x.key \in Used(e)
    BY <1>1, <1>2, <2>1 DEF KeysOlder, Used
  <2>5. QED
    BY <1>3, <1>4, <2>1, <2>2, <2>3, <2>4, KeysStayOlder
<1>6. ASSUME NEW e \in DConns, ~Current(e, n)
      PROVE  InOrder(e)'
  <2>1. Frame(e)
    BY <1>3, <1>4, <1>6 DEF Frame, SameUser, NoNewTokens
  <2>2. QED
    BY <1>5, <2>1, FrameInOrder DEF LoginInOrder
<1>7. ASSUME NEW e \in DConns, Current(e, n)
      PROVE  InOrder(e)'
  <2>1. SynOf(e, m) /\ InOrder(e)
    BY <1>1, <1>7 DEF SynOf, Current, LoginInOrder
  <2>2. Admitted(e, n.user)
    BY <1>2, <2>1 DEF InOrder, StateAgrees
  <2>3. NoLogin(e) /\ NoTicket(e)
    BY <2>1, <2>2, Exclusive DEF Admitted
  <2>4. NoIp(e)
    BY <1>2, <2>1 DEF InOrder, CheckedFirst, NoIp
  <2>5. NoAnswer(e)
    BY <1>2, <2>1 DEF InOrder, OneAnnouncement, NoAnswer
  <2>6. \A f \in Dists, b \in Agents : \A i \in 1..Len(toAgent'[f][b]) :
          ~SynOf(e, toAgent[f][b][i])'
    <3>1. \A f \in Dists, b \in Agents : \A i \in 1..Len(toAgent'[f][b]) :
            ~SynOf(e, toAgent'[f][b][i])
      BY <2>1, SynTaken DEF InOrder
    <3>2. QED
      BY <3>1 DEF SynOf, Current
  <2>7. \A f \in Dists, b \in Agents : \A i \in 1..Len(toDist'[b][f]) :
          Current(e, toDist[b][f][i])' =>
            f = d /\ b = a /\ i = Len(toDist[a][d]) + 1 /\ toDist'[b][f][i] = n
    BY <2>5, OnlyAnswer DEF Current
  <2>8. OneAnnouncement(e)'
    BY <2>6, <2>7 DEF OneAnnouncement
  <2>9. \A f \in Dists, b \in Agents : \A i \in 1..Len(toDist'[b][f]) :
          Current(e, toDist[b][f][i])' => Admitted(e, toDist[b][f][i].user)'
    BY <2>2, <2>7 DEF Admitted
  <2>10. NoLogin(e)' /\ NoIp(e)' /\ NoTicket(e)' /\ (duser[e].state = "ok")'
    BY <2>2, <2>3, <2>4 DEF NoLogin, NoIp, NoTicket, LoginOf, IpOf, Current, Admitted
  <2>11. QED
    BY <1>5, <2>6, <2>8, <2>9, <2>10, AnnouncePhase
<1>8. QED
  BY <1>6, <1>7 DEF LoginInOrder

LEMMA OrderNotifyUserLoginSyn ==
  ASSUME TypeOK, LoginInOrder, NEW d \in Dists, NEW a \in Agents, NotifyUserLoginSyn(d, a),
         UNCHANGED <<distVars, clientVars>>
  PROVE  LoginInOrder'
<1> DEFINE m == Head(toAgent[d][a])
<1>1. AReceives(d, a, "userlogin_syn") /\ UNCHANGED dbVars
  BY DEF NotifyUserLoginSyn
<1>2. m \in ToAgentMsg /\ m.type = "userlogin_syn"
  BY <1>1, HeadToAgent DEF AReceives
<1>3. m.user \in Users /\ m.key \in Nat /\ m.dc \in DConns /\ nextAKey[a] \in Nat
  BY <1>2, ToAgentFields DEF TypeOK, AgentTypeOK
<1>4. UNCHANGED <<duser, nextKey, queries, results, acked, spent>>
  BY <1>1 DEF distVars, clientVars, dbVars
<1>5. CASE UNCHANGED toDist
  BY <1>1, <1>4, <1>5, AgentQuiet DEF distVars, dbVars
<1>6. CASE SendToDist(a, d, UserLoginAck(m.user, m.key, nextAKey[a], m.dc))
  <2>1. PICK n \in ToDistMsg : n.user = m.user /\ n.key = m.key /\ n.dc = m.dc
                               /\ SendToDist(a, d, n)
    <3>1. UserLoginAck(m.user, m.key, nextAKey[a], m.dc) \in ToDistMsg
      BY <1>3 DEF UserLoginAck, ToDistMsg
    <3>2. QED
      BY <1>6, <3>1 DEF UserLoginAck
  <2>2. QED
    BY <1>1, <1>4, <2>1, OrderAnswered
<1>7. CASE SendToDist(a, d, UserLoginNack(m.user, m.key, m.dc))
  <2>1. PICK n \in ToDistMsg : n.user = m.user /\ n.key = m.key /\ n.dc = m.dc
                               /\ SendToDist(a, d, n)
    <3>1. UserLoginNack(m.user, m.key, m.dc) \in ToDistMsg
      BY <1>3 DEF UserLoginNack, ToDistMsg
    <3>2. QED
      BY <1>7, <3>1 DEF UserLoginNack
  <2>2. QED
    BY <1>1, <1>4, <2>1, OrderAnswered
<1>8. QED
  BY <1>5, <1>6, <1>7 DEF NotifyUserLoginSyn, Reserve

LEMMA OrderTakeTicket ==
  ASSUME TypeOK, LoginInOrder, NEW d \in Dists, NEW a \in Agents, TakeTicket(d, a)
  PROVE  LoginInOrder'
<1> DEFINE m == Head(toDist[a][d])
           t == [user |-> m.user, agent |-> a, key |-> m.key, dc |-> m.dc]
<1>1. /\ UNCHANGED <<nextKey, queries, results, toAgent, spent>>
      /\ acked' \subseteq acked \cup {t}
      /\ Receives(d, a, "userlogin_ack") /\ Matches(m.dc, m.key)
  BY DEF TakeTicket, AckDelivered, dbVars
<1>2. toDist[a][d] \in Seq(ToDistMsg) /\ toDist[a][d] # <<>> /\ m \in ToDistMsg
  BY <1>1, HeadToDist DEF TypeOK, WiresTypeOK, Receives
<1>3. 1 \in 1..Len(toDist[a][d]) /\ m = toDist[a][d][1]
  BY <1>2
<1>4. PICK dc \in DConns : dc = m.dc /\ duser[dc].key = m.key
  BY <1>1, <1>2, ToDistFields DEF Matches
<1>5. /\ \A e \in DConns : duser'[e].key = duser[e].key
      /\ \A e \in DConns : e # dc => duser'[e] = duser[e]
      /\ duser'[dc].user = duser[dc].user /\ duser'[dc].state = duser[dc].state
      /\ duser'[dc].del = ~duser[dc].del
  <2>1. duser' = [duser EXCEPT ![dc] = [duser[dc] EXCEPT !.del = ~duser[dc].del]]
    BY <1>4 DEF TakeTicket, AckDelivered
  <2>2. duser \in [DConns -> DUser] /\ duser[dc] \in DUser
    BY DEF TypeOK, DistributeTypeOK
  <2>3. duser'[dc] = [duser[dc] EXCEPT !.del = ~duser[dc].del]
        /\ \A e \in DConns : e # dc => duser'[e] = duser[e]
    BY <2>1, <2>2
  <2>4. QED
    BY <2>2, <2>3 DEF DUser
<1>6. PICK n : n = t
  OBVIOUS
<1>7. n.dc = dc /\ n.key = duser[dc].key /\ n.user = m.user
  BY <1>4, <1>6
<1>8. acked' \cup spent' \subseteq acked \cup spent \cup {n}
  BY <1>1, <1>6
<1>9. Current(dc, toDist[a][d][1]) /\ InOrder(dc)
  BY <1>3, <1>4 DEF Current, LoginInOrder
<1>10. Admitted(dc, m.user)
  BY <1>3, <1>9 DEF InOrder, StateAgrees
<1>11. AnswersFrom({}) /\ \A e : AnswersLater(e)
  BY <1>1, ToDistTaken
<1>12. ASSUME NEW e \in DConns
       PROVE  KeysOlder(e)'
  <2>1. KeysOlder(e)
    BY DEF LoginInOrder, InOrder
  <2>2. e = dc => duser[dc].key \in Used(dc)
    BY <1>3, <1>4, <2>1 DEF KeysOlder, Used
  <2>3. TokensKnown(e)
    BY <1>1, <1>7, <1>8, <2>2 DEF TokensKnown
  <2>4. nextKey[DistOf[e]] \in Nat
    BY WiresAssumption DEF TypeOK, DistributeTypeOK
  <2>5. duser'[e].key < nextKey'[DistOf[e]]
    BY <1>1, <1>5, <2>1 DEF KeysOlder
  <2>6. QED
    BY <1>1, <1>11, <2>1, <2>3, <2>4, <2>5, KeysStayOlder, ToAgentStays
<1>13. ASSUME NEW e \in DConns, e # dc
       PROVE  InOrder(e)'
  <2>1. Frame(e)
    BY <1>1, <1>5, <1>7, <1>8, <1>11, <1>13, ToAgentStays
       DEF Frame, SameUser, NoNewTokens, Current
  <2>2. QED
    BY <1>12, <2>1, FrameInOrder DEF LoginInOrder
<1>14. InOrder(dc)'
  <2>1. NoLogin(dc) /\ NoTicket(dc)
    BY <1>9, <1>10, Exclusive DEF Admitted
  <2>2. NoIp(dc)
    BY <1>3, <1>9 DEF InOrder, CheckedFirst, NoIp
  <2>3. NoSyn(dc)
    BY <1>3, <1>9 DEF InOrder, OneAnnouncement, NoSyn
  <2>4. NoAnswer(dc)'
    <3>1. \A f \in Dists, b \in Agents : \A i \in 1..Len(toDist'[b][f]) :
            ~Current(dc, toDist'[b][f][i])
      BY <1>1, <1>3, <1>9, AnswerTaken DEF InOrder
    <3>2. QED
      BY <1>5, <3>1 DEF NoAnswer, Current
  <2>5. NoLogin(dc)' /\ NoIp(dc)' /\ NoSyn(dc)'
    BY <1>1, <1>5, <2>1, <2>2, <2>3 DEF NoLogin, NoIp, NoSyn, LoginOf, IpOf, SynOf, Current
  <2>6. ASSUME NEW x \in acked' \cup spent', Current(dc, x)'
        PROVE  duser'[dc].user = x.user /\ ~duser'[dc].del
    <3>1. x = n
      BY <1>5, <1>8, <2>1, <2>6 DEF NoTicket, Current
    <3>2. QED
      BY <1>5, <1>7, <1>10, <3>1 DEF Admitted
  <2>7. QED
    BY <1>5, <1>10, <1>12, <2>4, <2>5, <2>6, TicketPhase DEF Admitted
<1>15. QED
  BY <1>13, <1>14 DEF LoginInOrder

-----------------------------------------------------------------------------
(* Every step of the handoff. *)

LEMMA OrderInit == Init => LoginInOrder
<1> SUFFICES ASSUME Init, NEW dc \in DConns PROVE InOrder(dc)
  BY DEF LoginInOrder
<1>1. TypeOK
  BY TypeInit
<1>2. duser[dc].key = 0 /\ duser[dc].state = "none" /\ ~duser[dc].del
  BY DEF Init, DistributeInit, NoDUser
<1>3. nextKey[DistOf[dc]] = 1
  BY WiresAssumption DEF Init, DistributeInit
<1>4. queries = {} /\ results = {} /\ acked = {} /\ spent = {}
  BY DEF Init, WiresInit
<1>5. \A d \in Dists, a \in Agents : 1..Len(toAgent[d][a]) = {} /\ 1..Len(toDist[a][d]) = {}
  BY DEF Init, WiresInit
<1>6. KeysOlder(dc)
  BY <1>2, <1>3, <1>4, <1>5 DEF KeysOlder
<1>7. OneLogin(dc) /\ OneIpCheck(dc) /\ OneAnnouncement(dc) /\ CheckedFirst(dc) /\ StateAgrees(dc)
  BY <1>2, <1>4, <1>5 DEF OneLogin, OneIpCheck, OneAnnouncement, CheckedFirst, StateAgrees
<1>8. QED
  BY <1>6, <1>7 DEF InOrder

LEMMA DistStepType ==
  ASSUME TypeOK, WiresTypeOK', DistributeTypeOK', UNCHANGED agentVars,
         acked' \subseteq acked, spent' \subseteq spent, UNCHANGED entered
  PROVE  TypeOK'
  BY DEF TypeOK, AgentTypeOK, agentVars

LEMMA AgentStepType ==
  ASSUME TypeOK, WiresTypeOK', AgentTypeOK', UNCHANGED distVars,
         acked' \subseteq acked, spent' \subseteq acked \cup spent, entered' \subseteq AConns
  PROVE  TypeOK'
  BY DEF TypeOK, DistributeTypeOK, distVars

Inv == TypeOK /\ LoginInOrder

LEMMA InvClientOfDist ==
  ASSUME Inv, ClientOfDist
  PROVE  Inv'
<1> USE DEF Inv
<1>1. UNCHANGED <<agentVars, clientVars>>
  BY DEF ClientOfDist
<1>2. WiresTypeOK' /\ DistributeTypeOK'
  BY TypeDAccept, TypeLoginSyn, TypeForceOverlap DEF ClientOfDist
<1>3. TypeOK'
  BY <1>1, <1>2, DistStepType DEF clientVars
<1>4. LoginInOrder'
  BY <1>1, OrderDAccept, OrderLoginSyn, OrderForceOverlap DEF ClientOfDist
<1>5. QED
  BY <1>3, <1>4

LEMMA InvResultOfDB ==
  ASSUME Inv, ResultOfDB
  PROVE  Inv'
<1> USE DEF Inv
<1>1. UNCHANGED <<agentVars, clientVars>>
  BY DEF ResultOfDB
<1>2. PICK r \in results : RLoginCheckQuery(r) \/ RIpCheckQuery(r)
  BY DEF ResultOfDB
<1>3. CASE RLoginCheckQuery(r)
  BY <1>1, <1>3, TypeRLoginCheckQuery, DistStepType, OrderRLoginCheckQuery DEF clientVars
<1>4. CASE RIpCheckQuery(r)
  <2>1. Matches(r.dc, r.key) => duser[r.dc].user \in Users
    <3>1. r.type = "ip" /\ r.dc \in DConns
      BY <1>4 DEF RIpCheckQuery, TypeOK, WiresTypeOK, Result
    <3>2. Matches(r.dc, r.key) => IpOf(r.dc, r)
      BY <3>1 DEF Matches, IpOf, Current
    <3>3. QED
      BY <3>1, <3>2 DEF LoginInOrder, InOrder, StateAgrees, Admitted
  <2>2. QED
    BY <1>1, <1>4, <2>1, TypeRIpCheckQuery, DistStepType, OrderRIpCheckQuery DEF clientVars
<1>5. QED
  BY <1>2, <1>3, <1>4

LEMMA InvAnswerNotTaken ==
  ASSUME Inv, NEW d \in Dists, NEW a \in Agents, AnswerNotTaken(d, a)
  PROVE  Inv'
<1> USE DEF Inv
<1>1. UNCHANGED <<agentVars, clientVars>>
  BY DEF AnswerNotTaken
<1>2. TypeOK'
  BY <1>1, TypeAckTooLate, TypeNackDelivered, DistStepType DEF AnswerNotTaken, clientVars
<1>3. LoginInOrder'
  BY <1>1, OrderAckTooLate, OrderNackDelivered DEF AnswerNotTaken
<1>4. QED
  BY <1>2, <1>3

LEMMA InvTakeTicket ==
  ASSUME Inv, NEW d \in Dists, NEW a \in Agents, TakeTicket(d, a)
  PROVE  Inv'
<1> USE DEF Inv
<1> DEFINE m == Head(toDist[a][d])
<1>1. AckDelivered(d, a) /\ UNCHANGED <<agentVars, spent, entered>>
  BY DEF TakeTicket
<1>2. m.user \in Users /\ m.key \in Nat /\ m.dc \in DConns
  BY <1>1, HeadToDist, ToDistFields DEF AckDelivered, Receives
<1>3. [user |-> m.user, agent |-> a, key |-> m.key, dc |-> m.dc] \in Ticket
  BY <1>2 DEF Ticket
<1>4. acked' \subseteq Ticket
  BY <1>3 DEF TypeOK, TakeTicket
<1>5. WiresTypeOK' /\ DistributeTypeOK'
  BY <1>1, TypeAckDelivered
<1>6. TypeOK'
  BY <1>1, <1>4, <1>5 DEF TypeOK, AgentTypeOK, agentVars
<1>7. QED
  BY <1>6, OrderTakeTicket

LEMMA InvDistToAgent ==
  ASSUME Inv, NEW d \in Dists, NEW a \in Agents, DistToAgent(d, a)
  PROVE  Inv'
<1> USE DEF Inv
<1>1. UNCHANGED <<distVars, clientVars>>
  BY DEF DistToAgent
<1>2. WiresTypeOK' /\ AgentTypeOK'
  BY TypeNotifyUserLoginSyn, TypeNotifyAlreadyOut, TypeForce DEF DistToAgent
<1>3. TypeOK'
  BY <1>1, <1>2, AgentStepType DEF clientVars, TypeOK
<1>4. CASE NotifyUserLoginSyn(d, a)
  BY <1>1, <1>3, <1>4, OrderNotifyUserLoginSyn
<1>5. CASE NotifyAlreadyOut(d, a) \/ DisconnectedDuringLogin(d, a) \/ ForceDisconnectOverlapLogin(d, a)
  <2>1. UNCHANGED <<queries, results, toDist>>
        /\ \E type \in {"userlogin_syn", "alreadyout", "disconnected_on_login", "force"} :
             AReceives(d, a, type)
    BY <1>5 DEF NotifyAlreadyOut, DisconnectedDuringLogin, ForceDisconnectOverlapLogin
  <2>2. LoginInOrder'
    BY <1>1, <2>1, AgentQuiet DEF clientVars
  <2>3. QED
    BY <1>3, <2>2
<1>6. QED
  BY <1>3, <1>4, <1>5 DEF DistToAgent

LEMMA InvLeaving ==
  ASSUME Inv, NEW dc \in DConns,
         LeaveDistribute(dc) \/ LoseDistribute(dc) \/ LeftDistribute(dc)
  PROVE  Inv'
<1> USE DEF Inv
<1>1. CASE LeaveDistribute(dc)
  BY <1>1, TypeDistOut, DistStepType, OrderDistOut DEF LeaveDistribute, clientVars
<1>2. CASE LoseDistribute(dc)
  <2>1. DConnLost(dc) /\ acked' \subseteq acked /\ UNCHANGED <<agentVars, spent, entered>>
    BY <1>2 DEF LoseDistribute
  <2>2. QED
    BY <2>1, TypeDConnLost, DistStepType, OrderDConnLost
<1>3. CASE LeftDistribute(dc)
  <2>1. DDisconnected(dc) /\ spent' \subseteq spent /\ UNCHANGED <<agentVars, acked, entered>>
    BY <1>3 DEF LeftDistribute
  <2>2. QED
    BY <2>1, TypeDDisconnected, DistStepType, OrderDDisconnected
<1>4. QED
  BY <1>1, <1>2, <1>3

LEMMA InvAgentStep ==
  ASSUME Inv, UNCHANGED <<distVars, queries, results, linkVars>>,
         WiresTypeOK', AgentTypeOK', entered' \subseteq AConns,
         acked' \subseteq acked, spent' \subseteq acked \cup spent
  PROVE  Inv'
  BY AgentStepType, AgentQuiet DEF Inv, linkVars

LEMMA InvConnection ==
  ASSUME Inv, NEW c \in AConns,
         ConnectionOfAgent(c) \/ GoneFromAgent(c) \/ Reap(c) \/ ConnectAgent(c)
  PROVE  Inv'
<1> USE DEF Inv
<1>1. entered \subseteq AConns
  BY DEF TypeOK
<1>2. CASE (AConnLost(c) \/ ADrop(c) \/ ADisconnected(c)) /\ UNCHANGED <<distVars, clientVars>>
  <2>1. UNCHANGED <<queries, results, linkVars>>
    BY <1>2 DEF AConnLost, ADrop, ADisconnected, dbVars
  <2>2. QED
    BY <1>1, <1>2, <2>1, TypeConnection, InvAgentStep DEF clientVars
<1>3. CASE CharacterSelect(c) /\ UNCHANGED <<distVars, clientVars>>
  BY <1>1, <1>3, TypeCharacterSelect, InvAgentStep DEF CharacterSelect, clientVars, dbVars
<1>4. CASE Reap(c)
  BY <1>1, <1>4, TypeReap, InvAgentStep DEF Reap, ReapUnconnected, clientVars
<1>5. CASE ConnectAgent(c)
  BY <1>1, <1>5, TypeAAccept, InvAgentStep DEF ConnectAgent, AAccept, dbVars
<1>6. QED
  BY <1>2, <1>3, <1>4, <1>5 DEF ConnectionOfAgent, GoneFromAgent

LEMMA InvMapToAgent ==
  ASSUME Inv, NEW a \in Agents, NEW u \in Users, MapToAgent(a, u)
  PROVE  Inv'
<1>1. UNCHANGED <<distVars, clientVars, queries, results, linkVars>>
  BY DEF MapToAgent, BackToCharSel, LoginCheckDeleteFromMap, dbVars
<1>2. WiresTypeOK' /\ AgentTypeOK'
  BY TypeMapToAgent DEF MapToAgent, Inv
<1>3. QED
  BY <1>1, <1>2, InvAgentStep DEF Inv, TypeOK, clientVars

LEMMA InvShowTicket ==
  ASSUME Inv, NEW c \in AConns, NEW t \in acked, ShowTicket(c, t)
  PROVE  Inv'
<1>1. t.user \in Users
  BY DEF Inv, TypeOK, Ticket
<1>2. CharacterlistSyn(c, t.user, t.key) /\ UNCHANGED distVars
      /\ acked' \subseteq acked /\ spent' \subseteq acked \cup spent /\ entered' \subseteq AConns
  BY DEF ShowTicket, Inv, TypeOK
<1>3. UNCHANGED <<queries, results, linkVars>>
  BY <1>2 DEF CharacterlistSyn
<1>4. WiresTypeOK' /\ AgentTypeOK'
  BY <1>1, <1>2, TypeCharacterlistSyn DEF Inv
<1>5. QED
  BY <1>2, <1>3, <1>4, InvAgentStep

LEMMA InvDatabase ==
  ASSUME Inv, DatabaseStep
  PROVE  Inv'
<1> USE DEF Inv
<1>1. DBStep /\ UNCHANGED <<linkVars, distVars, agentVars, clientVars>>
  BY DEF DatabaseStep
<1>2. WiresTypeOK' /\ DistributeTypeOK'
  BY <1>1, TypeDBStep DEF TypeOK, WiresTypeOK, DistributeTypeOK, linkVars, distVars
<1>3. TypeOK'
  BY <1>1, <1>2, DistStepType DEF clientVars
<1>4. QED
  BY <1>1, <1>3, OrderDatabase

LEMMA InvStutter ==
  ASSUME Inv, UNCHANGED vars
  PROVE  Inv'
<1>1. UNCHANGED <<dbVars, linkVars, distVars, agentVars, clientVars>>
  BY DEF vars
<1>2. WiresTypeOK' /\ DistributeTypeOK'
  BY <1>1 DEF Inv, TypeOK, WiresTypeOK, DistributeTypeOK, dbVars, linkVars, distVars
<1>3. TypeOK'
  BY <1>1, <1>2, DistStepType DEF Inv, clientVars
<1>4. LoginInOrder'
  BY <1>1, AgentQuiet DEF Inv, linkVars, dbVars, clientVars
<1>5. QED
  BY <1>3, <1>4 DEF Inv

LEMMA InvNext == Inv /\ [Next]_vars => Inv'
<1> SUFFICES ASSUME Inv, [Next]_vars PROVE Inv'
  OBVIOUS
<1>1. CASE ClientOfDist
  BY <1>1, InvClientOfDist
<1>2. CASE ResultOfDB
  BY <1>2, InvResultOfDB
<1>3. CASE \E d \in Dists, a \in Agents :
             AnswerNotTaken(d, a) \/ TakeTicket(d, a) \/ DistToAgent(d, a)
  BY <1>3, InvAnswerNotTaken, InvTakeTicket, InvDistToAgent
<1>4. CASE \E dc \in DConns : LeaveDistribute(dc) \/ LoseDistribute(dc) \/ LeftDistribute(dc)
  BY <1>4, InvLeaving
<1>5. CASE \E c \in AConns :
             ConnectionOfAgent(c) \/ GoneFromAgent(c) \/ Reap(c) \/ ConnectAgent(c)
  BY <1>5, InvConnection
<1>6. CASE \E a \in Agents, u \in Users : MapToAgent(a, u)
  BY <1>6, InvMapToAgent
<1>7. CASE \E c \in AConns, t \in acked : ShowTicket(c, t)
  BY <1>7, InvShowTicket
<1>8. CASE DatabaseStep
  BY <1>8, InvDatabase
<1>9. CASE UNCHANGED vars
  BY <1>9, InvStutter
<1>10. QED
  BY <1>1, <1>2, <1>3, <1>4, <1>5, <1>6, <1>7, <1>8, <1>9 DEF Next

-----------------------------------------------------------------------------
(* The inductive invariant: the types of all variables and the order of    *)
(* every login, in every reachable state.                                  *)
THEOREM InvAlways == Spec => []Inv
<1>1. Init => Inv
  BY TypeInit, OrderInit DEF Inv
<1>2. QED
  BY <1>1, InvNext, PTL DEF Spec

(* A distribute server serves one login at a time per client: whatever is  *)
(* under way about a client agrees with its USERINFO, and what is left of  *)
(* an earlier client of the connection index carries an older key.         *)
THEOREM LoginsInOrder == Spec => []LoginInOrder
<1>1. Inv => LoginInOrder
  BY DEF Inv
<1>2. QED
  BY <1>1, InvAlways, PTL

(* Every variable keeps its type.  The type invariant is not inductive by  *)
(* itself: the announcement after an IP check takes the account from the   *)
(* USERINFO, which holds one because the check follows an admitted login.  *)
THEOREM TypeCorrect == Spec => []TypeOK
<1>1. Inv => TypeOK
  BY DEF Inv
<1>2. QED
  BY <1>1, InvAlways, PTL

(* The answer of an agent that will still be delivered finds its account,  *)
(* admitted and with the delete option set, at the connection index it is  *)
(* about.                                                                  *)
THEOREM AnswersAlwaysFit == Spec => []AnswersFit
<1>1. Inv => AnswersFit
  <2> SUFFICES ASSUME Inv, NEW a \in Agents, NEW d \in Dists, NEW i \in 1..Len(toDist[a][d]),
                      Matches(toDist[a][d][i].dc, toDist[a][d][i].key)
               PROVE  Admitted(toDist[a][d][i].dc, toDist[a][d][i].user)
    BY DEF AnswersFit, Admitted
  <2>1. toDist[a][d] \in Seq(ToDistMsg)
    BY DEF Inv, TypeOK, WiresTypeOK
  <2>2. toDist[a][d][i].dc \in DConns
    BY <2>1, ToDistFields
  <2>3. Current(toDist[a][d][i].dc, toDist[a][d][i])
    BY DEF Matches, Current
  <2>4. QED
    BY <2>2, <2>3 DEF Inv, LoginInOrder, InOrder, StateAgrees
<1>2. QED
  BY <1>1, InvAlways, PTL

(* Once a client has its ticket, leaving the distribute server does not    *)
(* log its account out.                                                    *)
THEOREM TicketsKeepTheRow == Spec => []TicketKeepsRow
<1>1. Inv => TicketKeepsRow
  <2> SUFFICES ASSUME Inv, NEW t \in acked \cup spent, duser[t.dc].key = t.key
               PROVE  duser[t.dc].user = t.user /\ ~duser[t.dc].del
    BY DEF TicketKeepsRow
  <2>1. t.dc \in DConns /\ Current(t.dc, t)
    BY DEF Inv, TypeOK, Ticket, Current
  <2>2. QED
    BY <2>1 DEF Inv, LoginInOrder, InOrder, StateAgrees
<1>2. QED
  BY <1>1, InvAlways, PTL

-----------------------------------------------------------------------------
(* THE ABSTRACT LOGIN SERVICE.  The invariant is the one that keeps the    *)
(* logins in order, with NetAgrees: a connection index has a USERINFO      *)
(* until its callback comes.  Most steps change nothing a client sees; a   *)
(* result and an answer do, and that they do it once and to the client     *)
(* they are about is LoginInOrder.                                         *)

NetAgrees == \A dc \in DConns : dnet[dc] = "free" <=> ~HasUser(dc)

SInv == Inv /\ NetAgrees

-----------------------------------------------------------------------------
(* What a step leaves alone. *)

LEMMA Replaced ==
  ASSUME NEW S, NEW f, NEW g, NEW c \in S,
         f = [e \in S |-> f[e]], g = [e \in S |-> g[e]],
         \A e \in S : e # c => g[e] = f[e]
  PROVE  g = [f EXCEPT ![c] = g[c]]
OBVIOUS

SameAsked(e) == AskedFor(e)' = AskedFor(e)

Same(e) == SameUser(e) /\ SameAsked(e)

LEMMA SameSeen ==
  ASSUME NEW e \in DConns, Same(e)
  PROVE  /\ KeysSeen'[e] = KeysSeen[e] /\ AskedSeen'[e] = AskedSeen[e]
         /\ LoginsSeen'[e] = LoginsSeen[e] /\ AccountsSeen'[e] = AccountsSeen[e]
<1>1. LoginAt(e)' = LoginAt(e)
  BY DEF Same, SameUser, LoginAt, Granted, HasUser
<1>2. AccountOf(e)' = AccountOf(e)
  BY DEF Same, SameUser, AccountOf, Granted, HasUser
<1> QED
  BY <1>1, <1>2 DEF Same, SameUser, SameAsked, KeysSeen, AskedSeen, LoginsSeen, AccountsSeen

(* A step about one connection replaces what its client sees. *)
LEMMA OnlyHere ==
  ASSUME NEW c \in DConns, \A e \in DConns : e # c => Same(e)
  PROVE  /\ KeysSeen' = [KeysSeen EXCEPT ![c] = duser'[c].key]
         /\ AskedSeen' = [AskedSeen EXCEPT ![c] = AskedFor(c)']
         /\ LoginsSeen' = [LoginsSeen EXCEPT ![c] = LoginAt(c)']
         /\ AccountsSeen' = [AccountsSeen EXCEPT ![c] = AccountOf(c)']
<1>1. \A e \in DConns : e # c =>
        /\ KeysSeen'[e] = KeysSeen[e] /\ AskedSeen'[e] = AskedSeen[e]
        /\ LoginsSeen'[e] = LoginsSeen[e] /\ AccountsSeen'[e] = AccountsSeen[e]
  BY SameSeen
<1>2. KeysSeen' = [KeysSeen EXCEPT ![c] = KeysSeen'[c]]
  <2>1. KeysSeen = [e \in DConns |-> KeysSeen[e]] /\ KeysSeen' = [e \in DConns |-> KeysSeen'[e]]
    BY DEF KeysSeen
  <2> QED BY <1>1, <2>1, Replaced
<1>3. AskedSeen' = [AskedSeen EXCEPT ![c] = AskedSeen'[c]]
  <2>1. AskedSeen = [e \in DConns |-> AskedSeen[e]] /\ AskedSeen' = [e \in DConns |-> AskedSeen'[e]]
    BY DEF AskedSeen
  <2> QED BY <1>1, <2>1, Replaced
<1>4. LoginsSeen' = [LoginsSeen EXCEPT ![c] = LoginsSeen'[c]]
  <2>1. LoginsSeen = [e \in DConns |-> LoginsSeen[e]] /\ LoginsSeen' = [e \in DConns |-> LoginsSeen'[e]]
    BY DEF LoginsSeen
  <2> QED BY <1>1, <2>1, Replaced
<1>5. AccountsSeen' = [AccountsSeen EXCEPT ![c] = AccountsSeen'[c]]
  <2>1. AccountsSeen = [e \in DConns |-> AccountsSeen[e]] /\ AccountsSeen' = [e \in DConns |-> AccountsSeen'[e]]
    BY DEF AccountsSeen
  <2> QED BY <1>1, <2>1, Replaced
<1>6. KeysSeen'[c] = duser'[c].key /\ AskedSeen'[c] = AskedFor(c)'
      /\ LoginsSeen'[c] = LoginAt(c)' /\ AccountsSeen'[c] = AccountOf(c)'
  BY DEF KeysSeen, AskedSeen, LoginsSeen, AccountsSeen
<1> QED
  BY <1>2, <1>3, <1>4, <1>5, <1>6

LEMMA TicketsShrink ==
  ASSUME acked' \cup spent' \subseteq acked \cup spent
  PROVE  TicketsSeen' \subseteq TicketsSeen
BY DEF TicketsSeen, TicketSeen

(* A step that changes nothing a client sees. *)
LEMMA ServiceQuiet ==
  ASSUME UNCHANGED nextKey, \A e \in DConns : Same(e),
         acked' \cup spent' \subseteq acked \cup spent
  PROVE  Service!Next
<1>1. UNCHANGED <<KeysSeen, AskedSeen, LoginsSeen, AccountsSeen>>
  BY DEF Same, SameUser, SameAsked, KeysSeen, AskedSeen, LoginsSeen, AccountsSeen,
         LoginAt, AccountOf, Granted, HasUser
<1>2. Service!DropTicket
  BY <1>1, TicketsShrink DEF Service!DropTicket
<1> QED
  BY <1>2 DEF Service!Next

(* What a client has asked for depends on the logins about it alone. *)
LEMMA AskedSame ==
  ASSUME NEW e \in DConns, duser'[e].key = duser[e].key,
         \A q \in queries' \cup results' : LoginOf(e, q) =>
           \E r \in queries \cup results : LoginOf(e, r) /\ r.user = q.user,
         \A q \in queries \cup results : LoginOf(e, q) =>
           \E r \in queries' \cup results' : LoginOf(e, r) /\ r.user = q.user
  PROVE  SameAsked(e)
<1>1. \A q : LoginOf(e, q)' <=> LoginOf(e, q)
  BY DEF LoginOf, Current
<1>2. HasUser(e)' <=> HasUser(e)
  BY DEF HasUser
<1> QED
  BY <1>1, <1>2 DEF SameAsked, AskedFor

LEMMA AskedStays ==
  ASSUME UNCHANGED <<queries, results>>, NEW e \in DConns, duser'[e].key = duser[e].key
  PROVE  SameAsked(e)
BY AskedSame

LEMMA SameDuser ==
  ASSUME UNCHANGED <<duser, queries, results>>
  PROVE  \A e \in DConns : Same(e)
BY AskedStays DEF Same, SameUser

-----------------------------------------------------------------------------
(* Clients of the distribute server. *)

LEMMA ServeDAccept ==
  ASSUME SInv, NEW dc \in DConns, DAccept(dc), UNCHANGED clientVars
  PROVE  Service!Next
<1> DEFINE d == DistOf[dc]
<1>1. UNCHANGED <<queries, results, acked, spent>> /\ duser[dc].key = 0
  BY DEF DAccept, dbVars, clientVars, SInv, NetAgrees, HasUser
<1>2. /\ d \in Dists /\ nextKey[d] \in Nat \ {0} /\ nextKey \in [Dists -> 1..(MaxKey + 1)]
      /\ duser \in [DConns -> DUser] /\ MaxKey \in Nat
  BY WiresAssumption DEF SInv, Inv, TypeOK, DistributeTypeOK
<1>3. /\ duser'[dc] = [NoDUser EXCEPT !.key = nextKey[d]]
      /\ \A e \in DConns : e # dc => duser'[e] = duser[e]
      /\ nextKey' = [nextKey EXCEPT ![d] = @ + 1]
  BY <1>2 DEF DAccept
<1>4. \A e \in DConns : e # dc => Same(e)
  BY <1>1, <1>3, AskedStays DEF Same, SameUser
<1>5. AskedFor(dc) = {} /\ LoginAt(dc) = "none" /\ AccountOf(dc) = NoUser
  BY <1>1 DEF AskedFor, LoginAt, AccountOf, Granted, HasUser
<1>6. AskedFor(dc)' = {}
  <2>1. KeysOlder(dc)
    BY DEF SInv, Inv, LoginInOrder, InOrder
  <2>2. \A q \in queries \cup results : q.dc = dc => q.key # nextKey[d]
    BY <1>2, <2>1 DEF KeysOlder
  <2>3. duser'[dc].key = nextKey[d]
    BY <1>3 DEF NoDUser
  <2>4. \A q \in queries' \cup results' : ~LoginOf(dc, q)'
    BY <1>1, <2>2, <2>3 DEF LoginOf, Current
  <2> QED
    BY <2>4 DEF AskedFor
<1>7. /\ duser'[dc].key = nextKey[d] /\ LoginAt(dc)' = "guest" /\ AccountOf(dc)' = NoUser
  BY <1>2, <1>3 DEF NoDUser, LoginAt, AccountOf, Granted, HasUser
<1>8. /\ KeysSeen' = [KeysSeen EXCEPT ![dc] = nextKey[d]]
      /\ AskedSeen' = [AskedSeen EXCEPT ![dc] = {}]
      /\ LoginsSeen' = [LoginsSeen EXCEPT ![dc] = "guest"]
      /\ AccountsSeen' = [AccountsSeen EXCEPT ![dc] = NoUser]
  BY <1>4, <1>6, <1>7, OnlyHere
<1>9. AskedSeen' = AskedSeen /\ AccountsSeen' = AccountsSeen /\ LoginsSeen[dc] = "none"
  BY <1>5, <1>8 DEF AskedSeen, AccountsSeen, LoginsSeen
<1>10. TicketsSeen' = TicketsSeen
  BY <1>1 DEF TicketsSeen
<1>11. Service!Arrive(dc)
  BY <1>3, <1>8, <1>9, <1>10 DEF Service!Arrive
<1> QED
  BY <1>11 DEF Service!Next

LEMMA ServeLoginSyn ==
  ASSUME SInv, NEW dc \in DConns, NEW u \in Users, LoginSyn(dc, u), UNCHANGED clientVars
  PROVE  Service!Next
<1> DEFINE q == LoginQuery(dc, duser[dc].key, u)
<1>1. UNCHANGED <<duser, nextKey, results, acked, spent>>
  BY DEF LoginSyn, clientVars
<1>2. CASE UNCHANGED queries
  BY <1>1, <1>2, SameDuser, ServiceQuiet
<1>3. CASE queries' = queries \cup {q}
  <2>1. HasUser(dc) /\ duser[dc].state # "ok"
        /\ \A r \in queries \cup results : ~(r.dc = dc /\ r.key = duser[dc].key)
    BY DEF LoginSyn, Idle
  <2>2. LoginAt(dc) = "guest" /\ AskedFor(dc) = {}
    BY <2>1 DEF LoginAt, Granted, AskedFor, LoginOf, Current
  <2>3. AskedFor(dc)' = {u}
    <3>1. q.type = "login" /\ q.dc = dc /\ q.key = duser[dc].key /\ q.user = u
      BY DEF LoginQuery
    <3>2. \A r \in queries' \cup results' : LoginOf(dc, r)' <=> r = q
      BY <1>1, <1>3, <2>1, <3>1 DEF LoginOf, Current
    <3>3. HasUser(dc)' /\ q \in queries' \cup results'
      BY <1>1, <1>3, <2>1 DEF HasUser
    <3> QED
      BY <3>1, <3>2, <3>3 DEF AskedFor
  <2>4. \A e \in DConns : e # dc => Same(e)
    <3> SUFFICES ASSUME NEW e \in DConns, e # dc PROVE Same(e)
      OBVIOUS
    <3>1. ~LoginOf(e, q)
      BY DEF LoginOf, Current, LoginQuery
    <3>2. SameAsked(e)
      BY <1>1, <1>3, <3>1, AskedSame
    <3> QED
      BY <1>1, <3>2 DEF Same, SameUser
  <2>5. AskedSeen' = [AskedSeen EXCEPT ![dc] = {u}]
    BY <2>3, <2>4, OnlyHere
  <2>6. UNCHANGED <<KeysSeen, LoginsSeen, AccountsSeen, TicketsSeen>>
    BY <1>1 DEF KeysSeen, LoginsSeen, AccountsSeen, TicketsSeen, LoginAt, AccountOf, Granted, HasUser
  <2>7. LoginsSeen[dc] = "guest" /\ AskedSeen[dc] = {}
    BY <2>2 DEF LoginsSeen, AskedSeen
  <2>8. Service!Ask(dc, u)
    BY <1>1, <2>5, <2>6, <2>7 DEF Service!Ask
  <2> QED
    BY <2>8 DEF Service!Next
<1> QED
  BY <1>2, <1>3 DEF LoginSyn

LEMMA ServeForceOverlap ==
  ASSUME NEW dc \in DConns, ForceOverlap(dc), UNCHANGED clientVars
  PROVE  Service!Next
<1>1. UNCHANGED <<duser, nextKey, queries, results, acked, spent>>
  BY DEF ForceOverlap, clientVars
<1> QED
  BY <1>1, SameDuser, ServiceQuiet

LEMMA ServeLeaving ==
  ASSUME SInv, NEW dc \in DConns, LeaveDistribute(dc) \/ LoseDistribute(dc)
  PROVE  Service!Next
<1>1. UNCHANGED <<nextKey, queries, results>> /\ acked' \cup spent' \subseteq acked \cup spent
  BY DEF LeaveDistribute, LoseDistribute, DistOut, DConnLost, dbVars, clientVars
<1>2. \A e \in DConns : SameUser(e)
  BY DEF LeaveDistribute, LoseDistribute, DistOut, DConnLost, SameUser, SInv, Inv, TypeOK,
         DistributeTypeOK, DUser
<1>3. \A e \in DConns : Same(e)
  BY <1>1, <1>2, AskedStays DEF Same, SameUser
<1> QED
  BY <1>1, <1>3, ServiceQuiet

LEMMA ServeDDisconnected ==
  ASSUME SInv, NEW dc \in DConns, LeftDistribute(dc)
  PROVE  Service!Next
<1>1. UNCHANGED <<nextKey, queries, results, acked>> /\ spent' \subseteq spent
  BY DEF LeftDistribute, DDisconnected
<1>2. HasUser(dc)
  BY DEF LeftDistribute, DDisconnected, SInv, NetAgrees
<1>3. duser'[dc] = NoDUser /\ \A e \in DConns : e # dc => duser'[e] = duser[e]
  BY DEF LeftDistribute, DDisconnected, SInv, Inv, TypeOK, DistributeTypeOK
<1>4. \A e \in DConns : e # dc => Same(e)
  BY <1>1, <1>3, AskedStays DEF Same, SameUser
<1>5. /\ duser'[dc].key = 0 /\ AskedFor(dc)' = {} /\ LoginAt(dc)' = "none"
      /\ AccountOf(dc)' = NoUser
  BY <1>3 DEF NoDUser, AskedFor, LoginAt, AccountOf, Granted, HasUser
<1>6. LoginsSeen[dc] # "none"
  BY <1>2 DEF LoginsSeen, LoginAt
<1>7. TicketsSeen' \subseteq TicketsSeen
  BY <1>1, TicketsShrink
<1>8. Service!Depart(dc)
  BY <1>1, <1>4, <1>5, <1>6, <1>7, OnlyHere DEF Service!Depart
<1> QED
  BY <1>8 DEF Service!Next

-----------------------------------------------------------------------------
(* Results and answers. *)

(* A result that leaves what a client has asked for as it is. *)
LEMMA ResultElsewhere ==
  ASSUME NEW r \in results, results' = results \ {r},
         \A q \in queries' \cup queries : q.type = "login" => q \in queries' /\ q \in queries,
         NEW e \in DConns, duser'[e].key = duser[e].key, ~LoginOf(e, r)
  PROVE  SameAsked(e)
<1>1. \A q \in queries' \cup results' : LoginOf(e, q) => q \in queries \cup results
  BY DEF LoginOf
<1>2. \A q \in queries \cup results : LoginOf(e, q) => q \in queries' \cup results'
  BY DEF LoginOf
<1> QED
  BY <1>1, <1>2, AskedSame

(* The result a client waits for is the only thing it waits for. *)
LEMMA ResultHere ==
  ASSUME SInv, NEW r \in results, r.type = "login", Matches(r.dc, r.key),
         results' = results \ {r},
         \A q \in queries' : q.type = "login" => q \in queries,
         duser'[r.dc].key = duser[r.dc].key
  PROVE  /\ r.dc \in DConns /\ AskedFor(r.dc) = {r.user} /\ AskedFor(r.dc)' = {}
         /\ LoginAt(r.dc) = "guest" /\ AccountOf(r.dc) = NoUser
<1>1. r.dc \in DConns /\ LoginOf(r.dc, r) /\ HasUser(r.dc)
  BY ResultKnown DEF SInv, Inv, LoginOf, Current, Matches
<1>2. InOrder(r.dc)
  BY <1>1 DEF SInv, Inv, LoginInOrder
<1>3. \A q \in queries \cup results : LoginOf(r.dc, q) => q = r
  BY <1>1, <1>2 DEF InOrder, OneLogin
<1>4. AskedFor(r.dc) = {r.user}
  BY <1>1, <1>3 DEF AskedFor
<1>5. \A q \in queries' \cup results' : ~LoginOf(r.dc, q)'
  <2> SUFFICES ASSUME NEW q \in queries' \cup results', LoginOf(r.dc, q)' PROVE FALSE
    OBVIOUS
  <2>1. LoginOf(r.dc, q) /\ q \in queries \cup results
    BY DEF LoginOf, Current
  <2>2. q = r
    BY <1>3, <2>1
  <2>3. r \in queries
    BY <2>2 DEF LoginOf
  <2> QED
    BY <1>1, <1>2, <2>3 DEF InOrder, OneLogin
<1>6. AskedFor(r.dc)' = {}
  BY <1>5 DEF AskedFor
<1>7. duser[r.dc].state # "ok"
  BY <1>1, <1>2 DEF InOrder, StateAgrees
<1> QED
  BY <1>1, <1>4, <1>6, <1>7 DEF LoginAt, AccountOf, Granted

(* The client hears that it is not let in. *)
LEMMA ServeRefused ==
  ASSUME SInv, NEW r \in results, r.type = "login", Matches(r.dc, r.key),
         results' = results \ {r}, UNCHANGED <<nextKey, queries, acked, spent>>,
         \A e \in DConns : duser'[e].key = duser[e].key,
         \A e \in DConns : e # r.dc => duser'[e] = duser[e],
         duser'[r.dc].state # "ok"
  PROVE  Service!Next
<1> DEFINE dc == r.dc
<1>1. /\ dc \in DConns /\ AskedFor(dc)' = {} /\ LoginAt(dc) = "guest" /\ AccountOf(dc) = NoUser
  BY ResultHere, ResultKnown DEF SInv, Inv
<1>2. \A e \in DConns : e # dc => Same(e)
  <2> SUFFICES ASSUME NEW e \in DConns, e # dc PROVE Same(e)
    OBVIOUS
  <2>1. ~LoginOf(e, r)
    BY DEF LoginOf, Current
  <2> QED
    BY <2>1, ResultElsewhere DEF Same, SameUser
<1>3. HasUser(dc)' /\ LoginAt(dc)' = "guest" /\ AccountOf(dc)' = NoUser
  BY <1>1 DEF LoginAt, AccountOf, Granted, HasUser, Matches
<1>4. duser'[dc].key = duser[dc].key
  BY <1>1
<1>5. /\ KeysSeen' = [KeysSeen EXCEPT ![dc] = duser[dc].key]
      /\ AskedSeen' = [AskedSeen EXCEPT ![dc] = {}]
      /\ LoginsSeen' = [LoginsSeen EXCEPT ![dc] = "guest"]
      /\ AccountsSeen' = [AccountsSeen EXCEPT ![dc] = NoUser]
  BY <1>1, <1>2, <1>3, <1>4, OnlyHere
<1>6. KeysSeen' = KeysSeen /\ LoginsSeen' = LoginsSeen /\ AccountsSeen' = AccountsSeen
      /\ LoginsSeen[dc] = "guest"
  <2>1. KeysSeen[dc] = duser[dc].key /\ KeysSeen = [KeysSeen EXCEPT ![dc] = KeysSeen[dc]]
    BY <1>1 DEF KeysSeen
  <2>2. LoginsSeen[dc] = "guest" /\ LoginsSeen = [LoginsSeen EXCEPT ![dc] = LoginsSeen[dc]]
    BY <1>1 DEF LoginsSeen
  <2>3. AccountsSeen[dc] = NoUser /\ AccountsSeen = [AccountsSeen EXCEPT ![dc] = AccountsSeen[dc]]
    BY <1>1 DEF AccountsSeen
  <2> QED
    BY <1>5, <2>1, <2>2, <2>3, Zenon
<1>7. TicketsSeen' = TicketsSeen
  BY DEF TicketsSeen
<1>8. Service!Refuse(dc)
  BY <1>5, <1>6, <1>7 DEF Service!Refuse
<1> QED
  BY <1>1, <1>8 DEF Service!Next

LEMMA ServeAdmitted ==
  ASSUME SInv, NEW r \in results, r.type = "login", results' = results \ {r},
         LoginAdmitted(r), UNCHANGED clientVars
  PROVE  Service!Next
<1> DEFINE dc == r.dc
<1>1. Matches(dc, r.key) /\ r.state = "ok" /\ UNCHANGED <<nextKey, acked, spent>>
      /\ duser' = [duser EXCEPT ![dc] = Noted(r)]
  BY DEF LoginAdmitted, clientVars
<1>2. queries' = queries \/ queries' = queries \cup {IpQuery(dc, r.key)}
  BY DEF LoginAdmitted
<1>3. \A q \in queries' \cup queries : q.type = "login" => q \in queries' /\ q \in queries
  BY <1>2 DEF IpQuery
<1>4. /\ \A e \in DConns : duser'[e].key = duser[e].key
      /\ \A e \in DConns : e # dc => duser'[e] = duser[e]
      /\ duser'[dc].user = r.user /\ duser'[dc].state = "ok" /\ duser'[dc].del = TRUE
  BY <1>1, NotedKeeps DEF SInv, Inv
<1>5. dc \in DConns
  BY ResultKnown DEF SInv, Inv
<1>6. /\ AskedFor(dc) = {r.user} /\ AskedFor(dc)' = {} /\ LoginAt(dc) = "guest"
  BY <1>1, <1>3, <1>4, <1>5, ResultHere
<1>7. \A e \in DConns : e # dc => Same(e)
  <2> SUFFICES ASSUME NEW e \in DConns, e # dc PROVE Same(e)
    OBVIOUS
  <2>1. ~LoginOf(e, r)
    BY DEF LoginOf, Current
  <2> QED
    BY <1>3, <1>4, <2>1, ResultElsewhere DEF Same, SameUser
<1>8. LoginAt(dc)' = "granted" /\ AccountOf(dc)' = r.user
  BY <1>1, <1>4, <1>5 DEF LoginAt, AccountOf, Granted, HasUser, Matches
<1>9. /\ KeysSeen' = [KeysSeen EXCEPT ![dc] = duser[dc].key]
      /\ AskedSeen' = [AskedSeen EXCEPT ![dc] = {}]
      /\ LoginsSeen' = [LoginsSeen EXCEPT ![dc] = "granted"]
      /\ AccountsSeen' = [AccountsSeen EXCEPT ![dc] = r.user]
  BY <1>4, <1>5, <1>6, <1>7, <1>8, OnlyHere
<1>10. KeysSeen' = KeysSeen /\ LoginsSeen[dc] = "guest" /\ AskedSeen[dc] = {r.user}
  BY <1>5, <1>6, <1>9 DEF KeysSeen, LoginsSeen, AskedSeen
<1>11. TicketsSeen' = TicketsSeen
  BY <1>1 DEF TicketsSeen
<1>12. Service!Grant(dc)
  BY <1>1, <1>9, <1>10, <1>11 DEF Service!Grant
<1> QED
  BY <1>5, <1>12 DEF Service!Next

LEMMA ServeRLoginCheckQuery ==
  ASSUME SInv, NEW r \in results, RLoginCheckQuery(r), UNCHANGED clientVars
  PROVE  Service!Next
<1>1. r.type = "login" /\ results' = results \ {r} /\ UNCHANGED <<acked, spent>>
  BY DEF RLoginCheckQuery, clientVars
<1>2. CASE StaleLogin(r)
  <2>1. ~Matches(r.dc, r.key) /\ UNCHANGED <<duser, nextKey, queries>>
    BY <1>2 DEF StaleLogin, distVars
  <2>2. ASSUME NEW e \in DConns PROVE Same(e)
    <3>1. CASE LoginOf(e, r)
      <4>1. ~HasUser(e) /\ ~HasUser(e)'
        BY <2>1, <3>1 DEF LoginOf, Current, Matches, HasUser
      <4> QED
        BY <2>1, <4>1 DEF Same, SameUser, SameAsked, AskedFor
    <3>2. CASE ~LoginOf(e, r)
      BY <1>1, <2>1, <3>2, ResultElsewhere DEF Same, SameUser
    <3> QED
      BY <3>1, <3>2
  <2> QED
    BY <1>1, <2>1, <2>2, ServiceQuiet
<1>3. CASE CrcFailed(r)
  <2>1. Matches(r.dc, r.key) /\ UNCHANGED <<duser, nextKey, queries>>
    BY <1>3 DEF CrcFailed, distVars
  <2>2. duser[r.dc].state # "ok"
    <3>1. r.dc \in DConns /\ InOrder(r.dc) /\ LoginOf(r.dc, r)
      BY <1>1, <2>1, ResultKnown DEF SInv, Inv, LoginInOrder, LoginOf, Current, Matches
    <3> QED
      BY <3>1 DEF InOrder, StateAgrees
  <2> QED
    BY <1>1, <2>1, <2>2, ServeRefused
<1>4. CASE LoginAdmitted(r)
  BY <1>1, <1>4, ServeAdmitted
<1>5. CASE LoginTurnedDown(r)
  <2>1. Matches(r.dc, r.key) /\ r.state # "ok" /\ UNCHANGED <<nextKey, queries>>
        /\ duser' = [duser EXCEPT ![r.dc] = Noted(r)]
    BY <1>5 DEF LoginTurnedDown
  <2>2. /\ \A e \in DConns : duser'[e].key = duser[e].key
        /\ \A e \in DConns : e # r.dc => duser'[e] = duser[e]
        /\ duser'[r.dc].state = r.state
    BY <1>1, <2>1, NotedKeeps DEF SInv, Inv
  <2> QED
    BY <1>1, <2>1, <2>2, ServeRefused
<1> QED
  BY <1>2, <1>3, <1>4, <1>5 DEF RLoginCheckQuery

LEMMA ServeRIpCheckQuery ==
  ASSUME NEW r \in results, RIpCheckQuery(r), UNCHANGED clientVars
  PROVE  Service!Next
<1>1. /\ r.type = "ip" /\ results' = results \ {r}
      /\ UNCHANGED <<duser, nextKey, queries, acked, spent>>
  BY DEF RIpCheckQuery, clientVars
<1>2. \A e \in DConns : ~LoginOf(e, r)
  BY <1>1 DEF LoginOf
<1>3. \A e \in DConns : Same(e)
  BY <1>1, <1>2, ResultElsewhere DEF Same, SameUser
<1> QED
  BY <1>1, <1>3, ServiceQuiet

LEMMA ServeTakeTicket ==
  ASSUME SInv, NEW d \in Dists, NEW a \in Agents, TakeTicket(d, a)
  PROVE  Service!Next
<1> DEFINE m == Head(toDist[a][d])
<1>0. toDist[a][d] # <<>> /\ m \in ToDistMsg
  BY HeadToDist DEF TakeTicket, AckDelivered, Receives, SInv, Inv
<1> PICK dc, u, key : dc \in DConns /\ dc = m.dc /\ u = m.user /\ key = m.key
  BY <1>0, ToDistFields
<1> DEFINE t == [user |-> u, agent |-> a, key |-> key, dc |-> dc]
<1>1. /\ Matches(dc, key)
      /\ duser' = [duser EXCEPT ![dc].del = ~@]
      /\ acked' \in {acked, acked \cup {t}}
      /\ UNCHANGED <<nextKey, queries, results, spent>>
  BY DEF TakeTicket, AckDelivered, dbVars
<1>3. Admitted(dc, u)
  <2>1. toDist[a][d] \in Seq(ToDistMsg) /\ 1 \in 1..Len(toDist[a][d]) /\ m = toDist[a][d][1]
    BY <1>0 DEF SInv, Inv, TypeOK, WiresTypeOK
  <2>2. Current(dc, toDist[a][d][1])
    BY <1>1, <2>1 DEF Current, Matches
  <2> QED
    BY <2>1, <2>2 DEF SInv, Inv, LoginInOrder, InOrder, StateAgrees
<1> HIDE DEF m
<1>4. /\ duser[dc] \in DUser /\ duser \in [DConns -> DUser]
  BY DEF SInv, Inv, TypeOK, DistributeTypeOK
<1>5. /\ duser'[dc] = [duser[dc] EXCEPT !.del = ~duser[dc].del]
      /\ \A e \in DConns : e # dc => duser'[e] = duser[e]
  BY <1>1, <1>4
<1>6. /\ duser'[dc].key = duser[dc].key /\ duser'[dc].user = duser[dc].user
      /\ duser'[dc].state = duser[dc].state /\ duser'[dc].del = ~duser[dc].del
  BY <1>4, <1>5 DEF DUser
<1>7. \A e \in DConns : e # dc => Same(e)
  BY <1>1, <1>5, AskedStays DEF Same, SameUser
<1>8. AskedFor(dc)' = AskedFor(dc)
  <2>1. SameAsked(dc)
    BY <1>1, <1>6, AskedStays
  <2> QED
    BY <2>1 DEF SameAsked
<1>9. LoginAt(dc) = "granted" /\ LoginAt(dc)' = "ticket"
      /\ AccountOf(dc)' = AccountOf(dc) /\ AccountOf(dc) = u
  <2>1. HasUser(dc) /\ HasUser(dc)'
    BY <1>1, <1>6 DEF HasUser, Matches
  <2>2. Granted(dc) /\ Granted(dc)' /\ duser[dc].del = TRUE /\ duser[dc].user = u
    BY <1>3, <1>6, <2>1 DEF Granted, Admitted
  <2>3. ~duser'[dc].del
    BY <1>6, <2>2
  <2>4. LoginAt(dc) = "granted"
    BY <2>1, <2>2 DEF LoginAt
  <2>5. LoginAt(dc)' = "ticket"
    BY <2>1, <2>2, <2>3 DEF LoginAt
  <2>6. AccountOf(dc)' = AccountOf(dc) /\ AccountOf(dc) = u
    BY <1>6, <2>2 DEF AccountOf
  <2> QED
    BY <2>4, <2>5, <2>6
<1>10. /\ KeysSeen' = [KeysSeen EXCEPT ![dc] = duser[dc].key]
       /\ AskedSeen' = [AskedSeen EXCEPT ![dc] = AskedFor(dc)]
       /\ LoginsSeen' = [LoginsSeen EXCEPT ![dc] = "ticket"]
       /\ AccountsSeen' = [AccountsSeen EXCEPT ![dc] = AccountOf(dc)]
  <2>1. /\ KeysSeen' = [KeysSeen EXCEPT ![dc] = duser'[dc].key]
        /\ AskedSeen' = [AskedSeen EXCEPT ![dc] = AskedFor(dc)']
        /\ LoginsSeen' = [LoginsSeen EXCEPT ![dc] = LoginAt(dc)']
        /\ AccountsSeen' = [AccountsSeen EXCEPT ![dc] = AccountOf(dc)']
    BY <1>7, OnlyHere
  <2> QED
    BY <1>6, <1>8, <1>9, <2>1
<1>11. /\ KeysSeen' = KeysSeen /\ AskedSeen' = AskedSeen /\ AccountsSeen' = AccountsSeen
       /\ LoginsSeen[dc] = "granted" /\ AccountsSeen[dc] = u /\ KeysSeen[dc] = key
  BY <1>1, <1>9, <1>10 DEF KeysSeen, AskedSeen, AccountsSeen, LoginsSeen, Matches
<1>12. TicketSeen(t) = Service!Ticket(dc)
  BY <1>11 DEF TicketSeen, Service!Ticket
<1>13. TicketsSeen' \in {TicketsSeen, TicketsSeen \cup {TicketSeen(t)}}
  BY <1>1 DEF TicketsSeen
<1>14. Service!GiveTicket(dc)
  BY <1>1, <1>10, <1>11, <1>12, <1>13 DEF Service!GiveTicket
<1> QED
  BY <1>14 DEF Service!Next

LEMMA ServeAnswerNotTaken ==
  ASSUME NEW d \in Dists, NEW a \in Agents, AnswerNotTaken(d, a)
  PROVE  Service!Next
<1>1. UNCHANGED <<duser, nextKey, queries, results, acked, spent>>
  BY DEF AnswerNotTaken, AckTooLate, NackDelivered, distVars, dbVars, clientVars
<1> QED
  BY <1>1, SameDuser, ServiceQuiet

-----------------------------------------------------------------------------
(* The agents and the database. *)

LEMMA ServeDatabase ==
  ASSUME SInv, DatabaseStep
  PROVE  Service!Next
<1>1. UNCHANGED <<duser, nextKey, acked, spent>> /\ DBStep
  BY DEF DatabaseStep, distVars, clientVars
<1>2. ASSUME NEW q \in queries, DBLogin(q)
      PROVE  \A e \in DConns : SameAsked(e)
  <2>1. PICK s \in LoginState :
          /\ queries' = queries \ {q}
          /\ results' = results \cup
               {[type |-> "login", dc |-> q.dc, key |-> q.key, user |-> q.user, state |-> s]}
    BY <1>2 DEF DBLogin
  <2> DEFINE r == [type |-> "login", dc |-> q.dc, key |-> q.key, user |-> q.user, state |-> s]
  <2>2. q.type = "login"
    BY <1>2 DEF DBLogin
  <2>3. \A e \in DConns : LoginOf(e, r) <=> LoginOf(e, q)
    BY <2>2 DEF LoginOf, Current
  <2>4. r.user = q.user /\ r \in queries' \cup results' /\ q \in queries \cup results
    BY <2>1
  <2>5. ASSUME NEW e \in DConns PROVE SameAsked(e)
    <3>1. \A x \in queries' \cup results' : LoginOf(e, x) =>
            \E y \in queries \cup results : LoginOf(e, y) /\ y.user = x.user
      BY <2>1, <2>3, <2>4
    <3>2. \A x \in queries \cup results : LoginOf(e, x) =>
            \E y \in queries' \cup results' : LoginOf(e, y) /\ y.user = x.user
      BY <2>1, <2>3, <2>4
    <3> QED
      BY <1>1, <3>1, <3>2, AskedSame
  <2> QED
    BY <2>5
<1>3. ASSUME NEW q \in queries, DBIpCheck(q)
      PROVE  \A e \in DConns : SameAsked(e)
  <2>1. /\ q.type = "ip" /\ queries' = queries \ {q}
        /\ \A x \in results' : x \in results \/ x.type = "ip"
        /\ results \subseteq results'
    BY <1>3 DEF DBIpCheck
  <2>2. \A e : \A x \in queries' \cup results' : LoginOf(e, x) => x \in queries \cup results
    BY <2>1 DEF LoginOf
  <2>3. \A e : \A x \in queries \cup results : LoginOf(e, x) => x \in queries' \cup results'
    BY <2>1 DEF LoginOf
  <2> QED
    BY <1>1, <2>2, <2>3, AskedSame
<1>4. ASSUME NEW u \in Users, DBLogout(u)
      PROVE  \A e \in DConns : SameAsked(e)
  BY <1>1, <1>4, AskedStays DEF DBLogout
<1>5. \A e \in DConns : SameAsked(e)
  BY <1>1, <1>2, <1>3, <1>4 DEF DBStep
<1>6. \A e \in DConns : Same(e)
  BY <1>1, <1>5 DEF Same, SameUser
<1> QED
  BY <1>1, <1>6, ServiceQuiet

LEMMA ServeAgent ==
  ASSUME UNCHANGED <<distVars, queries, results>>, acked' \cup spent' \subseteq acked \cup spent
  PROVE  Service!Next
<1>1. UNCHANGED <<duser, nextKey, queries, results>>
  BY DEF distVars
<1> QED
  BY <1>1, SameDuser, ServiceQuiet

-----------------------------------------------------------------------------
(* A connection index and its USERINFO. *)

LEMMA NetSame ==
  ASSUME NetAgrees, \A e \in DConns : duser'[e].key = duser[e].key,
         UNCHANGED dnet \/ \E dc \in DConns : HasUser(dc) /\ Hangup(dc),
         DistributeTypeOK
  PROVE  NetAgrees'
<1> SUFFICES ASSUME NEW e \in DConns PROVE (dnet'[e] = "free" <=> ~HasUser(e)')
  BY DEF NetAgrees
<1>1. HasUser(e)' <=> HasUser(e)
  BY DEF HasUser
<1>2. CASE UNCHANGED dnet
  BY <1>1, <1>2 DEF NetAgrees
<1>3. CASE \E dc \in DConns : HasUser(dc) /\ Hangup(dc)
  BY <1>1, <1>3 DEF NetAgrees, Hangup, DistributeTypeOK
<1> QED
  BY <1>2, <1>3

LEMMA NetClient ==
  ASSUME SInv, NEW dc \in DConns,
         DAccept(dc) \/ (\E u \in Users : LoginSyn(dc, u)) \/ ForceOverlap(dc)
  PROVE  NetAgrees'
<1> DEFINE d == DistOf[dc]
<1>1. DistributeTypeOK /\ NetAgrees
  BY DEF SInv, Inv, TypeOK
<1>2. CASE DAccept(dc)
  <2>1. d \in Dists /\ nextKey[d] # 0
    BY <1>1, WiresAssumption DEF DistributeTypeOK
  <2>2. duser'[dc].key = nextKey[d] /\ dnet'[dc] = "open"
        /\ \A e \in DConns : e # dc => duser'[e] = duser[e] /\ dnet'[e] = dnet[e]
    BY <1>1, <1>2 DEF DAccept, NoDUser, DistributeTypeOK
  <2> QED
    BY <1>1, <2>1, <2>2 DEF NetAgrees, HasUser
<1>3. CASE \E u \in Users : LoginSyn(dc, u)
  <2>1. UNCHANGED duser /\ (UNCHANGED dnet \/ (HasUser(dc) /\ Hangup(dc)))
    BY <1>3 DEF LoginSyn
  <2> QED
    BY <1>1, <2>1, NetSame
<1>4. CASE ForceOverlap(dc)
  <2>1. UNCHANGED duser /\ (UNCHANGED dnet \/ (HasUser(dc) /\ Hangup(dc)))
    BY <1>4 DEF ForceOverlap
  <2> QED
    BY <1>1, <2>1, NetSame
<1> QED
  BY <1>2, <1>3, <1>4

LEMMA NetResult ==
  ASSUME SInv, NEW r \in results, RLoginCheckQuery(r) \/ RIpCheckQuery(r)
  PROVE  NetAgrees'
<1>1. DistributeTypeOK /\ NetAgrees /\ TypeOK
  BY DEF SInv, Inv, TypeOK
<1>2. r.dc \in DConns
  BY ResultKnown DEF SInv, Inv, RLoginCheckQuery, RIpCheckQuery
<1>3. CASE RIpCheckQuery(r) \/ (RLoginCheckQuery(r) /\ (StaleLogin(r) \/ CrcFailed(r)))
  <2>1. UNCHANGED duser /\ (UNCHANGED dnet \/ (HasUser(r.dc) /\ Hangup(r.dc)))
    BY <1>3 DEF RIpCheckQuery, Matches, StaleLogin, CrcFailed, distVars
  <2> QED
    BY <1>1, <1>2, <2>1, NetSame
<1>4. CASE RLoginCheckQuery(r) /\ (LoginAdmitted(r) \/ LoginTurnedDown(r))
  <2>1. /\ r.type = "login" /\ Matches(r.dc, r.key) /\ duser' = [duser EXCEPT ![r.dc] = Noted(r)]
        /\ UNCHANGED dnet \/ Hangup(r.dc)
    BY <1>4 DEF RLoginCheckQuery, LoginAdmitted, LoginTurnedDown
  <2>2. \A e \in DConns : duser'[e].key = duser[e].key
    BY <1>1, <2>1, NotedKeeps
  <2> QED
    BY <1>1, <1>2, <2>1, <2>2, NetSame DEF Matches
<1> QED
  BY <1>3, <1>4 DEF RLoginCheckQuery

LEMMA NetAnswer ==
  ASSUME SInv, NEW d \in Dists, NEW a \in Agents, AnswerNotTaken(d, a) \/ TakeTicket(d, a)
  PROVE  NetAgrees'
<1> DEFINE m == Head(toDist[a][d])
<1>1. DistributeTypeOK /\ NetAgrees /\ TypeOK
  BY DEF SInv, Inv, TypeOK
<1>2. m.dc \in DConns
  BY <1>1, HeadToDist, ToDistFields DEF AnswerNotTaken, TakeTicket, AckTooLate, NackDelivered,
     AckDelivered, Receives
<1>3. CASE AnswerNotTaken(d, a)
  <2>1. UNCHANGED duser /\ (UNCHANGED dnet \/ (HasUser(m.dc) /\ Hangup(m.dc)))
    BY <1>3 DEF AnswerNotTaken, AckTooLate, NackDelivered, distVars, Matches
  <2> QED
    BY <1>1, <1>2, <2>1, NetSame
<1>4. CASE TakeTicket(d, a)
  <2>1. UNCHANGED dnet /\ duser' = [duser EXCEPT ![m.dc].del = ~@]
    BY <1>4 DEF TakeTicket, AckDelivered
  <2>2. \A e \in DConns : duser'[e].key = duser[e].key
    BY <1>1, <1>2, <2>1 DEF DistributeTypeOK, DUser
  <2> QED
    BY <1>1, <2>1, <2>2, NetSame
<1> QED
  BY <1>3, <1>4

LEMMA NetLeaving ==
  ASSUME SInv, NEW dc \in DConns,
         LeaveDistribute(dc) \/ LoseDistribute(dc) \/ LeftDistribute(dc)
  PROVE  NetAgrees'
<1>1. DistributeTypeOK /\ NetAgrees
  BY DEF SInv, Inv, TypeOK
<1>2. CASE LeaveDistribute(dc)
  <2>1. HasUser(dc) /\ Hangup(dc) /\ duser' = [duser EXCEPT ![dc].out = TRUE]
    BY <1>2 DEF LeaveDistribute, DistOut
  <2>2. \A e \in DConns : duser'[e].key = duser[e].key
    BY <1>1, <2>1 DEF DistributeTypeOK, DUser
  <2> QED
    BY <1>1, <2>1, <2>2, NetSame
<1>3. CASE LoseDistribute(dc)
  <2>1. HasUser(dc) /\ Hangup(dc) /\ UNCHANGED duser
    BY <1>1, <1>3 DEF LoseDistribute, DConnLost, NetAgrees
  <2> QED
    BY <1>1, <2>1, NetSame
<1>4. CASE LeftDistribute(dc)
  <2>1. duser'[dc].key = 0 /\ dnet'[dc] = "free"
        /\ \A e \in DConns : e # dc => duser'[e] = duser[e] /\ dnet'[e] = dnet[e]
    BY <1>1, <1>4 DEF LeftDistribute, DDisconnected, NoDUser, DistributeTypeOK
  <2> QED
    BY <1>1, <2>1 DEF NetAgrees, HasUser
<1> QED
  BY <1>2, <1>3, <1>4

LEMMA NetStays ==
  ASSUME SInv, UNCHANGED distVars
  PROVE  NetAgrees'
BY DEF SInv, NetAgrees, distVars, HasUser

-----------------------------------------------------------------------------
(* Every step of the servers is a step of the service, or shows nothing. *)

(* The steps of the agents, their clients, the map servers. *)
AgentStep ==
  \/ \E d \in Dists, a \in Agents : DistToAgent(d, a)
  \/ \E c \in AConns : ConnectionOfAgent(c) \/ GoneFromAgent(c) \/ Reap(c) \/ ConnectAgent(c)
  \/ \E a \in Agents, u \in Users : MapToAgent(a, u)
  \/ \E c \in AConns, t \in acked : ShowTicket(c, t)

LEMMA OnDisconnectQuiet ==
  ASSUME AgentStep
  PROVE  UNCHANGED <<distVars, queries, results>> /\ acked' \cup spent' \subseteq acked \cup spent
<1>1. CASE \E d \in Dists, a \in Agents : DistToAgent(d, a)
  <2>1. PICK d \in Dists, a \in Agents : DistToAgent(d, a)
    BY <1>1
  <2>2. UNCHANGED <<distVars, acked, spent>>
    BY <2>1 DEF DistToAgent, clientVars
  <2>3. NotifyUserLoginSyn(d, a) => UNCHANGED <<queries, results>>
    BY DEF NotifyUserLoginSyn, dbVars
  <2>4. NotifyAlreadyOut(d, a) \/ DisconnectedDuringLogin(d, a) => UNCHANGED <<queries, results>>
    BY DEF NotifyAlreadyOut, DisconnectedDuringLogin
  <2>5. ForceDisconnectOverlapLogin(d, a) => UNCHANGED <<queries, results>>
    BY DEF ForceDisconnectOverlapLogin
  <2> QED
    BY <2>1, <2>2, <2>3, <2>4, <2>5 DEF DistToAgent
<1>2. CASE \E c \in AConns : ConnectionOfAgent(c) \/ GoneFromAgent(c) \/ Reap(c) \/ ConnectAgent(c)
  BY <1>2 DEF ConnectionOfAgent, AConnLost, ADrop, CharacterSelect, GoneFromAgent, ADisconnected,
     Reap, ReapUnconnected, ConnectAgent, AAccept, dbVars, clientVars
<1>3. CASE \E a \in Agents, u \in Users : MapToAgent(a, u)
  BY <1>3 DEF MapToAgent, BackToCharSel, LoginCheckDeleteFromMap, dbVars, clientVars
<1>4. CASE \E c \in AConns, t \in acked : ShowTicket(c, t)
  BY <1>4 DEF ShowTicket, CharacterlistSyn
<1> QED
  BY <1>1, <1>2, <1>3, <1>4 DEF AgentStep

LEMMA SInvNext ==
  ASSUME SInv, [Next]_vars
  PROVE  SInv' /\ [Service!Next]_Service!vars
<1>1. Inv'
  BY InvNext DEF SInv
<1>2. CASE ClientOfDist
  <2>1. PICK dc \in DConns :
          DAccept(dc) \/ (\E u \in Users : LoginSyn(dc, u)) \/ ForceOverlap(dc)
    BY <1>2 DEF ClientOfDist
  <2>2. UNCHANGED clientVars
    BY <1>2 DEF ClientOfDist
  <2> QED
    BY <1>1, <2>1, <2>2, NetClient, ServeDAccept, ServeLoginSyn, ServeForceOverlap DEF SInv
<1>3. CASE ResultOfDB
  <2>1. PICK r \in results : RLoginCheckQuery(r) \/ RIpCheckQuery(r)
    BY <1>3 DEF ResultOfDB
  <2>2. UNCHANGED clientVars
    BY <1>3 DEF ResultOfDB
  <2> QED
    BY <1>1, <2>1, <2>2, NetResult, ServeRLoginCheckQuery, ServeRIpCheckQuery DEF SInv
<1>4. CASE \E d \in Dists, a \in Agents : AnswerNotTaken(d, a) \/ TakeTicket(d, a)
  BY <1>1, <1>4, NetAnswer, ServeAnswerNotTaken, ServeTakeTicket DEF SInv
<1>5. CASE \E dc \in DConns : LeaveDistribute(dc) \/ LoseDistribute(dc) \/ LeftDistribute(dc)
  BY <1>1, <1>5, NetLeaving, ServeLeaving, ServeDDisconnected DEF SInv
<1>6. CASE AgentStep
  <2>1. UNCHANGED <<distVars, queries, results>> /\ acked' \cup spent' \subseteq acked \cup spent
    BY <1>6, OnDisconnectQuiet
  <2> QED
    BY <1>1, <2>1, NetStays, ServeAgent DEF SInv
<1>7. CASE DatabaseStep
  <2>1. UNCHANGED distVars
    BY <1>7 DEF DatabaseStep
  <2> QED
    BY <1>1, <1>7, <2>1, NetStays, ServeDatabase DEF SInv
<1>8. CASE UNCHANGED vars
  <2>1. UNCHANGED <<distVars, queries, results>> /\ acked' \cup spent' \subseteq acked \cup spent
    BY <1>8 DEF vars, dbVars, clientVars
  <2> QED
    BY <1>1, <2>1, NetStays, ServeAgent DEF SInv
<1> QED
  BY <1>2, <1>3, <1>4, <1>5, <1>6, <1>7, <1>8 DEF Next, AgentStep

LEMMA SInvInit ==
  ASSUME Init
  PROVE  SInv /\ Service!Init
<1>1. Inv
  BY TypeInit, OrderInit DEF Inv
<1>2. \A dc \in DConns : ~HasUser(dc) /\ duser[dc].key = 0 /\ dnet[dc] = "free"
  BY DEF Init, DistributeInit, HasUser, NoDUser
<1>3. NetAgrees
  BY <1>2 DEF NetAgrees
<1>4. KeysSeen = [c \in DConns |-> 0] /\ LoginsSeen = [c \in DConns |-> "none"]
      /\ AskedSeen = [c \in DConns |-> {}] /\ AccountsSeen = [c \in DConns |-> NoUser]
  BY <1>2 DEF KeysSeen, LoginsSeen, AskedSeen, AccountsSeen, LoginAt, AskedFor, AccountOf, Granted
<1>5. TicketsSeen = {} /\ nextKey = [d \in Dists |-> 1]
  BY DEF Init, DistributeInit, TicketsSeen
<1> QED
  BY <1>1, <1>3, <1>4, <1>5 DEF SInv, Service!Init

(* Whatever messages, queries, results and broken connections are under    *)
(* way, what the clients see of the login servers is a behaviour of        *)
(* LoginService.                                                           *)
THEOREM LoginsAreServed == Spec => ImplementsService
<1>1. Init => SInv /\ Service!Init
  BY SInvInit
<1>2. SInv /\ [Next]_vars => SInv' /\ [Service!Next]_Service!vars
  BY SInvNext
<1> QED
  BY <1>1, <1>2, PTL DEF Spec, ImplementsService, Service!Spec

-----------------------------------------------------------------------------
(* Who removes a login row.                                                *)
(*                                                                         *)
(* A client whose ticket is under way will leave without logging its       *)
(* account out: the session the ticket is for answers for the row, not it. *)
NotAcked(dc) ==
  \A d \in Dists, a \in Agents : \A i \in 1..Len(toDist[a][d]) :
    toDist[a][d][i].type = "userlogin_ack" => ~Current(dc, toDist[a][d][i])

GrantOf(u) == \E r \in results : r.type = "login" /\ r.user = u /\ r.state = "ok"
HeldBy(dc, u) == duser[dc].user = u /\ duser[dc].del /\ NotAcked(dc)
HeldAt(a, u) == userTab[a][u] # NoSlot \/ mapOut[a][u] > 0

RowHeld(u) ==
  \/ deletes[u] > 0
  \/ GrantOf(u)
  \/ \E dc \in DConns : HeldBy(dc, u)
  \/ \E a \in Agents : HeldAt(a, u)

RowsHeld == \A u \in Users : row[u] => RowHeld(u)

Vacant == \A dc \in DConns : ~HasUser(dc) => ~duser[dc].del

RInv == SInv /\ Vacant /\ RowsHeld

LEMMA RowHeldAccountable ==
  ASSUME RowsHeld
  PROVE  NoOrphanRow
BY DEF RowsHeld, RowHeld, GrantOf, HeldBy, HeldAt, NoOrphanRow, Accountable, InTransit

(* No logout is forgotten, and what an agent is to log out it logs out     *)
(* itself or keeps.                                                        *)
DeletesKept == \A u \in Users : deletes[u] > 0 => deletes'[u] > 0
AgentsHold == \A u \in Users : \A a \in Agents : HeldAt(a, u) => HeldAt(a, u)' \/ deletes'[u] > 0

LEMMA DeleteAsked ==
  ASSUME TypeOK, NEW u \in Users, LoginCheckDelete(u)
  PROVE  DeletesKept /\ deletes'[u] > 0
<1>1. deletes \in [Users -> Nat]
  BY DEF TypeOK, WiresTypeOK
<1>2. \A v \in Users : deletes[v] \in Nat /\ deletes'[v] = IF v = u THEN deletes[v] + 1 ELSE deletes[v]
  BY <1>1 DEF LoginCheckDelete
<1> QED
  BY <1>2 DEF DeletesKept

LEMMA EntryCleared ==
  ASSUME TypeOK, NEW a \in Agents, NEW s \in Slots, NEW u, FreeSession(a, s, u),
         UNCHANGED mapOut, u \in Users => deletes'[u] > 0
  PROVE  AgentsHold
<1>1. userTab \in [Agents -> [Users -> Slots \cup {NoSlot}]]
  BY DEF TypeOK, AgentTypeOK
<1>2. \A b \in Agents, v \in Users : v # u \/ b # a => userTab'[b][v] = userTab[b][v]
  BY <1>1 DEF FreeSession
<1>3. SUFFICES ASSUME NEW v \in Users, NEW b \in Agents, HeldAt(b, v)
               PROVE  HeldAt(b, v)' \/ deletes'[v] > 0
  BY DEF AgentsHold
<1>4. CASE v = u
  BY <1>4
<1>5. CASE v # u
  BY <1>2, <1>3, <1>5 DEF HeldAt
<1> QED
  BY <1>4, <1>5

LEMMA HoldOnDisconnect ==
  ASSUME TypeOK, NEW c \in AConns, OnDisconnectUser(c)
  PROVE  DeletesKept /\ AgentsHold
<1> DEFINE a == AgentOf[c]
           s == connTab[c]
           r == slots[a][s]
<1>1. a \in Agents
  BY WiresAssumption
<1>2. CASE s = NoSlot
  <2>1. UNCHANGED <<userTab, mapOut, deletes>>
    BY <1>2 DEF OnDisconnectUser
  <2> QED
    BY <2>1 DEF DeletesKept, AgentsHold, HeldAt
<1>3. CASE s # NoSlot
  <2>1. s \in Slots
    BY <1>3 DEF TypeOK, AgentTypeOK
  <2>2. FreeSession(a, s, r.user)
    BY <1>3 DEF OnDisconnectUser
  <2>3. userTab \in [Agents -> [Users -> Slots \cup {NoSlot}]] /\ mapOut \in [Agents -> [Users -> Nat]]
    BY DEF TypeOK, AgentTypeOK
  <2>4. CASE r.char /\ mapOut' = [mapOut EXCEPT ![a][r.user] = @ + 1] /\ UNCHANGED deletes
    <3>1. \A b \in Agents, v \in Users :
            IF b = a /\ v = r.user THEN mapOut'[b][v] = mapOut[b][v] + 1
            ELSE mapOut'[b][v] = mapOut[b][v]
      BY <1>1, <2>3, <2>4
    <3>2. \A b \in Agents, v \in Users : b # a \/ v # r.user => userTab'[b][v] = userTab[b][v]
      BY <1>1, <2>2, <2>3 DEF FreeSession
    <3>3. \A b \in Agents, v \in Users : mapOut[b][v] \in Nat
      BY <2>3
    <3>4. AgentsHold
      BY <3>1, <3>2, <3>3 DEF AgentsHold, HeldAt
    <3> QED
      BY <2>4, <3>4 DEF DeletesKept
  <2>5. CASE r.user # NoUser /\ LoginCheckDelete(r.user) /\ UNCHANGED mapOut
    <3>1. r.user \in Users
      BY <1>1, <2>1, <2>5 DEF TypeOK, AgentTypeOK, Info
    <3> QED
      BY <1>1, <2>1, <2>2, <2>5, <3>1, DeleteAsked, EntryCleared
  <2>6. CASE r.user = NoUser /\ UNCHANGED <<deletes, mapOut>>
    <3>1. r.user \notin Users
      BY <2>6, WiresAssumption
    <3> QED
      BY <1>1, <2>1, <2>2, <2>6, <3>1, EntryCleared DEF DeletesKept
  <2> QED
    BY <1>3, <2>4, <2>5, <2>6 DEF OnDisconnectUser
<1> QED
  BY <1>2, <1>3

LEMMA HoldDropAccount ==
  ASSUME TypeOK, NEW a \in Agents, NEW u \in Users, userTab[a][u] # NoSlot, DropAccount(a, u),
         UNCHANGED mapOut
  PROVE  DeletesKept /\ AgentsHold
<1>1. userTab[a][u] \in Slots
  BY DEF TypeOK, AgentTypeOK
<1>2. LoginCheckDelete(u) /\ FreeSession(a, userTab[a][u], u)
  BY DEF DropAccount
<1> QED
  BY <1>1, <1>2, DeleteAsked, EntryCleared

LEMMA HoldReap ==
  ASSUME TypeOK, NEW c \in AConns, ReapUnconnected(c)
  PROVE  DeletesKept /\ AgentsHold
<1> DEFINE a == AgentOf[c]
           s == connTab[c]
           u == slots[a][s].user
<1>1. a \in Agents /\ s \in Slots
  BY WiresAssumption DEF TypeOK, AgentTypeOK, ReapUnconnected
<1>2. FreeSession(a, s, u) /\ UNCHANGED mapOut
  BY DEF ReapUnconnected
<1>3. CASE u \in Users
  <2>1. LoginCheckDelete(u)
    BY <1>3 DEF ReapUnconnected
  <2> QED
    BY <1>1, <1>2, <1>3, <2>1, DeleteAsked, EntryCleared
<1>4. CASE u \notin Users
  <2>1. UNCHANGED deletes
    BY <1>4 DEF ReapUnconnected
  <2> QED
    BY <1>1, <1>2, <1>4, <2>1, EntryCleared DEF DeletesKept
<1> QED
  BY <1>3, <1>4

LEMMA HoldMapToAgent ==
  ASSUME TypeOK, NEW a \in Agents, NEW u \in Users, BackToCharSel(a, u) \/ LoginCheckDeleteFromMap(a, u)
  PROVE  DeletesKept /\ AgentsHold
<1>1. CASE BackToCharSel(a, u)
  <2>1. UNCHANGED <<userTab, mapOut, deletes>>
    BY <1>1 DEF BackToCharSel, dbVars
  <2> QED
    BY <2>1 DEF DeletesKept, AgentsHold, HeldAt
<1>2. CASE LoginCheckDeleteFromMap(a, u)
  <2>1. mapOut \in [Agents -> [Users -> Nat]] /\ UNCHANGED userTab
    BY <1>2 DEF TypeOK, AgentTypeOK, LoginCheckDeleteFromMap
  <2>2. \A b \in Agents, v \in Users : b # a \/ v # u => mapOut'[b][v] = mapOut[b][v]
    BY <1>2, <2>1 DEF LoginCheckDeleteFromMap
  <2>3. DeletesKept /\ (userTab[a][u] # NoSlot \/ deletes'[u] > 0)
    BY <1>2, DeleteAsked DEF LoginCheckDeleteFromMap, DeletesKept
  <2> QED
    BY <2>1, <2>2, <2>3 DEF AgentsHold, HeldAt
<1> QED
  BY <1>1, <1>2

LEMMA StaysNotAcked ==
  ASSUME NEW ns, AnswersFrom(ns), NEW dc \in DConns, duser'[dc].key = duser[dc].key, NotAcked(dc),
         \A n \in ns : n.type = "userlogin_ack" => ~Current(dc, n)
  PROVE  NotAcked(dc)'
<1>1. SUFFICES ASSUME NEW d \in Dists, NEW a \in Agents, NEW i \in 1..Len(toDist'[a][d]),
                      toDist'[a][d][i].type = "userlogin_ack"
               PROVE  ~(toDist'[a][d][i].dc = dc /\ toDist'[a][d][i].key = duser'[dc].key)
  BY DEF NotAcked, Current
<1>2. toDist'[a][d][i] \in ns \/ \E j \in 1..Len(toDist[a][d]) : toDist'[a][d][i] = toDist[a][d][j]
  BY DEF AnswersFrom
<1> QED
  BY <1>1, <1>2 DEF NotAcked, Current

Reserves(a, m) ==
  /\ \A b \in Agents, v \in Users : userTab[b][v] # NoSlot => userTab'[b][v] # NoSlot
  /\ \A dc \in DConns : NotAcked(dc) =>
       NotAcked(dc)' \/ (Current(dc, m) /\ userTab'[a][m.user] # NoSlot)

(* The answer of a reservation; every other answer promises nothing. *)
LEMMA HoldNotify ==
  ASSUME RInv, NEW d \in Dists, NEW a \in Agents, NotifyUserLoginSyn(d, a), UNCHANGED distVars
  PROVE  /\ DeletesKept /\ AgentsHold
         /\ \A u \in Users, dc \in DConns : HeldBy(dc, u) => HeldBy(dc, u)' \/ HeldAt(a, u)'
<1> DEFINE m == Head(toAgent[d][a])
           s == userTab[a][m.user]
<1>1. TypeOK /\ LoginInOrder
  BY DEF RInv, SInv, Inv
<1>2. toAgent[d][a] # <<>> /\ m.type = "userlogin_syn" /\ UNCHANGED <<mapOut, deletes, duser>>
  BY DEF NotifyUserLoginSyn, AReceives, dbVars, distVars
<1>3. m \in ToAgentMsg /\ m.user \in Users /\ m.key \in Nat /\ m.dc \in DConns
  BY <1>1, <1>2, HeadToAgent, ToAgentFields
<1>4. /\ userTab \in [Agents -> [Users -> Slots \cup {NoSlot}]]
      /\ nextAKey[a] \in Nat /\ free[a] \subseteq Slots
  BY <1>1 DEF TypeOK, AgentTypeOK
<1>5. DeletesKept
  BY <1>2 DEF DeletesKept
<1>6. ASSUME Reserves(a, m)
      PROVE  /\ AgentsHold
             /\ \A u \in Users, dc \in DConns : HeldBy(dc, u) => HeldBy(dc, u)' \/ HeldAt(a, u)'
  <2>1. AgentsHold
    BY <1>2, <1>6 DEF AgentsHold, HeldAt, Reserves
  <2>2. ASSUME NEW u \in Users, NEW dc \in DConns, HeldBy(dc, u), ~HeldBy(dc, u)'
        PROVE  HeldAt(a, u)'
    <3>1. Current(dc, m) /\ userTab'[a][m.user] # NoSlot
      BY <1>2, <1>6, <2>2 DEF HeldBy, Reserves
    <3>2. Admitted(dc, m.user)
      <4>1. toAgent[d][a] \in Seq(ToAgentMsg)
        BY <1>1 DEF TypeOK, WiresTypeOK
      <4>2. 1 \in 1..Len(toAgent[d][a]) /\ m = toAgent[d][a][1]
        BY <1>2, <4>1
      <4>3. SynOf(dc, toAgent[d][a][1])
        BY <1>2, <3>1, <4>2 DEF SynOf
      <4> QED
        BY <1>1, <4>2, <4>3 DEF LoginInOrder, InOrder, StateAgrees
    <3> QED
      BY <2>2, <3>1, <3>2 DEF HeldBy, Admitted, HeldAt
  <2> QED
    BY <2>1, <2>2
<1>7. ASSUME UNCHANGED <<userTab, toDist>>
      PROVE  Reserves(a, m)
  BY <1>2, <1>7 DEF NotAcked, Current, Reserves
<1>8. ASSUME UNCHANGED userTab, SendToDist(a, d, UserLoginNack(m.user, m.key, m.dc))
      PROVE  Reserves(a, m)
  <2> DEFINE n == UserLoginNack(m.user, m.key, m.dc)
  <2>1. n \in ToDistMsg /\ n.type # "userlogin_ack"
    BY <1>3 DEF UserLoginNack, ToDistMsg
  <2>2. AnswersFrom({n})
    BY <1>1, <1>8, <2>1, ToDistSent
  <2> HIDE DEF n
  <2>3. \A dc \in DConns : NotAcked(dc) => NotAcked(dc)'
    BY <1>2, <2>1, <2>2, StaysNotAcked
  <2> QED
    BY <1>8, <2>3 DEF Reserves
<1>9. ASSUME NEW t \in Slots, userTab' = [userTab EXCEPT ![a][m.user] = t],
             SendToDist(a, d, UserLoginAck(m.user, m.key, nextAKey[a], m.dc))
      PROVE  Reserves(a, m)
  <2> DEFINE n == UserLoginAck(m.user, m.key, nextAKey[a], m.dc)
  <2>1. \A b \in Agents, v \in Users :
          userTab'[b][v] = IF b = a /\ v = m.user THEN t ELSE userTab[b][v]
    BY <1>3, <1>4, <1>9
  <2>2. n \in ToDistMsg /\ n.key = m.key /\ n.dc = m.dc
    BY <1>3, <1>4 DEF UserLoginAck, ToDistMsg
  <2>3. AnswersFrom({n})
    BY <1>1, <1>9, <2>2, ToDistSent
  <2> HIDE DEF n
  <2>4. \A dc \in DConns : NotAcked(dc) => NotAcked(dc)' \/ Current(dc, m)
    BY <1>2, <2>2, <2>3, StaysNotAcked DEF Current
  <2> QED
    BY <1>3, <2>1, <2>4, AgentAssumption DEF Reserves
<1>10. s # NoSlot => s \in Slots
  BY <1>3, <1>4
<1>11. \/ UNCHANGED <<userTab, toDist>>
       \/ UNCHANGED userTab /\ SendToDist(a, d, UserLoginNack(m.user, m.key, m.dc))
       \/ \E t \in Slots : /\ userTab' = [userTab EXCEPT ![a][m.user] = t]
                           /\ SendToDist(a, d, UserLoginAck(m.user, m.key, nextAKey[a], m.dc))
  BY <1>4, <1>10 DEF NotifyUserLoginSyn, Reserve
<1>12. Reserves(a, m)
  BY <1>7, <1>8, <1>9, <1>11
<1> QED
  BY <1>5, <1>6, <1>12

LEMMA HoldDistToAgent ==
  ASSUME RInv, NEW d \in Dists, NEW a \in Agents, DistToAgent(d, a)
  PROVE  /\ DeletesKept /\ AgentsHold
         /\ \A u \in Users, dc \in DConns : HeldBy(dc, u) => HeldBy(dc, u)' \/ HeldAt(a, u)'
<1> DEFINE m == Head(toAgent[d][a])
           s == userTab[a][m.user]
<1>1. TypeOK
  BY DEF RInv, SInv, Inv
<1>2. UNCHANGED duser
  BY DEF DistToAgent, distVars
<1>3. ASSUME UNCHANGED toDist
      PROVE  \A u \in Users, dc \in DConns : HeldBy(dc, u) => HeldBy(dc, u)'
  BY <1>2, <1>3 DEF HeldBy, NotAcked, Current
<1>4. CASE NotifyUserLoginSyn(d, a)
  BY <1>4, HoldNotify DEF DistToAgent
<1>5. CASE NotifyAlreadyOut(d, a) \/ DisconnectedDuringLogin(d, a)
  <2>1. /\ toAgent[d][a] # <<>> /\ UNCHANGED <<mapOut, toDist>>
        /\ (s # NoSlot /\ DropAccount(a, m.user)) \/ UNCHANGED <<userTab, deletes>>
    BY <1>5 DEF NotifyAlreadyOut, DisconnectedDuringLogin, AReceives
  <2>2. m.user \in Users
    BY <1>1, <2>1, HeadToAgent, ToAgentFields
  <2>3. CASE s # NoSlot /\ DropAccount(a, m.user)
    BY <1>1, <1>3, <2>1, <2>2, <2>3, HoldDropAccount
  <2>4. CASE UNCHANGED <<userTab, deletes>>
    BY <1>3, <2>1, <2>4 DEF DeletesKept, AgentsHold, HeldAt
  <2> QED
    BY <2>1, <2>3, <2>4
<1>6. CASE ForceDisconnectOverlapLogin(d, a)
  <2>1. toAgent[d][a] # <<>> /\ UNCHANGED toDist
    BY <1>6 DEF ForceDisconnectOverlapLogin, AReceives
  <2>2. m.user \in Users
    BY <1>1, <2>1, HeadToAgent, ToAgentFields
  <2>3. CASE UNCHANGED <<userTab, mapOut, deletes>>
    BY <1>3, <2>1, <2>3 DEF DeletesKept, AgentsHold, HeldAt
  <2>4. CASE s # NoSlot /\ DropAccount(a, m.user) /\ UNCHANGED mapOut
    BY <1>1, <1>3, <2>1, <2>2, <2>4, HoldDropAccount
  <2>5. CASE s # NoSlot /\ slots[a][s].conn # NoConn /\ OnDisconnectUser(slots[a][s].conn)
    <3>1. s \in Slots
      <4>1. s \in Slots \cup {NoSlot}
        BY <1>1, <2>2 DEF TypeOK, AgentTypeOK
      <4> QED
        BY <2>5, <4>1
    <3>2. slots[a][s] \in Info
      BY <1>1, <3>1 DEF TypeOK, AgentTypeOK
    <3>3. slots[a][s].conn \in AConns
      BY <2>5, <3>2 DEF Info
    <3> QED
      BY <1>1, <1>3, <2>1, <2>5, <3>3, HoldOnDisconnect
  <2> QED
    BY <1>6, <2>3, <2>4, <2>5 DEF ForceDisconnectOverlapLogin
<1> QED
  BY <1>4, <1>5, <1>6 DEF DistToAgent

LEMMA HoldAgentStep ==
  ASSUME RInv, AgentStep
  PROVE  /\ DeletesKept /\ AgentsHold
         /\ \A u \in Users, dc \in DConns :
              HeldBy(dc, u) => HeldBy(dc, u)' \/ \E a \in Agents : HeldAt(a, u)'
<1>1. TypeOK
  BY DEF RInv, SInv, Inv
<1>2. UNCHANGED duser
  BY OnDisconnectQuiet DEF distVars
<1>3. ASSUME UNCHANGED toDist
      PROVE  \A u \in Users, dc \in DConns : HeldBy(dc, u) => HeldBy(dc, u)'
  BY <1>2, <1>3 DEF HeldBy, NotAcked, Current
<1>4. ASSUME UNCHANGED <<userTab, mapOut, deletes>>
      PROVE  DeletesKept /\ AgentsHold
  BY <1>4 DEF DeletesKept, AgentsHold, HeldAt
<1>5. CASE \E d \in Dists, a \in Agents : DistToAgent(d, a)
  BY <1>5, HoldDistToAgent
<1>6. CASE \E c \in AConns : ConnectionOfAgent(c) \/ GoneFromAgent(c) \/ Reap(c) \/ ConnectAgent(c)
  <2>1. PICK c \in AConns : ConnectionOfAgent(c) \/ GoneFromAgent(c) \/ Reap(c) \/ ConnectAgent(c)
    BY <1>6
  <2>2. CASE AConnLost(c) \/ CharacterSelect(c) \/ AAccept(c)
    <3>1. UNCHANGED <<userTab, mapOut, deletes, toDist>>
      BY <2>2 DEF AConnLost, CharacterSelect, AAccept, dbVars, linkVars
    <3> QED
      BY <1>3, <1>4, <3>1
  <2>3. CASE ADrop(c) \/ ADisconnected(c)
    <3>1. OnDisconnectUser(c) /\ UNCHANGED toDist
      BY <2>3 DEF ADrop, ADisconnected, linkVars
    <3> QED
      BY <1>1, <1>3, <3>1, HoldOnDisconnect
  <2>4. CASE ReapUnconnected(c)
    <3>1. UNCHANGED toDist
      BY <2>4 DEF ReapUnconnected, linkVars
    <3> QED
      BY <1>1, <1>3, <2>4, <3>1, HoldReap
  <2> QED
    BY <2>1, <2>2, <2>3, <2>4 DEF ConnectionOfAgent, GoneFromAgent, Reap, ConnectAgent
<1>7. CASE \E a \in Agents, u \in Users : MapToAgent(a, u)
  <2>1. PICK a \in Agents, u \in Users : BackToCharSel(a, u) \/ LoginCheckDeleteFromMap(a, u)
    BY <1>7 DEF MapToAgent
  <2>2. UNCHANGED toDist
    BY <2>1 DEF BackToCharSel, LoginCheckDeleteFromMap, linkVars
  <2> QED
    BY <1>1, <1>3, <2>1, <2>2, HoldMapToAgent
<1>8. CASE \E c \in AConns, t \in acked : ShowTicket(c, t)
  <2>1. PICK c \in AConns, t \in acked : CharacterlistSyn(c, t.user, t.key)
    BY <1>8 DEF ShowTicket
  <2>2. UNCHANGED toDist /\ (OnDisconnectUser(c) \/ UNCHANGED <<userTab, mapOut, deletes>>)
    BY <2>1 DEF CharacterlistSyn, linkVars
  <2> QED
    BY <1>1, <1>3, <1>4, <2>2, HoldOnDisconnect
<1> QED
  BY <1>5, <1>6, <1>7, <1>8 DEF AgentStep

(* What a step must do for the rows: keep what held them, or hold them     *)
(* otherwise.                                                              *)
LEMMA RowsKept ==
  ASSUME RInv,
         \A u \in Users : row'[u] => row[u] \/ GrantOf(u)',
         \A u \in Users : deletes[u] > 0 => deletes'[u] > 0 \/ ~row'[u],
         \A u \in Users : GrantOf(u) => RowHeld(u)',
         \A u \in Users, dc \in DConns : HeldBy(dc, u) => RowHeld(u)',
         AgentsHold
  PROVE  RowsHeld'
<1>1. SUFFICES ASSUME NEW u \in Users, row'[u]
               PROVE  RowHeld(u)'
  BY DEF RowsHeld
<1>2. CASE GrantOf(u)'
  BY <1>2 DEF RowHeld
<1>3. CASE row[u]
  <2>1. RowHeld(u)
    BY <1>3 DEF RInv, RowsHeld
  <2>2. ASSUME NEW a \in Agents, HeldAt(a, u)
        PROVE  RowHeld(u)'
    BY <2>2 DEF AgentsHold, RowHeld
  <2>3. deletes[u] > 0 => RowHeld(u)'
    BY <1>1 DEF RowHeld
  <2> QED
    BY <2>1, <2>2, <2>3 DEF RowHeld
<1> QED
  BY <1>1, <1>2, <1>3

LEMMA RowsQuiet ==
  ASSUME RInv, UNCHANGED <<row, userTab, mapOut>>, DeletesKept,
         \A u \in Users : GrantOf(u) => RowHeld(u)',
         \A u \in Users, dc \in DConns : HeldBy(dc, u) => RowHeld(u)'
  PROVE  RowsHeld'
<1>1. AgentsHold
  BY DEF AgentsHold, HeldAt
<1> QED
  BY <1>1, RowsKept DEF DeletesKept

LEMMA HolderStays ==
  ASSUME NEW dc \in DConns, NEW u, HeldBy(dc, u), UNCHANGED toDist,
         duser'[dc].key = duser[dc].key, duser'[dc].user = duser[dc].user,
         duser'[dc].del = duser[dc].del
  PROVE  RowHeld(u)'
<1>1. HeldBy(dc, u)'
  BY DEF HeldBy, NotAcked, Current
<1> QED
  BY <1>1 DEF RowHeld

LEMMA RowsClient ==
  ASSUME RInv, NEW dc \in DConns, UNCHANGED agentVars,
         DAccept(dc) \/ (\E u \in Users : LoginSyn(dc, u)) \/ ForceOverlap(dc)
           \/ DistOut(dc) \/ DConnLost(dc)
  PROVE  Vacant' /\ RowsHeld'
<1>1. TypeOK /\ NetAgrees /\ Vacant
  BY DEF RInv, SInv, Inv
<1>2. duser \in [DConns -> DUser] /\ UNCHANGED <<row, results, toDist, userTab, mapOut>>
  BY <1>1 DEF TypeOK, DistributeTypeOK, agentVars, DAccept, LoginSyn, ForceOverlap, DistOut, DConnLost,
     dbVars, linkVars
<1>3. DeletesKept
  <2>1. UNCHANGED deletes => DeletesKept
    BY DEF DeletesKept
  <2>2. ForceOverlap(dc) => DeletesKept
    <3>1. duser[dc].user \in Users \cup {NoUser}
      BY <1>2 DEF DUser
    <3> QED
      BY <1>1, <2>1, <3>1, DeleteAsked DEF ForceOverlap
  <2>3. ~ForceOverlap(dc) => UNCHANGED deletes
    BY DEF DAccept, LoginSyn, DistOut, DConnLost, dbVars
  <2> QED
    BY <2>1, <2>2, <2>3
<1>4. \A u \in Users : GrantOf(u) => RowHeld(u)'
  BY <1>2 DEF GrantOf, RowHeld
<1>5. \A e \in DConns : SameUser(e) \/ (~duser[e].del /\ ~duser'[e].del)
  <2>1. CASE DAccept(dc)
    <3>1. \A e \in DConns : e # dc => duser'[e] = duser[e]
      BY <1>2, <2>1 DEF DAccept
    <3>2. ~duser[dc].del
      BY <1>1, <2>1 DEF DAccept, NetAgrees, Vacant
    <3>3. ~duser'[dc].del
      BY <1>2, <2>1 DEF DAccept, NoDUser
    <3> QED
      BY <3>1, <3>2, <3>3 DEF SameUser
  <2>2. CASE DistOut(dc)
    BY <1>2, <2>2 DEF DistOut, SameUser, DUser
  <2>3. CASE ~DAccept(dc) /\ ~DistOut(dc)
    <3>1. UNCHANGED duser
      BY <2>3 DEF LoginSyn, ForceOverlap, DConnLost
    <3> QED
      BY <3>1 DEF SameUser
  <2> QED
    BY <2>1, <2>2, <2>3
<1>6. Vacant'
  BY <1>1, <1>5 DEF Vacant, SameUser, HasUser
<1>7. \A u \in Users, e \in DConns : HeldBy(e, u) => RowHeld(u)'
  <2>1. \A u \in Users, e \in DConns : HeldBy(e, u) => SameUser(e)
    BY <1>5 DEF HeldBy
  <2> QED
    BY <1>2, <2>1, HolderStays DEF SameUser
<1> QED
  BY <1>2, <1>3, <1>4, <1>6, <1>7, RowsQuiet

LEMMA RowsDDisconnected ==
  ASSUME RInv, NEW dc \in DConns, DDisconnected(dc), UNCHANGED agentVars
  PROVE  Vacant' /\ RowsHeld'
<1> DEFINE r == duser[dc]
<1>1. TypeOK /\ Vacant
  BY DEF RInv, SInv, Inv
<1>2. duser \in [DConns -> DUser] /\ UNCHANGED <<row, results, toDist, userTab, mapOut>>
  BY <1>1 DEF TypeOK, DistributeTypeOK, agentVars, DDisconnected
<1>3. r.user \in Users \cup {NoUser}
  BY <1>2 DEF DUser
<1>4. \A e \in DConns : duser'[e] = IF e = dc THEN NoDUser ELSE duser[e]
  BY <1>2 DEF DDisconnected
<1>5. Vacant'
  BY <1>1, <1>4 DEF Vacant, HasUser, NoDUser
<1>6. DeletesKept /\ (r.del /\ r.user # NoUser => deletes'[r.user] > 0)
  BY <1>1, <1>3, DeleteAsked DEF DDisconnected, DeletesKept
<1>7. \A u \in Users : GrantOf(u) => RowHeld(u)'
  BY <1>2 DEF GrantOf, RowHeld
<1>8. ASSUME NEW u \in Users, NEW e \in DConns, HeldBy(e, u)
      PROVE  RowHeld(u)'
  <2>1. CASE e = dc
    BY <1>6, <1>8, <2>1, WiresAssumption DEF HeldBy, RowHeld
  <2>2. CASE e # dc
    BY <1>2, <1>4, <1>8, <2>2, HolderStays
  <2> QED
    BY <2>1, <2>2
<1> QED
  BY <1>2, <1>5, <1>6, <1>7, <1>8, RowsQuiet

(* A result that does not note anything is dropped with its grant only     *)
(* when the account is logged out.                                         *)
LEMMA RowsResult ==
  ASSUME ~CrcMayFail, RInv, NEW r \in results, RLoginCheckQuery(r), UNCHANGED agentVars
  PROVE  Vacant' /\ RowsHeld'
<1>1. TypeOK /\ LoginInOrder /\ Vacant
  BY DEF RInv, SInv, Inv
<1>2. /\ duser \in [DConns -> DUser] /\ r.type = "login" /\ results' = results \ {r}
      /\ UNCHANGED <<row, userTab, mapOut>> /\ UNCHANGED toDist
  BY <1>1 DEF TypeOK, DistributeTypeOK, agentVars, RLoginCheckQuery, StaleLogin, CrcFailed,
     LoginAdmitted, LoginTurnedDown, linkVars
<1>3. r.dc \in DConns /\ r.user \in Users
  BY <1>1, <1>2 DEF TypeOK, WiresTypeOK, Result
<1>4. \A u \in Users : GrantOf(u) => GrantOf(u)' \/ (u = r.user /\ r.state = "ok")
  BY <1>2 DEF GrantOf
<1>5. CASE StaleLogin(r)
  <2>1. UNCHANGED duser
    BY <1>5 DEF StaleLogin, distVars
  <2>2. DeletesKept /\ (r.state = "ok" => deletes'[r.user] > 0)
    BY <1>1, <1>3, <1>5, DeleteAsked DEF StaleLogin, DeletesKept
  <2>3. \A u \in Users : GrantOf(u) => RowHeld(u)'
    BY <1>4, <2>2 DEF RowHeld
  <2>4. \A u \in Users, e \in DConns : HeldBy(e, u) => RowHeld(u)'
    BY <1>2, <2>1, HolderStays
  <2>5. Vacant'
    BY <1>1, <2>1 DEF Vacant, HasUser
  <2> QED
    BY <1>2, <2>2, <2>3, <2>4, <2>5, RowsQuiet
<1>6. CASE LoginAdmitted(r) \/ LoginTurnedDown(r)
  <2>1. Matches(r.dc, r.key) /\ duser' = [duser EXCEPT ![r.dc] = Noted(r)] /\ UNCHANGED deletes
    BY <1>6 DEF LoginAdmitted, LoginTurnedDown
  <2>2. /\ \A e \in DConns : duser'[e].key = duser[e].key
        /\ \A e \in DConns : e # r.dc => duser'[e] = duser[e]
        /\ duser'[r.dc].user = r.user
        /\ duser'[r.dc].del = IF r.state = "ok" THEN TRUE ELSE duser[r.dc].del
    BY <1>1, <1>2, <2>1, NotedKeeps
  <2>3. InOrder(r.dc) /\ LoginOf(r.dc, r)
    BY <1>1, <1>2, <1>3, <2>1 DEF LoginInOrder, LoginOf, Current, Matches
  <2>4. duser[r.dc].state # "ok" /\ ~duser[r.dc].del
    BY <2>3 DEF InOrder, StateAgrees
  <2>5. NotAcked(r.dc)
    BY <2>3, <2>4, Exclusive, <1>3 DEF NoAnswer, NotAcked
  <2>6. NotAcked(r.dc)'
    BY <1>2, <1>3, <2>2, <2>5 DEF NotAcked, Current
  <2>7. r.state = "ok" => RowHeld(r.user)'
    BY <1>3, <2>2, <2>6 DEF RowHeld, HeldBy
  <2>8. \A u \in Users : GrantOf(u) => RowHeld(u)'
    BY <1>4, <2>7 DEF RowHeld
  <2>9. \A u \in Users, e \in DConns : HeldBy(e, u) => RowHeld(u)'
    <3>1. \A u \in Users, e \in DConns : HeldBy(e, u) => e # r.dc
      BY <2>4 DEF HeldBy
    <3> QED
      BY <1>2, <2>2, <3>1, HolderStays
  <2>10. Vacant'
    BY <1>1, <2>1, <2>2 DEF Vacant, HasUser, Matches
  <2>11. DeletesKept
    BY <2>1 DEF DeletesKept
  <2> QED
    BY <1>2, <2>8, <2>9, <2>10, <2>11, RowsQuiet
<1> QED
  BY <1>5, <1>6 DEF RLoginCheckQuery, CrcFailed

LEMMA RowsIpResult ==
  ASSUME RInv, NEW r \in results, RIpCheckQuery(r), UNCHANGED agentVars
  PROVE  Vacant' /\ RowsHeld'
<1>1. UNCHANGED <<row, userTab, mapOut, duser, toDist, deletes>> /\ results' = results \ {r} /\ r.type = "ip"
  BY DEF RIpCheckQuery, agentVars
<1>2. Vacant' /\ DeletesKept
  BY <1>1 DEF RInv, Vacant, HasUser, DeletesKept
<1>3. \A u \in Users : GrantOf(u) => RowHeld(u)'
  BY <1>1 DEF GrantOf, RowHeld
<1>4. \A u \in Users, e \in DConns : HeldBy(e, u) => RowHeld(u)'
  BY <1>1, HolderStays
<1> QED
  BY <1>1, <1>2, <1>3, <1>4, RowsQuiet

LEMMA RowsAnswer ==
  ASSUME RInv, NEW d \in Dists, NEW a \in Agents, UNCHANGED agentVars,
         AckTooLate(d, a) \/ NackDelivered(d, a) \/ AckDelivered(d, a)
  PROVE  Vacant' /\ RowsHeld'
<1> DEFINE m == Head(toDist[a][d])
<1>1. TypeOK /\ Vacant
  BY DEF RInv, SInv, Inv
<1>2. /\ UNCHANGED <<row, userTab, mapOut, deletes, results>>
      /\ toDist[a][d] # <<>> /\ AnswersFrom({})
  BY <1>1, ToDistTaken DEF AckTooLate, NackDelivered, AckDelivered, agentVars, dbVars, Receives
<1>3. m \in ToDistMsg /\ m.dc \in DConns
  BY <1>1, <1>2, HeadToDist, ToDistFields
<1>4. DeletesKept /\ \A u \in Users : GrantOf(u) => RowHeld(u)'
  BY <1>2 DEF DeletesKept, GrantOf, RowHeld
<1>5. ASSUME NEW e \in DConns, NEW u \in Users, HeldBy(e, u), duser'[e] = duser[e]
      PROVE  RowHeld(u)'
  <2>1. NotAcked(e)'
    BY <1>2, <1>5, StaysNotAcked DEF HeldBy
  <2> QED
    BY <1>5, <2>1 DEF RowHeld, HeldBy
<1>6. CASE AckTooLate(d, a) \/ NackDelivered(d, a)
  <2>1. UNCHANGED duser
    BY <1>6 DEF AckTooLate, NackDelivered, distVars
  <2>2. Vacant'
    BY <1>1, <2>1 DEF Vacant, HasUser
  <2> QED
    BY <1>2, <1>4, <1>5, <2>1, <2>2, RowsQuiet
<1>7. CASE AckDelivered(d, a)
  <2>1. /\ duser \in [DConns -> DUser] /\ duser' = [duser EXCEPT ![m.dc].del = ~@]
        /\ m.type = "userlogin_ack" /\ Matches(m.dc, m.key)
    BY <1>1, <1>7 DEF TypeOK, DistributeTypeOK, AckDelivered, Receives
  <2>2. \A e \in DConns : e # m.dc => duser'[e] = duser[e]
    BY <2>1
  <2>3. duser'[m.dc].key = duser[m.dc].key
    BY <1>3, <2>1 DEF DUser
  <2>4. Vacant'
    BY <1>1, <2>1, <2>2, <2>3 DEF Vacant, HasUser, Matches
  <2>5. ~NotAcked(m.dc)
    <3>1. toDist[a][d] \in Seq(ToDistMsg)
      BY <1>1 DEF TypeOK, WiresTypeOK
    <3>2. 1 \in 1..Len(toDist[a][d]) /\ m = toDist[a][d][1]
      BY <1>2, <3>1
    <3> QED
      BY <2>1, <3>2 DEF NotAcked, Current, Matches
  <2>6. \A u \in Users, e \in DConns : HeldBy(e, u) => e # m.dc
    BY <2>5 DEF HeldBy
  <2> QED
    BY <1>2, <1>4, <1>5, <2>2, <2>4, <2>6, RowsQuiet
<1> QED
  BY <1>6, <1>7

LEMMA RowsDatabase ==
  ASSUME RInv, DatabaseStep
  PROVE  Vacant' /\ RowsHeld'
<1>1. TypeOK /\ Vacant /\ UNCHANGED <<userTab, mapOut, duser, toDist>>
  BY DEF RInv, SInv, Inv, DatabaseStep, linkVars, distVars, agentVars
<1>2. Vacant' /\ AgentsHold
  BY <1>1 DEF Vacant, HasUser, AgentsHold, HeldAt
<1>3. \A u \in Users, e \in DConns : HeldBy(e, u) => RowHeld(u)'
  BY <1>1, HolderStays
<1>4. row \in [Users -> BOOLEAN] /\ deletes \in [Users -> Nat]
  BY <1>1 DEF TypeOK, WiresTypeOK
<1>5. ASSUME results \subseteq results'
      PROVE  \A u \in Users : GrantOf(u) => RowHeld(u)'
  BY <1>5 DEF GrantOf, RowHeld
<1>6. CASE \E q \in queries : DBLogin(q)
  <2>1. PICK q \in queries : DBLogin(q)
    BY <1>6
  <2>2. PICK s \in LoginState :
          /\ row' = IF s = "ok" THEN [row EXCEPT ![q.user] = TRUE] ELSE row
          /\ results' = results \cup
               {[type |-> "login", dc |-> q.dc, key |-> q.key, user |-> q.user, state |-> s]}
    BY <2>1 DEF DBLogin
  <2>3. \A u \in Users : row'[u] => row[u] \/ (s = "ok" /\ u = q.user)
    BY <1>4, <2>2
  <2>4. s = "ok" => GrantOf(q.user)'
    <3> DEFINE r == [type |-> "login", dc |-> q.dc, key |-> q.key, user |-> q.user, state |-> s]
    <3>1. r \in results' /\ r.type = "login" /\ r.user = q.user /\ r.state = s
      BY <2>2
    <3> QED
      BY <3>1 DEF GrantOf
  <2>5. UNCHANGED deletes /\ results \subseteq results'
    BY <2>1, <2>2 DEF DBLogin
  <2> QED
    BY <1>2, <1>3, <1>5, <2>3, <2>4, <2>5, RowsKept
<1>7. CASE \E u \in Users : DBLogout(u)
  <2>1. PICK u \in Users : DBLogout(u)
    BY <1>7
  <2>2. \A v \in Users : /\ row'[v] => row[v] /\ v # u
                         /\ v # u => deletes'[v] = deletes[v]
    BY <1>4, <2>1 DEF DBLogout
  <2>3. UNCHANGED results
    BY <2>1 DEF DBLogout
  <2> QED
    BY <1>2, <1>3, <1>5, <2>2, <2>3, RowsKept
<1>8. CASE \E q \in queries : DBIpCheck(q)
  <2>1. UNCHANGED <<row, deletes>> /\ results \subseteq results'
    BY <1>8 DEF DBIpCheck
  <2> QED
    BY <1>2, <1>3, <1>5, <2>1, RowsKept
<1> QED
  BY <1>6, <1>7, <1>8 DEF DatabaseStep, DBStep

LEMMA RowsAgentStep ==
  ASSUME RInv, AgentStep
  PROVE  Vacant' /\ RowsHeld'
<1>1. UNCHANGED <<duser, results>> /\ UNCHANGED row
  <2>1. ASSUME NEW d \in Dists, NEW a \in Agents, DistToAgent(d, a)
        PROVE  UNCHANGED row
    <3>1. NotifyUserLoginSyn(d, a) => UNCHANGED row
      BY DEF NotifyUserLoginSyn, dbVars
    <3>2. NotifyAlreadyOut(d, a) \/ DisconnectedDuringLogin(d, a) => UNCHANGED row
      BY DEF NotifyAlreadyOut, DisconnectedDuringLogin
    <3>3. ForceDisconnectOverlapLogin(d, a) => UNCHANGED row
      BY DEF ForceDisconnectOverlapLogin
    <3> QED
      BY <2>1, <3>1, <3>2, <3>3 DEF DistToAgent
  <2>2. ASSUME NEW c \in AConns, ConnectionOfAgent(c) \/ GoneFromAgent(c) \/ Reap(c) \/ ConnectAgent(c)
        PROVE  UNCHANGED row
    BY <2>2 DEF ConnectionOfAgent, AConnLost, ADrop, CharacterSelect, GoneFromAgent, ADisconnected,
       Reap, ReapUnconnected, ConnectAgent, AAccept, dbVars
  <2>3. ASSUME NEW a \in Agents, NEW u \in Users, MapToAgent(a, u)
        PROVE  UNCHANGED row
    BY <2>3 DEF MapToAgent, BackToCharSel, LoginCheckDeleteFromMap, dbVars
  <2>4. ASSUME NEW c \in AConns, NEW t \in acked, ShowTicket(c, t)
        PROVE  UNCHANGED row
    BY <2>4 DEF ShowTicket, CharacterlistSyn
  <2>5. UNCHANGED row
    BY <2>1, <2>2, <2>3, <2>4 DEF AgentStep
  <2> QED
    BY <2>5, OnDisconnectQuiet DEF distVars
<1>2. Vacant'
  BY <1>1 DEF RInv, Vacant, HasUser
<1>3. \A u \in Users : GrantOf(u) => RowHeld(u)'
  BY <1>1 DEF GrantOf, RowHeld
<1>4. /\ DeletesKept /\ AgentsHold
      /\ \A u \in Users, dc \in DConns :
           HeldBy(dc, u) => HeldBy(dc, u)' \/ \E a \in Agents : HeldAt(a, u)'
  BY HoldAgentStep
<1>5. \A u \in Users, dc \in DConns : HeldBy(dc, u) => RowHeld(u)'
  BY <1>4 DEF RowHeld
<1> QED
  BY <1>1, <1>2, <1>3, <1>4, <1>5, RowsKept DEF DeletesKept

LEMMA RInvNext ==
  ASSUME ~CrcMayFail, RInv, [Next]_vars
  PROVE  RInv'
<1>1. SInv'
  BY SInvNext DEF RInv
<1>2. SUFFICES Vacant' /\ RowsHeld'
  BY <1>1 DEF RInv
<1>3. CASE ClientOfDist
  <2>1. UNCHANGED agentVars
    BY <1>3 DEF ClientOfDist
  <2> QED
    BY <1>3, <2>1, RowsClient DEF ClientOfDist
<1>4. CASE ResultOfDB
  <2>1. UNCHANGED agentVars
    BY <1>4 DEF ResultOfDB
  <2> QED
    BY <1>4, <2>1, RowsResult, RowsIpResult DEF ResultOfDB
<1>5. CASE \E d \in Dists, a \in Agents : AnswerNotTaken(d, a) \/ TakeTicket(d, a)
  BY <1>5, RowsAnswer DEF AnswerNotTaken, TakeTicket
<1>6. CASE \E dc \in DConns : LeaveDistribute(dc) \/ LoseDistribute(dc) \/ LeftDistribute(dc)
  BY <1>6, RowsClient, RowsDDisconnected DEF LeaveDistribute, LoseDistribute, LeftDistribute
<1>7. CASE AgentStep
  BY <1>7, RowsAgentStep
<1>8. CASE DatabaseStep
  BY <1>8, RowsDatabase
<1>9. CASE UNCHANGED vars
  <2>1. UNCHANGED <<row, userTab, mapOut, duser, toDist, deletes, results>>
    BY <1>9 DEF vars, dbVars, linkVars, distVars, agentVars
  <2>2. Vacant' /\ DeletesKept
    BY <2>1 DEF RInv, Vacant, HasUser, DeletesKept
  <2>3. \A u \in Users : GrantOf(u) => RowHeld(u)'
    BY <2>1 DEF GrantOf, RowHeld
  <2>4. \A u \in Users, e \in DConns : HeldBy(e, u) => RowHeld(u)'
    BY <2>1, HolderStays
  <2> QED
    BY <2>1, <2>2, <2>3, <2>4, RowsQuiet
<1> QED
  BY <1>3, <1>4, <1>5, <1>6, <1>7, <1>8, <1>9 DEF Next, AgentStep

(* As long as no login is turned down for its script checksum, which       *)
(* forgets the row that was inserted, no login row is orphaned: neither by *)
(* results and answers that find nobody, nor by clients that leave between *)
(* two steps, nor by the agents' ways to lose a session.                   *)
THEOREM RowsAreNeverOrphaned ==
  ASSUME ~CrcMayFail
  PROVE  Spec => []NoOrphanRow
<1>1. Init => RInv
  <2>1. Init => SInv
    BY SInvInit
  <2>2. Init => Vacant
    BY DEF Init, DistributeInit, Vacant, HasUser, NoDUser
  <2>3. Init => RowsHeld
    BY DEF Init, WiresInit, RowsHeld
  <2> QED
    BY <2>1, <2>2, <2>3 DEF RInv
<1>2. RInv /\ [Next]_vars => RInv'
  BY RInvNext
<1>3. RInv => NoOrphanRow
  BY RowHeldAccountable DEF RInv
<1> QED
  BY <1>1, <1>2, <1>3, PTL DEF Spec

-----------------------------------------------------------------------------
(* The tables of the agents.                                               *)
(*                                                                         *)
(* A connection of nobody is in no table, a character is played over a     *)
(* connection, and a connection on which no ticket was shown has a block   *)
(* without an account.                                                     *)
NetFiled == \A c \in AConns : anet[c] = "free" => connTab[c] = NoSlot

CharsConnected ==
  \A a \in Agents : \A s \in Slots \ free[a] : slots[a][s].char => slots[a][s].conn # NoConn

NewcomersUnnamed ==
  \A c \in AConns :
    connTab[c] # NoSlot /\ c \notin entered => slots[AgentOf[c]][connTab[c]].user = NoUser

TablesInv == TablesAgree /\ NetFiled /\ CharsConnected /\ NewcomersUnnamed

-----------------------------------------------------------------------------
(* What is under way about the session of a client.                        *)
ForAgent(a)   == UNION {{toAgent[d][a][i] : i \in 1..Len(toAgent[d][a])} : d \in Dists}
FromAgent(a)  == UNION {{toDist[a][d][i] : i \in 1..Len(toDist[a][d])} : d \in Dists}

Syns(a)  == {m \in ForAgent(a) : m.type = "userlogin_syn"}
Outs(a)  == {m \in ForAgent(a) : m.type = "alreadyout"}
Lefts(a) == {m \in ForAgent(a) : m.type = "disconnected_on_login"}
Acks(a)  == {m \in FromAgent(a) : m.type = "userlogin_ack"}

Tickets == acked \cup spent

(* The distribute servers hand out every key once, and a key belongs to    *)
(* the client of one connection index.                                     *)
OneServer == \A c, d \in DConns : DistOf[c] = DistOf[d]

KeyKnown(k) == k \in Nat /\ \A dc \in DConns : k < nextKey[DistOf[dc]]

Serves(dc, k) == HasUser(dc) /\ duser[dc].key = k

Live(k) == \E dc \in DConns : Serves(dc, k)

Bears(dc, k) ==
  \/ Serves(dc, k)
  \/ \E t \in Tickets : t.key = k /\ t.dc = dc
  \/ \E a \in Agents : \E m \in Syns(a) \cup FromAgent(a) : m.key = k /\ m.dc = dc

OneBearer == \A k : \A c, d \in DConns : Bears(c, k) /\ Bears(d, k) => c = d

OneTicket == \A t, r \in Tickets : t.key = r.key => t = r

Unticketed == \A a \in Agents : \A m \in Syns(a) \cup Acks(a) : \A t \in Tickets : t.key # m.key

(* A client that leaves without saying so has no ticket. *)
LeavingForgets ==
  \A dc \in DConns :
    dnet[dc] = "closing" /\ ~duser[dc].out /\ HasUser(dc) => TicketsOf(dc, Tickets) = {}

NotUsable(k) == ~Live(k) /\ \A t \in acked : t.key # k

LeftForGood == \A a \in Agents : \A m \in Lefts(a) : KeyKnown(m.key) /\ NotUsable(m.key)

OutsKnown ==
  \A a \in Agents :
    /\ \A m \in Outs(a) : m.key < nextAKey[a]
    /\ \A m \in Acks(a) : m.akey < nextAKey[a]

KeysFit == OneBearer /\ OneTicket /\ Unticketed /\ LeavingForgets /\ LeftForGood /\ OutsKnown

(* A session that is connected has used its ticket up. *)
Settled(k) ==
  /\ \A t \in acked : t.key # k
  /\ \A a \in Agents : \A m \in Syns(a) \cup Acks(a) \cup Lefts(a) : m.key # k
  /\ \A dc \in DConns : Serves(dc, k) => \E t \in spent : t.dc = dc /\ t.key = k

Fits(a, key, dkey, conn) ==
  /\ key \in Nat /\ key < nextAKey[a]
  /\ KeyKnown(dkey)
  /\ conn # NoConn => Settled(dkey)
  /\ \A m \in Outs(a) : m.key = key => conn = NoConn /\ NotUsable(dkey)
  /\ \A m \in Acks(a) : m.akey = key => m.key = dkey

Session(a, u) == slots[a][userTab[a][u]]

SessionIs(a, u, key, dkey, conn) ==
  /\ userTab[a][u] # NoSlot
  /\ Session(a, u).key = key /\ Session(a, u).dkey = dkey /\ Session(a, u).conn = conn

SessionsFit ==
  \A a \in Agents, u \in Users : \A key, dkey, conn :
    SessionIs(a, u, key, dkey, conn) => Fits(a, key, dkey, conn)

KInv == SInv /\ TablesInv /\ KeysFit /\ SessionsFit

-----------------------------------------------------------------------------
(* The tables, step by step. *)

LEMMA TableTypes ==
  ASSUME TypeOK
  PROVE  /\ slots \in [Agents -> [Slots -> Info]]
         /\ free \in [Agents -> SUBSET Slots]
         /\ connTab \in [AConns -> Slots \cup {NoSlot}]
         /\ userTab \in [Agents -> [Users -> Slots \cup {NoSlot}]]
         /\ charTab \in [Agents -> [Users -> Slots \cup {NoSlot}]]
         /\ anet \in [AConns -> {"free", "open", "closing"}]
         /\ \A c \in AConns : AgentOf[c] \in Agents
         /\ \A a \in Agents, s \in Slots :
              /\ slots[a][s].user \in Users \cup {NoUser}
              /\ slots[a][s].conn \in AConns \cup {NoConn}
              /\ slots[a][s].char \in BOOLEAN
BY WiresAssumption DEF TypeOK, AgentTypeOK, Info

(* An account's entry points at its own block, which nobody else's does. *)
LEMMA EntryOfUser ==
  ASSUME TypeOK, TablesInv, NEW a \in Agents, NEW u \in Users, userTab[a][u] # NoSlot
  PROVE  /\ userTab[a][u] \in Slots \ free[a]
         /\ slots[a][userTab[a][u]].user = u
         /\ \A v \in Users : userTab[a][v] = userTab[a][u] => v = u
BY TableTypes DEF TablesInv, TablesAgree, UserEntriesOK, EntryOK

LEMMA EntryOfConn ==
  ASSUME TypeOK, TablesInv, NEW c \in AConns, connTab[c] # NoSlot
  PROVE  /\ connTab[c] \in Slots \ free[AgentOf[c]]
         /\ slots[AgentOf[c]][connTab[c]].conn = c /\ c # NoConn
         /\ anet[c] # "free"
BY TableTypes, AgentAssumption DEF TablesInv, TablesAgree, ConnEntriesOK, EntryOK, NetFiled

(* A session that waits for its client plays no character. *)
LEMMA UnconnectedPlaysNobody ==
  ASSUME TypeOK, TablesInv, NEW a \in Agents, NEW u \in Users, userTab[a][u] # NoSlot,
         slots[a][userTab[a][u]].conn = NoConn
  PROVE  charTab[a][u] = NoSlot /\ ~slots[a][userTab[a][u]].char
<1>1. userTab[a][u] \in Slots \ free[a]
  BY EntryOfUser
<1>2. ~slots[a][userTab[a][u]].char
  BY <1>1 DEF TablesInv, CharsConnected
<1> QED
  BY <1>2 DEF TablesInv, TablesAgree, CharEntriesOK

LEMMA Freed ==
  ASSUME TypeOK, NEW a \in Agents, NEW s \in Slots, NEW u, FreeSession(a, s, u)
  PROVE  /\ \A b \in Agents, t \in Slots :
              slots'[b][t] = IF b = a /\ t = s THEN Zero ELSE slots[b][t]
         /\ \A b \in Agents, t \in Slots : t \in free'[b] <=> t \in free[b] \/ (b = a /\ t = s)
         /\ \A b \in Agents, v \in Users :
              userTab'[b][v] = IF b = a /\ v = u THEN NoSlot ELSE userTab[b][v]
<1>1. /\ slots \in [Agents -> [Slots -> Info]] /\ free \in [Agents -> SUBSET Slots]
      /\ userTab \in [Agents -> [Users -> Slots \cup {NoSlot}]]
  BY TableTypes
<1>2. \A b \in Agents, t \in Slots : slots'[b][t] = IF b = a /\ t = s THEN Zero ELSE slots[b][t]
  BY <1>1 DEF FreeSession
<1>3. \A b \in Agents, t \in Slots : t \in free'[b] <=> t \in free[b] \/ (b = a /\ t = s)
  BY <1>1 DEF FreeSession
<1>4. \A b \in Agents, v \in Users :
        userTab'[b][v] = IF b = a /\ v = u THEN NoSlot ELSE userTab[b][v]
  BY <1>1 DEF FreeSession
<1> QED
  BY <1>2, <1>3, <1>4

(* The invariant entry by entry and block by block. *)
ConnOK(c) ==
  /\ connTab[c] # NoSlot =>
       /\ connTab[c] \in Slots \ free[AgentOf[c]]
       /\ slots[AgentOf[c]][connTab[c]].conn = c
       /\ c \notin entered => slots[AgentOf[c]][connTab[c]].user = NoUser
  /\ anet[c] = "free" => connTab[c] = NoSlot

UserOK(a, u) ==
  userTab[a][u] # NoSlot =>
    userTab[a][u] \in Slots \ free[a] /\ slots[a][userTab[a][u]].user = u

CharOK(a, u) ==
  charTab[a][u] # NoSlot =>
    charTab[a][u] = userTab[a][u] /\ slots[a][userTab[a][u]].char

BlockOK(a, s) ==
  s \notin free[a] =>
    /\ slots[a][s].conn # NoConn => AgentOf[slots[a][s].conn] = a /\ connTab[slots[a][s].conn] = s
    /\ slots[a][s].user # NoUser => userTab[a][slots[a][s].user] = s
    /\ slots[a][s].char => /\ slots[a][s].user # NoUser /\ charTab[a][slots[a][s].user] = s
                           /\ slots[a][s].conn # NoConn
    /\ slots[a][s].conn # NoConn \/ slots[a][s].user # NoUser

LEMMA TablesTaken ==
  ASSUME TablesInv
  PROVE  /\ \A c \in AConns : ConnOK(c)
         /\ \A a \in Agents, u \in Users : UserOK(a, u) /\ CharOK(a, u)
         /\ \A a \in Agents, s \in Slots : BlockOK(a, s)
<1>1. \A c \in AConns : ConnOK(c)
  BY DEF TablesInv, TablesAgree, ConnEntriesOK, EntryOK, NetFiled, NewcomersUnnamed, ConnOK
<1>2. \A a \in Agents, u \in Users : UserOK(a, u)
  BY DEF TablesInv, TablesAgree, UserEntriesOK, EntryOK, UserOK
<1>3. \A a \in Agents, u \in Users : CharOK(a, u)
  BY DEF TablesInv, TablesAgree, CharEntriesOK, CharOK
<1>4. \A a \in Agents, s \in Slots : BlockOK(a, s)
  BY DEF TablesInv, TablesAgree, BlocksFiled, CharsConnected, BlockOK
<1> QED
  BY <1>1, <1>2, <1>3, <1>4

LEMMA TablesMade ==
  ASSUME \A c \in AConns : ConnOK(c)',
         \A a \in Agents, u \in Users : UserOK(a, u)' /\ CharOK(a, u)',
         \A a \in Agents, s \in Slots : BlockOK(a, s)'
  PROVE  TablesInv'
<1>1. (ConnEntriesOK /\ NetFiled /\ NewcomersUnnamed)'
  BY DEF ConnEntriesOK, EntryOK, NetFiled, NewcomersUnnamed, ConnOK
<1>2. UserEntriesOK'
  BY DEF UserEntriesOK, EntryOK, UserOK
<1>3. CharEntriesOK'
  <2>1. SUFFICES ASSUME NEW a \in Agents, NEW u \in Users, charTab'[a][u] # NoSlot
                 PROVE  /\ charTab'[a][u] \in Slots \ free'[a] /\ charTab'[a][u] = userTab'[a][u]
                        /\ slots'[a][charTab'[a][u]].char
    BY DEF CharEntriesOK, EntryOK
  <2>2. CharOK(a, u)' /\ UserOK(a, u)'
    OBVIOUS
  <2> QED
    BY <2>1, <2>2 DEF UserOK, CharOK
<1>4. (BlocksFiled /\ CharsConnected)'
  BY DEF BlocksFiled, CharsConnected, BlockOK
<1> QED
  BY <1>1, <1>2, <1>3, <1>4 DEF TablesInv, TablesAgree

(* What a step leaves alone stays right. *)
LEMMA ConnKept ==
  ASSUME NEW c \in AConns, ConnOK(c), connTab'[c] \in {connTab[c], NoSlot},
         connTab'[c] # NoSlot =>
           /\ connTab[c] \notin free'[AgentOf[c]]
           /\ slots'[AgentOf[c]][connTab[c]].conn = slots[AgentOf[c]][connTab[c]].conn
           /\ slots'[AgentOf[c]][connTab[c]].user = slots[AgentOf[c]][connTab[c]].user,
         c \in entered => c \in entered',
         anet'[c] = "free" => anet[c] = "free" \/ connTab'[c] = NoSlot
  PROVE  ConnOK(c)'
BY DEF ConnOK

LEMMA UserKept ==
  ASSUME NEW a \in Agents, NEW u \in Users, UserOK(a, u), userTab'[a][u] \in {userTab[a][u], NoSlot},
         userTab'[a][u] # NoSlot =>
           /\ userTab[a][u] \notin free'[a]
           /\ slots'[a][userTab[a][u]].user = slots[a][userTab[a][u]].user
  PROVE  UserOK(a, u)'
BY DEF UserOK

LEMMA CharKept ==
  ASSUME NEW a \in Agents, NEW u \in Users, CharOK(a, u), charTab'[a][u] \in {charTab[a][u], NoSlot},
         charTab'[a][u] # NoSlot =>
           /\ userTab'[a][u] = userTab[a][u]
           /\ slots'[a][userTab[a][u]].char = slots[a][userTab[a][u]].char
  PROVE  CharOK(a, u)'
BY DEF CharOK

LEMMA BlockKept ==
  ASSUME NEW a \in Agents, NEW s \in Slots, BlockOK(a, s),
         s \notin free'[a] =>
           /\ s \notin free[a] /\ slots'[a][s] = slots[a][s]
           /\ slots[a][s].conn # NoConn => connTab'[slots[a][s].conn] = connTab[slots[a][s].conn]
           /\ slots[a][s].user # NoUser => userTab'[a][slots[a][s].user] = userTab[a][slots[a][s].user]
           /\ slots[a][s].char => charTab'[a][slots[a][s].user] = charTab[a][slots[a][s].user]
  PROVE  BlockOK(a, s)'
BY DEF BlockOK

(* Freeing a block with the entries that point at it: a reserved one is in *)
(* the table by account alone, a connected one may be in all three.        *)
LEMMA TablesFreed ==
  ASSUME TypeOK, TablesInv, NEW a \in Agents, NEW s \in Slots \ free[a], NEW u, FreeSession(a, s, u),
         u = slots[a][s].user,
         \A e \in AConns : connTab'[e] = IF AgentOf[e] = a /\ connTab[e] = s THEN NoSlot ELSE connTab[e],
         \A b \in Agents, v \in Users :
           charTab'[b][v] = IF b = a /\ v = u THEN NoSlot ELSE charTab[b][v],
         entered \subseteq entered',
         \A e \in AConns : anet'[e] = "free" => anet[e] = "free" \/ connTab'[e] = NoSlot
  PROVE  TablesInv'
<1>1. /\ \A b \in Agents, t \in Slots :
           slots'[b][t] = IF b = a /\ t = s THEN Zero ELSE slots[b][t]
      /\ \A b \in Agents, t \in Slots : t \in free'[b] <=> t \in free[b] \/ (b = a /\ t = s)
      /\ \A b \in Agents, v \in Users :
           userTab'[b][v] = IF b = a /\ v = u THEN NoSlot ELSE userTab[b][v]
  BY Freed
<1>2. /\ \A c \in AConns : ConnOK(c)
      /\ \A b \in Agents, v \in Users : UserOK(b, v) /\ CharOK(b, v)
      /\ \A b \in Agents, t \in Slots : BlockOK(b, t)
  BY TablesTaken
<1>3. \A e \in AConns : ConnOK(e)'
  <2>1. SUFFICES ASSUME NEW e \in AConns
                 PROVE  ConnOK(e)'
    OBVIOUS
  <2>2. connTab'[e] # NoSlot =>
          /\ connTab'[e] = connTab[e] /\ (AgentOf[e] # a \/ connTab[e] # s)
          /\ connTab[e] \in Slots \ free[AgentOf[e]] /\ AgentOf[e] \in Agents
    BY <1>2, TableTypes DEF ConnOK
  <2>3. connTab'[e] # NoSlot =>
          /\ connTab[e] \notin free'[AgentOf[e]]
          /\ slots'[AgentOf[e]][connTab[e]] = slots[AgentOf[e]][connTab[e]]
    BY <1>1, <2>2
  <2>4. connTab'[e] \in {connTab[e], NoSlot}
    OBVIOUS
  <2> QED
    BY <1>2, <2>3, <2>4, ConnKept
<1>4. \A b \in Agents, v \in Users : UserOK(b, v)'
  <2>1. SUFFICES ASSUME NEW b \in Agents, NEW v \in Users
                 PROVE  UserOK(b, v)'
    OBVIOUS
  <2>2. userTab'[b][v] # NoSlot =>
          /\ userTab'[b][v] = userTab[b][v] /\ (b # a \/ userTab[b][v] # s)
          /\ userTab[b][v] \in Slots \ free[b]
    BY <1>1, <1>2 DEF UserOK
  <2>3. userTab'[b][v] # NoSlot =>
          /\ userTab[b][v] \notin free'[b]
          /\ slots'[b][userTab[b][v]] = slots[b][userTab[b][v]]
    BY <1>1, <2>2
  <2>4. userTab'[b][v] \in {userTab[b][v], NoSlot}
    BY <1>1
  <2> QED
    BY <1>2, <2>3, <2>4, UserKept
<1>5. \A b \in Agents, v \in Users : CharOK(b, v)'
  <2>1. SUFFICES ASSUME NEW b \in Agents, NEW v \in Users
                 PROVE  CharOK(b, v)'
    OBVIOUS
  <2>2. charTab'[b][v] # NoSlot =>
          /\ charTab'[b][v] = charTab[b][v] /\ userTab'[b][v] = userTab[b][v]
          /\ (b # a \/ v # u) /\ charTab[b][v] = userTab[b][v] /\ userTab[b][v] # NoSlot
    BY <1>1, <1>2 DEF CharOK
  <2>3. charTab'[b][v] # NoSlot =>
          userTab[b][v] \in Slots \ free[b] /\ slots[b][userTab[b][v]].user = v
    BY <1>2, <2>2 DEF UserOK
  <2>4. charTab'[b][v] # NoSlot => slots'[b][userTab[b][v]] = slots[b][userTab[b][v]]
    BY <1>1, <2>2, <2>3
  <2>5. charTab'[b][v] \in {charTab[b][v], NoSlot}
    OBVIOUS
  <2> QED
    BY <1>2, <2>2, <2>4, <2>5, CharKept
<1>6. \A b \in Agents, t \in Slots : BlockOK(b, t)'
  <2>1. SUFFICES ASSUME NEW b \in Agents, NEW t \in Slots
                 PROVE  BlockOK(b, t)'
    OBVIOUS
  <2>2. t \notin free'[b] => t \notin free[b] /\ slots'[b][t] = slots[b][t] /\ (b # a \/ t # s)
    BY <1>1
  <2>3. t \notin free'[b] /\ slots[b][t].conn # NoConn =>
          /\ slots[b][t].conn \in AConns
          /\ AgentOf[slots[b][t].conn] = b /\ connTab[slots[b][t].conn] = t
    BY <1>2, <2>2, TableTypes DEF BlockOK
  <2>4. t \notin free'[b] /\ slots[b][t].conn # NoConn =>
          connTab'[slots[b][t].conn] = connTab[slots[b][t].conn]
    BY <2>2, <2>3
  <2>5. t \notin free'[b] /\ slots[b][t].user # NoUser =>
          /\ slots[b][t].user \in Users /\ userTab[b][slots[b][t].user] = t
          /\ b # a \/ slots[b][t].user # u
    <3>1. t \notin free'[b] /\ slots[b][t].user # NoUser =>
            slots[b][t].user \in Users /\ userTab[b][slots[b][t].user] = t
      BY <1>2, <2>2, TableTypes DEF BlockOK
    <3>2. u \in Users => userTab[a][u] = s
      BY <1>2, WiresAssumption DEF BlockOK
    <3> QED
      BY <2>2, <3>1, <3>2
  <2>6. t \notin free'[b] /\ slots[b][t].user # NoUser =>
          /\ userTab'[b][slots[b][t].user] = userTab[b][slots[b][t].user]
          /\ charTab'[b][slots[b][t].user] = charTab[b][slots[b][t].user]
    BY <1>1, <2>5
  <2>7. t \notin free'[b] /\ slots[b][t].char => slots[b][t].user # NoUser
    BY <1>2, <2>2 DEF BlockOK
  <2> QED
    BY <1>2, <2>2, <2>4, <2>6, <2>7, BlockKept
<1> QED
  BY <1>3, <1>4, <1>5, <1>6, TablesMade

LEMMA TablesDropped ==
  ASSUME TypeOK, TablesInv, NEW a \in Agents, NEW u \in Users, userTab[a][u] # NoSlot,
         slots[a][userTab[a][u]].conn = NoConn, FreeSession(a, userTab[a][u], u),
         UNCHANGED <<connTab, charTab, anet, entered>>
  PROVE  TablesInv'
<1>1. PICK s \in Slots \ free[a] : s = userTab[a][u]
  BY EntryOfUser
<1>2. FreeSession(a, s, u) /\ u = slots[a][s].user
  BY <1>1, EntryOfUser
<1>3. \A e \in AConns : AgentOf[e] = a => connTab[e] # s
  BY <1>1, AgentAssumption, TablesTaken DEF ConnOK
<1>4. charTab[a][u] = NoSlot
  BY UnconnectedPlaysNobody
<1>5. \A e \in AConns : connTab'[e] = IF AgentOf[e] = a /\ connTab[e] = s THEN NoSlot ELSE connTab[e]
  BY <1>3
<1>6. \A b \in Agents, v \in Users :
        charTab'[b][v] = IF b = a /\ v = u THEN NoSlot ELSE charTab[b][v]
  BY <1>4
<1>7. entered \subseteq entered' /\ \A e \in AConns : anet'[e] = "free" => anet[e] = "free"
  OBVIOUS
<1> QED
  BY <1>2, <1>5, <1>6, <1>7, TablesFreed

(* OnDisconnectUser frees a block with every entry that points at it. *)
LEMMA TablesOnDisconnect ==
  ASSUME TypeOK, TablesInv, NEW c \in AConns, OnDisconnectUser(c),
         entered \subseteq entered',
         \A e \in AConns : anet'[e] = "free" => anet[e] = "free" \/ e = c
  PROVE  TablesInv'
<1> DEFINE a == AgentOf[c]
<1>1. a \in Agents
  BY TableTypes
<1>2. CASE connTab[c] = NoSlot
  <2>1. UNCHANGED <<slots, free, connTab, userTab, charTab>>
    BY <1>2 DEF OnDisconnectUser
  <2>2. TablesAgree' /\ CharsConnected'
    BY <2>1 DEF TablesInv, TablesAgree, ConnEntriesOK, UserEntriesOK, CharEntriesOK, BlocksFiled, EntryOK,
       CharsConnected
  <2>3. NetFiled' /\ NewcomersUnnamed'
    BY <1>2, <2>1 DEF TablesInv, NetFiled, NewcomersUnnamed
  <2> QED
    BY <2>2, <2>3 DEF TablesInv
<1>3. CASE connTab[c] # NoSlot
  <2>1. PICK s \in Slots \ free[a] : s = connTab[c] /\ slots[a][s].conn = c
    BY <1>3, EntryOfConn
  <2>2. PICK u : u = slots[a][s].user
    OBVIOUS
  <2>3. /\ FreeSession(a, s, u)
        /\ charTab' = IF slots[a][s].char THEN [charTab EXCEPT ![a][u] = NoSlot] ELSE charTab
        /\ connTab' = [connTab EXCEPT ![c] = NoSlot]
    BY <1>3, <2>1, <2>2 DEF OnDisconnectUser
  <2>4. \A e \in AConns : connTab'[e] = IF e = c THEN NoSlot ELSE connTab[e]
    BY <2>3, TableTypes
  <2>5. \A e \in AConns : AgentOf[e] = a /\ connTab[e] = s => e = c
    <3>1. SUFFICES ASSUME NEW e \in AConns, AgentOf[e] = a, connTab[e] = s
                   PROVE  e = c
      OBVIOUS
    <3>2. ConnOK(e) /\ s # NoSlot
      BY AgentAssumption, TablesTaken
    <3> QED
      BY <2>1, <3>1, <3>2 DEF ConnOK
  <2>6. \A e \in AConns : connTab'[e] = IF AgentOf[e] = a /\ connTab[e] = s THEN NoSlot ELSE connTab[e]
    BY <2>1, <2>4, <2>5
  <2>7. \A v \in Users : v = u /\ charTab[a][v] # NoSlot => slots[a][s].char
    <3>1. SUFFICES ASSUME NEW v \in Users, v = u, charTab[a][v] # NoSlot
                   PROVE  slots[a][s].char
      OBVIOUS
    <3>2. CharOK(a, v) /\ BlockOK(a, s)
      BY <1>1, TablesTaken
    <3>3. userTab[a][v] = s
      BY <2>2, <3>1, <3>2, WiresAssumption DEF BlockOK
    <3> QED
      BY <3>1, <3>2, <3>3 DEF CharOK
  <2>8. \A b \in Agents, v \in Users :
          charTab'[b][v] = IF b = a /\ v = u THEN NoSlot ELSE charTab[b][v]
    <3>1. charTab \in [Agents -> [Users -> Slots \cup {NoSlot}]]
      BY TableTypes
    <3>2. CASE slots[a][s].char
      BY <1>1, <2>3, <3>1, <3>2
    <3>3. CASE ~slots[a][s].char
      BY <2>3, <2>7, <3>3
    <3> QED
      BY <3>2, <3>3
  <2>9. \A e \in AConns : anet'[e] = "free" => anet[e] = "free" \/ connTab'[e] = NoSlot
    BY <2>4
  <2> QED
    BY <1>1, <2>2, <2>3, <2>6, <2>8, <2>9, TablesFreed
<1> QED
  BY <1>2, <1>3

LEMMA TablesAAccept ==
  ASSUME TypeOK, TablesInv, NEW c \in AConns, AAccept(c), entered' = entered \ {c}
  PROVE  TablesInv'
<1> DEFINE a == AgentOf[c]
<1>1. a \in Agents
  BY TableTypes
<1>2. PICK s \in free[a] : /\ free' = [free EXCEPT ![a] = @ \ {s}]
                           /\ slots' = [slots EXCEPT ![a][s] = [Zero EXCEPT !.conn = c]]
                           /\ connTab' = [connTab EXCEPT ![c] = s]
  BY DEF AAccept
<1>3. s \in Slots /\ UNCHANGED <<userTab, charTab>> /\ anet' = [anet EXCEPT ![c] = "open"] /\ anet[c] = "free"
  BY <1>1, TableTypes DEF AAccept
<1> DEFINE z == [Zero EXCEPT !.conn = c]
<1>4. z.conn = c /\ z.user = NoUser /\ ~z.char /\ c # NoConn
  BY AgentAssumption DEF Zero
<1>5. /\ \A b \in Agents, t \in Slots : slots'[b][t] = IF b = a /\ t = s THEN z ELSE slots[b][t]
      /\ \A b \in Agents, t \in Slots : t \in free'[b] <=> t \in free[b] /\ (b # a \/ t # s)
      /\ \A e \in AConns : connTab'[e] = IF e = c THEN s ELSE connTab[e]
      /\ \A e \in AConns : anet'[e] = IF e = c THEN "open" ELSE anet[e]
  BY <1>1, <1>2, <1>3, TableTypes
<1> HIDE DEF z
<1>6. /\ \A e \in AConns : ConnOK(e)
      /\ \A b \in Agents, v \in Users : UserOK(b, v) /\ CharOK(b, v)
      /\ \A b \in Agents, t \in Slots : BlockOK(b, t)
  BY TablesTaken
<1>7. connTab[c] = NoSlot
  BY <1>3, <1>6 DEF ConnOK
<1>8. ASSUME NEW e \in AConns
      PROVE  ConnOK(e)'
  <2>1. CASE e = c
    <3>1. connTab'[e] = s /\ anet'[e] = "open" /\ slots'[AgentOf[e]][s] = z /\ s \notin free'[AgentOf[e]]
      BY <1>1, <1>3, <1>5, <2>1
    <3> QED
      BY <1>3, <1>4, <2>1, <3>1 DEF ConnOK
  <2>2. CASE e # c
    <3>1. connTab'[e] = connTab[e] /\ anet'[e] = anet[e] /\ (e \in entered => e \in entered')
      BY <1>5, <2>2
    <3>2. connTab[e] # NoSlot => connTab[e] \in Slots \ free[AgentOf[e]] /\ AgentOf[e] \in Agents
      BY <1>6, TableTypes DEF ConnOK
    <3>3. connTab[e] # NoSlot => /\ connTab[e] \notin free'[AgentOf[e]]
                                 /\ slots'[AgentOf[e]][connTab[e]] = slots[AgentOf[e]][connTab[e]]
      BY <1>2, <1>5, <3>2
    <3> QED
      BY <1>6, <3>1, <3>3, ConnKept
  <2> QED
    BY <2>1, <2>2
<1>9. ASSUME NEW b \in Agents, NEW v \in Users
      PROVE  UserOK(b, v)' /\ CharOK(b, v)'
  <2>1. userTab[b][v] # NoSlot => userTab[b][v] \in Slots \ free[b]
    BY <1>6 DEF UserOK
  <2>2. userTab[b][v] # NoSlot => /\ userTab[b][v] \notin free'[b]
                                  /\ slots'[b][userTab[b][v]] = slots[b][userTab[b][v]]
    BY <1>2, <1>5, <2>1
  <2>3. charTab[b][v] # NoSlot => userTab[b][v] # NoSlot
    BY <1>6 DEF CharOK
  <2> QED
    BY <1>3, <1>6, <2>2, <2>3, UserKept, CharKept
<1>10. ASSUME NEW b \in Agents, NEW t \in Slots
       PROVE  BlockOK(b, t)'
  <2>1. CASE b = a /\ t = s
    <3>1. slots'[b][t] = z /\ connTab'[c] = s
      BY <1>3, <1>5, <2>1
    <3> QED
      BY <1>4, <2>1, <3>1 DEF BlockOK
  <2>2. CASE b # a \/ t # s
    <3>1. slots'[b][t] = slots[b][t] /\ (t \notin free'[b] => t \notin free[b])
      BY <1>5, <2>2
    <3>2. t \notin free[b] /\ slots[b][t].conn # NoConn =>
            slots[b][t].conn \in AConns /\ connTab[slots[b][t].conn] = t
      BY <1>6, TableTypes DEF BlockOK
    <3>3. t \notin free[b] /\ slots[b][t].conn # NoConn => slots[b][t].conn # c
      BY <1>7, <3>2, AgentAssumption
    <3>4. t \notin free[b] /\ slots[b][t].conn # NoConn =>
            connTab'[slots[b][t].conn] = connTab[slots[b][t].conn]
      BY <1>5, <3>2, <3>3
    <3> QED
      BY <1>3, <1>6, <3>1, <3>4, BlockKept
  <2> QED
    BY <2>1, <2>2
<1> QED
  BY <1>8, <1>9, <1>10, TablesMade

(* A reservation: a free block, or the one of an earlier reservation. *)
LEMMA TablesReserved ==
  ASSUME TypeOK, TablesInv, NEW a \in Agents, NEW u \in Users, NEW s \in Slots,
         NEW old, old = userTab[a][u], old # NoSlot => slots[a][old].conn = NoConn,
         s \in free[a] \/ s = old,
         NEW z, z.user = u, z.conn = NoConn, ~z.char,
         \A b \in Agents, t \in Slots :
           slots'[b][t] = IF b = a /\ t = s THEN z
                          ELSE IF b = a /\ t = old THEN Zero ELSE slots[b][t],
         \A b \in Agents, t \in Slots :
           t \in free'[b] <=> (t \in free[b] \/ (b = a /\ t = old)) /\ (b # a \/ t # s),
         \A b \in Agents, v \in Users : userTab'[b][v] = IF b = a /\ v = u THEN s ELSE userTab[b][v],
         UNCHANGED <<connTab, charTab, anet, entered>>
  PROVE  TablesInv'
<1>1. /\ \A e \in AConns : ConnOK(e)
      /\ \A b \in Agents, v \in Users : UserOK(b, v) /\ CharOK(b, v)
      /\ \A b \in Agents, t \in Slots : BlockOK(b, t)
  BY TablesTaken
<1>2. u # NoUser /\ NoSlot \notin Slots
  BY WiresAssumption, AgentAssumption
<1>3. old # NoSlot => old \in Slots \ free[a] /\ slots[a][old].user = u
  BY <1>1 DEF UserOK
<1>4. charTab[a][u] = NoSlot
  BY <1>1, UnconnectedPlaysNobody DEF CharOK
<1>5. ASSUME NEW e \in AConns
      PROVE  ConnOK(e)'
  <2>1. connTab[e] # NoSlot =>
          /\ connTab[e] \in Slots \ free[AgentOf[e]] /\ AgentOf[e] \in Agents
          /\ slots[AgentOf[e]][connTab[e]].conn # NoConn
    BY <1>1, TableTypes, AgentAssumption DEF ConnOK
  <2>2. connTab[e] # NoSlot /\ AgentOf[e] = a => connTab[e] # old /\ connTab[e] # s
    BY <2>1
  <2>3. connTab[e] # NoSlot => /\ connTab[e] \notin free'[AgentOf[e]]
                               /\ slots'[AgentOf[e]][connTab[e]] = slots[AgentOf[e]][connTab[e]]
    BY <2>1, <2>2
  <2>4. connTab'[e] = connTab[e] /\ anet'[e] = anet[e] /\ (e \in entered => e \in entered')
    OBVIOUS
  <2> QED
    BY <1>1, <2>3, <2>4, ConnKept
<1>6. ASSUME NEW b \in Agents, NEW v \in Users
      PROVE  UserOK(b, v)' /\ CharOK(b, v)'
  <2>1. CASE b = a /\ v = u
    <3>1. userTab'[b][v] = s /\ slots'[b][s] = z /\ s \notin free'[b] /\ charTab'[b][v] = NoSlot
      BY <1>4, <2>1
    <3> QED
      BY <2>1, <3>1 DEF UserOK, CharOK
  <2>2. CASE b # a \/ v # u
    <3>1. userTab'[b][v] = userTab[b][v] /\ charTab'[b][v] = charTab[b][v]
      BY <2>2
    <3>2. userTab[b][v] # NoSlot => userTab[b][v] \in Slots \ free[b] /\ slots[b][userTab[b][v]].user = v
      BY <1>1 DEF UserOK
    <3>3. userTab[b][v] # NoSlot => b # a \/ (userTab[b][v] # s /\ userTab[b][v] # old)
      BY <1>3, <2>2, <3>2
    <3>4. userTab[b][v] # NoSlot => /\ userTab[b][v] \notin free'[b]
                                    /\ slots'[b][userTab[b][v]] = slots[b][userTab[b][v]]
      BY <3>2, <3>3
    <3>5. charTab[b][v] # NoSlot => userTab[b][v] # NoSlot
      BY <1>1 DEF CharOK
    <3> QED
      BY <1>1, <3>1, <3>4, <3>5, UserKept, CharKept
  <2> QED
    BY <2>1, <2>2
<1>7. ASSUME NEW b \in Agents, NEW t \in Slots
      PROVE  BlockOK(b, t)'
  <2>1. CASE b = a /\ t = s
    <3>1. slots'[b][t] = z /\ userTab'[b][u] = s
      BY <2>1
    <3> QED
      BY <1>2, <2>1, <3>1 DEF BlockOK
  <2>2. CASE b # a \/ t # s
    <3>1. t \notin free'[b] =>
            t \notin free[b] /\ (b # a \/ t # old) /\ slots'[b][t] = slots[b][t]
      BY <2>2
    <3>2. t \notin free'[b] /\ slots[b][t].user # NoUser =>
            slots[b][t].user \in Users /\ userTab[b][slots[b][t].user] = t
      BY <1>1, <3>1, TableTypes DEF BlockOK
    <3>3. t \notin free'[b] /\ slots[b][t].user # NoUser => b # a \/ slots[b][t].user # u
      BY <3>1, <3>2
    <3>4. t \notin free'[b] /\ slots[b][t].user # NoUser =>
            userTab'[b][slots[b][t].user] = userTab[b][slots[b][t].user]
      BY <3>2, <3>3
    <3> QED
      BY <1>1, <3>1, <3>4, BlockKept
  <2> QED
    BY <2>1, <2>2
<1> QED
  BY <1>5, <1>6, <1>7, TablesMade

(* A block is given a connection, the block of the connection is free, the *)
(* connection has another block: and the tables are else as they were.     *)
ConnectionPut(a, s, c) == slots' = [slots EXCEPT ![a][s].conn = c]

ConnectedOnly(a, s, c) ==
  \A b \in Agents, t \in Slots :
    /\ slots'[b][t].user = slots[b][t].user
    /\ slots'[b][t].char = slots[b][t].char
    /\ slots'[b][t].key = slots[b][t].key
    /\ slots'[b][t].dkey = slots[b][t].dkey
    /\ slots'[b][t].conn = IF b = a /\ t = s THEN c ELSE slots[b][t].conn
    /\ b # a \/ t # s => slots'[b][t] = slots[b][t]

FreedOnly(a, pre) ==
  \A b \in Agents, t \in Slots : t \in free'[b] <=> t \in free[b] \/ (b = a /\ t = pre)

NumberedOnly(c, s) ==
  \A e \in AConns : connTab'[e] = IF e = c THEN s ELSE connTab[e]

(* The client's ticket connects the session that was reserved for it. *)
LEMMA TablesJoined ==
  ASSUME TypeOK, TablesInv, NEW c \in AConns, NEW u \in Users,
         NEW a, a = AgentOf[c], NEW s, s = userTab[a][u], NEW pre, pre = connTab[c],
         s # NoSlot, slots[a][s].conn = NoConn, pre # NoSlot, c \notin entered,
         ConnectedOnly(a, s, c), FreedOnly(a, pre), NumberedOnly(c, s),
         UNCHANGED <<userTab, charTab, anet>>, entered \subseteq entered', c \in entered'
  PROVE  TablesInv'
<1>1. /\ \A e \in AConns : ConnOK(e)
      /\ \A b \in Agents, v \in Users : UserOK(b, v) /\ CharOK(b, v)
      /\ \A b \in Agents, t \in Slots : BlockOK(b, t)
  BY TablesTaken
<1>2. a \in Agents /\ c # NoConn
  BY TableTypes, AgentAssumption
<1>3. s \in Slots \ free[a] /\ slots[a][s].user = u /\ u # NoUser
  BY <1>1, <1>2, WiresAssumption DEF UserOK
<1>4. pre \in Slots \ free[a] /\ slots[a][pre].conn = c /\ slots[a][pre].user = NoUser /\ anet[c] # "free"
  BY <1>1 DEF ConnOK
<1>5. s # pre
  BY <1>2, <1>3, <1>4
<1>6. /\ \A b \in Agents, t \in Slots :
           /\ slots'[b][t].user = slots[b][t].user
           /\ slots'[b][t].char = slots[b][t].char
           /\ slots'[b][t].conn = IF b = a /\ t = s THEN c ELSE slots[b][t].conn
           /\ b # a \/ t # s => slots'[b][t] = slots[b][t]
      /\ \A b \in Agents, t \in Slots : t \in free'[b] <=> t \in free[b] \/ (b = a /\ t = pre)
      /\ \A e \in AConns : connTab'[e] = IF e = c THEN s ELSE connTab[e]
  BY DEF ConnectedOnly, FreedOnly, NumberedOnly
<1>7. ASSUME NEW e \in AConns
      PROVE  ConnOK(e)'
  <2>1. CASE e = c
    <3>1. connTab'[e] = s /\ s \notin free'[AgentOf[e]] /\ slots'[AgentOf[e]][s].conn = c /\ anet'[e] # "free"
      BY <1>2, <1>3, <1>4, <1>5, <1>6, <2>1
    <3> QED
      BY <1>3, <2>1, <3>1 DEF ConnOK
  <2>2. CASE e # c
    <3>1. connTab'[e] = connTab[e] /\ anet'[e] = anet[e] /\ (e \in entered => e \in entered')
      BY <1>6, <2>2
    <3>2. connTab[e] # NoSlot => /\ connTab[e] \in Slots \ free[AgentOf[e]] /\ AgentOf[e] \in Agents
                                 /\ slots[AgentOf[e]][connTab[e]].conn = e
      BY <1>1, TableTypes DEF ConnOK
    <3>3. connTab[e] # NoSlot /\ AgentOf[e] = a => connTab[e] # pre /\ connTab[e] # s
      BY <1>4, <2>2, <3>2, AgentAssumption
    <3>4. connTab[e] # NoSlot => /\ connTab[e] \notin free'[AgentOf[e]]
                                 /\ slots'[AgentOf[e]][connTab[e]] = slots[AgentOf[e]][connTab[e]]
      BY <1>6, <3>2, <3>3
    <3> QED
      BY <1>1, <3>1, <3>4, ConnKept
  <2> QED
    BY <2>1, <2>2
<1>8. ASSUME NEW b \in Agents, NEW v \in Users
      PROVE  UserOK(b, v)' /\ CharOK(b, v)'
  <2>1. userTab[b][v] # NoSlot => userTab[b][v] \in Slots \ free[b] /\ slots[b][userTab[b][v]].user = v
    BY <1>1 DEF UserOK
  <2>2. userTab[b][v] # NoSlot => b # a \/ userTab[b][v] # pre
    BY <1>4, <2>1, WiresAssumption
  <2>3. userTab[b][v] # NoSlot =>
          /\ userTab[b][v] \notin free'[b]
          /\ slots'[b][userTab[b][v]].user = slots[b][userTab[b][v]].user
          /\ slots'[b][userTab[b][v]].char = slots[b][userTab[b][v]].char
    BY <1>6, <2>1, <2>2
  <2>4. charTab[b][v] # NoSlot => userTab[b][v] # NoSlot
    BY <1>1 DEF CharOK
  <2> QED
    BY <1>1, <2>3, <2>4, UserKept, CharKept
<1>9. ASSUME NEW b \in Agents, NEW t \in Slots
      PROVE  BlockOK(b, t)'
  <2>1. CASE b = a /\ t = s
    <3>1. /\ slots'[b][t].conn = c /\ slots'[b][t].user = u /\ connTab'[c] = s /\ userTab'[b][u] = s
          /\ slots'[b][t].char = slots[a][s].char
      BY <1>3, <1>6, <2>1
    <3>2. ~slots[a][s].char
      BY UnconnectedPlaysNobody, <1>2
    <3> QED
      BY <1>2, <1>3, <2>1, <3>1, <3>2 DEF BlockOK
  <2>2. CASE b # a \/ t # s
    <3>1. slots'[b][t] = slots[b][t] /\ (t \notin free'[b] => t \notin free[b] /\ (b # a \/ t # pre))
      BY <1>6, <2>2
    <3>2. t \notin free[b] /\ slots[b][t].conn # NoConn =>
            /\ slots[b][t].conn \in AConns /\ connTab[slots[b][t].conn] = t
            /\ AgentOf[slots[b][t].conn] = b
      BY <1>1, TableTypes DEF BlockOK
    <3>3. t \notin free'[b] /\ slots[b][t].conn # NoConn => slots[b][t].conn # c
      BY <3>1, <3>2
    <3>4. t \notin free'[b] /\ slots[b][t].conn # NoConn =>
            connTab'[slots[b][t].conn] = connTab[slots[b][t].conn]
      BY <1>6, <3>1, <3>2, <3>3
    <3> QED
      BY <1>1, <3>1, <3>4, BlockKept
  <2> QED
    BY <2>1, <2>2
<1> QED
  BY <1>7, <1>8, <1>9, TablesMade

LEMMA ConnectionSet ==
  ASSUME TypeOK, NEW a \in Agents, NEW s \in Slots, NEW c \in AConns, ConnectionPut(a, s, c)
  PROVE  ConnectedOnly(a, s, c)
<1>1. slots \in [Agents -> [Slots -> Info]] /\ slots[a][s] \in Info
  BY TableTypes
<1>2. slots'[a][s] = [slots[a][s] EXCEPT !.conn = c]
  BY <1>1 DEF ConnectionPut
<1>3. /\ slots'[a][s].user = slots[a][s].user /\ slots'[a][s].char = slots[a][s].char
      /\ slots'[a][s].key = slots[a][s].key /\ slots'[a][s].dkey = slots[a][s].dkey
      /\ slots'[a][s].conn = c
  BY <1>1, <1>2 DEF Info
<1>4. \A b \in Agents, t \in Slots : b # a \/ t # s => slots'[b][t] = slots[b][t]
  BY <1>1 DEF ConnectionPut
<1>5. ASSUME NEW b \in Agents, NEW t \in Slots
      PROVE  /\ slots'[b][t].user = slots[b][t].user
             /\ slots'[b][t].char = slots[b][t].char
             /\ slots'[b][t].key = slots[b][t].key
             /\ slots'[b][t].dkey = slots[b][t].dkey
             /\ slots'[b][t].conn = IF b = a /\ t = s THEN c ELSE slots[b][t].conn
  <2>1. CASE b = a /\ t = s
    BY <1>3, <2>1
  <2>2. CASE ~(b = a /\ t = s)
    <3>1. slots'[b][t] = slots[b][t]
      BY <1>4, <2>2
    <3> QED
      BY <2>2, <3>1
  <2> QED
    BY <2>1, <2>2
<1> QED
  BY <1>4, <1>5 DEF ConnectedOnly

LEMMA TablesConnected ==
  ASSUME TypeOK, TablesInv, NEW c \in AConns, NEW u \in Users,
         NEW a, a = AgentOf[c], NEW s, s = userTab[a][u], NEW pre, pre = connTab[c],
         s # NoSlot, slots[a][s].conn = NoConn, pre # NoSlot, c \notin entered,
         slots' = [slots EXCEPT ![a][s].conn = c],
         free' = [free EXCEPT ![a] = @ \cup {pre}],
         connTab' = [connTab EXCEPT ![c] = s],
         UNCHANGED <<userTab, charTab, anet>>, entered \subseteq entered', c \in entered'
  PROVE  TablesInv'
<1>1. a \in Agents /\ s \in Slots
  BY TableTypes, TablesTaken DEF UserOK
<1>2. ConnectionPut(a, s, c)
  BY DEF ConnectionPut
<1>3. ConnectedOnly(a, s, c)
  BY <1>1, <1>2, ConnectionSet
<1>4. FreedOnly(a, pre)
  BY <1>1, TableTypes DEF FreedOnly
<1>5. NumberedOnly(c, s)
  BY TableTypes DEF NumberedOnly
<1> QED
  BY <1>3, <1>4, <1>5, TablesJoined

(* The character of a block is put, and nothing else. *)
CharacterPut(a, s, ch) == slots' = [slots EXCEPT ![a][s].char = ch]

CharacterOnly(a, s, ch) ==
  \A b \in Agents, t \in Slots :
    /\ slots'[b][t].user = slots[b][t].user
    /\ slots'[b][t].conn = slots[b][t].conn
    /\ slots'[b][t].key = slots[b][t].key
    /\ slots'[b][t].dkey = slots[b][t].dkey
    /\ slots'[b][t].char = IF b = a /\ t = s THEN ch ELSE slots[b][t].char

(* The table by character, of one account. *)
ByCharacterOnly(a, u, s, ch) ==
  \A b \in Agents, v \in Users :
    charTab'[b][v] = IF b = a /\ v = u THEN IF ch THEN s ELSE NoSlot ELSE charTab[b][v]

(* A character is taken, or put back: the block and the table by character. *)
LEMMA TablesCharacter ==
  ASSUME TypeOK, TablesInv, NEW a \in Agents, NEW u \in Users, NEW s \in Slots \ free[a], NEW ch,
         userTab[a][u] = s, slots[a][s].user = u, ch => slots[a][s].conn # NoConn,
         CharacterOnly(a, s, ch), ByCharacterOnly(a, u, s, ch), ch \in BOOLEAN,
         UNCHANGED <<free, connTab, userTab, anet, entered>>
  PROVE  TablesInv'
<1>0. /\ \A b \in Agents, t \in Slots :
           /\ slots'[b][t].user = slots[b][t].user
           /\ slots'[b][t].conn = slots[b][t].conn
           /\ slots'[b][t].char = IF b = a /\ t = s THEN ch ELSE slots[b][t].char
      /\ \A b \in Agents, v \in Users :
           charTab'[b][v] = IF b = a /\ v = u THEN IF ch THEN s ELSE NoSlot ELSE charTab[b][v]
  BY DEF CharacterOnly, ByCharacterOnly
<1> USE <1>0
<1>1. /\ \A e \in AConns : ConnOK(e)
      /\ \A b \in Agents, v \in Users : UserOK(b, v) /\ CharOK(b, v)
      /\ \A b \in Agents, t \in Slots : BlockOK(b, t)
  BY TablesTaken
<1>2. ASSUME NEW e \in AConns
      PROVE  ConnOK(e)'
  <2>1. connTab[e] # NoSlot => connTab[e] \in Slots /\ AgentOf[e] \in Agents
    BY TableTypes
  <2> QED
    BY <1>1, <2>1 DEF ConnOK
<1>3. ASSUME NEW b \in Agents, NEW v \in Users
      PROVE  UserOK(b, v)' /\ CharOK(b, v)'
  <2>1. userTab[b][v] # NoSlot => userTab[b][v] \in Slots /\ slots[b][userTab[b][v]].user = v
    BY <1>1 DEF UserOK
  <2>2. UserOK(b, v)'
    BY <1>1, <2>1 DEF UserOK
  <2>3. CASE b = a /\ v = u
    <3>1. charTab'[b][v] # NoSlot => ch /\ charTab'[b][v] = userTab'[b][v] /\ slots'[a][s].char = ch
      BY <2>3
    <3>2. CharOK(b, v)'
      BY <2>3, <3>1 DEF CharOK
    <3> QED
      BY <2>2, <3>2
  <2>4. CASE b # a \/ v # u
    <3>1. charTab'[b][v] = charTab[b][v]
      BY <2>4
    <3>2. charTab[b][v] # NoSlot => userTab[b][v] # NoSlot
      BY <1>1 DEF CharOK
    <3>3. userTab[b][v] # NoSlot => b # a \/ userTab[b][v] # s
      BY <2>1, <2>4
    <3>4. charTab[b][v] # NoSlot => slots'[b][userTab[b][v]].char = slots[b][userTab[b][v]].char
      BY <2>1, <3>2, <3>3
    <3> QED
      BY <1>1, <2>2, <3>1, <3>4, CharKept
  <2> QED
    BY <2>2, <2>3, <2>4
<1>4. ASSUME NEW b \in Agents, NEW t \in Slots
      PROVE  BlockOK(b, t)'
  <2>1. CASE b = a /\ t = s
    <3>1. charTab'[a][u] = IF ch THEN s ELSE NoSlot
      OBVIOUS
    <3> QED
      BY <1>1, <2>1, <3>1, WiresAssumption DEF BlockOK
  <2>2. CASE b # a \/ t # s
    <3>1. t \notin free[b] /\ slots[b][t].user # NoUser =>
            slots[b][t].user \in Users /\ userTab[b][slots[b][t].user] = t
      BY <1>1, TableTypes DEF BlockOK
    <3>2. t \notin free[b] /\ slots[b][t].user # NoUser =>
            charTab'[b][slots[b][t].user] = charTab[b][slots[b][t].user]
      BY <2>2, <3>1
    <3> QED
      BY <1>1, <2>2, <3>2 DEF BlockOK
  <2> QED
    BY <2>1, <2>2
<1> QED
  BY <1>2, <1>3, <1>4, TablesMade

(* What a step leaves of the sessions it is not about. *)
SessionStays(a, u) ==
  userTab'[a][u] # NoSlot =>
    /\ userTab[a][u] # NoSlot
    /\ slots'[a][userTab'[a][u]].key = slots[a][userTab[a][u]].key
    /\ slots'[a][userTab'[a][u]].dkey = slots[a][userTab[a][u]].dkey
    /\ slots'[a][userTab'[a][u]].conn = slots[a][userTab[a][u]].conn

SessionsStay == \A a \in Agents, u \in Users : SessionStays(a, u)

LEMMA UnchangedStays ==
  ASSUME UNCHANGED <<slots, userTab>>
  PROVE  SessionsStay
BY DEF SessionsStay, SessionStays

LEMMA FreedStays ==
  ASSUME TypeOK, TablesInv, NEW a \in Agents, NEW s \in Slots, NEW u, FreeSession(a, s, u),
         u = slots[a][s].user
  PROVE  SessionsStay
<1>1. SUFFICES ASSUME NEW b \in Agents, NEW v \in Users, userTab'[b][v] # NoSlot
               PROVE  userTab'[b][v] = userTab[b][v] /\ slots'[b][userTab[b][v]] = slots[b][userTab[b][v]]
  BY DEF SessionsStay, SessionStays
<1>2. userTab'[b][v] = userTab[b][v] /\ (b # a \/ v # u)
  BY <1>1, Freed
<1>3. userTab[b][v] \in Slots /\ slots[b][userTab[b][v]].user = v
  BY <1>1, <1>2, EntryOfUser
<1>4. b # a \/ userTab[b][v] # s
  BY <1>2, <1>3
<1> QED
  BY <1>2, <1>3, <1>4, Freed

LEMMA DisconnectStays ==
  ASSUME TypeOK, TablesInv, NEW c \in AConns, OnDisconnectUser(c)
  PROVE  SessionsStay
<1> DEFINE a == AgentOf[c]
<1>1. CASE connTab[c] = NoSlot
  BY <1>1, UnchangedStays DEF OnDisconnectUser
<1>2. CASE connTab[c] # NoSlot
  <2>1. PICK s \in Slots : s = connTab[c]
    BY <1>2, EntryOfConn
  <2>2. PICK u : u = slots[a][s].user
    OBVIOUS
  <2>3. FreeSession(a, s, u) /\ a \in Agents
    BY <1>2, <2>1, <2>2, TableTypes DEF OnDisconnectUser
  <2> QED
    BY <2>2, <2>3, FreedStays
<1> QED
  BY <1>1, <1>2

LEMMA DropStays ==
  ASSUME TypeOK, TablesInv, NEW a \in Agents, NEW u \in Users, userTab[a][u] # NoSlot,
         slots[a][userTab[a][u]].conn = NoConn, DropAccount(a, u),
         UNCHANGED <<connTab, charTab, anet, entered>>
  PROVE  TablesInv' /\ SessionsStay
<1>1. FreeSession(a, userTab[a][u], u)
  BY DEF DropAccount
<1>2. TablesInv'
  BY <1>1, TablesDropped
<1>3. PICK s \in Slots : s = userTab[a][u] /\ slots[a][s].user = u
  BY EntryOfUser
<1>4. FreeSession(a, s, u)
  BY <1>1, <1>3
<1> QED
  BY <1>2, <1>3, <1>4, FreedStays

LEMMA QuietTables ==
  ASSUME TablesInv, UNCHANGED <<slots, free, connTab, userTab, charTab>>, entered \subseteq entered',
         \A e \in AConns : anet'[e] = "free" => anet[e] = "free"
  PROVE  TablesInv' /\ SessionsStay
<1>1. TablesAgree' /\ CharsConnected'
  BY DEF TablesInv, TablesAgree, ConnEntriesOK, UserEntriesOK, CharEntriesOK, BlocksFiled, EntryOK,
     CharsConnected
<1>2. NetFiled' /\ NewcomersUnnamed'
  BY DEF TablesInv, NetFiled, NewcomersUnnamed
<1> QED
  BY <1>1, <1>2, UnchangedStays DEF TablesInv

(* The block of a session that is reserved for the login of message m. *)
NewSession(a, m) == [Zero EXCEPT !.user = m.user, !.dkey = m.key, !.key = nextAKey[a]]

ReservedAt(a, m, s) ==
  /\ userTab[a][m.user] # NoSlot => slots[a][userTab[a][m.user]].conn = NoConn
  /\ s \in free[a] \/ s = userTab[a][m.user]
  /\ \A b \in Agents, t \in Slots :
       slots'[b][t] = IF b = a /\ t = s THEN NewSession(a, m)
                      ELSE IF b = a /\ t = userTab[a][m.user] THEN Zero ELSE slots[b][t]
  /\ \A b \in Agents, t \in Slots :
       t \in free'[b] <=> (t \in free[b] \/ (b = a /\ t = userTab[a][m.user])) /\ (b # a \/ t # s)
  /\ \A b \in Agents, v \in Users :
       userTab'[b][v] = IF b = a /\ v = m.user THEN s ELSE userTab[b][v]

LEMMA ReserveOutcome ==
  ASSUME TypeOK, NEW d \in Dists, NEW a \in Agents, NEW m, m.user \in Users,
         NEW pool, NEW blocks, NEW old, old = userTab[a][m.user],
         old # NoSlot => slots[a][old].conn = NoConn,
         \A t \in Slots : t \in pool <=> t \in free[a] \/ t = old, pool \subseteq Slots,
         blocks \in [Slots -> Info],
         \A t \in Slots : blocks[t] = IF t = old THEN Zero ELSE slots[a][t],
         NEW s \in pool,
         free' = [free EXCEPT ![a] = pool \ {s}],
         slots' = [slots EXCEPT ![a] = [blocks EXCEPT ![s] = NewSession(a, m)]],
         userTab' = [userTab EXCEPT ![a][m.user] = s]
  PROVE  s \in Slots /\ ReservedAt(a, m, s)
<1>1. s \in Slots /\ (s \in free[a] \/ s = old)
  OBVIOUS
<1>2. /\ slots \in [Agents -> [Slots -> Info]] /\ free \in [Agents -> SUBSET Slots]
      /\ userTab \in [Agents -> [Users -> Slots \cup {NoSlot}]]
  BY TableTypes
<1> DEFINE z == NewSession(a, m)
<1>3. slots' = [slots EXCEPT ![a] = [blocks EXCEPT ![s] = z]]
  OBVIOUS
<1> HIDE DEF z
<1>4. \A b \in Agents, t \in Slots :
        slots'[b][t] = IF b = a /\ t = s THEN z
                       ELSE IF b = a /\ t = old THEN Zero ELSE slots[b][t]
  <2>1. \A b \in Agents : slots'[b] = IF b = a THEN [blocks EXCEPT ![s] = z] ELSE slots[b]
    BY <1>2, <1>3
  <2>2. \A t \in Slots : [blocks EXCEPT ![s] = z][t] = IF t = s THEN z ELSE blocks[t]
    OBVIOUS
  <2>3. slots'[a] = [blocks EXCEPT ![s] = z]
    BY <2>1
  <2>4. \A t \in Slots : slots'[a][t] = IF t = s THEN z ELSE IF t = old THEN Zero ELSE slots[a][t]
    BY <2>2, <2>3
  <2>5. \A b \in Agents : b # a => slots'[b] = slots[b]
    BY <2>1
  <2> QED
    BY <2>4, <2>5
<1>5. \A b \in Agents, t \in Slots :
        t \in free'[b] <=> (t \in free[b] \/ (b = a /\ t = old)) /\ (b # a \/ t # s)
  <2>1. \A b \in Agents : free'[b] = IF b = a THEN pool \ {s} ELSE free[b]
    BY <1>2
  <2>2. \A t \in Slots : t \in free'[a] <=> (t \in free[a] \/ t = old) /\ t # s
    BY <2>1
  <2>3. \A b \in Agents : b # a => free'[b] = free[b]
    BY <2>1
  <2> QED
    BY <2>2, <2>3
<1>6. \A b \in Agents, v \in Users : userTab'[b][v] = IF b = a /\ v = m.user THEN s ELSE userTab[b][v]
  BY <1>2
<1> QED
  BY <1>1, <1>4, <1>5, <1>6 DEF ReservedAt, z

LEMMA NotifyOutcome ==
  ASSUME TypeOK, NEW d \in Dists, NEW a \in Agents, NotifyUserLoginSyn(d, a),
         NEW m, m = Head(toAgent[d][a])
  PROVE  /\ m.user \in Users /\ m \in ToAgentMsg
         /\ UNCHANGED <<connTab, charTab>>
         /\ \/ /\ UNCHANGED <<slots, free, userTab, nextAKey>>
               /\ \A e \in AConns : anet'[e] = "free" => anet[e] = "free"
               /\ UNCHANGED toDist \/ SendToDist(a, d, UserLoginNack(m.user, m.key, m.dc))
            \/ /\ UNCHANGED anet /\ nextAKey' = [nextAKey EXCEPT ![a] = @ + 1]
               /\ SendToDist(a, d, UserLoginAck(m.user, m.key, nextAKey[a], m.dc))
               /\ \E s \in Slots : ReservedAt(a, m, s)
<1> DEFINE old == userTab[a][m.user]
<1>1. /\ toAgent[d][a] # <<>> /\ m.type = "userlogin_syn" /\ UNCHANGED <<connTab, charTab>>
  BY DEF NotifyUserLoginSyn, AReceives
<1>2. m \in ToAgentMsg /\ m.user \in Users
  BY <1>1, HeadToAgent, ToAgentFields
<1>3. free[a] \subseteq Slots /\ slots[a] \in [Slots -> Info] /\ old \in Slots \cup {NoSlot}
      /\ NoSlot \notin Slots
  BY <1>2, TableTypes, AgentAssumption
<1>4. CASE /\ NotReady(a) /\ SendToDist(a, d, UserLoginNack(m.user, m.key, m.dc))
           /\ UNCHANGED <<slots, free, userTab, nextAKey, anet>>
  BY <1>1, <1>2, <1>4
<1>5. CASE /\ old # NoSlot /\ slots[a][old].conn # NoConn
           /\ anet' = [anet EXCEPT ![slots[a][old].conn] = "closing"]
           /\ SendToDist(a, d, UserLoginNack(m.user, m.key, m.dc))
           /\ UNCHANGED <<slots, free, userTab, nextAKey>>
  <2>1. \A e \in AConns : anet'[e] = "free" => anet[e] = "free"
    BY <1>5, TableTypes
  <2> QED
    BY <1>1, <1>2, <1>5, <2>1
<1>6. CASE old = NoSlot /\ Reserve(d, a, m, free[a], slots[a]) /\ UNCHANGED anet
  <2>1. CASE UNCHANGED <<slots, free, userTab, nextAKey, toDist>>
    BY <1>1, <1>2, <1>6, <2>1
  <2>2. CASE ~UNCHANGED <<slots, free, userTab, nextAKey, toDist>>
    <3>1. PICK pool, blocks : pool = free[a] /\ blocks = slots[a]
      OBVIOUS
    <3>2. PICK s \in pool :
            /\ free' = [free EXCEPT ![a] = pool \ {s}]
            /\ slots' = [slots EXCEPT ![a] = [blocks EXCEPT ![s] = NewSession(a, m)]]
            /\ userTab' = [userTab EXCEPT ![a][m.user] = s]
            /\ nextAKey' = [nextAKey EXCEPT ![a] = @ + 1]
            /\ SendToDist(a, d, UserLoginAck(m.user, m.key, nextAKey[a], m.dc))
      BY <1>6, <2>2, <3>1 DEF Reserve, NewSession
    <3>3. pool \subseteq Slots /\ blocks \in [Slots -> Info]
      BY <1>3, <3>1
    <3>4. \A t \in Slots : t # old
      BY <1>3, <1>6
    <3>5. \A t \in Slots : t \in pool <=> t \in free[a] \/ t = old
      BY <3>1, <3>4
    <3>6. \A t \in Slots : blocks[t] = IF t = old THEN Zero ELSE slots[a][t]
      BY <3>1, <3>4
    <3>7. s \in Slots /\ ReservedAt(a, m, s)
      BY <1>2, <1>6, <3>2, <3>3, <3>5, <3>6, ReserveOutcome
    <3> QED
      BY <1>1, <1>2, <1>6, <3>2, <3>7
  <2> QED
    BY <2>1, <2>2
<1>7. CASE /\ old # NoSlot /\ slots[a][old].conn = NoConn
           /\ Reserve(d, a, m, free[a] \cup {old}, [slots[a] EXCEPT ![old] = Zero]) /\ UNCHANGED anet
  <2>1. CASE UNCHANGED <<slots, free, userTab, nextAKey, toDist>>
    BY <1>1, <1>2, <1>7, <2>1
  <2>2. CASE ~UNCHANGED <<slots, free, userTab, nextAKey, toDist>>
    <3>1. PICK pool, blocks : pool = free[a] \cup {old} /\ blocks = [slots[a] EXCEPT ![old] = Zero]
      OBVIOUS
    <3>2. PICK s \in pool :
            /\ free' = [free EXCEPT ![a] = pool \ {s}]
            /\ slots' = [slots EXCEPT ![a] = [blocks EXCEPT ![s] = NewSession(a, m)]]
            /\ userTab' = [userTab EXCEPT ![a][m.user] = s]
            /\ nextAKey' = [nextAKey EXCEPT ![a] = @ + 1]
            /\ SendToDist(a, d, UserLoginAck(m.user, m.key, nextAKey[a], m.dc))
      BY <1>7, <2>2, <3>1 DEF Reserve, NewSession
    <3>3. old \in Slots /\ Zero \in Info
      BY <1>3, <1>7 DEF Zero, Info
    <3>4. /\ pool \subseteq Slots /\ blocks \in [Slots -> Info]
          /\ \A t \in Slots : t \in pool <=> t \in free[a] \/ t = old
          /\ \A t \in Slots : blocks[t] = IF t = old THEN Zero ELSE slots[a][t]
      BY <1>3, <3>1, <3>3
    <3>5. s \in Slots /\ ReservedAt(a, m, s)
      BY <1>2, <1>7, <3>2, <3>4, ReserveOutcome
    <3> QED
      BY <1>1, <1>2, <1>7, <3>2, <3>5
  <2> QED
    BY <2>1, <2>2
<1> QED
  BY <1>4, <1>5, <1>6, <1>7 DEF NotifyUserLoginSyn

LEMMA ReservedStays ==
  ASSUME TypeOK, TablesInv, NEW a \in Agents, NEW m, m.user \in Users, NEW s \in Slots,
         ReservedAt(a, m, s), UNCHANGED <<connTab, charTab, anet, entered>>
  PROVE  /\ TablesInv'
         /\ \A b \in Agents, v \in Users : b # a \/ v # m.user => SessionStays(b, v)
         /\ userTab'[a][m.user] = s /\ slots'[a][s] = NewSession(a, m)
<1>1. PICK z, old : z = NewSession(a, m) /\ old = userTab[a][m.user]
  OBVIOUS
<1>2. z.user = m.user /\ z.conn = NoConn /\ ~z.char
  BY <1>1 DEF NewSession, Zero
<1>3. /\ old # NoSlot => slots[a][old].conn = NoConn
      /\ s \in free[a] \/ s = old
      /\ \A b \in Agents, t \in Slots :
           slots'[b][t] = IF b = a /\ t = s THEN z
                          ELSE IF b = a /\ t = old THEN Zero ELSE slots[b][t]
      /\ \A b \in Agents, t \in Slots :
           t \in free'[b] <=> (t \in free[b] \/ (b = a /\ t = old)) /\ (b # a \/ t # s)
      /\ \A b \in Agents, v \in Users : userTab'[b][v] = IF b = a /\ v = m.user THEN s ELSE userTab[b][v]
  BY <1>1 DEF ReservedAt
<1>4. TablesInv'
  BY <1>1, <1>2, <1>3, TablesReserved
<1>5. ASSUME NEW b \in Agents, NEW v \in Users, b # a \/ v # m.user
      PROVE  SessionStays(b, v)
  <2>1. userTab'[b][v] = userTab[b][v]
    BY <1>3, <1>5
  <2>2. userTab[b][v] # NoSlot => userTab[b][v] \in Slots \ free[b] /\ slots[b][userTab[b][v]].user = v
    BY EntryOfUser
  <2>3. userTab[b][v] # NoSlot /\ b = a => userTab[b][v] # old
    BY <1>1, <1>5, EntryOfUser
  <2>4. userTab[b][v] # NoSlot => slots'[b][userTab[b][v]] = slots[b][userTab[b][v]]
    BY <1>3, <2>2, <2>3
  <2> QED
    BY <2>1, <2>4 DEF SessionStays
<1> QED
  BY <1>1, <1>3, <1>4, <1>5

(* A field of one block is changed. *)
LEMMA CharacterSet ==
  ASSUME TypeOK, NEW a \in Agents, NEW s \in Slots, NEW ch \in BOOLEAN, CharacterPut(a, s, ch)
  PROVE  CharacterOnly(a, s, ch)
<1>1. slots \in [Agents -> [Slots -> Info]] /\ slots[a][s] \in Info
  BY TableTypes
<1>2. slots'[a][s] = [slots[a][s] EXCEPT !.char = ch]
  BY <1>1 DEF CharacterPut
<1>3. /\ slots'[a][s].user = slots[a][s].user /\ slots'[a][s].conn = slots[a][s].conn
      /\ slots'[a][s].key = slots[a][s].key /\ slots'[a][s].dkey = slots[a][s].dkey
      /\ slots'[a][s].char = ch
  BY <1>1, <1>2 DEF Info
<1>4. \A b \in Agents, t \in Slots : b # a \/ t # s => slots'[b][t] = slots[b][t]
  BY <1>1 DEF CharacterPut
<1> QED
  BY <1>3, <1>4 DEF CharacterOnly

LEMMA CharacterStays ==
  ASSUME TypeOK, NEW a \in Agents, NEW s \in Slots, NEW ch, CharacterOnly(a, s, ch), userTab' = userTab
  PROVE  SessionsStay
<1>1. ASSUME NEW b \in Agents, NEW v \in Users, userTab[b][v] # NoSlot
      PROVE  /\ slots'[b][userTab[b][v]].key = slots[b][userTab[b][v]].key
             /\ slots'[b][userTab[b][v]].dkey = slots[b][userTab[b][v]].dkey
             /\ slots'[b][userTab[b][v]].conn = slots[b][userTab[b][v]].conn
  <2>1. userTab[b][v] \in Slots
    BY <1>1, TableTypes
  <2> QED
    BY <2>1 DEF CharacterOnly
<1> QED
  BY <1>1 DEF SessionsStay, SessionStays

LEMMA TablesConnection ==
  ASSUME TypeOK, TablesInv, NEW c \in AConns,
         ConnectionOfAgent(c) \/ GoneFromAgent(c) \/ Reap(c) \/ ConnectAgent(c)
  PROVE  TablesInv' /\ SessionsStay
<1> DEFINE a == AgentOf[c]
<1>1. a \in Agents /\ anet \in [AConns -> {"free", "open", "closing"}]
  BY TableTypes
<1>2. CASE ConnectAgent(c)
  <2>1. AAccept(c) /\ entered' = entered \ {c}
    BY <1>2 DEF ConnectAgent
  <2>2. TablesInv'
    BY <2>1, TablesAAccept
  <2>3. PICK s \in free[a] : slots' = [slots EXCEPT ![a][s] = [Zero EXCEPT !.conn = c]]
    BY <2>1 DEF AAccept
  <2>4. \A b \in Agents, v \in Users : userTab[b][v] # NoSlot =>
          slots'[b][userTab[b][v]] = slots[b][userTab[b][v]]
    <3>1. SUFFICES ASSUME NEW b \in Agents, NEW v \in Users, userTab[b][v] # NoSlot
                   PROVE  slots'[b][userTab[b][v]] = slots[b][userTab[b][v]]
      OBVIOUS
    <3>2. userTab[b][v] \in Slots \ free[b]
      BY <3>1, EntryOfUser
    <3> QED
      BY <2>3, <3>2, TableTypes
  <2>5. UNCHANGED userTab
    BY <2>1 DEF AAccept
  <2> QED
    BY <2>2, <2>4, <2>5 DEF SessionsStay, SessionStays
<1>3. CASE ADrop(c) \/ ADisconnected(c)
  <2>1. OnDisconnectUser(c) /\ (anet' = [anet EXCEPT ![c] = "closing"] \/ anet' = [anet EXCEPT ![c] = "free"])
    BY <1>3 DEF ADrop, ADisconnected
  <2>2. \A e \in AConns : anet'[e] = "free" => anet[e] = "free" \/ e = c
    BY <1>1, <2>1
  <2>3. UNCHANGED entered
    BY <1>3 DEF ConnectionOfAgent, GoneFromAgent, Reap, ConnectAgent, clientVars,
       AConnLost, ADrop, ADisconnected, AAccept, CharacterSelect, ReapUnconnected
  <2> QED
    BY <2>1, <2>2, <2>3, TablesOnDisconnect, DisconnectStays
<1>4. CASE ConnectionOfAgent(c) /\ AConnLost(c)
  <2>1. /\ UNCHANGED <<slots, free, connTab, userTab, charTab, entered>>
        /\ anet' = [anet EXCEPT ![c] = "closing"]
    BY <1>4 DEF ConnectionOfAgent, AConnLost, clientVars
  <2>2. \A e \in AConns : anet'[e] = "free" => anet[e] = "free"
    BY <1>1, <2>1
  <2> QED
    BY <2>1, <2>2, QuietTables
<1>5. CASE ConnectionOfAgent(c) /\ CharacterSelect(c)
  <2>1. /\ UNCHANGED <<free, connTab, userTab, anet, entered>>
        /\ connTab[c] # NoSlot /\ slots[a][connTab[c]].user # NoUser
        /\ charTab' = [charTab EXCEPT ![a][slots[a][connTab[c]].user] = connTab[c]]
        /\ slots' = [slots EXCEPT ![a][connTab[c]].char = TRUE]
    BY <1>5 DEF ConnectionOfAgent, CharacterSelect, clientVars
  <2>2. PICK s \in Slots \ free[a] : s = connTab[c] /\ slots[a][s].conn = c /\ c # NoConn
    BY <2>1, EntryOfConn
  <2>3. PICK u \in Users : u = slots[a][s].user
    BY <1>1, <2>1, <2>2, TableTypes
  <2>4. userTab[a][u] = s
    BY <1>1, <2>2, <2>3, TablesTaken, WiresAssumption DEF BlockOK
  <2>5. \A b \in Agents, v \in Users :
          charTab'[b][v] = IF b = a /\ v = u THEN s ELSE charTab[b][v]
    BY <1>1, <2>1, <2>2, <2>3, TableTypes
  <2>6. CharacterOnly(a, s, TRUE)
    <3>1. CharacterPut(a, s, TRUE)
      BY <2>1, <2>2 DEF CharacterPut
    <3>2. TRUE \in BOOLEAN /\ a \in Agents /\ s \in Slots
      BY <1>1, <2>2
    <3> QED
      BY <3>1, <3>2, CharacterSet
  <2>7. TablesInv'
    <3>1. PICK ch \in BOOLEAN : ch = TRUE
      OBVIOUS
    <3>2. ch => slots[a][s].conn # NoConn
      BY <2>2
    <3>3. CharacterOnly(a, s, ch)
      BY <2>6, <3>1
    <3>4. ByCharacterOnly(a, u, s, ch)
      BY <2>5, <3>1 DEF ByCharacterOnly
    <3>5. UNCHANGED <<free, connTab, userTab, anet, entered>>
      BY <2>1
    <3> QED
      BY <1>1, <2>2, <2>3, <2>4, <3>2, <3>3, <3>4, <3>5, TablesCharacter
  <2>8. a \in Agents /\ s \in Slots /\ userTab' = userTab
    BY <1>1, <2>1, <2>2
  <2>9. SessionsStay
    BY <2>6, <2>8, CharacterStays
  <2> QED
    BY <2>7, <2>9
<1>6. CASE Reap(c)
  <2>1. connTab[c] # NoSlot /\ slots[a][connTab[c]].conn = NoConn
    BY <1>6 DEF Reap, ReapUnconnected
  <2> QED
    BY <2>1, EntryOfConn
<1> QED
  BY <1>2, <1>3, <1>4, <1>5, <1>6 DEF ConnectionOfAgent, GoneFromAgent

LEMMA TablesMap ==
  ASSUME TypeOK, TablesInv, NEW a \in Agents, NEW u \in Users, MapToAgent(a, u)
  PROVE  TablesInv' /\ SessionsStay
<1>1. UNCHANGED entered
  BY DEF MapToAgent, clientVars
<1>2. CASE LoginCheckDeleteFromMap(a, u)
  <2>1. UNCHANGED <<slots, free, connTab, userTab, charTab, anet>>
    BY <1>2 DEF LoginCheckDeleteFromMap
  <2> QED
    BY <1>1, <2>1, QuietTables
<1>3. CASE BackToCharSel(a, u)
  <2>1. /\ UNCHANGED <<free, connTab, userTab, anet>> /\ charTab[a][u] # NoSlot
        /\ charTab' = [charTab EXCEPT ![a][u] = NoSlot]
        /\ slots' = [slots EXCEPT ![a][charTab[a][u]].char = FALSE]
    BY <1>3 DEF BackToCharSel
  <2>2. charTab[a][u] = userTab[a][u]
    BY <2>1, TablesTaken DEF CharOK
  <2>3. PICK s \in Slots \ free[a] : s = userTab[a][u] /\ slots[a][s].user = u
    BY <2>1, <2>2, EntryOfUser
  <2>4. \A b \in Agents, v \in Users :
          charTab'[b][v] = IF b = a /\ v = u THEN NoSlot ELSE charTab[b][v]
    BY <2>1, TableTypes
  <2>5. CharacterOnly(a, s, FALSE)
    <3>1. CharacterPut(a, s, FALSE)
      BY <2>1, <2>2, <2>3 DEF CharacterPut
    <3>2. FALSE \in BOOLEAN /\ s \in Slots
      BY <2>3
    <3> QED
      BY <3>1, <3>2, CharacterSet
  <2>6. TablesInv'
    <3>1. PICK ch \in BOOLEAN : ch = FALSE
      OBVIOUS
    <3>2. ch => slots[a][s].conn # NoConn
      BY <3>1
    <3>3. CharacterOnly(a, s, ch)
      BY <2>5, <3>1
    <3>4. ByCharacterOnly(a, u, s, ch)
      BY <2>4, <3>1 DEF ByCharacterOnly
    <3>5. UNCHANGED <<free, connTab, userTab, anet, entered>>
      BY <1>1, <2>1
    <3> QED
      BY <2>3, <3>2, <3>3, <3>4, <3>5, TablesCharacter
  <2>7. a \in Agents /\ s \in Slots /\ userTab' = userTab
    BY <2>1, <2>3
  <2>8. SessionsStay
    BY <2>5, <2>7, CharacterStays
  <2> QED
    BY <2>6, <2>8
<1> QED
  BY <1>2, <1>3 DEF MapToAgent

(* The three messages that end a session.  Two of them do not ask whether  *)
(* it is connected: that nobody is is for the keys to say.                 *)
LEMMA TablesEnded ==
  ASSUME TypeOK, TablesInv, NEW d \in Dists, NEW a \in Agents, NEW m, m = Head(toAgent[d][a]),
         NotifyAlreadyOut(d, a) \/ DisconnectedDuringLogin(d, a) \/ ForceDisconnectOverlapLogin(d, a),
         UNCHANGED entered,
         userTab[a][m.user] # NoSlot =>
           \/ m.type = "force"
           \/ m.type = "alreadyout" /\ Session(a, m.user).key # m.key
           \/ m.type = "disconnected_on_login" /\ Session(a, m.user).dkey # m.key
           \/ Session(a, m.user).conn = NoConn
  PROVE  TablesInv' /\ SessionsStay
<1>1. toAgent[d][a] # <<>>
  BY DEF NotifyAlreadyOut, DisconnectedDuringLogin, ForceDisconnectOverlapLogin, AReceives
<1>2. PICK u \in Users : u = m.user
  BY <1>1, HeadToAgent, ToAgentFields
<1>3. CASE /\ userTab[a][u] # NoSlot /\ slots[a][userTab[a][u]].conn = NoConn /\ DropAccount(a, u)
           /\ UNCHANGED <<connTab, charTab, anet>>
  BY <1>3, DropStays
<1>4. CASE UNCHANGED <<slots, free, connTab, userTab, charTab, anet>>
  BY <1>4, QuietTables
<1>5. CASE NotifyAlreadyOut(d, a)
  <2>1. /\ m.type = "alreadyout" /\ UNCHANGED <<connTab, charTab, anet>>
        /\ \/ userTab[a][u] # NoSlot /\ slots[a][userTab[a][u]].key = m.key /\ DropAccount(a, u)
           \/ UNCHANGED <<slots, free, userTab>>
    BY <1>2, <1>5 DEF NotifyAlreadyOut, AReceives
  <2> QED
    BY <1>2, <1>3, <1>4, <2>1 DEF Session
<1>6. CASE DisconnectedDuringLogin(d, a)
  <2>1. /\ m.type = "disconnected_on_login" /\ UNCHANGED <<connTab, charTab, anet>>
        /\ \/ userTab[a][u] # NoSlot /\ slots[a][userTab[a][u]].dkey = m.key /\ DropAccount(a, u)
           \/ UNCHANGED <<slots, free, userTab>>
    BY <1>2, <1>6 DEF DisconnectedDuringLogin, AReceives
  <2> QED
    BY <1>2, <1>3, <1>4, <2>1 DEF Session
<1>7. CASE ForceDisconnectOverlapLogin(d, a)
  <2>1. CASE /\ userTab[a][u] # NoSlot /\ slots[a][userTab[a][u]].conn # NoConn
             /\ OnDisconnectUser(slots[a][userTab[a][u]].conn)
             /\ anet' = [anet EXCEPT ![slots[a][userTab[a][u]].conn] = "closing"]
    <3>1. userTab[a][u] \in Slots
      BY <2>1, EntryOfUser
    <3>2. PICK c \in AConns : c = slots[a][userTab[a][u]].conn
      BY <2>1, <3>1, TableTypes
    <3>3. OnDisconnectUser(c) /\ anet' = [anet EXCEPT ![c] = "closing"]
      BY <2>1, <3>2
    <3>4. \A e \in AConns : anet'[e] = "free" => anet[e] = "free" \/ e = c
      BY <3>3, TableTypes
    <3> QED
      BY <3>3, <3>4, TablesOnDisconnect, DisconnectStays
  <2> QED
    BY <1>2, <1>3, <1>4, <1>7, <2>1 DEF ForceDisconnectOverlapLogin
<1> QED
  BY <1>5, <1>6, <1>7

(* A ticket is turned down, or connects the session it was made for. *)
ConnectedBy(c, u) ==
  LET a == AgentOf[c] IN
  /\ userTab[a][u] # NoSlot /\ userTab'[a][u] = userTab[a][u]
  /\ slots'[a][userTab[a][u]].key = slots[a][userTab[a][u]].key
  /\ slots'[a][userTab[a][u]].dkey = slots[a][userTab[a][u]].dkey
  /\ slots'[a][userTab[a][u]].conn = c
  /\ \A b \in Agents, v \in Users : b # a \/ v # u => SessionStays(b, v)

LEMMA TablesTicket ==
  ASSUME TypeOK, TablesInv, NEW c \in AConns, NEW u \in Users, NEW key, CharacterlistSyn(c, u, key),
         c \notin entered, entered' = entered \cup {c},
         HeldUnder(AgentOf[c], u, key) => Session(AgentOf[c], u).conn = NoConn
  PROVE  TablesInv' /\ (SessionsStay \/ (HeldUnder(AgentOf[c], u, key) /\ ConnectedBy(c, u)))
<1>1. PICK a \in Agents : a = AgentOf[c]
  BY TableTypes
<1>2. CASE OnDisconnectUser(c) /\ anet' = [anet EXCEPT ![c] = "closing"]
  <2>1. \A e \in AConns : anet'[e] = "free" => anet[e] = "free" \/ e = c
    BY <1>2, TableTypes
  <2> QED
    BY <1>2, <2>1, TablesOnDisconnect, DisconnectStays
<1>3. CASE UNCHANGED <<slots, free, connTab, userTab, charTab, anet>>
  BY <1>3, QuietTables
<1>4. CASE /\ HeldUnder(a, u, key) /\ connTab[c] # NoSlot
           /\ slots' = [slots EXCEPT ![a][userTab[a][u]].conn = c]
           /\ free' = [free EXCEPT ![a] = @ \cup {connTab[c]}]
           /\ connTab' = [connTab EXCEPT ![c] = userTab[a][u]]
           /\ UNCHANGED <<userTab, charTab, anet>>
  <2>1. PICK s, pre : s = userTab[a][u] /\ pre = connTab[c]
    OBVIOUS
  <2>2. s # NoSlot /\ slots[a][s].conn = NoConn
    BY <1>1, <1>4, <2>1 DEF HeldUnder, Session
  <2>3. s \in Slots \ free[a] /\ slots[a][s].user = u
    BY <2>1, <2>2, EntryOfUser
  <2>4. /\ slots' = [slots EXCEPT ![a][s].conn = c]
        /\ free' = [free EXCEPT ![a] = @ \cup {pre}]
        /\ connTab' = [connTab EXCEPT ![c] = s] /\ pre # NoSlot
    BY <1>4, <2>1
  <2>5. TablesInv'
    <3>1. UNCHANGED <<userTab, charTab, anet>> /\ entered \subseteq entered' /\ c \in entered'
      BY <1>4
    <3> QED
      BY <1>1, <2>1, <2>2, <2>4, <3>1, TablesConnected
  <2>6. \A b \in Agents, t \in Slots :
           /\ slots'[b][t].key = slots[b][t].key
           /\ slots'[b][t].dkey = slots[b][t].dkey
           /\ slots'[b][t].conn = IF b = a /\ t = s THEN c ELSE slots[b][t].conn
    <3>1. a \in Agents /\ s \in Slots
      BY <1>1, <2>3, TableTypes
    <3>2. ConnectionPut(a, s, c)
      BY <2>4 DEF ConnectionPut
    <3>3. ConnectedOnly(a, s, c)
      BY <3>1, <3>2, ConnectionSet
    <3> QED
      BY <3>3 DEF ConnectedOnly
  <2>7. ASSUME NEW b \in Agents, NEW v \in Users, b # a \/ v # u
        PROVE  SessionStays(b, v)
    <3>1. userTab[b][v] # NoSlot => userTab[b][v] \in Slots /\ slots[b][userTab[b][v]].user = v
      BY EntryOfUser
    <3>2. userTab[b][v] # NoSlot => b # a \/ userTab[b][v] # s
      BY <2>3, <2>7, <3>1
    <3> QED
      BY <1>4, <2>6, <3>1, <3>2 DEF SessionStays
  <2>8. ConnectedBy(c, u)
    <3>1. a \in Agents /\ userTab[a][u] # NoSlot /\ userTab'[a][u] = userTab[a][u]
      BY <1>1, <1>4, <2>1, <2>2, TableTypes
    <3>2. /\ slots'[a][userTab[a][u]].key = slots[a][userTab[a][u]].key
          /\ slots'[a][userTab[a][u]].dkey = slots[a][userTab[a][u]].dkey
          /\ slots'[a][userTab[a][u]].conn = c
      BY <2>1, <2>3, <2>6, <3>1
    <3> QED
      BY <1>1, <2>7, <3>1, <3>2 DEF ConnectedBy
  <2> QED
    BY <1>1, <1>4, <2>5, <2>8
<1> QED
  BY <1>1, <1>2, <1>3, <1>4 DEF CharacterlistSyn

-----------------------------------------------------------------------------
(* The mail of an agent. *)
LEMMA MailForAgent ==
  ASSUME NEW ms, SynsFrom(ms), NEW a \in Agents
  PROVE  ForAgent(a)' \subseteq ForAgent(a) \cup ms
<1>1. SUFFICES ASSUME NEW m \in ForAgent(a)', m \notin ms
               PROVE  m \in ForAgent(a)
  OBVIOUS
<1>2. PICK d \in Dists : \E i \in 1..Len(toAgent'[d][a]) : m = toAgent'[d][a][i]
  BY <1>1 DEF ForAgent
<1>3. \E j \in 1..Len(toAgent[d][a]) : m = toAgent[d][a][j]
  BY <1>1, <1>2 DEF SynsFrom
<1> QED
  BY <1>3 DEF ForAgent

LEMMA MailFromAgent ==
  ASSUME NEW ns, AnswersFrom(ns), NEW a \in Agents
  PROVE  FromAgent(a)' \subseteq FromAgent(a) \cup ns
<1>1. SUFFICES ASSUME NEW m \in FromAgent(a)', m \notin ns
               PROVE  m \in FromAgent(a)
  OBVIOUS
<1>2. PICK d \in Dists : \E i \in 1..Len(toDist'[a][d]) : m = toDist'[a][d][i]
  BY <1>1 DEF FromAgent
<1>3. \E j \in 1..Len(toDist[a][d]) : m = toDist[a][d][j]
  BY <1>1, <1>2 DEF AnswersFrom
<1> QED
  BY <1>3 DEF FromAgent

LEMMA MailTypes ==
  ASSUME TypeOK, NEW a \in Agents
  PROVE  ForAgent(a) \subseteq ToAgentMsg /\ FromAgent(a) \subseteq ToDistMsg
<1>1. \A d \in Dists : toAgent[d][a] \in Seq(ToAgentMsg) /\ toDist[a][d] \in Seq(ToDistMsg)
  BY DEF TypeOK, WiresTypeOK
<1>2. \A d \in Dists : /\ \A i \in 1..Len(toAgent[d][a]) : toAgent[d][a][i] \in ToAgentMsg
                       /\ \A i \in 1..Len(toDist[a][d]) : toDist[a][d][i] \in ToDistMsg
  BY <1>1
<1> QED
  BY <1>2 DEF ForAgent, FromAgent

(* The first message of a link is among the mail. *)
LEMMA HeadsAreMail ==
  ASSUME TypeOK, NEW d \in Dists, NEW a \in Agents
  PROVE  /\ toAgent[d][a] # <<>> => Head(toAgent[d][a]) \in ForAgent(a)
         /\ toDist[a][d] # <<>> => Head(toDist[a][d]) \in FromAgent(a)
<1>1. toAgent[d][a] \in Seq(ToAgentMsg) /\ toDist[a][d] \in Seq(ToDistMsg)
  BY DEF TypeOK, WiresTypeOK
<1>2. /\ toAgent[d][a] # <<>> => 1 \in 1..Len(toAgent[d][a]) /\ Head(toAgent[d][a]) = toAgent[d][a][1]
      /\ toDist[a][d] # <<>> => 1 \in 1..Len(toDist[a][d]) /\ Head(toDist[a][d]) = toDist[a][d][1]
  BY <1>1
<1> QED
  BY <1>2 DEF ForAgent, FromAgent

(* What is sent to one agent, or by one agent, is no other agent's mail. *)
LEMMA MailSent ==
  ASSUME TypeOK, NEW d \in Dists, NEW a \in Agents, NEW m \in ToAgentMsg, SendToAgent(d, a, m),
         NEW b \in Agents, b # a
  PROVE  ForAgent(b)' = ForAgent(b)
<1>1. \A f \in Dists : toAgent'[f][b] = toAgent[f][b]
  BY DEF TypeOK, WiresTypeOK, SendToAgent
<1> QED
  BY <1>1 DEF ForAgent

LEMMA AnswerSent ==
  ASSUME TypeOK, NEW d \in Dists, NEW a \in Agents, NEW m \in ToDistMsg, SendToDist(a, d, m),
         NEW b \in Agents, b # a
  PROVE  FromAgent(b)' = FromAgent(b)
<1>1. \A f \in Dists : toDist'[b][f] = toDist[b][f]
  BY DEF TypeOK, WiresTypeOK, SendToDist
<1> QED
  BY <1>1 DEF FromAgent

(* Every key in use is one that a distribute server has handed out. *)
LEMMA KeysAreKnown ==
  ASSUME Inv, OneServer
  PROVE  /\ \A dc \in DConns : KeyKnown(duser[dc].key)
         /\ \A t \in Tickets : KeyKnown(t.key) /\ t.dc \in DConns
         /\ \A a \in Agents : \A m \in Syns(a) \cup FromAgent(a) : KeyKnown(m.key) /\ m.dc \in DConns
<1>1. \A dc \in DConns : KeysOlder(dc) /\ nextKey[DistOf[dc]] \in Nat
  BY WiresAssumption DEF Inv, LoginInOrder, InOrder, TypeOK, DistributeTypeOK
<1>2. \A e, dc \in DConns : nextKey[DistOf[e]] = nextKey[DistOf[dc]]
  BY DEF OneServer
<1>3. \A dc \in DConns : \A k \in 1..(nextKey[DistOf[dc]] - 1) : KeyKnown(k)
  BY <1>1, <1>2 DEF KeyKnown
<1>4. \A dc \in DConns : KeyKnown(duser[dc].key)
  BY <1>1, <1>2 DEF KeyKnown, KeysOlder, Inv, TypeOK, DistributeTypeOK, DUser
<1>5. ASSUME NEW t \in Tickets
      PROVE  KeyKnown(t.key) /\ t.dc \in DConns
  <2>1. t.dc \in DConns
    BY DEF Inv, TypeOK, Ticket, Tickets
  <2> QED
    BY <1>1, <1>3, <2>1 DEF KeysOlder, Tickets
<1>6. ASSUME NEW a \in Agents, NEW m \in Syns(a)
      PROVE  KeyKnown(m.key) /\ m.dc \in DConns
  <2>1. m.type = "userlogin_syn" /\ m \in ForAgent(a)
    BY DEF Syns
  <2>2. m.dc \in DConns
    BY <2>1, MailTypes, ToAgentFields DEF Inv
  <2>3. PICK d \in Dists : \E i \in 1..Len(toAgent[d][a]) : m = toAgent[d][a][i]
    BY <2>1 DEF ForAgent
  <2>4. m.key \in 1..(nextKey[DistOf[m.dc]] - 1)
    BY <1>1, <2>1, <2>2, <2>3 DEF KeysOlder
  <2> QED
    BY <1>3, <2>2, <2>4
<1>7. ASSUME NEW a \in Agents, NEW m \in FromAgent(a)
      PROVE  KeyKnown(m.key) /\ m.dc \in DConns
  <2>1. m.dc \in DConns
    BY MailTypes, ToDistFields DEF Inv
  <2>2. PICK d \in Dists : \E i \in 1..Len(toDist[a][d]) : m = toDist[a][d][i]
    BY DEF FromAgent
  <2>3. m.key \in 1..(nextKey[DistOf[m.dc]] - 1)
    BY <1>1, <2>1, <2>2 DEF KeysOlder
  <2> QED
    BY <1>3, <2>1, <2>3
<1> QED
  BY <1>4, <1>5, <1>6, <1>7

(* A key is borne by the clients, the tickets and the mail alone. *)
LEMMA BearersKnown ==
  ASSUME Inv, OneServer, NEW dc \in DConns, NEW k, Bears(dc, k)
  PROVE  KeyKnown(k)
BY KeysAreKnown DEF Bears, Serves

(* One server is who the keys of two clients differ by. *)
LEMMA TwoBearers ==
  ASSUME OneBearer, NEW c \in DConns, NEW d \in DConns, NEW k, Bears(c, k), Bears(d, k)
  PROVE  c = d
BY DEF OneBearer

(* Nobody gets a key, and nothing is about a client that nothing was about. *)
BearersFollow ==
  /\ \A e \in DConns : duser'[e].key = duser[e].key \/ duser'[e].key = 0
  /\ \A t \in Tickets' : Bears(t.dc, t.key)
  /\ \A a \in Agents : \A m \in Syns(a)' \cup FromAgent(a)' : Bears(m.dc, m.key)

LEMMA BearersKept ==
  ASSUME OneBearer, BearersFollow
  PROVE  OneBearer'
<1>1. ASSUME NEW k, NEW e \in DConns, Bears(e, k)'
      PROVE  Bears(e, k)
  <2>1. CASE Serves(e, k)'
    BY <2>1 DEF BearersFollow, Serves, HasUser, Bears
  <2>2. CASE \E t \in Tickets' : t.key = k /\ t.dc = e
    BY <2>2 DEF BearersFollow
  <2>3. CASE \E a \in Agents : \E m \in Syns(a)' \cup FromAgent(a)' : m.key = k /\ m.dc = e
    BY <2>3 DEF BearersFollow
  <2> QED
    BY <1>1, <2>1, <2>2, <2>3 DEF Bears
<1> QED
  BY <1>1 DEF OneBearer

-----------------------------------------------------------------------------
(* Most steps hand no key out, add no ticket and send nothing that is      *)
(* about a client with a ticket.                                           *)
QuietKeys ==
  /\ \A e \in DConns : duser'[e].key = duser[e].key
  /\ UNCHANGED <<nextKey, nextAKey>>
  /\ acked' \subseteq acked /\ spent \subseteq spent' /\ Tickets' \subseteq Tickets
  /\ \A a \in Agents :
       /\ \A m \in Syns(a)' :
            m \in Syns(a) \/ (m.dc \in DConns /\ Serves(m.dc, m.key) /\ NoTicket(m.dc))
       /\ Outs(a)' \subseteq Outs(a) /\ Lefts(a)' \subseteq Lefts(a)
       /\ \A m \in FromAgent(a)' :
            m \in FromAgent(a) \/ (m.type # "userlogin_ack" /\ Bears(m.dc, m.key))

LEMMA NoTicketHere ==
  ASSUME OneBearer, NEW dc \in DConns, NoTicket(dc), HasUser(dc), NEW t \in Tickets, t.dc \in DConns
  PROVE  t.key # duser[dc].key
<1>1. SUFFICES ASSUME t.key = duser[dc].key
               PROVE  FALSE
  OBVIOUS
<1>2. Bears(dc, t.key) /\ Bears(t.dc, t.key)
  BY <1>1 DEF Bears, Serves
<1>3. t.dc = dc
  BY <1>2, TwoBearers
<1> QED
  BY <1>1, <1>3 DEF NoTicket, Current, Tickets

LEMMA QuietKeysFit ==
  ASSUME KeysFit, QuietKeys, LeavingForgets', \A t \in Tickets : t.dc \in DConns
  PROVE  KeysFit'
<1>1. \A a \in Agents : \A m \in Acks(a)' : m \in Acks(a)
  BY DEF QuietKeys, Acks
<1>2. \A k : Live(k)' => Live(k)
  BY DEF QuietKeys, Live, Serves, HasUser
<1>3. \A k : NotUsable(k) => NotUsable(k)'
  BY <1>2 DEF NotUsable, QuietKeys
<1>4. \A k : KeyKnown(k) => KeyKnown(k)'
  BY DEF KeyKnown, QuietKeys
<1>5. OneBearer'
  <2>1. \A t \in Tickets' : Bears(t.dc, t.key)
    BY DEF QuietKeys, Bears
  <2>2. \A a \in Agents : \A m \in Syns(a)' \cup FromAgent(a)' : Bears(m.dc, m.key)
    BY DEF QuietKeys, Bears
  <2> QED
    BY <2>1, <2>2, BearersKept DEF KeysFit, QuietKeys, BearersFollow
<1>6. OneTicket'
  BY DEF KeysFit, OneTicket, QuietKeys
<1>7. Unticketed'
  <2>1. SUFFICES ASSUME NEW a \in Agents, NEW m \in Syns(a)' \cup Acks(a)', NEW t \in Tickets'
                 PROVE  t.key # m.key
    BY DEF Unticketed
  <2>2. t \in Tickets
    BY DEF QuietKeys
  <2>3. CASE m \in Syns(a) \cup Acks(a)
    BY <2>2, <2>3 DEF KeysFit, Unticketed
  <2>4. CASE m \notin Syns(a) \cup Acks(a)
    <3>1. m.dc \in DConns /\ Serves(m.dc, m.key) /\ NoTicket(m.dc)
      BY <1>1, <2>1, <2>4 DEF QuietKeys
    <3> QED
      BY <2>2, <3>1, NoTicketHere DEF Serves, KeysFit
  <2> QED
    BY <2>3, <2>4
<1>8. LeftForGood'
  BY <1>3, <1>4 DEF KeysFit, LeftForGood, QuietKeys
<1>9. OutsKnown'
  BY <1>1 DEF KeysFit, OutsKnown, QuietKeys
<1> QED
  BY <1>5, <1>6, <1>7, <1>8, <1>9 DEF KeysFit

LEMMA QuietFits ==
  ASSUME KeysFit, QuietKeys, \A t \in Tickets : t.dc \in DConns,
         NEW a \in Agents, NEW key, NEW dkey, NEW conn, Fits(a, key, dkey, conn)
  PROVE  Fits(a, key, dkey, conn)'
<1>1. \A b \in Agents : \A m \in Acks(b)' : m \in Acks(b)
  BY DEF QuietKeys, Acks
<1>2. Live(dkey)' => Live(dkey)
  BY DEF QuietKeys, Live, Serves, HasUser
<1>3. NotUsable(dkey) => NotUsable(dkey)'
  BY <1>2 DEF NotUsable, QuietKeys
<1>4. KeyKnown(dkey)'
  BY DEF KeyKnown, QuietKeys, Fits
<1>5. ASSUME Settled(dkey)
      PROVE  Settled(dkey)'
  <2>1. \A t \in acked' : t.key # dkey
    BY <1>5 DEF Settled, QuietKeys
  <2>2. ASSUME NEW b \in Agents, NEW m \in Syns(b)' \cup Acks(b)' \cup Lefts(b)'
        PROVE  m.key # dkey
    <3>1. CASE m \in Syns(b) \cup Acks(b) \cup Lefts(b)
      BY <1>5, <3>1 DEF Settled
    <3>2. CASE m \notin Syns(b) \cup Acks(b) \cup Lefts(b)
      <4>1. m.dc \in DConns /\ Serves(m.dc, m.key) /\ NoTicket(m.dc)
        BY <1>1, <2>2, <3>2 DEF QuietKeys
      <4>2. m.key = dkey => \E t \in spent : t.dc = m.dc /\ t.key = dkey
        BY <1>5, <4>1 DEF Settled
      <4> QED
        BY <4>1, <4>2 DEF NoTicket, Current, Serves
    <3> QED
      BY <3>1, <3>2
  <2>3. \A dc \in DConns : Serves(dc, dkey)' => \E t \in spent' : t.dc = dc /\ t.key = dkey
    BY <1>5 DEF Settled, QuietKeys, Serves, HasUser
  <2> QED
    BY <2>1, <2>2, <2>3 DEF Settled
<1>6. key < nextAKey'[a]
  BY DEF Fits, QuietKeys
<1>7. \A m \in Outs(a)' : m.key = key => conn = NoConn /\ NotUsable(dkey)'
  BY <1>3 DEF Fits, QuietKeys
<1>8. \A m \in Acks(a)' : m.akey = key => m.key = dkey
  BY <1>1 DEF Fits
<1> QED
  BY <1>4, <1>5, <1>6, <1>7, <1>8 DEF Fits

LEMMA StayingSession ==
  ASSUME NEW a \in Agents, NEW u \in Users, SessionStays(a, u),
         NEW key, NEW dkey, NEW conn, SessionIs(a, u, key, dkey, conn)'
  PROVE  SessionIs(a, u, key, dkey, conn)
BY DEF SessionStays, SessionIs, Session

LEMMA QuietSessions ==
  ASSUME Inv, OneServer, KeysFit, SessionsFit, QuietKeys, SessionsStay, LeavingForgets'
  PROVE  KeysFit' /\ SessionsFit'
<1>1. \A t \in Tickets : t.dc \in DConns
  BY KeysAreKnown
<1>2. ASSUME NEW a \in Agents, NEW u \in Users, NEW key, NEW dkey, NEW conn,
             SessionIs(a, u, key, dkey, conn)'
      PROVE  Fits(a, key, dkey, conn)'
  <2>1. SessionIs(a, u, key, dkey, conn)
    BY <1>2, StayingSession DEF SessionsStay
  <2>2. Fits(a, key, dkey, conn)
    BY <2>1 DEF SessionsFit
  <2> QED
    BY <1>1, <2>2, QuietFits
<1> QED
  BY <1>1, <1>2, QuietKeysFit DEF SessionsFit

(* A client that is told to leave has no ticket. *)
LEMMA LeavingKept ==
  ASSUME LeavingForgets, Tickets' \subseteq Tickets,
         \A e \in DConns : duser'[e].key = duser[e].key /\ (duser[e].out => duser'[e].out),
         \A e \in DConns : dnet'[e] = "closing" =>
           dnet[e] = "closing" \/ duser'[e].out \/ NoTicket(e) \/ NoTicket(e)'
  PROVE  LeavingForgets'
<1>1. SUFFICES ASSUME NEW e \in DConns, (dnet[e] = "closing" /\ ~duser[e].out /\ HasUser(e))',
                      NEW t \in Tickets', t.dc = e, t.key = duser'[e].key
               PROVE  FALSE
  BY DEF LeavingForgets, TicketsOf
<1>2. t \in Tickets /\ Current(e, t)
  BY <1>1 DEF Current
<1>3. ~NoTicket(e) /\ ~NoTicket(e)'
  BY <1>1, <1>2 DEF NoTicket, Tickets, Current
<1>4. dnet[e] = "closing" /\ ~duser[e].out /\ HasUser(e)
  BY <1>1, <1>3 DEF HasUser
<1>5. TicketsOf(e, Tickets) = {}
  BY <1>4 DEF LeavingForgets
<1> QED
  BY <1>2, <1>5 DEF TicketsOf, Current

-----------------------------------------------------------------------------
(* A key is handed out: it is nobody's yet. *)
LEMMA SameMail ==
  ASSUME UNCHANGED linkVars, NEW a \in Agents
  PROVE  ForAgent(a)' = ForAgent(a) /\ FromAgent(a)' = FromAgent(a)
BY DEF linkVars, ForAgent, FromAgent

LEMMA KeysDAccept ==
  ASSUME SInv, OneServer, KeysFit, SessionsFit, NEW dc \in DConns, DAccept(dc),
         UNCHANGED <<agentVars, clientVars>>
  PROVE  KeysFit' /\ SessionsFit'
<1> DEFINE n == nextKey[DistOf[dc]]
<1>1. n \in Nat /\ Inv
  BY WiresAssumption DEF SInv, Inv, TypeOK, DistributeTypeOK
<1>2. /\ \A e \in DConns : duser'[e] = IF e = dc THEN [NoDUser EXCEPT !.key = n] ELSE duser[e]
      /\ dnet'[dc] = "open" /\ \A e \in DConns : e # dc => dnet'[e] = dnet[e]
      /\ \A e \in DConns : nextKey'[DistOf[e]] = n + 1
  <2>1. nextKey' = [nextKey EXCEPT ![DistOf[dc]] = n + 1] /\ \A e \in DConns : DistOf[e] = DistOf[dc]
    BY DEF DAccept, OneServer
  <2>2. \A e \in DConns : nextKey'[DistOf[e]] = n + 1
    BY <2>1, WiresAssumption DEF SInv, Inv, TypeOK, DistributeTypeOK
  <2>3. \A e \in DConns : duser'[e] = IF e = dc THEN [NoDUser EXCEPT !.key = n] ELSE duser[e]
    BY DEF DAccept, SInv, Inv, TypeOK, DistributeTypeOK
  <2>4. dnet'[dc] = "open" /\ \A e \in DConns : e # dc => dnet'[e] = dnet[e]
    BY DEF DAccept, SInv, Inv, TypeOK, DistributeTypeOK
  <2> QED
    BY <2>2, <2>3, <2>4
<1>3. UNCHANGED <<acked, spent, nextAKey, slots, userTab>> /\ UNCHANGED linkVars
  BY DEF DAccept, clientVars, agentVars
<1>4. \A a \in Agents : ForAgent(a)' = ForAgent(a) /\ FromAgent(a)' = FromAgent(a)
  BY <1>3, SameMail
<1>5. \A k : KeyKnown(k) => KeyKnown(k)' /\ k # n
  <2>1. SUFFICES ASSUME NEW k \in Nat, KeyKnown(k)
                 PROVE  KeyKnown(k)' /\ k # n
    BY DEF KeyKnown
  <2>2. k < n
    BY <2>1 DEF KeyKnown
  <2> QED
    BY <1>1, <1>2, <2>2 DEF KeyKnown
<1>6. \A e \in DConns : \A k : Serves(e, k)' => Serves(e, k) \/ (e = dc /\ k = n)
  <2>1. SUFFICES ASSUME NEW e \in DConns, NEW k, Serves(e, k)'
                 PROVE  Serves(e, k) \/ (e = dc /\ k = n)
    OBVIOUS
  <2>2. duser'[e].key = k /\ duser'[e].key # 0
    BY <2>1 DEF Serves, HasUser
  <2>3. CASE e = dc
    BY <1>2, <2>2, <2>3 DEF NoDUser
  <2>4. CASE e # dc
    BY <1>2, <2>2, <2>4 DEF Serves, HasUser
  <2> QED
    BY <2>3, <2>4
<1>7. \A k : KeyKnown(k) => (Live(k)' => Live(k))
  BY <1>5, <1>6 DEF Live
<1>8. \A k : KeyKnown(k) => (NotUsable(k) => NotUsable(k)')
  BY <1>3, <1>7 DEF NotUsable
<1>9. OneBearer'
  <2>1. \A e \in DConns : \A k : Bears(e, k)' => Bears(e, k) \/ (e = dc /\ k = n)
    BY <1>3, <1>4, <1>6 DEF Bears, Tickets, Syns
  <2>2. \A e \in DConns : ~Bears(e, n)
    BY <1>1, <1>5, BearersKnown
  <2>3. ASSUME NEW k, NEW c \in DConns, NEW d \in DConns, Bears(c, k)', Bears(d, k)'
        PROVE  c = d
    <3>1. CASE k = n
      BY <2>1, <2>2, <2>3, <3>1
    <3>2. CASE k # n
      BY <2>1, <2>3, <3>2, TwoBearers DEF KeysFit
    <3> QED
      BY <3>1, <3>2
  <2> QED
    BY <2>3 DEF OneBearer
<1>10. OneTicket' /\ Unticketed' /\ OutsKnown'
  BY <1>3, <1>4 DEF KeysFit, OneTicket, Unticketed, OutsKnown, Tickets, Syns, Acks, Outs
<1>11. LeavingForgets'
  <2>1. SUFFICES ASSUME NEW e \in DConns, (dnet[e] = "closing" /\ ~duser[e].out /\ HasUser(e))'
                 PROVE  TicketsOf(e, Tickets)' = {}
    BY DEF LeavingForgets, TicketsOf, Tickets
  <2>2. e # dc
    BY <1>2, <2>1
  <2>3. dnet[e] = "closing" /\ ~duser[e].out /\ HasUser(e)
    BY <1>2, <2>1, <2>2 DEF HasUser
  <2> QED
    BY <1>2, <1>3, <2>2, <2>3 DEF KeysFit, LeavingForgets, TicketsOf, Tickets
<1>12. LeftForGood'
  BY <1>4, <1>5, <1>8 DEF KeysFit, LeftForGood, Lefts
<1>13. ASSUME NEW a \in Agents, NEW u \in Users, NEW key, NEW dkey, NEW conn,
              SessionIs(a, u, key, dkey, conn)'
       PROVE  Fits(a, key, dkey, conn)'
  <2>1. SessionIs(a, u, key, dkey, conn)
    BY <1>3, <1>13 DEF SessionIs, Session
  <2>2. Fits(a, key, dkey, conn)
    BY <2>1 DEF SessionsFit
  <2>3. KeyKnown(dkey) /\ KeyKnown(dkey)'
    BY <1>5, <2>2 DEF Fits
  <2>4. \A e \in DConns : Serves(e, dkey)' => Serves(e, dkey)
    BY <1>5, <1>6, <2>3
  <2>5. Settled(dkey) => Settled(dkey)'
    BY <1>3, <1>4, <2>4 DEF Settled, Syns, Acks, Lefts
  <2> QED
    BY <1>3, <1>4, <1>8, <2>2, <2>3, <2>5 DEF Fits, Outs, Acks
<1> QED
  BY <1>9, <1>10, <1>11, <1>12, <1>13 DEF KeysFit, SessionsFit

(* The answer to a login that is no longer wanted is sent back. *)
LEMMA KeysAckTooLate ==
  ASSUME SInv, OneServer, KeysFit, SessionsFit, NEW d \in Dists, NEW a \in Agents,
         AckTooLate(d, a), UNCHANGED <<agentVars, clientVars>>
  PROVE  KeysFit' /\ SessionsFit'
<1>1. PICK m : m = Head(toDist[a][d])
  OBVIOUS
<1>2. /\ Receives(d, a, "userlogin_ack") /\ toDist[a][d] # <<>> /\ m.type = "userlogin_ack"
      /\ ~Matches(m.dc, m.key) /\ SendToAgent(d, a, AlreadyOut(m.user, m.akey))
      /\ UNCHANGED <<duser, dnet, nextKey>>
  BY <1>1 DEF AckTooLate, Receives, distVars
<1>3. TypeOK /\ Inv /\ UNCHANGED <<acked, spent, nextAKey, slots, userTab>>
  BY DEF SInv, Inv, clientVars, agentVars
<1>4. m \in Acks(a) /\ m \in ToDistMsg /\ m \in FromAgent(a)
  BY <1>1, <1>2, <1>3, HeadsAreMail, HeadToDist DEF Acks
<1>5. PICK n : n = AlreadyOut(m.user, m.akey)
  OBVIOUS
<1>6. n \in ToAgentMsg /\ n.type = "alreadyout" /\ n.key = m.akey
  BY <1>2, <1>4, <1>5, ToDistFields DEF AlreadyOut, ToAgentMsg
<1>7. /\ \A b \in Agents : ForAgent(b)' \subseteq ForAgent(b) \cup {n}
      /\ \A b \in Agents : b # a => ForAgent(b)' = ForAgent(b)
      /\ \A b \in Agents : FromAgent(b)' \subseteq FromAgent(b)
  <2>1. SynsFrom({n}) /\ AnswersFrom({})
    BY <1>2, <1>3, <1>5, <1>6, ToAgentSent, ToDistTaken
  <2>2. \A b \in Agents : FromAgent(b)' \subseteq FromAgent(b)
    BY <2>1, MailFromAgent
  <2>3. \A b \in Agents : b # a => ForAgent(b)' = ForAgent(b)
    BY <1>2, <1>3, <1>5, <1>6, MailSent
  <2> QED
    BY <2>1, <2>2, <2>3, MailForAgent
<1>8. \A b \in Agents : /\ Syns(b)' \subseteq Syns(b) /\ Lefts(b)' \subseteq Lefts(b)
                        /\ Acks(b)' \subseteq Acks(b) /\ Outs(b)' \subseteq Outs(b) \cup {n}
                        /\ b # a => Outs(b)' = Outs(b)
  BY <1>6, <1>7 DEF Syns, Lefts, Acks, Outs
<1>9. \A e \in DConns : \A k : Serves(e, k)' <=> Serves(e, k)
  BY <1>2 DEF Serves, HasUser
<1>10. \A k : (KeyKnown(k) => KeyKnown(k)') /\ (NotUsable(k) => NotUsable(k)')
  BY <1>2, <1>3, <1>9 DEF KeyKnown, NotUsable, Live
<1>11. NotUsable(m.key)
  <2>1. ASSUME NEW e \in DConns, Serves(e, m.key)
        PROVE  FALSE
    <3>1. Bears(m.dc, m.key) /\ m.dc \in DConns
      BY <1>4, ToDistFields DEF Bears
    <3>2. e = m.dc
      BY <2>1, <3>1, TwoBearers DEF Bears, KeysFit
    <3> QED
      BY <1>2, <2>1, <3>2 DEF Serves, Matches
  <2>2. \A t \in acked : t.key # m.key
    BY <1>4 DEF KeysFit, Unticketed, Tickets
  <2> QED
    BY <2>1, <2>2 DEF NotUsable, Live
<1>12. KeysFit'
  <2>1. OneBearer'
    <3>1. BearersFollow
      BY <1>2, <1>3, <1>7, <1>8 DEF BearersFollow, Bears, Tickets
    <3> QED
      BY <3>1, BearersKept DEF KeysFit
  <2>2. OneTicket' /\ Unticketed'
    BY <1>3, <1>8 DEF KeysFit, OneTicket, Unticketed, Tickets
  <2>3. LeavingForgets'
    BY <1>2, <1>3 DEF KeysFit, LeavingForgets, TicketsOf, HasUser, Tickets
  <2>4. LeftForGood'
    BY <1>8, <1>10 DEF KeysFit, LeftForGood
  <2>5. OutsKnown'
    BY <1>3, <1>4, <1>6, <1>8 DEF KeysFit, OutsKnown
  <2> QED
    BY <2>1, <2>2, <2>3, <2>4, <2>5 DEF KeysFit
<1>13. ASSUME NEW b \in Agents, NEW u \in Users, NEW key, NEW dkey, NEW conn,
              SessionIs(b, u, key, dkey, conn)'
       PROVE  Fits(b, key, dkey, conn)'
  <2>1. SessionIs(b, u, key, dkey, conn)
    BY <1>3, <1>13 DEF SessionIs, Session
  <2>2. Fits(b, key, dkey, conn)
    BY <2>1 DEF SessionsFit
  <2>3. Settled(dkey) => Settled(dkey)'
    BY <1>3, <1>8, <1>9 DEF Settled
  <2>4. ASSUME NEW q \in Outs(b)', q.key = key
        PROVE  conn = NoConn /\ NotUsable(dkey)'
    <3>1. CASE q \in Outs(b)
      BY <1>10, <2>2, <2>4, <3>1 DEF Fits
    <3>2. CASE q \notin Outs(b)
      <4>1. b = a /\ q = n
        BY <1>8, <2>4, <3>2
      <4>2. m.key = dkey
        BY <1>4, <1>6, <2>2, <2>4, <4>1 DEF Fits
      <4>3. ~Settled(dkey)
        BY <1>4, <4>2 DEF Settled
      <4> QED
        BY <1>10, <1>11, <2>2, <4>2, <4>3 DEF Fits
    <3> QED
      BY <3>1, <3>2
  <2>5. \A q \in Acks(b)' : q.akey = key => q.key = dkey
    BY <1>8, <2>2 DEF Fits
  <2> QED
    BY <1>3, <1>10, <2>2, <2>3, <2>4, <2>5 DEF Fits
<1> QED
  BY <1>12, <1>13 DEF SessionsFit

(* The client takes its ticket. *)
LEMMA KeysTakeTicket ==
  ASSUME SInv, OneServer, KeysFit, SessionsFit, NEW d \in Dists, NEW a \in Agents, TakeTicket(d, a)
  PROVE  KeysFit' /\ SessionsFit'
<1>1. PICK m : m = Head(toDist[a][d])
  OBVIOUS
<1>2. /\ Receives(d, a, "userlogin_ack") /\ toDist[a][d] # <<>> /\ m.type = "userlogin_ack"
      /\ Matches(m.dc, m.key) /\ UNCHANGED <<dnet, nextKey, toAgent, spent>>
      /\ duser' = [duser EXCEPT ![m.dc].del = ~@]
  BY <1>1 DEF TakeTicket, AckDelivered, Receives
<1>3. TypeOK /\ Inv /\ UNCHANGED <<nextAKey, slots, userTab>>
  BY DEF SInv, Inv, TakeTicket, agentVars
<1>4. m \in Acks(a) /\ m \in FromAgent(a) /\ m.dc \in DConns
  BY <1>1, <1>2, <1>3, HeadsAreMail, HeadToDist, ToDistFields DEF Acks
<1>5. PICK t : t = [user |-> m.user, agent |-> a, key |-> m.key, dc |-> m.dc]
  OBVIOUS
<1>6. /\ t.key = m.key /\ t.dc = m.dc
      /\ acked' = acked \/ (acked' = acked \cup {t} /\ dnet[m.dc] = "open")
  BY <1>1, <1>5 DEF TakeTicket
<1>7. \A b \in Agents : ForAgent(b)' = ForAgent(b) /\ FromAgent(b)' \subseteq FromAgent(b)
  <2>1. AnswersFrom({})
    BY <1>2, <1>3, ToDistTaken
  <2> QED
    BY <1>2, <2>1, MailFromAgent DEF ForAgent
<1>8. \A b \in Agents : /\ Syns(b)' = Syns(b) /\ Lefts(b)' = Lefts(b) /\ Outs(b)' = Outs(b)
                        /\ Acks(b)' \subseteq Acks(b)
  BY <1>7 DEF Syns, Lefts, Acks, Outs
<1>9. \A e \in DConns : duser'[e].key = duser[e].key /\ duser'[e].out = duser[e].out
  BY <1>2, <1>3, <1>4 DEF TypeOK, DistributeTypeOK, DUser
<1>10. \A e \in DConns : \A k : Serves(e, k)' <=> Serves(e, k)
  BY <1>9 DEF Serves, HasUser
<1>11. Serves(m.dc, m.key)
  BY <1>2 DEF Matches, Serves
<1>12. \A k : k # m.key => (NotUsable(k) => NotUsable(k)')
  BY <1>6, <1>10 DEF NotUsable, Live
<1>13. \A k : NotUsable(k) => k # m.key
  BY <1>4, <1>11 DEF NotUsable, Live
<1>14. \A k : KeyKnown(k) => KeyKnown(k)'
  BY <1>2 DEF KeyKnown
<1>15. Tickets' \subseteq Tickets \cup {t}
  BY <1>2, <1>6 DEF Tickets
<1>16. \A b \in Agents : \A q \in Syns(b)' \cup Acks(b)' : q.key # m.key
  <2>1. SUFFICES ASSUME NEW b \in Agents, NEW q \in Syns(b)' \cup Acks(b)', q.key = m.key
                 PROVE  FALSE
    OBVIOUS
  <2>2. q.dc \in DConns /\ Bears(q.dc, m.key)
    <3>1. q \in Syns(b) \cup FromAgent(b)
      BY <1>8 DEF Acks
    <3> QED
      BY <1>3, <2>1, <3>1, KeysAreKnown DEF Bears
  <2>3. q.dc = m.dc /\ q.key = duser[m.dc].key
    BY <1>4, <1>11, <2>1, <2>2, TwoBearers DEF Bears, Serves, KeysFit
  <2>4. OneAnnouncement(m.dc)
    BY <1>3, <1>4 DEF Inv, LoginInOrder, InOrder
  <2>5. CASE q \in Acks(b)'
    <3>1. PICK f \in Dists : \E i \in 1..Len(toDist'[b][f]) : q = toDist'[b][f][i]
      BY <2>5 DEF Acks, FromAgent
    <3>2. Current(m.dc, q) /\ Current(m.dc, m)
      BY <2>1, <2>3 DEF Current
    <3> QED
      BY <1>1, <1>2, <1>3, <1>4, <2>4, <3>1, <3>2, AnswerTaken
  <2>6. CASE q \in Syns(b)
    <3>1. PICK f \in Dists : \E i \in 1..Len(toAgent[f][b]) : q = toAgent[f][b][i]
      BY <2>6 DEF Syns, ForAgent
    <3>2. SynOf(m.dc, q) /\ Current(m.dc, m)
      BY <2>1, <2>3, <2>6 DEF Current, SynOf, Syns
    <3>3. 1 \in 1..Len(toDist[a][d]) /\ m = toDist[a][d][1]
      BY <1>1, <1>2, <1>3 DEF TypeOK, WiresTypeOK
    <3> QED
      BY <2>4, <3>1, <3>2, <3>3 DEF OneAnnouncement
  <2> QED
    BY <1>8, <2>1, <2>5, <2>6
<1>17. KeysFit'
  <2>1. OneBearer'
    <3>1. BearersFollow
      BY <1>4, <1>6, <1>7, <1>8, <1>9, <1>11, <1>15 DEF BearersFollow, Bears
    <3> QED
      BY <3>1, BearersKept DEF KeysFit
  <2>2. \A r \in Tickets : r.key # t.key
    BY <1>4, <1>6 DEF KeysFit, Unticketed
  <2>3. OneTicket'
    BY <1>15, <2>2 DEF KeysFit, OneTicket
  <2>4. Unticketed'
    BY <1>6, <1>8, <1>15, <1>16 DEF KeysFit, Unticketed
  <2>5. LeavingForgets'
    <3>1. SUFFICES ASSUME NEW e \in DConns, (dnet[e] = "closing" /\ ~duser[e].out /\ HasUser(e))',
                          NEW r \in Tickets', r.dc = e, r.key = duser'[e].key
                   PROVE  FALSE
      BY DEF LeavingForgets, TicketsOf
    <3>2. dnet[e] = "closing" /\ ~duser[e].out /\ HasUser(e)
      BY <1>2, <1>9, <3>1 DEF HasUser
    <3>3. r = t /\ r \notin Tickets
      BY <1>9, <1>15, <3>1, <3>2 DEF KeysFit, LeavingForgets, TicketsOf
    <3>4. dnet[m.dc] = "open"
      BY <1>2, <1>6, <3>1, <3>3 DEF Tickets
    <3> QED
      BY <1>6, <3>1, <3>2, <3>3, <3>4
  <2>6. LeftForGood'
    BY <1>8, <1>12, <1>13, <1>14 DEF KeysFit, LeftForGood
  <2>7. OutsKnown'
    BY <1>3, <1>8 DEF KeysFit, OutsKnown
  <2> QED
    BY <2>1, <2>3, <2>4, <2>5, <2>6, <2>7 DEF KeysFit
<1>18. ASSUME NEW b \in Agents, NEW u \in Users, NEW key, NEW dkey, NEW conn,
              SessionIs(b, u, key, dkey, conn)'
       PROVE  Fits(b, key, dkey, conn)'
  <2>1. SessionIs(b, u, key, dkey, conn)
    BY <1>3, <1>18 DEF SessionIs, Session
  <2>2. Fits(b, key, dkey, conn)
    BY <2>1 DEF SessionsFit
  <2>3. ASSUME Settled(dkey)
        PROVE  Settled(dkey)'
    <3>1. m.key # dkey
      BY <1>4, <2>3 DEF Settled
    <3>2. \A r \in acked' : r.key # dkey
      BY <1>6, <2>3, <3>1 DEF Settled
    <3> QED
      BY <1>2, <1>8, <1>10, <2>3, <3>2 DEF Settled
  <2>4. \A q \in Outs(b)' : q.key = key => conn = NoConn /\ NotUsable(dkey)'
    BY <1>8, <1>12, <1>13, <2>2 DEF Fits
  <2> QED
    BY <1>3, <1>8, <1>14, <2>2, <2>3, <2>4 DEF Fits
<1> QED
  BY <1>17, <1>18 DEF SessionsFit

(* A client is gone.  Unless it said so its agent is told, and then it has *)
(* no ticket.                                                              *)
LEMMA KeysLeft ==
  ASSUME SInv, OneServer, KeysFit, SessionsFit, NEW dc \in DConns, LeftDistribute(dc)
  PROVE  KeysFit' /\ SessionsFit'
<1>1. TypeOK /\ Inv /\ UNCHANGED <<nextKey, toDist, acked, nextAKey, slots, userTab>>
  BY DEF SInv, Inv, LeftDistribute, DDisconnected, agentVars
<1>2. /\ \A e \in DConns : duser'[e] = IF e = dc THEN NoDUser ELSE duser[e]
      /\ dnet[dc] = "closing" /\ dnet'[dc] = "free" /\ \A e \in DConns : e # dc => dnet'[e] = dnet[e]
      /\ spent' = spent \ TicketsOf(dc, spent) /\ HasUser(dc)
  BY <1>1 DEF LeftDistribute, DDisconnected, TypeOK, DistributeTypeOK, SInv, NetAgrees
<1>3. PICK k : k = duser[dc].key
  OBVIOUS
<1>4. Serves(dc, k) /\ KeyKnown(k) /\ k # 0
  BY <1>1, <1>2, <1>3, KeysAreKnown DEF Serves, HasUser
<1>5. \A e \in DConns : \A j : Serves(e, j)' <=> e # dc /\ Serves(e, j)
  BY <1>2 DEF Serves, HasUser, NoDUser
<1>6. \A b \in Agents : /\ FromAgent(b)' = FromAgent(b)
                        /\ Syns(b)' \subseteq Syns(b) /\ Outs(b)' \subseteq Outs(b)
                        /\ \A m \in Lefts(b)' : m \in Lefts(b) \/ (m.key = k /\ ~duser[dc].out)
  <2>1. \A b \in Agents : FromAgent(b)' = FromAgent(b)
    BY <1>1 DEF FromAgent
  <2>2. CASE UNCHANGED toAgent
    BY <2>1, <2>2 DEF Syns, Outs, Lefts, ForAgent
  <2>3. CASE /\ duser[dc].user # NoUser /\ ~duser[dc].out
             /\ Broadcast2AgentServer(DistOf[dc], DisconnectedOnLogin(duser[dc].user, duser[dc].key))
    <3>1. PICK n : n = DisconnectedOnLogin(duser[dc].user, duser[dc].key)
      OBVIOUS
    <3>2. duser[dc].user \in Users /\ duser[dc].key \in Nat
      BY <1>1, <2>3 DEF TypeOK, DistributeTypeOK, DUser
    <3>3. n \in ToAgentMsg /\ n.type = "disconnected_on_login" /\ n.key = k
      BY <1>3, <3>1, <3>2 DEF DisconnectedOnLogin, ToAgentMsg
    <3>4. SynsFrom({n})
      BY <1>1, <2>3, <3>1, <3>3, WiresAssumption, ToAgentBroadcast
    <3>5. \A b \in Agents : ForAgent(b)' \subseteq ForAgent(b) \cup {n}
      BY <3>4, MailForAgent
    <3> QED
      BY <2>1, <2>3, <3>3, <3>5 DEF Syns, Outs, Lefts
  <2> QED
    BY <2>2, <2>3 DEF LeftDistribute, DDisconnected
<1>7. \A b \in Agents : Acks(b)' = Acks(b)
  BY <1>6 DEF Acks
<1>8. Tickets' \subseteq Tickets /\ acked' = acked
  BY <1>1, <1>2 DEF Tickets
<1>9. \A j : (KeyKnown(j) => KeyKnown(j)') /\ (NotUsable(j) => NotUsable(j)')
  BY <1>1, <1>5 DEF KeyKnown, NotUsable, Live
<1>10. ~duser[dc].out => \A t \in Tickets : t.key # k
  <2>1. SUFFICES ASSUME ~duser[dc].out, NEW t \in Tickets, t.key = k
                 PROVE  FALSE
    OBVIOUS
  <2>2. t.dc \in DConns /\ Bears(t.dc, k) /\ Bears(dc, k)
    BY <1>1, <1>4, <2>1, KeysAreKnown DEF Bears
  <2>3. t.dc = dc
    BY <2>2, TwoBearers DEF KeysFit
  <2> QED
    BY <1>2, <1>3, <2>1, <2>3 DEF KeysFit, LeavingForgets, TicketsOf
<1>11. ~duser[dc].out => NotUsable(k)'
  <2>1. \A e \in DConns : Serves(e, k) => e = dc
    BY <1>4, TwoBearers DEF Bears, KeysFit
  <2>2. ~Live(k)'
    BY <1>5, <2>1 DEF Live
  <2> QED
    BY <1>8, <1>10, <2>2 DEF NotUsable, Tickets
<1>12. KeysFit'
  <2>1. OneBearer'
    <3>1. \A e \in DConns : duser'[e].key = duser[e].key \/ duser'[e].key = 0
      BY <1>2 DEF NoDUser
    <3>2. BearersFollow
      BY <1>6, <1>8, <3>1 DEF BearersFollow, Bears
    <3> QED
      BY <3>2, BearersKept DEF KeysFit
  <2>2. OneTicket' /\ Unticketed'
    BY <1>6, <1>7, <1>8 DEF KeysFit, OneTicket, Unticketed
  <2>3. LeavingForgets'
    <3>1. SUFFICES ASSUME NEW e \in DConns, (dnet[e] = "closing" /\ ~duser[e].out /\ HasUser(e))',
                          NEW r \in Tickets', r.dc = e, r.key = duser'[e].key
                   PROVE  FALSE
      BY DEF LeavingForgets, TicketsOf
    <3>2. e # dc
      BY <1>2, <3>1
    <3>3. dnet[e] = "closing" /\ ~duser[e].out /\ HasUser(e) /\ duser'[e].key = duser[e].key
      BY <1>2, <3>1, <3>2 DEF HasUser
    <3> QED
      BY <1>8, <3>1, <3>3 DEF KeysFit, LeavingForgets, TicketsOf
  <2>4. LeftForGood'
    BY <1>4, <1>6, <1>9, <1>11 DEF KeysFit, LeftForGood
  <2>5. OutsKnown'
    BY <1>1, <1>6, <1>7 DEF KeysFit, OutsKnown
  <2> QED
    BY <2>1, <2>2, <2>3, <2>4, <2>5 DEF KeysFit
<1>13. ASSUME NEW b \in Agents, NEW u \in Users, NEW key, NEW dkey, NEW conn,
              SessionIs(b, u, key, dkey, conn)'
       PROVE  Fits(b, key, dkey, conn)'
  <2>1. SessionIs(b, u, key, dkey, conn)
    BY <1>1, <1>13 DEF SessionIs, Session
  <2>2. Fits(b, key, dkey, conn)
    BY <2>1 DEF SessionsFit
  <2>3. ASSUME Settled(dkey)
        PROVE  Settled(dkey)'
    <3>1. ~duser[dc].out => k # dkey
      BY <1>4, <1>10, <2>3 DEF Settled, Tickets
    <3>2. \A a \in Agents : \A m \in Syns(a)' \cup Acks(a)' \cup Lefts(a)' : m.key # dkey
      BY <1>6, <1>7, <2>3, <3>1 DEF Settled
    <3>3. ASSUME NEW e \in DConns, Serves(e, dkey)'
          PROVE  \E t \in spent' : t.dc = e /\ t.key = dkey
      <4>1. e # dc /\ Serves(e, dkey)
        BY <1>5, <3>3
      <4>2. PICK t \in spent : t.dc = e /\ t.key = dkey
        BY <2>3, <4>1 DEF Settled
      <4>3. t \in spent'
        BY <1>2, <4>1, <4>2 DEF TicketsOf
      <4> QED
        BY <4>2, <4>3
    <3> QED
      BY <1>8, <2>3, <3>2, <3>3 DEF Settled
  <2> QED
    BY <1>1, <1>6, <1>7, <1>9, <2>2, <2>3 DEF Fits
<1> QED
  BY <1>12, <1>13 DEF SessionsFit

(* The agent reserves a session for a login it is told of. *)
LEMMA KeysReserved ==
  ASSUME SInv, OneServer, KeysFit, SessionsFit, TablesInv, NEW d \in Dists, NEW a \in Agents,
         NEW m, m = Head(toAgent[d][a]), AReceives(d, a, "userlogin_syn"),
         nextAKey' = [nextAKey EXCEPT ![a] = @ + 1],
         SendToDist(a, d, UserLoginAck(m.user, m.key, nextAKey[a], m.dc)),
         UNCHANGED <<distVars, clientVars, connTab, charTab, anet>>,
         NEW s \in Slots, ReservedAt(a, m, s)
  PROVE  KeysFit' /\ SessionsFit'
<1>1. TypeOK /\ Inv /\ UNCHANGED <<duser, dnet, nextKey, acked, spent, entered>>
  BY DEF SInv, Inv, distVars, clientVars
<1>2. toAgent[d][a] # <<>> /\ m.type = "userlogin_syn"
  BY DEF AReceives
<1>3. m \in Syns(a) /\ m \in ToAgentMsg
  BY <1>1, <1>2, HeadsAreMail, HeadToAgent DEF Syns
<1>4. m.user \in Users /\ m.key \in Nat /\ m.dc \in DConns
  BY <1>2, <1>3, ToAgentFields
<1>5. nextAKey[a] \in Nat /\ nextAKey'[a] = nextAKey[a] + 1
      /\ \A b \in Agents : b # a => nextAKey'[b] = nextAKey[b]
  BY <1>1 DEF TypeOK, AgentTypeOK
<1>6. PICK n : n = UserLoginAck(m.user, m.key, nextAKey[a], m.dc)
  OBVIOUS
<1>7. /\ n \in ToDistMsg /\ n.type = "userlogin_ack"
      /\ n.key = m.key /\ n.akey = nextAKey[a] /\ n.dc = m.dc
  BY <1>4, <1>5, <1>6 DEF UserLoginAck, ToDistMsg
<1>8. /\ \A b \in Agents : ForAgent(b)' \subseteq ForAgent(b)
      /\ \A b \in Agents : FromAgent(b)' \subseteq FromAgent(b) \cup {n}
      /\ \A b \in Agents : b # a => FromAgent(b)' = FromAgent(b)
  <2>1. SynsFrom({}) /\ AnswersFrom({n})
    BY <1>1, <1>6, <1>7, ToAgentTaken, ToDistSent
  <2>2. \A b \in Agents : ForAgent(b)' \subseteq ForAgent(b)
    BY <2>1, MailForAgent
  <2>3. \A b \in Agents : b # a => FromAgent(b)' = FromAgent(b)
    BY <1>1, <1>6, <1>7, AnswerSent
  <2> QED
    BY <2>1, <2>2, <2>3, MailFromAgent
<1>9. \A b \in Agents : /\ Syns(b)' \subseteq Syns(b) /\ Lefts(b)' \subseteq Lefts(b)
                        /\ Outs(b)' \subseteq Outs(b) /\ Acks(b)' \subseteq Acks(b) \cup {n}
                        /\ b # a => Acks(b)' = Acks(b)
  BY <1>8 DEF Syns, Lefts, Outs, Acks
<1>10. \A e \in DConns : \A k : Serves(e, k)' <=> Serves(e, k)
  BY <1>1 DEF Serves, HasUser
<1>11. \A k : (KeyKnown(k) => KeyKnown(k)') /\ (NotUsable(k) => NotUsable(k)')
  BY <1>1, <1>10 DEF KeyKnown, NotUsable, Live
<1>12. UNCHANGED Tickets
  BY <1>1 DEF Tickets
<1>13. \A b \in Agents : \A q \in Acks(b) : q.akey \in Nat
  BY <1>1, MailTypes, ToDistFields DEF Acks
<1>14. \A b \in Agents : \A q \in Outs(b) : q.key \in Nat
  BY <1>1, MailTypes, ToAgentFields DEF Outs
<1>15. KeysFit'
  <2>1. OneBearer'
    <3>1. BearersFollow
      BY <1>1, <1>3, <1>7, <1>8, <1>9, <1>12 DEF BearersFollow, Bears
    <3> QED
      BY <3>1, BearersKept DEF KeysFit
  <2>2. OneTicket' /\ Unticketed'
    BY <1>3, <1>7, <1>9, <1>12 DEF KeysFit, OneTicket, Unticketed
  <2>3. LeavingForgets'
    BY <1>1, <1>12 DEF KeysFit, LeavingForgets, TicketsOf, HasUser
  <2>4. LeftForGood'
    BY <1>9, <1>11 DEF KeysFit, LeftForGood
  <2>5. ASSUME NEW b \in Agents
        PROVE  /\ \A q \in Outs(b)' : q.key < nextAKey'[b]
               /\ \A q \in Acks(b)' : q.akey < nextAKey'[b]
    <3>1. /\ \A q \in Outs(b) : q.key < nextAKey[b]
          /\ \A q \in Acks(b) : q.akey < nextAKey[b]
      BY DEF KeysFit, OutsKnown
    <3>2. CASE b = a
      <4>1. \A q \in Outs(a) : q.key < nextAKey'[a]
        BY <1>5, <1>14, <3>1, <3>2
      <4>2. \A q \in Acks(a) : q.akey < nextAKey'[a]
        BY <1>5, <1>13, <3>1, <3>2
      <4>3. n.akey < nextAKey'[a]
        BY <1>5, <1>7
      <4> QED
        BY <1>9, <3>2, <4>1, <4>2, <4>3
    <3>3. CASE b # a
      BY <1>5, <1>9, <3>1, <3>3
    <3> QED
      BY <3>2, <3>3
  <2> QED
    BY <2>1, <2>2, <2>3, <2>4, <2>5 DEF KeysFit, OutsKnown
<1>16. ASSUME NEW b \in Agents, NEW u \in Users, NEW key, NEW dkey, NEW conn,
              SessionIs(b, u, key, dkey, conn)'
       PROVE  Fits(b, key, dkey, conn)'
  <2>1. /\ \A c \in Agents, v \in Users : c # a \/ v # m.user => SessionStays(c, v)
        /\ userTab'[a][m.user] = s /\ slots'[a][s] = NewSession(a, m)
    BY <1>1, <1>4, ReservedStays
  <2>2. CASE b = a /\ u = m.user
    <3>1. key = nextAKey[a] /\ dkey = m.key /\ conn = NoConn
      BY <1>16, <2>1, <2>2 DEF SessionIs, Session, NewSession, Zero
    <3>2. KeyKnown(dkey)'
      BY <1>1, <1>3, <1>11, <3>1, KeysAreKnown
    <3>3. \A q \in Outs(a)' : q.key # key
      BY <1>5, <1>9, <1>14, <3>1 DEF KeysFit, OutsKnown
    <3>4. \A q \in Acks(a)' : q.akey = key => q.key = dkey
      BY <1>5, <1>7, <1>9, <1>13, <3>1 DEF KeysFit, OutsKnown
    <3>5. key \in Nat /\ key < nextAKey'[a]
      BY <1>5, <3>1
    <3> QED
      BY <2>2, <3>1, <3>2, <3>3, <3>4, <3>5 DEF Fits
  <2>3. CASE b # a \/ u # m.user
    <3>1. SessionIs(b, u, key, dkey, conn)
      BY <1>16, <2>1, <2>3, StayingSession
    <3>2. Fits(b, key, dkey, conn)
      BY <3>1 DEF SessionsFit
    <3>3. ASSUME Settled(dkey)
          PROVE  Settled(dkey)'
      <4>1. m.key # dkey
        BY <1>3, <3>3 DEF Settled
      <4> QED
        BY <1>1, <1>7, <1>9, <1>10, <3>3, <4>1 DEF Settled
    <3>4. key \in Nat /\ key < nextAKey[b] /\ key < nextAKey'[b]
      BY <1>5, <3>2 DEF Fits
    <3>5. \A q \in Acks(b)' : q.akey = key => q.key = dkey
      BY <1>5, <1>7, <1>9, <3>2, <3>4 DEF Fits
    <3> QED
      BY <1>9, <1>11, <3>2, <3>3, <3>4, <3>5 DEF Fits
  <2> QED
    BY <2>2, <2>3
<1> QED
  BY <1>15, <1>16 DEF SessionsFit

(* A ticket connects the session it was made for: the session has used     *)
(* the key up.                                                             *)
LEMMA KeysConnected ==
  ASSUME SInv, OneServer, KeysFit, SessionsFit, NEW c \in AConns, NEW t \in acked, ShowTicket(c, t),
         HeldUnder(AgentOf[c], t.user, t.key), ConnectedBy(c, t.user)
  PROVE  KeysFit' /\ SessionsFit'
<1>1. PICK a \in Agents : a = AgentOf[c]
  BY WiresAssumption
<1>2. TypeOK /\ Inv /\ UNCHANGED <<duser, dnet, nextKey, nextAKey, toAgent, toDist>>
  BY DEF SInv, Inv, ShowTicket, CharacterlistSyn, distVars, linkVars
<1>3. acked' = acked \ {t} /\ spent' = IF duser[t.dc].key = t.key THEN spent \cup {t} ELSE spent
  BY DEF ShowTicket
<1>4. t \in Tickets /\ t.user \in Users /\ Tickets' \subseteq Tickets
  BY <1>2, <1>3 DEF Tickets, TypeOK, Ticket
<1>5. QuietKeys
  <2>1. \A b \in Agents : ForAgent(b)' = ForAgent(b) /\ FromAgent(b)' = FromAgent(b)
    BY <1>2 DEF ForAgent, FromAgent
  <2> QED
    BY <1>2, <1>3, <1>4, <2>1 DEF QuietKeys, Syns, Outs, Lefts
<1>6. LeavingForgets'
  BY <1>2, <1>4, LeavingKept DEF KeysFit
<1>7. \A r \in Tickets : r.dc \in DConns
  BY <1>2, KeysAreKnown
<1>8. ASSUME NEW b \in Agents, NEW u \in Users, NEW key, NEW dkey, NEW conn,
             SessionIs(b, u, key, dkey, conn)'
      PROVE  Fits(b, key, dkey, conn)'
  <2>1. CASE b # a \/ u # t.user
    <3>1. SessionStays(b, u)
      BY <1>1, <2>1 DEF ConnectedBy
    <3>2. SessionIs(b, u, key, dkey, conn)
      BY <1>8, <3>1, StayingSession
    <3>3. Fits(b, key, dkey, conn)
      BY <3>2 DEF SessionsFit
    <3> QED
      BY <1>5, <1>7, <3>3, QuietFits
  <2>2. CASE b = a /\ u = t.user
    <3>1. SessionIs(a, u, key, dkey, Session(a, u).conn) /\ dkey = t.key
      BY <1>1, <1>8, <2>2 DEF SessionIs, Session, ConnectedBy, HeldUnder
    <3>2. PICK old : old = Session(a, u).conn
      OBVIOUS
    <3>3. Fits(a, key, dkey, old)
      BY <3>1, <3>2 DEF SessionsFit
    <3>4. Fits(a, key, dkey, old)'
      BY <1>5, <1>7, <3>3, QuietFits
    <3>5. Settled(dkey)'
      <4>1. \A r \in acked' : r.key # dkey
        BY <1>3, <1>4, <3>1 DEF KeysFit, OneTicket, Tickets
      <4>2. ~NotUsable(dkey)
        BY <3>1 DEF NotUsable
      <4>3. \A e \in Agents : \A m \in Syns(e) \cup Acks(e) \cup Lefts(e) : m.key # dkey
        BY <1>4, <3>1, <4>2 DEF KeysFit, Unticketed, LeftForGood
      <4>4. \A e \in Agents : \A m \in Syns(e)' \cup Acks(e)' \cup Lefts(e)' : m.key # dkey
        BY <1>2, <4>3 DEF Syns, Acks, Lefts, ForAgent, FromAgent
      <4>5. ASSUME NEW e \in DConns, Serves(e, dkey)'
            PROVE  \E r \in spent' : r.dc = e /\ r.key = dkey
        <5>1. Serves(e, dkey)
          BY <1>2, <4>5 DEF Serves, HasUser
        <5>2. Bears(e, dkey) /\ Bears(t.dc, dkey)
          BY <1>4, <3>1, <5>1 DEF Bears
        <5>3. t.dc = e
          BY <1>4, <1>7, <5>2, TwoBearers DEF KeysFit
        <5> QED
          BY <1>3, <3>1, <5>1, <5>3 DEF Serves
      <4> QED
        BY <4>1, <4>4, <4>5 DEF Settled
    <3>6. \A m \in Outs(a)' : m.key # key
      <4>1. \A m \in Outs(a) : m.key # key
        BY <3>1, <3>3 DEF Fits, NotUsable
      <4> QED
        BY <1>2, <4>1 DEF Outs, ForAgent
    <3> QED
      BY <2>2, <3>4, <3>5, <3>6 DEF Fits
  <2> QED
    BY <2>1, <2>2
<1> QED
  BY <1>5, <1>6, <1>7, <1>8, QuietKeysFit DEF SessionsFit

-----------------------------------------------------------------------------
(* The other steps of a distribute server. *)
LEMMA DistQuiet ==
  ASSUME KInv, OneServer, UNCHANGED <<agentVars, nextKey, spent, entered>>,
         \A e \in DConns : duser'[e].key = duser[e].key /\ (duser[e].out => duser'[e].out),
         acked' \subseteq acked,
         NEW ms, SynsFrom(ms),
         \A m \in ms : \/ m.type = "force"
                       \/ /\ m.type = "userlogin_syn" /\ m.dc \in DConns
                          /\ Serves(m.dc, m.key) /\ NoTicket(m.dc),
         AnswersFrom({}),
         \A e \in DConns : dnet'[e] = "closing" =>
           dnet[e] = "closing" \/ duser'[e].out \/ NoTicket(e) \/ NoTicket(e)'
  PROVE  TablesInv' /\ KeysFit' /\ SessionsFit'
<1>1. UNCHANGED <<slots, free, connTab, userTab, charTab, anet, nextAKey>>
  BY DEF agentVars
<1>2. TablesInv' /\ SessionsStay
  BY <1>1, QuietTables DEF KInv
<1>3. Tickets' \subseteq Tickets
  BY DEF Tickets
<1>4. LeavingForgets'
  BY <1>3, LeavingKept DEF KInv, KeysFit
<1>5. QuietKeys
  <2>1. \A a \in Agents : ForAgent(a)' \subseteq ForAgent(a) \cup ms /\ FromAgent(a)' \subseteq FromAgent(a)
    BY MailForAgent, MailFromAgent
  <2>2. \A a \in Agents : Outs(a)' \subseteq Outs(a) /\ Lefts(a)' \subseteq Lefts(a)
    BY <2>1 DEF Outs, Lefts
  <2>3. \A a \in Agents : \A m \in Syns(a)' :
          m \in Syns(a) \/ (m.dc \in DConns /\ Serves(m.dc, m.key) /\ NoTicket(m.dc))
    BY <2>1 DEF Syns
  <2> QED
    BY <1>1, <1>3, <2>1, <2>2, <2>3 DEF QuietKeys
<1> QED
  BY <1>2, <1>4, <1>5, QuietSessions DEF KInv, SInv

(* The network state of the client that is told to leave. *)
LEMMA HungUp ==
  ASSUME DistributeTypeOK, NEW dc \in DConns, Hangup(dc)
  PROVE  \A e \in DConns : dnet'[e] = "closing" => dnet[e] = "closing" \/ e = dc
BY DEF Hangup, DistributeTypeOK

LEMMA KeysLoginSyn ==
  ASSUME KInv, OneServer, NEW dc \in DConns, NEW u \in Users, LoginSyn(dc, u),
         UNCHANGED <<agentVars, clientVars>>
  PROVE  TablesInv' /\ KeysFit' /\ SessionsFit'
<1>1. Inv /\ TypeOK /\ DistributeTypeOK /\ LoginInOrder
  BY DEF KInv, SInv, Inv, TypeOK
<1>2. UNCHANGED <<duser, nextKey, acked, spent, entered, toAgent, toDist>>
  BY DEF LoginSyn, linkVars, clientVars
<1>3. NoTicket(dc)
  BY <1>1, Exclusive DEF LoginSyn, Idle, LoginInOrder
<1>4. \A e \in DConns : dnet'[e] = "closing" => dnet[e] = "closing" \/ NoTicket(e)
  BY <1>1, <1>3, HungUp DEF LoginSyn
<1>5. SynsFrom({}) /\ AnswersFrom({})
  BY <1>1, <1>2, ToAgentStays, ToDistStays
<1> QED
  BY <1>2, <1>4, <1>5, DistQuiet

LEMMA KeysForceOverlap ==
  ASSUME KInv, OneServer, NEW dc \in DConns, ForceOverlap(dc), UNCHANGED <<agentVars, clientVars>>
  PROVE  TablesInv' /\ KeysFit' /\ SessionsFit'
<1>1. Inv /\ TypeOK /\ DistributeTypeOK /\ LoginInOrder
  BY DEF KInv, SInv, Inv, TypeOK
<1>2. UNCHANGED <<duser, nextKey, acked, spent, entered, toDist>>
  BY DEF ForceOverlap, clientVars
<1>3. NoTicket(dc)
  BY <1>1, Exclusive DEF ForceOverlap, Idle, LoginInOrder
<1>4. \A e \in DConns : dnet'[e] = "closing" => dnet[e] = "closing" \/ NoTicket(e)
  BY <1>1, <1>3, HungUp DEF ForceOverlap
<1>5. AnswersFrom({})
  BY <1>1, <1>2, ToDistStays
<1>6. CASE UNCHANGED toAgent
  <2>1. SynsFrom({})
    BY <1>1, <1>6, ToAgentStays
  <2> QED
    BY <1>2, <1>4, <1>5, <2>1, DistQuiet
<1>7. CASE /\ duser[dc].user # NoUser
           /\ Broadcast2AgentServer(DistOf[dc], ForceDisconnect(duser[dc].user))
  <2>1. PICK m : m = ForceDisconnect(duser[dc].user)
    OBVIOUS
  <2>2. m \in ToAgentMsg /\ m.type = "force"
    BY <1>1, <1>7, <2>1 DEF ForceDisconnect, ToAgentMsg, DistributeTypeOK, DUser
  <2>3. SynsFrom({m})
    BY <1>1, <1>7, <2>1, <2>2, WiresAssumption, ToAgentBroadcast
  <2> QED
    BY <1>2, <1>4, <1>5, <2>2, <2>3, DistQuiet
<1> QED
  BY <1>6, <1>7 DEF ForceOverlap

LEMMA KeysResult ==
  ASSUME KInv, OneServer, NEW r \in results, RLoginCheckQuery(r), UNCHANGED <<agentVars, clientVars>>
  PROVE  TablesInv' /\ KeysFit' /\ SessionsFit'
<1>1. Inv /\ TypeOK /\ DistributeTypeOK /\ LoginInOrder
  BY DEF KInv, SInv, Inv, TypeOK
<1>2. r.type = "login" /\ UNCHANGED <<acked, spent, entered>>
  BY DEF RLoginCheckQuery, clientVars
<1>3. CASE StaleLogin(r) \/ CrcFailed(r)
  <2>1. UNCHANGED <<duser, dnet, nextKey, toAgent, toDist>>
    BY <1>3 DEF StaleLogin, CrcFailed, distVars, linkVars
  <2>2. SynsFrom({}) /\ AnswersFrom({})
    BY <1>1, <2>1, ToAgentStays, ToDistStays
  <2> QED
    BY <1>2, <2>1, <2>2, DistQuiet
<1>4. CASE LoginAdmitted(r) \/ LoginTurnedDown(r)
  <2>1. /\ Matches(r.dc, r.key) /\ duser' = [duser EXCEPT ![r.dc] = Noted(r)]
        /\ UNCHANGED <<nextKey, toDist>>
    BY <1>4 DEF LoginAdmitted, LoginTurnedDown, linkVars
  <2>2. PICK dc \in DConns : dc = r.dc
    BY <1>1, <1>2 DEF TypeOK, WiresTypeOK, Result
  <2>3. \A e \in DConns : duser'[e].key = duser[e].key /\ (duser[e].out => duser'[e].out)
    <3>1. /\ \A e \in DConns : duser'[e].key = duser[e].key
          /\ \A e \in DConns : e # r.dc => duser'[e] = duser[e]
      BY <1>1, <1>2, <2>1, NotedKeeps
    <3>2. duser'[dc].out = duser[dc].out
      <4>1. duser[dc] \in DUser /\ duser'[dc] = Noted(r)
        BY <1>1, <2>1, <2>2 DEF DistributeTypeOK
      <4>2. Noted(r).out = duser[dc].out
        BY <2>2, <4>1 DEF Noted, DUser
      <4> QED
        BY <4>1, <4>2
    <3> QED
      BY <2>2, <3>1, <3>2
  <2>4. LoginOf(dc, r) /\ InOrder(dc) /\ Serves(dc, r.key)
    BY <1>1, <1>2, <2>1, <2>2 DEF LoginOf, Current, Matches, LoginInOrder, Serves
  <2>5. duser[dc].state # "ok"
    BY <2>4 DEF InOrder, StateAgrees
  <2>6. NoTicket(dc)
    BY <2>4, <2>5, Exclusive
  <2>7. \A e \in DConns : dnet'[e] = "closing" => dnet[e] = "closing" \/ NoTicket(e)
    BY <1>1, <1>4, <2>2, <2>6, HungUp DEF LoginAdmitted, LoginTurnedDown
  <2>8. AnswersFrom({})
    BY <1>1, <2>1, ToDistStays
  <2>9. CASE UNCHANGED toAgent
    <3>1. SynsFrom({})
      BY <1>1, <2>9, ToAgentStays
    <3> QED
      BY <1>2, <2>1, <2>3, <2>7, <2>8, <3>1, DistQuiet
  <2>10. ASSUME NEW a \in Agents, SendToAgent(DistOf[r.dc], a, UserLoginSyn(r.user, r.key, r.dc))
         PROVE  TablesInv' /\ KeysFit' /\ SessionsFit'
    <3>1. PICK m : m = UserLoginSyn(r.user, r.key, r.dc)
      OBVIOUS
    <3>2. r.user \in Users /\ r.key \in Nat
      BY <1>1, <1>2 DEF TypeOK, WiresTypeOK, Result
    <3>3. /\ m \in ToAgentMsg /\ m.type = "userlogin_syn"
          /\ m.key = r.key /\ m.dc = dc
      BY <2>2, <3>1, <3>2 DEF UserLoginSyn, ToAgentMsg
    <3>4. SynsFrom({m})
      BY <1>1, <2>10, <2>2, <3>1, <3>3, WiresAssumption, ToAgentSent
    <3> QED
      BY <1>2, <2>1, <2>3, <2>4, <2>6, <2>7, <2>8, <3>3, <3>4, DistQuiet
  <2> QED
    BY <1>4, <2>9, <2>10 DEF LoginAdmitted, LoginTurnedDown, linkVars
<1> QED
  BY <1>3, <1>4 DEF RLoginCheckQuery

LEMMA KeysIpResult ==
  ASSUME KInv, OneServer, NEW r \in results, RIpCheckQuery(r), UNCHANGED <<agentVars, clientVars>>
  PROVE  TablesInv' /\ KeysFit' /\ SessionsFit'
<1>1. Inv /\ TypeOK /\ DistributeTypeOK /\ LoginInOrder
  BY DEF KInv, SInv, Inv, TypeOK
<1>2. r.type = "ip" /\ UNCHANGED <<duser, nextKey, toDist, acked, spent, entered>>
  BY DEF RIpCheckQuery, clientVars
<1>3. PICK dc \in DConns : dc = r.dc
  BY <1>1, <1>2 DEF TypeOK, WiresTypeOK, Result
<1>4. ASSUME Matches(r.dc, r.key)
      PROVE  Serves(dc, r.key) /\ NoTicket(dc) /\ duser[r.dc].user \in Users
  <2>1. IpOf(dc, r) /\ InOrder(dc) /\ Serves(dc, r.key)
    BY <1>1, <1>2, <1>3, <1>4 DEF IpOf, Current, Matches, LoginInOrder, Serves
  <2>2. PICK u \in Users : Admitted(dc, u)
    BY <2>1 DEF InOrder, StateAgrees
  <2> QED
    BY <1>3, <2>1, <2>2, Exclusive DEF Admitted
<1>5. \A e \in DConns : dnet'[e] = "closing" => dnet[e] = "closing" \/ NoTicket(e)
  BY <1>1, <1>3, <1>4, HungUp DEF RIpCheckQuery
<1>6. AnswersFrom({})
  BY <1>1, <1>2, ToDistStays
<1>7. CASE UNCHANGED toAgent
  <2>1. SynsFrom({})
    BY <1>1, <1>7, ToAgentStays
  <2> QED
    BY <1>2, <1>5, <1>6, <2>1, DistQuiet
<1>8. ASSUME Matches(r.dc, r.key),
             NEW a \in Agents, SendToAgent(DistOf[r.dc], a, UserLoginSyn(duser[r.dc].user, r.key, r.dc))
      PROVE  TablesInv' /\ KeysFit' /\ SessionsFit'
  <2>1. PICK m : m = UserLoginSyn(duser[r.dc].user, r.key, r.dc)
    OBVIOUS
  <2>2. duser[r.dc].user \in Users /\ r.key \in Nat
    BY <1>1, <1>2, <1>4, <1>8 DEF TypeOK, WiresTypeOK, Result
  <2>3. m \in ToAgentMsg /\ m.type = "userlogin_syn" /\ m.key = r.key /\ m.dc = dc
    BY <1>3, <2>1, <2>2 DEF UserLoginSyn, ToAgentMsg
  <2>4. SynsFrom({m})
    BY <1>1, <1>3, <1>8, <2>1, <2>3, WiresAssumption, ToAgentSent
  <2> QED
    BY <1>2, <1>4, <1>5, <1>6, <1>8, <2>3, <2>4, DistQuiet
<1> QED
  BY <1>7, <1>8 DEF RIpCheckQuery

LEMMA KeysNack ==
  ASSUME KInv, OneServer, NEW d \in Dists, NEW a \in Agents, NackDelivered(d, a),
         UNCHANGED <<agentVars, clientVars>>
  PROVE  TablesInv' /\ KeysFit' /\ SessionsFit'
<1>1. Inv /\ TypeOK /\ DistributeTypeOK /\ LoginInOrder
  BY DEF KInv, SInv, Inv, TypeOK
<1>2. PICK m : m = Head(toDist[a][d])
  OBVIOUS
<1>3. /\ UNCHANGED <<duser, nextKey, toAgent, acked, spent, entered>>
      /\ Receives(d, a, "userlogin_nack") /\ toDist[a][d] # <<>>
      /\ IF Matches(m.dc, m.key) THEN Hangup(m.dc) ELSE UNCHANGED dnet
  BY <1>2 DEF NackDelivered, Receives, clientVars
<1>4. m.dc \in DConns
  BY <1>1, <1>2, <1>3, HeadToDist, ToDistFields
<1>5. Matches(m.dc, m.key) => NoTicket(m.dc)
  <2>1. 1 \in 1..Len(toDist[a][d]) /\ m = toDist[a][d][1]
    BY <1>1, <1>2, <1>3 DEF TypeOK, WiresTypeOK
  <2>2. Matches(m.dc, m.key) => Current(m.dc, m)
    BY DEF Matches, Current
  <2>3. Matches(m.dc, m.key) => ~NoAnswer(m.dc)
    BY <2>1, <2>2 DEF NoAnswer
  <2>4. Matches(m.dc, m.key) => Admitted(m.dc, m.user)
    BY <1>1, <1>4, <2>1, <2>2 DEF LoginInOrder, InOrder, StateAgrees
  <2> QED
    BY <1>1, <1>4, <2>4, Exclusive DEF LoginInOrder, Admitted
<1>6. \A e \in DConns : dnet'[e] = "closing" => dnet[e] = "closing" \/ NoTicket(e)
  BY <1>1, <1>3, <1>4, <1>5, HungUp
<1>7. SynsFrom({}) /\ AnswersFrom({})
  BY <1>1, <1>3, ToAgentStays, ToDistTaken
<1> QED
  BY <1>3, <1>6, <1>7, DistQuiet

LEMMA KeysLeaving ==
  ASSUME ~LossyHandoff, KInv, OneServer, NEW dc \in DConns, LeaveDistribute(dc) \/ LoseDistribute(dc)
  PROVE  TablesInv' /\ KeysFit' /\ SessionsFit'
<1>1. Inv /\ TypeOK /\ DistributeTypeOK
  BY DEF KInv, SInv, Inv, TypeOK
<1>2. UNCHANGED <<agentVars, nextKey, toAgent, toDist, spent, entered>> /\ Hangup(dc)
  BY DEF LeaveDistribute, LoseDistribute, DistOut, DConnLost, linkVars, clientVars
<1>3. SynsFrom({}) /\ AnswersFrom({})
  BY <1>1, <1>2, ToAgentStays, ToDistStays
<1>4. CASE LeaveDistribute(dc)
  <2>1. duser' = [duser EXCEPT ![dc].out = TRUE] /\ UNCHANGED acked
    BY <1>4 DEF LeaveDistribute, DistOut, clientVars
  <2>2. \A e \in DConns : /\ duser'[e].key = duser[e].key
                          /\ duser'[e].out = IF e = dc THEN TRUE ELSE duser[e].out
    BY <1>1, <2>1 DEF DistributeTypeOK, DUser
  <2>3. \A e \in DConns : dnet'[e] = "closing" => dnet[e] = "closing" \/ duser'[e].out
    BY <1>1, <1>2, <2>2, HungUp
  <2> QED
    BY <1>2, <1>3, <2>1, <2>2, <2>3, DistQuiet
<1>5. CASE LoseDistribute(dc)
  <2>1. UNCHANGED duser /\ TicketsOf(dc, spent) = {} /\ acked' = acked \ TicketsOf(dc, acked)
    BY <1>5 DEF LoseDistribute, DConnLost
  <2>2. NoTicket(dc)'
    BY <1>2, <2>1 DEF NoTicket, Current, TicketsOf
  <2>3. \A e \in DConns : dnet'[e] = "closing" => dnet[e] = "closing" \/ NoTicket(e)'
    BY <1>1, <1>2, <2>2, HungUp
  <2> QED
    BY <1>2, <1>3, <2>1, <2>3, DistQuiet
<1> QED
  BY <1>4, <1>5

LEMMA KeysUnmoved ==
  ASSUME KInv, OneServer, DatabaseStep \/ UNCHANGED vars
  PROVE  TablesInv' /\ KeysFit' /\ SessionsFit'
<1>1. UNCHANGED <<agentVars, duser, dnet, nextKey, toAgent, toDist, acked, spent, entered>>
  BY DEF DatabaseStep, vars, distVars, linkVars, clientVars
<1>2. SynsFrom({}) /\ AnswersFrom({})
  BY <1>1, ToAgentStays, ToDistStays DEF KInv, SInv, Inv
<1> QED
  BY <1>1, <1>2, DistQuiet

(* The steps in which the mail and the tables of the agents do change. *)
LEMMA TablesElsewhere ==
  ASSUME TablesInv, UNCHANGED agentVars, UNCHANGED entered
  PROVE  TablesInv'
<1>1. UNCHANGED <<slots, free, connTab, userTab, charTab, anet>>
  BY DEF agentVars
<1> QED
  BY <1>1, QuietTables

LEMMA KeysDistStep ==
  ASSUME ~LossyHandoff, KInv, OneServer,
         \/ ClientOfDist \/ ResultOfDB \/ DatabaseStep \/ UNCHANGED vars
         \/ \E d \in Dists, a \in Agents : AnswerNotTaken(d, a) \/ TakeTicket(d, a)
         \/ \E dc \in DConns : LeaveDistribute(dc) \/ LoseDistribute(dc) \/ LeftDistribute(dc)
  PROVE  TablesInv' /\ KeysFit' /\ SessionsFit'
<1>1. SInv /\ TablesInv /\ KeysFit /\ SessionsFit
  BY DEF KInv
<1>2. CASE ClientOfDist
  <2>1. UNCHANGED <<agentVars, clientVars>>
    BY <1>2 DEF ClientOfDist
  <2>2. ASSUME NEW dc \in DConns, DAccept(dc)
        PROVE  TablesInv' /\ KeysFit' /\ SessionsFit'
    <3>1. UNCHANGED agentVars /\ UNCHANGED entered
      BY <2>1 DEF clientVars
    <3> QED
      BY <1>1, <2>1, <2>2, <3>1, TablesElsewhere, KeysDAccept
  <2> QED
    BY <1>2, <2>1, <2>2, KeysLoginSyn, KeysForceOverlap DEF ClientOfDist
<1>3. CASE ResultOfDB
  BY <1>3, KeysResult, KeysIpResult DEF ResultOfDB
<1>4. CASE DatabaseStep \/ UNCHANGED vars
  BY <1>4, KeysUnmoved
<1>5. ASSUME NEW d \in Dists, NEW a \in Agents, AnswerNotTaken(d, a) \/ TakeTicket(d, a)
      PROVE  TablesInv' /\ KeysFit' /\ SessionsFit'
  <2>1. UNCHANGED agentVars /\ UNCHANGED entered
    BY <1>5 DEF AnswerNotTaken, TakeTicket, clientVars
  <2>2. TablesInv'
    BY <1>1, <2>1, TablesElsewhere
  <2>3. CASE AckTooLate(d, a) /\ UNCHANGED <<agentVars, clientVars>>
    BY <1>1, <2>2, <2>3, KeysAckTooLate
  <2>4. CASE NackDelivered(d, a) /\ UNCHANGED <<agentVars, clientVars>>
    BY <2>4, KeysNack
  <2>5. CASE TakeTicket(d, a)
    BY <1>1, <2>2, <2>5, KeysTakeTicket
  <2> QED
    BY <1>5, <2>3, <2>4, <2>5 DEF AnswerNotTaken
<1>6. ASSUME NEW dc \in DConns, LeftDistribute(dc)
      PROVE  TablesInv' /\ KeysFit' /\ SessionsFit'
  <2>1. UNCHANGED agentVars /\ UNCHANGED entered
    BY <1>6 DEF LeftDistribute
  <2> QED
    BY <1>1, <1>6, <2>1, TablesElsewhere, KeysLeft
<1> QED
  BY <1>2, <1>3, <1>4, <1>5, <1>6, KeysLeaving

-----------------------------------------------------------------------------
(* The steps of the agents. *)
LEMMA AgentQuietKeys ==
  ASSUME KInv, OneServer, UNCHANGED <<duser, dnet, nextKey, nextAKey>>,
         acked' \subseteq acked, spent \subseteq spent', Tickets' \subseteq Tickets,
         SynsFrom({}), NEW ns, AnswersFrom(ns),
         \A n \in ns : n.type = "userlogin_nack" /\ Bears(n.dc, n.key),
         SessionsStay
  PROVE  KeysFit' /\ SessionsFit'
<1>1. LeavingForgets'
  BY LeavingKept DEF KInv, KeysFit
<1>2. QuietKeys
  <2>1. \A a \in Agents : ForAgent(a)' \subseteq ForAgent(a) /\ FromAgent(a)' \subseteq FromAgent(a) \cup ns
    BY MailForAgent, MailFromAgent
  <2>2. \A a \in Agents :
          Syns(a)' \subseteq Syns(a) /\ Outs(a)' \subseteq Outs(a) /\ Lefts(a)' \subseteq Lefts(a)
    BY <2>1 DEF Syns, Outs, Lefts
  <2>3. \A a \in Agents : \A m \in FromAgent(a)' :
          m \in FromAgent(a) \/ (m.type # "userlogin_ack" /\ Bears(m.dc, m.key))
    BY <2>1
  <2> QED
    BY <2>2, <2>3 DEF QuietKeys
<1> QED
  BY <1>1, <1>2, QuietSessions DEF KInv, SInv

LEMMA AgentKeepsKeys ==
  ASSUME KInv, OneServer, UNCHANGED <<distVars, linkVars, nextAKey, acked, spent>>, SessionsStay
  PROVE  KeysFit' /\ SessionsFit'
<1>1. UNCHANGED <<duser, dnet, nextKey, nextAKey, toAgent, toDist, acked, spent>>
  BY DEF distVars, linkVars
<1>2. SynsFrom({}) /\ AnswersFrom({})
  BY <1>1, ToAgentStays, ToDistStays DEF KInv, SInv, Inv
<1>3. UNCHANGED Tickets
  BY <1>1 DEF Tickets
<1> QED
  BY <1>1, <1>2, <1>3, AgentQuietKeys

LEMMA KeysConnection ==
  ASSUME KInv, OneServer, NEW c \in AConns,
         ConnectionOfAgent(c) \/ GoneFromAgent(c) \/ Reap(c) \/ ConnectAgent(c)
  PROVE  TablesInv' /\ KeysFit' /\ SessionsFit'
<1>1. TablesInv' /\ SessionsStay
  BY TablesConnection DEF KInv, SInv, Inv
<1>2. UNCHANGED <<distVars, linkVars, nextAKey, acked, spent>>
  BY DEF ConnectionOfAgent, GoneFromAgent, Reap, ConnectAgent, AConnLost, ADrop, ADisconnected,
     CharacterSelect, ReapUnconnected, AAccept, clientVars
<1> QED
  BY <1>1, <1>2, AgentKeepsKeys

LEMMA KeysMap ==
  ASSUME KInv, OneServer, NEW a \in Agents, NEW u \in Users, MapToAgent(a, u)
  PROVE  TablesInv' /\ KeysFit' /\ SessionsFit'
<1>1. TablesInv' /\ SessionsStay
  BY TablesMap DEF KInv, SInv, Inv
<1>2. UNCHANGED <<distVars, linkVars, nextAKey, acked, spent>>
  BY DEF MapToAgent, BackToCharSel, LoginCheckDeleteFromMap, clientVars
<1> QED
  BY <1>1, <1>2, AgentKeepsKeys

(* No message ends a session that is connected, except the one that is     *)
(* meant to.                                                               *)
LEMMA KeysEnded ==
  ASSUME KInv, OneServer, NEW d \in Dists, NEW a \in Agents,
         NotifyAlreadyOut(d, a) \/ DisconnectedDuringLogin(d, a) \/ ForceDisconnectOverlapLogin(d, a),
         UNCHANGED <<distVars, clientVars>>
  PROVE  TablesInv' /\ KeysFit' /\ SessionsFit'
<1>1. PICK m : m = Head(toAgent[d][a])
  OBVIOUS
<1>2. TypeOK /\ toAgent[d][a] # <<>> /\ UNCHANGED <<nextAKey, toDist>>
      /\ UNCHANGED <<duser, dnet, nextKey, acked, spent, entered>>
  BY DEF KInv, SInv, Inv, NotifyAlreadyOut, DisconnectedDuringLogin, ForceDisconnectOverlapLogin,
     AReceives, distVars, clientVars
<1>3. m \in ForAgent(a) /\ m.user \in Users
  BY <1>1, <1>2, HeadsAreMail, HeadToAgent, ToAgentFields
<1>4. m.type \in {"alreadyout", "disconnected_on_login", "force"}
  BY <1>1 DEF NotifyAlreadyOut, DisconnectedDuringLogin, ForceDisconnectOverlapLogin, AReceives
<1>5. userTab[a][m.user] # NoSlot =>
        \/ m.type = "force"
        \/ m.type = "alreadyout" /\ Session(a, m.user).key # m.key
        \/ m.type = "disconnected_on_login" /\ Session(a, m.user).dkey # m.key
        \/ Session(a, m.user).conn = NoConn
  <2>1. SUFFICES ASSUME userTab[a][m.user] # NoSlot, Session(a, m.user).conn # NoConn
                 PROVE  \/ m.type = "force"
                        \/ m.type = "alreadyout" /\ Session(a, m.user).key # m.key
                        \/ m.type = "disconnected_on_login" /\ Session(a, m.user).dkey # m.key
    OBVIOUS
  <2>2. PICK key, dkey, conn : SessionIs(a, m.user, key, dkey, conn)
    BY <2>1 DEF SessionIs
  <2>3. Fits(a, key, dkey, conn) /\ conn # NoConn
    BY <1>3, <2>1, <2>2 DEF KInv, SessionsFit, SessionIs
  <2>4. CASE m.type = "alreadyout"
    <3>1. m.key # key
      BY <1>3, <2>3, <2>4 DEF Fits, Outs
    <3> QED
      BY <2>2, <2>4, <3>1 DEF SessionIs
  <2>5. CASE m.type = "disconnected_on_login"
    <3>1. m.key # dkey
      BY <1>3, <2>3, <2>5 DEF Fits, Settled, Lefts
    <3> QED
      BY <2>2, <2>5, <3>1 DEF SessionIs
  <2> QED
    BY <1>4, <2>4, <2>5
<1>6. TablesInv' /\ SessionsStay
  BY <1>1, <1>2, <1>5, TablesEnded DEF KInv
<1>7. SynsFrom({}) /\ AnswersFrom({})
  BY <1>2, ToAgentTaken, ToDistStays
     DEF NotifyAlreadyOut, DisconnectedDuringLogin, ForceDisconnectOverlapLogin
<1>8. UNCHANGED Tickets
  BY <1>2 DEF Tickets
<1> QED
  BY <1>2, <1>6, <1>7, <1>8, AgentQuietKeys

LEMMA KeysNotify ==
  ASSUME KInv, OneServer, NEW d \in Dists, NEW a \in Agents, NotifyUserLoginSyn(d, a),
         UNCHANGED <<distVars, clientVars>>
  PROVE  TablesInv' /\ KeysFit' /\ SessionsFit'
<1>1. PICK m : m = Head(toAgent[d][a])
  OBVIOUS
<1>2. SInv /\ TypeOK /\ TablesInv /\ KeysFit /\ SessionsFit
      /\ UNCHANGED <<duser, dnet, nextKey, acked, spent, entered>>
  BY DEF KInv, SInv, Inv, distVars, clientVars
<1>3. AReceives(d, a, "userlogin_syn") /\ toAgent[d][a] # <<>> /\ m.type = "userlogin_syn"
  BY <1>1 DEF NotifyUserLoginSyn, AReceives
<1>4. m \in Syns(a) /\ m \in ToAgentMsg
  BY <1>1, <1>2, <1>3, HeadsAreMail, HeadToAgent DEF Syns
<1>5. /\ m.user \in Users /\ UNCHANGED <<connTab, charTab>>
      /\ \/ /\ UNCHANGED <<slots, free, userTab, nextAKey>>
            /\ \A e \in AConns : anet'[e] = "free" => anet[e] = "free"
            /\ UNCHANGED toDist \/ SendToDist(a, d, UserLoginNack(m.user, m.key, m.dc))
         \/ /\ UNCHANGED anet /\ nextAKey' = [nextAKey EXCEPT ![a] = @ + 1]
            /\ SendToDist(a, d, UserLoginAck(m.user, m.key, nextAKey[a], m.dc))
            /\ \E s \in Slots : ReservedAt(a, m, s)
  BY <1>1, <1>2, NotifyOutcome
<1>6. CASE /\ UNCHANGED <<slots, free, userTab, nextAKey>>
           /\ \A e \in AConns : anet'[e] = "free" => anet[e] = "free"
           /\ UNCHANGED toDist \/ SendToDist(a, d, UserLoginNack(m.user, m.key, m.dc))
  <2>1. TablesInv' /\ SessionsStay
    BY <1>2, <1>5, <1>6, QuietTables
  <2>2. SynsFrom({})
    BY <1>2, <1>3, ToAgentTaken
  <2>3. UNCHANGED Tickets
    BY <1>2 DEF Tickets
  <2>4. CASE UNCHANGED toDist
    <3>1. AnswersFrom({})
      BY <1>2, <2>4, ToDistStays
    <3> QED
      BY <1>2, <1>6, <2>1, <2>2, <2>3, <3>1, AgentQuietKeys
  <2>5. CASE SendToDist(a, d, UserLoginNack(m.user, m.key, m.dc))
    <3>1. PICK n : n = UserLoginNack(m.user, m.key, m.dc)
      OBVIOUS
    <3>2. m.key \in Nat /\ m.dc \in DConns
      BY <1>3, <1>4, ToAgentFields
    <3>3. n \in ToDistMsg /\ n.type = "userlogin_nack" /\ n.key = m.key /\ n.dc = m.dc
      BY <1>5, <3>1, <3>2 DEF UserLoginNack, ToDistMsg
    <3>4. AnswersFrom({n})
      BY <1>2, <2>5, <3>1, <3>3, ToDistSent
    <3>5. Bears(n.dc, n.key)
      BY <1>4, <3>3 DEF Bears
    <3> QED
      BY <1>2, <1>6, <2>1, <2>2, <2>3, <3>3, <3>4, <3>5, AgentQuietKeys
  <2> QED
    BY <1>6, <2>4, <2>5
<1>7. ASSUME UNCHANGED anet, nextAKey' = [nextAKey EXCEPT ![a] = @ + 1],
             SendToDist(a, d, UserLoginAck(m.user, m.key, nextAKey[a], m.dc)),
             NEW s \in Slots, ReservedAt(a, m, s)
      PROVE  TablesInv' /\ KeysFit' /\ SessionsFit'
  <2>1. UNCHANGED <<connTab, charTab, anet, entered>>
    BY <1>2, <1>5, <1>7
  <2>2. TablesInv'
    BY <1>2, <1>5, <1>7, <2>1, ReservedStays
  <2>3. UNCHANGED <<distVars, clientVars, connTab, charTab, anet>>
    BY <2>1
  <2> QED
    BY <1>1, <1>2, <1>3, <1>7, <2>2, <2>3, KeysReserved
<1> QED
  BY <1>5, <1>6, <1>7

LEMMA KeysShowTicket ==
  ASSUME KInv, OneServer, NEW c \in AConns, NEW t \in acked, ShowTicket(c, t)
  PROVE  TablesInv' /\ KeysFit' /\ SessionsFit'
<1>1. PICK a \in Agents : a = AgentOf[c]
  BY WiresAssumption
<1>2. PICK u \in Users : u = t.user
  BY DEF KInv, SInv, Inv, TypeOK, Ticket
<1>3. SInv /\ TypeOK /\ TablesInv /\ KeysFit /\ SessionsFit
  BY DEF KInv, SInv, Inv
<1>4. HeldUnder(a, u, t.key) => Session(a, u).conn = NoConn
  <2>1. SUFFICES ASSUME HeldUnder(a, u, t.key), Session(a, u).conn # NoConn
                 PROVE  FALSE
    OBVIOUS
  <2>2. PICK key, dkey, conn : SessionIs(a, u, key, dkey, conn)
    BY <2>1 DEF SessionIs, HeldUnder
  <2>3. dkey = t.key /\ conn # NoConn
    BY <2>1, <2>2 DEF SessionIs, HeldUnder, Session
  <2>4. Settled(dkey)
    BY <1>3, <2>2, <2>3 DEF SessionsFit, Fits
  <2> QED
    BY <2>3, <2>4 DEF Settled
<1>5. TablesInv' /\ (SessionsStay \/ (HeldUnder(a, u, t.key) /\ ConnectedBy(c, u)))
  <2>1. CharacterlistSyn(c, u, t.key) /\ c \notin entered /\ entered' = entered \cup {c}
    BY <1>2 DEF ShowTicket
  <2> QED
    BY <1>1, <1>3, <1>4, <2>1, TablesTicket
<1>6. CASE SessionsStay
  <2>1. UNCHANGED <<duser, dnet, nextKey, nextAKey, toAgent, toDist>>
    BY DEF ShowTicket, CharacterlistSyn, distVars, linkVars
  <2>2. acked' \subseteq acked /\ spent \subseteq spent' /\ Tickets' \subseteq Tickets
    BY DEF ShowTicket, Tickets
  <2>3. SynsFrom({}) /\ AnswersFrom({})
    BY <1>3, <2>1, ToAgentStays, ToDistStays
  <2> QED
    BY <1>5, <1>6, <2>1, <2>2, <2>3, AgentQuietKeys
<1>7. CASE HeldUnder(a, u, t.key) /\ ConnectedBy(c, u)
  BY <1>1, <1>2, <1>3, <1>5, <1>7, KeysConnected
<1> QED
  BY <1>5, <1>6, <1>7

-----------------------------------------------------------------------------
LEMMA KInvInit ==
  ASSUME Init
  PROVE  KInv
<1>1. SInv /\ TypeOK
  BY SInvInit DEF SInv, Inv
<1>2. /\ \A c \in AConns : connTab[c] = NoSlot
      /\ \A a \in Agents : free[a] = Slots
      /\ \A a \in Agents, u \in Users : userTab[a][u] = NoSlot /\ charTab[a][u] = NoSlot
  BY DEF Init, AgentInit
<1>3. TablesInv
  BY <1>2, WiresAssumption
     DEF TablesInv, TablesAgree, NetFiled, CharsConnected, NewcomersUnnamed,
         ConnEntriesOK, UserEntriesOK, CharEntriesOK, BlocksFiled, EntryOK
<1>4. \A a \in Agents : ForAgent(a) = {} /\ FromAgent(a) = {}
  BY DEF Init, WiresInit, ForAgent, FromAgent
<1>5. Tickets = {} /\ \A dc \in DConns : ~HasUser(dc)
  BY DEF Init, Tickets, DistributeInit, HasUser, NoDUser
<1>6. KeysFit
  BY <1>4, <1>5 DEF KeysFit, OneBearer, OneTicket, Unticketed, LeavingForgets, LeftForGood, OutsKnown,
                    Bears, Serves, Syns, Outs, Lefts, Acks
<1>7. SessionsFit
  BY <1>2 DEF SessionsFit, SessionIs
<1> QED
  BY <1>1, <1>3, <1>6, <1>7 DEF KInv

LEMMA KInvNext ==
  ASSUME ~LossyHandoff, OneServer, KInv, [Next]_vars
  PROVE  KInv'
<1>1. SInv'
  BY SInvNext DEF KInv
<1>2. ASSUME NEW d \in Dists, NEW a \in Agents, DistToAgent(d, a)
      PROVE  TablesInv' /\ KeysFit' /\ SessionsFit'
  BY <1>2, KeysNotify, KeysEnded DEF DistToAgent
<1>3. TablesInv' /\ KeysFit' /\ SessionsFit'
  BY <1>2, KeysDistStep, KeysConnection, KeysMap, KeysShowTicket DEF Next
<1> QED
  BY <1>1, <1>3 DEF KInv

(* With one distribute server, and clients that do not lose their          *)
(* distribute connection on the way to the agent, the tables of every      *)
(* agent always agree: the handlers that free the session of an account    *)
(* without asking whether it is connected never meet one that is.          *)
THEOREM TablesAlwaysAgree ==
  ASSUME ~LossyHandoff, OneServer
  PROVE  Spec => []TablesAgree
<1>1. KInv /\ [Next]_vars => KInv'
  BY KInvNext
<1>2. KInv => TablesAgree
  BY DEF KInv, TablesInv
<1> QED
  BY <1>1, <1>2, KInvInit, PTL DEF Spec

(* And no login row is orphaned then, unless a client's script checksum    *)
(* may differ.                                                             *)
THEOREM TablesAndRowsAgree ==
  ASSUME ~LossyHandoff, OneServer, ~CrcMayFail
  PROVE  Spec => []TablesAndRows
<1>1. Spec => []TablesAgree
  BY TablesAlwaysAgree
<1>2. Spec => []NoOrphanRow
  BY RowsAreNeverOrphaned
<1>3. TablesAgree /\ NoOrphanRow => TablesAndRows
  BY DEF TablesAndRows
<1> QED
  BY <1>1, <1>2, <1>3, PTL
=============================================================================
