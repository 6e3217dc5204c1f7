--------------------------- MODULE DistributeLogin ---------------------------
(***************************************************************************)
(* The login half of a distribute server: the table of connected clients,  *)
(* the login query to the database and its result, the announcement of the *)
(* login to an agent server and the answer, and the disconnect callback.   *)
(* The server is one event loop: every handler below is one step.          *)
(***************************************************************************)
EXTENDS LoginWires

CONSTANTS
  MaxPending,  \* bound: unread broadcasts and deletes before a client asks for more
  CrcMayFail   \* the clients' script checksum may differ from the server's

ASSUME DistributeAssumption ==
  /\ MaxPending \in Nat
  /\ CrcMayFail \in BOOLEAN

VARIABLES
  duser,     \* g_pUserTable: the USERINFO of a connection index, or NoDUser
  dnet,      \* the connection index in the network layer
  nextKey,   \* the static ID of MakeAuthKey
  waitDel    \* g_LoginUser: accounts with a first forced disconnect on record

distVars == <<duser, dnet, nextKey, waitDel>>

(* key = dwUniqueConnectIdx, user = dwUserID, state = State (of the last   *)
(* result), del = dwDisconOption & eDISCONOPT_DELETELOGINCHECK,            *)
(* out = bRecvDistOut.                                                     *)
DUser == [key : Nat, user : Users \cup {NoUser}, state : LoginState \cup {"none"},
          del : BOOLEAN, out : BOOLEAN]

NoDUser == [key |-> 0, user |-> NoUser, state |-> "none", del |-> FALSE, out |-> FALSE]

NetState == {"free", "open", "closing"}

DistributeTypeOK ==
  /\ duser \in [DConns -> DUser]
  /\ dnet \in [DConns -> NetState]
  /\ nextKey \in [Dists -> 1..(MaxKey + 1)]
  /\ waitDel \in [Dists -> SUBSET Users]

DistributeInit ==
  /\ duser = [dc \in DConns |-> NoDUser]
  /\ dnet = [dc \in DConns |-> "free"]
  /\ nextKey = [d \in Dists |-> 1]
  /\ waitDel = [d \in Dists |-> {}]

(* FindUser(dc) # NULL; a key is never 0. *)
HasUser(dc) == duser[dc].key # 0

(* Matches, without the dwUniqueConnectIdx test. *)
MatchesAnyKey(dc, key) == HasUser(dc)

(* FindUser(dc) and the dwUniqueConnectIdx test of the result and answer handlers. *)
Matches(dc, key) == HasUser(dc) /\ duser[dc].key = key

(* g_Network.DisconnectUser: the callback comes later. *)
Hangup(dc) == dnet' = [dnet EXCEPT ![dc] = "closing"]

-----------------------------------------------------------------------------
(* Network callbacks and client messages. *)

(* OnAcceptUser. *)
DAccept(dc) ==
  LET d == DistOf[dc] IN
  /\ dnet[dc] = "free"
  /\ nextKey[d] <= MaxKey
  /\ dnet' = [dnet EXCEPT ![dc] = "open"]
  /\ nextKey' = [nextKey EXCEPT ![d] = @ + 1]
  /\ duser' = [duser EXCEPT ![dc] = [NoDUser EXCEPT !.key = nextKey[d]]]
  /\ UNCHANGED <<waitDel, dbVars, linkVars>>

(* The client asks for nothing while a login of its own is under way. *)
Idle(dc) ==
  /\ duser[dc].state # "ok"
  /\ ~\E q \in queries \cup results : q.dc = dc /\ q.key = duser[dc].key

(* Userconn_Login_Syn, or a refusal for want of an agent server. *)
LoginSyn(dc, u) ==
  /\ dnet[dc] = "open"
  /\ HasUser(dc)
  /\ Idle(dc)
  /\ \/ /\ queries' = queries \cup {LoginQuery(dc, duser[dc].key, u)}
        /\ UNCHANGED dnet
     \/ /\ Hangup(dc)
        /\ UNCHANGED queries
  /\ UNCHANGED <<duser, nextKey, waitDel, row, deletes, results, linkVars>>

(* Userconn_Force_Disconnect_OverlapLogIn with AddWaitForLoginCheckDelete: *)
(* the account is noted first and deleted by a later request that comes at *)
(* least ten seconds after the note.                                       *)
ForceOverlap(dc) ==
  LET d == DistOf[dc]
      u == duser[dc].user IN
  /\ dnet[dc] = "open"
  /\ HasUser(dc)
  /\ Idle(dc)
  /\ \/ /\ u = NoUser \/ duser[dc].state # "overlap"
        /\ Hangup(dc)
        /\ UNCHANGED <<toAgent, waitDel, deletes>>
     \/ /\ u # NoUser /\ duser[dc].state = "overlap"
        /\ deletes[u] < MaxPending
        /\ \A a \in Agents : Len(toAgent[d][a]) < MaxPending
        /\ Broadcast2AgentServer(d, ForceDisconnect(u))
        /\ \/ /\ u \notin waitDel[d]
              /\ waitDel' = [waitDel EXCEPT ![d] = @ \cup {u}]
              /\ UNCHANGED deletes
           \/ /\ u \in waitDel[d]
              /\ waitDel' = [waitDel EXCEPT ![d] = @ \ {u}]
              /\ LoginCheckDelete(u)
           \/ /\ u \in waitDel[d]       \* less than ten seconds ago
              /\ UNCHANGED <<waitDel, deletes>>
        /\ UNCHANGED dnet
  /\ UNCHANGED <<duser, nextKey, row, queries, results, toDist>>

(* Userconn_ReQuest_DistOut. *)
DistOut(dc) ==
  /\ dnet[dc] = "open"
  /\ HasUser(dc)
  /\ duser' = [duser EXCEPT ![dc].out = TRUE]
  /\ Hangup(dc)
  /\ UNCHANGED <<nextKey, waitDel, dbVars, linkVars>>

(* The client leaves, the line fails, or ConnectionCheck gives the client  *)
(* up: in each case the callback below follows.                            *)
DConnLost(dc) ==
  /\ dnet[dc] = "open"
  /\ Hangup(dc)
  /\ UNCHANGED <<duser, nextKey, waitDel, dbVars, linkVars>>

(* OnDisconnectUser. *)
DDisconnected(dc) ==
  LET d == DistOf[dc]
      r == duser[dc] IN
  /\ dnet[dc] = "closing"
  /\ dnet' = [dnet EXCEPT ![dc] = "free"]
  /\ IF r.del /\ r.user # NoUser THEN LoginCheckDelete(r.user) ELSE UNCHANGED deletes
  /\ IF r.user # NoUser /\ ~r.out
     THEN Broadcast2AgentServer(d, DisconnectedOnLogin(r.user, r.key))
     ELSE UNCHANGED toAgent
  /\ duser' = [duser EXCEPT ![dc] = NoDUser]
  /\ UNCHANGED <<nextKey, waitDel, row, queries, results, toDist>>

-----------------------------------------------------------------------------
(* Database results (ProcessingDBMessage). *)

(* StaleLogin, forgetting the row that was inserted for the client. *)
StaleLoginKept(r) ==
  /\ ~Matches(r.dc, r.key)
  /\ UNCHANGED <<distVars, deletes, queries, linkVars>>

(* The result is for a client that left, or for an earlier client of the   *)
(* same connection index.                                                  *)
StaleLogin(r) ==
  /\ ~Matches(r.dc, r.key)
  /\ IF r.state = "ok" THEN LoginCheckDelete(r.user) ELSE UNCHANGED deletes
  /\ UNCHANGED <<distVars, queries, linkVars>>

(* The script checksum of the client differs: LoginError and return. *)
CrcFailed(r) ==
  /\ CrcMayFail
  /\ Matches(r.dc, r.key)
  /\ UNCHANGED <<distVars, deletes, queries, linkVars>>

(* Noted, with the delete option set by every result. *)
NotedAlways(r) == [duser[r.dc] EXCEPT !.user = r.user, !.state = r.state, !.del = TRUE]

(* What every result leaves in the USERINFO. *)
Noted(r) == [duser[r.dc] EXCEPT !.user = r.user, !.state = r.state,
                                !.del = IF r.state = "ok" THEN TRUE ELSE @]

(* Result 1: announced to the agent server the procedure chose, or held    *)
(* for the IP check of an operator, or turned down (level, no agent).      *)
LoginAdmitted(r) ==
  LET d == DistOf[r.dc] IN
  /\ Matches(r.dc, r.key)
  /\ r.state = "ok"
  /\ duser' = [duser EXCEPT ![r.dc] = Noted(r)]
  /\ waitDel' = [waitDel EXCEPT ![d] = @ \ {r.user}]
  /\ \/ \E a \in Agents :
          /\ SendToAgent(d, a, UserLoginSyn(r.user, r.key, r.dc))
          /\ UNCHANGED <<dnet, queries>>
     \/ /\ queries' = queries \cup {IpQuery(r.dc, r.key)}
        /\ UNCHANGED <<dnet, toAgent>>
     \/ /\ Hangup(r.dc)
        /\ UNCHANGED <<queries, toAgent>>
  /\ UNCHANGED <<nextKey, deletes, toDist>>

(* The other results: the client is told, and disconnected by some. *)
LoginTurnedDown(r) ==
  /\ Matches(r.dc, r.key)
  /\ r.state # "ok"
  /\ duser' = [duser EXCEPT ![r.dc] = Noted(r)]
  /\ IF r.state = "refuse" THEN Hangup(r.dc) ELSE UNCHANGED dnet
  /\ UNCHANGED <<nextKey, waitDel, deletes, queries, linkVars>>

(* RLoginCheckQuery. *)
RLoginCheckQuery(r) ==
  /\ r \in results
  /\ r.type = "login"
  /\ results' = results \ {r}
  /\ StaleLogin(r) \/ CrcFailed(r) \/ LoginAdmitted(r) \/ LoginTurnedDown(r)
  /\ UNCHANGED row

(* RIpCheckQuery; a result the database failed to give is dropped. *)
RIpCheckQuery(r) ==
  LET d == DistOf[r.dc] IN
  /\ r \in results
  /\ r.type = "ip"
  /\ results' = results \ {r}
  /\ \/ UNCHANGED <<dnet, toAgent>>
     \/ /\ Matches(r.dc, r.key)
        /\ Hangup(r.dc)
        /\ UNCHANGED toAgent
     \/ /\ Matches(r.dc, r.key)
        /\ r.valid
        /\ \E a \in Agents :
             SendToAgent(d, a, UserLoginSyn(duser[r.dc].user, r.key, r.dc))
        /\ UNCHANGED dnet
  /\ UNCHANGED <<duser, nextKey, waitDel, row, deletes, queries, toDist>>

-----------------------------------------------------------------------------
(* Answers of an agent server. *)

Receives(d, a, type) ==
  /\ toDist[a][d] # <<>>
  /\ Head(toDist[a][d]).type = type
  /\ toDist' = [toDist EXCEPT ![a][d] = Tail(@)]

(* Userconn_Notify_UserLogIn_Ack when the client has left: the agent is    *)
(* told to drop the session.                                               *)
AckTooLate(d, a) ==
  LET m == Head(toDist[a][d]) IN
  /\ Receives(d, a, "userlogin_ack")
  /\ ~Matches(m.dc, m.key)
  /\ SendToAgent(d, a, AlreadyOut(m.user, m.akey))
  /\ UNCHANGED <<distVars, dbVars>>

(* AckDelivered, leaving the delete option as it is. *)
AckDeliveredKeepsOption(d, a) ==
  LET m == Head(toDist[a][d]) IN
  /\ Receives(d, a, "userlogin_ack")
  /\ Matches(m.dc, m.key)
  /\ UNCHANGED <<distVars, dbVars, toAgent>>

(* Userconn_Notify_UserLogIn_Ack: the client gets MP_USERCONN_LOGIN_ACK,   *)
(* and dwDisconOption is toggled with ^=.                                  *)
AckDelivered(d, a) ==
  LET m == Head(toDist[a][d]) IN
  /\ Receives(d, a, "userlogin_ack")
  /\ Matches(m.dc, m.key)
  /\ duser' = [duser EXCEPT ![m.dc].del = ~@]
  /\ UNCHANGED <<dnet, nextKey, waitDel, dbVars, toAgent>>

(* Userconn_Notify_UserLogIn_Nack, without the disconnect. *)
NackDeliveredStays(d, a) ==
  /\ Receives(d, a, "userlogin_nack")
  /\ UNCHANGED <<distVars, dbVars, toAgent>>

(* Userconn_Notify_UserLogIn_Nack. *)
NackDelivered(d, a) ==
  LET m == Head(toDist[a][d]) IN
  /\ Receives(d, a, "userlogin_nack")
  /\ IF Matches(m.dc, m.key) THEN Hangup(m.dc) ELSE UNCHANGED dnet
  /\ UNCHANGED <<duser, nextKey, waitDel, dbVars, toAgent>>
=============================================================================
