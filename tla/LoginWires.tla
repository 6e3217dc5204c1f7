----------------------------- MODULE LoginWires -----------------------------
(***************************************************************************)
(* What the distribute (login) servers, the agent servers and the account  *)
(* database share while a player logs in: the server-to-server links, the  *)
(* login row of every account and the queries under way.                   *)
(*                                                                         *)
(* The links are TCP connections between servers and keep their order.     *)
(* The stored procedures of the database are not in the repository: they   *)
(* are modelled from the way their callers use them.  Queries are sent     *)
(* with eQueryType_FreeQuery, so any worker thread of the database layer   *)
(* may run any of them and their order is not kept.                        *)
(***************************************************************************)
EXTENDS Naturals, Sequences

CONSTANTS
  Users,      \* accounts (dwUserID)
  NoUser,     \* dwUserID = 0
  Dists,      \* distribute servers
  Agents,     \* agent servers
  DConns,     \* connection indexes of the distribute servers
  AConns,     \* connection indexes of the agent servers
  DistOf,     \* the server a distribute connection index belongs to
  AgentOf,    \* the server an agent connection index belongs to
  MaxKey      \* bound: authentication keys a distribute server hands out

ASSUME WiresAssumption ==
  /\ NoUser \notin Users
  /\ DistOf \in [DConns -> Dists]
  /\ AgentOf \in [AConns -> Agents]
  /\ MaxKey \in Nat

VARIABLES
  toAgent,    \* toAgent[d][a]: messages from distribute server d to agent a
  toDist,     \* toDist[a][d]: messages from agent a to distribute server d
  row,        \* row[u]: the login row of account u exists in the database
  deletes,    \* deletes[u]: UP_GAMELOGOUT queries for u not yet executed
  queries,    \* login and IP queries not yet executed
  results     \* their results, not yet taken by ProcessingDBMessage

dbVars   == <<row, deletes, queries, results>>
linkVars == <<toAgent, toDist>>

LoginState == {"ok", "overlap", "reject", "refuse"}

Query  == [type : {"login"}, dc : DConns, key : Nat, user : Users]
            \cup [type : {"ip"}, dc : DConns, key : Nat]
Result == [type : {"login"}, dc : DConns, key : Nat, user : Users, state : LoginState]
            \cup [type : {"ip"}, dc : DConns, key : Nat, valid : BOOLEAN]

LoginQuery(dc, key, u) == [type |-> "login", dc |-> dc, key |-> key, user |-> u]
IpQuery(dc, key)       == [type |-> "ip", dc |-> dc, key |-> key]

(* Distribute server to agent. *)
UserLoginSyn(u, key, dc)  == [type |-> "userlogin_syn", user |-> u, key |-> key, dc |-> dc]
DisconnectedOnLogin(u, key) == [type |-> "disconnected_on_login", user |-> u, key |-> key]
AlreadyOut(u, akey)       == [type |-> "alreadyout", user |-> u, key |-> akey]
ForceDisconnect(u)        == [type |-> "force", user |-> u]

ToAgentMsg == [type : {"userlogin_syn"}, user : Users, key : Nat, dc : DConns]
                \cup [type : {"disconnected_on_login", "alreadyout"}, user : Users, key : Nat]
                \cup [type : {"force"}, user : Users]

(* Agent to distribute server. *)
UserLoginAck(u, key, akey, dc) ==
  [type |-> "userlogin_ack", user |-> u, key |-> key, akey |-> akey, dc |-> dc]
UserLoginNack(u, key, dc) == [type |-> "userlogin_nack", user |-> u, key |-> key, dc |-> dc]

ToDistMsg == [type : {"userlogin_ack"}, user : Users, key : Nat, akey : Nat, dc : DConns]
               \cup [type : {"userlogin_nack"}, user : Users, key : Nat, dc : DConns]

WiresTypeOK ==
  /\ toAgent \in [Dists -> [Agents -> Seq(ToAgentMsg)]]
  /\ toDist \in [Agents -> [Dists -> Seq(ToDistMsg)]]
  /\ row \in [Users -> BOOLEAN]
  /\ deletes \in [Users -> Nat]
  /\ queries \subseteq Query
  /\ results \subseteq Result

WiresInit ==
  /\ toAgent = [d \in Dists |-> [a \in Agents |-> <<>>]]
  /\ toDist = [a \in Agents |-> [d \in Dists |-> <<>>]]
  /\ row = [u \in Users |-> FALSE]
  /\ deletes = [u \in Users |-> 0]
  /\ queries = {}
  /\ results = {}

-----------------------------------------------------------------------------
(* Operations on the links. *)

SendToAgent(d, a, m) == toAgent' = [toAgent EXCEPT ![d][a] = Append(@, m)]

Broadcast2AgentServer(d, m) ==
  toAgent' = [toAgent EXCEPT ![d] = [a \in Agents |-> Append(@[a], m)]]

SendToDist(a, d, m) == toDist' = [toDist EXCEPT ![a][d] = Append(@, m)]

(* EXEC UP_GAMELOGOUT is queued; nobody waits for its result. *)
LoginCheckDelete(u) == deletes' = [deletes EXCEPT ![u] = @ + 1]

-----------------------------------------------------------------------------
(* The database. *)

(* UP_GAMELOGINADULT_FREE: admits the account and inserts its row, or      *)
(* answers that it is logged in already, or turns the login down.          *)
DBLogin(q) ==
  /\ q \in queries
  /\ q.type = "login"
  /\ queries' = queries \ {q}
  /\ \E s \in LoginState :
       /\ s = "ok" => ~row[q.user]
       /\ s = "overlap" => row[q.user]
       /\ row' = IF s = "ok" THEN [row EXCEPT ![q.user] = TRUE] ELSE row
       /\ results' = results \cup
            {[type |-> "login", dc |-> q.dc, key |-> q.key, user |-> q.user, state |-> s]}
  /\ UNCHANGED deletes

(* UP_GAMELOGOUT: removes the row of the account, whoever inserted it. *)
DBLogout(u) ==
  /\ deletes[u] > 0
  /\ deletes' = [deletes EXCEPT ![u] = @ - 1]
  /\ row' = [row EXCEPT ![u] = FALSE]
  /\ UNCHANGED <<queries, results>>

(* The check of the address an operator account logs in from. *)
DBIpCheck(q) ==
  /\ q \in queries
  /\ q.type = "ip"
  /\ queries' = queries \ {q}
  /\ \E v \in BOOLEAN :
       results' = results \cup {[type |-> "ip", dc |-> q.dc, key |-> q.key, valid |-> v]}
  /\ UNCHANGED <<row, deletes>>

DBStep ==
  \/ \E q \in queries : DBLogin(q)
  \/ \E u \in Users : DBLogout(u)
  \/ \E q \in queries : DBIpCheck(q)
=============================================================================
