----------------------------- MODULE LoginHandoff -----------------------------
(***************************************************************************)
(* A login from end to end: client, distribute server, account database    *)
(* and agent server.                                                       *)
(*                                                                         *)
(* The client is not in the repository.  Here it behaves: it asks for one  *)
(* login at a time, takes the ticket of MP_USERCONN_LOGIN_ACK to the agent *)
(* the ticket names, shows it once per connection, and says                *)
(* MP_USERCONN_REQUEST_DISTOUT on the distribute connection it leaves.     *)
(* With LossyHandoff the distribute connection may also break while the    *)
(* client is on its way to the agent, or is there already.                 *)
(***************************************************************************)
EXTENDS DistributeLogin, AgentLogin

CONSTANT LossyHandoff

ASSUME HandoffAssumption == LossyHandoff \in BOOLEAN

VARIABLES
  acked,    \* tickets clients hold and have not shown yet
  spent,    \* tickets shown to an agent, while the distribute connection lasts
  entered   \* agent connections on which a ticket has been shown

clientVars == <<acked, spent, entered>>

vars == <<dbVars, linkVars, distVars, agentVars, clientVars>>

Ticket == [user : Users, agent : Agents, key : Nat, dc : DConns]

(* Every variable of the servers, the links and the clients has its type:  *)
(* a table entry is a block or NULL, a key a number, a queue a sequence of *)
(* messages of its link.                                                   *)
TypeOK ==
  /\ WiresTypeOK
  /\ DistributeTypeOK
  /\ AgentTypeOK
  /\ acked \subseteq Ticket
  /\ spent \subseteq Ticket
  /\ entered \subseteq AConns

Init ==
  /\ WiresInit
  /\ DistributeInit
  /\ AgentInit
  /\ acked = {}
  /\ spent = {}
  /\ entered = {}

(* The tickets obtained on a distribute connection by the client it has now. *)
TicketsOf(dc, tickets) == {t \in tickets : t.dc = dc /\ t.key = duser[dc].key}

-----------------------------------------------------------------------------
(* The distribute server and its clients. *)

ClientOfDist ==
  /\ \/ \E dc \in DConns : DAccept(dc)
     \/ \E dc \in DConns, u \in Users : LoginSyn(dc, u)
     \/ \E dc \in DConns : ForceOverlap(dc)
  /\ UNCHANGED <<agentVars, clientVars>>

ResultOfDB ==
  /\ \E r \in results : RLoginCheckQuery(r) \/ RIpCheckQuery(r)
  /\ UNCHANGED <<agentVars, clientVars>>

AnswerNotTaken(d, a) ==
  /\ AckTooLate(d, a) \/ NackDelivered(d, a)
  /\ UNCHANGED <<agentVars, clientVars>>

(* A client whose connection is closing no longer gets the ticket. *)
TakeTicket(d, a) ==
  LET m == Head(toDist[a][d]) IN
  /\ AckDelivered(d, a)
  /\ acked' = IF dnet[m.dc] = "open"
              THEN acked \cup {[user |-> m.user, agent |-> a, key |-> m.key, dc |-> m.dc]}
              ELSE acked
  /\ UNCHANGED <<agentVars, spent, entered>>

LeaveDistribute(dc) ==
  /\ TicketsOf(dc, acked \cup spent) # {}
  /\ DistOut(dc)
  /\ UNCHANGED <<agentVars, clientVars>>

(* Without LossyHandoff a client whose ticket is shown has a connection    *)
(* that lasts, and a client that loses it earlier forgets its ticket.      *)
LoseDistribute(dc) ==
  /\ DConnLost(dc)
  /\ \/ LossyHandoff
        /\ UNCHANGED acked
     \/ /\ ~LossyHandoff
        /\ TicketsOf(dc, spent) = {}
        /\ acked' = acked \ TicketsOf(dc, acked)
  /\ UNCHANGED <<agentVars, spent, entered>>

LeftDistribute(dc) ==
  /\ DDisconnected(dc)
  /\ spent' = spent \ TicketsOf(dc, spent)
  /\ UNCHANGED <<agentVars, acked, entered>>

-----------------------------------------------------------------------------
(* The agent server and its clients. *)

ConnectionOfAgent(c) ==
  /\ AConnLost(c) \/ ADrop(c) \/ CharacterSelect(c)
  /\ UNCHANGED <<distVars, clientVars>>

GoneFromAgent(c) == ADisconnected(c) /\ UNCHANGED <<distVars, clientVars>>

Reap(c) == ReapUnconnected(c) /\ UNCHANGED <<distVars, clientVars>>

MapToAgent(a, u) ==
  /\ BackToCharSel(a, u) \/ LoginCheckDeleteFromMap(a, u)
  /\ UNCHANGED <<distVars, clientVars>>

DistToAgent(d, a) ==
  /\ \/ NotifyUserLoginSyn(d, a)
     \/ NotifyAlreadyOut(d, a)
     \/ DisconnectedDuringLogin(d, a)
     \/ ForceDisconnectOverlapLogin(d, a)
  /\ UNCHANGED <<distVars, clientVars>>

ConnectAgent(c) ==
  /\ AAccept(c)
  /\ entered' = entered \ {c}
  /\ UNCHANGED <<distVars, acked, spent>>

ShowTicket(c, t) ==
  /\ t \in acked
  /\ AgentOf[c] = t.agent
  /\ c \notin entered
  /\ CharacterlistSyn(c, t.user, t.key)
  /\ entered' = entered \cup {c}
  /\ acked' = acked \ {t}
  /\ spent' = IF duser[t.dc].key = t.key THEN spent \cup {t} ELSE spent
  /\ UNCHANGED distVars

-----------------------------------------------------------------------------
DatabaseStep == DBStep /\ UNCHANGED <<linkVars, distVars, agentVars, clientVars>>

Next ==
  \/ ClientOfDist
  \/ ResultOfDB
  \/ \E d \in Dists, a \in Agents :
       AnswerNotTaken(d, a) \/ TakeTicket(d, a) \/ DistToAgent(d, a)
  \/ \E dc \in DConns : LeaveDistribute(dc) \/ LoseDistribute(dc) \/ LeftDistribute(dc)
  \/ \E c \in AConns :
       ConnectionOfAgent(c) \/ GoneFromAgent(c) \/ Reap(c) \/ ConnectAgent(c)
  \/ \E a \in Agents, u \in Users : MapToAgent(a, u)
  \/ \E c \in AConns, t \in acked : ShowTicket(c, t)
  \/ DatabaseStep

Spec == Init /\ [][Next]_vars

(* The servers and the database run: what has reached them is handled, the *)
(* callback of a closing connection comes, and ConnectionCheck of the      *)
(* agent is called.  Clients are free to do nothing.                       *)
Fairness ==
  /\ WF_vars(ResultOfDB)
  /\ WF_vars(DatabaseStep)
  /\ \A d \in Dists, a \in Agents :
       /\ WF_vars(AnswerNotTaken(d, a) \/ TakeTicket(d, a))
       /\ WF_vars(DistToAgent(d, a))
  /\ \A dc \in DConns : WF_vars(LeftDistribute(dc))
  /\ \A c \in AConns : WF_vars(GoneFromAgent(c)) /\ WF_vars(Reap(c))

FairSpec == Spec /\ Fairness

-----------------------------------------------------------------------------
(* Safety. *)

(* The three tables and the pool of an agent agree: an entry points at a   *)
(* block in use that names the key it is filed under, every block in use   *)
(* is filed under the account and the connection it names, and it names at *)
(* least one of them.  No entry dangles, no block leaks, no block is       *)
(* shared.  (The handlers free blocks in six places and unlink them from   *)
(* the tables one by one.)                                                 *)
EntryOK(a, s) == s # NoSlot => s \in Slots \ free[a]

ConnEntriesOK ==
  \A c \in AConns :
    /\ EntryOK(AgentOf[c], connTab[c])
    /\ connTab[c] # NoSlot => slots[AgentOf[c]][connTab[c]].conn = c

UserEntriesOK ==
  \A a \in Agents, u \in Users :
    /\ EntryOK(a, userTab[a][u])
    /\ userTab[a][u] # NoSlot => slots[a][userTab[a][u]].user = u

CharEntriesOK ==
  \A a \in Agents, u \in Users :
    /\ EntryOK(a, charTab[a][u])
    /\ charTab[a][u] # NoSlot => /\ charTab[a][u] = userTab[a][u]
                                 /\ slots[a][charTab[a][u]].char

BlocksFiled ==
  \A a \in Agents : \A s \in Slots \ free[a] :
    LET r == slots[a][s] IN
    /\ r.conn # NoConn => AgentOf[r.conn] = a /\ connTab[r.conn] = s
    /\ r.user # NoUser => userTab[a][r.user] = s
    /\ r.char => r.user # NoUser /\ charTab[a][r.user] = s
    /\ r.conn # NoConn \/ r.user # NoUser

TablesAgree == ConnEntriesOK /\ UserEntriesOK /\ CharEntriesOK /\ BlocksFiled

(* The answer of an agent that will still be delivered finds the account   *)
(* it is about in the distribute server's USERINFO, admitted and with the  *)
(* delete option set, so that the ^= of the delivery clears the option.    *)
AnswersFit ==
  \A a \in Agents, d \in Dists : \A i \in 1..Len(toDist[a][d]) :
    LET m == toDist[a][d][i] IN
    m.type = "userlogin_ack" /\ Matches(m.dc, m.key) =>
      /\ duser[m.dc].user = m.user
      /\ duser[m.dc].state = "ok"
      /\ duser[m.dc].del

(* Once the client has its ticket, leaving the distribute server does not  *)
(* log the account out.                                                    *)
TicketKeepsRow ==
  \A t \in acked \cup spent :
    duser[t.dc].key = t.key => duser[t.dc].user = t.user /\ ~duser[t.dc].del

(* A distribute server serves one login at a time per client: of the query, *)
(* the result, the announcement and the answer about the client a           *)
(* connection index belongs to now, at most one is under way, it agrees     *)
(* with the USERINFO, and whatever is about an earlier client of the index  *)
(* has an older key.                                                        *)
Current(dc, m) == m.dc = dc /\ m.key = duser[dc].key
LoginOf(dc, q) == q.type = "login" /\ Current(dc, q)
IpOf(dc, q)    == q.type = "ip" /\ Current(dc, q)
SynOf(dc, m)   == m.type = "userlogin_syn" /\ Current(dc, m)

KeysOlder(dc) ==
  LET used == 1..(nextKey[DistOf[dc]] - 1) IN
  /\ duser[dc].key < nextKey[DistOf[dc]]
  /\ \A q \in queries : q.dc = dc => q.key \in used
  /\ \A r \in results : r.dc = dc => r.key \in used
  /\ \A t \in acked \cup spent : t.dc = dc => t.key \in used
  /\ \A d \in Dists, a \in Agents :
       /\ \A i \in 1..Len(toAgent[d][a]) :
            toAgent[d][a][i].type = "userlogin_syn" /\ toAgent[d][a][i].dc = dc
              => toAgent[d][a][i].key \in used
       /\ \A i \in 1..Len(toDist[a][d]) :
            toDist[a][d][i].dc = dc => toDist[a][d][i].key \in used

OneLogin(dc) ==
  /\ \A q, r \in queries : LoginOf(dc, q) /\ LoginOf(dc, r) => q = r
  /\ \A q, r \in results : LoginOf(dc, q) /\ LoginOf(dc, r) => q = r
  /\ \A q \in queries, r \in results : ~(LoginOf(dc, q) /\ LoginOf(dc, r))

OneIpCheck(dc) ==
  /\ \A q, r \in queries : IpOf(dc, q) /\ IpOf(dc, r) => q = r
  /\ \A q, r \in results : IpOf(dc, q) /\ IpOf(dc, r) => q = r
  /\ \A q \in queries, r \in results : ~(IpOf(dc, q) /\ IpOf(dc, r))

OneAnnouncement(dc) ==
  \A d, e \in Dists, a, b \in Agents :
    /\ \A i \in 1..Len(toAgent[d][a]), j \in 1..Len(toAgent[e][b]) :
         SynOf(dc, toAgent[d][a][i]) /\ SynOf(dc, toAgent[e][b][j])
           => d = e /\ a = b /\ i = j
    /\ \A i \in 1..Len(toDist[a][d]), j \in 1..Len(toDist[b][e]) :
         Current(dc, toDist[a][d][i]) /\ Current(dc, toDist[b][e][j])
           => d = e /\ a = b /\ i = j
    /\ \A i \in 1..Len(toAgent[d][a]), j \in 1..Len(toDist[b][e]) :
         ~(SynOf(dc, toAgent[d][a][i]) /\ Current(dc, toDist[b][e][j]))

CheckedFirst(dc) ==
  \A q \in queries \cup results : IpOf(dc, q) =>
    \A d \in Dists, a \in Agents :
      /\ \A i \in 1..Len(toAgent[d][a]) : ~SynOf(dc, toAgent[d][a][i])
      /\ \A i \in 1..Len(toDist[a][d]) : ~Current(dc, toDist[a][d][i])

Admitted(dc, u) == duser[dc].user = u /\ duser[dc].state = "ok" /\ duser[dc].del

StateAgrees(dc) ==
  /\ duser[dc].state # "ok" => ~duser[dc].del
  /\ \A q \in queries \cup results :
       /\ LoginOf(dc, q) => duser[dc].state # "ok"
       /\ IpOf(dc, q) => \E u \in Users : Admitted(dc, u)
  /\ \A d \in Dists, a \in Agents :
       /\ \A i \in 1..Len(toAgent[d][a]) :
            SynOf(dc, toAgent[d][a][i]) => Admitted(dc, toAgent[d][a][i].user)
       /\ \A i \in 1..Len(toDist[a][d]) :
            Current(dc, toDist[a][d][i]) => Admitted(dc, toDist[a][d][i].user)
  /\ \A t \in acked \cup spent :
       Current(dc, t) => /\ duser[dc].user = t.user
                         /\ duser[dc].state = "ok"
                         /\ ~duser[dc].del

InOrder(dc) ==
  /\ KeysOlder(dc)
  /\ OneLogin(dc)
  /\ OneIpCheck(dc)
  /\ OneAnnouncement(dc)
  /\ CheckedFirst(dc)
  /\ StateAgrees(dc)

LoginInOrder == \A dc \in DConns : InOrder(dc)

(* The login as its client sees it.  Whatever late results and answers are *)
(* under way, a grant is about the account that client has asked for, is   *)
(* not taken back, and is worth one ticket, for that account: all of this  *)
(* implements LoginService.                                                *)
Granted(dc) == HasUser(dc) /\ duser[dc].state = "ok"

LoginAt(dc) ==
  IF ~HasUser(dc) THEN "none"
  ELSE IF ~Granted(dc) THEN "guest"
  ELSE IF duser[dc].del THEN "granted" ELSE "ticket"

AskedFor(dc) ==
  {q.user : q \in {r \in queries \cup results : HasUser(dc) /\ LoginOf(dc, r)}}

AccountOf(dc) == IF Granted(dc) THEN duser[dc].user ELSE NoUser

TicketSeen(t) == [account |-> t.user, key |-> t.key, conn |-> t.dc]

KeysSeen     == [dc \in DConns |-> duser[dc].key]
AskedSeen    == [dc \in DConns |-> AskedFor(dc)]
LoginsSeen   == [dc \in DConns |-> LoginAt(dc)]
AccountsSeen == [dc \in DConns |-> AccountOf(dc)]
TicketsSeen  == {TicketSeen(t) : t \in acked \cup spent}

Service ==
  INSTANCE LoginService WITH
    Conns <- DConns, Servers <- Dists, Home <- DistOf, Accounts <- Users, Nobody <- NoUser,
    key <- KeysSeen, asked <- AskedSeen, login <- LoginsSeen,
    account <- AccountsSeen, tickets <- TicketsSeen

ImplementsService == Service!Spec

(* Somebody is still going to remove the login row of u.  *)
InTransit(u) ==
  \/ \E d \in Dists, a \in Agents : \E i \in 1..Len(toAgent[d][a]) :
       toAgent[d][a][i].type = "userlogin_syn" /\ toAgent[d][a][i].user = u
  \/ \E r \in results : r.type = "login" /\ r.user = u /\ r.state = "ok"

Accountable(u) ==
  \/ deletes[u] > 0
  \/ InTransit(u)
  \/ \E dc \in DConns : duser[dc].user = u /\ duser[dc].del
  \/ \E a \in Agents : userTab[a][u] # NoSlot \/ mapOut[a][u] > 0

(* A login row is never orphaned: while it exists, a session holds it or   *)
(* its removal is under way, at one of the servers or on a link.  An       *)
(* orphaned row would refuse its account every later login.                *)
NoOrphanRow == \A u \in Users : row[u] => Accountable(u)

(* With several agents: both, at every agent.                              *)
TablesAndRows == TablesAgree /\ NoOrphanRow

(* The login row covers the session: it stays until the session has lost   *)
(* its connection.  An agent that is told of a login looks for an earlier  *)
(* session in its own tables alone and relies on the row for the others;   *)
(* but several handlers log the same login out.                            *)
RowCoversSession ==
  \A a \in Agents, u \in Users :
    userTab[a][u] # NoSlot /\ slots[a][userTab[a][u]].conn # NoConn => row[u]

-----------------------------------------------------------------------------
(* Liveness. *)

Announced(dc) ==
  \E a \in Agents : \E i \in 1..Len(toAgent[DistOf[dc]][a]) :
    LET m == toAgent[DistOf[dc]][a][i] IN
    m.type = "userlogin_syn" /\ m.dc = dc /\ m.key = duser[dc].key

(* A client whose login was announced to an agent gets its ticket (which   *)
(* clears the delete option) or is disconnected: the announcement, the     *)
(* answer and the disconnect meet other logins of the account, stale       *)
(* answers and the reuse of the connection index on the way.  It holds as  *)
(* long as the agent has a free block: NotifyUserLoginSyn answers an empty *)
(* pool with AGENTDISABLE, which no distribute server reads.               *)
AnnouncedIsAnswered ==
  \A dc \in DConns : Announced(dc) ~> dnet[dc] # "open" \/ ~duser[dc].del

(* A session reserved for an account that never connects to the agent is   *)
(* given up: ConnectionCheck collects the sessions without a connection.   *)
ReservationEnds ==
  \A a \in Agents, u \in Users :
    LET reserved == userTab[a][u] # NoSlot /\ slots[a][userTab[a][u]].conn = NoConn
    IN reserved ~> ~reserved
=============================================================================
