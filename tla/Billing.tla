------------------------------ MODULE Billing ------------------------------
(***************************************************************************)
(* The distribute server between the billing server and the agents.        *)
(*                                                                         *)
(* Players of game rooms are charged to their room and have advantages in  *)
(* the game.  When a player logs in, the billing server is told its place  *)
(* and grants it or not; the agents are told the answer and keep it, for   *)
(* the map servers.  When the player leaves, the charge ends.  From time   *)
(* to time the billing server asks whether a player is still there: every  *)
(* agent is asked in turn, and the player is gone when all have denied it. *)
(* The connection to the billing server may fail; the distribute server    *)
(* then connects again, has the billing server start from nothing and      *)
(* reports again the players it knows.                                     *)
(*                                                                         *)
(* The billing server, the network and the clients are modelled from how   *)
(* the code uses them; a packet is handled by the billing server when it   *)
(* is sent, for it waits in the queue of the connector as long as it       *)
(* likes.  Where a server group has no billing server, the database is     *)
(* asked about each place instead, and nobody is charged.  Left out are    *)
(* the clock between two attempts to connect and the wording of results.   *)
(***************************************************************************)
EXTENDS Naturals, Sequences, FiniteSets, SequencesExt

CONSTANTS
  Users,
  Agents,
  Places,      \* the addresses players come from
  Rooms,       \* those of game rooms
  NoPlace,     \* no packet of the player
  NoCheck,     \* the player is not being looked for
  Others,      \* servers in g_pServerTable that are not agents
  MaxTry,      \* maxTryCount
  MaxRead,     \* packets one read may find; one is handled
  MaxLogins, MaxAsks, MaxFaults   \* bounds: logins, what the billing server asks, failures

ASSUME BillingAssumption ==
  /\ Rooms \subseteq Places /\ NoPlace \notin Places /\ NoCheck \notin Nat
  /\ Others \in Nat /\ MaxTry \in Nat /\ MaxRead \in Nat \ {0}

VARIABLES
  mode,     \* szIPForServer: a billing server or "database"
  lookups,  \* queries about places, not answered yet
  socket,   \* mSocket, and whether the billing server is still behind it
  tries,    \* mConnectTryCount
  reading,  \* Process has sent a packet and goes on to read
  sendq,    \* mSendPacketQueue
  started,  \* mUserPacketContainer: the place of each packet
  checks,   \* mUserCheckContainer: agents that have still to deny a player
  inbox,    \* packets of the billing server
  charged,  \* the players it charges, and to which place
  asked,    \* the players it has asked about
  online,   \* the players of each agent
  place,    \* where each player in the game came from
  packets,  \* each agent's mUserPacketContainer
  down,     \* messages to each agent
  up,       \* messages of each agent
  running,  \* agents in g_pServerTable
  logins, asks, faults,
  present,  \* history: players in the game ever since they were asked about
  mixed,    \* history: players of whom a search has outlived the question or the login
  muddled   \* history: players of whom a login or a logout was missed

vars == <<mode, lookups, socket, tries, reading, sendq, started, checks, inbox, charged, asked, online, place,
          packets, down, up, running, logins, asks, faults, present, mixed, muddled>>

connector == <<mode, lookups, socket, tries, reading, sendq, started, checks>>
billing   == <<inbox, charged, asked>>
players   == <<online, place, packets, running>>
limits    == <<logins, asks, faults>>

Packet(type, u, p, ok) == [type |-> type, user |-> u, place |-> p, ok |-> ok]

Alone(type) == [type |-> type]

Note(kind, u, p) == [kind |-> kind, user |-> u, place |-> p]

Init ==
  /\ mode \in {"server", "database"} /\ lookups = {}
  /\ socket = "none" /\ tries = 0 /\ reading = FALSE /\ sendq = <<>>
  /\ started = [u \in Users |-> NoPlace]
  /\ checks = [u \in Users |-> NoCheck]
  /\ inbox = <<>> /\ charged = [u \in Users |-> NoPlace] /\ asked = {}
  /\ online = [a \in Agents |-> {}]
  /\ place = [u \in Users |-> NoPlace]
  /\ packets = [a \in Agents |-> [u \in Users |-> NoPlace]]
  /\ down = [a \in Agents |-> <<>>] /\ up = [a \in Agents |-> <<>>]
  /\ running = Agents
  /\ logins = 0 /\ asks = 0 /\ faults = 0
  /\ present = {} /\ mixed = {} /\ muddled = {}

Online(u) == \E a \in Agents : u \in online[a]

(* The players named by the packets or messages of a kind. *)
PlayersIn(q, types) == {q[i].user : i \in {j \in DOMAIN q : q[j].type \in types}}

StartsIn(q) == PlayersIn(q, {"start"})

NamedIn(q, kinds) == {q[i].user : i \in {j \in DOMAIN q : q[j].kind \in kinds}}

(* A player is being looked for, or answers of a search are under way. *)
Searched(u) ==
  \E a \in Agents : u \in NamedIn(down[a], {"check"}) \cup NamedIn(up[a], {"check_ack", "check_nack"})

Mixes(u, q) ==
  mixed' = IF Searched(u) \/ u \in PlayersIn(sendq \o q, {"sync"}) THEN mixed \cup {u} ELSE mixed

(* Broadcast2AgentServer. *)
Broadcast(msg) == down' = [a \in Agents |-> IF a \in running THEN Append(down[a], msg) ELSE down[a]]

-----------------------------------------------------------------------------
(* Players. *)

(* A login is announced to an agent and GameStart called.                  *)
GameStart(u, a, p) ==
  /\ ~Online(u) /\ a \in running
  /\ logins < MaxLogins /\ logins' = logins + 1
  /\ online' = [online EXCEPT ![a] = @ \cup {u}]
  /\ place' = [place EXCEPT ![u] = p]
  /\ lookups' = IF mode = "database" THEN lookups \cup {[user |-> u, place |-> p]} ELSE lookups
  /\ sendq' = IF mode = "database" \/ socket = "invalid" THEN sendq
              ELSE Append(sendq, Packet("start", u, p, TRUE))
  /\ muddled' = IF \/ mode = "server" /\ socket = "invalid"
                   \/ \E b \in Agents : u \in NamedIn(up[b], {"stop"})
                   \/ \E q \in lookups : q.user = u
                THEN muddled \cup {u} ELSE muddled
  /\ Mixes(u, inbox)
  /\ UNCHANGED <<mode, socket, tries, reading, started, checks, billing, packets, running, down, up,
                 asks, faults, present>>

(* OnDisconnectUser of the agent. *)
Leave(a, u) ==
  /\ u \in online[a]
  /\ online' = [online EXCEPT ![a] = @ \ {u}]
  /\ up' = [up EXCEPT ![a] = Append(@, Note("stop", u, NoPlace))]
  /\ place' = [place EXCEPT ![u] = NoPlace]
  /\ present' = present \ {u}
  /\ UNCHANGED <<connector, billing, packets, running, down, limits, mixed, muddled>>

(* GameEnd that keeps the packet. *)
GameEndKeeps(u) ==
  IF started[u] = NoPlace
  THEN /\ muddled' = IF u \in StartsIn(sendq) \cup StartsIn(inbox) THEN muddled \cup {u} ELSE muddled
       /\ UNCHANGED <<sendq, started, checks>>
  ELSE /\ checks' = [checks EXCEPT ![u] = NoCheck]
       /\ UNCHANGED <<sendq, started, muddled>>

(* GameEnd, only for a player whose start has been answered.               *)
GameEnd(u) ==
  IF started[u] = NoPlace
  THEN /\ muddled' = IF u \in StartsIn(sendq) \cup StartsIn(inbox) THEN muddled \cup {u} ELSE muddled
       /\ UNCHANGED <<sendq, started, checks>>
  ELSE /\ sendq' = Append(sendq, Packet("end", u, started[u], TRUE))
       /\ started' = [started EXCEPT ![u] = NoPlace]
       /\ checks' = [checks EXCEPT ![u] = NoCheck]
       /\ UNCHANGED muddled

-----------------------------------------------------------------------------
(* Is a player in the game? *)

(* SucceedToCheck that leaves the entry to the denials.                    *)
SucceedToCheckGoesOn(u) ==
  IF checks[u] = NoCheck THEN UNCHANGED <<sendq, checks>>
  ELSE /\ UNCHANGED checks
       /\ sendq' = Append(sendq, Packet("sync", u, started[u], TRUE))

(* One agent that has the player is enough. *)
SucceedToCheck(u) ==
  IF checks[u] = NoCheck THEN UNCHANGED <<sendq, checks>>
  ELSE /\ checks' = [checks EXCEPT ![u] = NoCheck]
       /\ sendq' = Append(sendq, Packet("sync", u, started[u], TRUE))

(* FailToCheck that believes the first agent.                              *)
FailToCheckAtOnce(u) ==
  IF checks[u] = NoCheck THEN UNCHANGED <<sendq, checks>>
  ELSE /\ checks' = [checks EXCEPT ![u] = NoCheck]
       /\ sendq' = Append(sendq, Packet("sync", u, started[u], FALSE))

(* Every denial counts, until the last.  The count is unsigned; 0 is taken *)
(* for an error.                                                           *)
FailToCheck(u) ==
  IF checks[u] \in {NoCheck, 0}
  THEN UNCHANGED sendq /\ checks' = [checks EXCEPT ![u] = NoCheck]
  ELSE IF checks[u] > 1
  THEN UNCHANGED sendq /\ checks' = [checks EXCEPT ![u] = @ - 1]
  ELSE /\ checks' = [checks EXCEPT ![u] = NoCheck]
       /\ sendq' = Append(sendq, Packet("sync", u, started[u], FALSE))

(* The messages of an agent. *)
FromAgent(a) ==
  /\ up[a] # <<>>
  /\ up' = [up EXCEPT ![a] = Tail(@)]
  /\ LET msg == Head(up[a]) IN
       \/ msg.kind = "stop" /\ GameEnd(msg.user)
       \/ msg.kind = "check_ack" /\ SucceedToCheck(msg.user) /\ UNCHANGED <<started, muddled>>
       \/ msg.kind = "check_nack" /\ FailToCheck(msg.user) /\ UNCHANGED <<started, muddled>>
  /\ UNCHANGED <<mode, lookups, socket, tries, reading, billing, players, down, limits, present, mixed>>

-----------------------------------------------------------------------------
(* The agents. *)

Keeps(a, u, p) == packets' = [packets EXCEPT ![a][u] = p]

(* The BILLING cases of MP_USERCONNServerMsgParser, with SetPacketGame and *)
(* RemovePacketGame; the alert is one that stops the player.               *)
ToAgent(a) ==
  /\ down[a] # <<>>
  /\ LET msg == Head(down[a]) IN
       \/ /\ msg.kind = "check"
          /\ up' = [up EXCEPT ![a] = Append(@, Note(IF msg.user \in online[a] THEN "check_ack" ELSE "check_nack",
                                                    msg.user, NoPlace))]
          /\ UNCHANGED packets
       \/ msg.kind = "start_ack" /\ Keeps(a, msg.user, msg.place) /\ UNCHANGED up
       \/ msg.kind = "start_nack" /\ Keeps(a, msg.user, NoPlace) /\ UNCHANGED up
       \/ msg.kind = "alert" /\ Keeps(a, msg.user, NoPlace) /\ UNCHANGED up
  /\ down' = [down EXCEPT ![a] = Tail(@)]
  /\ UNCHANGED <<connector, billing, online, place, running, limits, present, mixed, muddled>>

RemoveServer(a) == running' = running \ {a}

(* An agent ends: OnDisconnectServer takes it out of the table.            *)
AgentStops(a) ==
  /\ a \in running /\ faults < MaxFaults
  /\ faults' = faults + 1
  /\ RemoveServer(a)
  /\ online' = [online EXCEPT ![a] = {}]
  /\ packets' = [packets EXCEPT ![a] = [u \in Users |-> NoPlace]]
  /\ down' = [down EXCEPT ![a] = <<>>]
  /\ place' = [u \in Users |-> IF u \in online[a] THEN NoPlace ELSE place[u]]
  /\ present' = present \ online[a]
  /\ muddled' = muddled \cup online[a]
  /\ UNCHANGED <<connector, billing, up, logins, asks, mixed>>

-----------------------------------------------------------------------------
(* The connection. *)

(* Every agent is asked, unless a search is going on. *)
ReceiveSync(p) ==
  /\ p.type = "sync"
  /\ IF checks[p.user] # NoCheck THEN UNCHANGED <<checks, down, mixed>>
     ELSE /\ checks' = [checks EXCEPT ![p.user] = Cardinality(running) + Others]
          /\ Broadcast(Note("check", p.user, NoPlace))
          /\ Mixes(p.user, <<>>)
  /\ UNCHANGED started

ReceiveDenied(p) ==
  /\ p.type = "start" /\ ~p.ok
  /\ checks' = [checks EXCEPT ![p.user] = NoCheck]
  /\ Broadcast(Note("start_nack", p.user, NoPlace))
  /\ UNCHANGED <<started, mixed>>

ReceiveAlert(p) ==
  /\ p.type = "alert"
  /\ Broadcast(Note("alert", p.user, NoPlace))
  /\ UNCHANGED <<started, checks, mixed>>

(* A packet comes from the billing server. *)
Receive(p) ==
  \/ /\ p.type = "start" /\ p.ok
     /\ started' = [started EXCEPT ![p.user] = p.place]
     /\ Broadcast(Note("start_ack", p.user, p.place))
     /\ UNCHANGED <<checks, mixed>>
  \/ ReceiveDenied(p) \/ ReceiveSync(p) \/ ReceiveAlert(p)

(* Connect, when the billing server is there: what was waiting is thrown   *)
(* away, and the players with a packet are reported again.                 *)
Connected ==
  LET again == SetToSeq({u \in Users : started[u] # NoPlace}) IN
  /\ socket' = IF tries >= MaxTry THEN "invalid" ELSE "up"
  /\ sendq' = <<Alone("conn"), Alone("reset")>> \o
              [i \in DOMAIN again |-> Packet("start", again[i], started[again[i]], TRUE)]
  /\ started' = [u \in Users |-> NoPlace]
  /\ checks' = [u \in Users |-> NoCheck]
  /\ muddled' = muddled \cup StartsIn(sendq)
  /\ inbox' = <<>>

(* Process without a connection.  The attempts are counted whether they    *)
(* succeed or not, and one too many ends the service.                      *)
Connect ==
  /\ socket = "none"
  /\ tries' = tries + 1 /\ reading' = FALSE
  /\ \/ mode = "server" /\ Connected
     \/ /\ socket' = IF tries >= MaxTry THEN "invalid" ELSE "none"
        /\ UNCHANGED <<sendq, started, checks, muddled, inbox>>
  /\ UNCHANGED <<mode, lookups, charged, asked, players, down, up, limits, present, mixed>>

(* RGameRoomData: the database knows the game rooms.                       *)
RGameRoomData(q) ==
  /\ q \in lookups
  /\ lookups' = lookups \ {q}
  /\ Broadcast(IF q.place \in Rooms THEN Note("start_ack", q.user, q.place)
               ELSE Note("start_nack", q.user, NoPlace))
  /\ UNCHANGED <<mode, socket, tries, reading, sendq, started, checks, billing, players, up, limits,
                 present, mixed, muddled>>

(* A start may be granted in a room. *)
Grants(p) ==
  IF p.type # "start" THEN {TRUE} ELSE IF p.place \in Rooms THEN BOOLEAN ELSE {FALSE}

(* What the billing server does with a packet. *)
Served(p, ok) ==
  CASE p.type \in {"conn", "reset"} ->
         charged' = [u \in Users |-> NoPlace] /\ asked' = {} /\ UNCHANGED inbox
    [] p.type = "start" ->
         /\ charged' = [charged EXCEPT ![p.user] = IF ok THEN p.place ELSE NoPlace]
         /\ asked' = IF ok THEN asked ELSE asked \ {p.user}
         /\ inbox' = Append(inbox, [p EXCEPT !.ok = ok])
    [] p.type = "end" ->
         charged' = [charged EXCEPT ![p.user] = NoPlace] /\ asked' = asked \ {p.user} /\ UNCHANGED inbox
    [] p.type = "sync" ->
         /\ charged' = IF p.ok THEN charged ELSE [charged EXCEPT ![p.user] = NoPlace]
         /\ asked' = asked \ {p.user}
         /\ UNCHANGED inbox

(* Process with something to send. *)
Send ==
  /\ socket = "up" /\ sendq # <<>>
  /\ reading' = TRUE
  /\ sendq' = Tail(sendq)
  /\ LET p == Head(sendq) IN
       /\ \E ok \in Grants(p) : Served(p, ok)
       /\ present' = IF p.type = "sync" THEN present \ {p.user} ELSE present
  /\ UNCHANGED <<mode, lookups, socket, tries, started, checks, players, down, up, limits, mixed, muddled>>

(* The connection has broken: a packet is accepted and lost, or the error  *)
(* is seen.                                                                *)
SendFails ==
  /\ socket = "broken" /\ sendq # <<>>
  /\ \/ /\ sendq' = Tail(sendq) /\ reading' = TRUE
        /\ muddled' = muddled \cup (IF Head(sendq).type \in {"start", "end"} THEN {Head(sendq).user} ELSE {})
        /\ UNCHANGED socket
     \/ socket' = "none" /\ reading' = FALSE /\ UNCHANGED <<sendq, muddled>>
  /\ UNCHANGED <<mode, lookups, tries, started, checks, billing, players, down, up, limits, present, mixed>>

(* Process with something to read, when nothing is left to send or one     *)
(* packet has been sent: of what one read finds, the first is handled.     *)
Recv ==
  /\ socket \in {"up", "broken"} /\ inbox # <<>>
  /\ sendq = <<>> \/ reading
  /\ reading' = FALSE
  /\ \E n \in 1..Len(inbox) :
       /\ n <= MaxRead
       /\ inbox' = SubSeq(inbox, n + 1, Len(inbox))
       /\ muddled' = muddled \cup StartsIn(SubSeq(inbox, 2, n))
  /\ Receive(Head(inbox))
  /\ UNCHANGED <<mode, lookups, socket, tries, sendq, charged, asked, players, up, limits, present>>

(* The operator's button: Reset. *)
Reset ==
  /\ faults < MaxFaults /\ faults' = faults + 1
  /\ socket # "none"
  /\ tries' = 0 /\ socket' = "none" /\ reading' = FALSE
  /\ muddled' = muddled \cup StartsIn(inbox)
  /\ inbox' = <<>> /\ asked' = {}
  /\ UNCHANGED <<mode, lookups, sendq, started, checks, charged, players, down, up, logins, asks,
                 present, mixed>>

-----------------------------------------------------------------------------
(* The billing server. *)

(* It has heard of the new connection. *)
Heard == socket = "up" /\ \A i \in DOMAIN sendq : sendq[i].type # "reset"

(* It loses the connection, and what it had sent. *)
Drops ==
  /\ socket = "up" /\ faults < MaxFaults
  /\ faults' = faults + 1
  /\ socket' = "broken"
  /\ muddled' = muddled \cup StartsIn(inbox)
  /\ inbox' = <<>> /\ asked' = {}
  /\ UNCHANGED <<mode, lookups, tries, reading, sendq, started, checks, charged, players, down, up, logins, asks,
                 present, mixed>>

Asks(u) ==
  /\ Heard /\ asks < MaxAsks /\ asks' = asks + 1
  /\ charged[u] # NoPlace /\ u \notin asked
  /\ asked' = asked \cup {u}
  /\ inbox' = Append(inbox, Packet("sync", u, charged[u], TRUE))
  /\ present' = IF Online(u) THEN present \cup {u} ELSE present \ {u}
  /\ Mixes(u, inbox)
  /\ UNCHANGED <<connector, charged, players, down, up, logins, faults, muddled>>

(* The credit of a player is used up, or it is at two places. *)
Alerts(u) ==
  /\ Heard /\ asks < MaxAsks /\ asks' = asks + 1
  /\ charged[u] # NoPlace
  /\ charged' = [charged EXCEPT ![u] = NoPlace]
  /\ asked' = asked \ {u}
  /\ inbox' = Append(inbox, Packet("alert", u, charged[u], FALSE))
  /\ UNCHANGED <<connector, players, down, up, logins, faults, present, mixed, muddled>>

-----------------------------------------------------------------------------
Process == Connect \/ Send \/ SendFails \/ Recv

Next ==
  \/ Process
  \/ \E a \in Agents : FromAgent(a) \/ ToAgent(a) \/ AgentStops(a)
  \/ \E a \in Agents, u \in Users : Leave(a, u) \/ \E p \in Places : GameStart(u, a, p)
  \/ Reset \/ Drops
  \/ \E q \in lookups : RGameRoomData(q)
  \/ \E u \in Users : Asks(u) \/ Alerts(u)

Spec == Init /\ [][Next]_vars

-----------------------------------------------------------------------------
(* Properties. *)

(* Types: in particular, no search waits for more answers than there are  *)
(* agents, and nobody is in the game at an agent that has ended.           *)
TypeOK ==
  /\ socket \in {"none", "up", "broken", "invalid"} /\ reading \in BOOLEAN
  /\ started \in [Users -> Places \cup {NoPlace}]
  /\ checks \in [Users -> 0..(Cardinality(Agents) + Others) \cup {NoCheck}]
  /\ charged \in [Users -> Places \cup {NoPlace}]
  /\ asked \subseteq Users
  /\ packets \in [Agents -> [Users -> Places \cup {NoPlace}]]
  /\ online \in [Agents -> SUBSET Users]
  /\ \A a \in Agents \ running : online[a] = {}

(* The players whose logins, logouts and searches have not got mixed up. *)
Clear == Users \ (muddled \cup mixed)

(* Nothing is under way. *)
Quiet == /\ socket = IF mode = "server" THEN "up" ELSE "invalid"
         /\ sendq = <<>> /\ inbox = <<>> /\ lookups = {}
         /\ \A a \in Agents : down[a] = <<>> /\ up[a] = <<>>

(* A player is reported gone only if no agent had it at some moment since  *)
(* the billing server asked; unless denials of an older search were still  *)
(* under way, which are counted with the new ones.                         *)
GoneIsGone ==
  [][(Send /\ Head(sendq).type = "sync" /\ ~Head(sendq).ok)
     => Head(sendq).user \notin present \ mixed]_vars

(* When nothing is under way, no search for a player is left over: an      *)
(* entry left behind would silence every later question about it.          *)
ChecksEnd == (Quiet /\ running = Agents) => \A u \in Users : checks[u] = NoCheck

(* When nothing is under way, a player who has left is not charged, if its *)
(* logins and logouts have been heard in order.                            *)
NobodyChargedAway == Quiet => \A u \in Clear : charged[u] # NoPlace => Online(u)

(* When nothing is under way, a player in the game has the advantages of   *)
(* the place it is at, or none, if its logins and logouts have been heard  *)
(* in order: those of an earlier login are not carried to another place.   *)
BenefitsEarned ==
  Quiet => \A a \in Agents : \A u \in online[a] \cap Clear : packets[a][u] \in {place[u], NoPlace}

(* When nothing is under way, a player in the game has advantages exactly  *)
(* when its place is charged, connections lost in between included; or, by *)
(* the database, when it is in a game room.                                *)
ChargedIsShown ==
  Quiet => \A a \in Agents : \A u \in online[a] \cap Clear :
    packets[a][u] = IF mode = "server" THEN charged[u]
                    ELSE IF place[u] \in Rooms THEN place[u] ELSE NoPlace

(* When nothing is under way and no agent has gone down, the billing       *)
(* server does not wait for an answer: of several agents that deny a       *)
(* player the last one is believed, and one that has it is enough.         *)
AsksAnswered == (Quiet /\ running = Agents) => asked = {}

(* A question of the billing server about a player is answered, and leaves *)
(* no search behind.                                                       *)
SearchesEnd == ChecksEnd /\ AsksAnswered

(* What is charged, what is shown and who is in the game agree.            *)
ChargesAgree == TypeOK /\ NobodyChargedAway /\ BenefitsEarned /\ ChargedIsShown

(* ChecksEnd, when an agent has gone down too. *)
ChecksEndEver == Quiet => \A u \in Users : checks[u] = NoCheck

(* GoneIsGone, whatever was under way. *)
GoneIsGoneEver ==
  [][(Send /\ Head(sendq).type = "sync" /\ ~Head(sendq).ok) => Head(sendq).user \notin present]_vars

(* NobodyChargedAway, whatever was missed. *)
NobodyChargedAwayEver == Quiet => \A u \in Users : charged[u] # NoPlace => Online(u)

(* BenefitsEarned, whatever was missed. *)
BenefitsEarnedEver ==
  Quiet => \A a \in Agents : \A u \in online[a] : packets[a][u] \in {place[u], NoPlace}

(* The connector gives up only while it is not connected. *)
GivesUpOffline == [][socket' = "invalid" => UNCHANGED sendq]_vars
=============================================================================
