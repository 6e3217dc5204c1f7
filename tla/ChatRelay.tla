------------------------------- MODULE ChatRelay -------------------------------
(***************************************************************************)
(* The chat rooms of ChatRooms as the clients see them: requests travel    *)
(* from a client through its agent to the distribute server, and answers   *)
(* and notices back.                                                       *)
(*                                                                         *)
(* The distribute server sends everything a request causes to the agent    *)
(* the request came from.  That agent delivers a notice to those of its    *)
(* own players that are named in it and passes it on, once, to every other *)
(* agent, marked so that it goes no further.  Each link is a queue; links  *)
(* do not wait for each other.  Refusals (NACK) change nothing anywhere    *)
(* and are left out.                                                       *)
(***************************************************************************)
EXTENDS ChatRooms, SequencesExt

CONSTANTS
  Agents,
  NoAgent,
  Roams,        \* a player may come back at another agent
  MaxRequests   \* bound: what players ask for and how often they leave, in all

ASSUME RelayAssumption ==
  /\ NoAgent \notin Agents
  /\ NoRoom \notin [cur : 1..MaxGuests, cap : Caps]

VARIABLES
  home,     \* the agent a player comes to if it does not roam
  at,       \* the agent whose g_pUserTableForObjectID has the player
  via,      \* dwConnectionIdx of m_htUser: the agent that registered it
  up,       \* per agent: requests on the way to the distribute server
  down,     \* per agent: messages on the way back
  side,     \* per pair of agents: notices passed on
  view,     \* what each client was told of the room it is in
  board,    \* what it was told of all rooms: [cur, cap] or NoRoom
  asked,    \* what is used of MaxRequests
  late,     \* history: a kick or a new owner named who was not in the room any more
  served,   \* history: numbers the notices
  due,      \* history: notices a player of an agent was named in since it came
  heard,    \* history: those it was sent since then
  echoed    \* history: those it was sent again

wires == <<up, down, side>>
clients == <<view, board>>
history == <<served, due, heard, echoed>>
relayVars == <<home, at, via, wires, clients, asked, late, history>>

NoPage == [r \in RoomIdx |-> NoRoom]
NoView == [room |-> 0, members |-> {}, owner |-> NoPlayer]

(* The players have come and are in no room yet. *)
RelayInit ==
  /\ user = [p \in Players |-> 0]
  /\ rooms = [r \in RoomIdx |-> NoRoom]
  /\ list = <<>>
  /\ titles = [r \in RoomIdx |-> NoRoom]
  /\ search = [p \in Players |-> Absent]
  /\ met = [p \in Players |-> {}]
  /\ home \in [Players -> Agents]
  /\ at = home
  /\ via = home
  /\ up = [a \in Agents |-> <<>>]
  /\ down = [a \in Agents |-> <<>>]
  /\ side = [ab \in Agents \X Agents |-> <<>>]
  /\ view = [p \in Players |-> NoView]
  /\ board = [p \in Players |-> NoPage]
  /\ asked = 0 /\ served = 0 /\ late = FALSE
  /\ due = [p \in Players |-> {}]
  /\ heard = [p \in Players |-> {}]
  /\ echoed = [p \in Players |-> {}]

-----------------------------------------------------------------------------
(* Messages. *)

Req(kind, p) == [kind |-> kind, by |-> p, who |-> NoPlayer, room |-> 0, cap |-> 0]

(* about = dwID; to = dwUser, or the player of dwObjectID. *)
Msg(kind, to) ==
  [kind |-> kind, to |-> to, n |-> served, about |-> NoPlayer, room |-> 0,
   list |-> {}, page |-> NoPage]

Notices == {"join", "out", "heir", "option", "owner", "kicked"}

(* KICK_GUEST_ACK is passed on as well, where its player is not found. *)
Tracked == Notices \cup {"kick", "chat"}

Id(m) == <<m.n, m.kind>>

(* What a client makes of a message: its room. *)
Seen(p, v, m) ==
  CASE m.kind \in {"create_ack", "join_ack"} ->
         [room |-> m.room, members |-> m.list \cup {p}, owner |-> m.about]
    [] m.kind \in {"out_ack", "kick"} -> NoView
    [] m.kind = "join" /\ v.room # 0 -> [v EXCEPT !.members = @ \cup {m.about}]
    [] m.kind \in {"out", "kicked"} -> [v EXCEPT !.members = @ \ {m.about}]
    [] m.kind \in {"heir", "owner"} /\ v.room # 0 -> [v EXCEPT !.owner = m.about]
    [] OTHER -> v

(* And the list of rooms: a count or a size is written into a line that is *)
(* there.                                                                  *)
Listed(b, m) ==
  LET Line(f) == IF b[m.room] = NoRoom THEN b
                 ELSE [b EXCEPT ![m.room][f] = m.page[m.room][f]] IN
  CASE m.kind = "list_ack" -> m.page
    [] m.kind \in {"created", "deleted"} -> [b EXCEPT ![m.room] = m.page[m.room]]
    [] m.kind = "count" -> Line("cur")
    [] m.kind = "size"  -> Line("cap")
    [] OTHER -> b

(* Send2User to the players ps. *)
DeliverTo(ps, m) ==
  /\ view'   = [p \in Players |-> IF p \in ps THEN Seen(p, view[p], m) ELSE view[p]]
  /\ board'  = [p \in Players |-> IF p \in ps THEN Listed(board[p], m) ELSE board[p]]
  /\ heard'  = [p \in Players |-> heard[p] \cup IF p \in ps /\ m.kind \in Tracked THEN {Id(m)} ELSE {}]
  /\ echoed' = [p \in Players |-> echoed[p] \cup IF p \in ps THEN heard[p] \cap {Id(m)} ELSE {}]

Local(a, m) == {p \in m.to : at[p] = a}

(* Who is named in ms and plays somewhere has to hear of it. *)
Owed(ms) ==
  due' = [p \in Players |->
            due[p] \cup IF at[p] = NoAgent THEN {}
                        ELSE {Id(m) : m \in {x \in ms : x.kind \in Tracked /\ p \in x.to}}]

(* Send2AgentExceptThis. *)
PassedOn(a, m) ==
  side' = [ab \in Agents \X Agents |->
             IF ab[1] = a /\ ab[2] # a THEN Append(side[ab], m) ELSE side[ab]]

-----------------------------------------------------------------------------
(* The distribute server answers a request of p from agent a.              *)

(* What it sends to the agent that asks, before and after the news that    *)
(* the UpdateInfo_ functions send to everybody who is registered.          *)
Answer(a, before, news, after) ==
  /\ LET Everybody(b) == {q \in Players : Registered(q) /\ via[q] = b}
         To(b) == IF Everybody(b) = {} THEN <<>>
                  ELSE [k \in DOMAIN news |-> [news[k] EXCEPT !.to = Everybody(b)]]
     IN  down' = [b \in Agents |->
                    down[b] \o (IF b = a THEN before ELSE <<>>) \o To(b)
                            \o (IF b = a THEN after ELSE <<>>)]
  /\ Owed(ToSet(before) \cup ToSet(after))
  /\ served' = served + 1

Line(room) == [cur |-> room.cur, cap |-> room.cap]

News(kind, r, line) == <<[Msg(kind, {}) EXCEPT !.room = r, !.page[r] = line]>>

UpdateInfoCreatedRoom(r)       == News("created", r, Line(rooms'[r]))
UpdateInfoDeletedRoom(r)       == News("deleted", r, NoRoom)
UpdateInfoCurrentGuestCount(r) == News("count", r, Line(rooms'[r]))
UpdateInfoTotalGuestCount(r)   == News("size", r, Line(rooms'[r]))

Notice(kind, to, q) == [Msg(kind, to) EXCEPT !.about = q]

(* The guests that are counted and registered. *)
Named(room) == {q \in Members(room) : Registered(q)}

Ack(kind, p, r) ==
  [Msg(kind, {p}) EXCEPT !.room = r, !.about = rooms'[r].owner,
     !.list = IF kind = "join_ack" THEN JoinAckLists(rooms'[r]) ELSE {p}]

(* MP_CHATROOM_OUT_ROOM_ACK, EMPTYROOM and LAST_MAN are one to the client. *)
AnswerLeaving(a, p, r) ==
  IF rooms[r].cur = 1
  THEN Answer(a, <<>>, UpdateInfoDeletedRoom(r), <<Msg("out_ack", {p})>>)
  ELSE LET stay == Named(rooms'[r]) IN
       Answer(a, <<>>, UpdateInfoCurrentGuestCount(r),
              <<Msg("out_ack", {p}), Notice("out", stay, p)>>
                \o IF rooms[r].owner = p THEN <<Notice("heir", stay, rooms'[r].owner)>>
                                         ELSE <<>>)

Silent == UNCHANGED <<down, served, due>>

ServeAdd(a, p) ==
  IF Registered(p)
  THEN UNCHANGED <<vars, via>> /\ Silent
  ELSE /\ AddUserSyn(p)
       /\ via' = [via EXCEPT ![p] = a]
       /\ Answer(a, <<Msg("add_ack", {p})>>, <<>>, <<>>)

(* ServeLeaving, for a player who is registered anew or deleted.           *)
ServeForce(a, p) ==
  /\ ForceAddUserSyn(p)
  /\ via' = [via EXCEPT ![p] = a]
  /\ IF InRoom(p) THEN AnswerLeaving(a, p, user[p]) ELSE Silent

ServeDel(a, p) ==
  IF Registered(p)
  THEN /\ DelUserSyn(p)
       /\ via' = [via EXCEPT ![p] = NoAgent]
       /\ IF InRoom(p) THEN AnswerLeaving(a, p, user[p]) ELSE Silent
  ELSE UNCHANGED <<vars, via>> /\ Silent

(* Room_Syn for the first page of all types. *)
ServeList(a, p) ==
  /\ LET shown == ToSet(RoomPage(0, NoRoom))
     IN  Answer(a, <<[Msg("list_ack", {p}) EXCEPT
                        !.page = [r \in RoomIdx |-> IF r \in shown THEN Line(rooms[r]) ELSE NoRoom]]>>,
                <<>>, <<>>)
  /\ UNCHANGED <<vars, via>>

ServeCreate(a, p, cap) ==
  /\ \E type \in Types : CreateRoomSyn(p, cap, type)
  /\ Answer(a, <<Ack("create_ack", p, user'[p])>>, UpdateInfoCreatedRoom(user'[p]), <<>>)

(* ServeJoin, without UpdateInfo_Changed_Current_GuestCount. *)
ServeJoinQuietly(a, p, r) ==
  /\ JoinRoomSyn(p, r)
  /\ Answer(a, <<Ack("join_ack", p, r), Notice("join", Named(rooms'[r]) \ {p}, p)>>, <<>>, <<>>)

ServeJoin(a, p, r) ==
  /\ JoinRoomSyn(p, r)
  /\ Answer(a, <<Ack("join_ack", p, r), Notice("join", Named(rooms'[r]) \ {p}, p)>>,
            UpdateInfoCurrentGuestCount(r), <<>>)

ServeOut(a, p) == OutRoomSyn(p) /\ AnswerLeaving(a, p, user[p])

ServeOption(a, p, cap) ==
  LET r == user[p] IN
  /\ OptionSyn(p, cap, rooms[r].type)
  /\ Answer(a, <<Notice("option", Named(rooms[r]), NoPlayer)>>,
            IF cap # rooms[r].cap THEN UpdateInfoTotalGuestCount(r) ELSE <<>>, <<>>)

ServeOwner(a, p, q) ==
  /\ OwnerSyn(p, q)
  /\ Answer(a, <<Notice("owner", Named(rooms[user[p]]), q)>>, <<>>, <<>>)

(* KICK_GUEST_NOTICE names every player of the array, counted or not.      *)
ServeKick(a, p, q) ==
  LET r == user[p] IN
  /\ KickSyn(p, q)
  /\ Answer(a, <<Msg("kick", {q}), Notice("kicked", JoinAckLists(rooms'[r]) \ {q}, q)>>,
            UpdateInfoCurrentGuestCount(r), <<>>)

Granted(a, m) ==
  \/ m.kind = "create" /\ ServeCreate(a, m.by, m.cap)
  \/ m.kind = "join"   /\ ServeJoin(a, m.by, m.room)
  \/ m.kind = "out"    /\ ServeOut(a, m.by)
  \/ m.kind = "option" /\ ServeOption(a, m.by, m.cap)
  \/ m.kind = "owner"  /\ Registered(m.by) /\ ServeOwner(a, m.by, m.who)
  \/ m.kind = "kick"   /\ Registered(m.by) /\ ServeKick(a, m.by, m.who)

Refused(a, m) ==
  /\ m.kind \in {"create", "join", "out", "option", "owner", "kick"}
  /\ ~ENABLED Granted(a, m)
  /\ UNCHANGED vars /\ Silent

TooLate(m) == m.kind \in {"kick", "owner"} /\ Registered(m.by) /\ user[m.who] # user[m.by]

Serve(a) ==
  /\ up[a] # <<>>
  /\ up' = [up EXCEPT ![a] = Tail(@)]
  /\ LET m == Head(up[a]) IN
       \/ m.kind = "add"   /\ ServeAdd(a, m.by)
       \/ m.kind = "force" /\ ServeForce(a, m.by)
       \/ m.kind = "del"   /\ ServeDel(a, m.by)
       \/ m.kind = "list"  /\ ServeList(a, m.by)
       \/ (Granted(a, m) \/ Refused(a, m)) /\ UNCHANGED via
  /\ late' = (late \/ TooLate(Head(up[a])))
  /\ UNCHANGED <<home, at, side, clients, asked, heard, echoed>>

-----------------------------------------------------------------------------
(* The agents. *)

(* Spread, passing on a notice only where nobody here is named. *)
SpreadIfNobody(a, m) ==
  /\ DeliverTo(Local(a, m), m)
  /\ IF Local(a, m) = {} THEN PassedOn(a, m) ELSE UNCHANGED side

(* To the players who are named and play here, and to all other agents. *)
Spread(a, m) == DeliverTo(Local(a, m), m) /\ PassedOn(a, m)

SendMsg2User(a, m) ==
  /\ m.kind \notin Notices \cup {"kick"}
  /\ DeliverTo(Local(a, m), m)
  /\ UNCHANGED side

JoinRoomNotice(a, m)           == m.kind = "join"   /\ Spread(a, m)
OutRoomNotice(a, m)            == m.kind = "out"    /\ Spread(a, m)
OutRoomChangeOwnerNotice(a, m) == m.kind = "heir"   /\ Spread(a, m)
ChangeOptionNotice(a, m)       == m.kind = "option" /\ Spread(a, m)
ChangeOwnerNotice(a, m)        == m.kind = "owner"  /\ Spread(a, m)
KickGuestNotice(a, m)          == m.kind = "kicked" /\ Spread(a, m)

KickGuestAck(a, m) ==
  /\ m.kind = "kick"
  /\ DeliverTo(Local(a, m), m)
  /\ IF Local(a, m) = {} THEN PassedOn(a, m) ELSE UNCHANGED side

(* ServerMsgParser, for a message of the distribute server.  A client that *)
(* has been registered asks for the list of the rooms.                     *)
FromServer(a) ==
  /\ down[a] # <<>>
  /\ LET m == Head(down[a]) IN
       /\ \/ SendMsg2User(a, m)
          \/ JoinRoomNotice(a, m)
          \/ OutRoomNotice(a, m)
          \/ OutRoomChangeOwnerNotice(a, m)
          \/ ChangeOptionNotice(a, m)
          \/ ChangeOwnerNotice(a, m)
          \/ KickGuestAck(a, m)
          \/ KickGuestNotice(a, m)
       /\ up' = IF m.kind = "add_ack"
                THEN [up EXCEPT ![a] = @ \o SetToSeq({Req("list", p) : p \in Local(a, m)})]
                ELSE up
  /\ down' = [down EXCEPT ![a] = Tail(@)]
  /\ UNCHANGED <<vars, home, at, via, asked, late, served, due>>

(* ServerMsgParser, for one of another agent: it goes no further.          *)
FromAgent(b, a) ==
  /\ side[<<b, a>>] # <<>>
  /\ DeliverTo(Local(a, Head(side[<<b, a>>])), Head(side[<<b, a>>]))
  /\ side' = [side EXCEPT ![<<b, a>>] = Tail(@)]
  /\ UNCHANGED <<vars, home, at, via, up, down, asked, late, served, due>>

(* UserConn_Gamein_Syn: RegistPlayer_To_Lobby. *)
Enter(p) ==
  /\ at[p] = NoAgent
  /\ \E a \in IF Roams THEN Agents ELSE {home[p]} :
       /\ at' = [at EXCEPT ![p] = a]
       /\ up' = [up EXCEPT ![a] = Append(@, Req("add", p))]
  /\ UNCHANGED <<vars, home, via, down, side, clients, asked, late, history>>

(* Nobody asks for more once the rooms are wrong. *)
Asks(p) ==
  /\ at[p] # NoAgent
  /\ ~late
  /\ asked < MaxRequests
  /\ asked' = asked + 1

(* Leave, for players in a room only. *)
LeaveRoomOnly(p) ==
  /\ Asks(p)
  /\ up' = [up EXCEPT ![at[p]] = @ \o IF view[p].room = 0 THEN <<>> ELSE <<Req("del", p)>>]
  /\ at' = [at EXCEPT ![p] = NoAgent]
  /\ view' = [view EXCEPT ![p] = NoView]
  /\ board' = [board EXCEPT ![p] = NoPage]
  /\ due' = [due EXCEPT ![p] = {}]
  /\ heard' = [heard EXCEPT ![p] = {}]
  /\ echoed' = [echoed EXCEPT ![p] = {}]
  /\ UNCHANGED <<vars, home, via, down, side, late, served>>

(* DestroyPlayer_From_Lobby: once where the player goes back to choose a   *)
(* character, once for each table where its connection is gone.            *)
Leave(p) ==
  /\ Asks(p)
  /\ \E n \in {1, 3} :
       up' = [up EXCEPT ![at[p]] = @ \o [k \in 1..n |-> Req("del", p)]]
  /\ at' = [at EXCEPT ![p] = NoAgent]
  /\ view' = [view EXCEPT ![p] = NoView]
  /\ board' = [board EXCEPT ![p] = NoPage]
  /\ due' = [due EXCEPT ![p] = {}]
  /\ heard' = [heard EXCEPT ![p] = {}]
  /\ echoed' = [echoed EXCEPT ![p] = {}]
  /\ UNCHANGED <<vars, home, via, down, side, late, served>>

(* What a client asks for, from what it sees. *)
Wish(p) ==
  LET v == view[p]
      others == v.members \ {p} IN
  IF v.room = 0
  THEN {[Req("create", p) EXCEPT !.cap = n] : n \in Caps}
         \cup {[Req("join", p) EXCEPT !.room = r] : r \in {s \in RoomIdx : board[p][s] # NoRoom}}
  ELSE {Req("out", p)}
         \cup IF v.owner # p THEN {}
              ELSE {[Req("option", p) EXCEPT !.cap = n] : n \in Caps}
                     \cup {[Req(k, p) EXCEPT !.who = q] : k \in {"owner", "kick"}, q \in others}

(* UserMsgParser. *)
Ask(p) ==
  /\ Asks(p)
  /\ \E m \in Wish(p) : up' = [up EXCEPT ![at[p]] = Append(@, m)]
  /\ UNCHANGED <<vars, home, at, via, down, side, clients, late, history>>

(* The client's lobby was not opened by its coming: it asks for it. *)
ForceRegistPlayerToLobby(p) ==
  /\ Asks(p)
  /\ view[p].room = 0
  /\ up' = [up EXCEPT ![at[p]] = Append(@, Req("force", p))]
  /\ UNCHANGED <<vars, home, at, via, down, side, clients, late, history>>

(* ChatMsg_Normal_Syn: the client names the guests it sees, and its agent  *)
(* does what it does with a notice.                                        *)
Chat(p) ==
  /\ Asks(p)
  /\ view[p].room # 0
  /\ LET m == Notice("chat", view[p].members, p) IN
       /\ Spread(at[p], m)
       /\ Owed({m})
  /\ served' = served + 1
  /\ UNCHANGED <<vars, home, at, via, up, down, late>>

RelayNext ==
  \/ \E a \in Agents : Serve(a) \/ FromServer(a)
  \/ \E ab \in Agents \X Agents : FromAgent(ab[1], ab[2])
  \/ \E p \in Players : Enter(p) \/ Leave(p) \/ Ask(p) \/ Chat(p) \/ ForceRegistPlayerToLobby(p)

RelaySpec == RelayInit /\ [][RelayNext]_<<vars, relayVars>>

-----------------------------------------------------------------------------
(* Properties. *)

(* The wires carry what the modules expect, and every player of m_htUser   *)
(* has the agent that registered it.                                       *)
RelayTypeOK ==
  /\ late \/ TypeOK
  /\ home \in [Players -> Agents]
  /\ at \in [Players -> Agents \cup {NoAgent}]
  /\ via \in [Players -> Agents \cup {NoAgent}]
  /\ \A p \in Players : via[p] # NoAgent <=> Registered(p)
  /\ view \in [Players -> [room : RoomIdx, members : SUBSET Players, owner : Players \cup {NoPlayer}]]
  /\ late \/ board \in [Players -> [RoomIdx -> [cur : 1..MaxGuests, cap : Caps] \cup {NoRoom}]]
  /\ late \in BOOLEAN

Quiet == \A a \in Agents : up[a] = <<>> /\ down[a] = <<>> /\ \A b \in Agents : side[<<a, b>>] = <<>>

(* No client is sent a notice twice: an agent delivers to its own players  *)
(* and every other agent to its own, and nobody passes on what came from   *)
(* an agent.                                                               *)
HeardOnce == \A p \in Players : echoed[p] = {}

(* Whoever was named in a notice while it played has been sent it when     *)
(* nothing is under way: the agent that asked passes on what the others    *)
(* have to deliver, whether it has such players itself or not.             *)
NoticesArrive == Quiet => \A p \in Players : due[p] \subseteq heard[p]

(* A notice is delivered exactly once, at whichever agent its player is.    *)
NoticesOnce == HeardOnce /\ NoticesArrive

(* When nothing is under way the distribute server has a player registered *)
(* for the agent it is at, and nobody who is at none, however often an     *)
(* agent deleted it.                                                       *)
RegistrationsAgree == Quiet => \A p \in Players : via[p] = at[p]

(* The list of rooms that every client keeps is the one of the server when *)
(* nothing is under way: its first answer and the news sent after it add   *)
(* up.                                                                     *)
BoardsAgree ==
  (Quiet /\ ~late) => \A p \in Players : at[p] # NoAgent =>
    board[p] = [r \in RoomIdx |-> IF IsRoom(r) THEN Line(rooms[r]) ELSE NoRoom]

OneAgent == \A p, q \in Players : home[p] = home[q]

(* A client of the only agent is in the room the server has it in.         *)
OwnRoomKnown ==
  (Quiet /\ OneAgent /\ ~late) => \A p \in Players : Registered(p) => view[p].room = user[p]

(* It knows all guests of its room ...                                     *)
ViewsCover ==
  (Quiet /\ OneAgent /\ ~late) => \A p \in Players :
     (Registered(p) /\ user[p] # 0) => Members(rooms[user[p]]) \subseteq view[p].members

(* ... and who owns it.                                                    *)
OwnersKnown ==
  (Quiet /\ OneAgent /\ ~late) => \A p \in Players :
     (Registered(p) /\ user[p] # 0) => rooms[user[p]].owner = view[p].owner

(* What the clients were told adds up to what the server has, although     *)
(* nobody ever sends them the whole of it again.                           *)
ClientsKnow == RelayTypeOK /\ BoardsAgree /\ OwnRoomKnown /\ ViewsCover /\ OwnersKnown
=============================================================================
