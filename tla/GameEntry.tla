------------------------------ MODULE GameEntry ------------------------------
(***************************************************************************)
(* One agent between its clients, its map servers and the database: from   *)
(* the list of characters through the choice of one into the game, from    *)
(* map to map, back to the list, and out.                                  *)
(*                                                                         *)
(* A character is in the game at the map server of one map.  The agent     *)
(* notes the map in the session and sends everything there; the map server *)
(* tells it when the character has left for another map.  When a client is *)
(* gone the agent tells the map server, which saves the character and only *)
(* then has the login row removed; until then the account cannot come      *)
(* back.  A map server may crash; the agent notices when it has handled    *)
(* what the map server sent before.                                        *)
(*                                                                         *)
(* Queries are answered in any order.  How an account comes to have a      *)
(* session is the subject of LoginHandoff; here it takes one step.  Map    *)
(* servers are not in the repository: they are modelled from what the      *)
(* agent sends them and expects of them.                                   *)
(***************************************************************************)
EXTENDS Naturals, Sequences, FiniteSets

CONSTANTS
  Conns,       \* connection indexes of clients
  Users,       \* accounts
  Chars,       \* characters
  Owner,       \* the account of a character
  Born,        \* the characters that exist at first
  Maps,        \* maps, each with its map server
  NoMap,       \* no map: wUserMapNum = 0, or no such character
  NoConn,
  NoSess,      \* the connection index is not in use
  NoChar,      \* dwCharacterID = 0
  Ways,        \* how players go to another map
  MaxLogins,   \* bound: sessions
  MaxMoves,    \* bound: what clients ask for in the game or for the list
  MaxCrashes   \* bound: crashes of map servers

ASSUME EntryAssumption ==
  /\ IsFiniteSet(Conns)
  /\ Owner \in [Chars -> Users] /\ Born \subseteq Chars
  /\ NoMap \notin Maps /\ NoConn \notin Conns /\ NoChar \notin Chars
  /\ NoSess \notin [key : Nat, user : Users, char : Chars \cup {NoChar}, map : Maps \cup {NoMap},
                    list : [Chars -> Maps \cup {NoMap}]]
  /\ Ways \subseteq {"gate", "return", "npc", "house", "dungeon"}

VARIABLES
  sess,     \* g_pUserTable: the session of each connection index
  byChar,   \* g_pUserTableForObjectID: its connection index
  phase,    \* what the client of a connection is at
  row,      \* the login rows
  saved,    \* the characters in the database: the map they are saved in
  made,     \* history: characters that have existed
  jobs,     \* queries whose results the agent has not seen
  up,       \* messages to each map server
  down,     \* messages of each map server
  known,    \* the map servers in g_pServerTable
  alive,    \* the map servers that run
  world,    \* the characters each of them has
  keys,     \* the static ID of MakeAuthKey
  moves, crashes,
  crossed   \* history: a new character was noted in another client's session

vars == <<sess, byChar, phase, row, saved, made, jobs, up, down, known, alive, world,
          keys, moves, crashes, crossed>>

agent == <<sess, byChar, phase>>
base  == <<row, saved, made, jobs>>
maps  == <<up, down, known, alive, world>>
limits == <<keys, moves, crashes, crossed>>

Waiting == {"list", "make", "name", "channel", "load", "leave", "back"}

Init ==
  /\ sess = [c \in Conns |-> NoSess]
  /\ byChar = [x \in Chars |-> NoConn]
  /\ phase = [c \in Conns |-> "none"]
  /\ row = [u \in Users |-> FALSE]
  /\ saved \in [Chars -> Maps \cup {NoMap}]
  /\ \A x \in Chars : saved[x] # NoMap <=> x \in Born
  /\ made = Born
  /\ jobs = {}
  /\ up = [m \in Maps |-> <<>>] /\ down = [m \in Maps |-> <<>>]
  /\ known = Maps /\ alive = Maps
  /\ world = [m \in Maps |-> {}]
  /\ keys = 0 /\ moves = 0 /\ crashes = 0 /\ crossed = FALSE

-----------------------------------------------------------------------------
(* What the handlers share. *)

Live(c) == sess[c] # NoSess

(* FindUser of g_pUserTableForUserID. *)
HasSession(u) == \E c \in Conns : Live(c) /\ sess[c].user = u

Job(kind, c, x) == [kind |-> kind, conn |-> c, key |-> sess[c].key, user |-> sess[c].user, char |-> x]

Logout(u) == [kind |-> "logout", conn |-> NoConn, key |-> 0, user |-> u, char |-> NoChar]

(* key is the session's dwUniqueConnectIdx; only GAMEIN_SYN and its answer *)
(* carry it, elsewhere it is history.                                      *)
Msg(kind, c, m) ==
  [kind |-> kind, char |-> sess[c].char, key |-> sess[c].key, user |-> sess[c].user, map |-> m]

(* Send2Server: what is sent to a map server that has crashed is lost.     *)
Sent(m, msg) == up' = [up EXCEPT ![m] = IF m \in alive THEN Append(@, msg) ELSE @]

(* g_pServerTable. *)
AddServer(m)    == known' = known \cup {m}
RemoveServer(m) == known' = known \ {m}

(* A map is served while its server is in the table.                       *)
GetServerPort(m) == IF m \in known THEN m ELSE NoMap
FindMapServer(m) == GetServerPort(m) # NoMap

(* Broadcast2MapServerExceptOne. *)
Broadcast(m, msg) ==
  up' = [n \in Maps |-> IF n # m /\ n \in known \cap alive THEN Append(up[n], msg) ELSE up[n]]

Phase(c, p) == phase' = [phase EXCEPT ![c] = p]

Moves == ~crossed /\ moves < MaxMoves /\ moves' = moves + 1 /\ UNCHANGED <<keys, crashes, crossed>>

-----------------------------------------------------------------------------
(* The sessions. *)

(* A client that has been admitted and has shown its ticket.               *)
Connect(c, u) ==
  /\ ~crossed
  /\ ~Live(c)
  /\ ~row[u]
  /\ keys < MaxLogins
  /\ keys' = keys + 1
  /\ row' = [row EXCEPT ![u] = TRUE]
  /\ sess' = [sess EXCEPT ![c] = [key |-> keys + 1, user |-> u, char |-> NoChar, map |-> NoMap,
                                  list |-> [x \in Chars |-> NoMap]]]
  /\ jobs' = jobs \cup {[kind |-> "list", conn |-> c, key |-> keys + 1, user |-> u, char |-> NoChar]}
  /\ Phase(c, "list")
  /\ UNCHANGED <<byChar, saved, made, maps, moves, crashes, crossed>>

(* Gone, with LoginCheckDelete before the map server has answered. *)
GoneAtOnce(cs, more) ==
  LET out == {c \in cs : sess[c].char # NoChar} IN
  /\ sess' = [c \in Conns |-> IF c \in cs THEN NoSess ELSE sess[c]]
  /\ phase' = [c \in Conns |-> IF c \in cs THEN "none" ELSE phase[c]]
  /\ byChar' = [x \in Chars |-> IF \E c \in out : sess[c].char = x THEN NoConn ELSE byChar[x]]
  /\ jobs' = jobs \cup {Logout(sess[c].user) : c \in cs} \cup more

(* The sessions of cs after OnDisconnectUser, with the queries more.       *)
Gone(cs, more) ==
  LET out == {c \in cs : sess[c].char # NoChar} IN
  /\ sess' = [c \in Conns |-> IF c \in cs THEN NoSess ELSE sess[c]]
  /\ phase' = [c \in Conns |-> IF c \in cs THEN "none" ELSE phase[c]]
  /\ byChar' = [x \in Chars |-> IF \E c \in out : sess[c].char = x THEN NoConn ELSE byChar[x]]
  /\ jobs' = jobs \cup {Logout(sess[c].user) : c \in cs \ out} \cup more

(* OnDisconnectUser, which tells a map server only until it has answered.  *)
OnDisconnectUserLoading(c) ==
  /\ Live(c)
  /\ Gone({c}, {})
  /\ IF sess[c].char = NoChar \/ phase[c] = "play" THEN UNCHANGED up
     ELSE Sent(sess[c].map, Msg("disconnected", c, NoMap))
  /\ UNCHANGED <<row, saved, made, down, known, alive, world, limits>>

(* CUserTable::OnDisconnectUser: a map server that has the character is    *)
(* told and will have the row removed; otherwise the agent removes it.     *)
OnDisconnectUser(c) ==
  /\ Live(c)
  /\ Gone({c}, {})
  /\ IF sess[c].char = NoChar THEN UNCHANGED up
     ELSE Sent(sess[c].map, Msg("disconnected", c, NoMap))
  /\ UNCHANGED <<row, saved, made, down, known, alive, world, limits>>

(* An operator has a character disconnected, found by its number when the  *)
(* database has answered: RGM_BanCharacter, or CheatServer_BanCharacter_Syn*)
(* where the operator is at another agent.                                 *)
RGMBanCharacter(x)        == byChar[x] # NoConn /\ OnDisconnectUser(byChar[x])
CheatServerBanCharacter(x) == byChar[x] # NoConn /\ OnDisconnectUser(byChar[x])

(* MornitorMapServer_Disconnect_AllUser_Syn: everybody, and every query.   *)
DisconnectAllUser ==
  LET on == {c \in Conns : Live(c)}
      At(m) == {c \in on : sess[c].map = m} IN
  /\ on # {}
  /\ Cardinality(on) > 1
  /\ \A m \in Maps : Cardinality(At(m)) <= 1
  /\ sess' = [c \in Conns |-> NoSess]
  /\ phase' = [c \in Conns |-> "none"]
  /\ byChar' = [x \in Chars |-> IF byChar[x] \in on THEN NoConn ELSE byChar[x]]
  /\ LET done == jobs \cup {Logout(sess[c].user) : c \in {d \in on : sess[d].char = NoChar}} IN
       row' = [u \in Users |-> row[u] /\ Logout(u) \notin done]
  /\ jobs' = {j \in jobs : j.kind \notin {"logout", "list"}}
  /\ up' = [m \in Maps |-> IF m \in alive /\ At(m) # {}
                           THEN Append(up[m], Msg("disconnected", CHOOSE c \in At(m) : TRUE, NoMap))
                           ELSE up[m]]
  /\ UNCHANGED <<saved, made, down, known, alive, world, limits>>

-----------------------------------------------------------------------------
(* The list of characters. *)

(* RUserIDXSendAndCharacterBaseInfo, for whatever session the connection   *)
(* index has.                                                              *)
RCharacterListOfAny(j) ==
  /\ j.kind = "list"
  /\ IF Live(j.conn)
     THEN /\ sess' = [sess EXCEPT ![j.conn].list =
                        [x \in Chars |-> IF Owner[x] = j.user /\ saved[x] # NoMap THEN saved[x] ELSE @[x]]]
          /\ Phase(j.conn, "choose")
     ELSE UNCHANGED <<sess, phase>>
  /\ UNCHANGED <<row, saved, made, byChar, crossed>>

(* RUserIDXSendAndCharacterBaseInfo: the key that went with the query must *)
(* still be the session's.                                                 *)
RCharacterList(j) ==
  /\ j.kind = "list"
  /\ IF Live(j.conn) /\ sess[j.conn].key = j.key
     THEN /\ sess' = [sess EXCEPT ![j.conn].list =
                        [x \in Chars |-> IF Owner[x] = j.user /\ saved[x] # NoMap THEN saved[x] ELSE @[x]]]
          /\ Phase(j.conn, "choose")
     ELSE UNCHANGED <<sess, phase>>
  /\ UNCHANGED <<row, saved, made, byChar, crossed>>

(* The queries carry the connection index alone; the key is history.       *)
CreateCharacter(c, x) == jobs' = jobs \cup {Job("make", c, x)}
CharacterNameCheck(c) == jobs' = jobs \cup {Job("name", c, NoChar)}

(* Only for a character of the list. *)
DeleteCharacter(c, x) ==
  /\ sess[c].list[x] # NoMap
  /\ jobs' = jobs \cup {Job("remove", c, x)}

CharacterMakeSyn(c, x) ==
  /\ Live(c) /\ phase[c] = "choose"
  /\ x \notin made /\ Owner[x] = sess[c].user
  /\ Moves
  /\ CreateCharacter(c, x)
  /\ Phase(c, "make")
  /\ UNCHANGED <<sess, byChar, row, saved, made, maps>>

(* RCreateCharacter looks for the connection index alone.                  *)
RCreateCharacter(j) ==
  /\ j.kind = "make"
  /\ \E m \in Maps \cup {NoMap} :        \* NoMap: the procedure refuses
       IF m # NoMap
       THEN /\ saved' = [saved EXCEPT ![j.char] = m]
            /\ made' = made \cup {j.char}
            /\ sess' = IF Live(j.conn) THEN [sess EXCEPT ![j.conn].list[j.char] = m] ELSE sess
            /\ crossed' = (crossed \/ (Live(j.conn) /\ sess[j.conn].key # j.key))
       ELSE UNCHANGED <<saved, made, sess, crossed>>
  /\ phase' = IF Live(j.conn) /\ phase[j.conn] = "make" THEN [phase EXCEPT ![j.conn] = "choose"] ELSE phase
  /\ UNCHANGED <<byChar, row>>

(* A name that is forbidden is refused at once, and nothing changes.       *)
CharacterNameCheckSyn(c) ==
  /\ Live(c) /\ phase[c] = "choose"
  /\ Moves
  /\ CharacterNameCheck(c)
  /\ Phase(c, "name")
  /\ UNCHANGED <<sess, byChar, row, saved, made, maps>>

RCharacterNameCheck(j) ==
  /\ j.kind = "name"
  /\ phase' = IF Live(j.conn) /\ phase[j.conn] = "name" THEN [phase EXCEPT ![j.conn] = "choose"] ELSE phase
  /\ UNCHANGED <<sess, byChar, row, saved, made, crossed>>

CharacterRemoveSyn(c, x) ==
  /\ Live(c) /\ phase[c] = "choose"
  /\ Moves
  /\ DeleteCharacter(c, x)
  /\ Phase(c, "make")
  /\ UNCHANGED <<sess, byChar, row, saved, made, maps>>

RDeleteCharacter(j) ==
  /\ j.kind = "remove"
  /\ saved' = [saved EXCEPT ![j.char] = NoMap]
  /\ sess' = IF Live(j.conn) THEN [sess EXCEPT ![j.conn].list[j.char] = NoMap] ELSE sess
  /\ phase' = IF Live(j.conn) /\ phase[j.conn] = "make" THEN [phase EXCEPT ![j.conn] = "choose"] ELSE phase
  /\ UNCHANGED <<byChar, row, made, crossed>>

(* UP_GAMELOGOUT. *)
RLogout(j) ==
  /\ j.kind = "logout"
  /\ row' = [row EXCEPT ![j.user] = FALSE]
  /\ UNCHANGED <<sess, byChar, phase, saved, made, crossed>>

Result ==
  /\ \E j \in jobs :
       /\ RCharacterList(j) \/ RCreateCharacter(j) \/ RCharacterNameCheck(j) \/ RDeleteCharacter(j) \/ RLogout(j)
       /\ jobs' = jobs \ {j}
  /\ UNCHANGED <<maps, keys, moves, crashes>>

-----------------------------------------------------------------------------
(* The channels of a character's map. *)

ChannelMsg(kind, c) == [kind |-> kind, conn |-> c, key |-> sess[c].key]

(* Refused at once if the map is not served. *)
ChannelInfoSyn(c, x) ==
  /\ Live(c) /\ phase[c] = "choose"
  /\ sess[c].list[x] # NoMap /\ FindMapServer(sess[c].list[x])
  /\ Moves
  /\ Sent(sess[c].list[x], ChannelMsg("channel", c))
  /\ Phase(c, "channel")
  /\ UNCHANGED <<sess, byChar, base, down, known, alive, world>>

(* ChannelInfoAck by the connection index alone.                           *)
ChannelInfoAckOfAny(msg) ==
  /\ msg.kind = "channel_ack"
  /\ phase' = IF Live(msg.conn) /\ phase[msg.conn] = "channel"
              THEN [phase EXCEPT ![msg.conn] = "choose"] ELSE phase
  /\ UNCHANGED <<sess, byChar, jobs, up>>

(* The client that has the connection index has shown the key, too.  A     *)
(* client that does not wait for it takes no notice.                       *)
ChannelInfoAck(msg) ==
  /\ msg.kind = "channel_ack"
  /\ phase' = IF Live(msg.conn) /\ sess[msg.conn].key = msg.key /\ phase[msg.conn] = "channel"
              THEN [phase EXCEPT ![msg.conn] = "choose"] ELSE phase
  /\ UNCHANGED <<sess, byChar, jobs, up>>

(* A refusal has no key. *)
ChannelInfoNack(msg) ==
  /\ msg.kind = "channel_nack"
  /\ phase' = IF Live(msg.conn) /\ phase[msg.conn] = "channel"
              THEN [phase EXCEPT ![msg.conn] = "choose"] ELSE phase
  /\ UNCHANGED <<sess, byChar, jobs, up>>

-----------------------------------------------------------------------------
(* Into the game. *)

(* UserConn_CharacterSelect_Syn; a client chooses once. *)
CharacterSelectSyn(c, x) ==
  /\ Live(c) /\ phase[c] = "choose"
  /\ sess[c].list[x] # NoMap /\ FindMapServer(sess[c].list[x])
  /\ ~crossed
  /\ sess' = [sess EXCEPT ![c].char = x, ![c].map = sess[c].list[x]]
  /\ byChar' = [byChar EXCEPT ![x] = c]
  /\ Phase(c, "enter")
  /\ UNCHANGED <<base, maps, limits>>

EnterMap(c) ==
  /\ Live(c) /\ phase[c] = "enter"
  /\ Sent(sess[c].map, Msg("gamein", c, NoMap))
  /\ Phase(c, "load")
  /\ UNCHANGED <<sess, byChar, base, down, known, alive, world, limits>>

GameinSyn(c) == EnterMap(c)

(* The same, to a place on the map. *)
GameInPosSyn(c) == EnterMap(c)

(* The answer: the map server is refused a character that has no session   *)
(* or another one; otherwise every other map server is to drop it.         *)
GameinAck(m, msg) ==
  /\ msg.kind = "gamein_ack"
  /\ LET c == byChar[msg.char] IN
     IF c = NoConn \/ sess[c].key # msg.key
     THEN /\ Sent(m, [msg EXCEPT !.kind = "gamein_nack"])
          /\ UNCHANGED <<sess, phase>>
     ELSE /\ sess' = [sess EXCEPT ![c].list[msg.char] = sess[c].map]
          /\ Phase(c, "play")
          /\ Broadcast(m, [msg EXCEPT !.kind = "othermap"])
  /\ UNCHANGED <<byChar, jobs>>

(* UserConn_Gamein_Nack disconnects whoever has the character.             *)
GameinNack(m, msg) ==
  /\ msg.kind = "gamein_nack"
  /\ LET c == byChar[msg.char] IN
     IF c = NoConn THEN UNCHANGED <<agent, jobs, up>>
     ELSE /\ Gone({c}, {})
          /\ Sent(sess[c].map, Msg("disconnected", c, NoMap))

-----------------------------------------------------------------------------
(* From map to map. *)

(* The agent asks the map server the player is on, where that of the other *)
(* map is there.                                                           *)
GoesTo(c, m, way) ==
  /\ way \in Ways
  /\ Live(c) /\ phase[c] = "play"
  /\ Moves
  /\ IF FindMapServer(m)
     THEN /\ Sent(sess[c].map, Msg(way, c, m))
          /\ Phase(c, "leave")
     ELSE UNCHANGED <<up, phase>>
  /\ UNCHANGED <<sess, byChar, base, down, known, alive, world>>

ChangeMapSyn(c, m)       == GoesTo(c, m, "gate")
ReturnSyn(c, m)          == GoesTo(c, m, "return")
NpcChangeMapSyn(c, m)    == GoesTo(c, m, "npc")
HouseEntranceSyn(c, m)   == GoesTo(c, m, "house")
DungeonEntranceSyn(c, m) == GoesTo(c, m, "dungeon")

(* The character has left for another map: the client is told to enter it. *)
LeftFor(msg) ==
  LET c == byChar[msg.char] IN
  /\ IF FindMapServer(msg.map) /\ c # NoConn
     THEN /\ sess' = [sess EXCEPT ![c].map = msg.map]
          /\ Phase(c, "enter")
     ELSE UNCHANGED <<sess, phase>>
  /\ UNCHANGED <<byChar, jobs, up>>

(* LeftFor, with the map server as it was. *)
LeftForButStays(msg) ==
  LET c == byChar[msg.char] IN
  /\ IF FindMapServer(msg.map) /\ c # NoConn THEN Phase(c, "enter") ELSE UNCHANGED phase
  /\ UNCHANGED <<sess, byChar, jobs, up>>

MapOut(m, msg)           == msg.kind \in {"gate", "return"} /\ LeftFor(msg)
NpcMapOut(m, msg)        == msg.kind = "npc" /\ LeftFor(msg)
MapOutWithMapNum(m, msg) == msg.kind \in {"house", "dungeon"} /\ LeftFor(msg)

BackToCharSelSyn(c) ==
  /\ Live(c) /\ phase[c] = "play"
  /\ Moves
  /\ Sent(sess[c].map, Msg("back", c, NoMap))
  /\ Phase(c, "back")
  /\ UNCHANGED <<sess, byChar, base, down, known, alive, world>>

(* BackToCharSelAck, without asking for the list. *)
BackToCharSelAckOnly(m, msg) ==
  /\ msg.kind = "back"
  /\ LET c == byChar[msg.char] IN
     IF c = NoConn THEN UNCHANGED <<sess, byChar, phase>>
     ELSE /\ byChar' = [byChar EXCEPT ![msg.char] = NoConn]
          /\ sess' = [sess EXCEPT ![c].char = NoChar, ![c].map = NoMap]
          /\ Phase(c, "list")
  /\ UNCHANGED <<up, jobs>>

BackToCharSelAck(m, msg) ==
  /\ msg.kind = "back"
  /\ LET c == byChar[msg.char] IN
     IF c = NoConn THEN UNCHANGED <<sess, byChar, phase, jobs>>
     ELSE /\ jobs' = jobs \cup {Job("list", c, NoChar)}
          /\ byChar' = [byChar EXCEPT ![msg.char] = NoConn]
          /\ sess' = [sess EXCEPT ![c].char = NoChar, ![c].map = NoMap]
          /\ Phase(c, "list")
  /\ UNCHANGED up

(* The map server has saved the character of a client that is gone.        *)
LoginCheckDelete(m, msg) ==
  /\ msg.kind = "logincheck_delete"
  /\ jobs' = IF HasSession(msg.user) THEN jobs ELSE jobs \cup {Logout(msg.user)}
  /\ UNCHANGED <<agent, up>>

(* MP_USERCONNServerMsgParser. *)
FromMap(m) ==
  /\ down[m] # <<>>
  /\ LET msg == Head(down[m]) IN
       \/ GameinAck(m, msg)
       \/ GameinNack(m, msg)
       \/ MapOut(m, msg)
       \/ NpcMapOut(m, msg)
       \/ MapOutWithMapNum(m, msg)
       \/ BackToCharSelAck(m, msg)
       \/ LoginCheckDelete(m, msg)
       \/ ChannelInfoAck(msg)
       \/ ChannelInfoNack(msg)
  /\ down' = [down EXCEPT ![m] = Tail(@)]
  /\ UNCHANGED <<row, saved, made, known, alive, world, limits>>

(* OnDisconnectServer, SendMsgMapServerDown: the players of the map are    *)
(* disconnected and logged out.                                            *)
OnDisconnectServer(m) ==
  LET there == {c \in Conns : Live(c) /\ sess[c].map = m} IN
  /\ m \in known \ alive /\ down[m] = <<>>
  /\ RemoveServer(m)
  /\ Gone(there, {Logout(sess[c].user) : c \in there})
  /\ UNCHANGED <<row, saved, made, up, down, alive, world, limits>>

-----------------------------------------------------------------------------
(* The map servers. *)

Entry(msg, in) == [char |-> msg.char, key |-> msg.key, user |-> msg.user, in |-> in]

Without(m, x) == {e \in world[m] : e.char # x}

(* A message is handled: who is asked for a player that is not there, has  *)
(* only the row to see to.                                                 *)
MapServes(m) ==
  /\ m \in alive /\ up[m] # <<>>
  /\ up' = [up EXCEPT ![m] = Tail(@)]
  /\ LET msg  == Head(up[m])
         here == \E e \in world[m] : e.char = msg.char /\ e.in
         Leaves(to) ==
           IF here
           THEN /\ world' = [world EXCEPT ![m] = Without(m, msg.char)]
                /\ saved' = [saved EXCEPT ![msg.char] = to]
                /\ down' = [down EXCEPT ![m] = Append(@, msg)]
           ELSE UNCHANGED <<world, saved, down>>
     IN \/ /\ msg.kind = "channel"
           /\ \E kind \in {"channel_ack", "channel_nack"} :
                down' = [down EXCEPT ![m] = Append(@, [msg EXCEPT !.kind = kind])]
           /\ UNCHANGED <<world, saved>>
        \/ /\ msg.kind = "gamein"
           /\ world' = [world EXCEPT ![m] = Without(m, msg.char) \cup {Entry(msg, FALSE)}]
           /\ UNCHANGED <<saved, down>>
        \/ msg.kind \in Ways /\ Leaves(msg.map)
        \/ msg.kind = "back" /\ Leaves(m)
        \/ /\ msg.kind \in {"gamein_nack", "othermap"}
           /\ world' = [world EXCEPT ![m] = Without(m, msg.char)]
           /\ UNCHANGED <<saved, down>>
        \/ /\ msg.kind = "disconnected"
           /\ world' = [world EXCEPT ![m] = Without(m, msg.char)]
           /\ down' = [down EXCEPT ![m] = Append(@, [msg EXCEPT !.kind = "logincheck_delete"])]
           /\ UNCHANGED saved
  /\ UNCHANGED <<agent, row, made, jobs, known, alive, limits>>

(* The character has been read from the database, or could not be.         *)
MapLoads(m) ==
  /\ m \in alive
  /\ \E e \in world[m], ok \in BOOLEAN :
       LET msg == [kind |-> IF ok THEN "gamein_ack" ELSE "gamein_nack",
                   char |-> e.char, key |-> e.key, user |-> e.user, map |-> NoMap] IN
       /\ ~e.in
       /\ world' = [world EXCEPT ![m] = (@ \ {e}) \cup IF ok THEN {[e EXCEPT !.in = TRUE]} ELSE {}]
       /\ down' = [down EXCEPT ![m] = Append(@, msg)]
  /\ UNCHANGED <<agent, base, up, known, alive, limits>>

MapCrash(m) ==
  /\ m \in alive /\ crashes < MaxCrashes
  /\ crashes' = crashes + 1
  /\ alive' = alive \ {m}
  /\ world' = [world EXCEPT ![m] = {}]
  /\ up' = [up EXCEPT ![m] = <<>>]
  /\ UNCHANGED <<agent, base, down, known, keys, moves, crossed>>

MapStart(m) ==
  /\ m \notin alive \cup known
  /\ alive' = alive \cup {m} /\ AddServer(m)
  /\ UNCHANGED <<agent, base, up, down, world, limits>>

-----------------------------------------------------------------------------
Client(c) ==
  \/ \E u \in Users : Connect(c, u)
  \/ OnDisconnectUser(c)
  \/ \E x \in Chars : \/ CharacterMakeSyn(c, x) \/ CharacterRemoveSyn(c, x)
                     \/ CharacterSelectSyn(c, x) \/ ChannelInfoSyn(c, x)
  \/ CharacterNameCheckSyn(c)
  \/ GameinSyn(c) \/ GameInPosSyn(c)
  \/ \E m \in Maps : \/ ChangeMapSyn(c, m) \/ ReturnSyn(c, m) \/ NpcChangeMapSyn(c, m)
                     \/ HouseEntranceSyn(c, m) \/ DungeonEntranceSyn(c, m)
  \/ BackToCharSelSyn(c)

Next ==
  \/ \E c \in Conns : Client(c)
  \/ Result
  \/ \E x \in Chars : RGMBanCharacter(x) \/ CheatServerBanCharacter(x)
  \/ DisconnectAllUser
  \/ \E m \in Maps : FromMap(m) \/ OnDisconnectServer(m)
  \/ \E m \in Maps : MapServes(m) \/ MapLoads(m) \/ MapCrash(m) \/ MapStart(m)

Spec == Init /\ [][Next]_vars

-----------------------------------------------------------------------------
(* Properties. *)

(* A session has a character exactly when it has a map.                    *)
TypeOK ==
  /\ sess \in [Conns -> [key : 1..keys, user : Users, char : Chars \cup {NoChar}, map : Maps \cup {NoMap},
                         list : [Chars -> Maps \cup {NoMap}]] \cup {NoSess}]
  /\ \A c \in Conns : Live(c) => (sess[c].char = NoChar <=> sess[c].map = NoMap)
  /\ byChar \in [Chars -> Conns \cup {NoConn}]
  /\ phase \in [Conns -> Waiting \cup {"none", "choose", "enter", "play"}]
  /\ \A c \in Conns : phase[c] = "none" <=> ~Live(c)
  /\ row \in [Users -> BOOLEAN]
  /\ saved \in [Chars -> Maps \cup {NoMap}]
  /\ known \subseteq Maps /\ alive \subseteq Maps
  /\ \A m \in Maps : \A e \in world[m] : e.char \in Chars /\ e.key \in 1..keys

(* The two tables of the agent agree: a character that has a session is    *)
(* found by its number, and what is found is that session.                 *)
TablesAgree == \A x \in Chars, c \in Conns : byChar[x] = c <=> Live(c) /\ sess[c].char = x

(* Nothing is under way. *)
Quiet ==
  /\ jobs = {}
  /\ \A m \in Maps : /\ up[m] = <<>> /\ down[m] = <<>>
                     /\ m \in known => m \in alive
                     /\ \A e \in world[m] : e.in

(* A character is in the game at one map server at most, whoever moved,    *)
(* left, came back or was disconnected: two of them would save over each   *)
(* other.                                                                  *)
OnePlace == \A x \in Chars :
  Cardinality({e \in UNION {{<<m, e>> : e \in world[m]} : m \in Maps} : e[2].char = x}) <= 1

(* When nothing is under way, every character in the game is that of a     *)
(* session, at the map server the session names: a client that vanished    *)
(* while it loaded or changed the map leaves nobody behind.                *)
NoGhosts == Quiet => \A m \in Maps : \A e \in world[m] :
  \E c \in Conns : Live(c) /\ sess[c].key = e.key /\ sess[c].char = e.char /\ sess[c].map = m

(* A character in the game is in one place, and the agent knows it.        *)
PlacesAgree == OnePlace /\ NoGhosts

(* A session has a login row as long as it lives: a logout that was asked  *)
(* for an earlier session does not come after the next login.              *)
RowsKept == \A c \in Conns : Live(c) => row[sess[c].user]

(* When nothing is under way and no map server has crashed, an account     *)
(* without a session has no row, and can log in.                           *)
RowsEnd == (Quiet /\ crashes = 0) => \A u \in Users : row[u] => HasSession(u)

(* A row is there when its account has a session, and goes with it.        *)
RowsAgree == RowsKept /\ RowsEnd

(* When nothing is under way and no map server has crashed, no client      *)
(* waits for an answer.                                                    *)
NobodyWaits == (Quiet /\ crashes = 0) => \A c \in Conns : phase[c] \notin Waiting

(* A list shows an account its own characters, unless a creation was       *)
(* answered to the next client of a connection index.                      *)
ListsOwn == \/ crossed
            \/ \A c \in Conns : Live(c) => \A x \in Chars : sess[c].list[x] # NoMap => Owner[x] = sess[c].user

(* What the agent keeps about its clients is about these clients.          *)
SessionsAgree == TypeOK /\ TablesAgree /\ ListsOwn

(* What a map server sends about a character only changes the session it   *)
(* was playing in and what its client waits for, although most messages    *)
(* name the character alone.  A refusal of the channels is left out: it    *)
(* names the connection index, whoever has it now.                         *)
MessagesFit == [][\A m \in Maps, c \in Conns :
  (/\ down[m] # <<>> /\ down'[m] = Tail(down[m])
   /\ <<sess'[c], phase'[c]>> # <<sess[c], phase[c]>>
   /\ Head(down[m]).kind # "channel_nack") => sess[c].key = Head(down[m]).key]_vars

(* NobodyWaits, after crashes too.                                         *)
NobodyWaitsEver == Quiet => \A c \in Conns : phase[c] \notin Waiting

(* RowsEnd, after crashes too. *)
RowsEndEver == Quiet => \A u \in Users : row[u] => HasSession(u)

(* ListsOwn, whoever has the connection index. *)
ListsOwnEver ==
  \A c \in Conns : Live(c) => \A x \in Chars : sess[c].list[x] # NoMap => Owner[x] = sess[c].user
=============================================================================
