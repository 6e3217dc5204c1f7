------------------------------ MODULE ChatRooms ------------------------------
(***************************************************************************)
(* The chat rooms of the distribute server (CChatRoomMgr): the users that  *)
(* agents have registered, the rooms with their guests and owner, and the  *)
(* two indexes kept beside them for searching.                             *)
(*                                                                         *)
(* Every request is handled in one step of the server's loop.  A request   *)
(* that is refused changes nothing and is not a step.  The requests of one *)
(* player reach the server through its agent in order, but they are        *)
(* handled after those of other players that came in between: a guest      *)
(* named in a request may have left.  Delayed says whether this happens.   *)
(***************************************************************************)
EXTENDS Naturals, Sequences, FiniteSets

CONSTANTS
  Players,     \* character ids
  NoPlayer,    \* 0 in dwUser
  Absent,      \* not in m_htUser
  NoRoom,      \* no room has this index
  MaxRooms,    \* MAX_ROOM_COUNT
  MaxGuests,   \* MAX_USER_PER_ROOM
  Caps,        \* the guest counts a room can be made for
  Types,       \* ENUM_CR_ROOM_TYPE
  PerPage,     \* ROOM_COUNT_PER_PAGE
  Delayed      \* a request may name a guest that has left meanwhile

ASSUME ChatAssumption ==
  /\ NoPlayer \notin Players
  /\ Absent \notin Nat
  /\ MaxRooms \in Nat \ {0} /\ PerPage \in Nat \ {0}
  /\ MaxGuests \in Nat \ {0}
  /\ Caps \subseteq 1..MaxGuests
  /\ Delayed \in BOOLEAN

RoomIdx == 0 .. (MaxRooms - 1)

VARIABLES
  user,      \* m_htUser: byIdx of every registered player
  rooms,     \* the rooms of m_pRoomList by index
  list,      \* their order in m_pRoomList
  titles,    \* m_pTitleList by index
  search,    \* m_htSearchName by player: byRoomIdx
  met        \* history: the players a client has had in its room since it came

vars == <<user, rooms, list, titles, search, met>>

(* A room that exists has an owner and a guest. *)
Room  == [owner : Players, slot : [1..MaxGuests -> Players \cup {NoPlayer}],
          cur : 1..MaxGuests, cap : Caps, type : Types]
Title == [cur : 1..MaxGuests, cap : Caps, type : Types]

ASSUME NoRoomAssumption == NoRoom \notin Room \cup Title

TypeOK ==
  /\ user \in [Players -> RoomIdx \cup {Absent}]
  /\ rooms \in [RoomIdx -> Room \cup {NoRoom}]
  /\ list \in Seq(RoomIdx)
  /\ titles \in [RoomIdx -> Title \cup {NoRoom}]
  /\ search \in [Players -> RoomIdx \cup {Absent}]
  /\ met \in [Players -> SUBSET Players]

Init ==
  /\ user = [p \in Players |-> Absent]
  /\ rooms = [r \in RoomIdx |-> NoRoom]
  /\ list = <<>>
  /\ titles = [r \in RoomIdx |-> NoRoom]
  /\ search = [p \in Players |-> Absent]
  /\ met = [p \in Players |-> {}]

-----------------------------------------------------------------------------
(* Rooms. *)

Registered(p) == user[p] # Absent
IsRoom(r) == rooms[r] # NoRoom

(* The guests as the loops over byCurGuestCount see them. *)
Members(room) == {room.slot[k] : k \in 1..room.cur}

(* GetEmptyRoomIdx: index 0 is never empty, and is the answer when no      *)
(* other is.                                                               *)
GetEmptyRoomIdx ==
  LET free == {r \in RoomIdx \ {0} : ~IsRoom(r)} IN
  IF free = {} THEN 0 ELSE CHOOSE r \in free : \A s \in free : r <= s

(* The entries of s at the places P, in their order. *)
EntriesAt(s, P) ==
  [n \in 1..Cardinality(P) |-> s[CHOOSE j \in P : Cardinality({i \in P : i <= j}) = n]]

(* The array after q has been taken out of the first cur slots and all     *)
(* but the last of them have been written back.                            *)
Kept(room, q) == EntriesAt(room.slot, {k \in 1..room.cur : room.slot[k] # q})

(* Compacted, with the last guest moved to the place that is free. *)
CompactedBySwap(room, q) ==
  [room EXCEPT !.cur  = @ - 1,
               !.slot = [k \in 1..MaxGuests |-> IF @[k] = q THEN @[room.cur] ELSE @[k]]]

Compacted(room, q) ==
  LET kept == Kept(room, q) IN
  [room EXCEPT !.cur  = @ - 1,
               !.slot = [k \in 1..MaxGuests |->
                           IF k >= room.cur THEN @[k]
                           ELSE IF k <= Len(kept) THEN kept[k] ELSE NoPlayer]]

SearchTitle(room) == [cur |-> room.cur, cap |-> room.cap, type |-> room.type]

AddRoom(r, room) ==
  /\ rooms' = [rooms EXCEPT ![r] = room]
  /\ list' = Append(list, r)
  /\ titles' = [titles EXCEPT ![r] = SearchTitle(room)]

DeleteRoom(r) ==
  /\ rooms' = [rooms EXCEPT ![r] = NoRoom]
  /\ list' = EntriesAt(list, {k \in DOMAIN list : list[k] # r})
  /\ titles' = [titles EXCEPT ![r] = NoRoom]

(* What clients know of each other: kept only where requests may be late.  *)
Meet(p, others) ==
  met' = [q \in Players |-> IF ~Delayed THEN {}
                            ELSE IF q = p THEN others
                            ELSE IF q \in others THEN met[q] \cup {p} ELSE met[q]]

Part(p) == met' = [met EXCEPT ![p] = {}]

(* The name index; names are told apart by their hash codes.               *)
InsertUserName(p, r) == search' = [search EXCEPT ![p] = r]
EraseUserName(p)     == search' = [search EXCEPT ![p] = Absent]

(* Only for a name that has been entered. *)
UpdateNameRoomIdx(p) ==
  /\ search[p] # Absent
  /\ search' = [search EXCEPT ![p] = user[p]]

-----------------------------------------------------------------------------
(* Requests of players. *)

CreateRoomSyn(p, cap, type) ==
  /\ Len(list) < MaxRooms
  /\ user[p] = 0
  /\ LET r == GetEmptyRoomIdx
         slot == [k \in 1..MaxGuests |-> IF k = 1 THEN p ELSE NoPlayer]
     IN  /\ AddRoom(r, [owner |-> p, slot |-> slot, cur |-> 1, cap |-> cap, type |-> type])
         /\ user' = [user EXCEPT ![p] = r]
         /\ InsertUserName(p, r)
  /\ Meet(p, {})

JoinRoomSyn(p, r) ==
  /\ user[p] = 0
  /\ r # 0
  /\ IsRoom(r)
  /\ rooms[r].cur < rooms[r].cap
  /\ rooms' = [rooms EXCEPT ![r].slot[rooms[r].cur + 1] = p, ![r].cur = @ + 1]
  /\ user' = [user EXCEPT ![p] = r]
  /\ InsertUserName(p, r)
  /\ Meet(p, Members(rooms[r]))
  /\ UNCHANGED <<list, titles>>

(* LeaveRoom, without a new owner. *)
LeaveAsOwner(p, r) ==
  \/ /\ rooms[r].cur = 1
     /\ DeleteRoom(r)
  \/ /\ rooms[r].cur > 1
     /\ rooms' = [rooms EXCEPT ![r] = Compacted(rooms[r], p)]
     /\ UNCHANGED <<list, titles>>

(* What Out_Room_Syn does to the room r of p: the last one deletes it, an  *)
(* owner who leaves is followed by the first of those who stay.  With a    *)
(* count of 0 the BYTE would wrap to 255 and the array be overrun: the     *)
(* behaviours end there.                                                   *)
LeaveRoom(p, r) ==
  \/ /\ rooms[r].cur = 1
     /\ DeleteRoom(r)
  \/ /\ rooms[r].cur > 1
     /\ LET kept == Kept(rooms[r], p)
            next == IF kept = <<>> THEN NoPlayer ELSE kept[1]
        IN  rooms' = [rooms EXCEPT ![r] =
              [Compacted(rooms[r], p) EXCEPT !.owner = IF @ = p THEN next ELSE @]]
     /\ UNCHANGED <<list, titles>>

InRoom(p) == user[p] \notin {0, Absent} /\ IsRoom(user[p])

OutRoomSyn(p) ==
  /\ InRoom(p)
  /\ LeaveRoom(p, user[p])
  /\ user' = [user EXCEPT ![p] = 0]
  /\ EraseUserName(p)
  /\ Part(p)

Owns(p, r) == r # Absent /\ IsRoom(r) /\ rooms[r].owner = p

(* Option_Syn takes the options as they come and writes the title anew.    *)
OptionSyn(p, cap, type) ==
  LET r == user[p] IN
  /\ Owns(p, r)
  /\ LET room == [rooms[r] EXCEPT !.cap = cap, !.type = type]
     IN  /\ rooms' = [rooms EXCEPT ![r] = room]
         /\ titles' = [titles EXCEPT ![r] = SearchTitle(room)]
  /\ UNCHANGED <<user, list, search, met>>

OwnerSyn(p, q) ==
  LET r == user[p] IN
  /\ Owns(p, r)
  /\ Registered(q)
  /\ rooms[r].cur > 1
  /\ rooms' = [rooms EXCEPT ![r].owner = q]
  /\ UNCHANGED <<user, list, titles, search, met>>

(* Kick_Syn, without the name index. *)
KickKeepsName(p, q) ==
  LET r == user[p] IN
  /\ Owns(p, r)
  /\ Registered(q)
  /\ rooms[r].cur > 0
  /\ rooms' = [rooms EXCEPT ![r] = Compacted(rooms[r], q)]
  /\ user' = [user EXCEPT ![q] = 0]
  /\ Part(q)
  /\ UNCHANGED <<list, titles, search>>

(* Kick_Syn asks whether the guest is registered, not whether it is in the *)
(* room: the count goes down, and without the guest in it the array loses  *)
(* its last entry.                                                         *)
KickSyn(p, q) ==
  LET r == user[p] IN
  /\ Owns(p, r)
  /\ Registered(q)
  /\ rooms[r].cur > 0
  /\ rooms' = [rooms EXCEPT ![r] = Compacted(rooms[r], q)]
  /\ user' = [user EXCEPT ![q] = 0]
  /\ EraseUserName(q)
  /\ Part(q)
  /\ UNCHANGED <<list, titles>>

UpdateUserInfo(p) ==
  /\ Registered(p)
  /\ UpdateNameRoomIdx(p)
  /\ UNCHANGED <<user, rooms, list, titles, met>>

-----------------------------------------------------------------------------
(* Requests of agents. *)

AddUserSyn(p) ==
  /\ ~Registered(p)
  /\ user' = [user EXCEPT ![p] = 0]
  /\ UNCHANGED <<rooms, list, titles, search, met>>

(* Registering anew and logging out leave the room first.                  *)
LeaveAs(p, byIdx, entry) ==
  /\ user' = [user EXCEPT ![p] = byIdx]
  /\ search' = [search EXCEPT ![p] = entry]
  /\ Part(p)
  /\ IF InRoom(p) THEN LeaveRoom(p, user[p]) ELSE UNCHANGED <<rooms, list, titles>>

ForceAddUserSyn(p) == LeaveAs(p, 0, IF InRoom(p) THEN Absent ELSE search[p])

DelUserSyn(p) ==
  /\ Registered(p)
  /\ LeaveAs(p, Absent, Absent)

-----------------------------------------------------------------------------
(* The players that a request of p's client may name. *)
Nameable(p) ==
  IF Delayed THEN met[p]
  ELSE {q \in Players \ {p} : user[p] # 0 /\ user[q] = user[p]}

Request(p) ==
  \/ \E cap \in Caps, type \in Types : CreateRoomSyn(p, cap, type) \/ OptionSyn(p, cap, type)
  \/ \E r \in RoomIdx : JoinRoomSyn(p, r)
  \/ OutRoomSyn(p)
  \/ \E q \in Nameable(p) : OwnerSyn(p, q) \/ KickSyn(p, q)
  \/ UpdateUserInfo(p)

Registration(p) == AddUserSyn(p) \/ ForceAddUserSyn(p) \/ DelUserSyn(p)

Next == \E p \in Players : Request(p) \/ Registration(p)

Spec == Init /\ [][Next]_vars

-----------------------------------------------------------------------------
(* The lists that are sent to clients. *)

(* Room_Syn: the rooms on a page, of one type or of all (NoRoom). *)
Wanted(r, type) == type = NoRoom \/ rooms[r].type = type

(* Room_Syn, skipping one room more. *)
RoomPageLate(page, type) ==
  LET rest  == SubSeq(list, page * PerPage + 2, Len(list))
      shown == EntriesAt(rest, {k \in DOMAIN rest : Wanted(rest[k], type)})
  IN  SubSeq(shown, 1, IF Len(shown) < PerPage THEN Len(shown) ELSE PerPage)

RoomPage(page, type) ==
  LET rest  == SubSeq(list, page * PerPage + 1, Len(list))
      shown == EntriesAt(rest, {k \in DOMAIN rest : Wanted(rest[k], type)})
  IN  SubSeq(shown, 1, IF Len(shown) < PerPage THEN Len(shown) ELSE PerPage)

TotalPage(type) == Cardinality({r \in RoomIdx : IsRoom(r) /\ Wanted(r, type)}) \div PerPage

(* The guests that a JOIN_ROOM_ACK lists: every slot of the array whose    *)
(* player is registered.                                                   *)
JoinAckLists(room) ==
  {room.slot[k] : k \in {j \in 1..MaxGuests : room.slot[j] # NoPlayer /\ Registered(room.slot[j])}}

(* SearchName_Syn: the room that a search for the name of p finds. *)
FoundByName(p) == IF search[p] # Absent /\ IsRoom(search[p]) THEN search[p] ELSE NoRoom

(* SearchTitle_Syn, for a text that the titles of some rooms contain: what *)
(* it lists, MAX_USER_PER_ROOM at most.                                    *)
FoundByTitle(some) ==
  LET hits == {r \in some : titles[r] # NoRoom} IN
  {shown \in SUBSET hits :
     Cardinality(shown) = IF Cardinality(hits) < MaxGuests THEN Cardinality(hits) ELSE MaxGuests}

-----------------------------------------------------------------------------
(* Properties. *)

(* A player and its room agree: the room index that m_htUser holds for a   *)
(* player names a room that has the player in exactly one of its first     *)
(* byCurGuestCount slots, and every one of those slots has a player that   *)
(* is registered with that index.  All of Create, Join, Out, Kick and the  *)
(* two log-out paths update both sides by hand.                            *)
RoomsAgree ==
  /\ \A p \in Players, r \in RoomIdx :
       (user[p] = r /\ r # 0) =>
         IsRoom(r) /\ Cardinality({k \in 1..rooms[r].cur : rooms[r].slot[k] = p}) = 1
  /\ \A r \in RoomIdx : IsRoom(r) =>
       /\ rooms[r].cur > 0
       /\ \A k \in 1..rooms[r].cur : \E p \in Players : rooms[r].slot[k] = p /\ user[p] = r

(* The owner of a room is one of its guests, whoever left, was kicked,     *)
(* handed the room over or logged out: without it nobody can change the    *)
(* room any more.                                                          *)
OwnerInRoom == \A r \in RoomIdx : IsRoom(r) => rooms[r].owner \in Members(rooms[r])

(* Searching for a name finds the room its player is in, and nothing for a *)
(* player that is in none.                                                 *)
SearchAgrees == \A p \in Players :
  FoundByName(p) = IF user[p] \in {0, Absent} THEN NoRoom ELSE user[p]

(* The rooms are whole: they agree with the table of players, and each has *)
(* its owner in it.                                                        *)
RoomsWhole == TypeOK /\ RoomsAgree /\ OwnerInRoom

(* Searching for a text finds every room whose title contains it, as long  *)
(* as the answer has a place for it, and no room that is gone; the size    *)
(* and the type shown are those the owner has chosen last.                 *)
TitleSearchFinds == \A some \in SUBSET RoomIdx :
  LET open == {r \in some : IsRoom(r)} IN
  Cardinality(open) <= MaxGuests =>
    /\ FoundByTitle(some) = {open}
    /\ \A r \in open : titles[r].cap = rooms[r].cap /\ titles[r].type = rooms[r].type

(* Both search indexes follow the rooms through every handler.             *)
SearchesAgree == SearchAgrees /\ TitleSearchFinds

(* A client that turns over the pages from the first to the last that      *)
(* Room_Syn announces is shown every room once.                            *)
Shown(type) == LET pages == [n \in 1..TotalPage(type) + 1 |-> RoomPage(n - 1, type)]
               IN  [r \in RoomIdx |->
                      Cardinality({at \in (DOMAIN pages) \X (1..PerPage) :
                                     at[2] <= Len(pages[at[1]]) /\ pages[at[1]][at[2]] = r})]

PagesCover == \A r \in RoomIdx : Shown(NoRoom)[r] = IF IsRoom(r) THEN 1 ELSE 0

(* A room of a type is shown once to a client that turns over the pages of *)
(* that type.                                                              *)
TypedPagesCover == \A t \in Types, r \in RoomIdx :
  Shown(t)[r] = IF IsRoom(r) /\ rooms[r].type = t THEN 1 ELSE 0

(* Guests that stay in a room keep the order in which they came, and the   *)
(* one that came first follows an owner that leaves or is gone.            *)
ElderFollows == [][
  \A r \in RoomIdx : (IsRoom(r) /\ IsRoom(r)') =>
    LET stay == Members(rooms[r]) \cap Members(rooms'[r])
        Order(room) == EntriesAt(room.slot, {k \in 1..room.cur : room.slot[k] \in stay})
    IN  /\ Order(rooms[r]) = Order(rooms'[r])
        /\ rooms[r].owner \notin stay => rooms'[r].owner = Order(rooms[r])[1]]_vars

(* The guests that the answer to a join lists are those of the room.       *)
JoinListsMembers == [][
  \A r \in RoomIdx : (IsRoom(r) /\ IsRoom(r)' /\ rooms'[r].cur > rooms[r].cur) =>
    JoinAckLists(rooms[r])' = Members(rooms[r])']_vars

(* A title search tells how many guests a room has.                        *)
TitlesCountGuests == \A r \in RoomIdx : IsRoom(r) => titles[r].cur = rooms[r].cur

=============================================================================
