-------------------------- MODULE ChatRelay_proofs --------------------------
(***************************************************************************)
(* What holds of the way of the rooms' requests and notices, for every     *)
(* number of agents, players, rooms and places.                            *)
(*                                                                         *)
(* A late kick may leave a room that does not fit.  The first part needs   *)
(* little of the rooms, LooseRoom, and says where the copies of a notice   *)
(* are (NoticeInv) and what the requests on the way to the distribute      *)
(* server say of who is where (RegInv).                                    *)
(*                                                                         *)
(* The last part is ClientsKnow.  A client is what it was told; Ends says  *)
(* what it is once it has heard all that is on the way to its agent, by a  *)
(* function from the places of the queue to clients.  Knows is the         *)
(* invariant: that end is right (BoardFor, ViewFor), or a request under    *)
(* way will set it right.  Every answer of the distribute server is        *)
(* brought to one form (Tells): what it adds to the queue takes an end     *)
(* that is right for the rooms before to one right for those after.        *)
(* WordsInv says which requests of a player can be under way together.     *)
(***************************************************************************)
EXTENDS ChatRelay, ChatRooms_proofs

-----------------------------------------------------------------------------
(* Queues. *)

LEMMA TailOf ==
  ASSUME NEW S, NEW q \in Seq(S), q # <<>>
  PROVE  /\ Tail(q) \in Seq(S) /\ Len(q) \in Nat /\ Len(q) > 0 /\ Len(Tail(q)) = Len(q) - 1
         /\ DOMAIN q = 1..Len(q) /\ DOMAIN Tail(q) = 1..(Len(q) - 1)
         /\ \A i \in 1..(Len(q) - 1) : Tail(q)[i] = q[i + 1]
         /\ Head(q) = q[1] /\ Head(q) \in S
  OBVIOUS

LEMMA AppendOf ==
  ASSUME NEW S, NEW q \in Seq(S), NEW e \in S
  PROVE  /\ Append(q, e) \in Seq(S) /\ Len(q) \in Nat
         /\ DOMAIN q = 1..Len(q) /\ DOMAIN Append(q, e) = 1..(Len(q) + 1)
         /\ \A i \in 1..Len(q) : Append(q, e)[i] = q[i]
         /\ Append(q, e)[Len(q) + 1] = e
  OBVIOUS

LEMMA ConcatOf ==
  ASSUME NEW S, NEW q \in Seq(S), NEW t \in Seq(S)
  PROVE  /\ q \o t \in Seq(S) /\ Len(q) \in Nat /\ Len(t) \in Nat /\ Len(q \o t) = Len(q) + Len(t)
         /\ DOMAIN q = 1..Len(q) /\ DOMAIN t = 1..Len(t) /\ DOMAIN (q \o t) = 1..(Len(q) + Len(t))
         /\ \A i \in 1..Len(q) : (q \o t)[i] = q[i]
         /\ \A i \in 1..Len(t) : (q \o t)[Len(q) + i] = t[i]
  OBVIOUS

(* An element of q \o t is one of q or one of t. *)
LEMMA ConcatHas ==
  ASSUME NEW S, NEW q \in Seq(S), NEW t \in Seq(S), NEW i \in DOMAIN (q \o t)
  PROVE  \/ i \in DOMAIN q /\ (q \o t)[i] = q[i]
         \/ \E j \in DOMAIN t : i = Len(q) + j /\ (q \o t)[i] = t[j]
<1>1. /\ Len(q) \in Nat /\ Len(t) \in Nat /\ DOMAIN q = 1..Len(q) /\ DOMAIN t = 1..Len(t)
      /\ i \in 1..(Len(q) + Len(t))
      /\ \A k \in 1..Len(q) : (q \o t)[k] = q[k]
      /\ \A k \in 1..Len(t) : (q \o t)[Len(q) + k] = t[k]
  BY ConcatOf
<1>2. CASE i <= Len(q)
  BY <1>1, <1>2
<1>3. CASE ~(i <= Len(q))
  <2>1. i - Len(q) \in 1..Len(t) /\ Len(q) + (i - Len(q)) = i
    BY <1>1, <1>3
  <2>2. (q \o t)[i] = t[i - Len(q)]
    BY <1>1, <2>1
  <2> QED BY <1>1, <2>1, <2>2
<1> QED BY <1>2, <1>3

(* Each element of t is one of q, or, behind these, one of w. *)
InParts(t, q, w) ==
  \A i \in DOMAIN t : \/ i \in DOMAIN q /\ t[i] = q[i]
                      \/ \E j \in DOMAIN w : i = Len(q) + j /\ t[i] = w[j]

JoinedOf(t, q, w) == t = q \o w

LEMMA ConcatParts ==
  ASSUME NEW S, NEW q \in Seq(S), NEW w \in Seq(S), NEW t, JoinedOf(t, q, w)
  PROVE  InParts(t, q, w)
BY ConcatHas DEF InParts, JoinedOf

LEMMA EmptyIsSeq ==
  ASSUME NEW S
  PROVE  <<>> \in Seq(S)
OBVIOUS

LEMMA ConcatEmpty ==
  ASSUME NEW S, NEW q \in Seq(S)
  PROVE  q \o <<>> = q /\ <<>> \o q = q
OBVIOUS

LEMMA ConcatCovers ==
  ASSUME NEW S, NEW q \in Seq(S), NEW t \in Seq(S)
  PROVE  /\ \A i \in DOMAIN q : i \in DOMAIN (q \o t) /\ (q \o t)[i] = q[i]
         /\ \A k \in DOMAIN t : \E i \in DOMAIN (q \o t) : (q \o t)[i] = t[k]
<1>1. /\ Len(q) \in Nat /\ Len(t) \in Nat /\ DOMAIN q = 1..Len(q) /\ DOMAIN t = 1..Len(t)
      /\ DOMAIN (q \o t) = 1..(Len(q) + Len(t))
      /\ \A i \in 1..Len(q) : (q \o t)[i] = q[i]
      /\ \A i \in 1..Len(t) : (q \o t)[Len(q) + i] = t[i]
  BY ConcatOf
<1>2. \A i \in 1..Len(q) : i \in 1..(Len(q) + Len(t))
  BY <1>1
<1>3. \A i \in 1..Len(t) : Len(q) + i \in 1..(Len(q) + Len(t))
  BY <1>1
<1> QED BY <1>1, <1>2, <1>3

-----------------------------------------------------------------------------
(* Types.  What a late request leaves of the rooms is of these types too.  *)

Someone == Players \cup {NoPlayer}

LooseRoom == [owner : Someone, slot : [1..MaxGuests -> Someone], cur : 0..MaxGuests,
              cap : Caps, type : Types]

RoomTypes ==
  /\ user \in [Players -> RoomIdx \cup {Absent}]
  /\ rooms \in [RoomIdx -> LooseRoom \cup {NoRoom}]

LEMMA ZeroIdx ==
  /\ 0 \in RoomIdx /\ Absent \notin RoomIdx /\ RoomIdx \subseteq Nat
  /\ MaxGuests \in Nat /\ MaxGuests > 0 /\ 1 \in 1..MaxGuests
  /\ Caps \subseteq 1..MaxGuests /\ NoPlayer \notin Players
BY ChatAssumption DEF RoomIdx

LEMMA LooseFields ==
  ASSUME NEW room \in LooseRoom
  PROVE  /\ room.cur \in 0..MaxGuests /\ room.cur \in Nat /\ room.cur <= MaxGuests
         /\ room.owner \in Someone /\ room.cap \in Caps /\ room.type \in Types
         /\ room.slot \in [1..MaxGuests -> Someone]
         /\ DOMAIN room = {"owner", "slot", "cur", "cap", "type"}
         /\ room = [owner |-> room.owner, slot |-> room.slot, cur |-> room.cur,
                    cap |-> room.cap, type |-> room.type]
<1>1. /\ room.cur \in 0..MaxGuests
      /\ room.owner \in Someone /\ room.cap \in Caps /\ room.type \in Types
      /\ room.slot \in [1..MaxGuests -> Someone]
      /\ DOMAIN room = {"owner", "slot", "cur", "cap", "type"}
      /\ room = [owner |-> room.owner, slot |-> room.slot, cur |-> room.cur,
                 cap |-> room.cap, type |-> room.type]
  BY DEF LooseRoom
<1> QED BY <1>1, ZeroIdx

LEMMA LooseKept ==
  ASSUME NEW room \in LooseRoom, NEW q
  PROVE  Kept(room, q) \in Seq(Someone)
<1> DEFINE P == {k \in 1..room.cur : room.slot[k] # q}
<1>1. P \in SUBSET (1..room.cur) /\ P \in SUBSET Nat /\ room.cur \in Nat
  BY LooseFields
<1>2. IsFiniteSet(P)
  BY <1>1, PlacesFinite
<1>3. \A j \in P : room.slot[j] \in Someone
  BY LooseFields, ZeroIdx
<1>4. EntriesAt(room.slot, P) \in Seq(Someone)
  BY <1>1, <1>2, <1>3, EntriesInSeq
<1> QED BY <1>4 DEF Kept

LEMMA LooseCompacted ==
  ASSUME NEW room \in LooseRoom, NEW q, room.cur > 0
  PROVE  /\ Compacted(room, q) \in LooseRoom
         /\ Compacted(room, q).cur = room.cur - 1 /\ Compacted(room, q).owner = room.owner
         /\ Compacted(room, q).cap = room.cap
<1> DEFINE slot == [k \in 1..MaxGuests |->
                      IF k >= room.cur THEN room.slot[k]
                      ELSE IF k <= Len(Kept(room, q)) THEN Kept(room, q)[k] ELSE NoPlayer]
<1>1. Compacted(room, q) = [room EXCEPT !.cur = room.cur - 1, !.slot = slot]
  BY LooseFields DEF Compacted
<1>2. slot \in [1..MaxGuests -> Someone]
  <2>1. ASSUME NEW k \in 1..MaxGuests PROVE slot[k] \in Someone
    <3>1. room.slot[k] \in Someone /\ NoPlayer \in Someone
      BY LooseFields DEF Someone
    <3>2. k <= Len(Kept(room, q)) => Kept(room, q)[k] \in Someone
      BY LooseKept
    <3> QED BY <3>1, <3>2
  <2> QED BY <2>1
<1>3. room.cur - 1 \in 0..MaxGuests
  BY LooseFields, ZeroIdx
<1> HIDE DEF slot
<1>4. Compacted(room, q) = [owner |-> room.owner, slot |-> slot, cur |-> room.cur - 1,
                           cap |-> room.cap, type |-> room.type]
  BY <1>1, LooseFields
<1> QED BY <1>2, <1>3, <1>4, LooseFields DEF LooseRoom

LEMMA KnownRoom ==
  ASSUME RoomTypes, NEW r \in RoomIdx, IsRoom(r)
  PROVE  rooms[r] \in LooseRoom
BY DEF RoomTypes, IsRoom

(* One room is put in, altered or taken out. *)
LEMMA RoomPut ==
  ASSUME RoomTypes, NEW r \in RoomIdx, NEW c \in LooseRoom \cup {NoRoom}, rooms' = [rooms EXCEPT ![r] = c],
         user' \in [Players -> RoomIdx \cup {Absent}]
  PROVE  RoomTypes' /\ rooms'[r] = c
BY DEF RoomTypes

(* A handler changes the registration of one player, and leaves a room     *)
(* where it does not delete it.                                            *)
LEMMA CreateTypes ==
  ASSUME RoomTypes, NEW p \in Players, NEW cap \in Caps, NEW type \in Types, CreateRoomSyn(p, cap, type)
  PROVE  /\ RoomTypes' /\ user'[p] \in RoomIdx /\ rooms'[user'[p]] \in LooseRoom
         /\ Registered(p) /\ \A q \in Players \ {p} : user'[q] = user[q]
<1>1. /\ GetEmptyRoomIdx \in RoomIdx /\ user[p] = 0
      /\ rooms' = [rooms EXCEPT ![GetEmptyRoomIdx] = NewRoom(p, cap, type)]
      /\ user' = [user EXCEPT ![p] = GetEmptyRoomIdx]
  BY EmptyRoomIdx DEF CreateRoomSyn, AddRoom, NewRoom
<1>2. NewRoom(p, cap, type) \in LooseRoom
  <2>1. NewRoom(p, cap, type) \in Room
    BY NewRoomIs
  <2>2. 1..MaxGuests \subseteq 0..MaxGuests
    BY ZeroIdx
  <2> QED BY <2>1, <2>2 DEF Room, LooseRoom, Someone
<1>3. user' \in [Players -> RoomIdx \cup {Absent}] /\ user'[p] = GetEmptyRoomIdx
      /\ \A q \in Players \ {p} : user'[q] = user[q]
  BY <1>1 DEF RoomTypes
<1>4. Registered(p)
  BY <1>1, ZeroIdx DEF Registered
<1> QED BY <1>1, <1>2, <1>3, <1>4, RoomPut

LEMMA JoinTypes ==
  ASSUME RoomTypes, NEW p \in Players, NEW r \in RoomIdx, JoinRoomSyn(p, r)
  PROVE  /\ RoomTypes' /\ rooms'[r] \in LooseRoom /\ user'[p] \in RoomIdx
         /\ Registered(p) /\ \A q \in Players \ {p} : user'[q] = user[q]
<1> DEFINE c == [rooms[r] EXCEPT !.slot[rooms[r].cur + 1] = p, !.cur = @ + 1]
<1>1. /\ user[p] = 0 /\ rooms[r] \in LooseRoom /\ rooms[r].cur < rooms[r].cap
      /\ rooms' = [rooms EXCEPT ![r] = c] /\ user' = [user EXCEPT ![p] = r]
  BY KnownRoom DEF JoinRoomSyn, RoomTypes
<1>2. c \in LooseRoom
  <2>1. rooms[r].cap \in 1..MaxGuests /\ rooms[r].cur \in Nat
    BY <1>1, LooseFields, ZeroIdx
  <2>2. rooms[r].cur + 1 \in 0..MaxGuests
    BY <1>1, <2>1, ZeroIdx
  <2>3. [rooms[r].slot EXCEPT ![rooms[r].cur + 1] = p] \in [1..MaxGuests -> Someone]
    BY <1>1, LooseFields DEF Someone
  <2>4. c = [owner |-> rooms[r].owner, slot |-> [rooms[r].slot EXCEPT ![rooms[r].cur + 1] = p],
             cur |-> rooms[r].cur + 1, cap |-> rooms[r].cap, type |-> rooms[r].type]
    <3>1. PICK n : n = rooms[r].cur
      OBVIOUS
    <3>2. [rooms[r] EXCEPT !.slot[n + 1] = p, !.cur = n + 1]
          = [owner |-> rooms[r].owner, slot |-> [rooms[r].slot EXCEPT ![n + 1] = p],
             cur |-> n + 1, cap |-> rooms[r].cap, type |-> rooms[r].type]
      <4>1. PICK x : x = rooms[r] /\ x \in LooseRoom
        BY <1>1
      <4>2. x = [owner |-> x.owner, slot |-> x.slot, cur |-> x.cur, cap |-> x.cap, type |-> x.type]
        BY <4>1, LooseFields
      <4>3. [x EXCEPT !.slot[n + 1] = p, !.cur = n + 1]
            = [owner |-> x.owner, slot |-> [x.slot EXCEPT ![n + 1] = p],
               cur |-> n + 1, cap |-> x.cap, type |-> x.type]
        BY <4>2, RoomWithOneMore, Zenon
      <4> QED BY <4>1, <4>3
    <3>3. c = [rooms[r] EXCEPT !.slot[n + 1] = p, !.cur = n + 1]
      BY <3>1
    <3> QED BY <3>1, <3>2, <3>3
  <2> QED BY <1>1, <2>2, <2>3, <2>4, LooseFields DEF LooseRoom
<1> HIDE DEF c
<1>3. user' \in [Players -> RoomIdx \cup {Absent}] /\ user'[p] = r /\ \A q \in Players \ {p} : user'[q] = user[q]
  BY <1>1 DEF RoomTypes
<1>4. Registered(p)
  BY <1>1, ZeroIdx DEF Registered
<1> QED BY <1>1, <1>2, <1>3, <1>4, RoomPut

LEMMA LeaveTypes ==
  ASSUME RoomTypes, NEW p \in Players, NEW r \in RoomIdx, IsRoom(r), LeaveRoom(p, r),
         user' \in [Players -> RoomIdx \cup {Absent}]
  PROVE  RoomTypes' /\ (rooms[r].cur # 1 => rooms'[r] \in LooseRoom)
<1>1. rooms[r] \in LooseRoom /\ rooms[r].cur \in Nat
  BY KnownRoom, LooseFields
<1>2. CASE rooms[r].cur = 1
  <2>1. rooms' = [rooms EXCEPT ![r] = NoRoom]
    BY <1>1, <1>2 DEF LeaveRoom, DeleteRoom
  <2> QED BY <1>2, <2>1, RoomPut
<1>3. CASE rooms[r].cur > 1
  <2> DEFINE next == IF Kept(rooms[r], p) = <<>> THEN NoPlayer ELSE Kept(rooms[r], p)[1]
             room == Compacted(rooms[r], p)
             o == IF room.owner = p THEN next ELSE room.owner
  <2>1. rooms' = [rooms EXCEPT ![r] = [room EXCEPT !.owner = o]]
    BY <1>1, <1>3 DEF LeaveRoom
  <2>2. room \in LooseRoom
    BY <1>1, <1>3, LooseCompacted
  <2>3. next \in Someone
    <3>1. Kept(rooms[r], p) \in Seq(Someone)
      BY <1>1, LooseKept
    <3> QED BY <3>1 DEF Someone
  <2> HIDE DEF next, room
  <2>4. o \in Someone
    BY <2>2, <2>3, LooseFields
  <2> HIDE DEF o
  <2>5. [room EXCEPT !.owner = o] \in LooseRoom
    BY <2>2, <2>4 DEF LooseRoom
  <2> QED BY <2>1, <2>5, RoomPut
<1> QED BY <1>1, <1>2, <1>3 DEF LeaveRoom

LEMMA InRoomIdx ==
  ASSUME RoomTypes, NEW p \in Players, InRoom(p)
  PROVE  user[p] \in RoomIdx /\ user[p] # 0 /\ user[p] # Absent /\ Registered(p) /\ IsRoom(user[p])
BY DEF RoomTypes, InRoom, Registered

LEMMA OutTypes ==
  ASSUME RoomTypes, NEW p \in Players, OutRoomSyn(p)
  PROVE  /\ RoomTypes' /\ user'[p] = 0 /\ Registered(p) /\ user[p] \in RoomIdx
         /\ rooms[user[p]].cur # 1 => rooms'[user[p]] \in LooseRoom
         /\ \A q \in Players \ {p} : user'[q] = user[q]
<1>1. InRoom(p) /\ LeaveRoom(p, user[p]) /\ user' = [user EXCEPT ![p] = 0]
  BY DEF OutRoomSyn
<1>2. /\ user' \in [Players -> RoomIdx \cup {Absent}] /\ user'[p] = 0
      /\ \A q \in Players \ {p} : user'[q] = user[q]
  BY <1>1, ZeroIdx DEF RoomTypes
<1> QED BY <1>1, <1>2, InRoomIdx, LeaveTypes

LEMMA LeaveAsTypes ==
  ASSUME RoomTypes, NEW p \in Players, NEW u \in {0, Absent}, NEW e, LeaveAs(p, u, e)
  PROVE  /\ RoomTypes' /\ user'[p] = u
         /\ InRoom(p) => user[p] \in RoomIdx /\ (rooms[user[p]].cur # 1 => rooms'[user[p]] \in LooseRoom)
         /\ \A q \in Players \ {p} : user'[q] = user[q]
<1>1. /\ user' \in [Players -> RoomIdx \cup {Absent}] /\ user'[p] = u
      /\ \A q \in Players \ {p} : user'[q] = user[q]
  BY ZeroIdx DEF LeaveAs, RoomTypes
<1>2. CASE InRoom(p)
  BY <1>1, <1>2, InRoomIdx, LeaveTypes DEF LeaveAs
<1>3. CASE ~InRoom(p)
  BY <1>1, <1>3 DEF LeaveAs, RoomTypes
<1> QED BY <1>1, <1>2, <1>3

LEMMA OwnsIdx ==
  ASSUME RoomTypes, NEW p \in Players, Owns(p, user[p])
  PROVE  user[p] \in RoomIdx /\ IsRoom(user[p]) /\ Registered(p) /\ rooms[user[p]] \in LooseRoom
<1>1. user[p] \in RoomIdx /\ IsRoom(user[p]) /\ Registered(p)
  BY DEF Owns, RoomTypes, Registered
<1> QED BY <1>1, KnownRoom

LEMMA OptionTypes ==
  ASSUME RoomTypes, NEW p \in Players, NEW cap \in Caps, NEW type, OptionSyn(p, cap, type),
         type = rooms[user[p]].type
  PROVE  RoomTypes' /\ user[p] \in RoomIdx /\ Registered(p) /\ rooms'[user[p]] \in LooseRoom /\ user' = user
<1>1. /\ user[p] \in RoomIdx /\ rooms[user[p]] \in LooseRoom /\ Registered(p)
      /\ rooms' = [rooms EXCEPT ![user[p]] = [rooms[user[p]] EXCEPT !.cap = cap, !.type = type]]
      /\ user' = user
  BY OwnsIdx DEF OptionSyn
<1>2. [rooms[user[p]] EXCEPT !.cap = cap, !.type = type] \in LooseRoom
  BY <1>1 DEF LooseRoom
<1> QED BY <1>1, <1>2, RoomPut DEF RoomTypes

LEMMA OwnerTypes ==
  ASSUME RoomTypes, NEW p \in Players, NEW q \in Players, OwnerSyn(p, q)
  PROVE  RoomTypes' /\ user[p] \in RoomIdx /\ user' = user
<1>1. /\ user[p] \in RoomIdx /\ rooms[user[p]] \in LooseRoom
      /\ rooms' = [rooms EXCEPT ![user[p]].owner = q] /\ user' = user
  BY OwnsIdx DEF OwnerSyn
<1>2. [rooms[user[p]] EXCEPT !.owner = q] \in LooseRoom
  BY <1>1 DEF LooseRoom, Someone
<1>3. rooms' = [rooms EXCEPT ![user[p]] = [rooms[user[p]] EXCEPT !.owner = q]]
  BY <1>1 DEF RoomTypes
<1> QED BY <1>1, <1>2, <1>3, RoomPut DEF RoomTypes

LEMMA KickTypes ==
  ASSUME RoomTypes, NEW p \in Players, NEW q \in Players, KickSyn(p, q)
  PROVE  /\ RoomTypes' /\ user[p] \in RoomIdx /\ rooms'[user[p]] \in LooseRoom /\ user'[q] = 0
         /\ Registered(q) /\ \A b \in Players \ {q} : user'[b] = user[b]
<1>1. /\ user[p] \in RoomIdx /\ rooms[user[p]] \in LooseRoom /\ rooms[user[p]].cur > 0 /\ Registered(q)
      /\ rooms' = [rooms EXCEPT ![user[p]] = Compacted(rooms[user[p]], q)]
      /\ user' = [user EXCEPT ![q] = 0]
  BY OwnsIdx DEF KickSyn
<1>2. /\ user' \in [Players -> RoomIdx \cup {Absent}] /\ user'[q] = 0
      /\ \A b \in Players \ {q} : user'[b] = user[b]
  BY <1>1, ZeroIdx DEF RoomTypes
<1>3. Compacted(rooms[user[p]], q) \in LooseRoom
  BY <1>1, LooseCompacted
<1> QED BY <1>1, <1>2, <1>3, RoomPut

LEMMA AddTypes ==
  ASSUME RoomTypes, NEW p \in Players, AddUserSyn(p)
  PROVE  RoomTypes' /\ user'[p] = 0 /\ \A q \in Players \ {p} : user'[q] = user[q]
BY ZeroIdx DEF AddUserSyn, RoomTypes

-----------------------------------------------------------------------------
(* The messages of ChatRelay and where they are. *)

LooseLine == [cur : (0..MaxGuests) \cup {NoRoom.cur}, cap : Caps \cup {NoRoom.cap}]
LoosePage == [RoomIdx -> LooseLine \cup {NoRoom}]
Answers == {"add_ack", "list_ack", "create_ack", "join_ack", "out_ack"}
NewsKinds == {"created", "deleted", "count", "size"}

Messages ==
  {m \in [kind : Tracked \cup Answers \cup NewsKinds, to : SUBSET Someone, n : Nat, about : Someone,
          room : RoomIdx, list : SUBSET Players, page : LoosePage] :
     m.kind = "join" => m.about \in Players}

DownMessages ==
  {m \in Messages : /\ m.kind # "chat"
                    /\ m.kind \in {"kick", "add_ack"} => \E q \in Players : m.to = {q}}
SideMessages == {m \in Messages : m.kind \in Tracked}

(* Nobody asks for a size that is not offered, or names itself. *)
Requests ==
  {m \in [kind : {"add", "force", "del", "list", "create", "join", "out", "option", "owner", "kick"},
          by : Players, who : Someone, room : RoomIdx, cap : Caps \cup {0}] :
     /\ m.kind \in {"create", "option"} => m.cap \in Caps
     /\ m.kind \in {"owner", "kick"} => m.who \in Players \ {m.by}}

Views == [room : RoomIdx, members : SUBSET Players, owner : Someone]

WireTypes ==
  /\ up \in [Agents -> Seq(Requests)]
  /\ down \in [Agents -> Seq(DownMessages)]
  /\ side \in [Agents \X Agents -> Seq(SideMessages)]

ClientTypes ==
  /\ home \in [Players -> Agents]
  /\ at \in [Players -> Agents \cup {NoAgent}]
  /\ via \in [Players -> Agents \cup {NoAgent}]
  /\ \A p \in Players : via[p] # NoAgent <=> Registered(p)
  /\ view \in [Players -> Views]
  /\ board \in [Players -> LoosePage]
  /\ late \in BOOLEAN

CountTypes ==
  /\ served \in Nat
  /\ due \in [Players -> SUBSET (Nat \X Tracked)]
  /\ heard \in [Players -> SUBSET (Nat \X Tracked)]
  /\ echoed \in [Players -> SUBSET (Nat \X Tracked)]

Base == RoomTypes /\ WireTypes /\ ClientTypes /\ CountTypes

LEMMA NoPageType == NoPage \in LoosePage
BY DEF NoPage, LoosePage

LEMMA MsgFields ==
  ASSUME NEW m \in Messages
  PROVE  /\ m.kind \in Tracked \cup Answers \cup NewsKinds /\ m.to \in SUBSET Someone /\ m.n \in Nat
         /\ m.about \in Someone /\ m.room \in RoomIdx /\ m.list \in SUBSET Players /\ m.page \in LoosePage
         /\ m.kind = "join" => m.about \in Players
         /\ DOMAIN m = {"kind", "to", "n", "about", "room", "list", "page"}
BY DEF Messages

LEMMA RequestFields ==
  ASSUME NEW m \in Requests
  PROVE  /\ m.by \in Players /\ m.who \in Someone /\ m.room \in RoomIdx /\ m.cap \in Caps \cup {0}
         /\ m.kind \in {"create", "option"} => m.cap \in Caps
         /\ m.kind \in {"owner", "kick"} => m.who \in Players /\ m.who # m.by
BY DEF Requests

(* What the server writes into a message. *)
LEMMA MsgIs ==
  ASSUME served \in Nat, NEW k \in Tracked \cup Answers \cup NewsKinds, k # "join", NEW t \in SUBSET Someone
  PROVE  /\ Msg(k, t) \in Messages /\ Msg(k, t).kind = k /\ Msg(k, t).to = t /\ Msg(k, t).n = served
         /\ Msg(k, t) = [kind |-> k, to |-> t, n |-> served, about |-> NoPlayer, room |-> 0,
                         list |-> {}, page |-> NoPage]
BY NoPageType, ZeroIdx DEF Msg, Messages, Someone

LEMMA NoticeIs ==
  ASSUME served \in Nat, NEW k \in Tracked \cup Answers \cup NewsKinds, NEW t \in SUBSET Someone, NEW q \in Someone,
         k = "join" => q \in Players
  PROVE  /\ Notice(k, t, q) \in Messages /\ Notice(k, t, q).kind = k /\ Notice(k, t, q).to = t
         /\ Notice(k, t, q).n = served /\ Notice(k, t, q).about = q
<1>1. Notice(k, t, q) = [kind |-> k, to |-> t, n |-> served, about |-> q, room |-> 0,
                         list |-> {}, page |-> NoPage]
  <2>1. Msg(k, t) = [kind |-> k, to |-> t, n |-> served, about |-> NoPlayer, room |-> 0,
                     list |-> {}, page |-> NoPage]
    BY DEF Msg
  <2> QED BY <2>1 DEF Notice
<1> QED BY <1>1, NoPageType, ZeroIdx DEF Messages

LEMMA NewsIs ==
  ASSUME served \in Nat, NEW k \in NewsKinds, NEW r \in RoomIdx, NEW line \in LooseLine \cup {NoRoom}
  PROVE  /\ News(k, r, line) \in Seq(DownMessages) /\ Len(News(k, r, line)) = 1
         /\ DOMAIN News(k, r, line) = {1}
         /\ News(k, r, line)[1].kind = k /\ News(k, r, line)[1].n = served
         /\ News(k, r, line)[1].room = r /\ News(k, r, line)[1].page[r] = line
<1> DEFINE m == [kind |-> k, to |-> {}, n |-> served, about |-> NoPlayer, room |-> r,
                 list |-> {}, page |-> [NoPage EXCEPT ![r] = line]]
<1>1. News(k, r, line) = <<m>>
  <2>1. Msg(k, {}) = [kind |-> k, to |-> {}, n |-> served, about |-> NoPlayer, room |-> 0,
                      list |-> {}, page |-> NoPage]
    BY DEF Msg
  <2>2. PICK c : c = [Msg(k, {}) EXCEPT !.room = r]
    OBVIOUS
  <2>3. c = [kind |-> k, to |-> {}, n |-> served, about |-> NoPlayer, room |-> r,
             list |-> {}, page |-> NoPage]
    BY <2>1, <2>2
  <2>4. [c EXCEPT !.page[r] = line] = m
    BY <2>3
  <2> HIDE DEF m
  <2>5. News(k, r, line) = <<[c EXCEPT !.page[r] = line]>>
    BY <2>2, Zenon DEF News
  <2> QED BY <2>4, <2>5
<1>2. [NoPage EXCEPT ![r] = line] \in LoosePage /\ [NoPage EXCEPT ![r] = line][r] = line
  BY NoPageType DEF LoosePage
<1>3. m \in DownMessages
  BY <1>2, ZeroIdx DEF Messages, DownMessages, Someone, NewsKinds
<1>4. <<m>> \in Seq(DownMessages) /\ Len(<<m>>) = 1 /\ DOMAIN <<m>> = {1} /\ <<m>>[1] = m
  BY <1>3
<1>5. m.kind = k /\ m.n = served /\ m.room = r /\ m.page[r] = line
  BY <1>2
<1> HIDE DEF m
<1> QED BY <1>1, <1>4, <1>5

LEMMA LineType ==
  ASSUME NEW room \in LooseRoom \cup {NoRoom}
  PROVE  Line(room) \in LooseLine
BY LooseFields DEF Line, LooseLine

-----------------------------------------------------------------------------
(* What a request is answered with. *)

Everybody(b) == {q \in Players : Registered(q) /\ via[q] = b}

Told(news, b) ==
  IF Everybody(b) = {} THEN <<>> ELSE [k \in DOMAIN news |-> [news[k] EXCEPT !.to = Everybody(b)]]

LEMMA ToldIs ==
  ASSUME NEW b, NEW news \in Seq(DownMessages), \A i \in DOMAIN news : news[i].kind \in NewsKinds
  PROVE  /\ Told(news, b) \in Seq(DownMessages)
         /\ DOMAIN Told(news, b) \subseteq DOMAIN news
         /\ Everybody(b) # {} => DOMAIN Told(news, b) = DOMAIN news
         /\ \A i \in DOMAIN Told(news, b) :
              /\ Told(news, b)[i].kind = news[i].kind /\ Told(news, b)[i].n = news[i].n
              /\ Told(news, b)[i].room = news[i].room /\ Told(news, b)[i].page = news[i].page
              /\ Told(news, b)[i].to = Everybody(b)
<1>1. CASE Everybody(b) = {}
  <2>1. Told(news, b) = <<>>
    BY <1>1 DEF Told
  <2> QED BY <1>1, <2>1
<1>2. CASE Everybody(b) # {}
  <2>1. Told(news, b) = [k \in DOMAIN news |-> [news[k] EXCEPT !.to = Everybody(b)]]
    BY <1>2 DEF Told
  <2>2. DOMAIN news = 1..Len(news) /\ Len(news) \in Nat
    OBVIOUS
  <2>3. ASSUME NEW i \in DOMAIN news
        PROVE  /\ [news[i] EXCEPT !.to = Everybody(b)] \in DownMessages
               /\ Told(news, b)[i].kind = news[i].kind /\ Told(news, b)[i].n = news[i].n
               /\ Told(news, b)[i].room = news[i].room /\ Told(news, b)[i].page = news[i].page
               /\ Told(news, b)[i].to = Everybody(b)
    <3>1. news[i] \in Messages /\ news[i].kind \in NewsKinds
      BY <2>2, <2>3 DEF DownMessages
    <3>2. Everybody(b) \in SUBSET Someone
      BY DEF Everybody, Someone
    <3>3. PICK c : c = [news[i] EXCEPT !.to = Everybody(b)]
      OBVIOUS
    <3>4. /\ c \in Messages /\ c.kind = news[i].kind /\ c.n = news[i].n /\ c.room = news[i].room
          /\ c.page = news[i].page /\ c.to = Everybody(b)
      BY <3>1, <3>2, <3>3 DEF Messages
    <3>5. c \in DownMessages
      BY <3>1, <3>4 DEF DownMessages, NewsKinds
    <3>6. Told(news, b)[i] = c
      BY <2>1, <3>3
    <3> QED BY <3>3, <3>4, <3>5, <3>6
  <2> HIDE <1>2
  <2>4. Told(news, b) \in [1..Len(news) -> DownMessages]
    BY <2>1, <2>2, <2>3
  <2>5. Told(news, b) \in Seq(DownMessages) /\ DOMAIN Told(news, b) = DOMAIN news
    BY <2>2, <2>4
  <2> QED BY <2>3, <2>5
<1> QED BY <1>1, <1>2

(* The messages of one answer: of its own number, told apart by kind.      *)
Fine(before, news, after) ==
  /\ before \in Seq(DownMessages) /\ news \in Seq(DownMessages) /\ after \in Seq(DownMessages)
  /\ \A i \in DOMAIN before : before[i].n = served
  /\ \A i \in DOMAIN news : news[i].n = served /\ news[i].kind \in NewsKinds
  /\ \A i \in DOMAIN after : after[i].n = served
  /\ \A i, j \in DOMAIN before : before[i].kind = before[j].kind => i = j
  /\ \A i, j \in DOMAIN after : after[i].kind = after[j].kind => i = j
  /\ before = <<>> \/ after = <<>>

(* What the agents have been sent, of what is followed: all that one       *)
(* answer adds is of its own number, one of a kind, and goes to the agent  *)
(* that asked.                                                             *)
Gives(q, D, a, ms, s) ==
  /\ D \in [Agents -> Seq(DownMessages)]
  /\ \A b \in Agents : \E t \in Seq(DownMessages) :
       /\ D[b] = q[b] \o t
       /\ \A i \in DOMAIN t : t[i].n = s /\ (t[i].kind \in Tracked => b = a /\ t[i] \in ms)
       /\ \A i, j \in DOMAIN t : t[i].kind \in Tracked /\ t[i].kind = t[j].kind => i = j
       /\ b = a => \A m \in ms : \E i \in DOMAIN t : t[i] = m

LEMMA AnswerGives ==
  ASSUME NEW a \in Agents, NEW q \in [Agents -> Seq(DownMessages)], NEW N \in [Agents -> Seq(DownMessages)],
         NEW before \in Seq(DownMessages), NEW after \in Seq(DownMessages), NEW s,
         \A b \in Agents : \A i \in DOMAIN N[b] : N[b][i].n = s /\ N[b][i].kind \in NewsKinds,
         \A i \in DOMAIN before : before[i].n = s,
         \A i \in DOMAIN after : after[i].n = s,
         \A i, j \in DOMAIN before : before[i].kind = before[j].kind => i = j,
         \A i, j \in DOMAIN after : after[i].kind = after[j].kind => i = j,
         before = <<>> \/ after = <<>>,
         NEW D, D = [b \in Agents |-> q[b] \o (IF b = a THEN before ELSE <<>>) \o N[b]
                                           \o (IF b = a THEN after ELSE <<>>)]
  PROVE  Gives(q, D, a, ToSet(before) \cup ToSet(after), s)
<1> DEFINE ms == ToSet(before) \cup ToSet(after)
<1>k. Tracked \cap NewsKinds = {}
  BY DEF Tracked, Notices, NewsKinds
<1>t. \A b \in Agents : q[b] \in Seq(DownMessages) /\ N[b] \in Seq(DownMessages)
  OBVIOUS
<1>n. \A i \in DOMAIN N[a] : N[a][i].n = s /\ N[a][i].kind \in NewsKinds
  OBVIOUS
<1>m. ms = {before[i] : i \in DOMAIN before} \cup {after[i] : i \in DOMAIN after}
  BY DEF ToSet
<1> DEFINE Good(b, t) ==
       /\ D[b] = q[b] \o t
       /\ \A i \in DOMAIN t : t[i].n = s /\ (t[i].kind \in Tracked => b = a /\ t[i] \in ms)
       /\ \A i, j \in DOMAIN t : t[i].kind \in Tracked /\ t[i].kind = t[j].kind => i = j
       /\ b = a => \A m \in ms : \E i \in DOMAIN t : t[i] = m
<1> HIDE DEF ms
<1>1. ASSUME NEW b \in Agents, b # a
      PROVE  Good(b, N[b])
  <2>1. D[b] = q[b] \o N[b]
    <3>1. PICK e : e = <<>>
      OBVIOUS
    <3>2. D[b] = q[b] \o (IF b = a THEN before ELSE e) \o N[b] \o (IF b = a THEN after ELSE e)
      BY <3>1
    <3>3. D[b] = q[b] \o e \o N[b] \o e
      BY <1>1, <3>2
    <3>4. q[b] \o e = q[b]
      BY <1>t, <3>1, ConcatEmpty
    <3>5. q[b] \o N[b] \in Seq(DownMessages)
      BY <1>t, ConcatOf
    <3>6. (q[b] \o N[b]) \o e = q[b] \o N[b]
      BY <3>1, <3>5, ConcatEmpty
    <3> QED BY <3>3, <3>4, <3>6
  <2> QED BY <1>1, <1>k, <2>1
<1>2. \E t \in Seq(DownMessages) : Good(a, t)
  <2>1. D[a] = q[a] \o before \o N[a] \o after
    <3>1. D[a] = q[a] \o (IF a = a THEN before ELSE <<>>) \o N[a] \o (IF a = a THEN after ELSE <<>>)
      BY Zenon
    <3> QED BY <3>1
  <2>2. CASE before = <<>>
    <3> DEFINE t == N[a] \o after
    <3>1. t \in Seq(DownMessages)
      BY <1>t, ConcatOf
    <3>2. q[a] \o before = q[a]
      BY <1>t, <2>2, ConcatEmpty
    <3>3. D[a] = q[a] \o N[a] \o after
      BY <2>1, <3>2
    <3>4. (q[a] \o N[a]) \o after = q[a] \o (N[a] \o after)
      BY <1>t
    <3>5. D[a] = q[a] \o t
      BY <3>3, <3>4
    <3>6. \A i \in DOMAIN t : \/ i \in DOMAIN N[a] /\ t[i] = N[a][i]
                              \/ \E j \in DOMAIN after : i = Len(N[a]) + j /\ t[i] = after[j]
      BY <1>t, ConcatHas
    <3>7. \A k \in DOMAIN after : \E i \in DOMAIN t : t[i] = after[k]
      <4>1. PICK u \in Seq(DownMessages) : u = N[a]
        BY <1>t
      <4>2. ASSUME NEW k \in DOMAIN after
            PROVE  \E i \in DOMAIN (u \o after) : (u \o after)[i] = after[k]
        <5> HIDE <2>2
        <5>1. Len(u) + k \in DOMAIN (u \o after) /\ (u \o after)[Len(u) + k] = after[k]
          <6>1. Len(u) \in Nat /\ Len(after) \in Nat /\ DOMAIN after = 1..Len(after)
                /\ DOMAIN (u \o after) = 1..(Len(u) + Len(after))
                /\ \A i \in 1..Len(after) : (u \o after)[Len(u) + i] = after[i]
            BY ConcatOf
          <6> QED BY <6>1
        <5> QED BY <5>1
      <4>3. t = u \o after
        BY <4>1
      <4> HIDE DEF t
      <4> QED BY <4>2, <4>3
    <3>8. ms = {after[i] : i \in DOMAIN after}
      BY <1>m, <2>2
    <3> HIDE DEF t
    <3>9. \A i \in DOMAIN t : t[i].kind \in Tracked =>
            \E j \in DOMAIN after : i = Len(N[a]) + j /\ t[i] = after[j]
      BY <1>k, <3>6
    <3>10. Good(a, t)
      <4>1. \A i \in DOMAIN t : t[i].n = s
        <5> SUFFICES ASSUME NEW i \in DOMAIN t PROVE t[i].n = s
          OBVIOUS
        <5>1. CASE i \in DOMAIN N[a] /\ t[i] = N[a][i]
          BY <1>n, <5>1
        <5>2. CASE \E j \in DOMAIN after : t[i] = after[j]
          BY <5>2
        <5> QED BY <3>6, <5>1, <5>2
      <4>2. \A i \in DOMAIN t : t[i].kind \in Tracked => t[i] \in ms
        BY <3>8, <3>9
      <4>3. \A i, j \in DOMAIN t : t[i].kind \in Tracked /\ t[i].kind = t[j].kind => i = j
        <5> SUFFICES ASSUME NEW i \in DOMAIN t, NEW j \in DOMAIN t, t[i].kind \in Tracked, t[i].kind = t[j].kind
                     PROVE  i = j
          OBVIOUS
        <5>1. PICK k \in DOMAIN after : i = Len(N[a]) + k /\ t[i] = after[k]
          BY <3>9
        <5>2. PICK l \in DOMAIN after : j = Len(N[a]) + l /\ t[j] = after[l]
          BY <3>9
        <5>3. k = l
          BY <5>1, <5>2
        <5> QED BY <5>1, <5>2, <5>3
      <4>4. \A m \in ms : \E i \in DOMAIN t : t[i] = m
        BY <3>7, <3>8
      <4> QED BY <3>5, <4>1, <4>2, <4>3, <4>4
    <3> QED BY <3>1, <3>10
  <2>3. CASE after = <<>>
    <3> DEFINE t == before \o N[a]
    <3>1. t \in Seq(DownMessages)
      BY <1>t, ConcatOf
    <3>2. q[a] \o before \o N[a] \in Seq(DownMessages)
      BY <1>t
    <3>3. D[a] = q[a] \o before \o N[a]
      BY <2>1, <2>3, <3>2, ConcatEmpty
    <3>4. (q[a] \o before) \o N[a] = q[a] \o (before \o N[a])
      BY <1>t
    <3>5. D[a] = q[a] \o t
      BY <3>3, <3>4
    <3>6. \A i \in DOMAIN t : \/ i \in DOMAIN before /\ t[i] = before[i]
                              \/ \E j \in DOMAIN N[a] : i = Len(before) + j /\ t[i] = N[a][j]
      <4>1. t = before \o N[a] /\ N[a] \in Seq(DownMessages) /\ before \in Seq(DownMessages)
        BY <1>t
      <4>2. JoinedOf(t, before, N[a])
        BY DEF JoinedOf
      <4> HIDE DEF t
      <4>3. InParts(t, before, N[a])
        BY <4>1, <4>2, ConcatParts
      <4> QED BY <4>3 DEF InParts
    <3>7. \A k \in DOMAIN before : k \in DOMAIN t /\ t[k] = before[k]
      BY <1>t, ConcatCovers
    <3>8. ms = {before[i] : i \in DOMAIN before}
      BY <1>m, <2>3
    <3> HIDE DEF t
    <3>9. \A i \in DOMAIN t : t[i].kind \in Tracked => i \in DOMAIN before /\ t[i] = before[i]
      BY <1>k, <3>6
    <3>10. Good(a, t)
      <4>1. \A i \in DOMAIN t : t[i].n = s
        <5> SUFFICES ASSUME NEW i \in DOMAIN t PROVE t[i].n = s
          OBVIOUS
        <5>1. CASE i \in DOMAIN before /\ t[i] = before[i]
          BY <5>1
        <5>2. CASE \E j \in DOMAIN N[a] : i = Len(before) + j /\ t[i] = N[a][j]
          BY <1>n, <5>2
        <5> QED BY <3>6, <5>1, <5>2
      <4>2. \A i \in DOMAIN t : t[i].kind \in Tracked => t[i] \in ms
        BY <3>8, <3>9
      <4>3. \A i, j \in DOMAIN t : t[i].kind \in Tracked /\ t[i].kind = t[j].kind => i = j
        BY <3>9
      <4>4. \A m \in ms : \E i \in DOMAIN t : t[i] = m
        BY <3>7, <3>8
      <4> QED BY <3>5, <4>1, <4>2, <4>3, <4>4
    <3> QED BY <3>1, <3>10
  <2> QED BY <2>2, <2>3
<1>3. \A b \in Agents : \E t \in Seq(DownMessages) : Good(b, t)
  <2>1. ASSUME NEW b \in Agents PROVE \E t \in Seq(DownMessages) : Good(b, t)
    <3>1. CASE b = a
      BY <1>2, <3>1
    <3>2. CASE b # a
      <4>1. Good(b, N[b]) /\ N[b] \in Seq(DownMessages)
        BY <1>1, <1>t, <3>2
      <4> HIDE DEF Good
      <4> QED BY <4>1
    <3> QED BY <3>1, <3>2
  <2> QED BY <2>1
<1>4. D \in [Agents -> Seq(DownMessages)]
  <2>1. ASSUME NEW b \in Agents PROVE D[b] \in Seq(DownMessages)
    <3>1. PICK t \in Seq(DownMessages) : D[b] = q[b] \o t
      BY <1>3
    <3> QED BY <1>t, <3>1, ConcatOf
  <2> QED BY <2>1
<1> QED BY <1>3, <1>4 DEF Gives, ms

(* What is owed to p of the messages ms. *)
NamedIn(p, ms) == {Id(m) : m \in {x \in ms : x.kind \in Tracked /\ p \in x.to}}

Owes(p, ms) == IF at[p] = NoAgent THEN {} ELSE NamedIn(p, ms)

(* A step in which the server answers a request of agent a. *)
Answered(a) ==
  /\ served' = served + 1
  /\ \E ms \in SUBSET DownMessages :
       /\ Gives(down, down', a, ms, served)
       /\ due' = [p \in Players |-> due[p] \cup Owes(p, ms)]

LEMMA Replied ==
  ASSUME WireTypes, NEW a \in Agents, NEW before, NEW news, NEW after, Fine(before, news, after),
         down' = [b \in Agents |-> down[b] \o (IF b = a THEN before ELSE <<>>) \o Told(news, b)
                                           \o (IF b = a THEN after ELSE <<>>)],
         due' = [p \in Players |-> due[p] \cup Owes(p, ToSet(before) \cup ToSet(after))],
         served' = served + 1
  PROVE  Answered(a)
<1> DEFINE N == [b \in Agents |-> Told(news, b)]
           ms == ToSet(before) \cup ToSet(after)
<1>1. /\ before \in Seq(DownMessages) /\ news \in Seq(DownMessages) /\ after \in Seq(DownMessages)
      /\ \A i \in DOMAIN news : news[i].n = served /\ news[i].kind \in NewsKinds
  BY DEF Fine
<1>2. \A b \in Agents : /\ Told(news, b) \in Seq(DownMessages)
                        /\ \A i \in DOMAIN Told(news, b) : Told(news, b)[i].n = served /\ Told(news, b)[i].kind \in NewsKinds
  <2> SUFFICES ASSUME NEW b \in Agents
               PROVE  /\ Told(news, b) \in Seq(DownMessages)
                      /\ \A i \in DOMAIN Told(news, b) : Told(news, b)[i].n = served /\ Told(news, b)[i].kind \in NewsKinds
    OBVIOUS
  <2>1. /\ Told(news, b) \in Seq(DownMessages) /\ DOMAIN Told(news, b) \subseteq DOMAIN news
        /\ \A i \in DOMAIN Told(news, b) : Told(news, b)[i].kind = news[i].kind /\ Told(news, b)[i].n = news[i].n
    BY <1>1, ToldIs
  <2> QED BY <1>1, <2>1
<1>3. /\ N \in [Agents -> Seq(DownMessages)]
      /\ \A b \in Agents : N[b] = Told(news, b)
  BY <1>2
<1>4. \A b \in Agents : \A i \in DOMAIN N[b] : N[b][i].n = served /\ N[b][i].kind \in NewsKinds
  BY <1>2, <1>3
<1>5. down' = [b \in Agents |-> down[b] \o (IF b = a THEN before ELSE <<>>) \o N[b]
                                        \o (IF b = a THEN after ELSE <<>>)]
  BY <1>3
<1> HIDE DEF N
<1>6. Gives(down, down', a, ms, served)
  <2>1. /\ \A i \in DOMAIN before : before[i].n = served
        /\ \A i \in DOMAIN after : after[i].n = served
        /\ \A i, j \in DOMAIN before : before[i].kind = before[j].kind => i = j
        /\ \A i, j \in DOMAIN after : after[i].kind = after[j].kind => i = j
        /\ before = <<>> \/ after = <<>>
    BY DEF Fine
  <2>2. down \in [Agents -> Seq(DownMessages)]
    BY DEF WireTypes
  <2> QED BY <1>1, <1>3, <1>4, <1>5, <2>1, <2>2, AnswerGives
<1>7. ms \in SUBSET DownMessages
  <2>1. ToSet(before) \subseteq DownMessages
    BY <1>1 DEF ToSet
  <2>2. ToSet(after) \subseteq DownMessages
    BY <1>1 DEF ToSet
  <2> QED BY <2>1, <2>2
<1> QED BY <1>6, <1>7 DEF Answered

NewsFine(news) ==
  /\ news \in Seq(DownMessages)
  /\ \A i \in DOMAIN news : news[i].n = served /\ news[i].kind \in NewsKinds

LEMMA NoNews == NewsFine(<<>>)
BY EmptyIsSeq DEF NewsFine

LEMMA SomeNews ==
  ASSUME served \in Nat, NEW k \in NewsKinds, NEW r \in RoomIdx, NEW line \in LooseLine \cup {NoRoom}
  PROVE  NewsFine(News(k, r, line))
<1>1. /\ News(k, r, line) \in Seq(DownMessages) /\ DOMAIN News(k, r, line) = {1}
      /\ News(k, r, line)[1].kind = k /\ News(k, r, line)[1].n = served
  BY NewsIs
<1> QED BY <1>1 DEF NewsFine

(* A few messages are of different kinds. *)
OneOfKind(t) ==
  /\ t \in Seq(DownMessages)
  /\ \A i \in DOMAIN t : t[i].n = served
  /\ \A i, j \in DOMAIN t : t[i].kind = t[j].kind => i = j

LEMMA NoneOfKind == OneOfKind(<<>>)
BY EmptyIsSeq DEF OneOfKind

LEMMA OneIsFine ==
  ASSUME NEW m \in DownMessages, m.n = served
  PROVE  OneOfKind(<<m>>)
<1>1. <<m>> \in Seq(DownMessages) /\ DOMAIN <<m>> = {1} /\ <<m>>[1] = m
  OBVIOUS
<1> QED BY <1>1 DEF OneOfKind

LEMMA TwoAreFine ==
  ASSUME NEW m \in DownMessages, m.n = served, NEW x \in DownMessages, x.n = served, m.kind # x.kind
  PROVE  OneOfKind(<<m, x>>)
<1>1. <<m, x>> \in Seq(DownMessages) /\ DOMAIN <<m, x>> = {1, 2} /\ <<m, x>>[1] = m /\ <<m, x>>[2] = x
  OBVIOUS
<1> QED BY <1>1 DEF OneOfKind

LEMMA ThreeAreFine ==
  ASSUME NEW m \in DownMessages, m.n = served, NEW x \in DownMessages, x.n = served,
         NEW y \in DownMessages, y.n = served, m.kind # x.kind, m.kind # y.kind, x.kind # y.kind
  PROVE  OneOfKind(<<m, x>> \o <<y>>)
<1> DEFINE t == <<m, x>> \o <<y>>
<1>1. t \in Seq(DownMessages) /\ DOMAIN t = {1, 2, 3} /\ t[1] = m /\ t[2] = x /\ t[3] = y
  OBVIOUS
<1> HIDE DEF t
<1>2. \A i \in DOMAIN t : i = 1 \/ i = 2 \/ i = 3
  BY <1>1
<1>3. \A i \in DOMAIN t : t[i].n = served
  BY <1>1, <1>2
<1>4. \A i, j \in DOMAIN t : t[i].kind = t[j].kind => i = j
  BY <1>1, <1>2
<1> QED BY <1>1, <1>3, <1>4 DEF OneOfKind

LEMMA KeptTwo ==
  ASSUME NEW m \in DownMessages, NEW x \in DownMessages
  PROVE  <<m, x>> \o <<>> = <<m, x>>
OBVIOUS

LEMMA FineIs ==
  ASSUME NEW before, NEW news, NEW after, OneOfKind(before), NewsFine(news), OneOfKind(after),
         before = <<>> \/ after = <<>>
  PROVE  Fine(before, news, after)
BY DEF Fine, OneOfKind, NewsFine

(* What the single messages are. *)
LEMMA ListedAre ==
  ASSUME NEW room \in LooseRoom
  PROVE  JoinAckLists(room) \in SUBSET Players
<1>1. \A k \in 1..MaxGuests : room.slot[k] \in Players \/ room.slot[k] = NoPlayer
  BY LooseFields DEF Someone
<1>2. JoinAckLists(room) \subseteq {room.slot[k] : k \in {j \in 1..MaxGuests : room.slot[j] # NoPlayer}}
  BY DEF JoinAckLists
<1> QED BY <1>1, <1>2

LEMMA AckIs ==
  ASSUME served \in Nat, NEW k \in {"create_ack", "join_ack"}, NEW p \in Players, NEW r \in RoomIdx,
         rooms'[r] \in LooseRoom
  PROVE  Ack(k, p, r) \in DownMessages /\ Ack(k, p, r).n = served /\ Ack(k, p, r).kind = k
<1> DEFINE o == rooms'[r].owner
           l == IF k = "join_ack" THEN JoinAckLists(rooms'[r]) ELSE {p}
<1>1. Msg(k, {p}) = [kind |-> k, to |-> {p}, n |-> served, about |-> NoPlayer, room |-> 0,
                     list |-> {}, page |-> NoPage]
  BY DEF Msg
<1>2. Ack(k, p, r) = [kind |-> k, to |-> {p}, n |-> served, about |-> o, room |-> r,
                      list |-> l, page |-> NoPage]
  <2>1. PICK c : c = [Msg(k, {p}) EXCEPT !.room = r]
    OBVIOUS
  <2>2. Ack(k, p, r) = [[c EXCEPT !.about = o] EXCEPT !.list = l]
    BY <2>1, Zenon DEF Ack
  <2> HIDE DEF o, l
  <2>3. c = [kind |-> k, to |-> {p}, n |-> served, about |-> NoPlayer, room |-> r,
             list |-> {}, page |-> NoPage]
    BY <1>1, <2>1
  <2> QED BY <2>2, <2>3
<1>3. o \in Someone
  BY LooseFields
<1>4. l \in SUBSET Players
  BY ListedAre
<1> HIDE DEF l, o
<1> QED BY <1>2, <1>3, <1>4, NoPageType DEF Messages, DownMessages, Answers, Someone

LEMMA ToPlayer ==
  ASSUME served \in Nat, NEW k \in {"add_ack", "out_ack", "kick"}, NEW p \in Players
  PROVE  Msg(k, {p}) \in DownMessages /\ Msg(k, {p}).n = served /\ Msg(k, {p}).kind = k
<1>1. k \in Tracked \cup Answers \cup NewsKinds /\ k \notin {"chat", "join"} /\ {p} \in SUBSET Someone
  BY DEF Tracked, Answers, Someone
<1>2. /\ Msg(k, {p}) \in Messages /\ Msg(k, {p}).kind = k /\ Msg(k, {p}).to = {p} /\ Msg(k, {p}).n = served
  BY <1>1, MsgIs
<1> QED BY <1>1, <1>2 DEF DownMessages

LEMMA NoticeFits ==
  ASSUME served \in Nat, NEW k \in Notices, NEW t \in SUBSET Someone, NEW q \in Someone,
         k = "join" => q \in Players
  PROVE  Notice(k, t, q) \in DownMessages /\ Notice(k, t, q).n = served /\ Notice(k, t, q).kind = k
<1>1. k \in Tracked \cup Answers \cup NewsKinds /\ k \notin {"chat", "kick", "add_ack"}
  BY DEF Tracked, Notices
<1>2. Notice(k, t, q) \in Messages /\ Notice(k, t, q).kind = k /\ Notice(k, t, q).n = served
  BY <1>1, NoticeIs
<1> QED BY <1>1, <1>2 DEF DownMessages

LEMMA NamedAre ==
  ASSUME NEW room \in LooseRoom
  PROVE  /\ Named(room) \in SUBSET Someone /\ JoinAckLists(room) \in SUBSET Someone
         /\ \A q : Named(room) \ {q} \in SUBSET Someone /\ JoinAckLists(room) \ {q} \in SUBSET Someone
<1>1. \A k \in 1..room.cur : room.slot[k] \in Someone
  BY LooseFields, ZeroIdx
<1>2. \A k \in 1..MaxGuests : room.slot[k] \in Someone
  BY LooseFields
<1>3. Named(room) \in SUBSET Someone
  BY <1>1 DEF Named, Members
<1>4. JoinAckLists(room) \in SUBSET Someone
  BY <1>2 DEF JoinAckLists
<1> QED BY <1>3, <1>4

(* One handler after the other. *)

LEMMA AddAnswers ==
  ASSUME Base, NEW a \in Agents, NEW p \in Players, ~Registered(p), ServeAdd(a, p)
  PROVE  Answered(a)
<1> DEFINE before == <<Msg("add_ack", {p})>>
           news == <<>>
           after == <<>>
<1>1. Answer(a, before, news, after)
  BY DEF ServeAdd
<1>2. Fine(before, news, after)
  <2>1. Msg("add_ack", {p}) \in DownMessages /\ Msg("add_ack", {p}).n = served
    BY ToPlayer DEF Base, CountTypes
  <2> QED BY <2>1, OneIsFine, NoneOfKind, NoNews, FineIs
<1> HIDE DEF before, news, after
<1>3. /\ down' = [b \in Agents |-> down[b] \o (IF b = a THEN before ELSE <<>>) \o Told(news, b)
                                           \o (IF b = a THEN after ELSE <<>>)]
      /\ due' = [u \in Players |-> due[u] \cup Owes(u, ToSet(before) \cup ToSet(after))]
      /\ served' = served + 1
  BY <1>1 DEF Answer, Owed, Owes, NamedIn, Told, Everybody
<1> QED BY <1>2, <1>3, Replied DEF Base

LEMMA ListAnswers ==
  ASSUME Base, NEW a \in Agents, NEW p \in Players, ServeList(a, p)
  PROVE  Answered(a)
<1> DEFINE before == <<[Msg("list_ack", {p}) EXCEPT
                        !.page = [r \in RoomIdx |-> IF r \in ToSet(RoomPage(0, NoRoom)) THEN Line(rooms[r]) ELSE NoRoom]]>>
           news == <<>>
           after == <<>>
<1>1. Answer(a, before, news, after)
  BY DEF ServeList
<1>2. Fine(before, news, after)
  <2> DEFINE g == [r \in RoomIdx |-> IF r \in ToSet(RoomPage(0, NoRoom)) THEN Line(rooms[r]) ELSE NoRoom]
             m == [Msg("list_ack", {p}) EXCEPT !.page = g]
  <2>1. g \in LoosePage
    <3> SUFFICES ASSUME NEW r \in RoomIdx PROVE g[r] \in LooseLine \cup {NoRoom}
      BY DEF LoosePage
    <3>1. rooms[r] \in LooseRoom \cup {NoRoom}
      BY DEF Base, RoomTypes
    <3>2. Line(rooms[r]) \in LooseLine
      BY <3>1, LineType
    <3> QED BY <3>2
  <2> HIDE DEF g
  <2>2. Msg("list_ack", {p}) = [kind |-> "list_ack", to |-> {p}, n |-> served, about |-> NoPlayer, room |-> 0,
                               list |-> {}, page |-> NoPage]
    BY DEF Msg
  <2>3. m = [kind |-> "list_ack", to |-> {p}, n |-> served, about |-> NoPlayer, room |-> 0,
             list |-> {}, page |-> g]
    BY <2>2
  <2>4. before = <<m>>
    BY DEF g
  <2> HIDE DEF m, before
  <2>5. m \in DownMessages /\ m.n = served
    <3>1. served \in Nat /\ "list_ack" \in Tracked \cup Answers \cup NewsKinds /\ {p} \in SUBSET Someone
          /\ NoPlayer \in Someone /\ {} \in SUBSET Players /\ "list_ack" # "chat"
      BY DEF Base, CountTypes, Answers, Someone
    <3>2. m \in Messages /\ m.n = served /\ m.kind = "list_ack"
      BY <2>1, <2>3, <3>1, ZeroIdx DEF Messages
    <3> QED BY <3>2 DEF DownMessages
  <2> QED BY <2>4, <2>5, OneIsFine, NoneOfKind, NoNews, FineIs
<1> HIDE DEF before, news, after
<1>3. /\ down' = [b \in Agents |-> down[b] \o (IF b = a THEN before ELSE <<>>) \o Told(news, b)
                                           \o (IF b = a THEN after ELSE <<>>)]
      /\ due' = [u \in Players |-> due[u] \cup Owes(u, ToSet(before) \cup ToSet(after))]
      /\ served' = served + 1
  BY <1>1 DEF Answer, Owed, Owes, NamedIn, Told, Everybody
<1> QED BY <1>2, <1>3, Replied DEF Base

LEMMA CreateAnswers ==
  ASSUME Base, NEW a \in Agents, NEW p \in Players, NEW cap \in Caps, ServeCreate(a, p, cap)
  PROVE  Answered(a)
<1> DEFINE before == <<Ack("create_ack", p, user'[p])>>
           news == UpdateInfoCreatedRoom(user'[p])
           after == <<>>
<1>1. Answer(a, before, news, after)
  BY DEF ServeCreate
<1>2. Fine(before, news, after)
  <2>1. PICK type \in Types : CreateRoomSyn(p, cap, type)
    BY DEF ServeCreate
  <2>2. user'[p] \in RoomIdx /\ rooms'[user'[p]] \in LooseRoom
    BY <2>1, CreateTypes DEF Base
  <2>3. served \in Nat
    BY DEF Base, CountTypes
  <2>4. Ack("create_ack", p, user'[p]) \in DownMessages /\ Ack("create_ack", p, user'[p]).n = served
    BY <2>2, <2>3, AckIs
  <2>5. NewsFine(news)
    BY <2>2, <2>3, SomeNews, LineType DEF UpdateInfoCreatedRoom, NewsKinds
  <2> HIDE DEF news
  <2> QED BY <2>4, <2>5, OneIsFine, NoneOfKind, FineIs
<1> HIDE DEF before, news, after
<1>3. /\ down' = [b \in Agents |-> down[b] \o (IF b = a THEN before ELSE <<>>) \o Told(news, b)
                                           \o (IF b = a THEN after ELSE <<>>)]
      /\ due' = [u \in Players |-> due[u] \cup Owes(u, ToSet(before) \cup ToSet(after))]
      /\ served' = served + 1
  BY <1>1 DEF Answer, Owed, Owes, NamedIn, Told, Everybody
<1> QED BY <1>2, <1>3, Replied DEF Base

LEMMA JoinAnswers ==
  ASSUME Base, NEW a \in Agents, NEW p \in Players, NEW r \in RoomIdx, ServeJoin(a, p, r)
  PROVE  Answered(a)
<1> DEFINE before == <<Ack("join_ack", p, r), Notice("join", Named(rooms'[r]) \ {p}, p)>>
           news == UpdateInfoCurrentGuestCount(r)
           after == <<>>
<1>1. Answer(a, before, news, after)
  BY DEF ServeJoin
<1>2. Fine(before, news, after)
  <2>1. rooms'[r] \in LooseRoom
    BY JoinTypes DEF Base, ServeJoin
  <2>2. served \in Nat
    BY DEF Base, CountTypes
  <2>3. Ack("join_ack", p, r) \in DownMessages /\ Ack("join_ack", p, r).n = served
        /\ Ack("join_ack", p, r).kind = "join_ack"
    BY <2>1, <2>2, AckIs
  <2>4. Named(rooms'[r]) \ {p} \in SUBSET Someone
    BY <2>1, NamedAre
  <2>5. PICK x : x = Notice("join", Named(rooms'[r]) \ {p}, p)
    OBVIOUS
  <2>6. x \in DownMessages /\ x.n = served /\ x.kind = "join"
    BY <2>2, <2>4, <2>5, NoticeFits DEF Notices, Someone
  <2>7. NewsFine(news)
    BY <2>1, <2>2, SomeNews, LineType DEF UpdateInfoCurrentGuestCount, NewsKinds
  <2> HIDE DEF news
  <2>8. OneOfKind(before)
    BY <2>3, <2>5, <2>6, TwoAreFine
  <2> HIDE DEF before
  <2> QED BY <2>7, <2>8, NoneOfKind, FineIs
<1> HIDE DEF before, news, after
<1>3. /\ down' = [b \in Agents |-> down[b] \o (IF b = a THEN before ELSE <<>>) \o Told(news, b)
                                           \o (IF b = a THEN after ELSE <<>>)]
      /\ due' = [u \in Players |-> due[u] \cup Owes(u, ToSet(before) \cup ToSet(after))]
      /\ served' = served + 1
  BY <1>1 DEF Answer, Owed, Owes, NamedIn, Told, Everybody
<1> QED BY <1>2, <1>3, Replied DEF Base

LEMMA OptionAnswers ==
  ASSUME Base, NEW a \in Agents, NEW p \in Players, NEW cap \in Caps, ServeOption(a, p, cap)
  PROVE  Answered(a)
<1> DEFINE before == <<Notice("option", Named(rooms[user[p]]), NoPlayer)>>
           news == IF cap # rooms[user[p]].cap THEN UpdateInfoTotalGuestCount(user[p]) ELSE <<>>
           after == <<>>
<1>1. Answer(a, before, news, after)
  BY DEF ServeOption
<1>2. Fine(before, news, after)
  <2>1. /\ user[p] \in RoomIdx /\ rooms[user[p]] \in LooseRoom /\ rooms'[user[p]] \in LooseRoom
    <3>1. OptionSyn(p, cap, rooms[user[p]].type)
      BY DEF ServeOption
    <3>2. Owns(p, user[p])
      BY <3>1 DEF OptionSyn
    <3> QED BY <3>1, <3>2, OptionTypes, OwnsIdx DEF Base
  <2>2. served \in Nat
    BY DEF Base, CountTypes
  <2>3. Named(rooms[user[p]]) \in SUBSET Someone
    BY <2>1, NamedAre
  <2>4. PICK x : x = Notice("option", Named(rooms[user[p]]), NoPlayer)
    OBVIOUS
  <2>5. x \in DownMessages /\ x.n = served
    BY <2>2, <2>3, <2>4, NoticeFits DEF Notices, Someone
  <2>6. NewsFine(news)
    BY <2>1, <2>2, SomeNews, NoNews, LineType DEF UpdateInfoTotalGuestCount, NewsKinds
  <2> HIDE DEF news
  <2>7. OneOfKind(before)
    BY <2>4, <2>5, OneIsFine
  <2> HIDE DEF before
  <2> QED BY <2>6, <2>7, NoneOfKind, FineIs
<1> HIDE DEF before, news, after
<1>3. /\ down' = [b \in Agents |-> down[b] \o (IF b = a THEN before ELSE <<>>) \o Told(news, b)
                                           \o (IF b = a THEN after ELSE <<>>)]
      /\ due' = [u \in Players |-> due[u] \cup Owes(u, ToSet(before) \cup ToSet(after))]
      /\ served' = served + 1
  BY <1>1 DEF Answer, Owed, Owes, NamedIn, Told, Everybody
<1> QED BY <1>2, <1>3, Replied DEF Base

LEMMA OwnerAnswers ==
  ASSUME Base, NEW a \in Agents, NEW p \in Players, NEW q \in Players, ServeOwner(a, p, q)
  PROVE  Answered(a)
<1> DEFINE before == <<Notice("owner", Named(rooms[user[p]]), q)>>
           news == <<>>
           after == <<>>
<1>1. Answer(a, before, news, after)
  BY DEF ServeOwner
<1>2. Fine(before, news, after)
  <2>1. rooms[user[p]] \in LooseRoom
    BY OwnsIdx DEF Base, ServeOwner, OwnerSyn
  <2>2. served \in Nat
    BY DEF Base, CountTypes
  <2>3. Named(rooms[user[p]]) \in SUBSET Someone
    BY <2>1, NamedAre
  <2>4. PICK x : x = Notice("owner", Named(rooms[user[p]]), q)
    OBVIOUS
  <2>5. x \in DownMessages /\ x.n = served
    BY <2>2, <2>3, <2>4, NoticeFits DEF Notices, Someone
  <2>7. OneOfKind(before)
    BY <2>4, <2>5, OneIsFine
  <2> HIDE DEF before
  <2> QED BY <2>7, NoNews, NoneOfKind, FineIs
<1> HIDE DEF before, news, after
<1>3. /\ down' = [b \in Agents |-> down[b] \o (IF b = a THEN before ELSE <<>>) \o Told(news, b)
                                           \o (IF b = a THEN after ELSE <<>>)]
      /\ due' = [u \in Players |-> due[u] \cup Owes(u, ToSet(before) \cup ToSet(after))]
      /\ served' = served + 1
  BY <1>1 DEF Answer, Owed, Owes, NamedIn, Told, Everybody
<1> QED BY <1>2, <1>3, Replied DEF Base

LEMMA KickAnswers ==
  ASSUME Base, NEW a \in Agents, NEW p \in Players, NEW q \in Players, ServeKick(a, p, q)
  PROVE  Answered(a)
<1> DEFINE before == <<Msg("kick", {q}), Notice("kicked", JoinAckLists(rooms'[user[p]]) \ {q}, q)>>
           news == UpdateInfoCurrentGuestCount(user[p])
           after == <<>>
<1>1. Answer(a, before, news, after)
  BY DEF ServeKick
<1>2. Fine(before, news, after)
  <2>1. user[p] \in RoomIdx /\ rooms'[user[p]] \in LooseRoom
    BY KickTypes DEF Base, ServeKick
  <2>2. served \in Nat
    BY DEF Base, CountTypes
  <2>3. Msg("kick", {q}) \in DownMessages /\ Msg("kick", {q}).n = served /\ Msg("kick", {q}).kind = "kick"
    BY <2>2, ToPlayer
  <2>4. JoinAckLists(rooms'[user[p]]) \ {q} \in SUBSET Someone
    BY <2>1, NamedAre
  <2>5. PICK x : x = Notice("kicked", JoinAckLists(rooms'[user[p]]) \ {q}, q)
    OBVIOUS
  <2>6. x \in DownMessages /\ x.n = served /\ x.kind = "kicked"
    BY <2>2, <2>4, <2>5, NoticeFits DEF Notices, Someone
  <2>7. NewsFine(news)
    BY <2>1, <2>2, SomeNews, LineType DEF UpdateInfoCurrentGuestCount, NewsKinds
  <2> HIDE DEF news
  <2>8. OneOfKind(before)
    BY <2>3, <2>5, <2>6, TwoAreFine
  <2> HIDE DEF before
  <2> QED BY <2>7, <2>8, NoneOfKind, FineIs
<1> HIDE DEF before, news, after
<1>3. /\ down' = [b \in Agents |-> down[b] \o (IF b = a THEN before ELSE <<>>) \o Told(news, b)
                                           \o (IF b = a THEN after ELSE <<>>)]
      /\ due' = [u \in Players |-> due[u] \cup Owes(u, ToSet(before) \cup ToSet(after))]
      /\ served' = served + 1
  BY <1>1 DEF Answer, Owed, Owes, NamedIn, Told, Everybody
<1> QED BY <1>2, <1>3, Replied DEF Base

LEMMA LastAnswers ==
  ASSUME Base, NEW a \in Agents, NEW p \in Players, NEW r \in RoomIdx, rooms[r].cur = 1, AnswerLeaving(a, p, r)
  PROVE  Answered(a)
<1> DEFINE before == <<>>
           news == UpdateInfoDeletedRoom(r)
           after == <<Msg("out_ack", {p})>>
<1>1. Answer(a, before, news, after)
  BY DEF AnswerLeaving
<1>2. Fine(before, news, after)
  <2>1. served \in Nat
    BY DEF Base, CountTypes
  <2>2. Msg("out_ack", {p}) \in DownMessages /\ Msg("out_ack", {p}).n = served
    BY <2>1, ToPlayer
  <2>3. NewsFine(news)
    BY <2>1, SomeNews DEF UpdateInfoDeletedRoom, NewsKinds
  <2> HIDE DEF news
  <2> QED BY <2>2, <2>3, OneIsFine, NoneOfKind, FineIs
<1> HIDE DEF before, news, after
<1>3. /\ down' = [b \in Agents |-> down[b] \o (IF b = a THEN before ELSE <<>>) \o Told(news, b)
                                           \o (IF b = a THEN after ELSE <<>>)]
      /\ due' = [u \in Players |-> due[u] \cup Owes(u, ToSet(before) \cup ToSet(after))]
      /\ served' = served + 1
  BY <1>1 DEF Answer, Owed, Owes, NamedIn, Told, Everybody
<1> QED BY <1>2, <1>3, Replied DEF Base

LEMMA StayAnswers ==
  ASSUME Base, NEW a \in Agents, NEW p \in Players, NEW r \in RoomIdx, rooms[r].cur # 1, rooms'[r] \in LooseRoom,
         AnswerLeaving(a, p, r)
  PROVE  Answered(a)
<1> DEFINE before == <<>>
           news == UpdateInfoCurrentGuestCount(r)
           after == <<Msg("out_ack", {p}), Notice("out", Named(rooms'[r]), p)>>
                \o IF rooms[r].owner = p THEN <<Notice("heir", Named(rooms'[r]), rooms'[r].owner)>>
                                         ELSE <<>>
<1>1. Answer(a, before, news, after)
  BY DEF AnswerLeaving
<1>2. Fine(before, news, after)
  <2>1. served \in Nat
    BY DEF Base, CountTypes
  <2>2. PICK m : m = Msg("out_ack", {p})
    OBVIOUS
  <2>3. m \in DownMessages /\ m.n = served /\ m.kind = "out_ack"
    BY <2>1, <2>2, ToPlayer
  <2>4. Named(rooms'[r]) \in SUBSET Someone /\ rooms'[r].owner \in Someone
    BY NamedAre, LooseFields
  <2>5. PICK x : x = Notice("out", Named(rooms'[r]), p)
    OBVIOUS
  <2>6. x \in DownMessages /\ x.n = served /\ x.kind = "out"
    BY <2>1, <2>4, <2>5, NoticeFits DEF Notices, Someone
  <2>7. PICK y : y = Notice("heir", Named(rooms'[r]), rooms'[r].owner)
    OBVIOUS
  <2>8. y \in DownMessages /\ y.n = served /\ y.kind = "heir"
    BY <2>1, <2>4, <2>7, NoticeFits DEF Notices
  <2>9. NewsFine(news)
    BY <2>1, SomeNews, LineType DEF UpdateInfoCurrentGuestCount, NewsKinds
  <2> HIDE DEF news
  <2>10. after = <<m, x>> \o IF rooms[r].owner = p THEN <<y>> ELSE <<>>
    BY <2>2, <2>5, <2>7
  <2> HIDE DEF after
  <2>11. OneOfKind(after)
    <3>1. CASE rooms[r].owner = p
      <4>1. after = <<m, x>> \o <<y>>
        BY <2>10, <3>1
      <4> QED BY <4>1, <2>3, <2>6, <2>8, ThreeAreFine
    <3>2. CASE rooms[r].owner # p
      <4>1. after = <<m, x>>
        BY <2>10, <3>2, <2>3, <2>6, KeptTwo
      <4> QED BY <4>1, <2>3, <2>6, TwoAreFine
    <3> QED BY <3>1, <3>2
  <2> QED BY <2>9, <2>11, NoneOfKind, FineIs
<1> HIDE DEF before, news, after
<1>3. /\ down' = [b \in Agents |-> down[b] \o (IF b = a THEN before ELSE <<>>) \o Told(news, b)
                                           \o (IF b = a THEN after ELSE <<>>)]
      /\ due' = [u \in Players |-> due[u] \cup Owes(u, ToSet(before) \cup ToSet(after))]
      /\ served' = served + 1
  BY <1>1 DEF Answer, Owed, Owes, NamedIn, Told, Everybody
<1> QED BY <1>2, <1>3, Replied DEF Base

(* Serving a request: its types, and that it is answered or not. *)
ServeMakes(a) ==
  /\ RoomTypes' /\ via' \in [Players -> Agents \cup {NoAgent}]
  /\ \A p \in Players : via'[p] # NoAgent <=> Registered(p)'
  /\ Answered(a) \/ Silent

LEMMA ViaKept ==
  ASSUME ClientTypes, via' = via, \A p \in Players : Registered(p)' <=> Registered(p)
  PROVE  /\ via' \in [Players -> Agents \cup {NoAgent}]
         /\ \A p \in Players : via'[p] # NoAgent <=> Registered(p)'
BY DEF ClientTypes

LEMMA ViaPut ==
  ASSUME ClientTypes, NEW p \in Players, NEW c \in Agents \cup {NoAgent}, via' = [via EXCEPT ![p] = c],
         c # NoAgent <=> Registered(p)',
         \A q \in Players \ {p} : user'[q] = user[q]
  PROVE  /\ via' \in [Players -> Agents \cup {NoAgent}]
         /\ \A q \in Players : via'[q] # NoAgent <=> Registered(q)'
<1>1. /\ via \in [Players -> Agents \cup {NoAgent}]
      /\ \A q \in Players : via[q] # NoAgent <=> Registered(q)
  BY DEF ClientTypes
<1>2. \A q \in Players \ {p} : Registered(q)' <=> Registered(q)
  BY DEF Registered
<1>3. via' \in [Players -> Agents \cup {NoAgent}] /\ via'[p] = c /\ \A q \in Players \ {p} : via'[q] = via[q]
  BY <1>1
<1>4. ASSUME NEW q \in Players PROVE via'[q] # NoAgent <=> Registered(q)'
  <2>1. CASE q = p
    BY <1>3, <2>1
  <2>2. CASE q # p
    BY <1>1, <1>2, <1>3, <2>2
  <2> QED BY <2>1, <2>2
<1> QED BY <1>3, <1>4

LEMMA LeavingAnswers ==
  ASSUME Base, NEW a \in Agents, NEW p \in Players, NEW r \in RoomIdx,
         rooms[r].cur # 1 => rooms'[r] \in LooseRoom, AnswerLeaving(a, p, r)
  PROVE  Answered(a)
BY LastAnswers, StayAnswers

LEMMA AddMakes ==
  ASSUME Base, NEW a \in Agents, NEW p \in Players, ServeAdd(a, p)
  PROVE  ServeMakes(a)
<1>1. CASE Registered(p)
  <2>1. UNCHANGED <<vars, via>> /\ Silent
    BY <1>1 DEF ServeAdd
  <2>2. RoomTypes'
    BY <2>1 DEF Base, RoomTypes, vars
  <2>3. \A q \in Players : Registered(q)' <=> Registered(q)
    BY <2>1 DEF vars, Registered
  <2> QED BY <2>1, <2>2, <2>3, ViaKept DEF ServeMakes, Base
<1>2. CASE ~Registered(p)
  <2>1. AddUserSyn(p) /\ via' = [via EXCEPT ![p] = a]
    BY <1>2 DEF ServeAdd
  <2>2. RoomTypes' /\ user'[p] = 0 /\ \A q \in Players \ {p} : user'[q] = user[q]
    BY <2>1, AddTypes DEF Base
  <2>3. Registered(p)' /\ a # NoAgent
    BY <2>2, ZeroIdx, RelayAssumption DEF Registered
  <2>4. Answered(a)
    BY <1>2, AddAnswers
  <2> QED BY <2>1, <2>2, <2>3, <2>4, ViaPut DEF ServeMakes, Base
<1> QED BY <1>1, <1>2

LEMMA ForceMakes ==
  ASSUME Base, NEW a \in Agents, NEW p \in Players, ServeForce(a, p)
  PROVE  ServeMakes(a)
<1>1. /\ LeaveAs(p, 0, IF InRoom(p) THEN Absent ELSE search[p])
      /\ via' = [via EXCEPT ![p] = a]
  BY DEF ServeForce, ForceAddUserSyn
<1>2. /\ RoomTypes' /\ user'[p] = 0
      /\ InRoom(p) => user[p] \in RoomIdx /\ (rooms[user[p]].cur # 1 => rooms'[user[p]] \in LooseRoom)
      /\ \A q \in Players \ {p} : user'[q] = user[q]
  BY <1>1, LeaveAsTypes DEF Base
<1>3. Registered(p)' /\ a # NoAgent
  BY <1>2, ZeroIdx, RelayAssumption DEF Registered
<1>4. Answered(a) \/ Silent
  <2>1. CASE InRoom(p)
    BY <1>2, <2>1, LeavingAnswers DEF ServeForce
  <2>2. CASE ~InRoom(p)
    BY <2>2 DEF ServeForce
  <2> QED BY <2>1, <2>2
<1> QED BY <1>1, <1>2, <1>3, <1>4, ViaPut DEF ServeMakes, Base

LEMMA DelMakes ==
  ASSUME Base, NEW a \in Agents, NEW p \in Players, ServeDel(a, p)
  PROVE  ServeMakes(a)
<1>1. CASE Registered(p)
  <2>1. LeaveAs(p, Absent, Absent) /\ via' = [via EXCEPT ![p] = NoAgent]
    BY <1>1 DEF ServeDel, DelUserSyn
  <2>2. /\ RoomTypes' /\ user'[p] = Absent
        /\ InRoom(p) => user[p] \in RoomIdx /\ (rooms[user[p]].cur # 1 => rooms'[user[p]] \in LooseRoom)
        /\ \A q \in Players \ {p} : user'[q] = user[q]
    BY <2>1, LeaveAsTypes DEF Base
  <2>3. ~Registered(p)'
    BY <2>2 DEF Registered
  <2>4. Answered(a) \/ Silent
    <3>1. CASE InRoom(p)
      BY <1>1, <2>2, <3>1, LeavingAnswers DEF ServeDel
    <3>2. CASE ~InRoom(p)
      BY <1>1, <3>2 DEF ServeDel
    <3> QED BY <3>1, <3>2
  <2> QED BY <2>1, <2>2, <2>3, <2>4, ViaPut DEF ServeMakes, Base
<1>2. CASE ~Registered(p)
  <2>1. UNCHANGED <<vars, via>> /\ Silent
    BY <1>2 DEF ServeDel
  <2>2. RoomTypes'
    BY <2>1 DEF Base, RoomTypes, vars
  <2>3. \A q \in Players : Registered(q)' <=> Registered(q)
    BY <2>1 DEF vars, Registered
  <2> QED BY <2>1, <2>2, <2>3, ViaKept DEF ServeMakes, Base
<1> QED BY <1>1, <1>2

LEMMA ListMakes ==
  ASSUME Base, NEW a \in Agents, NEW p \in Players, ServeList(a, p)
  PROVE  ServeMakes(a)
<1>1. UNCHANGED <<vars, via>>
  BY DEF ServeList
<1>2. RoomTypes'
  BY <1>1 DEF Base, RoomTypes, vars
<1>3. \A q \in Players : Registered(q)' <=> Registered(q)
  BY <1>1 DEF vars, Registered
<1> QED BY <1>1, <1>2, <1>3, ListAnswers, ViaKept DEF ServeMakes, Base

(* Who is registered does not change. *)
LEMMA SameRegistered ==
  ASSUME NEW p \in Players, Registered(p), Registered(p)', \A q \in Players \ {p} : user'[q] = user[q]
  PROVE  \A q \in Players : Registered(q)' <=> Registered(q)
BY DEF Registered

LEMMA IdxRegistered ==
  ASSUME NEW p \in Players, user'[p] \in RoomIdx
  PROVE  Registered(p)'
BY ZeroIdx DEF Registered

LEMMA GrantedMakes ==
  ASSUME Base, NEW a \in Agents, NEW m \in Requests, Granted(a, m)
  PROVE  /\ RoomTypes' /\ Answered(a)
         /\ \A q \in Players : Registered(q)' <=> Registered(q)
<1> DEFINE p == m.by
<1>1. /\ p \in Players /\ m.room \in RoomIdx
      /\ m.kind \in {"create", "option"} => m.cap \in Caps
      /\ m.kind \in {"owner", "kick"} => m.who \in Players
  BY RequestFields
<1>2. CASE m.kind = "create" /\ ServeCreate(a, p, m.cap)
  <2>1. PICK type \in Types : CreateRoomSyn(p, m.cap, type)
    BY <1>2 DEF ServeCreate
  <2>2. m.cap \in Caps
    BY <1>1, <1>2
  <2>3. RoomTypes' /\ user'[p] \in RoomIdx /\ Registered(p) /\ \A q \in Players \ {p} : user'[q] = user[q]
    BY <1>1, <2>1, <2>2, CreateTypes DEF Base
  <2>4. Answered(a)
    BY <1>1, <1>2, <2>2, CreateAnswers
  <2> HIDE DEF p
  <2> QED BY <1>1, <2>3, <2>4, SameRegistered, IdxRegistered
<1>3. CASE m.kind = "join" /\ ServeJoin(a, p, m.room)
  <2>1. JoinRoomSyn(p, m.room)
    BY <1>3 DEF ServeJoin
  <2>3. RoomTypes' /\ user'[p] \in RoomIdx /\ Registered(p) /\ \A q \in Players \ {p} : user'[q] = user[q]
    BY <1>1, <2>1, JoinTypes DEF Base
  <2>4. Answered(a)
    BY <1>1, <1>3, JoinAnswers
  <2> HIDE DEF p
  <2> QED BY <1>1, <2>3, <2>4, SameRegistered, IdxRegistered
<1>4. CASE m.kind = "out" /\ ServeOut(a, p)
  <2>1. OutRoomSyn(p) /\ AnswerLeaving(a, p, user[p])
    BY <1>4 DEF ServeOut
  <2>2. /\ RoomTypes' /\ user'[p] = 0 /\ Registered(p) /\ user[p] \in RoomIdx
        /\ rooms[user[p]].cur # 1 => rooms'[user[p]] \in LooseRoom
        /\ \A q \in Players \ {p} : user'[q] = user[q]
    BY <1>1, <2>1, OutTypes DEF Base
  <2>3. user'[p] \in RoomIdx
    BY <2>2, ZeroIdx
  <2>4. Answered(a)
    BY <1>1, <2>1, <2>2, LeavingAnswers
  <2> HIDE DEF p
  <2> QED BY <1>1, <2>2, <2>3, <2>4, SameRegistered, IdxRegistered
<1>5. CASE m.kind = "option" /\ ServeOption(a, p, m.cap)
  <2>1. OptionSyn(p, m.cap, rooms[user[p]].type)
    BY <1>5 DEF ServeOption
  <2>2. m.cap \in Caps
    BY <1>1, <1>5
  <2>3. RoomTypes' /\ user' = user
    BY <1>1, <2>1, <2>2, OptionTypes DEF Base
  <2>4. Answered(a)
    BY <1>1, <1>5, <2>2, OptionAnswers
  <2> QED BY <2>3, <2>4 DEF Registered
<1>6. CASE m.kind = "owner" /\ ServeOwner(a, p, m.who)
  <2>1. OwnerSyn(p, m.who)
    BY <1>6 DEF ServeOwner
  <2>2. m.who \in Players
    BY <1>1, <1>6
  <2>3. RoomTypes' /\ user' = user
    BY <1>1, <2>1, <2>2, OwnerTypes DEF Base
  <2>4. Answered(a)
    BY <1>1, <1>6, <2>2, OwnerAnswers
  <2> QED BY <2>3, <2>4 DEF Registered
<1>7. CASE m.kind = "kick" /\ ServeKick(a, p, m.who)
  <2>1. KickSyn(p, m.who)
    BY <1>7 DEF ServeKick
  <2>2. m.who \in Players
    BY <1>1, <1>7
  <2>3. /\ RoomTypes' /\ user'[m.who] = 0 /\ Registered(m.who)
        /\ \A b \in Players \ {m.who} : user'[b] = user[b]
    BY <1>1, <2>1, <2>2, KickTypes DEF Base
  <2>4. Answered(a)
    BY <1>1, <1>7, <2>2, KickAnswers
  <2>5. user'[m.who] \in RoomIdx
    BY <2>3, ZeroIdx
  <2> QED BY <2>2, <2>3, <2>4, <2>5, SameRegistered, IdxRegistered
<1> QED BY <1>2, <1>3, <1>4, <1>5, <1>6, <1>7 DEF Granted

LEMMA RefusedMakes ==
  ASSUME NEW a, NEW m, Refused(a, m)
  PROVE  UNCHANGED vars /\ Silent
BY DEF Refused

LEMMA ServedMakes ==
  ASSUME Base, NEW a \in Agents, Serve(a)
  PROVE  ServeMakes(a) /\ up' \in [Agents -> Seq(Requests)] /\ late' \in BOOLEAN
<1> DEFINE m == Head(up[a])
<1>1. /\ up[a] \in Seq(Requests) /\ up[a] # <<>> /\ up' = [up EXCEPT ![a] = Tail(@)]
      /\ up \in [Agents -> Seq(Requests)]
  BY DEF Base, WireTypes, Serve
<1>2. m \in Requests /\ Tail(up[a]) \in Seq(Requests)
  BY <1>1, TailOf
<1>3. up' \in [Agents -> Seq(Requests)]
  BY <1>1, <1>2
<1>4. late' \in BOOLEAN
  BY DEF Base, ClientTypes, Serve
<1>5. \/ ServeAdd(a, m.by) \/ ServeForce(a, m.by) \/ ServeDel(a, m.by) \/ ServeList(a, m.by)
      \/ (Granted(a, m) \/ Refused(a, m)) /\ via' = via
  BY DEF Serve
<1> HIDE DEF m
<1>6. m.by \in Players
  BY <1>2, RequestFields
<1>7. ASSUME Granted(a, m), via' = via PROVE ServeMakes(a)
  BY <1>2, <1>7, GrantedMakes, ViaKept DEF ServeMakes, Base
<1>8. ASSUME Refused(a, m), via' = via PROVE ServeMakes(a)
  <2>1. UNCHANGED vars /\ Silent
    BY <1>8, RefusedMakes
  <2>2. RoomTypes'
    BY <2>1 DEF Base, RoomTypes, vars
  <2>3. \A q \in Players : Registered(q)' <=> Registered(q)
    BY <2>1 DEF vars, Registered
  <2> QED BY <1>8, <2>1, <2>2, <2>3, ViaKept DEF ServeMakes, Base
<1> QED BY <1>3, <1>4, <1>5, <1>6, <1>7, <1>8, AddMakes, ForceMakes, DelMakes, ListMakes

-----------------------------------------------------------------------------
(* Types hold, whatever happens. *)

LEMMA SeenType ==
  ASSUME NEW p \in Players, NEW v \in Views, NEW m \in Messages
  PROVE  Seen(p, v, m) \in Views
<1>1. /\ m.about \in Someone /\ m.room \in RoomIdx /\ m.list \in SUBSET Players
      /\ m.kind = "join" => m.about \in Players
      /\ v.room \in RoomIdx /\ v.members \in SUBSET Players /\ v.owner \in Someone
      /\ v = [room |-> v.room, members |-> v.members, owner |-> v.owner]
      /\ NoView \in Views
  BY MsgFields, ZeroIdx DEF Views, NoView, Someone
<1>2. CASE m.kind \in {"create_ack", "join_ack"}
  BY <1>1, <1>2 DEF Seen, Views
<1>3. CASE m.kind \in {"out_ack", "kick"}
  BY <1>1, <1>3 DEF Seen, Views
<1>4. CASE m.kind = "join"
  <2>1. [v EXCEPT !.members = @ \cup {m.about}] \in Views
    BY <1>1, <1>4 DEF Views
  <2> QED BY <1>1, <1>4, <2>1 DEF Seen
<1>5. CASE m.kind \in {"out", "kicked"}
  <2>1. [v EXCEPT !.members = @ \ {m.about}] \in Views
    BY <1>1 DEF Views
  <2> QED BY <1>5, <2>1 DEF Seen
<1>6. CASE m.kind \in {"heir", "owner"}
  <2>1. [v EXCEPT !.owner = m.about] \in Views
    BY <1>1 DEF Views
  <2> QED BY <1>6, <2>1 DEF Seen
<1>7. CASE m.kind \notin {"create_ack", "join_ack", "out_ack", "kick", "join", "out", "kicked", "heir", "owner"}
  BY <1>7 DEF Seen
<1> QED BY <1>2, <1>3, <1>4, <1>5, <1>6, <1>7

LEMMA LinePut ==
  ASSUME NEW b \in LoosePage, NEW r \in RoomIdx, b[r] # NoRoom, NEW line \in LooseLine \cup {NoRoom},
         NEW f \in {"cur", "cap"}
  PROVE  /\ [b EXCEPT ![r][f] = line[f]] \in LoosePage
         /\ [b EXCEPT ![r][f] = line[f]] = [b EXCEPT ![r] = [b[r] EXCEPT ![f] = line[f]]]
<1>1. b[r] \in LooseLine
  BY DEF LoosePage
<1>2. [b[r] EXCEPT ![f] = line[f]] \in LooseLine
  <2>1. b[r] = [cur |-> b[r].cur, cap |-> b[r].cap] /\ b[r].cur \in (0..MaxGuests) \cup {NoRoom.cur}
        /\ b[r].cap \in Caps \cup {NoRoom.cap}
    BY <1>1 DEF LooseLine
  <2>2. /\ line.cur \in (0..MaxGuests) \cup {NoRoom.cur} /\ line.cap \in Caps \cup {NoRoom.cap}
    BY DEF LooseLine
  <2>3. CASE f = "cur"
    <3>1. [b[r] EXCEPT ![f] = line[f]] = [cur |-> line.cur, cap |-> b[r].cap]
      BY <2>1, <2>3
    <3> QED BY <2>1, <2>2, <3>1 DEF LooseLine
  <2>4. CASE f = "cap"
    <3>1. [b[r] EXCEPT ![f] = line[f]] = [cur |-> b[r].cur, cap |-> line.cap]
      BY <2>1, <2>4
    <3> QED BY <2>1, <2>2, <3>1 DEF LooseLine
  <2> QED BY <2>3, <2>4
<1>3. [b EXCEPT ![r][f] = line[f]] = [b EXCEPT ![r] = [b[r] EXCEPT ![f] = line[f]]]
  BY DEF LoosePage
<1> QED BY <1>2, <1>3 DEF LoosePage

LEMMA ListedType ==
  ASSUME NEW b \in LoosePage, NEW m \in Messages
  PROVE  Listed(b, m) \in LoosePage
<1> DEFINE r == m.room
<1>1. r \in RoomIdx /\ m.page \in LoosePage /\ m.page[r] \in LooseLine \cup {NoRoom}
  BY MsgFields DEF LoosePage
<1>2. CASE m.kind = "list_ack"
  BY <1>1, <1>2 DEF Listed
<1>3. CASE m.kind \in {"created", "deleted"}
  <2>1. [b EXCEPT ![r] = m.page[r]] \in LoosePage
    BY <1>1 DEF LoosePage
  <2> QED BY <1>3, <2>1 DEF Listed
<1>4. CASE m.kind = "count"
  <2>1. b[r] # NoRoom => [b EXCEPT ![r]["cur"] = m.page[r]["cur"]] \in LoosePage
    BY <1>1, LinePut
  <2>2. Listed(b, m) = IF b[r] = NoRoom THEN b ELSE [b EXCEPT ![r]["cur"] = m.page[r]["cur"]]
    BY <1>4 DEF Listed
  <2> QED BY <2>1, <2>2
<1>5. CASE m.kind = "size"
  <2>1. b[r] # NoRoom => [b EXCEPT ![r]["cap"] = m.page[r]["cap"]] \in LoosePage
    BY <1>1, LinePut
  <2>2. Listed(b, m) = IF b[r] = NoRoom THEN b ELSE [b EXCEPT ![r]["cap"] = m.page[r]["cap"]]
    BY <1>5 DEF Listed
  <2> QED BY <2>1, <2>2
<1>6. CASE m.kind \notin {"list_ack", "created", "deleted", "count", "size"}
  BY <1>6 DEF Listed
<1> QED BY <1>2, <1>3, <1>4, <1>5, <1>6

LEMMA IdType ==
  ASSUME NEW m \in Messages
  PROVE  /\ m.kind \in Tracked => Id(m) \in Nat \X Tracked
         /\ m.kind \notin Tracked => Id(m) \notin Nat \X Tracked
         /\ Id(m)[1] = m.n /\ Id(m)[2] = m.kind
BY MsgFields DEF Id

LEMMA DeliverTypes ==
  ASSUME Base, NEW ps, NEW m \in Messages, DeliverTo(ps, m)
  PROVE  /\ view' \in [Players -> Views] /\ board' \in [Players -> LoosePage]
         /\ heard' \in [Players -> SUBSET (Nat \X Tracked)] /\ echoed' \in [Players -> SUBSET (Nat \X Tracked)]
<1>1. /\ \A p \in Players : view[p] \in Views /\ board[p] \in LoosePage
      /\ \A p \in Players : heard[p] \in SUBSET (Nat \X Tracked) /\ echoed[p] \in SUBSET (Nat \X Tracked)
  BY DEF Base, ClientTypes, CountTypes
<1>2. ASSUME NEW p \in Players
      PROVE  /\ (IF p \in ps THEN Seen(p, view[p], m) ELSE view[p]) \in Views
             /\ (IF p \in ps THEN Listed(board[p], m) ELSE board[p]) \in LoosePage
  BY <1>1, SeenType, ListedType
<1>3. view' \in [Players -> Views]
  BY <1>2 DEF DeliverTo
<1>4. board' \in [Players -> LoosePage]
  BY <1>2 DEF DeliverTo
<1>5. heard' \in [Players -> SUBSET (Nat \X Tracked)]
  <2>1. ASSUME NEW p \in Players
        PROVE  heard[p] \cup (IF p \in ps /\ m.kind \in Tracked THEN {Id(m)} ELSE {}) \in SUBSET (Nat \X Tracked)
    BY <1>1, IdType
  <2> QED BY <2>1 DEF DeliverTo
<1>6. echoed' \in [Players -> SUBSET (Nat \X Tracked)]
  <2>1. ASSUME NEW p \in Players
        PROVE  echoed[p] \cup (IF p \in ps THEN heard[p] \cap {Id(m)} ELSE {}) \in SUBSET (Nat \X Tracked)
    BY <1>1
  <2> QED BY <2>1 DEF DeliverTo
<1> QED BY <1>3, <1>4, <1>5, <1>6

LEMMA SendsOne ==
  ASSUME WireTypes, NEW a \in Agents, NEW m \in Requests, up' = [up EXCEPT ![a] = Append(@, m)]
  PROVE  up' \in [Agents -> Seq(Requests)]
<1>1. Append(up[a], m) \in Seq(Requests)
  BY AppendOf DEF WireTypes
<1> QED BY <1>1 DEF WireTypes

LEMMA SendsMore ==
  ASSUME WireTypes, NEW a \in Agents, NEW t \in Seq(Requests), up' = [up EXCEPT ![a] = @ \o t]
  PROVE  up' \in [Agents -> Seq(Requests)]
<1>1. up[a] \o t \in Seq(Requests)
  BY ConcatOf DEF WireTypes
<1> QED BY <1>1 DEF WireTypes

LEMMA PlainRequest ==
  ASSUME NEW p \in Players, NEW k \in {"add", "force", "del", "list", "out"}
  PROVE  Req(k, p) \in Requests /\ Req(k, p).kind = k /\ Req(k, p).by = p
BY ZeroIdx DEF Req, Requests, Someone

LEMMA WishType ==
  ASSUME NEW p \in Players, view[p] \in Views, NEW m \in Wish(p)
  PROVE  m \in Requests /\ m.by = p /\ m.kind \notin {"add", "force", "del"}
<1>1. view[p].members \in SUBSET Players
  BY DEF Views
<1>2. \A k : Req(k, p) = [kind |-> k, by |-> p, who |-> NoPlayer, room |-> 0, cap |-> 0]
  BY DEF Req
<1>3. \/ \E n \in Caps : m = [Req("create", p) EXCEPT !.cap = n]
      \/ \E r \in RoomIdx : m = [Req("join", p) EXCEPT !.room = r]
      \/ m = Req("out", p)
      \/ \E n \in Caps : m = [Req("option", p) EXCEPT !.cap = n]
      \/ \E q \in view[p].members \ {p} : m = [Req("owner", p) EXCEPT !.who = q]
      \/ \E q \in view[p].members \ {p} : m = [Req("kick", p) EXCEPT !.who = q]
  BY DEF Wish
<1>4. ASSUME NEW n \in Caps, m = [Req("create", p) EXCEPT !.cap = n]
      PROVE  m \in Requests /\ m.by = p /\ m.kind \notin {"add", "force", "del"}
  <2>1. m = [kind |-> "create", by |-> p, who |-> NoPlayer, room |-> 0, cap |-> n]
    BY <1>2, <1>4
  <2> QED BY <2>1, ZeroIdx DEF Requests, Someone
<1>5. ASSUME NEW r \in RoomIdx, m = [Req("join", p) EXCEPT !.room = r]
      PROVE  m \in Requests /\ m.by = p /\ m.kind \notin {"add", "force", "del"}
  <2>1. m = [kind |-> "join", by |-> p, who |-> NoPlayer, room |-> r, cap |-> 0]
    BY <1>2, <1>5
  <2> QED BY <2>1, ZeroIdx DEF Requests, Someone
<1>6. ASSUME m = Req("out", p)
      PROVE  m \in Requests /\ m.by = p /\ m.kind \notin {"add", "force", "del"}
  BY <1>6, PlainRequest
<1>7. ASSUME NEW n \in Caps, m = [Req("option", p) EXCEPT !.cap = n]
      PROVE  m \in Requests /\ m.by = p /\ m.kind \notin {"add", "force", "del"}
  <2>1. m = [kind |-> "option", by |-> p, who |-> NoPlayer, room |-> 0, cap |-> n]
    BY <1>2, <1>7
  <2> QED BY <2>1, ZeroIdx DEF Requests, Someone
<1>8. ASSUME NEW k \in {"owner", "kick"}, NEW q \in view[p].members \ {p}, m = [Req(k, p) EXCEPT !.who = q]
      PROVE  m \in Requests /\ m.by = p /\ m.kind \notin {"add", "force", "del"}
  <2>1. m = [kind |-> k, by |-> p, who |-> q, room |-> 0, cap |-> 0]
    BY <1>2, <1>8
  <2> QED BY <1>1, <2>1, ZeroIdx DEF Requests, Someone
<1> QED BY <1>3, <1>4, <1>5, <1>6, <1>7, <1>8

LEMMA ToSeqOne ==
  ASSUME NEW S, NEW x \in S, NEW W, W = {} \/ W = {x}
  PROVE  /\ SetToSeq(W) \in Seq(S) /\ \A i \in DOMAIN SetToSeq(W) : SetToSeq(W)[i] = x
         /\ W # {} => 1 \in DOMAIN SetToSeq(W)
<1> DEFINE G(f) == f \in [1..Cardinality(W) -> W] /\ IsInjective(f)
<1>1. Cardinality(W) \in Nat /\ \E f : G(f)
  <2>1. CASE W = {}
    <3>1. Cardinality(W) = 0
      BY <2>1, FS_EmptySet
    <3>2. 1..0 = {}
      OBVIOUS
    <3> DEFINE f == [i \in 1..0 |-> x]
    <3>3. f \in [1..0 -> W] /\ IsInjective(f)
      BY <3>2 DEF IsInjective
    <3> HIDE DEF f
    <3>4. G(f)
      BY <3>1, <3>3
    <3>5. Cardinality(W) \in Nat
      BY <3>1
    <3> HIDE DEF G
    <3> QED BY <3>4, <3>5
  <2>2. CASE W = {x}
    <3>1. Cardinality(W) = 1
      BY <2>2, FS_Singleton
    <3>2. 1..1 = {1}
      OBVIOUS
    <3> DEFINE f == [i \in 1..1 |-> x]
    <3>3. f \in [1..1 -> W] /\ IsInjective(f)
      BY <2>2, <3>2 DEF IsInjective
    <3> QED BY <3>1, <3>3
  <2> QED BY <2>1, <2>2
<1>2. SetToSeq(W) = CHOOSE f : G(f)
  BY DEF SetToSeq
<1>3. G(SetToSeq(W))
  BY <1>1, <1>2
<1> HIDE DEF G
<1>4. SetToSeq(W) \in [1..Cardinality(W) -> W]
  BY <1>3 DEF G
<1>5. W \subseteq S /\ \A y \in W : y = x
  OBVIOUS
<1>6. SetToSeq(W) \in [1..Cardinality(W) -> S]
  BY <1>4, <1>5
<1>7. \A i \in DOMAIN SetToSeq(W) : SetToSeq(W)[i] = x
  BY <1>4, <1>5
<1>8. ASSUME W # {} PROVE 1 \in DOMAIN SetToSeq(W)
  <2>1. Cardinality(W) = 1
    BY <1>8, FS_Singleton
  <2>2. DOMAIN SetToSeq(W) = 1..1
    BY <1>4, <2>1
  <2> QED BY <2>2
<1> QED BY <1>1, <1>6, <1>7, <1>8

LEMMA EmptyToSeq ==
  ASSUME NEW W, W = {}
  PROVE  SetToSeq(W) = <<>>
<1>1. SetToSeq(W) \in Seq({1})
  BY ToSeqOne
<1>2. Cardinality(W) = 0 /\ 1..0 = {}
  BY FS_EmptySet
<1> DEFINE G(f) == f \in [1..Cardinality(W) -> W] /\ IsInjective(f)
           z == [i \in 1..0 |-> 1]
<1>3. z \in [1..0 -> W] /\ IsInjective(z)
  BY <1>2 DEF IsInjective
<1> HIDE DEF z
<1>4. G(z)
  BY <1>2, <1>3
<1>5. SetToSeq(W) = CHOOSE f : G(f)
  BY DEF SetToSeq
<1>6. G(SetToSeq(W))
  BY <1>4, <1>5
<1>7. DOMAIN SetToSeq(W) = {}
  BY <1>2, <1>6
<1> QED BY <1>1, <1>7

LEMMA TailIn ==
  ASSUME NEW S, NEW q \in Seq(S), q # <<>>, NEW i \in DOMAIN Tail(q)
  PROVE  i + 1 \in DOMAIN q /\ i + 1 # 1 /\ Tail(q)[i] = q[i + 1] /\ i \in Nat
<1>1. /\ Len(q) \in Nat /\ DOMAIN q = 1..Len(q) /\ DOMAIN Tail(q) = 1..(Len(q) - 1)
      /\ \A k \in 1..(Len(q) - 1) : Tail(q)[k] = q[k + 1]
  BY TailOf
<1> QED BY <1>1

LEMMA TailHas ==
  ASSUME NEW S, NEW q \in Seq(S), q # <<>>, NEW i \in DOMAIN q, i # 1
  PROVE  i - 1 \in DOMAIN Tail(q) /\ Tail(q)[i - 1] = q[i]
<1>1. /\ Len(q) \in Nat /\ DOMAIN q = 1..Len(q) /\ DOMAIN Tail(q) = 1..(Len(q) - 1)
      /\ \A k \in 1..(Len(q) - 1) : Tail(q)[k] = q[k + 1]
  BY TailOf
<1>2. i - 1 \in 1..(Len(q) - 1) /\ (i - 1) + 1 = i
  BY <1>1
<1> QED BY <1>1, <1>2

LEMMA HeadIn ==
  ASSUME NEW S, NEW q \in Seq(S), q # <<>>
  PROVE  1 \in DOMAIN q /\ q[1] = Head(q) /\ Head(q) \in S /\ Tail(q) \in Seq(S)
<1>1. /\ Tail(q) \in Seq(S) /\ Len(q) \in Nat /\ Len(q) > 0 /\ DOMAIN q = 1..Len(q)
      /\ Head(q) = q[1] /\ Head(q) \in S
  BY TailOf
<1> QED BY <1>1

LEMMA InSeq ==
  ASSUME NEW S, NEW q \in Seq(S), NEW i \in DOMAIN q
  PROVE  q[i] \in S /\ i \in Nat
OBVIOUS

(* The three links move by one message or by an answer; what is in a queue *)
(* of down after the head of that of a has been taken.                     *)
LEMMA DownTaken ==
  ASSUME WireTypes, NEW a \in Agents, down[a] # <<>>, down' = [down EXCEPT ![a] = Tail(@)]
  PROVE  /\ down' \in [Agents -> Seq(DownMessages)]
         /\ 1 \in DOMAIN down[a] /\ down[a][1] = Head(down[a]) /\ Head(down[a]) \in DownMessages
         /\ \A b \in Agents : \A i \in DOMAIN down'[b] :
              LET k == IF b = a THEN i + 1 ELSE i IN
              k \in DOMAIN down[b] /\ down'[b][i] = down[b][k] /\ (b = a => k # 1) /\ i \in Nat
         /\ \A b \in Agents : \A i \in DOMAIN down[b] :
              (b # a \/ i # 1) => \E k \in DOMAIN down'[b] : down'[b][k] = down[b][i]
<1>1. /\ down \in [Agents -> Seq(DownMessages)] /\ down[a] \in Seq(DownMessages)
      /\ down'[a] = Tail(down[a]) /\ \A b \in Agents \ {a} : down'[b] = down[b]
  BY DEF WireTypes
<1>2. 1 \in DOMAIN down[a] /\ down[a][1] = Head(down[a]) /\ Head(down[a]) \in DownMessages
      /\ Tail(down[a]) \in Seq(DownMessages)
  BY <1>1, HeadIn
<1>3. down' \in [Agents -> Seq(DownMessages)]
  BY <1>1, <1>2
<1>4. ASSUME NEW b \in Agents, NEW i \in DOMAIN down'[b]
      PROVE  LET k == IF b = a THEN i + 1 ELSE i IN
             k \in DOMAIN down[b] /\ down'[b][i] = down[b][k] /\ (b = a => k # 1) /\ i \in Nat
  <2>1. CASE b = a
    <3>1. i + 1 \in DOMAIN down[a] /\ i + 1 # 1 /\ Tail(down[a])[i] = down[a][i + 1] /\ i \in Nat
      BY <1>1, <2>1, TailIn
    <3> QED BY <1>1, <2>1, <3>1
  <2>2. CASE b # a
    <3>1. down'[b] = down[b] /\ down[b] \in Seq(DownMessages)
      BY <1>1, <2>2
    <3>2. i \in Nat
      BY <3>1, InSeq
    <3> QED BY <2>2, <3>1, <3>2
  <2> QED BY <2>1, <2>2
<1>5. ASSUME NEW b \in Agents, NEW i \in DOMAIN down[b], b # a \/ i # 1
      PROVE  \E k \in DOMAIN down'[b] : down'[b][k] = down[b][i]
  <2>1. CASE b = a
    <3>1. i - 1 \in DOMAIN Tail(down[a]) /\ Tail(down[a])[i - 1] = down[a][i]
      BY <1>1, <1>5, <2>1, TailHas
    <3> QED BY <1>1, <2>1, <3>1
  <2>2. CASE b # a
    BY <1>1, <2>2
  <2> QED BY <2>1, <2>2
<1> QED BY <1>2, <1>3, <1>4, <1>5

LEMMA SideTaken ==
  ASSUME WireTypes, NEW ba \in Agents \X Agents, side[ba] # <<>>, side' = [side EXCEPT ![ba] = Tail(@)]
  PROVE  /\ side' \in [Agents \X Agents -> Seq(SideMessages)]
         /\ 1 \in DOMAIN side[ba] /\ side[ba][1] = Head(side[ba]) /\ Head(side[ba]) \in SideMessages
         /\ \A cd \in Agents \X Agents : \A i \in DOMAIN side'[cd] :
              LET k == IF cd = ba THEN i + 1 ELSE i IN
              k \in DOMAIN side[cd] /\ side'[cd][i] = side[cd][k] /\ (cd = ba => k # 1) /\ i \in Nat
         /\ \A cd \in Agents \X Agents : \A i \in DOMAIN side[cd] :
              (cd # ba \/ i # 1) => \E k \in DOMAIN side'[cd] : side'[cd][k] = side[cd][i]
<1> DEFINE AA == Agents \X Agents
<1>1. /\ side \in [AA -> Seq(SideMessages)] /\ side[ba] \in Seq(SideMessages) /\ ba \in AA
      /\ side' = [side EXCEPT ![ba] = Tail(@)]
  BY DEF WireTypes
<1> HIDE DEF AA
<1>0. side'[ba] = Tail(side[ba]) /\ \A cd \in AA \ {ba} : side'[cd] = side[cd]
  BY <1>1
<1>2. 1 \in DOMAIN side[ba] /\ side[ba][1] = Head(side[ba]) /\ Head(side[ba]) \in SideMessages
      /\ Tail(side[ba]) \in Seq(SideMessages)
  BY <1>1, HeadIn
<1>3. side' \in [AA -> Seq(SideMessages)]
  BY <1>1, <1>2
<1>4. ASSUME NEW b \in AA, NEW i \in DOMAIN side'[b]
      PROVE  LET k == IF b = ba THEN i + 1 ELSE i IN
             k \in DOMAIN side[b] /\ side'[b][i] = side[b][k] /\ (b = ba => k # 1) /\ i \in Nat
  <2>1. CASE b = ba
    <3>1. i + 1 \in DOMAIN side[ba] /\ i + 1 # 1 /\ Tail(side[ba])[i] = side[ba][i + 1] /\ i \in Nat
      BY <1>0, <1>1, <2>1, TailIn
    <3> QED BY <1>0, <2>1, <3>1
  <2>2. CASE b # ba
    <3>1. side'[b] = side[b] /\ side[b] \in Seq(SideMessages)
      BY <1>0, <1>1, <2>2
    <3>2. i \in Nat
      BY <3>1, InSeq
    <3> QED BY <2>2, <3>1, <3>2
  <2> QED BY <2>1, <2>2
<1>5. ASSUME NEW b \in AA, NEW i \in DOMAIN side[b], b # ba \/ i # 1
      PROVE  \E k \in DOMAIN side'[b] : side'[b][k] = side[b][i]
  <2>1. CASE b = ba
    <3>1. i - 1 \in DOMAIN Tail(side[ba]) /\ Tail(side[ba])[i - 1] = side[ba][i]
      BY <1>1, <1>5, <2>1, TailHas
    <3> QED BY <1>0, <2>1, <3>1
  <2>2. CASE b # ba
    BY <1>0, <2>2
  <2> QED BY <2>1, <2>2
<1> QED BY <1>2, <1>3, <1>4, <1>5 DEF AA

LEMMA SidePassed ==
  ASSUME WireTypes, NEW a \in Agents, NEW m \in SideMessages, PassedOn(a, m)
  PROVE  /\ side' \in [Agents \X Agents -> Seq(SideMessages)]
         /\ \A cd \in Agents \X Agents : \A i \in DOMAIN side'[cd] :
              \/ i \in DOMAIN side[cd] /\ side'[cd][i] = side[cd][i]
              \/ cd[1] = a /\ cd[2] # a /\ i = Len(side[cd]) + 1 /\ side'[cd][i] = m
         /\ \A cd \in Agents \X Agents : \A i \in DOMAIN side[cd] :
              i \in DOMAIN side'[cd] /\ side'[cd][i] = side[cd][i]
         /\ \A b \in Agents \ {a} : \E i \in DOMAIN side'[<<a, b>>] : side'[<<a, b>>][i] = m
<1> DEFINE AA == Agents \X Agents
<1>1. side \in [AA -> Seq(SideMessages)]
  BY DEF WireTypes
<1>2. side' = [ab \in AA |-> IF ab[1] = a /\ ab[2] # a THEN Append(side[ab], m) ELSE side[ab]]
  BY DEF PassedOn
<1>3. \A b \in Agents \ {a} : <<a, b>> \in AA /\ <<a, b>>[1] = a /\ <<a, b>>[2] = b
  OBVIOUS
<1> HIDE DEF AA
<1>4. ASSUME NEW cd \in AA, cd[1] = a, cd[2] # a
      PROVE  /\ side'[cd] \in Seq(SideMessages) /\ Len(side[cd]) + 1 \in DOMAIN side'[cd]
             /\ side'[cd][Len(side[cd]) + 1] = m
             /\ \A i \in DOMAIN side'[cd] :
                  \/ i \in DOMAIN side[cd] /\ side'[cd][i] = side[cd][i]
                  \/ i = Len(side[cd]) + 1 /\ side'[cd][i] = m
             /\ \A i \in DOMAIN side[cd] : i \in DOMAIN side'[cd] /\ side'[cd][i] = side[cd][i]
  <2>1. side'[cd] = Append(side[cd], m) /\ side[cd] \in Seq(SideMessages)
    BY <1>1, <1>2, <1>4
  <2>2. /\ Append(side[cd], m) \in Seq(SideMessages) /\ Len(side[cd]) \in Nat
        /\ DOMAIN side[cd] = 1..Len(side[cd]) /\ DOMAIN Append(side[cd], m) = 1..(Len(side[cd]) + 1)
        /\ \A i \in 1..Len(side[cd]) : Append(side[cd], m)[i] = side[cd][i]
        /\ Append(side[cd], m)[Len(side[cd]) + 1] = m
    BY <2>1, AppendOf
  <2> QED BY <2>1, <2>2
<1>5. ASSUME NEW cd \in AA, ~(cd[1] = a /\ cd[2] # a)
      PROVE  side'[cd] = side[cd] /\ side'[cd] \in Seq(SideMessages)
  BY <1>1, <1>2, <1>5
<1>6. side' \in [AA -> Seq(SideMessages)]
  <2>1. \A cd \in AA : side'[cd] \in Seq(SideMessages)
    BY <1>4, <1>5
  <2> QED BY <1>2, <2>1
<1>7. \A cd \in AA : \A i \in DOMAIN side'[cd] :
              \/ i \in DOMAIN side[cd] /\ side'[cd][i] = side[cd][i]
              \/ cd[1] = a /\ cd[2] # a /\ i = Len(side[cd]) + 1 /\ side'[cd][i] = m
  BY <1>4, <1>5
<1>8. \A cd \in AA : \A i \in DOMAIN side[cd] : i \in DOMAIN side'[cd] /\ side'[cd][i] = side[cd][i]
  BY <1>4, <1>5
<1>9. \A b \in Agents \ {a} : \E i \in DOMAIN side'[<<a, b>>] : side'[<<a, b>>][i] = m
  BY <1>3, <1>4
<1> QED BY <1>6, <1>7, <1>8, <1>9 DEF AA

-----------------------------------------------------------------------------
(* A notice is delivered once: where its copies are.                       *)

NumbersFresh ==
  /\ \A a \in Agents : \A i \in DOMAIN down[a] : down[a][i].n < served
  /\ \A ab \in Agents \X Agents : \A i \in DOMAIN side[ab] : side[ab][i].n < served
  /\ \A p \in Players : \A id \in heard[p] : id[1] < served

DownOnce ==
  \A a, b \in Agents : \A i \in DOMAIN down[a], j \in DOMAIN down[b] :
    down[a][i].kind \in Tracked /\ Id(down[a][i]) = Id(down[b][j]) => a = b /\ i = j

DownNotSide ==
  \A a \in Agents, cd \in Agents \X Agents : \A i \in DOMAIN down[a], j \in DOMAIN side[cd] :
    Id(down[a][i]) # Id(side[cd][j])

DownNotHeard ==
  \A a \in Agents, p \in Players : \A i \in DOMAIN down[a] : Id(down[a][i]) \notin heard[p]

SideOnce ==
  \A ab, cd \in Agents \X Agents : \A i \in DOMAIN side[ab], j \in DOMAIN side[cd] :
    ab[2] = cd[2] /\ Id(side[ab][i]) = Id(side[cd][j]) => ab = cd /\ i = j

SideNotHeard ==
  \A cd \in Agents \X Agents, p \in Players : \A i \in DOMAIN side[cd] :
    at[p] = cd[2] => Id(side[cd][i]) \notin heard[p]

NowhereNothing == \A p \in Players : at[p] = NoAgent => heard[p] = {} /\ due[p] = {}

(* What p has been named in and not been sent is under way to it. *)
OnTheWay ==
  \A p \in Players : \A id \in due[p] \ heard[p] :
    \/ \E a \in Agents : \E i \in DOMAIN down[a] : Id(down[a][i]) = id /\ p \in down[a][i].to
    \/ \E a \in Agents : \E i \in DOMAIN side[<<a, at[p]>>] :
         Id(side[<<a, at[p]>>][i]) = id /\ p \in side[<<a, at[p]>>][i].to

NoticeInv ==
  /\ NumbersFresh /\ DownOnce /\ DownNotSide /\ DownNotHeard /\ SideOnce /\ SideNotHeard
  /\ NowhereNothing /\ OnTheWay /\ HeardOnce

LEMMA NoticeInit == ASSUME RelayInit PROVE NoticeInv
<1>1. /\ at = home /\ home \in [Players -> Agents]
      /\ \A a \in Agents : down[a] = <<>> /\ DOMAIN down[a] = {}
      /\ \A cd \in Agents \X Agents : side[cd] = <<>> /\ DOMAIN side[cd] = {}
      /\ \A p \in Players : due[p] = {} /\ heard[p] = {} /\ echoed[p] = {}
  BY DEF RelayInit
<1>2. \A p \in Players : at[p] # NoAgent
  BY <1>1, RelayAssumption
<1> QED BY <1>1, <1>2
    DEF NoticeInv, NumbersFresh, DownOnce, DownNotSide, DownNotHeard, SideOnce, SideNotHeard, NowhereNothing,
        OnTheWay, HeardOnce

LEMMA NoticeSame ==
  ASSUME NoticeInv, UNCHANGED <<down, side, served, due, heard, echoed>>,
         \A p \in Players : at'[p] = at[p] \/ (heard[p] = {} /\ due[p] = {})
  PROVE  NoticeInv'
<1>1. NumbersFresh' /\ DownOnce' /\ DownNotSide' /\ DownNotHeard' /\ SideOnce' /\ HeardOnce'
  BY DEF NoticeInv, NumbersFresh, DownOnce, DownNotSide, DownNotHeard, SideOnce, HeardOnce
<1>2. SideNotHeard'
  BY DEF NoticeInv, SideNotHeard
<1>3. NowhereNothing'
  BY DEF NoticeInv, NowhereNothing
<1>4. OnTheWay'
  <2> SUFFICES ASSUME NEW p \in Players, NEW id \in due[p] \ heard[p]
               PROVE  \/ \E a \in Agents : \E i \in DOMAIN down[a] : Id(down[a][i]) = id /\ p \in down[a][i].to
                      \/ \E a \in Agents : \E i \in DOMAIN side[<<a, at'[p]>>] :
                           Id(side[<<a, at'[p]>>][i]) = id /\ p \in side[<<a, at'[p]>>][i].to
    BY DEF OnTheWay
  <2>1. at'[p] = at[p]
    OBVIOUS
  <2> QED BY <2>1 DEF NoticeInv, OnTheWay
<1> QED BY <1>1, <1>2, <1>3, <1>4 DEF NoticeInv

(* An answer of the server: its number is new. *)
LEMMA NoticeAnswered ==
  ASSUME Base, NoticeInv, NEW a \in Agents, Answered(a), UNCHANGED <<side, heard, echoed, at>>
  PROVE  NoticeInv'
<1>1. PICK ms \in SUBSET DownMessages :
        Gives(down, down', a, ms, served) /\ due' = [p \in Players |-> due[p] \cup Owes(p, ms)]
  BY DEF Answered
<1>2. /\ served' = served + 1 /\ served \in Nat
      /\ \A b \in Agents : down[b] \in Seq(DownMessages)
  BY DEF Answered, Base, CountTypes, WireTypes
<1>3. \A b \in Agents : \A i \in DOMAIN down[b] : down[b][i] \in Messages /\ down[b][i].n \in Nat /\ down[b][i].n < served
  <2> SUFFICES ASSUME NEW b \in Agents, NEW i \in DOMAIN down[b]
               PROVE  down[b][i] \in Messages /\ down[b][i].n \in Nat /\ down[b][i].n < served
    OBVIOUS
  <2>1. down[b][i] \in DownMessages
    BY <1>2, InSeq
  <2>2. down[b][i] \in Messages
    BY <2>1 DEF DownMessages
  <2> QED BY <2>2, MsgFields DEF NoticeInv, NumbersFresh
(* Where a message is new, and where it was. *)
<1>4. ASSUME NEW b \in Agents, NEW i \in DOMAIN down'[b]
      PROVE  \/ i \in DOMAIN down[b] /\ down'[b][i] = down[b][i] /\ down'[b][i].n < served
             \/ down'[b][i].n = served /\ (down'[b][i].kind \in Tracked => b = a)
  <2>1. PICK t \in Seq(DownMessages) :
          /\ down'[b] = down[b] \o t
          /\ \A k \in DOMAIN t : t[k].n = served /\ (t[k].kind \in Tracked => b = a /\ t[k] \in ms)
    BY <1>1 DEF Gives
  <2>2. i \in DOMAIN (down[b] \o t)
    BY <2>1
  <2>3. \/ i \in DOMAIN down[b] /\ down'[b][i] = down[b][i]
        \/ \E j \in DOMAIN t : down'[b][i] = t[j]
    BY <1>2, <2>1, <2>2, ConcatHas
  <2> QED BY <1>3, <2>1, <2>3
<1>5. ASSUME NEW i \in DOMAIN down'[a], NEW j \in DOMAIN down'[a], down'[a][i].n = served, down'[a][j].n = served,
             down'[a][i].kind \in Tracked, down'[a][i].kind = down'[a][j].kind
      PROVE  i = j
  <2>1. PICK t \in Seq(DownMessages) :
          /\ down'[a] = down[a] \o t
          /\ \A k, l \in DOMAIN t : t[k].kind \in Tracked /\ t[k].kind = t[l].kind => k = l
    BY <1>1 DEF Gives
  <2>2. i \in DOMAIN (down[a] \o t) /\ j \in DOMAIN (down[a] \o t)
    BY <2>1
  <2>3. \A k \in DOMAIN down[a] : down[a][k].n # served
    BY <1>2, <1>3
  <2>4. PICK k \in DOMAIN t : i = Len(down[a]) + k /\ down'[a][i] = t[k]
    <3>1. \/ i \in DOMAIN down[a] /\ (down[a] \o t)[i] = down[a][i]
          \/ \E k \in DOMAIN t : i = Len(down[a]) + k /\ (down[a] \o t)[i] = t[k]
      BY <1>2, <2>2, ConcatHas
    <3> QED BY <1>5, <2>1, <2>3, <3>1
  <2>5. PICK l \in DOMAIN t : j = Len(down[a]) + l /\ down'[a][j] = t[l]
    <3>1. \/ j \in DOMAIN down[a] /\ (down[a] \o t)[j] = down[a][j]
          \/ \E l \in DOMAIN t : j = Len(down[a]) + l /\ (down[a] \o t)[j] = t[l]
      BY <1>2, <2>2, ConcatHas
    <3> QED BY <1>5, <2>1, <2>3, <3>1
  <2>6. k = l
    BY <1>5, <2>1, <2>4, <2>5
  <2> QED BY <2>4, <2>5, <2>6
<1>6. ASSUME NEW b \in Agents, NEW i \in DOMAIN down[b]
      PROVE  i \in DOMAIN down'[b] /\ down'[b][i] = down[b][i]
  <2>1. PICK t \in Seq(DownMessages) : down'[b] = down[b] \o t
    BY <1>1 DEF Gives
  <2>2. \A k \in DOMAIN down[b] : k \in DOMAIN (down[b] \o t) /\ (down[b] \o t)[k] = down[b][k]
    BY <1>2, ConcatCovers
  <2> QED BY <2>1, <2>2
<1>7. \A m \in ms : \E i \in DOMAIN down'[a] : down'[a][i] = m
  <2> SUFFICES ASSUME NEW m \in ms PROVE \E i \in DOMAIN down'[a] : down'[a][i] = m
    OBVIOUS
  <2>1. PICK t \in Seq(DownMessages) : down'[a] = down[a] \o t /\ \E i \in DOMAIN t : t[i] = m
    BY <1>1 DEF Gives
  <2>2. PICK k \in DOMAIN t : t[k] = m
    BY <2>1
  <2>3. PICK u \in Seq(DownMessages) : u = down[a]
    BY <1>2
  <2>4. Len(u) + k \in DOMAIN (u \o t) /\ (u \o t)[Len(u) + k] = t[k]
    <3>1. /\ Len(u) \in Nat /\ Len(t) \in Nat /\ DOMAIN t = 1..Len(t)
          /\ DOMAIN (u \o t) = 1..(Len(u) + Len(t))
          /\ \A i \in 1..Len(t) : (u \o t)[Len(u) + i] = t[i]
      BY ConcatOf
    <3> QED BY <3>1
  <2> QED BY <2>1, <2>2, <2>3, <2>4
<1>i. \A x, y : Id(x) = Id(y) => x.n = y.n /\ x.kind = y.kind
  BY DEF Id
<1>8. NumbersFresh'
  <2>1. ASSUME NEW b \in Agents, NEW i \in DOMAIN down'[b] PROVE down'[b][i].n < served'
    <3>1. CASE down'[b][i].n = served
      BY <1>2, <3>1
    <3>2. CASE i \in DOMAIN down[b] /\ down'[b][i] = down[b][i]
      BY <1>2, <1>3, <3>2
    <3> QED BY <1>4, <3>1, <3>2
  <2>2. ASSUME NEW cd \in Agents \X Agents, NEW i \in DOMAIN side[cd] PROVE side[cd][i].n < served'
    <3>1. side[cd][i] \in Messages
      <4>1. side[cd] \in Seq(SideMessages)
        BY DEF Base, WireTypes
      <4>2. side[cd][i] \in SideMessages
        BY <4>1, InSeq
      <4> QED BY <4>2 DEF SideMessages
    <3>2. side[cd][i].n \in Nat
      BY <3>1, MsgFields
    <3>3. side[cd][i].n < served
      BY DEF NoticeInv, NumbersFresh
    <3> QED BY <1>2, <3>2, <3>3
  <2>3. ASSUME NEW p \in Players, NEW id \in heard[p] PROVE id[1] < served'
    <3>1. id \in Nat \X Tracked
      BY DEF Base, CountTypes
    <3>2. id[1] \in Nat /\ id[1] < served
      BY <3>1 DEF NoticeInv, NumbersFresh
    <3> QED BY <1>2, <3>2
  <2> QED BY <2>1, <2>2, <2>3 DEF NumbersFresh
<1>9. DownOnce'
  <2> SUFFICES ASSUME NEW b \in Agents, NEW c \in Agents, NEW i \in DOMAIN down'[b], NEW j \in DOMAIN down'[c],
                      down'[b][i].kind \in Tracked, Id(down'[b][i]) = Id(down'[c][j])
               PROVE  b = c /\ i = j
    BY DEF DownOnce
  <2>1. down'[b][i].n = down'[c][j].n /\ down'[b][i].kind = down'[c][j].kind
    BY <1>i
  <2>2. CASE down'[b][i].n = served
    <3>0. ~(served < served) /\ down'[c][j].n = served /\ down'[c][j].kind \in Tracked
      BY <1>2, <2>1, <2>2
    <3>b. b = a
      BY <1>4, <2>2, <3>0
    <3>c. c = a
      BY <1>4, <3>0
    <3>1. b = a /\ c = a
      BY <3>b, <3>c
    <3> QED BY <1>5, <2>1, <2>2, <3>1
  <2>3. CASE down'[b][i].n # served
    <3>1. /\ i \in DOMAIN down[b] /\ down'[b][i] = down[b][i]
          /\ j \in DOMAIN down[c] /\ down'[c][j] = down[c][j]
      BY <1>4, <2>1, <2>3
    <3> QED BY <3>1 DEF NoticeInv, DownOnce
  <2> QED BY <2>2, <2>3
<1>10. DownNotSide'
  <2> SUFFICES ASSUME NEW b \in Agents, NEW cd \in Agents \X Agents, NEW i \in DOMAIN down'[b], NEW j \in DOMAIN side[cd]
               PROVE  Id(down'[b][i]) # Id(side[cd][j])
    BY DEF DownNotSide
  <2>1. CASE i \in DOMAIN down[b] /\ down'[b][i] = down[b][i]
    BY <2>1 DEF NoticeInv, DownNotSide
  <2>2. CASE down'[b][i].n = served
    <3>1. side[cd][j].n < served
      BY DEF NoticeInv, NumbersFresh
    <3>2. side[cd][j].n # served
      BY <1>2, <3>1
    <3> QED BY <1>i, <2>2, <3>2
  <2> QED BY <1>4, <2>1, <2>2
<1>11. DownNotHeard'
  <2> SUFFICES ASSUME NEW b \in Agents, NEW p \in Players, NEW i \in DOMAIN down'[b], Id(down'[b][i]) \in heard[p]
               PROVE  FALSE
    BY DEF DownNotHeard
  <2>1. CASE i \in DOMAIN down[b] /\ down'[b][i] = down[b][i]
    BY <2>1 DEF NoticeInv, DownNotHeard
  <2>2. CASE down'[b][i].n = served
    <3>1. Id(down'[b][i])[1] = served
      BY <2>2 DEF Id
    <3>2. Id(down'[b][i])[1] < served
      BY DEF NoticeInv, NumbersFresh
    <3> QED BY <1>2, <3>1, <3>2
  <2> QED BY <1>4, <2>1, <2>2
<1>12. SideOnce' /\ SideNotHeard' /\ HeardOnce'
  BY DEF NoticeInv, SideOnce, SideNotHeard, HeardOnce
<1>13. NowhereNothing'
  <2>1. \A p \in Players : at[p] = NoAgent => Owes(p, ms) = {}
    BY DEF Owes
  <2> QED BY <1>1, <2>1 DEF NoticeInv, NowhereNothing
<1>14. OnTheWay'
  <2> SUFFICES ASSUME NEW p \in Players, NEW id \in due'[p] \ heard[p]
               PROVE  \/ \E b \in Agents : \E i \in DOMAIN down'[b] : Id(down'[b][i]) = id /\ p \in down'[b][i].to
                      \/ \E b \in Agents : \E i \in DOMAIN side[<<b, at[p]>>] :
                           Id(side[<<b, at[p]>>][i]) = id /\ p \in side[<<b, at[p]>>][i].to
    BY DEF OnTheWay
  <2>1. CASE id \in due[p]
    <3>1. CASE \E b \in Agents : \E i \in DOMAIN down[b] : Id(down[b][i]) = id /\ p \in down[b][i].to
      <4>0. PICK b \in Agents : \E i \in DOMAIN down[b] : Id(down[b][i]) = id /\ p \in down[b][i].to
        BY <3>1
      <4>1. PICK i \in DOMAIN down[b] : Id(down[b][i]) = id /\ p \in down[b][i].to
        BY <4>0
      <4>2. i \in DOMAIN down'[b] /\ down'[b][i] = down[b][i]
        BY <1>6
      <4> QED BY <4>1, <4>2
    <3>2. CASE \E b \in Agents : \E i \in DOMAIN side[<<b, at[p]>>] :
                 Id(side[<<b, at[p]>>][i]) = id /\ p \in side[<<b, at[p]>>][i].to
      BY <3>2
    <3> QED BY <2>1, <3>1, <3>2 DEF NoticeInv, OnTheWay
  <2>2. CASE id \notin due[p]
    <3>1. id \in Owes(p, ms)
      BY <1>1, <2>2
    <3>2. PICK m \in ms : id = Id(m) /\ p \in m.to
      BY <3>1 DEF Owes, NamedIn
    <3>3. PICK i \in DOMAIN down'[a] : down'[a][i] = m
      BY <1>7
    <3> QED BY <3>2, <3>3
  <2> QED BY <2>1, <2>2
<1> QED BY <1>8, <1>9, <1>10, <1>11, <1>12, <1>13, <1>14 DEF NoticeInv

(* What an agent does with a message of the server. *)
LEMMA FromServerIs ==
  ASSUME Base, NEW a \in Agents, FromServer(a), NEW m, m = Head(down[a])
  PROVE  /\ down[a] # <<>> /\ down' = [down EXCEPT ![a] = Tail(@)] /\ m \in DownMessages
         /\ UNCHANGED <<vars, home, at, via, asked, late, served, due>>
         /\ DeliverTo(Local(a, m), m)
         /\ \/ m.kind \notin Tracked /\ side' = side
            \/ m.kind \in Tracked /\ PassedOn(a, m)
            \/ m.kind \in Tracked /\ side' = side /\ m.to \subseteq Local(a, m)
         /\ up' = IF m.kind = "add_ack"
                  THEN [up EXCEPT ![a] = @ \o SetToSeq({Req("list", p) : p \in Local(a, m)})]
                  ELSE up
<1>1. /\ down[a] # <<>> /\ down' = [down EXCEPT ![a] = Tail(@)]
      /\ UNCHANGED <<vars, home, at, via, asked, late, served, due>>
  BY DEF FromServer
<1>2. m \in DownMessages
  <2>1. down[a] \in Seq(DownMessages)
    BY DEF Base, WireTypes
  <2> QED BY <1>1, <2>1, HeadIn
<1>3. /\ \/ SendMsg2User(a, m) \/ JoinRoomNotice(a, m) \/ OutRoomNotice(a, m)
         \/ OutRoomChangeOwnerNotice(a, m) \/ ChangeOptionNotice(a, m) \/ ChangeOwnerNotice(a, m)
         \/ KickGuestAck(a, m) \/ KickGuestNotice(a, m)
      /\ up' = IF m.kind = "add_ack"
               THEN [up EXCEPT ![a] = @ \o SetToSeq({Req("list", p) : p \in Local(a, m)})]
               ELSE up
  BY DEF FromServer
<1>4. CASE SendMsg2User(a, m)
  <2>1. m.kind \notin Tracked
    BY <1>2, <1>4 DEF SendMsg2User, Tracked, DownMessages
  <2> QED BY <1>1, <1>2, <1>3, <1>4, <2>1 DEF SendMsg2User
<1>5. CASE \/ JoinRoomNotice(a, m) \/ OutRoomNotice(a, m) \/ OutRoomChangeOwnerNotice(a, m)
           \/ ChangeOptionNotice(a, m) \/ ChangeOwnerNotice(a, m) \/ KickGuestNotice(a, m)
  <2>1. m.kind \in Tracked /\ DeliverTo(Local(a, m), m) /\ PassedOn(a, m)
    BY <1>5 DEF JoinRoomNotice, OutRoomNotice, OutRoomChangeOwnerNotice, ChangeOptionNotice, ChangeOwnerNotice,
                KickGuestNotice, Spread, Tracked, Notices
  <2> QED BY <1>1, <1>2, <1>3, <2>1
<1>6. CASE KickGuestAck(a, m)
  <2>1. m.kind = "kick" /\ m.kind \in Tracked /\ DeliverTo(Local(a, m), m)
    BY <1>6 DEF KickGuestAck, Tracked
  <2>2. CASE Local(a, m) = {}
    BY <1>1, <1>2, <1>3, <1>6, <2>1, <2>2 DEF KickGuestAck
  <2>3. CASE Local(a, m) # {}
    <3>1. side' = side
      BY <1>6, <2>3 DEF KickGuestAck
    <3>2. PICK q \in Players : m.to = {q}
      BY <1>2, <2>1 DEF DownMessages
    <3>3. m.to \subseteq Local(a, m)
      BY <2>3, <3>2 DEF Local
    <3> QED BY <1>1, <1>2, <1>3, <2>1, <3>1, <3>3
  <2> QED BY <2>2, <2>3
<1> QED BY <1>3, <1>4, <1>5, <1>6

LEMMA NoticeFromServer ==
  ASSUME Base, NoticeInv, NEW a \in Agents, FromServer(a)
  PROVE  NoticeInv'
<1>0. PICK m : m = Head(down[a])
  OBVIOUS
<1>1. /\ down[a] # <<>> /\ down' = [down EXCEPT ![a] = Tail(@)] /\ m \in DownMessages
      /\ UNCHANGED <<at, served, due>>
      /\ DeliverTo(Local(a, m), m)
      /\ \/ m.kind \notin Tracked /\ side' = side
         \/ m.kind \in Tracked /\ PassedOn(a, m)
         \/ m.kind \in Tracked /\ side' = side /\ m.to \subseteq Local(a, m)
  BY <1>0, FromServerIs
<1>2. /\ 1 \in DOMAIN down[a] /\ down[a][1] = m
      /\ \A b \in Agents : \A i \in DOMAIN down'[b] :
           LET k == IF b = a THEN i + 1 ELSE i IN
           k \in DOMAIN down[b] /\ down'[b][i] = down[b][k] /\ (b = a => k # 1) /\ i \in Nat
      /\ \A b \in Agents : \A i \in DOMAIN down[b] :
           (b # a \/ i # 1) => \E k \in DOMAIN down'[b] : down'[b][k] = down[b][i]
  BY <1>0, <1>1, DownTaken DEF Base
<1>3. m \in Messages /\ (m.kind \in Tracked => m \in SideMessages)
  BY <1>1 DEF DownMessages, SideMessages
(* The copies on the links between the agents. *)
<1>4. /\ \A cd \in Agents \X Agents : \A i \in DOMAIN side'[cd] :
           \/ i \in DOMAIN side[cd] /\ side'[cd][i] = side[cd][i]
           \/ /\ cd[1] = a /\ cd[2] # a /\ i = Len(side[cd]) + 1 /\ side'[cd][i] = m
              /\ m.kind \in Tracked
      /\ \A cd \in Agents \X Agents : \A i \in DOMAIN side[cd] :
           i \in DOMAIN side'[cd] /\ side'[cd][i] = side[cd][i]
  <2>1. CASE side' = side
    BY <2>1
  <2>2. CASE m.kind \in Tracked /\ PassedOn(a, m)
    BY <1>3, <2>2, SidePassed DEF Base
  <2> QED BY <1>1, <2>1, <2>2
<1>5. \A p \in Players :
        /\ heard'[p] = heard[p] \cup IF p \in Local(a, m) /\ m.kind \in Tracked THEN {Id(m)} ELSE {}
        /\ echoed'[p] = echoed[p] \cup IF p \in Local(a, m) THEN heard[p] \cap {Id(m)} ELSE {}
  BY <1>1 DEF DeliverTo
<1>6. \A p \in Local(a, m) : at[p] = a /\ p \in m.to
  BY DEF Local
<1>7. \A p \in Players : Id(m) \notin heard[p]
  BY <1>2 DEF NoticeInv, DownNotHeard
<1>n. m.n \in Nat /\ m.n < served
  BY <1>2, <1>3, MsgFields DEF NoticeInv, NumbersFresh
<1>i. Id(m)[1] = m.n
  BY DEF Id
<1>8. NumbersFresh'
  <2>1. ASSUME NEW b \in Agents, NEW i \in DOMAIN down'[b] PROVE down'[b][i].n < served'
    BY <1>1, <1>2 DEF NoticeInv, NumbersFresh
  <2>2. ASSUME NEW cd \in Agents \X Agents, NEW i \in DOMAIN side'[cd] PROVE side'[cd][i].n < served'
    BY <1>1, <1>4, <1>n DEF NoticeInv, NumbersFresh
  <2>3. ASSUME NEW p \in Players, NEW id \in heard'[p] PROVE id[1] < served'
    BY <1>1, <1>5, <1>n, <1>i DEF NoticeInv, NumbersFresh
  <2> QED BY <2>1, <2>2, <2>3 DEF NumbersFresh
<1>9. DownOnce'
  <2> SUFFICES ASSUME NEW b \in Agents, NEW c \in Agents, NEW i \in DOMAIN down'[b], NEW j \in DOMAIN down'[c],
                      down'[b][i].kind \in Tracked, Id(down'[b][i]) = Id(down'[c][j])
               PROVE  b = c /\ i = j
    BY DEF DownOnce
  <2> DEFINE k == IF b = a THEN i + 1 ELSE i
             l == IF c = a THEN j + 1 ELSE j
  <2>1. k \in DOMAIN down[b] /\ down'[b][i] = down[b][k] /\ l \in DOMAIN down[c] /\ down'[c][j] = down[c][l]
        /\ i \in Nat /\ j \in Nat
    BY <1>2
  <2> HIDE DEF k, l
  <2>2. b = c /\ k = l
    BY <2>1 DEF NoticeInv, DownOnce
  <2> QED BY <2>1, <2>2 DEF k, l
(* What is left of down is not m. *)
<1>10. \A b \in Agents : \A i \in DOMAIN down'[b] : m.kind \in Tracked => Id(down'[b][i]) # Id(m)
  <2> SUFFICES ASSUME NEW b \in Agents, NEW i \in DOMAIN down'[b], m.kind \in Tracked, Id(down'[b][i]) = Id(m)
               PROVE  FALSE
    OBVIOUS
  <2> DEFINE k == IF b = a THEN i + 1 ELSE i
  <2>1. k \in DOMAIN down[b] /\ down'[b][i] = down[b][k] /\ (b = a => k # 1)
    BY <1>2
  <2> HIDE DEF k
  <2>2. a = b /\ 1 = k
    BY <1>2, <2>1 DEF NoticeInv, DownOnce
  <2> QED BY <2>1, <2>2
<1>11. DownNotSide'
  <2> SUFFICES ASSUME NEW b \in Agents, NEW cd \in Agents \X Agents, NEW i \in DOMAIN down'[b], NEW j \in DOMAIN side'[cd]
               PROVE  Id(down'[b][i]) # Id(side'[cd][j])
    BY DEF DownNotSide
  <2>1. CASE j \in DOMAIN side[cd] /\ side'[cd][j] = side[cd][j]
    BY <1>2, <2>1 DEF NoticeInv, DownNotSide
  <2>2. CASE side'[cd][j] = m /\ m.kind \in Tracked
    BY <1>10, <2>2
  <2> QED BY <1>4, <2>1, <2>2
<1>12. DownNotHeard'
  <2> SUFFICES ASSUME NEW b \in Agents, NEW p \in Players, NEW i \in DOMAIN down'[b]
               PROVE  Id(down'[b][i]) \notin heard'[p]
    BY DEF DownNotHeard
  <2>1. Id(down'[b][i]) \notin heard[p]
    BY <1>2 DEF NoticeInv, DownNotHeard
  <2> QED BY <1>5, <1>10, <2>1
<1>13. \A cd \in Agents \X Agents : \A i \in DOMAIN side[cd] : Id(side[cd][i]) # Id(m)
  BY <1>2 DEF NoticeInv, DownNotSide
<1>14. SideOnce'
  <2> SUFFICES ASSUME NEW ab \in Agents \X Agents, NEW cd \in Agents \X Agents,
                      NEW i \in DOMAIN side'[ab], NEW j \in DOMAIN side'[cd],
                      ab[2] = cd[2], Id(side'[ab][i]) = Id(side'[cd][j])
               PROVE  ab = cd /\ i = j
    BY DEF SideOnce
  <2>1. CASE i \in DOMAIN side[ab] /\ side'[ab][i] = side[ab][i]
    <3>1. j \in DOMAIN side[cd] /\ side'[cd][j] = side[cd][j]
      BY <1>4, <1>13, <2>1
    <3> QED BY <2>1, <3>1 DEF NoticeInv, SideOnce
  <2>2. CASE ab[1] = a /\ i = Len(side[ab]) + 1 /\ side'[ab][i] = m
    <3>1. cd[1] = a /\ j = Len(side[cd]) + 1
      BY <1>4, <1>13, <2>2
    <3>2. ab = cd
      BY <2>2, <3>1
    <3> QED BY <2>2, <3>1, <3>2
  <2> QED BY <1>4, <2>1, <2>2
<1>15. SideNotHeard'
  <2> SUFFICES ASSUME NEW cd \in Agents \X Agents, NEW p \in Players, NEW i \in DOMAIN side'[cd], at[p] = cd[2]
               PROVE  Id(side'[cd][i]) \notin heard'[p]
    BY <1>1 DEF SideNotHeard
  <2>1. CASE i \in DOMAIN side[cd] /\ side'[cd][i] = side[cd][i]
    <3>1. Id(side'[cd][i]) \notin heard[p]
      BY <2>1 DEF NoticeInv, SideNotHeard
    <3> QED BY <1>5, <1>13, <2>1, <3>1
  <2>2. CASE cd[2] # a /\ side'[cd][i] = m
    <3>1. p \notin Local(a, m)
      BY <1>6, <2>2
    <3> QED BY <1>5, <1>7, <2>2, <3>1
  <2> QED BY <1>4, <2>1, <2>2
<1>16. NowhereNothing'
  <2>1. ASSUME NEW p \in Players, at[p] = NoAgent PROVE heard'[p] = {} /\ due'[p] = {}
    <3>1. p \notin Local(a, m)
      BY <1>6, <2>1, RelayAssumption
    <3> QED BY <1>1, <1>5, <2>1, <3>1 DEF NoticeInv, NowhereNothing
  <2> QED BY <1>1, <2>1 DEF NowhereNothing
<1>17. OnTheWay'
  <2> SUFFICES ASSUME NEW p \in Players, NEW id \in due[p] \ heard'[p]
               PROVE  \/ \E b \in Agents : \E i \in DOMAIN down'[b] : Id(down'[b][i]) = id /\ p \in down'[b][i].to
                      \/ \E b \in Agents : \E i \in DOMAIN side'[<<b, at[p]>>] :
                           Id(side'[<<b, at[p]>>][i]) = id /\ p \in side'[<<b, at[p]>>][i].to
    BY <1>1 DEF OnTheWay
  <2>1. id \notin heard[p] /\ id \in due[p] /\ at[p] \in Agents
    BY <1>5 DEF NoticeInv, NowhereNothing, Base, ClientTypes
  <2>2. CASE \E b \in Agents : \E i \in DOMAIN side[<<b, at[p]>>] :
               Id(side[<<b, at[p]>>][i]) = id /\ p \in side[<<b, at[p]>>][i].to
    <3>1. PICK b \in Agents : \E i \in DOMAIN side[<<b, at[p]>>] :
               Id(side[<<b, at[p]>>][i]) = id /\ p \in side[<<b, at[p]>>][i].to
      BY <2>2
    <3>2. PICK i \in DOMAIN side[<<b, at[p]>>] :
               Id(side[<<b, at[p]>>][i]) = id /\ p \in side[<<b, at[p]>>][i].to
      BY <3>1
    <3>3. <<b, at[p]>> \in Agents \X Agents
      BY <2>1
    <3>4. i \in DOMAIN side'[<<b, at[p]>>] /\ side'[<<b, at[p]>>][i] = side[<<b, at[p]>>][i]
      BY <1>4, <3>3
    <3> QED BY <3>2, <3>4
  <2>3. CASE \E b \in Agents : \E i \in DOMAIN down[b] : Id(down[b][i]) = id /\ p \in down[b][i].to
    <3>1. PICK b \in Agents : \E i \in DOMAIN down[b] : Id(down[b][i]) = id /\ p \in down[b][i].to
      BY <2>3
    <3>2. PICK i \in DOMAIN down[b] : Id(down[b][i]) = id /\ p \in down[b][i].to
      BY <3>1
    <3>3. CASE b # a \/ i # 1
      <4>1. PICK k \in DOMAIN down'[b] : down'[b][k] = down[b][i]
        BY <1>2, <3>3
      <4> QED BY <3>2, <4>1
    <3>4. CASE b = a /\ i = 1
      <4>1. id = Id(m) /\ p \in m.to
        BY <1>2, <3>2, <3>4
      <4>2. m.kind \in Tracked
        <5>1. id \in Nat \X Tracked
          BY <2>1 DEF Base, CountTypes
        <5> QED BY <1>3, <4>1, <5>1, IdType
      <4>3. p \notin Local(a, m)
        BY <1>5, <4>1, <4>2
      <4>4. at[p] # a
        BY <4>1, <4>3 DEF Local
      <4>5. PassedOn(a, m)
        BY <1>1, <4>1, <4>2, <4>3
      <4>6. \E i1 \in DOMAIN side'[<<a, at[p]>>] : side'[<<a, at[p]>>][i1] = m
        BY <1>3, <2>1, <4>2, <4>4, <4>5, SidePassed DEF Base
      <4> QED BY <4>1, <4>6
    <3> QED BY <3>3, <3>4
  <2> QED BY <2>1, <2>2, <2>3 DEF NoticeInv, OnTheWay
<1>18. HeardOnce'
  BY <1>5, <1>7 DEF NoticeInv, HeardOnce
<1> QED BY <1>8, <1>9, <1>11, <1>12, <1>14, <1>15, <1>16, <1>17, <1>18 DEF NoticeInv

LEMMA NoticeFromAgent ==
  ASSUME Base, NoticeInv, NEW ba \in Agents \X Agents, FromAgent(ba[1], ba[2])
  PROVE  NoticeInv'
<1> DEFINE a == ba[2]
<1>0. PICK m : m = Head(side[ba])
  OBVIOUS
<1>1. /\ ba = <<ba[1], ba[2]>> /\ a \in Agents
      /\ side[ba] # <<>> /\ side' = [side EXCEPT ![ba] = Tail(@)]
      /\ DeliverTo(Local(a, m), m)
      /\ UNCHANGED <<at, down, served, due>>
  <2>1. ba = <<ba[1], ba[2]>> /\ a \in Agents
    OBVIOUS
  <2> QED BY <1>0, <2>1 DEF FromAgent
<1> HIDE DEF a
<1>2. /\ 1 \in DOMAIN side[ba] /\ side[ba][1] = m /\ m \in SideMessages
      /\ \A cd \in Agents \X Agents : \A i \in DOMAIN side'[cd] :
           LET k == IF cd = ba THEN i + 1 ELSE i IN
           k \in DOMAIN side[cd] /\ side'[cd][i] = side[cd][k] /\ (cd = ba => k # 1) /\ i \in Nat
      /\ \A cd \in Agents \X Agents : \A i \in DOMAIN side[cd] :
           (cd # ba \/ i # 1) => \E k \in DOMAIN side'[cd] : side'[cd][k] = side[cd][i]
  BY <1>0, <1>1, SideTaken DEF Base
<1>3. m \in Messages /\ m.kind \in Tracked
  BY <1>2 DEF SideMessages
<1>5. \A p \in Players :
        /\ heard'[p] = heard[p] \cup IF p \in Local(a, m) THEN {Id(m)} ELSE {}
        /\ echoed'[p] = echoed[p] \cup IF p \in Local(a, m) THEN heard[p] \cap {Id(m)} ELSE {}
  BY <1>1, <1>3 DEF DeliverTo
<1>6. \A p \in Local(a, m) : at[p] = a /\ p \in m.to
  BY DEF Local
<1>7. \A p \in Players : at[p] = a => Id(m) \notin heard[p]
  BY <1>2 DEF NoticeInv, SideNotHeard, a
<1>n. m.n \in Nat /\ m.n < served
  BY <1>2, <1>3, MsgFields DEF NoticeInv, NumbersFresh
<1>i. Id(m)[1] = m.n
  BY DEF Id
<1>8. NumbersFresh'
  <2>1. ASSUME NEW b \in Agents, NEW i \in DOMAIN down[b] PROVE down[b][i].n < served'
    BY <1>1 DEF NoticeInv, NumbersFresh
  <2>2. ASSUME NEW cd \in Agents \X Agents, NEW i \in DOMAIN side'[cd] PROVE side'[cd][i].n < served'
    BY <1>1, <1>2 DEF NoticeInv, NumbersFresh
  <2>3. ASSUME NEW p \in Players, NEW id \in heard'[p] PROVE id[1] < served'
    BY <1>1, <1>5, <1>n, <1>i DEF NoticeInv, NumbersFresh
  <2> QED BY <1>1, <2>1, <2>2, <2>3 DEF NumbersFresh
<1>9. DownOnce'
  BY <1>1 DEF NoticeInv, DownOnce
<1>10. \A b \in Agents : \A i \in DOMAIN down[b] : Id(down[b][i]) # Id(m)
  BY <1>2 DEF NoticeInv, DownNotSide
<1>11. DownNotSide'
  <2> SUFFICES ASSUME NEW b \in Agents, NEW cd \in Agents \X Agents, NEW i \in DOMAIN down[b], NEW j \in DOMAIN side'[cd]
               PROVE  Id(down[b][i]) # Id(side'[cd][j])
    BY <1>1 DEF DownNotSide
  <2> QED BY <1>2 DEF NoticeInv, DownNotSide
<1>12. DownNotHeard'
  <2> SUFFICES ASSUME NEW b \in Agents, NEW p \in Players, NEW i \in DOMAIN down[b]
               PROVE  Id(down[b][i]) \notin heard'[p]
    BY <1>1 DEF DownNotHeard
  <2>1. Id(down[b][i]) \notin heard[p]
    BY DEF NoticeInv, DownNotHeard
  <2> QED BY <1>5, <1>10, <2>1
(* What is left of the copies for agent a is not m. *)
<1>13. \A cd \in Agents \X Agents : \A i \in DOMAIN side'[cd] : cd[2] = a => Id(side'[cd][i]) # Id(m)
  <2> SUFFICES ASSUME NEW cd \in Agents \X Agents, NEW i \in DOMAIN side'[cd], cd[2] = a, Id(side'[cd][i]) = Id(m)
               PROVE  FALSE
    OBVIOUS
  <2> DEFINE k == IF cd = ba THEN i + 1 ELSE i
  <2>1. k \in DOMAIN side[cd] /\ side'[cd][i] = side[cd][k] /\ (cd = ba => k # 1)
    BY <1>2
  <2> HIDE DEF k
  <2>2. cd = ba /\ k = 1
    BY <1>2, <2>1 DEF NoticeInv, SideOnce, a
  <2> QED BY <2>1, <2>2
<1>14. SideOnce'
  <2> SUFFICES ASSUME NEW ab \in Agents \X Agents, NEW cd \in Agents \X Agents,
                      NEW i \in DOMAIN side'[ab], NEW j \in DOMAIN side'[cd],
                      ab[2] = cd[2], Id(side'[ab][i]) = Id(side'[cd][j])
               PROVE  ab = cd /\ i = j
    BY DEF SideOnce
  <2> DEFINE k == IF ab = ba THEN i + 1 ELSE i
             l == IF cd = ba THEN j + 1 ELSE j
  <2>1. k \in DOMAIN side[ab] /\ side'[ab][i] = side[ab][k] /\ l \in DOMAIN side[cd] /\ side'[cd][j] = side[cd][l]
        /\ i \in Nat /\ j \in Nat
    BY <1>2
  <2> HIDE DEF k, l
  <2>2. ab = cd /\ k = l
    BY <2>1 DEF NoticeInv, SideOnce
  <2> QED BY <2>1, <2>2 DEF k, l
<1>15. SideNotHeard'
  <2> SUFFICES ASSUME NEW cd \in Agents \X Agents, NEW p \in Players, NEW i \in DOMAIN side'[cd], at[p] = cd[2]
               PROVE  Id(side'[cd][i]) \notin heard'[p]
    BY <1>1 DEF SideNotHeard
  <2>1. Id(side'[cd][i]) \notin heard[p]
    BY <1>2 DEF NoticeInv, SideNotHeard
  <2>2. p \in Local(a, m) => Id(side'[cd][i]) # Id(m)
    BY <1>6, <1>13
  <2> QED BY <1>5, <2>1, <2>2
<1>16. NowhereNothing'
  <2>1. ASSUME NEW p \in Players, at[p] = NoAgent PROVE heard'[p] = {} /\ due'[p] = {}
    <3>1. p \notin Local(a, m)
      BY <1>1, <1>6, <2>1, RelayAssumption
    <3> QED BY <1>1, <1>5, <2>1, <3>1 DEF NoticeInv, NowhereNothing
  <2> QED BY <1>1, <2>1 DEF NowhereNothing
<1>17. OnTheWay'
  <2> DEFINE Way(p, id) ==
               \/ \E b \in Agents : \E i \in DOMAIN down[b] : Id(down[b][i]) = id /\ p \in down[b][i].to
               \/ \E b \in Agents : \E i \in DOMAIN side'[<<b, at[p]>>] :
                    Id(side'[<<b, at[p]>>][i]) = id /\ p \in side'[<<b, at[p]>>][i].to
  <2>w. (\A p \in Players : \A id \in due[p] \ heard'[p] : Way(p, id)) => OnTheWay'
    BY <1>1 DEF OnTheWay
  <2> SUFFICES ASSUME NEW p \in Players, NEW id \in due[p] \ heard'[p]
               PROVE  Way(p, id)
    BY <2>w
  <2>1. id \notin heard[p] /\ id \in due[p] /\ at[p] \in Agents
    BY <1>5 DEF NoticeInv, NowhereNothing, Base, ClientTypes
  <2>2. CASE \E b \in Agents : \E i \in DOMAIN side[<<b, at[p]>>] :
               Id(side[<<b, at[p]>>][i]) = id /\ p \in side[<<b, at[p]>>][i].to
    <3>1. PICK b \in Agents : \E i \in DOMAIN side[<<b, at[p]>>] :
               Id(side[<<b, at[p]>>][i]) = id /\ p \in side[<<b, at[p]>>][i].to
      BY <2>2
    <3>2. PICK i \in DOMAIN side[<<b, at[p]>>] :
               Id(side[<<b, at[p]>>][i]) = id /\ p \in side[<<b, at[p]>>][i].to
      BY <3>1
    <3>3. <<b, at[p]>> \in Agents \X Agents /\ <<b, at[p]>>[2] = at[p]
      BY <2>1
    <3>4. CASE <<b, at[p]>> # ba \/ i # 1
      <4>1. \E k \in DOMAIN side'[<<b, at[p]>>] : side'[<<b, at[p]>>][k] = side[<<b, at[p]>>][i]
        BY <1>2, <3>3, <3>4
      <4> QED BY <3>2, <4>1
    <3>5. CASE <<b, at[p]>> = ba /\ i = 1
      <4>1. id = Id(m) /\ p \in m.to /\ at[p] = a
        BY <1>2, <3>2, <3>3, <3>5 DEF a
      <4>2. p \in Local(a, m)
        BY <4>1 DEF Local
      <4> QED BY <1>5, <4>1, <4>2
    <3> QED BY <3>4, <3>5
  <2>3. CASE \E b \in Agents : \E i \in DOMAIN down[b] : Id(down[b][i]) = id /\ p \in down[b][i].to
    BY <1>1, <2>3
  <2> QED BY <2>1, <2>2, <2>3 DEF NoticeInv, OnTheWay
<1>18. HeardOnce'
  BY <1>5, <1>6, <1>7 DEF NoticeInv, HeardOnce
<1> QED BY <1>8, <1>9, <1>11, <1>12, <1>14, <1>15, <1>16, <1>17, <1>18 DEF NoticeInv

LEMMA ChatIs ==
  ASSUME Base, NEW p \in Players, Chat(p), NEW m, m = Notice("chat", view[p].members, p)
  PROVE  /\ at[p] \in Agents /\ m \in SideMessages /\ m.kind \in Tracked /\ m.n = served /\ m.to \in SUBSET Players
         /\ DeliverTo(Local(at[p], m), m) /\ PassedOn(at[p], m)
         /\ due' = [q \in Players |-> due[q] \cup IF at[q] # NoAgent /\ q \in m.to THEN {Id(m)} ELSE {}]
         /\ served' = served + 1 /\ UNCHANGED <<vars, home, at, via, up, down, late>>
<1>1. /\ at[p] \in Agents
      /\ Spread(at[p], Notice("chat", view[p].members, p)) /\ Owed({Notice("chat", view[p].members, p)})
      /\ served' = served + 1 /\ UNCHANGED <<vars, home, at, via, up, down, late>>
  BY DEF Chat, Asks, Base, ClientTypes
<1>2. view[p].members \in SUBSET Players
  BY DEF Base, ClientTypes, Views
<1>3. m \in Messages /\ m.kind = "chat" /\ m.to = view[p].members /\ m.n = served
  <2>1. served \in Nat /\ "chat" \in Tracked /\ view[p].members \in SUBSET Someone /\ p \in Someone
    BY <1>2 DEF Base, CountTypes, Tracked, Someone
  <2> QED BY <2>1, NoticeIs
<1>4. m \in SideMessages /\ m.kind \in Tracked
  BY <1>3 DEF SideMessages, Tracked
<1>5. due' = [q \in Players |-> due[q] \cup IF at[q] = NoAgent THEN {}
                                            ELSE {Id(x) : x \in {y \in {m} : y.kind \in Tracked /\ q \in y.to}}]
  BY <1>1 DEF Owed
<1>6. \A q \in Players : {Id(x) : x \in {y \in {m} : y.kind \in Tracked /\ q \in y.to}}
                         = IF q \in m.to THEN {Id(m)} ELSE {}
  <2> SUFFICES ASSUME NEW q \in Players
               PROVE  {Id(x) : x \in {y \in {m} : y.kind \in Tracked /\ q \in y.to}}
                      = IF q \in m.to THEN {Id(m)} ELSE {}
    OBVIOUS
  <2>1. {y \in {m} : y.kind \in Tracked /\ q \in y.to} = IF q \in m.to THEN {m} ELSE {}
    BY <1>4
  <2>2. {Id(x) : x \in {m}} = {Id(m)} /\ {Id(x) : x \in {}} = {}
    OBVIOUS
  <2> QED BY <2>1, <2>2
<1>7. due' = [q \in Players |-> due[q] \cup IF at[q] # NoAgent /\ q \in m.to THEN {Id(m)} ELSE {}]
  BY <1>5, <1>6
<1> QED BY <1>1, <1>2, <1>3, <1>4, <1>7 DEF Spread

LEMMA NoticeChat ==
  ASSUME Base, NoticeInv, NEW p \in Players, Chat(p)
  PROVE  NoticeInv'
<1> DEFINE a == at[p]
<1>0. PICK m : m = Notice("chat", view[p].members, p)
  OBVIOUS
<1>1. /\ a \in Agents /\ m \in SideMessages /\ m.kind \in Tracked /\ m.n = served
      /\ DeliverTo(Local(a, m), m) /\ PassedOn(a, m)
      /\ due' = [q \in Players |-> due[q] \cup IF at[q] # NoAgent /\ q \in m.to THEN {Id(m)} ELSE {}]
      /\ served' = served + 1 /\ UNCHANGED <<at, down>>
  BY <1>0, ChatIs
<1>n. served \in Nat
  BY DEF Base, CountTypes
<1>2. /\ \A cd \in Agents \X Agents : \A i \in DOMAIN side'[cd] :
           \/ i \in DOMAIN side[cd] /\ side'[cd][i] = side[cd][i]
           \/ cd[1] = a /\ cd[2] # a /\ i = Len(side[cd]) + 1 /\ side'[cd][i] = m
      /\ \A cd \in Agents \X Agents : \A i \in DOMAIN side[cd] :
           i \in DOMAIN side'[cd] /\ side'[cd][i] = side[cd][i]
      /\ \A b \in Agents \ {a} : \E i \in DOMAIN side'[<<a, b>>] : side'[<<a, b>>][i] = m
  <2> HIDE DEF a
  <2> QED BY <1>1, SidePassed DEF Base
<1>5. \A q \in Players :
        /\ heard'[q] = heard[q] \cup IF q \in Local(a, m) THEN {Id(m)} ELSE {}
        /\ echoed'[q] = echoed[q] \cup IF q \in Local(a, m) THEN heard[q] \cap {Id(m)} ELSE {}
  BY <1>1 DEF DeliverTo
<1>6. \A q \in Local(a, m) : at[q] = a /\ q \in m.to
  BY DEF Local
<1> HIDE DEF a
<1>i. Id(m)[1] = served /\ \A x, y : Id(x) = Id(y) => x.n = y.n
  BY <1>1 DEF Id
(* Nothing has m's number yet. *)
<1>7. /\ \A b \in Agents : \A i \in DOMAIN down[b] : down[b][i].n < served'
      /\ \A b \in Agents : \A i \in DOMAIN down[b] : Id(down[b][i]) # Id(m)
  <2> SUFFICES ASSUME NEW b \in Agents, NEW i \in DOMAIN down[b]
               PROVE  down[b][i].n < served' /\ Id(down[b][i]) # Id(m)
    OBVIOUS
  <2>1. down[b] \in Seq(DownMessages)
    BY DEF Base, WireTypes
  <2>2. down[b][i] \in DownMessages
    BY <2>1, InSeq
  <2>3. down[b][i].n \in Nat
    BY <2>2, MsgFields DEF DownMessages
  <2>4. down[b][i].n < served
    BY DEF NoticeInv, NumbersFresh
  <2> QED BY <1>1, <1>n, <1>i, <2>3, <2>4
<1>8. \A cd \in Agents \X Agents : \A i \in DOMAIN side[cd] : side[cd][i].n < served' /\ Id(side[cd][i]) # Id(m)
  <2> SUFFICES ASSUME NEW cd \in Agents \X Agents, NEW i \in DOMAIN side[cd]
               PROVE  side[cd][i].n < served' /\ Id(side[cd][i]) # Id(m)
    OBVIOUS
  <2>1. side[cd] \in Seq(SideMessages)
    BY DEF Base, WireTypes
  <2>2. side[cd][i] \in SideMessages
    BY <2>1, InSeq
  <2>3. side[cd][i].n \in Nat
    BY <2>2, MsgFields DEF SideMessages
  <2>4. side[cd][i].n < served
    BY DEF NoticeInv, NumbersFresh
  <2> QED BY <1>1, <1>n, <1>i, <2>3, <2>4
<1>9. \A q \in Players : Id(m) \notin heard[q] /\ \A id \in heard[q] : id[1] < served'
  <2> SUFFICES ASSUME NEW q \in Players PROVE Id(m) \notin heard[q] /\ \A id \in heard[q] : id[1] < served'
    OBVIOUS
  <2>1. \A id \in heard[q] : id[1] \in Nat
    BY DEF Base, CountTypes
  <2>2. \A id \in heard[q] : id[1] < served
    BY DEF NoticeInv, NumbersFresh
  <2> QED BY <1>1, <1>n, <1>i, <2>1, <2>2
<1>10. NumbersFresh'
  <2>1. \A cd \in Agents \X Agents : \A i \in DOMAIN side'[cd] : side'[cd][i].n < served'
    BY <1>1, <1>n, <1>2, <1>8
  <2>2. \A q \in Players : \A id \in heard'[q] : id[1] < served'
    BY <1>1, <1>n, <1>i, <1>5, <1>9
  <2> QED BY <1>1, <1>7, <2>1, <2>2 DEF NumbersFresh
<1>11. DownOnce'
  BY <1>1 DEF NoticeInv, DownOnce
<1>12. DownNotSide'
  <2> SUFFICES ASSUME NEW b \in Agents, NEW cd \in Agents \X Agents, NEW i \in DOMAIN down[b], NEW j \in DOMAIN side'[cd]
               PROVE  Id(down[b][i]) # Id(side'[cd][j])
    BY <1>1 DEF DownNotSide
  <2> QED BY <1>2, <1>7 DEF NoticeInv, DownNotSide
<1>13. DownNotHeard'
  <2> SUFFICES ASSUME NEW b \in Agents, NEW q \in Players, NEW i \in DOMAIN down[b]
               PROVE  Id(down[b][i]) \notin heard'[q]
    BY <1>1 DEF DownNotHeard
  <2>1. Id(down[b][i]) \notin heard[q]
    BY DEF NoticeInv, DownNotHeard
  <2> QED BY <1>5, <1>7, <2>1
<1>14. SideOnce'
  <2> SUFFICES ASSUME NEW ab \in Agents \X Agents, NEW cd \in Agents \X Agents,
                      NEW i \in DOMAIN side'[ab], NEW j \in DOMAIN side'[cd],
                      ab[2] = cd[2], Id(side'[ab][i]) = Id(side'[cd][j])
               PROVE  ab = cd /\ i = j
    BY DEF SideOnce
  <2>1. CASE i \in DOMAIN side[ab] /\ side'[ab][i] = side[ab][i]
    <3>1. j \in DOMAIN side[cd] /\ side'[cd][j] = side[cd][j]
      BY <1>2, <1>8, <2>1
    <3> QED BY <2>1, <3>1 DEF NoticeInv, SideOnce
  <2>2. CASE ab[1] = a /\ i = Len(side[ab]) + 1 /\ side'[ab][i] = m
    <3>1. cd[1] = a /\ j = Len(side[cd]) + 1
      BY <1>2, <1>8, <2>2
    <3>2. ab = cd
      BY <2>2, <3>1
    <3> QED BY <2>2, <3>1, <3>2
  <2> QED BY <1>2, <2>1, <2>2
<1>15. SideNotHeard'
  <2> SUFFICES ASSUME NEW cd \in Agents \X Agents, NEW q \in Players, NEW i \in DOMAIN side'[cd], at[q] = cd[2]
               PROVE  Id(side'[cd][i]) \notin heard'[q]
    BY <1>1 DEF SideNotHeard
  <2>1. CASE i \in DOMAIN side[cd] /\ side'[cd][i] = side[cd][i]
    <3>1. Id(side'[cd][i]) \notin heard[q]
      BY <2>1 DEF NoticeInv, SideNotHeard
    <3> QED BY <1>5, <1>8, <2>1, <3>1
  <2>2. CASE cd[2] # a /\ side'[cd][i] = m
    <3>1. q \notin Local(a, m)
      BY <1>6, <2>2
    <3> QED BY <1>5, <1>9, <2>2, <3>1
  <2> QED BY <1>2, <2>1, <2>2
<1>16. NowhereNothing'
  <2>1. ASSUME NEW q \in Players, at[q] = NoAgent PROVE heard'[q] = {} /\ due'[q] = {}
    <3>1. q \notin Local(a, m)
      BY <1>1, <1>6, <2>1, RelayAssumption
    <3> QED BY <1>1, <1>5, <2>1, <3>1 DEF NoticeInv, NowhereNothing
  <2> QED BY <1>1, <2>1 DEF NowhereNothing
<1>17. OnTheWay'
  <2> DEFINE Way(q, id) ==
               \/ \E b \in Agents : \E i \in DOMAIN down[b] : Id(down[b][i]) = id /\ q \in down[b][i].to
               \/ \E b \in Agents : \E i \in DOMAIN side'[<<b, at[q]>>] :
                    Id(side'[<<b, at[q]>>][i]) = id /\ q \in side'[<<b, at[q]>>][i].to
  <2>w. (\A q \in Players : \A id \in due'[q] \ heard'[q] : Way(q, id)) => OnTheWay'
    BY <1>1 DEF OnTheWay
  <2> SUFFICES ASSUME NEW q \in Players, NEW id \in due'[q] \ heard'[q]
               PROVE  Way(q, id)
    BY <2>w
  <2>1. id \notin heard[q] /\ at[q] \in Agents
    BY <1>1, <1>5 DEF NoticeInv, NowhereNothing, Base, ClientTypes
  <2>2. CASE id \in due[q]
    <3>2. CASE \E b \in Agents : \E i \in DOMAIN side[<<b, at[q]>>] :
                 Id(side[<<b, at[q]>>][i]) = id /\ q \in side[<<b, at[q]>>][i].to
      <4>1. PICK b \in Agents : \E i \in DOMAIN side[<<b, at[q]>>] :
                 Id(side[<<b, at[q]>>][i]) = id /\ q \in side[<<b, at[q]>>][i].to
        BY <3>2
      <4>2. PICK i \in DOMAIN side[<<b, at[q]>>] :
                 Id(side[<<b, at[q]>>][i]) = id /\ q \in side[<<b, at[q]>>][i].to
        BY <4>1
      <4>3. <<b, at[q]>> \in Agents \X Agents
        BY <2>1
      <4>4. i \in DOMAIN side'[<<b, at[q]>>] /\ side'[<<b, at[q]>>][i] = side[<<b, at[q]>>][i]
        BY <1>2, <4>3
      <4> QED BY <4>2, <4>4
    <3> QED BY <2>1, <2>2, <3>2 DEF NoticeInv, OnTheWay
  <2>3. CASE id \notin due[q]
    <3>1. id = Id(m) /\ q \in m.to
      BY <1>1, <2>3
    <3>2. at[q] # a
      BY <1>5, <3>1 DEF Local
    <3>3. PICK i \in DOMAIN side'[<<a, at[q]>>] : side'[<<a, at[q]>>][i] = m
      BY <1>2, <2>1, <3>2
    <3> QED BY <1>1, <3>1, <3>3
  <2> QED BY <2>2, <2>3
<1>18. HeardOnce'
  BY <1>5, <1>9 DEF NoticeInv, HeardOnce
<1> QED BY <1>10, <1>11, <1>12, <1>13, <1>14, <1>15, <1>16, <1>17, <1>18 DEF NoticeInv

LEMMA NoticeLeave ==
  ASSUME Base, NoticeInv, NEW p \in Players,
         at' = [at EXCEPT ![p] = NoAgent], due' = [due EXCEPT ![p] = {}],
         heard' = [heard EXCEPT ![p] = {}], echoed' = [echoed EXCEPT ![p] = {}],
         UNCHANGED <<down, side, served>>
  PROVE  NoticeInv'
<1>1. /\ at'[p] = NoAgent /\ due'[p] = {} /\ heard'[p] = {} /\ echoed'[p] = {}
      /\ \A q \in Players \ {p} : at'[q] = at[q] /\ due'[q] = due[q] /\ heard'[q] = heard[q] /\ echoed'[q] = echoed[q]
  BY DEF Base, ClientTypes, CountTypes
<1>2. \A q \in Players : heard'[q] \subseteq heard[q] /\ (at'[q] # NoAgent => at'[q] = at[q])
  BY <1>1
<1>3. NumbersFresh' /\ DownOnce' /\ DownNotSide' /\ SideOnce'
  BY <1>2 DEF NoticeInv, NumbersFresh, DownOnce, DownNotSide, SideOnce
<1>4. DownNotHeard'
  BY <1>2 DEF NoticeInv, DownNotHeard
<1>5. SideNotHeard'
  <2> SUFFICES ASSUME NEW cd \in Agents \X Agents, NEW q \in Players, NEW i \in DOMAIN side[cd], at'[q] = cd[2]
               PROVE  Id(side[cd][i]) \notin heard'[q]
    BY DEF SideNotHeard
  <2>1. at[q] = cd[2]
    BY <1>2, RelayAssumption
  <2>2. SideNotHeard
    BY DEF NoticeInv
  <2>3. Id(side[cd][i]) \notin heard[q]
    BY <2>1, <2>2 DEF SideNotHeard
  <2>4. heard'[q] \subseteq heard[q]
    BY <1>2
  <2> QED BY <2>3, <2>4
<1>6. NowhereNothing'
  BY <1>1 DEF NoticeInv, NowhereNothing
<1>7. OnTheWay'
  <2> DEFINE Way(q, id) ==
               \/ \E b \in Agents : \E i \in DOMAIN down[b] : Id(down[b][i]) = id /\ q \in down[b][i].to
               \/ \E b \in Agents : \E i \in DOMAIN side[<<b, at'[q]>>] :
                    Id(side[<<b, at'[q]>>][i]) = id /\ q \in side[<<b, at'[q]>>][i].to
  <2>w. (\A q \in Players : \A id \in due'[q] \ heard'[q] : Way(q, id)) => OnTheWay'
    BY DEF OnTheWay
  <2> SUFFICES ASSUME NEW q \in Players, NEW id \in due'[q] \ heard'[q]
               PROVE  Way(q, id)
    BY <2>w
  <2>1. id \in due[q] \ heard[q] /\ at'[q] = at[q]
    BY <1>1
  <2> QED BY <2>1 DEF NoticeInv, OnTheWay
<1>8. HeardOnce'
  BY <1>1 DEF NoticeInv, HeardOnce
<1> QED BY <1>3, <1>4, <1>5, <1>6, <1>7, <1>8 DEF NoticeInv

-----------------------------------------------------------------------------
(* The types are inductive. *)

LEMMA BaseInit == ASSUME RelayInit PROVE Base
<1>1. RoomTypes
  BY ZeroIdx DEF RelayInit, RoomTypes
<1>2. WireTypes
  <2>1. <<>> \in Seq(Requests) /\ <<>> \in Seq(DownMessages) /\ <<>> \in Seq(SideMessages)
    BY EmptyIsSeq
  <2>2. PICK e : e = <<>>
    OBVIOUS
  <2>3. up = [a \in Agents |-> e] /\ down = [a \in Agents |-> e] /\ side = [ab \in Agents \X Agents |-> e]
    BY <2>2 DEF RelayInit
  <2> QED BY <2>1, <2>2, <2>3 DEF WireTypes
<1>3. ClientTypes
  <2>1. \A p \in Players : home[p] \in Agents /\ at[p] = home[p] /\ via[p] = home[p] /\ user[p] = 0
    BY DEF RelayInit
  <2>2. \A p \in Players : Registered(p) /\ via[p] # NoAgent
    BY <2>1, ZeroIdx, RelayAssumption DEF Registered
  <2>3. NoView \in Views
    BY ZeroIdx DEF NoView, Views, Someone
  <2>4. view \in [Players -> Views] /\ board \in [Players -> LoosePage]
    BY <2>3, NoPageType DEF RelayInit
  <2>5. at \in [Players -> Agents \cup {NoAgent}] /\ via \in [Players -> Agents \cup {NoAgent}]
        /\ home \in [Players -> Agents] /\ late \in BOOLEAN
    BY DEF RelayInit
  <2> QED BY <2>2, <2>4, <2>5 DEF ClientTypes
<1>4. CountTypes
  BY DEF RelayInit, CountTypes
<1> QED BY <1>1, <1>2, <1>3, <1>4 DEF Base

LEMMA OwesType ==
  ASSUME NEW ms \in SUBSET DownMessages, NEW p
  PROVE  Owes(p, ms) \in SUBSET (Nat \X Tracked)
<1>1. \A m \in ms : m.kind \in Tracked => Id(m) \in Nat \X Tracked
  BY IdType DEF DownMessages
<1> QED BY <1>1 DEF Owes, NamedIn

LEMMA BaseServe ==
  ASSUME Base, NEW a \in Agents, Serve(a)
  PROVE  Base'
<1>1. ServeMakes(a) /\ up' \in [Agents -> Seq(Requests)] /\ late' \in BOOLEAN
  BY ServedMakes
<1>2. UNCHANGED <<home, at, side, view, board, heard, echoed>>
  BY DEF Serve, clients
<1>3. ClientTypes'
  BY <1>1, <1>2 DEF Base, ClientTypes, ServeMakes
<1>4. CASE Silent
  <2>1. WireTypes' /\ CountTypes'
    BY <1>1, <1>2, <1>4 DEF Base, WireTypes, CountTypes, Silent
  <2> QED BY <1>1, <1>3, <2>1 DEF Base, ServeMakes
<1>5. CASE Answered(a)
  <2>1. PICK ms \in SUBSET DownMessages :
          Gives(down, down', a, ms, served) /\ due' = [p \in Players |-> due[p] \cup Owes(p, ms)]
    BY <1>5 DEF Answered
  <2>2. down' \in [Agents -> Seq(DownMessages)]
    BY <2>1 DEF Gives
  <2>3. WireTypes'
    BY <1>1, <1>2, <2>2 DEF Base, WireTypes
  <2>4. due' \in [Players -> SUBSET (Nat \X Tracked)]
    <3>1. \A p \in Players : due[p] \cup Owes(p, ms) \in SUBSET (Nat \X Tracked)
      BY OwesType DEF Base, CountTypes
    <3> QED BY <2>1, <3>1
  <2>5. CountTypes'
    BY <1>2, <1>5, <2>4 DEF Base, CountTypes, Answered
  <2> QED BY <1>1, <1>3, <2>3, <2>5 DEF Base, ServeMakes
<1> QED BY <1>1, <1>4, <1>5 DEF ServeMakes

LEMMA SameRooms ==
  ASSUME Base, UNCHANGED vars
  PROVE  RoomTypes' /\ \A p \in Players : Registered(p)' <=> Registered(p)
BY DEF Base, RoomTypes, vars, Registered

(* The list of the rooms that a client asks for. *)
LEMMA AsksForList ==
  ASSUME Base, NEW a \in Agents, NEW m \in DownMessages, m.kind = "add_ack"
  PROVE  LET t == SetToSeq({Req("list", p) : p \in Local(a, m)}) IN
         /\ t \in Seq(Requests)
         /\ \A i \in DOMAIN t : t[i].kind = "list" /\ t[i].by \in Local(a, m)
         /\ \A p \in Local(a, m) : \E i \in DOMAIN t : t[i].by = p /\ t[i].kind = "list"
<1>1. PICK q \in Players : m.to = {q}
  BY DEF DownMessages
<1> DEFINE W == {Req("list", p) : p \in Local(a, m)}
<1>2. /\ W = {} \/ W = {Req("list", q)}
      /\ Local(a, m) # {} => W # {}
      /\ \A p \in Local(a, m) : p = q
  BY <1>1 DEF Local
<1>3. Req("list", q) \in Requests /\ Req("list", q).kind = "list" /\ Req("list", q).by = q
  BY PlainRequest
<1> HIDE DEF W
<1>4. PICK x \in Requests : x = Req("list", q)
  BY <1>3
<1>5. /\ SetToSeq(W) \in Seq(Requests) /\ \A i \in DOMAIN SetToSeq(W) : SetToSeq(W)[i] = x
      /\ W # {} => 1 \in DOMAIN SetToSeq(W)
  BY <1>2, <1>4, ToSeqOne
<1>6. ASSUME NEW i \in DOMAIN SetToSeq(W)
      PROVE  SetToSeq(W)[i].kind = "list" /\ SetToSeq(W)[i].by \in Local(a, m)
  <2>1. SetToSeq(W)[i] = x
    BY <1>5
  <2>2. Local(a, m) # {}
    <3>1. CASE W = {}
      <4>1. SetToSeq(W) = <<>>
        BY <3>1, EmptyToSeq
      <4> QED BY <4>1
    <3>2. CASE W # {}
      BY <3>2 DEF W
    <3> QED BY <3>1, <3>2
  <2>3. q \in Local(a, m)
    BY <1>2, <2>2
  <2> QED BY <1>3, <1>4, <2>1, <2>3
<1>7. \A p \in Local(a, m) : \E i \in DOMAIN SetToSeq(W) : SetToSeq(W)[i].by = p /\ SetToSeq(W)[i].kind = "list"
  BY <1>2, <1>3, <1>4, <1>5
<1> QED BY <1>5, <1>6, <1>7 DEF W

AsksOf(a, m) == SetToSeq({Req("list", p) : p \in Local(a, m)})

LEMMA ListAsked ==
  ASSUME Base, NEW a \in Agents, NEW m \in DownMessages, m.kind = "add_ack", NEW t, t = AsksOf(a, m)
  PROVE  /\ t \in Seq(Requests)
         /\ \A x \in Local(a, m) : \E i \in DOMAIN t : t[i].by = x /\ t[i].kind = "list"
BY AsksForList DEF AsksOf

LEMMA BaseFromServer ==
  ASSUME Base, NEW a \in Agents, FromServer(a)
  PROVE  Base'
<1>0. PICK m : m = Head(down[a])
  OBVIOUS
<1>1. /\ down[a] # <<>> /\ down' = [down EXCEPT ![a] = Tail(@)] /\ m \in DownMessages
      /\ UNCHANGED <<vars, home, at, via, asked, late, served, due>>
      /\ DeliverTo(Local(a, m), m)
      /\ \/ m.kind \notin Tracked /\ side' = side
         \/ m.kind \in Tracked /\ PassedOn(a, m)
         \/ m.kind \in Tracked /\ side' = side /\ m.to \subseteq Local(a, m)
      /\ up' = IF m.kind = "add_ack"
               THEN [up EXCEPT ![a] = @ \o SetToSeq({Req("list", p) : p \in Local(a, m)})]
               ELSE up
  BY <1>0, FromServerIs
<1>2. m \in Messages
  BY <1>1 DEF DownMessages
<1>3. /\ view' \in [Players -> Views] /\ board' \in [Players -> LoosePage]
      /\ heard' \in [Players -> SUBSET (Nat \X Tracked)] /\ echoed' \in [Players -> SUBSET (Nat \X Tracked)]
  BY <1>1, <1>2, DeliverTypes
<1>4. side' \in [Agents \X Agents -> Seq(SideMessages)]
  <2>1. CASE side' = side
    BY <2>1 DEF Base, WireTypes
  <2>2. CASE m.kind \in Tracked /\ PassedOn(a, m)
    <3>1. m \in SideMessages
      BY <1>2, <2>2 DEF SideMessages
    <3> QED BY <2>2, <3>1, SidePassed DEF Base
  <2> QED BY <1>1, <2>1, <2>2
<1>5. down' \in [Agents -> Seq(DownMessages)]
  BY <1>1, DownTaken DEF Base
<1>6. up' \in [Agents -> Seq(Requests)]
  <2>1. CASE m.kind = "add_ack"
    <3>1. PICK t \in Seq(Requests) : t = SetToSeq({Req("list", p) : p \in Local(a, m)})
      BY <1>1, <2>1, AsksForList
    <3>2. up' = [up EXCEPT ![a] = @ \o t]
      BY <1>1, <2>1, <3>1
    <3> QED BY <3>2, SendsMore DEF Base
  <2>2. CASE m.kind # "add_ack"
    BY <1>1, <2>2 DEF Base, WireTypes
  <2> QED BY <2>1, <2>2
<1>7. RoomTypes' /\ \A p \in Players : Registered(p)' <=> Registered(p)
  BY <1>1, SameRooms
<1>8. WireTypes'
  BY <1>4, <1>5, <1>6 DEF WireTypes
<1>9. ClientTypes'
  BY <1>1, <1>3, <1>7 DEF Base, ClientTypes
<1>10. CountTypes'
  BY <1>1, <1>3 DEF Base, CountTypes
<1> QED BY <1>7, <1>8, <1>9, <1>10 DEF Base

LEMMA BaseFromAgent ==
  ASSUME Base, NEW ba \in Agents \X Agents, FromAgent(ba[1], ba[2])
  PROVE  Base'
<1> DEFINE a == ba[2]
<1>0. PICK m : m = Head(side[ba])
  OBVIOUS
<1>1. /\ side[ba] # <<>> /\ side' = [side EXCEPT ![ba] = Tail(@)]
      /\ DeliverTo(Local(a, m), m)
      /\ UNCHANGED <<vars, home, at, via, up, down, asked, late, served, due>>
  <2>1. ba = <<ba[1], ba[2]>>
    OBVIOUS
  <2> QED BY <1>0, <2>1 DEF FromAgent
<1> HIDE DEF a
<1>2. side' \in [Agents \X Agents -> Seq(SideMessages)] /\ m \in Messages
  <2>1. side' \in [Agents \X Agents -> Seq(SideMessages)] /\ m \in SideMessages
    BY <1>0, <1>1, SideTaken DEF Base
  <2> QED BY <2>1 DEF SideMessages
<1>3. /\ view' \in [Players -> Views] /\ board' \in [Players -> LoosePage]
      /\ heard' \in [Players -> SUBSET (Nat \X Tracked)] /\ echoed' \in [Players -> SUBSET (Nat \X Tracked)]
  BY <1>1, <1>2, DeliverTypes
<1>7. RoomTypes' /\ \A p \in Players : Registered(p)' <=> Registered(p)
  BY <1>1, SameRooms
<1>8. WireTypes'
  BY <1>1, <1>2 DEF Base, WireTypes
<1>9. ClientTypes'
  BY <1>1, <1>3, <1>7 DEF Base, ClientTypes
<1>10. CountTypes'
  BY <1>1, <1>3 DEF Base, CountTypes
<1> QED BY <1>7, <1>8, <1>9, <1>10 DEF Base

LEMMA BaseChat ==
  ASSUME Base, NEW p \in Players, Chat(p)
  PROVE  Base'
<1>0. PICK m : m = Notice("chat", view[p].members, p)
  OBVIOUS
<1>1. /\ at[p] \in Agents /\ m \in SideMessages /\ m.kind \in Tracked
      /\ DeliverTo(Local(at[p], m), m) /\ PassedOn(at[p], m)
      /\ due' = [q \in Players |-> due[q] \cup IF at[q] # NoAgent /\ q \in m.to THEN {Id(m)} ELSE {}]
      /\ served' = served + 1 /\ UNCHANGED <<vars, home, at, via, up, down, late>>
  BY <1>0, ChatIs
<1>2. m \in Messages
  BY <1>1 DEF SideMessages
<1>3. /\ view' \in [Players -> Views] /\ board' \in [Players -> LoosePage]
      /\ heard' \in [Players -> SUBSET (Nat \X Tracked)] /\ echoed' \in [Players -> SUBSET (Nat \X Tracked)]
  BY <1>1, <1>2, DeliverTypes
<1>4. side' \in [Agents \X Agents -> Seq(SideMessages)]
  BY <1>1, SidePassed DEF Base
<1>5. due' \in [Players -> SUBSET (Nat \X Tracked)]
  <2>1. Id(m) \in Nat \X Tracked
    BY <1>1, <1>2, IdType
  <2> QED BY <1>1, <2>1 DEF Base, CountTypes
<1>7. RoomTypes' /\ \A q \in Players : Registered(q)' <=> Registered(q)
  BY <1>1, SameRooms
<1>8. WireTypes'
  BY <1>1, <1>4 DEF Base, WireTypes
<1>9. ClientTypes'
  BY <1>1, <1>3, <1>7 DEF Base, ClientTypes
<1>10. CountTypes'
  BY <1>1, <1>3, <1>5 DEF Base, CountTypes
<1> QED BY <1>7, <1>8, <1>9, <1>10 DEF Base

LEMMA BaseOthers ==
  ASSUME Base, UNCHANGED <<vars, home, via, down, side, served, late>>,
         up' \in [Agents -> Seq(Requests)], at' \in [Players -> Agents \cup {NoAgent}],
         view' \in [Players -> Views], board' \in [Players -> LoosePage],
         due' \in [Players -> SUBSET (Nat \X Tracked)], heard' \in [Players -> SUBSET (Nat \X Tracked)],
         echoed' \in [Players -> SUBSET (Nat \X Tracked)]
  PROVE  Base'
<1>1. RoomTypes' /\ \A q \in Players : Registered(q)' <=> Registered(q)
  BY SameRooms
<1>2. WireTypes' /\ CountTypes'
  BY DEF Base, WireTypes, CountTypes
<1>3. ClientTypes'
  BY <1>1 DEF Base, ClientTypes
<1> QED BY <1>1, <1>2, <1>3 DEF Base

(* What the players do. *)
LEMMA LeaveIs ==
  ASSUME Base, NEW p \in Players, Leave(p)
  PROVE  /\ at[p] \in Agents
         /\ \E n \in {1, 3} : up' = [up EXCEPT ![at[p]] = @ \o [k \in 1..n |-> Req("del", p)]]
         /\ up' \in [Agents -> Seq(Requests)]
<1>1. at[p] \in Agents
  BY DEF Leave, Asks, Base, ClientTypes
<1>2. PICK n \in {1, 3} : up' = [up EXCEPT ![at[p]] = @ \o [k \in 1..n |-> Req("del", p)]]
  BY DEF Leave
<1> DEFINE t == [k \in 1..n |-> Req("del", p)]
<1>3. t \in Seq(Requests)
  <2>1. Req("del", p) \in Requests /\ n \in Nat
    BY PlainRequest
  <2> QED BY <2>1
<1> HIDE DEF t
<1>4. up' = [up EXCEPT ![at[p]] = @ \o t]
  BY <1>2 DEF t
<1>5. up' \in [Agents -> Seq(Requests)]
  BY <1>1, <1>3, <1>4, SendsMore DEF Base
<1> QED BY <1>1, <1>2, <1>5

LEMMA BaseLeave ==
  ASSUME Base, NEW p \in Players, Leave(p)
  PROVE  Base'
<1>1. /\ at' = [at EXCEPT ![p] = NoAgent] /\ view' = [view EXCEPT ![p] = NoView]
      /\ board' = [board EXCEPT ![p] = NoPage] /\ due' = [due EXCEPT ![p] = {}]
      /\ heard' = [heard EXCEPT ![p] = {}] /\ echoed' = [echoed EXCEPT ![p] = {}]
      /\ UNCHANGED <<vars, home, via, down, side, late, served>>
  BY DEF Leave
<1>2. NoView \in Views /\ NoPage \in LoosePage
  BY ZeroIdx, NoPageType DEF NoView, Views, Someone
<1>3. /\ at' \in [Players -> Agents \cup {NoAgent}]
      /\ view' \in [Players -> Views] /\ board' \in [Players -> LoosePage]
      /\ due' \in [Players -> SUBSET (Nat \X Tracked)] /\ heard' \in [Players -> SUBSET (Nat \X Tracked)]
      /\ echoed' \in [Players -> SUBSET (Nat \X Tracked)]
  BY <1>1, <1>2 DEF Base, ClientTypes, CountTypes
<1> QED BY <1>1, <1>3, LeaveIs, BaseOthers

LEMMA EnterIs ==
  ASSUME Base, NEW p \in Players, Enter(p)
  PROVE  \E a \in IF Roams THEN Agents ELSE {home[p]} :
           /\ a \in Agents /\ at[p] = NoAgent /\ at' = [at EXCEPT ![p] = a]
           /\ up' = [up EXCEPT ![a] = Append(@, Req("add", p))]
           /\ up' \in [Agents -> Seq(Requests)]
           /\ UNCHANGED <<vars, home, via, down, side, clients, asked, late, history>>
<1>1. PICK a \in IF Roams THEN Agents ELSE {home[p]} :
        at' = [at EXCEPT ![p] = a] /\ up' = [up EXCEPT ![a] = Append(@, Req("add", p))]
  BY DEF Enter
<1>2. a \in Agents
  BY DEF Base, ClientTypes
<1>3. Req("add", p) \in Requests
  BY PlainRequest
<1>4. up' \in [Agents -> Seq(Requests)]
  BY <1>1, <1>2, <1>3, SendsOne DEF Base
<1> QED BY <1>1, <1>2, <1>4 DEF Enter

LEMMA BaseEnter ==
  ASSUME Base, NEW p \in Players, Enter(p)
  PROVE  Base'
<1>1. PICK a \in Agents :
        /\ at' = [at EXCEPT ![p] = a] /\ up' \in [Agents -> Seq(Requests)]
        /\ UNCHANGED <<vars, home, via, down, side, clients, late, history>>
  BY EnterIs
<1>2. at' \in [Players -> Agents \cup {NoAgent}]
  BY <1>1 DEF Base, ClientTypes
<1>3. /\ view' \in [Players -> Views] /\ board' \in [Players -> LoosePage] /\ served' = served
      /\ due' \in [Players -> SUBSET (Nat \X Tracked)] /\ heard' \in [Players -> SUBSET (Nat \X Tracked)]
      /\ echoed' \in [Players -> SUBSET (Nat \X Tracked)]
  BY <1>1 DEF Base, ClientTypes, CountTypes, clients, history
<1> QED BY <1>1, <1>2, <1>3, BaseOthers

(* A request that is not of coming and going. *)
LEMMA AskIs ==
  ASSUME Base, NEW p \in Players, Ask(p)
  PROVE  \E m \in Requests : /\ m.by = p /\ m.kind \notin {"add", "force", "del"} /\ at[p] \in Agents
                             /\ up' = [up EXCEPT ![at[p]] = Append(@, m)]
                             /\ up' \in [Agents -> Seq(Requests)]
<1>1. at[p] \in Agents /\ view[p] \in Views
  BY DEF Ask, Asks, Base, ClientTypes
<1>2. PICK m \in Wish(p) : up' = [up EXCEPT ![at[p]] = Append(@, m)]
  BY DEF Ask
<1>3. m \in Requests /\ m.by = p /\ m.kind \notin {"add", "force", "del"}
  BY <1>1, WishType
<1>4. up' \in [Agents -> Seq(Requests)]
  BY <1>1, <1>2, <1>3, SendsOne DEF Base
<1> QED BY <1>1, <1>2, <1>3, <1>4

LEMMA ForceIs ==
  ASSUME Base, NEW p \in Players, ForceRegistPlayerToLobby(p)
  PROVE  /\ at[p] \in Agents /\ up' = [up EXCEPT ![at[p]] = Append(@, Req("force", p))]
         /\ up' \in [Agents -> Seq(Requests)]
<1>1. at[p] \in Agents /\ up' = [up EXCEPT ![at[p]] = Append(@, Req("force", p))]
  BY DEF ForceRegistPlayerToLobby, Asks, Base, ClientTypes
<1>2. Req("force", p) \in Requests
  BY PlainRequest
<1> QED BY <1>1, <1>2, SendsOne DEF Base

LEMMA BaseAsks ==
  ASSUME Base, NEW p \in Players, Ask(p) \/ ForceRegistPlayerToLobby(p)
  PROVE  Base'
<1>1. UNCHANGED <<vars, home, at, via, down, side, clients, late, history>>
  BY DEF Ask, ForceRegistPlayerToLobby
<1>2. up' \in [Agents -> Seq(Requests)]
  BY AskIs, ForceIs
<1>3. /\ at' \in [Players -> Agents \cup {NoAgent}]
      /\ view' \in [Players -> Views] /\ board' \in [Players -> LoosePage] /\ served' = served
      /\ due' \in [Players -> SUBSET (Nat \X Tracked)] /\ heard' \in [Players -> SUBSET (Nat \X Tracked)]
      /\ echoed' \in [Players -> SUBSET (Nat \X Tracked)]
  BY <1>1 DEF Base, ClientTypes, CountTypes, clients, history
<1> QED BY <1>1, <1>2, <1>3, BaseOthers

LEMMA BaseStutters ==
  ASSUME Base, UNCHANGED <<vars, relayVars>>
  PROVE  Base'
<1>1. UNCHANGED <<vars, home, at, via, up, down, side, view, board, late, served, due, heard, echoed>>
  BY DEF relayVars, wires, clients, history
<1>2. /\ up' \in [Agents -> Seq(Requests)] /\ at' \in [Players -> Agents \cup {NoAgent}]
      /\ view' \in [Players -> Views] /\ board' \in [Players -> LoosePage]
      /\ due' \in [Players -> SUBSET (Nat \X Tracked)] /\ heard' \in [Players -> SUBSET (Nat \X Tracked)]
      /\ echoed' \in [Players -> SUBSET (Nat \X Tracked)]
  BY <1>1 DEF Base, WireTypes, ClientTypes, CountTypes
<1> QED BY <1>1, <1>2, BaseOthers

LEMMA NoticeNext ==
  ASSUME Base, NoticeInv, [RelayNext]_<<vars, relayVars>>
  PROVE  Base' /\ NoticeInv'
<1>1. ASSUME NEW a \in Agents, Serve(a) PROVE Base' /\ NoticeInv'
  <2>1. UNCHANGED <<at, side, heard, echoed>>
    BY <1>1 DEF Serve
  <2>2. Answered(a) \/ Silent
    BY <1>1, ServedMakes DEF ServeMakes
  <2>3. Silent => NoticeInv'
    BY <2>1, NoticeSame DEF Silent
  <2> QED BY <1>1, <2>1, <2>2, <2>3, NoticeAnswered, BaseServe
<1>2. ASSUME NEW a \in Agents, FromServer(a) PROVE Base' /\ NoticeInv'
  BY <1>2, NoticeFromServer, BaseFromServer
<1>3. ASSUME NEW ba \in Agents \X Agents, FromAgent(ba[1], ba[2]) PROVE Base' /\ NoticeInv'
  BY <1>3, NoticeFromAgent, BaseFromAgent
<1>4. ASSUME NEW p \in Players, Enter(p) PROVE Base' /\ NoticeInv'
  <2>1. PICK a \in Agents :
          /\ at[p] = NoAgent /\ at' = [at EXCEPT ![p] = a]
          /\ UNCHANGED <<vars, home, via, down, side, clients, asked, late, history>>
    BY <1>4, EnterIs
  <2>2. UNCHANGED <<down, side, served, due, heard, echoed>>
    BY <2>1 DEF history
  <2>3. heard[p] = {} /\ due[p] = {}
    BY <2>1 DEF NoticeInv, NowhereNothing
  <2>4. \A q \in Players : at'[q] = at[q] \/ (heard[q] = {} /\ due[q] = {})
    BY <2>1, <2>3 DEF Base, ClientTypes
  <2> QED BY <1>4, <2>2, <2>4, NoticeSame, BaseEnter
<1>5. ASSUME NEW p \in Players, Leave(p) PROVE Base' /\ NoticeInv'
  <2>1. /\ at' = [at EXCEPT ![p] = NoAgent] /\ due' = [due EXCEPT ![p] = {}]
        /\ heard' = [heard EXCEPT ![p] = {}] /\ echoed' = [echoed EXCEPT ![p] = {}]
        /\ UNCHANGED <<down, side, served>>
    BY <1>5 DEF Leave
  <2> QED BY <1>5, <2>1, NoticeLeave, BaseLeave
<1>6. ASSUME NEW p \in Players, Ask(p) \/ ForceRegistPlayerToLobby(p) PROVE Base' /\ NoticeInv'
  <2>1. UNCHANGED <<at, down, side, served, due, heard, echoed>>
    BY <1>6 DEF Ask, ForceRegistPlayerToLobby, history
  <2> QED BY <1>6, <2>1, NoticeSame, BaseAsks
<1>7. ASSUME NEW p \in Players, Chat(p) PROVE Base' /\ NoticeInv'
  BY <1>7, NoticeChat, BaseChat
<1>8. ASSUME UNCHANGED <<vars, relayVars>> PROVE Base' /\ NoticeInv'
  <2>1. UNCHANGED <<at, down, side, served, due, heard, echoed>>
    BY <1>8 DEF relayVars, wires, history
  <2> QED BY <1>8, <2>1, NoticeSame, BaseStutters
<1> QED BY <1>1, <1>2, <1>3, <1>4, <1>5, <1>6, <1>7, <1>8 DEF RelayNext

LEMMA NoticeEnough ==
  ASSUME Base, NoticeInv
  PROVE  NoticesOnce
<1>1. ASSUME Quiet, NEW p \in Players PROVE due[p] \subseteq heard[p]
  <2> SUFFICES ASSUME NEW id \in due[p] \ heard[p] PROVE FALSE
    OBVIOUS
  <2>1. at[p] \in Agents
    BY DEF NoticeInv, NowhereNothing, Base, ClientTypes
  <2>2. \A a \in Agents : DOMAIN down[a] = {} /\ DOMAIN side[<<a, at[p]>>] = {}
    BY <1>1, <2>1 DEF Quiet
  <2> QED BY <2>2 DEF NoticeInv, OnTheWay
<1> QED BY <1>1 DEF NoticesOnce, HeardOnce, NoticesArrive, NoticeInv

(* Nobody is sent a notice twice, and whoever was named in one and has     *)
(* not gone meanwhile has been sent it when nothing is under way, wherever *)
(* the players come back and however late the requests are.                *)
THEOREM NoticesArriveOnce == RelaySpec => []NoticesOnce
<1> DEFINE J == Base /\ NoticeInv
<1>1. RelayInit => J
  BY BaseInit, NoticeInit
<1>2. J /\ [RelayNext]_<<vars, relayVars>> => J'
  BY NoticeNext
<1>3. J => NoticesOnce
  BY NoticeEnough
<1> QED BY <1>1, <1>2, <1>3, PTL DEF RelaySpec

(* Every link carries what its reader expects. *)
THEOREM RelayTypes == RelaySpec => []Base
<1> DEFINE J == Base /\ NoticeInv
<1>1. RelayInit => J
  BY BaseInit, NoticeInit
<1>2. J /\ [RelayNext]_<<vars, relayVars>> => J'
  BY NoticeNext
<1>3. J => Base
  OBVIOUS
<1> QED BY <1>1, <1>2, <1>3, PTL DEF RelaySpec

-----------------------------------------------------------------------------
(* Who is registered, where.                                               *)

Comings == {"add", "force", "del"}

Word(p, m) == m.by = p /\ m.kind \in Comings

(* A player that does not roam has all its comings and goings in the queue *)
(* of its agent; the last of them says where it is.                        *)
LastWord(p, q) ==
  /\ (\A i \in DOMAIN q : ~Word(p, q[i])) => (Registered(p) <=> at[p] # NoAgent)
  /\ \A i \in DOMAIN q :
       Word(p, q[i]) /\ (\A j \in DOMAIN q : j > i => ~Word(p, q[j])) => (q[i].kind = "del" <=> at[p] = NoAgent)

AtHome(p) ==
  /\ at[p] \in {home[p], NoAgent} /\ via[p] \in {home[p], NoAgent}
  /\ \A a \in Agents : \A i \in DOMAIN up[a] : Word(p, up[a][i]) => a = home[p]

RegOf(p) == AtHome(p) /\ LastWord(p, up[home[p]])

RegInv == \A p \in Players : RegOf(p)

(* Queues get longer at the end and shorter at the front. *)
LEMMA LastMore ==
  ASSUME NEW p \in Players, NEW q \in Seq(Requests), NEW t \in Seq(Requests), LastWord(p, q),
         \A i \in DOMAIN t : ~Word(p, t[i]), Registered(p)' <=> Registered(p), at'[p] = at[p]
  PROVE  LastWord(p, q \o t)'
<1>1. /\ Len(q) \in Nat /\ Len(t) \in Nat /\ DOMAIN q = 1..Len(q) /\ DOMAIN t = 1..Len(t)
      /\ DOMAIN (q \o t) = 1..(Len(q) + Len(t))
      /\ \A i \in 1..Len(q) : (q \o t)[i] = q[i]
      /\ \A i \in 1..Len(t) : (q \o t)[Len(q) + i] = t[i]
  BY ConcatOf
<1> DEFINE w == q \o t
<1>2. \A i \in DOMAIN q : i \in DOMAIN w /\ w[i] = q[i]
  BY <1>1
<1>3. \A i \in DOMAIN w : (i \in DOMAIN q /\ w[i] = q[i]) \/ ~Word(p, w[i])
  <2> SUFFICES ASSUME NEW i \in DOMAIN w, i \notin DOMAIN q PROVE ~Word(p, w[i])
    BY <1>2
  <2>1. i - Len(q) \in DOMAIN t /\ Len(q) + (i - Len(q)) = i
    BY <1>1
  <2>2. w[i] = t[i - Len(q)]
    BY <1>1, <2>1
  <2> QED BY <2>1, <2>2
<1> HIDE DEF w
<1>4. (\A i \in DOMAIN w : ~Word(p, w[i])) => (Registered(p)' <=> at'[p] # NoAgent)
  BY <1>2 DEF LastWord
<1>5. ASSUME NEW i \in DOMAIN w, Word(p, w[i]), \A j \in DOMAIN w : j > i => ~Word(p, w[j])
      PROVE  w[i].kind = "del" <=> at'[p] = NoAgent
  <2>1. i \in DOMAIN q /\ w[i] = q[i]
    BY <1>3, <1>5
  <2>2. \A j \in DOMAIN q : j > i => ~Word(p, q[j])
    BY <1>2, <1>5
  <2> QED BY <1>5, <2>1, <2>2 DEF LastWord
<1>6. LastWord(p, w)'
  BY <1>4, <1>5 DEF LastWord
<1> QED BY <1>6 DEF w

LEMMA LastSaid ==
  ASSUME NEW p \in Players, NEW q \in Seq(Requests), NEW t \in Seq(Requests), Len(t) > 0,
         \A i \in DOMAIN t : Word(p, t[i]) /\ (t[i].kind = "del" <=> at'[p] = NoAgent)
  PROVE  LastWord(p, q \o t)'
<1>1. /\ Len(q) \in Nat /\ Len(t) \in Nat /\ DOMAIN q = 1..Len(q) /\ DOMAIN t = 1..Len(t)
      /\ DOMAIN (q \o t) = 1..(Len(q) + Len(t))
      /\ \A i \in 1..Len(t) : (q \o t)[Len(q) + i] = t[i]
  BY ConcatOf
<1> DEFINE w == q \o t
           l == Len(q) + Len(t)
<1>2. l \in DOMAIN w /\ \A i \in DOMAIN q : l > i
  BY <1>1
<1>3. w[l] = t[Len(t)] /\ Len(t) \in DOMAIN t
  BY <1>1
<1>4. \A i \in DOMAIN w : i \in DOMAIN q \/ (Word(p, w[i]) /\ (w[i].kind = "del" <=> at'[p] = NoAgent))
  <2> SUFFICES ASSUME NEW i \in DOMAIN w, i \notin DOMAIN q
               PROVE  Word(p, w[i]) /\ (w[i].kind = "del" <=> at'[p] = NoAgent)
    OBVIOUS
  <2>1. i - Len(q) \in DOMAIN t /\ Len(q) + (i - Len(q)) = i
    BY <1>1
  <2>2. w[i] = t[i - Len(q)]
    BY <1>1, <2>1
  <2> QED BY <2>1, <2>2
<1> HIDE DEF w, l
<1>5. Word(p, w[l])
  BY <1>3
<1>6. ~ \A i \in DOMAIN w : ~Word(p, w[i])
  BY <1>2, <1>5
<1>7. ASSUME NEW i \in DOMAIN w, Word(p, w[i]), \A j \in DOMAIN w : j > i => ~Word(p, w[j])
      PROVE  w[i].kind = "del" <=> at'[p] = NoAgent
  BY <1>2, <1>4, <1>5, <1>7
<1>8. LastWord(p, w)'
  BY <1>6, <1>7 DEF LastWord
<1> QED BY <1>8 DEF w

LEMMA LastLess ==
  ASSUME NEW p \in Players, NEW q \in Seq(Requests), q # <<>>, LastWord(p, q), at'[p] = at[p],
         ~Word(p, Head(q)) => (Registered(p)' <=> Registered(p)),
         Word(p, Head(q)) => (Registered(p)' <=> Head(q).kind # "del")
  PROVE  LastWord(p, Tail(q))'
<1>1. /\ Len(q) \in Nat /\ DOMAIN q = 1..Len(q) /\ DOMAIN Tail(q) = 1..(Len(q) - 1)
      /\ \A i \in 1..(Len(q) - 1) : Tail(q)[i] = q[i + 1]
      /\ Head(q) = q[1] /\ Len(q) > 0
  BY TailOf
<1> DEFINE w == Tail(q)
<1>2. \A i \in DOMAIN w : i + 1 \in DOMAIN q /\ w[i] = q[i + 1] /\ i \in Nat
  BY <1>1
<1>3. \A i \in DOMAIN q : i = 1 \/ (i - 1 \in DOMAIN w /\ w[i - 1] = q[i] /\ i \in Nat)
  <2> SUFFICES ASSUME NEW i \in DOMAIN q, i # 1 PROVE i - 1 \in DOMAIN w /\ w[i - 1] = q[i] /\ i \in Nat
    OBVIOUS
  <2>1. i - 1 \in 1..(Len(q) - 1) /\ (i - 1) + 1 = i /\ i \in Nat
    BY <1>1
  <2> QED BY <1>1, <2>1
<1>h. 1 \in DOMAIN q /\ q[1] = Head(q)
  BY <1>1
<1>n. \A i \in DOMAIN q : i \in Nat /\ i >= 1
  BY <1>1
<1> HIDE DEF w
<1>4. ASSUME \A i \in DOMAIN w : ~Word(p, w[i])
      PROVE  Registered(p)' <=> at'[p] # NoAgent
  <2>1. \A i \in DOMAIN q : i # 1 => ~Word(p, q[i])
    BY <1>3, <1>4
  <2>2. CASE Word(p, Head(q))
    <3>1. \A j \in DOMAIN q : j > 1 => ~Word(p, q[j])
      BY <1>n, <2>1
    <3>2. Head(q).kind = "del" <=> at[p] = NoAgent
      BY <1>h, <2>2, <3>1 DEF LastWord
    <3> QED BY <2>2, <3>2
  <2>3. CASE ~Word(p, Head(q))
    <3>1. \A i \in DOMAIN q : ~Word(p, q[i])
      BY <1>h, <2>1, <2>3
    <3>2. Registered(p) <=> at[p] # NoAgent
      BY <3>1 DEF LastWord
    <3> QED BY <2>3, <3>2
  <2> QED BY <2>2, <2>3
<1>5. ASSUME NEW i \in DOMAIN w, Word(p, w[i]), \A j \in DOMAIN w : j > i => ~Word(p, w[j])
      PROVE  w[i].kind = "del" <=> at'[p] = NoAgent
  <2>1. i + 1 \in DOMAIN q /\ w[i] = q[i + 1] /\ i \in Nat
    BY <1>2
  <2>2. \A j \in DOMAIN q : j > i + 1 => ~Word(p, q[j])
    <3> SUFFICES ASSUME NEW j \in DOMAIN q, j > i + 1 PROVE ~Word(p, q[j])
      OBVIOUS
    <3>1. j # 1 /\ j \in Nat
      BY <1>n, <2>1
    <3>2. j - 1 \in DOMAIN w /\ w[j - 1] = q[j]
      BY <1>3, <3>1
    <3>3. j - 1 > i
      BY <2>1, <3>1
    <3> QED BY <1>5, <3>2, <3>3
  <2>3. q[i + 1].kind = "del" <=> at[p] = NoAgent
    <3>1. Word(p, q[i + 1])
      BY <1>5, <2>1
    <3> QED BY <2>1, <2>2, <3>1 DEF LastWord
  <2> QED BY <2>1, <2>3
<1>6. LastWord(p, w)'
  BY <1>4, <1>5 DEF LastWord
<1> QED BY <1>6 DEF w

LEMMA AppendIs ==
  ASSUME NEW S, NEW q \in Seq(S), NEW e \in S
  PROVE  Append(q, e) = q \o <<e>> /\ <<e>> \in Seq(S) /\ Len(<<e>>) = 1 /\ DOMAIN <<e>> = {1} /\ <<e>>[1] = e
OBVIOUS

(* Serving a request registers and deletes nobody else. *)
LEMMA AddRegisters ==
  ASSUME Base, NEW a \in Agents, NEW p \in Players, ServeAdd(a, p)
  PROVE  /\ Registered(p)' /\ via'[p] \in {via[p], a}
         /\ \A q \in Players \ {p} : (Registered(q)' <=> Registered(q)) /\ via'[q] = via[q]
<1>0. via \in [Players -> Agents \cup {NoAgent}]
  BY DEF Base, ClientTypes
<1>1. CASE Registered(p)
  <2>1. UNCHANGED <<user, via>>
    BY <1>1 DEF ServeAdd, vars
  <2> QED BY <1>1, <2>1 DEF Registered
<1>2. CASE ~Registered(p)
  <2>1. AddUserSyn(p) /\ via' = [via EXCEPT ![p] = a]
    BY <1>2 DEF ServeAdd
  <2>2. user'[p] = 0 /\ \A q \in Players \ {p} : user'[q] = user[q]
    BY <2>1, AddTypes DEF Base
  <2> QED BY <1>0, <2>1, <2>2, ZeroIdx DEF Registered
<1> QED BY <1>1, <1>2

LEMMA ForceRegisters ==
  ASSUME Base, NEW a \in Agents, NEW p \in Players, ServeForce(a, p)
  PROVE  /\ Registered(p)' /\ via'[p] = a
         /\ \A q \in Players \ {p} : (Registered(q)' <=> Registered(q)) /\ via'[q] = via[q]
<1>0. via \in [Players -> Agents \cup {NoAgent}]
  BY DEF Base, ClientTypes
<1>1. /\ LeaveAs(p, 0, IF InRoom(p) THEN Absent ELSE search[p])
      /\ via' = [via EXCEPT ![p] = a]
  BY DEF ServeForce, ForceAddUserSyn
<1>2. user'[p] = 0 /\ \A q \in Players \ {p} : user'[q] = user[q]
  BY <1>1, LeaveAsTypes DEF Base
<1> QED BY <1>0, <1>1, <1>2, ZeroIdx DEF Registered

LEMMA DelRegisters ==
  ASSUME Base, NEW a \in Agents, NEW p \in Players, ServeDel(a, p)
  PROVE  /\ ~Registered(p)' /\ via'[p] \in {via[p], NoAgent}
         /\ \A q \in Players \ {p} : (Registered(q)' <=> Registered(q)) /\ via'[q] = via[q]
<1>0. via \in [Players -> Agents \cup {NoAgent}]
  BY DEF Base, ClientTypes
<1>1. CASE Registered(p)
  <2>1. LeaveAs(p, Absent, Absent) /\ via' = [via EXCEPT ![p] = NoAgent]
    BY <1>1 DEF ServeDel, DelUserSyn
  <2>2. user'[p] = Absent /\ \A q \in Players \ {p} : user'[q] = user[q]
    BY <2>1, LeaveAsTypes DEF Base
  <2> QED BY <1>0, <2>1, <2>2 DEF Registered
<1>2. CASE ~Registered(p)
  <2>1. UNCHANGED <<user, via>>
    BY <1>2 DEF ServeDel, vars
  <2> QED BY <1>2, <2>1 DEF Registered
<1> QED BY <1>1, <1>2

LEMMA ServedRegisters ==
  ASSUME Base, NEW a \in Agents, Serve(a), NEW m, m = Head(up[a]), NEW p \in Players
  PROVE  /\ ~Word(p, m) => (Registered(p)' <=> Registered(p)) /\ via'[p] = via[p]
         /\ Word(p, m) => (Registered(p)' <=> m.kind # "del") /\ via'[p] \in {via[p], a, NoAgent}
<1>1. up[a] \in Seq(Requests) /\ up[a] # <<>>
  BY DEF Base, WireTypes, Serve
<1>2. m \in Requests
  BY <1>1, TailOf
<1>3. m.by \in Players
  BY <1>2, RequestFields
<1>4. CASE m.kind = "add" /\ ServeAdd(a, m.by)
  <2>1. PICK q \in Players : q = m.by
    BY <1>3
  <2>2. Registered(q)' /\ via'[q] \in {via[q], a}
        /\ \A o \in Players \ {q} : (Registered(o)' <=> Registered(o)) /\ via'[o] = via[o]
    BY <1>4, <2>1, AddRegisters
  <2> QED BY <1>4, <2>1, <2>2 DEF Word, Comings
<1>5. CASE m.kind = "force" /\ ServeForce(a, m.by)
  <2>1. PICK q \in Players : q = m.by
    BY <1>3
  <2>2. Registered(q)' /\ via'[q] = a
        /\ \A o \in Players \ {q} : (Registered(o)' <=> Registered(o)) /\ via'[o] = via[o]
    BY <1>5, <2>1, ForceRegisters
  <2> QED BY <1>5, <2>1, <2>2 DEF Word, Comings
<1>6. CASE m.kind = "del" /\ ServeDel(a, m.by)
  <2>1. PICK q \in Players : q = m.by
    BY <1>3
  <2>2. ~Registered(q)' /\ via'[q] \in {via[q], NoAgent}
        /\ \A o \in Players \ {q} : (Registered(o)' <=> Registered(o)) /\ via'[o] = via[o]
    BY <1>6, <2>1, DelRegisters
  <2> QED BY <1>6, <2>1, <2>2 DEF Word, Comings
<1>7. CASE m.kind = "list" /\ ServeList(a, m.by)
  <2>1. UNCHANGED <<user, via>>
    BY <1>7 DEF ServeList, vars
  <2> QED BY <1>7, <2>1 DEF Word, Comings, Registered
<1>8. CASE Granted(a, m) /\ via' = via
  <2>1. m.kind \notin Comings
    BY <1>8 DEF Granted, Comings
  <2>2. \A q \in Players : Registered(q)' <=> Registered(q)
    BY <1>2, <1>8, GrantedMakes
  <2> QED BY <1>8, <2>1, <2>2 DEF Word
<1>9. CASE Refused(a, m) /\ via' = via
  <2>1. m.kind \notin Comings
    BY <1>9 DEF Refused, Comings
  <2>2. user' = user
    BY <1>9, RefusedMakes DEF vars
  <2> QED BY <1>9, <2>1, <2>2 DEF Word, Registered
<1> QED BY <1>4, <1>5, <1>6, <1>7, <1>8, <1>9 DEF Serve

(* What a step makes of the words of one player. *)
LEMMA LastIs ==
  ASSUME NEW p \in Players, NEW w, w = up'[home'[p]], LastWord(p, w)'
  PROVE  LastWord(p, up[home[p]])'
BY DEF LastWord

LEMMA RegSame ==
  ASSUME NEW p \in Players, RegOf(p), UNCHANGED <<home, up>>,
         at'[p] = at[p], via'[p] = via[p], Registered(p)' <=> Registered(p)
  PROVE  RegOf(p)'
BY DEF RegOf, AtHome, LastWord

LEMMA RegMore ==
  ASSUME Base, NEW p \in Players, RegOf(p), home' = home,
         at'[p] = at[p], via'[p] = via[p], Registered(p)' <=> Registered(p),
         NEW a \in Agents, NEW t \in Seq(Requests), up' = [up EXCEPT ![a] = @ \o t],
         \A i \in DOMAIN t : ~Word(p, t[i])
  PROVE  RegOf(p)'
<1>1. /\ up \in [Agents -> Seq(Requests)] /\ home[p] \in Agents /\ up[a] \in Seq(Requests)
      /\ up'[a] = up[a] \o t /\ \A b \in Agents \ {a} : up'[b] = up[b]
  BY DEF Base, WireTypes, ClientTypes
<1>2. AtHome(p)'
  <2>1. ASSUME NEW i \in DOMAIN (up[a] \o t), Word(p, (up[a] \o t)[i]) PROVE a = home[p]
    <3>1. PICK q \in Seq(Requests) : q = up[a]
      BY <1>1
    <3>2. /\ Len(q) \in Nat /\ Len(t) \in Nat /\ DOMAIN q = 1..Len(q) /\ DOMAIN t = 1..Len(t)
          /\ DOMAIN (q \o t) = 1..(Len(q) + Len(t))
          /\ \A k \in 1..Len(q) : (q \o t)[k] = q[k]
          /\ \A k \in 1..Len(t) : (q \o t)[Len(q) + k] = t[k]
      BY ConcatOf
    <3>3. CASE i \in DOMAIN q
      <4>1. (q \o t)[i] = q[i]
        BY <3>2, <3>3
      <4>2. Word(p, up[a][i]) /\ i \in DOMAIN up[a]
        BY <2>1, <3>1, <3>3, <4>1
      <4> QED BY <4>2 DEF RegOf, AtHome
    <3>4. CASE i \notin DOMAIN q
      <4>1. i - Len(q) \in DOMAIN t /\ Len(q) + (i - Len(q)) = i
        BY <2>1, <3>1, <3>2, <3>4
      <4>2. (q \o t)[i] = t[i - Len(q)]
        BY <3>2, <4>1
      <4> QED BY <2>1, <3>1, <4>1, <4>2
    <3> QED BY <3>3, <3>4
  <2>2. ASSUME NEW b \in Agents, NEW i \in DOMAIN up'[b], Word(p, up'[b][i]) PROVE b = home[p]
    <3>1. CASE b = a
      BY <1>1, <2>1, <2>2, <3>1
    <3>2. CASE b # a
      BY <1>1, <2>2, <3>2 DEF RegOf, AtHome
    <3> QED BY <3>1, <3>2
  <2> QED BY <2>2 DEF RegOf, AtHome, Word
<1>3. LastWord(p, up[home[p]])'
  <2>1. CASE a = home[p]
    <3>1. PICK q \in Seq(Requests) : q = up[a]
      BY <1>1
    <3>2. LastWord(p, q)
      BY <2>1, <3>1 DEF RegOf
    <3>3. LastWord(p, q \o t)'
      BY <3>2, LastMore
    <3>4. PICK w : w = q \o t
      OBVIOUS
    <3>5. w = up'[home'[p]] /\ LastWord(p, w)'
      BY <1>1, <2>1, <3>1, <3>3, <3>4 DEF LastWord
    <3> QED BY <3>5, LastIs
  <2>2. CASE a # home[p]
    <3>1. up'[home'[p]] = up[home[p]]
      BY <1>1, <2>2
    <3> QED BY <3>1 DEF RegOf, LastWord
  <2> QED BY <2>1, <2>2
<1> QED BY <1>2, <1>3 DEF RegOf

LEMMA RegSaid ==
  ASSUME Base, NEW p \in Players, RegOf(p), home' = home, via'[p] = via[p],
         at'[p] \in {home[p], NoAgent},
         NEW t \in Seq(Requests), up' = [up EXCEPT ![home[p]] = @ \o t], Len(t) > 0,
         \A i \in DOMAIN t : Word(p, t[i]) /\ (t[i].kind = "del" <=> at'[p] = NoAgent)
  PROVE  RegOf(p)'
<1>1. /\ up \in [Agents -> Seq(Requests)] /\ home[p] \in Agents /\ up[home[p]] \in Seq(Requests)
      /\ up'[home[p]] = up[home[p]] \o t /\ \A b \in Agents \ {home[p]} : up'[b] = up[b]
  BY DEF Base, WireTypes, ClientTypes
<1>2. AtHome(p)'
  <2>1. ASSUME NEW b \in Agents, NEW i \in DOMAIN up'[b], Word(p, up'[b][i]) PROVE b = home[p]
    BY <1>1, <2>1 DEF RegOf, AtHome
  <2> QED BY <2>1 DEF RegOf, AtHome, Word
<1>3. PICK q \in Seq(Requests) : q = up[home[p]]
  BY <1>1
<1>4. LastWord(p, q \o t)'
  BY LastSaid
<1>5. PICK w : w = q \o t
  OBVIOUS
<1>6. w = up'[home'[p]] /\ LastWord(p, w)'
  BY <1>1, <1>3, <1>4, <1>5 DEF LastWord
<1> QED BY <1>2, <1>6, LastIs DEF RegOf

LEMMA RegLess ==
  ASSUME Base, NEW p \in Players, RegOf(p), home' = home, at'[p] = at[p],
         NEW a \in Agents, up[a] # <<>>, up' = [up EXCEPT ![a] = Tail(@)],
         NEW m, m = Head(up[a]),
         ~Word(p, m) => (Registered(p)' <=> Registered(p)) /\ via'[p] = via[p],
         Word(p, m) => (Registered(p)' <=> m.kind # "del") /\ via'[p] \in {via[p], a, NoAgent}
  PROVE  RegOf(p)'
<1>1. /\ up \in [Agents -> Seq(Requests)] /\ home[p] \in Agents /\ up[a] \in Seq(Requests)
      /\ up'[a] = Tail(up[a]) /\ \A b \in Agents \ {a} : up'[b] = up[b]
  BY DEF Base, WireTypes, ClientTypes
<1>2. 1 \in DOMAIN up[a] /\ up[a][1] = m
  BY <1>1, HeadIn
<1>3. Word(p, m) => a = home[p]
  BY <1>2 DEF RegOf, AtHome
<1>4. AtHome(p)'
  <2>1. ASSUME NEW b \in Agents, NEW i \in DOMAIN up'[b], Word(p, up'[b][i]) PROVE b = home[p]
    <3>1. CASE b = a
      <4>1. i \in DOMAIN Tail(up[a]) /\ up'[b][i] = Tail(up[a])[i]
        BY <1>1, <3>1
      <4>2. i + 1 \in DOMAIN up[a] /\ Tail(up[a])[i] = up[a][i + 1]
        BY <1>1, <4>1, TailIn
      <4> QED BY <2>1, <3>1, <4>1, <4>2 DEF RegOf, AtHome
    <3>2. CASE b # a
      BY <1>1, <2>1, <3>2 DEF RegOf, AtHome
    <3> QED BY <3>1, <3>2
  <2>2. via'[p] \in {home[p], NoAgent}
    BY <1>3 DEF RegOf, AtHome
  <2> QED BY <2>1, <2>2 DEF RegOf, AtHome, Word
<1>5. LastWord(p, up[home[p]])'
  <2>1. CASE a = home[p]
    <3>1. PICK q \in Seq(Requests) : q = up[a]
      BY <1>1
    <3>2. LastWord(p, q) /\ q # <<>> /\ Head(q) = m
      BY <2>1, <3>1 DEF RegOf
    <3>3. LastWord(p, Tail(q))'
      BY <3>2, LastLess
    <3>4. PICK w : w = Tail(q)
      OBVIOUS
    <3>5. w = up'[home'[p]] /\ LastWord(p, w)'
      BY <1>1, <2>1, <3>1, <3>3, <3>4 DEF LastWord
    <3> QED BY <3>5, LastIs
  <2>2. CASE a # home[p]
    <3>1. up'[home'[p]] = up[home[p]]
      BY <1>1, <2>2
    <3>2. Registered(p)' <=> Registered(p)
      BY <1>3, <2>2
    <3> QED BY <3>1, <3>2 DEF RegOf, LastWord
  <2> QED BY <2>1, <2>2
<1> QED BY <1>4, <1>5 DEF RegOf

(* The registrations follow, step by step. *)
LEMMA RegInit ==
  ASSUME RelayInit
  PROVE  RegInv
<1> SUFFICES ASSUME NEW p \in Players PROVE RegOf(p)
  BY DEF RegInv
<1>1. /\ home[p] \in Agents /\ at[p] = home[p] /\ via[p] = home[p] /\ user[p] = 0
      /\ \A a \in Agents : up[a] = <<>>
  BY DEF RelayInit
<1>2. \A a \in Agents : DOMAIN up[a] = {}
  BY <1>1
<1>3. Registered(p) /\ at[p] # NoAgent
  BY <1>1, ZeroIdx, RelayAssumption DEF Registered
<1> QED BY <1>1, <1>2, <1>3 DEF RegOf, AtHome, LastWord

LEMMA RegServe ==
  ASSUME Base, RegInv, NEW a \in Agents, Serve(a)
  PROVE  RegInv'
<1> SUFFICES ASSUME NEW p \in Players PROVE RegOf(p)'
  BY DEF RegInv
<1>1. PICK m : m = Head(up[a])
  OBVIOUS
<1>2. up[a] # <<>> /\ up' = [up EXCEPT ![a] = Tail(@)] /\ UNCHANGED <<home, at>>
  BY DEF Serve
<1>3. /\ ~Word(p, m) => (Registered(p)' <=> Registered(p)) /\ via'[p] = via[p]
      /\ Word(p, m) => (Registered(p)' <=> m.kind # "del") /\ via'[p] \in {via[p], a, NoAgent}
  BY <1>1, ServedRegisters
<1> QED BY <1>1, <1>2, <1>3, RegLess DEF RegInv

LEMMA RegFromServer ==
  ASSUME Base, RegInv, NEW a \in Agents, FromServer(a)
  PROVE  RegInv'
<1> SUFFICES ASSUME NEW p \in Players PROVE RegOf(p)'
  BY DEF RegInv
<1>1. PICK m : m = Head(down[a])
  OBVIOUS
<1>2. /\ m \in DownMessages /\ UNCHANGED <<vars, home, at, via>>
      /\ up' = IF m.kind = "add_ack"
               THEN [up EXCEPT ![a] = @ \o SetToSeq({Req("list", q) : q \in Local(a, m)})]
               ELSE up
  BY <1>1, FromServerIs
<1>3. (Registered(p)' <=> Registered(p)) /\ at'[p] = at[p] /\ via'[p] = via[p]
  BY <1>2 DEF vars, Registered
<1>4. CASE m.kind = "add_ack"
  <2>1. PICK t \in Seq(Requests) :
          t = SetToSeq({Req("list", q) : q \in Local(a, m)}) /\ \A i \in DOMAIN t : t[i].kind = "list"
    BY <1>2, <1>4, AsksForList
  <2>2. \A i \in DOMAIN t : ~Word(p, t[i])
    BY <2>1 DEF Word, Comings
  <2>3. up' = [up EXCEPT ![a] = @ \o t]
    BY <1>2, <1>4, <2>1
  <2> QED BY <1>2, <1>3, <2>2, <2>3, RegMore DEF RegInv
<1>5. CASE m.kind # "add_ack"
  BY <1>2, <1>3, <1>5, RegSame DEF RegInv
<1> QED BY <1>4, <1>5

(* One request is sent: of p, or not of a coming. *)
LEMMA RegOneMore ==
  ASSUME Base, NEW p \in Players, RegOf(p), home' = home,
         at'[p] = at[p], via'[p] = via[p], Registered(p)' <=> Registered(p),
         NEW a \in Agents, NEW m \in Requests, up' = [up EXCEPT ![a] = Append(@, m)], ~Word(p, m)
  PROVE  RegOf(p)'
<1>1. up[a] \in Seq(Requests)
  BY DEF Base, WireTypes
<1>2. PICK t \in Seq(Requests) : t = <<m>>
  BY <1>1, AppendIs
<1>3. \A i \in DOMAIN t : ~Word(p, t[i])
  BY <1>1, <1>2, AppendIs
<1>a. Append(up[a], m) = up[a] \o t
  BY <1>1, <1>2, AppendIs
<1>4. up' = [up EXCEPT ![a] = @ \o t]
  BY <1>a
<1> QED BY <1>3, <1>4, RegMore

LEMMA RegOneSaid ==
  ASSUME Base, NEW p \in Players, RegOf(p), home' = home, via'[p] = via[p], at'[p] = home[p],
         NEW m \in Requests, up' = [up EXCEPT ![home[p]] = Append(@, m)], Word(p, m), m.kind # "del"
  PROVE  RegOf(p)'
<1>1. up[home[p]] \in Seq(Requests) /\ home[p] \in Agents
  BY DEF Base, WireTypes, ClientTypes
<1>2. PICK t \in Seq(Requests) : t = <<m>>
  BY <1>1, AppendIs
<1>3. Len(t) > 0 /\ \A i \in DOMAIN t : Word(p, t[i]) /\ t[i].kind # "del"
  BY <1>1, <1>2, AppendIs
<1>a. Append(up[home[p]], m) = up[home[p]] \o t
  BY <1>1, <1>2, AppendIs
<1>4. up' = [up EXCEPT ![home[p]] = @ \o t]
  BY <1>a
<1>5. at'[p] # NoAgent
  BY <1>1, RelayAssumption
<1> QED BY <1>3, <1>4, <1>5, RegSaid

LEMMA RegEnter ==
  ASSUME ~Roams, Base, RegInv, NEW p \in Players, Enter(p)
  PROVE  RegInv'
<1> SUFFICES ASSUME NEW q \in Players PROVE RegOf(q)'
  BY DEF RegInv
<1>1. /\ home[p] \in Agents /\ at' = [at EXCEPT ![p] = home[p]]
      /\ up' = [up EXCEPT ![home[p]] = Append(@, Req("add", p))]
      /\ UNCHANGED <<vars, home, via>>
  BY DEF Enter, Base, ClientTypes
<1>2. PICK m \in Requests : m = Req("add", p)
  BY PlainRequest
<1>3. m.by = p /\ m.kind = "add"
  BY <1>2 DEF Req
<1>4. up' = [up EXCEPT ![home[p]] = Append(@, m)] /\ at \in [Players -> Agents \cup {NoAgent}]
  BY <1>1, <1>2 DEF Base, ClientTypes
<1>5. CASE q = p
  <2>1. Word(p, m) /\ m.kind # "del" /\ at'[p] = home[p]
    BY <1>1, <1>3, <1>4 DEF Word, Comings
  <2> QED BY <1>1, <1>4, <1>5, <2>1, RegOneSaid DEF RegInv
<1>6. CASE q # p
  <2>1. ~Word(q, m) /\ at'[q] = at[q] /\ (Registered(q)' <=> Registered(q))
    BY <1>1, <1>3, <1>4, <1>6 DEF Word, vars, Registered
  <2> QED BY <1>1, <1>4, <2>1, RegOneMore DEF RegInv
<1> QED BY <1>5, <1>6

LEMMA RegLeave ==
  ASSUME Base, RegInv, NEW p \in Players, Leave(p)
  PROVE  RegInv'
<1> SUFFICES ASSUME NEW q \in Players PROVE RegOf(q)'
  BY DEF RegInv
<1>1. /\ at[p] \in Agents /\ at' = [at EXCEPT ![p] = NoAgent] /\ UNCHANGED <<vars, home, via>>
      /\ at \in [Players -> Agents \cup {NoAgent}]
  BY LeaveIs DEF Leave, Base, ClientTypes
<1>2. at[p] = home[p]
  BY <1>1, RelayAssumption DEF RegInv, RegOf, AtHome
<1>3. PICK n \in {1, 3} : up' = [up EXCEPT ![at[p]] = @ \o [k \in 1..n |-> Req("del", p)]]
  BY LeaveIs
<1>4. PICK m \in Requests : m = Req("del", p)
  BY PlainRequest
<1>5. m.by = p /\ m.kind = "del"
  BY <1>4 DEF Req
<1>6. PICK t \in Seq(Requests) : t = [k \in 1..n |-> m]
  <2>1. n \in Nat
    OBVIOUS
  <2>2. [k \in 1..n |-> m] \in Seq(Requests)
    BY <2>1
  <2> QED BY <2>2
<1>7. Len(t) > 0 /\ \A i \in DOMAIN t : t[i] = m
  BY <1>6
<1>8. up' = [up EXCEPT ![home[p]] = @ \o t]
  BY <1>2, <1>3, <1>4, <1>6
<1>9. CASE q = p
  <2>1. \A i \in DOMAIN t : Word(p, t[i]) /\ (t[i].kind = "del" <=> at'[p] = NoAgent)
    BY <1>1, <1>5, <1>7 DEF Word, Comings
  <2>2. at'[p] \in {home[p], NoAgent}
    BY <1>1
  <2> QED BY <1>1, <1>7, <1>8, <1>9, <2>1, <2>2, RegSaid DEF RegInv
<1>10. CASE q # p
  <2>1. (\A i \in DOMAIN t : ~Word(q, t[i])) /\ at'[q] = at[q] /\ (Registered(q)' <=> Registered(q))
    BY <1>1, <1>5, <1>7, <1>10 DEF Word, vars, Registered
  <2> QED BY <1>1, <1>2, <1>8, <2>1, RegMore DEF RegInv
<1> QED BY <1>9, <1>10

LEMMA RegAsk ==
  ASSUME Base, RegInv, NEW p \in Players, Ask(p)
  PROVE  RegInv'
<1> SUFFICES ASSUME NEW q \in Players PROVE RegOf(q)'
  BY DEF RegInv
<1>1. PICK m \in Requests : /\ m.kind \notin {"add", "force", "del"} /\ at[p] \in Agents
                            /\ up' = [up EXCEPT ![at[p]] = Append(@, m)]
  BY AskIs
<1>2. UNCHANGED <<vars, home, at, via>>
  BY DEF Ask
<1>3. ~Word(q, m) /\ (Registered(q)' <=> Registered(q))
  BY <1>1, <1>2 DEF Word, Comings, vars, Registered
<1> QED BY <1>1, <1>2, <1>3, RegOneMore DEF RegInv

LEMMA RegForce ==
  ASSUME Base, RegInv, NEW p \in Players, ForceRegistPlayerToLobby(p)
  PROVE  RegInv'
<1> SUFFICES ASSUME NEW q \in Players PROVE RegOf(q)'
  BY DEF RegInv
<1>1. at[p] \in Agents /\ up' = [up EXCEPT ![at[p]] = Append(@, Req("force", p))]
  BY ForceIs
<1>2. UNCHANGED <<vars, home, at, via>>
  BY DEF ForceRegistPlayerToLobby
<1>3. at[p] = home[p]
  BY <1>1, RelayAssumption DEF RegInv, RegOf, AtHome
<1>4. PICK m \in Requests : m = Req("force", p)
  BY PlainRequest
<1>5. m.by = p /\ m.kind = "force"
  BY <1>4 DEF Req
<1>6. up' = [up EXCEPT ![home[p]] = Append(@, m)]
  BY <1>1, <1>3, <1>4
<1>7. CASE q = p
  <2>1. Word(p, m) /\ m.kind # "del" /\ at'[p] = home[p]
    BY <1>2, <1>3, <1>5 DEF Word, Comings
  <2> QED BY <1>2, <1>6, <1>7, <2>1, RegOneSaid DEF RegInv
<1>8. CASE q # p
  <2>1. ~Word(q, m) /\ (Registered(q)' <=> Registered(q))
    BY <1>2, <1>5, <1>8 DEF Word, vars, Registered
  <2> QED BY <1>1, <1>2, <1>3, <1>6, <2>1, RegOneMore DEF RegInv
<1> QED BY <1>7, <1>8

LEMMA RegNext ==
  ASSUME ~Roams, Base, RegInv, [RelayNext]_<<vars, relayVars>>
  PROVE  RegInv'
<1>1. ASSUME UNCHANGED <<vars, home, at, via, up>> PROVE RegInv'
  <2>1. \A q \in Players : Registered(q)' <=> Registered(q)
    BY <1>1 DEF vars, Registered
  <2> QED BY <1>1, <2>1, RegSame DEF RegInv
<1>2. ASSUME NEW ba \in Agents \X Agents, FromAgent(ba[1], ba[2]) PROVE RegInv'
  BY <1>1, <1>2 DEF FromAgent
<1>3. ASSUME NEW p \in Players, Chat(p) PROVE RegInv'
  BY <1>1, <1>3 DEF Chat
<1>4. ASSUME UNCHANGED <<vars, relayVars>> PROVE RegInv'
  BY <1>1, <1>4 DEF relayVars, wires
<1> QED BY <1>2, <1>3, <1>4, RegServe, RegFromServer, RegEnter, RegLeave, RegAsk, RegForce DEF RelayNext

LEMMA RegEnough ==
  ASSUME Base, RegInv
  PROVE  RegistrationsAgree
<1> SUFFICES ASSUME Quiet, NEW p \in Players PROVE via[p] = at[p]
  BY DEF RegistrationsAgree
<1>1. home[p] \in Agents /\ (via[p] # NoAgent <=> Registered(p))
  BY DEF Base, ClientTypes
<1>2. DOMAIN up[home[p]] = {}
  BY <1>1 DEF Quiet
<1>3. Registered(p) <=> at[p] # NoAgent
  BY <1>2 DEF RegInv, RegOf, LastWord
<1> QED BY <1>1, <1>3 DEF RegInv, RegOf, AtHome

(* Where every player comes back to the agent it left, the distribute      *)
(* server ends up with exactly the players that are there, registered for  *)
(* the agents they are at.                                                 *)
THEOREM RegistrationsDoAgree == ASSUME ~Roams PROVE RelaySpec => []RegistrationsAgree
<1> DEFINE J == Base /\ NoticeInv /\ RegInv
<1>1. RelayInit => J
  BY BaseInit, NoticeInit, RegInit
<1>2. J /\ [RelayNext]_<<vars, relayVars>> => J'
  BY NoticeNext, RegNext
<1>3. J => RegistrationsAgree
  BY RegEnough
<1> QED BY <1>1, <1>2, <1>3, PTL DEF RelaySpec

(* A set of naturals that is not empty has a least element. *)
LEMMA LeastOf ==
  ASSUME NEW T, T \subseteq Nat, T # {}
  PROVE  \E n \in T : \A x \in T : n <= x
<1> DEFINE Less == {p \in Nat \X Nat : p[1] < p[2]}
<1>1. IsWellFoundedOn(Less, Nat)
  BY NatLessThanWellFounded, Zenon DEF OpToRel
<1>2. PICK n \in T : \A y \in T : <<y, n>> \notin Less
  BY <1>1, WFMin
<1>3. ASSUME NEW y \in T PROVE n <= y
  <2>1. n \in Nat /\ y \in Nat /\ ~(y < n)
    BY <1>2
  <2> QED BY <2>1
<1> QED BY <1>3

(* Induction, for a set of naturals. *)
LEMMA AllReached ==
  ASSUME NEW P, NEW n \in Nat, 0 \in P, \A i \in 0..(n - 1) : i \in P => i + 1 \in P
  PROVE  \A i \in 0..n : i \in P
<1> DEFINE Missed == {i \in 0..n : i \notin P}
<1>1. SUFFICES ASSUME Missed # {} PROVE FALSE
  OBVIOUS
<1>2. PICK k \in Missed : \A x \in Missed : k <= x
  <2>1. Missed \subseteq Nat
    OBVIOUS
  <2> QED BY <1>1, <2>1, LeastOf
<1>3. k # 0 /\ k \in Nat /\ k <= n
  BY <1>2
<1>4. k - 1 \in 0..(n - 1) /\ k - 1 \notin Missed
  BY <1>2, <1>3
<1>5. k - 1 \in P
  BY <1>4
<1> QED BY <1>4, <1>5, <1>2, <1>3

-----------------------------------------------------------------------------
(* What a client makes of all the messages of a queue.                     *)

Clients == Views \X LoosePage

(* A message, where it is for p. *)
Hears(p, c, m) == IF p \in m.to THEN <<Seen(p, c[1], m), Listed(c[2], m)>> ELSE c

Hearing(p, q, c, h) ==
  /\ h \in [0..Len(q) -> Clients] /\ h[0] = c
  /\ \A i \in 1..Len(q) : h[i] = Hears(p, h[i - 1], q[i])

(* A client c that is sent all of q ends as d. *)
Ends(p, q, c, d) == \E h : Hearing(p, q, c, h) /\ d = h[Len(q)]

LEMMA ClientIs ==
  ASSUME NEW c \in Clients
  PROVE  c[1] \in Views /\ c[2] \in LoosePage /\ c = <<c[1], c[2]>>
BY DEF Clients

LEMMA HearsType ==
  ASSUME NEW p \in Players, NEW c \in Clients, NEW m \in DownMessages
  PROVE  Hears(p, c, m) \in Clients
<1>1. c[1] \in Views /\ c[2] \in LoosePage /\ m \in Messages
  BY ClientIs DEF DownMessages
<1>2. Seen(p, c[1], m) \in Views /\ Listed(c[2], m) \in LoosePage
  BY <1>1, SeenType, ListedType
<1>3. <<Seen(p, c[1], m), Listed(c[2], m)>> \in Clients
  BY <1>2 DEF Clients
<1> QED BY <1>3 DEF Hears

(* It can be told. *)
LEMMA HearingExists ==
  ASSUME NEW p \in Players, NEW q \in Seq(DownMessages), NEW c \in Clients
  PROVE  \E h : Hearing(p, q, c, h)
<1> DEFINE H(n, h) == /\ h \in [0..n -> Clients] /\ h[0] = c
                      /\ \A i \in 1..n : h[i] = Hears(p, h[i - 1], q[i])
           P == {n \in 0..Len(q) : \E h : H(n, h)}
<1>0. Len(q) \in Nat /\ \A i \in 1..Len(q) : q[i] \in DownMessages
  OBVIOUS
<1>1. 0 \in P
  <2> DEFINE g == [i \in 0..0 |-> c]
  <2>1. g \in [0..0 -> Clients] /\ g[0] = c /\ 1..0 = {}
    OBVIOUS
  <2> HIDE DEF g
  <2>2. H(0, g)
    BY <2>1
  <2> HIDE DEF H
  <2> QED BY <2>2, <1>0
<1>2. ASSUME NEW n \in 0..(Len(q) - 1), n \in P PROVE n + 1 \in P
  <2>1. PICK h : H(n, h)
    BY <1>2
  <2>2. n \in Nat /\ n + 1 \in 0..Len(q) /\ q[n + 1] \in DownMessages /\ h[n] \in Clients
    <3>1. h \in [0..n -> Clients]
      BY <2>1
    <3>2. n \in Nat /\ n + 1 \in 0..Len(q) /\ n + 1 \in 1..Len(q) /\ n \in 0..n
      BY <1>0
    <3> HIDE DEF H
    <3> QED BY <3>1, <3>2, <1>0
  <2>3. PICK x \in Clients : x = Hears(p, h[n], q[n + 1])
    BY <2>2, HearsType
  <2> DEFINE g == [i \in 0..(n + 1) |-> IF i = n + 1 THEN x ELSE h[i]]
  <2>4. g \in [0..(n + 1) -> Clients]
    <3>1. h \in [0..n -> Clients]
      BY <2>1
    <3>2. \A i \in 0..(n + 1) : i = n + 1 \/ i \in 0..n
      BY <2>2
    <3> QED BY <3>1, <3>2
  <2>5. g[n + 1] = x /\ (\A i \in 0..n : g[i] = h[i])
    BY <2>2
  <2> HIDE DEF g
  <2>6. ASSUME NEW i \in 1..(n + 1) PROVE g[i] = Hears(p, g[i - 1], q[i])
    <3>1. CASE i = n + 1
      <4>1. i - 1 = n /\ n \in 0..n
        BY <3>1, <2>2
      <4> HIDE DEF H
      <4> QED BY <4>1, <3>1, <2>3, <2>5
    <3>2. CASE i # n + 1
      <4>1. i \in 1..n /\ i \in 0..n /\ i - 1 \in 0..n
        BY <3>2, <2>2
      <4>2. h[i] = Hears(p, h[i - 1], q[i])
        BY <4>1, <2>1
      <4> HIDE DEF H
      <4> QED BY <4>1, <4>2, <2>5
    <3> QED BY <3>1, <3>2
  <2>7. g[0] = c
    BY <2>1, <2>2, <2>5
  <2>8. H(n + 1, g)
    BY <2>4, <2>6, <2>7
  <2> HIDE DEF H
  <2> QED BY <2>8, <2>2
<1>3. \A i \in 0..Len(q) : i \in P
  <2> HIDE DEF P
  <2> QED BY <1>0, <1>1, <1>2, AllReached
<1>4. \E h : H(Len(q), h)
  BY <1>0, <1>3
<1> QED BY <1>4 DEF Hearing

LEMMA EndsType ==
  ASSUME NEW p \in Players, NEW q \in Seq(DownMessages), NEW c, NEW d, Ends(p, q, c, d)
  PROVE  c \in Clients /\ d \in Clients
<1>1. PICK h : Hearing(p, q, c, h) /\ d = h[Len(q)]
  BY DEF Ends
<1>2. Len(q) \in Nat /\ 0 \in 0..Len(q) /\ Len(q) \in 0..Len(q)
  OBVIOUS
<1> QED BY <1>1, <1>2 DEF Hearing

LEMMA EndsNone ==
  ASSUME NEW p \in Players, NEW c \in Clients
  PROVE  Ends(p, <<>>, c, c)
<1>1. PICK h : Hearing(p, <<>>, c, h)
  BY EmptyIsSeq, HearingExists
<1>2. h[Len(<<>>)] = c
  BY <1>1 DEF Hearing
<1> QED BY <1>1, <1>2 DEF Ends

LEMMA EndsOne ==
  ASSUME NEW p \in Players, NEW c \in Clients, NEW m \in DownMessages
  PROVE  Ends(p, <<m>>, c, Hears(p, c, m))
<1>1. <<m>> \in Seq(DownMessages) /\ Len(<<m>>) = 1 /\ <<m>>[1] = m /\ 1 \in 1..1 /\ 1 - 1 = 0
  OBVIOUS
<1>2. PICK h : Hearing(p, <<m>>, c, h)
  BY <1>1, HearingExists
<1>3. h[1] = Hears(p, h[0], m) /\ h[0] = c
  BY <1>1, <1>2 DEF Hearing
<1> QED BY <1>1, <1>2, <1>3 DEF Ends

LEMMA EndsTail ==
  ASSUME NEW p \in Players, NEW q \in Seq(DownMessages), q # <<>>, NEW c, NEW d, Ends(p, q, c, d)
  PROVE  Ends(p, Tail(q), Hears(p, c, Head(q)), d)
<1>1. PICK h : Hearing(p, q, c, h) /\ d = h[Len(q)]
  BY DEF Ends
<1>2. PICK n \in Nat : n = Len(q)
  OBVIOUS
<1>3. /\ n > 0 /\ Len(Tail(q)) = n - 1 /\ Tail(q) \in Seq(DownMessages)
      /\ \A i \in 1..(n - 1) : Tail(q)[i] = q[i + 1]
      /\ Head(q) = q[1]
  BY <1>2, TailOf
<1>4. /\ h \in [0..n -> Clients] /\ h[0] = c /\ \A i \in 1..n : h[i] = Hears(p, h[i - 1], q[i])
  BY <1>1, <1>2 DEF Hearing
<1> PICK t : t = Tail(q)
  OBVIOUS
<1> DEFINE g == [i \in 0..(n - 1) |-> h[i + 1]]
<1>5. g \in [0..(n - 1) -> Clients]
  <2>1. \A i \in 0..(n - 1) : i + 1 \in 0..n
    OBVIOUS
  <2> QED BY <2>1, <1>4
<1>6. g[0] = Hears(p, c, Head(q))
  <2>1. 0 \in 0..(n - 1) /\ 1 \in 1..n /\ 1 - 1 = 0 /\ 0 + 1 = 1
    BY <1>3
  <2>2. h[1] = Hears(p, h[0], q[1])
    BY <1>4, <2>1
  <2> QED BY <2>1, <2>2, <1>3, <1>4
<1>7. ASSUME NEW i \in 1..(n - 1) PROVE g[i] = Hears(p, g[i - 1], t[i])
  <2>1. i + 1 \in 1..n /\ i \in 0..(n - 1) /\ i - 1 \in 0..(n - 1) /\ (i - 1) + 1 = i /\ (i + 1) - 1 = i
    BY <1>3
  <2>2. h[i + 1] = Hears(p, h[i], q[i + 1])
    <3>1. h[i + 1] = Hears(p, h[(i + 1) - 1], q[i + 1])
      BY <1>4, <2>1
    <3> QED BY <3>1, <2>1
  <2>3. g[i] = h[i + 1] /\ g[i - 1] = h[i]
    BY <2>1
  <2>4. t[i] = q[i + 1]
    BY <1>3
  <2> QED BY <2>2, <2>3, <2>4
<1>8. g[n - 1] = d
  BY <1>1, <1>2, <1>3
<1> HIDE DEF g
<1>9. Hearing(p, t, Hears(p, c, Head(q)), g)
  BY <1>3, <1>5, <1>6, <1>7 DEF Hearing
<1> QED BY <1>9, <1>8, <1>3 DEF Ends

LEMMA EndsJoin ==
  ASSUME NEW p \in Players, NEW q \in Seq(DownMessages), NEW t \in Seq(DownMessages),
         NEW c, NEW d, NEW e, Ends(p, q, c, d), Ends(p, t, d, e)
  PROVE  Ends(p, q \o t, c, e)
<1>1. PICK h : Hearing(p, q, c, h) /\ d = h[Len(q)]
  BY DEF Ends
<1>2. PICK k : Hearing(p, t, d, k) /\ e = k[Len(t)]
  BY DEF Ends
<1>n. PICK n \in Nat : n = Len(q)
  OBVIOUS
<1>m. PICK m \in Nat : m = Len(t)
  OBVIOUS
<1>3. n = Len(q) /\ m = Len(t)
  BY <1>n, <1>m
<1>4. /\ h \in [0..n -> Clients] /\ h[0] = c /\ \A i \in 1..n : h[i] = Hears(p, h[i - 1], q[i])
      /\ k \in [0..m -> Clients] /\ k[0] = d /\ \A i \in 1..m : k[i] = Hears(p, k[i - 1], t[i])
      /\ h[n] = d /\ k[m] = e
  BY <1>1, <1>2, <1>3 DEF Hearing
<1> PICK w : w = q \o t
  OBVIOUS
<1>5. /\ Len(w) = n + m
      /\ \A i \in 1..n : w[i] = q[i]
      /\ \A i \in 1..m : w[n + i] = t[i]
  BY <1>3, ConcatOf
<1> DEFINE g == [i \in 0..(n + m) |-> IF i <= n THEN h[i] ELSE k[i - n]]
<1>6. g \in [0..(n + m) -> Clients]
  <2>1. ASSUME NEW i \in 0..(n + m) PROVE (IF i <= n THEN h[i] ELSE k[i - n]) \in Clients
    <3>1. CASE i <= n
      <4>1. i \in 0..n
        BY <3>1
      <4> QED BY <4>1, <3>1, <1>4
    <3>2. CASE ~(i <= n)
      <4>1. i - n \in 0..m
        BY <3>2
      <4> QED BY <4>1, <3>2, <1>4
    <3> QED BY <3>1, <3>2
  <2> QED BY <2>1
<1>7. /\ \A i \in 0..n : g[i] = h[i]
      /\ \A i \in 0..m : g[n + i] = k[i]
  <2>1. ASSUME NEW i \in 0..n PROVE g[i] = h[i]
    <3>1. i \in 0..(n + m) /\ i <= n
      OBVIOUS
    <3> QED BY <3>1
  <2>2. ASSUME NEW i \in 0..m PROVE g[n + i] = k[i]
    <3>1. n + i \in 0..(n + m) /\ (n + i) - n = i /\ (n + i <= n => i = 0 /\ n + i = n)
      OBVIOUS
    <3>2. g[n + i] = IF n + i <= n THEN h[n + i] ELSE k[(n + i) - n]
      BY <3>1
    <3>3. CASE n + i <= n
      BY <3>1, <3>2, <3>3, <1>4
    <3>4. CASE ~(n + i <= n)
      BY <3>1, <3>2, <3>4
    <3> QED BY <3>3, <3>4
  <2> QED BY <2>1, <2>2
<1> HIDE DEF g
<1>8. ASSUME NEW i \in 1..(n + m) PROVE g[i] = Hears(p, g[i - 1], w[i])
  <2>1. CASE i <= n
    <3>1. i \in 1..n /\ i \in 0..n /\ i - 1 \in 0..n
      BY <2>1
    <3>2. h[i] = Hears(p, h[i - 1], q[i])
      BY <3>1, <1>4
    <3> QED BY <3>1, <3>2, <1>5, <1>7
  <2>2. CASE ~(i <= n)
    <3>1. PICK j \in 1..m : i = n + j
      <4>1. i - n \in 1..m /\ i = n + (i - n)
        BY <2>2
      <4> QED BY <4>1
    <3>2. j \in 0..m /\ j - 1 \in 0..m /\ i - 1 = n + (j - 1)
      BY <3>1
    <3>3. k[j] = Hears(p, k[j - 1], t[j])
      BY <1>4
    <3>4. g[i] = k[j] /\ g[i - 1] = k[j - 1] /\ w[i] = t[j]
      BY <3>1, <3>2, <1>5, <1>7
    <3> QED BY <3>3, <3>4
  <2> QED BY <2>1, <2>2
<1>9. g[0] = c /\ g[n + m] = e
  <2>1. 0 \in 0..n /\ m \in 0..m
    OBVIOUS
  <2> QED BY <2>1, <1>4, <1>7
<1>10. Hearing(p, w, c, g)
  BY <1>5, <1>6, <1>8, <1>9 DEF Hearing
<1> QED BY <1>10, <1>9, <1>5 DEF Ends

LEMMA PairIs ==
  ASSUME NEW S, NEW m \in S, NEW x \in S
  PROVE  <<m>> \o <<x>> = <<m, x>>
<1>1. <<m>> \in Seq(S) /\ Len(<<m>>) = 1 /\ <<m>>[1] = m
  OBVIOUS
<1>2. <<x>> \in Seq(S) /\ Len(<<x>>) = 1 /\ <<x>>[1] = x
  OBVIOUS
<1> PICK q : q = <<m>>
  OBVIOUS
<1> PICK r : r = <<x>>
  OBVIOUS
<1> PICK t : t = q \o r
  OBVIOUS
<1>4. t \in Seq(S) /\ Len(t) = 2 /\ t[1] = m /\ t[2] = x
  BY <1>1, <1>2
<1>5. t = [i \in 1..2 |-> t[i]]
  BY <1>4
<1>6. [i \in 1..2 |-> t[i]] = <<m, x>>
  <2>1. \A i \in 1..2 : t[i] = <<m, x>>[i]
    <3>1. \A i \in 1..2 : i = 1 \/ i = 2
      OBVIOUS
    <3>2. <<m, x>>[1] = m /\ <<m, x>>[2] = x
      OBVIOUS
    <3> QED BY <3>1, <3>2, <1>4
  <2>2. <<m, x>> = [i \in 1..2 |-> <<m, x>>[i]]
    OBVIOUS
  <2> QED BY <2>1, <2>2
<1> QED BY <1>5, <1>6
LEMMA EndsTwo ==
  ASSUME NEW p \in Players, NEW c \in Clients, NEW m \in DownMessages, NEW x \in DownMessages
  PROVE  Ends(p, <<m, x>>, c, Hears(p, Hears(p, c, m), x))
<1>1. <<m>> \in Seq(DownMessages) /\ <<x>> \in Seq(DownMessages)
  OBVIOUS
<1>0. <<m>> \o <<x>> = <<m, x>>
  BY PairIs
<1>2. PICK d \in Clients : d = Hears(p, c, m)
  BY HearsType
<1>3. PICK e \in Clients : e = Hears(p, d, x)
  BY HearsType
<1>4. Ends(p, <<m>>, c, d) /\ Ends(p, <<x>>, d, e)
  BY <1>2, <1>3, EndsOne
<1> QED BY <1>0, <1>1, <1>2, <1>3, <1>4, EndsJoin

(* What a message does to a view, by its kind. *)
LEMMA SeenIs ==
  ASSUME NEW p, NEW v \in Views, NEW m \in Messages
  PROVE  /\ m.kind \in {"create_ack", "join_ack"} =>
              Seen(p, v, m) = [room |-> m.room, members |-> m.list \cup {p}, owner |-> m.about]
         /\ m.kind \in {"out_ack", "kick"} => Seen(p, v, m) = NoView
         /\ m.kind = "join" => Seen(p, v, m) = IF v.room = 0 THEN v
                                 ELSE [room |-> v.room, members |-> v.members \cup {m.about}, owner |-> v.owner]
         /\ m.kind \in {"out", "kicked"} =>
              Seen(p, v, m) = [room |-> v.room, members |-> v.members \ {m.about}, owner |-> v.owner]
         /\ m.kind \in {"heir", "owner"} => Seen(p, v, m) = IF v.room = 0 THEN v
                                 ELSE [room |-> v.room, members |-> v.members, owner |-> m.about]
         /\ m.kind \in {"add_ack", "list_ack", "option", "chat"} \cup NewsKinds => Seen(p, v, m) = v
<1>1. v = [room |-> v.room, members |-> v.members, owner |-> v.owner]
  BY DEF Views
<1>2. m.kind \in {"create_ack", "join_ack"} =>
        Seen(p, v, m) = [room |-> m.room, members |-> m.list \cup {p}, owner |-> m.about]
  BY DEF Seen
<1>3. m.kind \in {"out_ack", "kick"} => Seen(p, v, m) = NoView
  BY DEF Seen
<1>4. ASSUME m.kind = "join" PROVE Seen(p, v, m) = IF v.room = 0 THEN v
                                 ELSE [room |-> v.room, members |-> v.members \cup {m.about}, owner |-> v.owner]
  <2>1. [v EXCEPT !.members = @ \cup {m.about}]
        = [room |-> v.room, members |-> v.members \cup {m.about}, owner |-> v.owner]
    BY <1>1
  <2> QED BY <1>4, <2>1 DEF Seen
<1>5. ASSUME m.kind \in {"out", "kicked"}
      PROVE  Seen(p, v, m) = [room |-> v.room, members |-> v.members \ {m.about}, owner |-> v.owner]
  <2>1. [v EXCEPT !.members = @ \ {m.about}]
        = [room |-> v.room, members |-> v.members \ {m.about}, owner |-> v.owner]
    BY <1>1
  <2> QED BY <1>5, <2>1 DEF Seen
<1>6. ASSUME m.kind \in {"heir", "owner"} PROVE Seen(p, v, m) = IF v.room = 0 THEN v
                                 ELSE [room |-> v.room, members |-> v.members, owner |-> m.about]
  <2>1. [v EXCEPT !.owner = m.about] = [room |-> v.room, members |-> v.members, owner |-> m.about]
    BY <1>1
  <2> QED BY <1>6, <2>1 DEF Seen
<1>7. m.kind \in {"add_ack", "list_ack", "option", "chat"} \cup NewsKinds => Seen(p, v, m) = v
  BY DEF Seen, NewsKinds
<1> QED BY <1>2, <1>3, <1>4, <1>5, <1>6, <1>7

LEMMA KindIs ==
  ASSUME NEW m \in Messages
  PROVE  \/ m.kind \in {"create_ack", "join_ack"} \/ m.kind \in {"out_ack", "kick"} \/ m.kind = "join"
         \/ m.kind \in {"out", "kicked"} \/ m.kind \in {"heir", "owner"}
         \/ m.kind \in {"add_ack", "list_ack", "option", "chat"} \cup NewsKinds
BY MsgFields DEF Tracked, Answers, Notices

LEMMA NoViewIs ==
  /\ NoView \in Views /\ NoView.room = 0 /\ NoView.members = {} /\ NoView.owner = NoPlayer
  /\ \A q : [room |-> NoView.room, members |-> NoView.members \ {q}, owner |-> NoView.owner] = NoView
BY ZeroIdx DEF NoView, Views, Someone

(* A client that is in no room stays so, or sees what the others see. *)
LEMMA SeenReset ==
  ASSUME NEW p, NEW v \in Views, NEW m \in Messages
  PROVE  Seen(p, NoView, m) \in {NoView, Seen(p, v, m)}
<1> PICK n \in Views : n = NoView
  BY NoViewIs
<1>1. n.room = 0 /\ \A q : [room |-> n.room, members |-> n.members \ {q}, owner |-> n.owner] = n
  BY NoViewIs
<1>2. CASE m.kind \in {"create_ack", "join_ack"}
  <2> DEFINE w == [room |-> m.room, members |-> m.list \cup {p}, owner |-> m.about]
  <2>1. Seen(p, v, m) = w
    BY <1>2, SeenIs
  <2>2. Seen(p, n, m) = w
    BY <1>2, SeenIs
  <2> HIDE DEF w
  <2> QED BY <2>1, <2>2
<1>3. CASE m.kind \in {"out_ack", "kick"}
  BY <1>3, SeenIs
<1>4. CASE m.kind = "join" \/ m.kind \in {"heir", "owner"}
  <2>1. Seen(p, n, m) = n
    BY <1>1, <1>4, SeenIs
  <2> QED BY <2>1
<1>5. CASE m.kind \in {"out", "kicked"}
  <2>1. Seen(p, n, m) = [room |-> n.room, members |-> n.members \ {m.about}, owner |-> n.owner]
    BY <1>5, SeenIs
  <2>2. [room |-> n.room, members |-> n.members \ {m.about}, owner |-> n.owner] = n
    BY <1>1
  <2>3. Seen(p, n, m) = n
    BY <2>1, <2>2, Zenon
  <2> QED BY <2>3
<1>6. CASE m.kind \in {"add_ack", "list_ack", "option", "chat"} \cup NewsKinds
  <2>1. Seen(p, n, m) = n
    BY <1>6, SeenIs
  <2> QED BY <2>1
<1> QED BY <1>2, <1>3, <1>4, <1>5, <1>6, KindIs

LEMMA EndsReset ==
  ASSUME NEW p \in Players, NEW q \in Seq(DownMessages), NEW c, NEW d, Ends(p, q, c, d),
         NEW x \in Clients, x[1] = NoView
  PROVE  \E e : Ends(p, q, x, e) /\ e[1] \in {NoView, d[1]}
<1>1. PICK h : Hearing(p, q, c, h) /\ d = h[Len(q)]
  BY DEF Ends
<1>2. PICK k : Hearing(p, q, x, k)
  BY HearingExists
<1>3. PICK n \in Nat : n = Len(q)
  OBVIOUS
<1>4. /\ h \in [0..n -> Clients] /\ \A i \in 1..n : h[i] = Hears(p, h[i - 1], q[i])
      /\ k \in [0..n -> Clients] /\ k[0] = x /\ \A i \in 1..n : k[i] = Hears(p, k[i - 1], q[i])
      /\ \A i \in 1..n : q[i] \in Messages
  BY <1>1, <1>2, <1>3 DEF Hearing, DownMessages
<1> DEFINE P == {i \in 0..n : k[i][1] \in {NoView, h[i][1]}}
<1>5. 0 \in P
  BY <1>4
<1>6. ASSUME NEW i \in 0..(n - 1), i \in P PROVE i + 1 \in P
  <2>1. i + 1 \in 1..n /\ i + 1 \in 0..n /\ (i + 1) - 1 = i /\ i \in 0..n
    OBVIOUS
  <2>2. PICK a \in Clients, b \in Clients, m \in Messages : a = h[i] /\ b = k[i] /\ m = q[i + 1]
    BY <1>4, <2>1
  <2>3. h[i + 1] = Hears(p, a, m) /\ k[i + 1] = Hears(p, b, m)
    BY <1>4, <2>1, <2>2
  <2>4. b[1] \in {NoView, a[1]} /\ a[1] \in Views /\ b[1] \in Views
    BY <1>6, <2>2, ClientIs
  <2>5. Hears(p, b, m)[1] \in {NoView, Hears(p, a, m)[1]}
    <3>1. CASE p \in m.to
      <4>1. Hears(p, a, m)[1] = Seen(p, a[1], m) /\ Hears(p, b, m)[1] = Seen(p, b[1], m)
        BY <3>1 DEF Hears
      <4> QED BY <4>1, <2>4, SeenReset
    <3>2. CASE p \notin m.to
      BY <3>2, <2>4 DEF Hears
    <3> QED BY <3>1, <3>2
  <2> QED BY <2>1, <2>3, <2>5
<1>7. \A i \in 0..n : i \in P
  <2> HIDE DEF P
  <2> QED BY <1>5, <1>6, AllReached
<1>8. n \in 0..n
  OBVIOUS
<1>9. k[n][1] \in {NoView, d[1]}
  BY <1>7, <1>8, <1>1, <1>3
<1> QED BY <1>2, <1>3, <1>9 DEF Ends

(* The list of rooms does not depend on the view. *)
LEMMA EndsSameBoard ==
  ASSUME NEW p \in Players, NEW q \in Seq(DownMessages), NEW c, NEW d, Ends(p, q, c, d),
         NEW x \in Clients, x[2] = c[2]
  PROVE  \E e : Ends(p, q, x, e) /\ e[2] = d[2]
<1>1. PICK h : Hearing(p, q, c, h) /\ d = h[Len(q)]
  BY DEF Ends
<1>2. PICK k : Hearing(p, q, x, k)
  BY HearingExists
<1>3. PICK n \in Nat : n = Len(q)
  OBVIOUS
<1>4. /\ h \in [0..n -> Clients] /\ \A i \in 1..n : h[i] = Hears(p, h[i - 1], q[i])
      /\ k \in [0..n -> Clients] /\ k[0] = x /\ \A i \in 1..n : k[i] = Hears(p, k[i - 1], q[i])
      /\ h[0] = c
  BY <1>1, <1>2, <1>3 DEF Hearing
<1> DEFINE P == {i \in 0..n : k[i][2] = h[i][2]}
<1>5. 0 \in P
  BY <1>4
<1>6. ASSUME NEW i \in 0..(n - 1), i \in P PROVE i + 1 \in P
  <2>1. i + 1 \in 1..n /\ i + 1 \in 0..n /\ (i + 1) - 1 = i /\ i \in 0..n
    OBVIOUS
  <2>2. PICK a, b, m : a = h[i] /\ b = k[i] /\ m = q[i + 1]
    OBVIOUS
  <2>3. h[i + 1] = Hears(p, a, m) /\ k[i + 1] = Hears(p, b, m)
    BY <1>4, <2>1, <2>2
  <2>4. b[2] = a[2]
    BY <1>6, <2>2
  <2>5. Hears(p, b, m)[2] = Hears(p, a, m)[2]
    BY <2>4 DEF Hears
  <2> QED BY <2>1, <2>3, <2>5
<1>7. \A i \in 0..n : i \in P
  <2> HIDE DEF P
  <2> QED BY <1>5, <1>6, AllReached
<1>8. n \in 0..n
  OBVIOUS
<1>9. k[n][2] = d[2]
  BY <1>7, <1>8, <1>1, <1>3
<1> QED BY <1>2, <1>3, <1>9 DEF Ends

-----------------------------------------------------------------------------
(* What is sent about a room, and leaves the list of rooms as it is. *)
Plain == {m \in DownMessages : m.kind \notin {"list_ack"} \cup NewsKinds}

Leads(p, q, v, w) == \A c \in Clients : c[1] = v => \E e : Ends(p, q, c, e) /\ e[1] = w /\ e[2] = c[2]

After(p, v, m) == IF p \in m.to THEN Seen(p, v, m) ELSE v

LEMMA LeadsNone == ASSUME NEW p \in Players, NEW v PROVE Leads(p, <<>>, v, v)
BY EndsNone DEF Leads

LEMMA AfterType ==
  ASSUME NEW p \in Players, NEW v \in Views, NEW m \in Plain
  PROVE  After(p, v, m) \in Views
BY SeenType DEF After, Plain, DownMessages

LEMMA LeadsOne ==
  ASSUME NEW p \in Players, NEW v, NEW m \in Plain
  PROVE  Leads(p, <<m>>, v, After(p, v, m))
<1> SUFFICES ASSUME NEW c \in Clients, c[1] = v
             PROVE  \E e : Ends(p, <<m>>, c, e) /\ e[1] = After(p, v, m) /\ e[2] = c[2]
  BY DEF Leads
<1>1. m \in DownMessages
  BY DEF Plain
<1>2. Listed(c[2], m) = c[2]
  BY DEF Plain, NewsKinds, Listed
<1>3. Hears(p, c, m)[1] = After(p, v, m) /\ Hears(p, c, m)[2] = c[2]
  BY <1>2 DEF Hears, After
<1>4. Ends(p, <<m>>, c, Hears(p, c, m))
  BY <1>1, EndsOne
<1> QED BY <1>3, <1>4

LEMMA LeadsJoin ==
  ASSUME NEW p \in Players, NEW q \in Seq(DownMessages), NEW t \in Seq(DownMessages),
         NEW v, NEW w, NEW x, Leads(p, q, v, w), Leads(p, t, w, x)
  PROVE  Leads(p, q \o t, v, x)
<1> SUFFICES ASSUME NEW c \in Clients, c[1] = v
             PROVE  \E e : Ends(p, q \o t, c, e) /\ e[1] = x /\ e[2] = c[2]
  BY DEF Leads
<1>1. PICK d : Ends(p, q, c, d) /\ d[1] = w /\ d[2] = c[2]
  BY DEF Leads
<1>2. d \in Clients
  BY <1>1, EndsType
<1>3. PICK e : Ends(p, t, d, e) /\ e[1] = x /\ e[2] = d[2]
  BY <1>1, <1>2 DEF Leads
<1>4. Ends(p, q \o t, c, e)
  BY <1>1, <1>3, EndsJoin
<1> QED BY <1>1, <1>3, <1>4

LEMMA LeadsTwo ==
  ASSUME NEW p \in Players, NEW v, NEW m \in Plain, NEW x \in Plain
  PROVE  Leads(p, <<m, x>>, v, After(p, After(p, v, m), x))
<1>1. m \in DownMessages /\ x \in DownMessages
  BY DEF Plain
<1>2. <<m>> \in Seq(DownMessages) /\ <<x>> \in Seq(DownMessages)
  BY <1>1
<1>3. Leads(p, <<m>>, v, After(p, v, m)) /\ Leads(p, <<x>>, After(p, v, m), After(p, After(p, v, m), x))
  BY LeadsOne
<1>4. <<m>> \o <<x>> = <<m, x>>
  BY <1>1, PairIs
<1> QED BY <1>2, <1>3, <1>4, LeadsJoin

LEMMA LeadsThree ==
  ASSUME NEW p \in Players, NEW v, NEW m \in Plain, NEW x \in Plain, NEW y \in Plain
  PROVE  Leads(p, <<m, x>> \o <<y>>, v, After(p, After(p, After(p, v, m), x), y))
<1>1. m \in DownMessages /\ x \in DownMessages /\ y \in DownMessages
  BY DEF Plain
<1>2. <<m, x>> \in Seq(DownMessages) /\ <<y>> \in Seq(DownMessages)
  BY <1>1
<1> PICK w : w = After(p, After(p, v, m), x)
  OBVIOUS
<1>3. Leads(p, <<m, x>>, v, w)
  BY LeadsTwo
<1>4. Leads(p, <<y>>, w, After(p, w, y))
  BY LeadsOne
<1> QED BY <1>2, <1>3, <1>4, LeadsJoin

(* The news of an answer: none, or one. *)
OneNews(news) ==
  news = <<>> \/ (\E m \in DownMessages : news = <<m>> /\ m.kind \in NewsKinds)

TheNews(x, news) == IF news = <<>> THEN x ELSE Listed(x, news[1])

TellsNews(p, t, news) ==
  \A c \in Clients : \E e : Ends(p, t, c, e) /\ e[1] = c[1] /\ e[2] = TheNews(c[2], news)

LEMMA NoneTold == ASSUME NEW p \in Players PROVE TellsNews(p, <<>>, <<>>)
BY EndsNone DEF TellsNews, TheNews

LEMMA NewsTold ==
  ASSUME NEW p \in Players, NEW b, NEW news, OneNews(news)
  PROVE  /\ Told(news, b) \in Seq(DownMessages)
         /\ p \in Everybody(b) => TellsNews(p, Told(news, b), news)
         /\ p \notin Everybody(b) => TellsNews(p, Told(news, b), <<>>)
<1>1. CASE news = <<>>
  <2>1. Told(news, b) = <<>>
    <3>1. DOMAIN <<>> = {}
      OBVIOUS
    <3>2. ASSUME NEW W PROVE [k \in DOMAIN <<>> |-> [<<>>[k] EXCEPT !.to = W]] = <<>>
      OBVIOUS
    <3> QED BY <1>1, <3>2 DEF Told
  <2> QED BY <1>1, <2>1, NoneTold, EmptyIsSeq
<1>2. CASE Everybody(b) = {}
  <2>1. Told(news, b) = <<>>
    BY <1>2 DEF Told
  <2> QED BY <1>2, <2>1, NoneTold, EmptyIsSeq
<1>3. ASSUME NEW m \in DownMessages, news = <<m>>, m.kind \in NewsKinds, Everybody(b) # {}
      PROVE  /\ Told(news, b) \in Seq(DownMessages)
             /\ p \in Everybody(b) => TellsNews(p, Told(news, b), news)
             /\ p \notin Everybody(b) => TellsNews(p, Told(news, b), <<>>)
  <2>1. news \in Seq(DownMessages) /\ DOMAIN news = {1} /\ news[1] = m /\ news # <<>> /\ Len(news) = 1
    BY <1>3
  <2>2. PICK t : t = Told(news, b)
    OBVIOUS
  <2>a. \A i \in DOMAIN news : news[i].kind \in NewsKinds
    BY <1>3, <2>1
  <2>b. /\ Told(news, b) \in Seq(DownMessages) /\ DOMAIN Told(news, b) = DOMAIN news
        /\ \A i \in DOMAIN Told(news, b) :
              /\ Told(news, b)[i].kind = news[i].kind
              /\ Told(news, b)[i].room = news[i].room /\ Told(news, b)[i].page = news[i].page
              /\ Told(news, b)[i].to = Everybody(b)
    BY <1>3, <2>1, <2>a, ToldIs
  <2>3. /\ t \in Seq(DownMessages) /\ DOMAIN t = {1}
        /\ t[1].kind = m.kind /\ t[1].room = m.room /\ t[1].page = m.page /\ t[1].to = Everybody(b)
    BY <2>1, <2>2, <2>b
  <2>4. PICK x : x = t[1]
    OBVIOUS
  <2>5. x \in DownMessages /\ t = <<x>>
    <3>1. x \in DownMessages
      <4>1. 1 \in DOMAIN t
        BY <2>3
      <4> QED BY <4>1, <2>3, <2>4, InSeq
    <3>2. t = [i \in {1} |-> x]
      <4>1. t = [i \in DOMAIN t |-> t[i]]
        BY <2>3
      <4> QED BY <4>1, <2>3, <2>4
    <3>3. <<x>> = [i \in {1} |-> x]
      OBVIOUS
    <3> QED BY <3>1, <3>2, <3>3
  <2>6. ASSUME NEW c \in Clients
        PROVE  \E e : Ends(p, t, c, e) /\ e[1] = c[1]
                      /\ e[2] = IF p \in Everybody(b) THEN TheNews(c[2], news) ELSE c[2]
    <3>1. Ends(p, t, c, Hears(p, c, x))
      BY <2>5, EndsOne
    <3>2. Seen(p, c[1], x) = c[1]
      <4>1. x \in Messages /\ x.kind \in NewsKinds /\ c[1] \in Views
        BY <1>3, <2>3, <2>4, <2>5, ClientIs DEF DownMessages
      <4> QED BY <4>1, SeenIs
    <3>3. Listed(c[2], x) = Listed(c[2], m)
      BY <2>3, <2>4 DEF Listed
    <3>4. CASE p \in Everybody(b)
      <4>1. Hears(p, c, x) = <<c[1], Listed(c[2], m)>>
        BY <3>2, <3>3, <3>4, <2>3, <2>4 DEF Hears
      <4>2. TheNews(c[2], news) = Listed(c[2], m)
        BY <2>1 DEF TheNews
      <4> QED BY <3>1, <4>1, <4>2, <3>4
    <3>5. CASE p \notin Everybody(b)
      <4>1. Hears(p, c, x) = c
        BY <3>5, <2>3, <2>4 DEF Hears
      <4> QED BY <3>1, <4>1, <3>5
    <3> QED BY <3>4, <3>5
  <2>7. p \in Everybody(b) => TellsNews(p, t, news)
    BY <2>6 DEF TellsNews
  <2>8. p \notin Everybody(b) => TellsNews(p, t, <<>>)
    BY <2>6 DEF TellsNews, TheNews
  <2> QED BY <2>2, <2>3, <2>7, <2>8
<1> QED BY <1>1, <1>2, <1>3 DEF OneNews

(* A queue that an answer is added to. *)
LEMMA EndsAnswered ==
  ASSUME NEW p \in Players, NEW q \in Seq(DownMessages), NEW before \in Seq(DownMessages),
         NEW t \in Seq(DownMessages), NEW after \in Seq(DownMessages),
         NEW c, NEW d, Ends(p, q, c, d), NEW v, NEW w, NEW news,
         Leads(p, before, d[1], v), Leads(p, after, v, w), TellsNews(p, t, news)
  PROVE  \E e : Ends(p, q \o before \o t \o after, c, e) /\ e[1] = w /\ e[2] = TheNews(d[2], news)
<1>1. d \in Clients
  BY EndsType
<1>2. PICK e : Ends(p, before, d, e) /\ e[1] = v /\ e[2] = d[2]
  BY <1>1 DEF Leads
<1>3. e \in Clients
  BY <1>2, EndsType
<1>4. PICK f : Ends(p, t, e, f) /\ f[1] = v /\ f[2] = TheNews(d[2], news)
  BY <1>2, <1>3 DEF TellsNews
<1>5. f \in Clients
  BY <1>4, EndsType
<1>6. PICK g : Ends(p, after, f, g) /\ g[1] = w /\ g[2] = TheNews(d[2], news)
  BY <1>4, <1>5 DEF Leads
<1> PICK x : x = q \o before
  OBVIOUS
<1>7. x \in Seq(DownMessages) /\ Ends(p, x, c, e)
  BY <1>2, EndsJoin
<1> PICK y : y = x \o t
  OBVIOUS
<1>a. y \in Seq(DownMessages)
  BY <1>7
<1>8. y \in Seq(DownMessages) /\ Ends(p, y, c, f)
  BY <1>4, <1>7, <1>a, EndsJoin
<1>9. Ends(p, y \o after, c, g)
  BY <1>6, <1>8, EndsJoin
<1> QED BY <1>6, <1>9

-----------------------------------------------------------------------------
(* The list of rooms, as it is and as it is sent. *)
StrictLine == [cur : 1..MaxGuests, cap : Caps]
StrictPage == [RoomIdx -> StrictLine \cup {NoRoom}]
StrictDown ==
  {m \in DownMessages : m.page \in StrictPage /\ (m.kind \in {"count", "size"} => m.page[m.room] # NoRoom)}
Strictly(t) == \A i \in DOMAIN t : t[i] \in StrictDown

BoardOf(R) == [r \in RoomIdx |-> IF R[r] # NoRoom THEN Line(R[r]) ELSE NoRoom]
TheBoard == BoardOf(rooms)

(* News from which a right list becomes the right one. *)
RightNews(news) == OneNews(news) /\ Strictly(news) /\ TheNews(TheBoard, news) = TheBoard'

LEMMA StrictLines ==
  /\ StrictLine \subseteq LooseLine /\ NoRoom \notin StrictLine /\ StrictPage \subseteq LoosePage
  /\ NoPage \in StrictPage
  /\ \A c \in Room : Line(c) \in StrictLine /\ Line(c).cur = c.cur /\ Line(c).cap = c.cap
                     /\ Line(c) = [cur |-> c.cur, cap |-> c.cap]
<1>1. StrictLine \subseteq LooseLine
  BY DEF StrictLine, LooseLine
<1>2. NoRoom \notin StrictLine
  BY RelayAssumption DEF StrictLine
<1>3. StrictPage \subseteq LoosePage
  BY <1>1 DEF StrictPage, LoosePage
<1>4. NoPage \in StrictPage
  BY DEF NoPage, StrictPage
<1>5. ASSUME NEW c \in Room
      PROVE Line(c) \in StrictLine /\ Line(c).cur = c.cur /\ Line(c).cap = c.cap
            /\ Line(c) = [cur |-> c.cur, cap |-> c.cap]
  BY RoomFields DEF Line, StrictLine
<1> QED BY <1>1, <1>2, <1>3, <1>4, <1>5

LEMMA BoardIs ==
  ASSUME RoomsOK
  PROVE  /\ TheBoard \in StrictPage
         /\ \A r \in RoomIdx : TheBoard[r] = IF rooms[r] # NoRoom THEN Line(rooms[r]) ELSE NoRoom
         /\ \A r \in RoomIdx : rooms[r] # NoRoom => rooms[r] \in Room
<1>1. \A r \in RoomIdx : rooms[r] # NoRoom => rooms[r] \in Room
  BY DEF RoomsOK
<1>2. \A r \in RoomIdx : rooms[r] # NoRoom => Line(rooms[r]) \in StrictLine
  BY <1>1, StrictLines
<1> QED BY <1>1, <1>2 DEF TheBoard, BoardOf, StrictPage

(* A room is replaced; the page of the board that shows it. *)
RoomReplaced(r, c) == rooms' = [rooms EXCEPT ![r] = c]

LineReplaced(r, x) == TheBoard' = [TheBoard EXCEPT ![r] = x]

LEMMA BoardPut ==
  ASSUME RoomsOK, NEW r \in RoomIdx, NEW c, RoomReplaced(r, c),
         NEW x, x = IF c # NoRoom THEN Line(c) ELSE NoRoom
  PROVE  LineReplaced(r, x)
<1>1. rooms \in [RoomIdx -> Room \cup {NoRoom}]
  BY DEF RoomsOK
<1>2. TheBoard' = [s \in RoomIdx |-> IF rooms'[s] # NoRoom THEN Line(rooms'[s]) ELSE NoRoom]
  BY DEF TheBoard, BoardOf
<1>3. [TheBoard EXCEPT ![r] = x] = [s \in RoomIdx |-> IF s = r THEN x ELSE TheBoard[s]]
  BY DEF TheBoard, BoardOf
<1>4. ASSUME NEW s \in RoomIdx
      PROVE  (IF rooms'[s] # NoRoom THEN Line(rooms'[s]) ELSE NoRoom) = IF s = r THEN x ELSE TheBoard[s]
  <2>1. rooms'[s] = IF s = r THEN c ELSE rooms[s]
    BY <1>1 DEF RoomReplaced
  <2>2. TheBoard[s] = IF rooms[s] # NoRoom THEN Line(rooms[s]) ELSE NoRoom
    BY DEF TheBoard, BoardOf
  <2> QED BY <2>1, <2>2
<1> QED BY <1>2, <1>3, <1>4 DEF LineReplaced

LEMMA NewsPage ==
  ASSUME served \in Nat, NEW k \in NewsKinds, NEW r \in RoomIdx, NEW line \in StrictLine \cup {NoRoom},
         k \in {"count", "size"} => line # NoRoom
  PROVE  \E m \in StrictDown : News(k, r, line) = <<m>> /\ m.kind = k /\ m.room = r /\ m.page[r] = line
<1>1. line \in LooseLine \cup {NoRoom}
  BY StrictLines
<1> PICK t : t = News(k, r, line)
  OBVIOUS
<1>2. /\ t \in Seq(DownMessages) /\ Len(t) = 1 /\ DOMAIN t = {1}
      /\ t[1].kind = k /\ t[1].room = r /\ t[1].page[r] = line
  BY <1>1, NewsIs
<1>3. t[1] \in DownMessages
  <2>1. 1 \in DOMAIN t
    BY <1>2
  <2> QED BY <2>1, <1>2, InSeq
<1>4. t[1].page = [NoPage EXCEPT ![r] = line]
  <2> DEFINE x == [Msg(k, {}) EXCEPT !.room = r, !.page[r] = line]
  <2>1. t = <<x>>
    BY DEF News
  <2>2. t[1] = x
    BY <2>1
  <2>3. Msg(k, {}) = [kind |-> k, to |-> {}, n |-> served, about |-> NoPlayer, room |-> 0,
                      list |-> {}, page |-> NoPage]
    BY DEF Msg
  <2>4. x.page = [NoPage EXCEPT ![r] = line]
    BY <2>3
  <2> QED BY <2>2, <2>4
<1>5. t[1].page \in StrictPage
  BY <1>4, StrictLines DEF StrictPage
<1>6. t[1] \in StrictDown
  BY <1>2, <1>3, <1>5 DEF StrictDown
<1>7. t = <<t[1]>>
  <2>1. <<t[1]>> = [i \in {1} |-> t[1]]
    OBVIOUS
  <2>2. t = [i \in DOMAIN t |-> t[i]]
    BY <1>2
  <2> QED BY <1>2, <2>1, <2>2
<1> QED BY <1>2, <1>6, <1>7

LEMMA NewsAre ==
  ASSUME NEW news, NEW m \in StrictDown, news = <<m>>, m.kind \in NewsKinds
  PROVE  OneNews(news) /\ Strictly(news) /\ \A x : TheNews(x, news) = Listed(x, m)
<1>1. m \in DownMessages
  BY DEF StrictDown
<1>2. OneNews(news)
  BY <1>1 DEF OneNews
<1>3. DOMAIN news = {1} /\ news[1] = m /\ news # <<>>
  OBVIOUS
<1> QED BY <1>2, <1>3 DEF Strictly, TheNews

(* A room is made, or goes. *)
LEMMA MadeOrGone ==
  ASSUME RoomsOK, served \in Nat, NEW r \in RoomIdx, NEW c \in Room \cup {NoRoom},
         rooms' = [rooms EXCEPT ![r] = c]
  PROVE  /\ c # NoRoom => RightNews(UpdateInfoCreatedRoom(r))
         /\ c = NoRoom => RightNews(UpdateInfoDeletedRoom(r))
<1> DEFINE line == IF c # NoRoom THEN Line(c) ELSE NoRoom
<1>1. line \in StrictLine \cup {NoRoom} /\ rooms'[r] = c
  BY StrictLines DEF RoomsOK
<1>2. TheBoard' = [TheBoard EXCEPT ![r] = line]
  <2>1. line = IF c # NoRoom THEN Line(c) ELSE NoRoom
    OBVIOUS
  <2> HIDE DEF line
  <2>2. RoomReplaced(r, c)
    BY DEF RoomReplaced
  <2>3. LineReplaced(r, line)
    BY <2>1, <2>2, BoardPut
  <2> QED BY <2>3 DEF LineReplaced
<1> HIDE DEF line
<1>3. ASSUME NEW k \in {"created", "deleted"}, NEW news, news = News(k, r, line) PROVE RightNews(news)
  <2>1. k \in NewsKinds
    BY DEF NewsKinds
  <2>2. PICK m \in StrictDown : news = <<m>> /\ m.kind = k /\ m.room = r /\ m.page[r] = line
    BY <1>1, <1>3, <2>1, NewsPage
  <2>3. Listed(TheBoard, m) = [TheBoard EXCEPT ![r] = line]
    BY <2>2 DEF Listed
  <2>4. OneNews(news) /\ Strictly(news) /\ TheNews(TheBoard, news) = Listed(TheBoard, m)
    BY <2>1, <2>2, NewsAre
  <2>5. TheNews(TheBoard, news) = TheBoard'
    BY <1>2, <2>3, <2>4, Zenon
  <2> QED BY <2>4, <2>5 DEF RightNews
<1>4. c # NoRoom => UpdateInfoCreatedRoom(r) = News("created", r, line)
  BY <1>1 DEF UpdateInfoCreatedRoom, line
<1>5. c = NoRoom => UpdateInfoDeletedRoom(r) = News("deleted", r, line)
  BY <1>1 DEF UpdateInfoDeletedRoom, line
<1> QED BY <1>3, <1>4, <1>5

(* A room has another number of guests, or another size. *)
LEMMA CountedOrSized ==
  ASSUME RoomsOK, served \in Nat, NEW r \in RoomIdx, IsRoom(r), NEW c \in Room, c # NoRoom,
         rooms' = [rooms EXCEPT ![r] = c]
  PROVE  /\ c.cap = rooms[r].cap => RightNews(UpdateInfoCurrentGuestCount(r))
         /\ c.cur = rooms[r].cur => RightNews(UpdateInfoTotalGuestCount(r))
<1> PICK line : line = Line(c)
  OBVIOUS
<1> PICK old : old = Line(rooms[r])
  OBVIOUS
<1>1. /\ line \in StrictLine /\ line # NoRoom /\ line = [cur |-> c.cur, cap |-> c.cap] /\ rooms'[r] = c
      /\ TheBoard \in LoosePage /\ TheBoard[r] = old /\ old # NoRoom
      /\ old = [cur |-> rooms[r].cur, cap |-> rooms[r].cap] /\ line \in LooseLine
  <2>1. rooms[r] \in Room
    BY BoardIs DEF IsRoom
  <2>2. rooms'[r] = c
    BY DEF RoomsOK
  <2>3. TheBoard \in LoosePage /\ TheBoard[r] = old
    BY BoardIs, StrictLines DEF IsRoom
  <2>4. /\ line \in StrictLine /\ line # NoRoom /\ line = [cur |-> c.cur, cap |-> c.cap]
    BY StrictLines
  <2>5. /\ old \in StrictLine /\ old # NoRoom /\ old = [cur |-> rooms[r].cur, cap |-> rooms[r].cap]
    BY <2>1, StrictLines
  <2> QED BY <2>2, <2>3, <2>4, <2>5, StrictLines
<1>2. TheBoard' = [TheBoard EXCEPT ![r] = line]
  <2>1. line = IF c # NoRoom THEN Line(c) ELSE NoRoom
    OBVIOUS
  <2>2. RoomReplaced(r, c)
    BY DEF RoomReplaced
  <2>3. LineReplaced(r, line)
    BY <2>1, <2>2, BoardPut
  <2> QED BY <2>3 DEF LineReplaced
<1>3. ASSUME NEW k \in {"count", "size"}, NEW f \in {"cur", "cap"}, k = "count" <=> f = "cur",
             NEW news, news = News(k, r, line), [old EXCEPT ![f] = line[f]] = line
      PROVE  RightNews(news)
  <2>1. k \in NewsKinds
    BY DEF NewsKinds
  <2>2. PICK m \in StrictDown : news = <<m>> /\ m.kind = k /\ m.room = r /\ m.page[r] = line
    BY <1>1, <1>3, <2>1, NewsPage
  <2>3. Listed(TheBoard, m) = [TheBoard EXCEPT ![r][f] = line[f]]
    <3>1. CASE k = "count"
      <4>1. f = "cur"
        BY <3>1, <1>3
      <4> QED BY <1>1, <2>2, <3>1, <4>1 DEF Listed
    <3>2. CASE k = "size"
      <4>1. f = "cap"
        BY <3>2, <1>3
      <4> QED BY <1>1, <2>2, <3>2, <4>1 DEF Listed
    <3> QED BY <3>1, <3>2
  <2>4. [TheBoard EXCEPT ![r][f] = line[f]] = [TheBoard EXCEPT ![r] = [TheBoard[r] EXCEPT ![f] = line[f]]]
    BY <1>1, LinePut
  <2>5. Listed(TheBoard, m) = TheBoard'
    BY <1>1, <1>2, <1>3, <2>3, <2>4
  <2> QED BY <2>1, <2>2, <2>5, NewsAre DEF RightNews
<1>4. c.cap = rooms[r].cap => [old EXCEPT !["cur"] = line["cur"]] = line
  BY <1>1
<1>5. c.cur = rooms[r].cur => [old EXCEPT !["cap"] = line["cap"]] = line
  BY <1>1
<1>6. UpdateInfoCurrentGuestCount(r) = News("count", r, line)
  BY <1>1 DEF UpdateInfoCurrentGuestCount
<1>7. UpdateInfoTotalGuestCount(r) = News("size", r, line)
  BY <1>1 DEF UpdateInfoTotalGuestCount
<1>8. c.cap = rooms[r].cap => RightNews(UpdateInfoCurrentGuestCount(r))
  BY <1>3, <1>4, <1>6
<1>9. c.cur = rooms[r].cur => RightNews(UpdateInfoTotalGuestCount(r))
  BY <1>3, <1>5, <1>7
<1> QED BY <1>8, <1>9

(* Nothing that is listed changes. *)
LEMMA NothingNew ==
  ASSUME TheBoard' = TheBoard
  PROVE  RightNews(<<>>)
BY DEF RightNews, OneNews, Strictly, TheNews

LEMMA ListedStrict ==
  ASSUME NEW b \in StrictPage, NEW m \in StrictDown
  PROVE  Listed(b, m) \in StrictPage
<1> DEFINE r == m.room
<1>1. m \in DownMessages /\ m.page \in StrictPage /\ (m.kind \in {"count", "size"} => m.page[r] # NoRoom)
  BY DEF StrictDown
<1>2. r \in RoomIdx
  BY <1>1, MsgFields DEF DownMessages
<1>3. CASE m.kind = "list_ack"
  BY <1>1, <1>3 DEF Listed
<1>4. CASE m.kind \in {"created", "deleted"}
  <2>1. [b EXCEPT ![r] = m.page[r]] \in StrictPage
    BY <1>1, <1>2 DEF StrictPage
  <2> QED BY <1>4, <2>1 DEF Listed
<1>5. CASE m.kind \in {"count", "size"}
  <2>1. m.page[r] \in StrictLine
    BY <1>1, <1>2, <1>5 DEF StrictPage
  <2>2. PICK line \in StrictLine : line = m.page[r]
    BY <2>1
  <2>3. ASSUME NEW f \in {"cur", "cap"}, b[r] # NoRoom PROVE [b EXCEPT ![r][f] = line[f]] \in StrictPage
    <3>1. b \in LoosePage /\ line \in LooseLine \cup {NoRoom} /\ b[r] \in StrictLine
      BY <1>2, <2>3, StrictLines DEF StrictPage
    <3>2. [b EXCEPT ![r][f] = line[f]] = [b EXCEPT ![r] = [b[r] EXCEPT ![f] = line[f]]]
      BY <1>2, <2>3, <3>1, LinePut
    <3>3. [b[r] EXCEPT ![f] = line[f]] \in StrictLine
      BY <3>1 DEF StrictLine
    <3>4. PICK x \in StrictLine : x = [b[r] EXCEPT ![f] = line[f]]
      BY <3>3
    <3>5. [b EXCEPT ![r] = x] \in StrictPage
      BY <1>2 DEF StrictPage
    <3> QED BY <3>2, <3>4, <3>5
  <2>4. m.kind = "count" => Listed(b, m) = IF b[r] = NoRoom THEN b ELSE [b EXCEPT ![r]["cur"] = line["cur"]]
    BY <2>2 DEF Listed
  <2>5. m.kind = "size" => Listed(b, m) = IF b[r] = NoRoom THEN b ELSE [b EXCEPT ![r]["cap"] = line["cap"]]
    BY <2>2 DEF Listed
  <2> QED BY <1>5, <2>3, <2>4, <2>5
<1>6. CASE m.kind \notin {"list_ack", "created", "deleted", "count", "size"}
  BY <1>6 DEF Listed
<1> QED BY <1>3, <1>4, <1>5, <1>6

-----------------------------------------------------------------------------
(* A view that is right, before and after an answer. *)
GuestsOf(u, r) == {q \in Players : u[q] = r}

IdxIn(u, q) == IF u[q] = Absent THEN 0 ELSE u[q]

AgreesIn(u, R, q, v) ==
  /\ v.room = IdxIn(u, q)
  /\ v.room # 0 => GuestsOf(u, v.room) \subseteq v.members /\ v.owner = R[v.room].owner

Keeps(u, R, u2, R2, q, v, w) ==
  /\ AgreesIn(u, R, q, v) => AgreesIn(u2, R2, q, w)
  /\ v = NoView => w = NoView \/ AgreesIn(u2, R2, q, w)

Tables == [Players -> RoomIdx \cup {Absent}]

LEMMA MembersAre ==
  ASSUME NEW u \in Tables, NEW R, NEW r \in RoomIdx, r # 0, Fits(R[r], u, r),
         \A p \in Players : u[p] \notin {0, Absent} => SeatedIn(R[u[p]], p)
  PROVE  Members(R[r]) = GuestsOf(u, r)
<1>0. r # Absent
  BY ZeroIdx
<1>1. ASSUME NEW k \in 1..R[r].cur PROVE R[r].slot[k] \in GuestsOf(u, r)
  BY DEF Fits, Seats, GuestsOf
<1>2. ASSUME NEW p \in GuestsOf(u, r) PROVE \E k \in 1..R[r].cur : R[r].slot[k] = p
  BY <1>0 DEF GuestsOf, SeatedIn
<1> QED BY <1>1, <1>2 DEF Members

LEMMA GuestsAre ==
  ASSUME RoomsOK, NEW r \in RoomIdx, rooms[r] # NoRoom
  PROVE  Members(rooms[r]) = GuestsOf(user, r) /\ r # 0 /\ rooms[r] \in Room /\ Fits(rooms[r], user, r)
<1>1. r # 0 /\ rooms[r] \in Room /\ Fits(rooms[r], user, r)
  BY NamedRooms DEF IsRoom
<1>2. user \in Tables /\ \A p \in Players : user[p] \notin {0, Absent} => SeatedIn(rooms[user[p]], p)
  BY DEF RoomsOK, Seated, Tables
<1>3. Members(rooms[r]) = GuestsOf(user, r)
  BY <1>1, <1>2, MembersAre
<1> QED BY <1>1, <1>3

LEMMA GuestsAreThen ==
  ASSUME RoomsOK', NEW r \in RoomIdx, rooms'[r] # NoRoom
  PROVE  Members(rooms'[r]) = GuestsOf(user', r) /\ r # 0 /\ rooms'[r] \in Room /\ Fits(rooms'[r], user', r)
<1>1. r # 0 /\ rooms'[r] \in Room /\ Fits(rooms'[r], user', r)
  BY DEF RoomsOK, IsRoom
<1>2. user' \in Tables /\ \A p \in Players : user'[p] \notin {0, Absent} => SeatedIn(rooms'[user'[p]], p)
  BY DEF RoomsOK, Seated, Tables
<1>3. Members(rooms'[r]) = GuestsOf(user', r)
  BY <1>1, <1>2, MembersAre
<1> QED BY <1>1, <1>3

(* Where q is in another room than r, and the one who moves is another. *)
LEMMA OthersKeep ==
  ASSUME NEW u \in Tables, NEW u2 \in Tables, NEW R, NEW R2, NEW r \in RoomIdx,
         NEW p \in Players, NEW q \in Players, q # p, u[q] # r,
         \A x \in Players \ {p} : u2[x] = u[x],
         u[p] \in {0, Absent, r}, u2[p] \in {0, Absent, r},
         \A s \in RoomIdx \ {r} : R2[s] = R[s],
         NEW v \in Views, NEW w \in Views, w.room = v.room, w.owner = v.owner, v.members \ {p} \subseteq w.members,
         v = NoView => w = NoView
  PROVE  Keeps(u, R, u2, R2, q, v, w)
<1>1. IdxIn(u2, q) = IdxIn(u, q)
  BY DEF IdxIn
<1>2. ASSUME v.room = IdxIn(u, q), v.room # 0, GuestsOf(u, v.room) \subseteq v.members, v.owner = R[v.room].owner
      PROVE  GuestsOf(u2, v.room) \subseteq w.members /\ w.owner = R2[v.room].owner
  <2>1. v.room = u[q] /\ v.room # r /\ v.room # Absent /\ v.room \in RoomIdx
    BY <1>2 DEF IdxIn, Views
  <2>2. R2[v.room] = R[v.room]
    BY <2>1
  <2>3. u2[p] # v.room
    BY <1>2, <2>1
  <2>4. \A x \in GuestsOf(u2, v.room) : x \in GuestsOf(u, v.room) /\ x # p
    BY <2>3 DEF GuestsOf
  <2> QED BY <1>2, <2>2, <2>4
<1> QED BY <1>1, <1>2 DEF Keeps, AgreesIn

(* Where q stays in the room r. *)
LEMMA GuestKeeps ==
  ASSUME NEW u \in Tables, NEW u2 \in Tables, NEW R, NEW R2, NEW r \in RoomIdx, r # 0,
         NEW q \in Players, u[q] = r, u2[q] = r,
         NEW v \in Views, NEW w \in Views, w.room = v.room, v = NoView => w = NoView,
         v.room = r /\ GuestsOf(u, r) \subseteq v.members /\ v.owner = R[r].owner
           => GuestsOf(u2, r) \subseteq w.members /\ w.owner = R2[r].owner
  PROVE  Keeps(u, R, u2, R2, q, v, w)
<1>1. IdxIn(u2, q) = r /\ IdxIn(u, q) = r
  BY ZeroIdx DEF IdxIn
<1> QED BY <1>1 DEF Keeps, AgreesIn

(* The view of somebody who has nothing to do with it. *)
LEMMA OthersStay ==
  ASSUME user \in Tables, user' \in Tables, NEW r \in RoomIdx,
         NEW p \in Players, NEW q \in Players, q # p, user[q] # r,
         \A x \in Players \ {p} : user'[x] = user[x],
         user[p] \in {0, Absent, r}, user'[p] \in {0, Absent, r},
         \A s \in RoomIdx \ {r} : rooms'[s] = rooms[s],
         NEW v \in Views
  PROVE  Keeps(user, rooms, user', rooms', q, v, v)
<1>1. v.members \ {p} \subseteq v.members
  OBVIOUS
<1> QED BY <1>1, OthersKeep, Zenon

(* Where q is in no room any more. *)
LEMMA NobodyKeeps ==
  ASSUME NEW u \in Tables, NEW u2 \in Tables, NEW R, NEW R2, NEW q \in Players, u2[q] \in {0, Absent},
         NEW v, NEW w, w = NoView
  PROVE  Keeps(u, R, u2, R2, q, v, w) /\ AgreesIn(u2, R2, q, w)
<1>1. IdxIn(u2, q) = 0 /\ NoView.room = 0
  BY NoViewIs DEF IdxIn
<1> QED BY <1>1 DEF Keeps, AgreesIn

(* Where q comes into the room r. *)
LEMMA ComerKeeps ==
  ASSUME NEW u, NEW R, NEW u2, NEW R2, NEW r \in RoomIdx, NEW q, u2[q] = r, NEW v,
         NEW w, w.room = r, GuestsOf(u2, r) \subseteq w.members, w.owner = R2[r].owner
  PROVE  Keeps(u, R, u2, R2, q, v, w)
<1>1. IdxIn(u2, q) = r
  BY ZeroIdx DEF IdxIn
<1> QED BY <1>1 DEF Keeps, AgreesIn

(* What is sent before and after the news keeps every view right. *)
KeepAll(before, after) ==
  \A q \in Players, v \in Views : \E x, w :
    Leads(q, before, v, x) /\ Leads(q, after, x, w) /\ Keeps(user, rooms, user', rooms', q, v, w)

Tells(a) ==
  \E before, news, after :
    /\ before \in Seq(DownMessages) /\ after \in Seq(DownMessages) /\ Strictly(before) /\ Strictly(after)
    /\ RightNews(news) /\ KeepAll(before, after)
    /\ down' = [b \in Agents |-> down[b] \o (IF b = a THEN before ELSE <<>>) \o Told(news, b)
                                         \o (IF b = a THEN after ELSE <<>>)]

(* One that is about a room only. *)
LEMMA PlainMsg ==
  ASSUME NEW m \in DownMessages, m.kind \notin {"list_ack"} \cup NewsKinds, m.page = NoPage
  PROVE  m \in Plain /\ m \in StrictDown
BY StrictLines DEF Plain, StrictDown, NewsKinds

LEMMA StrictOne == ASSUME NEW m \in StrictDown PROVE Strictly(<<m>>) /\ <<m>> \in Seq(DownMessages)
BY DEF Strictly, StrictDown

LEMMA StrictNone == Strictly(<<>>)
BY DEF Strictly

LEMMA StrictJoin ==
  ASSUME NEW q \in Seq(DownMessages), NEW t \in Seq(DownMessages), Strictly(q), Strictly(t)
  PROVE  Strictly(q \o t) /\ q \o t \in Seq(DownMessages)
<1>1. ASSUME NEW i \in DOMAIN (q \o t) PROVE (q \o t)[i] \in StrictDown
  BY ConcatHas DEF Strictly
<1> QED BY <1>1 DEF Strictly

LEMMA StrictTwo ==
  ASSUME NEW m \in StrictDown, NEW x \in StrictDown
  PROVE  Strictly(<<m, x>>) /\ <<m, x>> \in Seq(DownMessages)
<1>1. m \in DownMessages /\ x \in DownMessages
  BY DEF StrictDown
<1>2. <<m>> \o <<x>> = <<m, x>>
  BY <1>1, PairIs
<1> QED BY <1>2, StrictOne, StrictJoin

LEMMA PlainTo ==
  ASSUME served \in Nat, NEW k \in {"add_ack", "out_ack", "kick"}, NEW p \in Players
  PROVE  /\ Msg(k, {p}) \in Plain /\ Msg(k, {p}) \in StrictDown
         /\ Msg(k, {p}).kind = k /\ Msg(k, {p}).to = {p}
<1> PICK m : m = Msg(k, {p})
  OBVIOUS
<1>1. m \in DownMessages /\ m.kind = k
  BY ToPlayer
<1>2. m.page = NoPage /\ m.to = {p}
  BY DEF Msg
<1>3. k \notin {"list_ack"} \cup NewsKinds
  BY DEF NewsKinds
<1> QED BY <1>1, <1>2, <1>3, PlainMsg

LEMMA PlainNotice ==
  ASSUME served \in Nat, NEW k \in Notices, NEW t \in SUBSET Someone, NEW q \in Someone,
         k = "join" => q \in Players
  PROVE  /\ Notice(k, t, q) \in Plain /\ Notice(k, t, q) \in StrictDown
         /\ Notice(k, t, q).kind = k /\ Notice(k, t, q).to = t /\ Notice(k, t, q).about = q
<1> PICK m : m = Notice(k, t, q)
  OBVIOUS
<1>1. m \in DownMessages /\ m.kind = k
  BY NoticeFits
<1>2. m.page = NoPage /\ m.to = t /\ m.about = q
  <2>1. Msg(k, t) = [kind |-> k, to |-> t, n |-> served, about |-> NoPlayer, room |-> 0,
                     list |-> {}, page |-> NoPage]
    BY DEF Msg
  <2>2. m = [Msg(k, t) EXCEPT !.about = q]
    BY DEF Notice
  <2> QED BY <2>1, <2>2
<1>3. k \notin {"list_ack"} \cup NewsKinds
  BY DEF NewsKinds, Notices
<1> QED BY <1>1, <1>2, <1>3, PlainMsg

LEMMA PlainAck ==
  ASSUME served \in Nat, NEW k \in {"create_ack", "join_ack"}, NEW p \in Players, NEW r \in RoomIdx,
         rooms'[r] \in LooseRoom
  PROVE  /\ Ack(k, p, r) \in Plain /\ Ack(k, p, r) \in StrictDown
         /\ Ack(k, p, r).kind = k /\ Ack(k, p, r).to = {p} /\ Ack(k, p, r).room = r
         /\ Ack(k, p, r).about = rooms'[r].owner
         /\ Ack(k, p, r).list = IF k = "join_ack" THEN JoinAckLists(rooms'[r]) ELSE {p}
<1> PICK m : m = Ack(k, p, r)
  OBVIOUS
<1>1. m \in DownMessages /\ m.kind = k
  BY AckIs
<1>2. m.page = NoPage /\ m.to = {p} /\ m.room = r /\ m.about = rooms'[r].owner
      /\ m.list = IF k = "join_ack" THEN JoinAckLists(rooms'[r]) ELSE {p}
  <2>1. Msg(k, {p}) = [kind |-> k, to |-> {p}, n |-> served, about |-> NoPlayer, room |-> 0,
                       list |-> {}, page |-> NoPage]
    BY DEF Msg
  <2> PICK o : o = rooms'[r].owner
    OBVIOUS
  <2> PICK l : l = IF k = "join_ack" THEN JoinAckLists(rooms'[r]) ELSE {p}
    OBVIOUS
  <2>2. m = [Msg(k, {p}) EXCEPT !.room = r, !.about = o, !.list = l]
    BY DEF Ack
  <2> QED BY <2>1, <2>2
<1>3. k \notin {"list_ack"} \cup NewsKinds
  BY DEF NewsKinds
<1> QED BY <1>1, <1>2, <1>3, PlainMsg

(* What one message makes of a view. *)
LEMMA AfterIs ==
  ASSUME NEW q \in Players, NEW v \in Views, NEW m \in Plain
  PROVE  /\ q \notin m.to => After(q, v, m) = v
         /\ q \in m.to /\ m.kind \in {"create_ack", "join_ack"} =>
              After(q, v, m) = [room |-> m.room, members |-> m.list \cup {q}, owner |-> m.about]
         /\ q \in m.to /\ m.kind \in {"out_ack", "kick"} => After(q, v, m) = NoView
         /\ q \in m.to /\ m.kind \in {"join"} => After(q, v, m) = IF v.room = 0 THEN v
                                 ELSE [room |-> v.room, members |-> v.members \cup {m.about}, owner |-> v.owner]
         /\ q \in m.to /\ m.kind \in {"out", "kicked"} =>
              After(q, v, m) = [room |-> v.room, members |-> v.members \ {m.about}, owner |-> v.owner]
         /\ q \in m.to /\ m.kind \in {"heir", "owner"} => After(q, v, m) = IF v.room = 0 THEN v
                                 ELSE [room |-> v.room, members |-> v.members, owner |-> m.about]
         /\ m.kind \in {"add_ack", "option"} => After(q, v, m) = v
         /\ After(q, v, m) \in Views
<1>1. m \in Messages
  BY DEF Plain, DownMessages
<1>2. After(q, v, m) = IF q \in m.to THEN Seen(q, v, m) ELSE v
  BY DEF After
<1>3. After(q, v, m) \in Views
  BY AfterType
<1>4. CASE q \notin m.to
  <2>1. After(q, v, m) = v
    BY <1>2, <1>4
  <2> QED BY <1>3, <1>4, <2>1
<1>5. CASE q \in m.to
  <2>1. After(q, v, m) = Seen(q, v, m)
    BY <1>2, <1>5
  <2> QED BY <1>1, <1>3, <1>5, <2>1, SeenIs
<1> QED BY <1>4, <1>5

(* A view of nothing is not changed by who goes. *)

(* Somebody else goes out; somebody becomes the owner. *)
Without(v, p) == [room |-> v.room, members |-> v.members \ {p}, owner |-> v.owner]

OwnedBy(v, p) == IF v.room = 0 THEN v ELSE [room |-> v.room, members |-> v.members, owner |-> p]

LEMMA AfterOut ==
  ASSUME NEW q \in Players, NEW v \in Views, NEW m \in Plain, q \in m.to, m.kind \in {"out", "kicked"},
         NEW p, m.about = p
  PROVE  After(q, v, m) = Without(v, p)
BY AfterIs DEF Without

LEMMA AfterHeir ==
  ASSUME NEW q \in Players, NEW v \in Views, NEW m \in Plain, q \in m.to, m.kind \in {"heir", "owner"},
         NEW p, m.about = p
  PROVE  After(q, v, m) = OwnedBy(v, p)
BY AfterIs DEF OwnedBy

LEMMA AfterComer ==
  ASSUME NEW q \in Players, NEW v \in Views, NEW m \in Plain, q \in m.to, m.kind = "join"
  PROVE  /\ v.room = 0 => After(q, v, m) = v
         /\ v.room # 0 => After(q, v, m) = [room |-> v.room, members |-> v.members \cup {m.about}, owner |-> v.owner]
<1>1. After(q, v, m) = IF v.room = 0 THEN v
                       ELSE [room |-> v.room, members |-> v.members \cup {m.about}, owner |-> v.owner]
  <2>1. q \in m.to /\ m.kind \in {"join"}
    OBVIOUS
  <2> QED BY <2>1, AfterIs
<1> QED BY <1>1

LEMMA AfterGoer ==
  ASSUME NEW q \in Players, NEW v \in Views, NEW m \in Plain, q \in m.to, m.kind = "kicked", NEW o, m.about = o
  PROVE  After(q, v, m) = [room |-> v.room, members |-> v.members \ {o}, owner |-> v.owner]
<1>1. q \in m.to /\ m.kind \in {"out", "kicked"}
  OBVIOUS
<1>2. After(q, v, m) = [room |-> v.room, members |-> v.members \ {m.about}, owner |-> v.owner]
  BY <1>1, AfterIs
<1> QED BY <1>2

LEMMA NoViewStays ==
  ASSUME NEW x
  PROVE  [room |-> NoView.room, members |-> NoView.members \ {x}, owner |-> NoView.owner] = NoView
BY NoViewIs

(* The last one leaves the room r. *)
LEMMA LastTells ==
  ASSUME Base, RoomsOK, RoomsOK', NEW a \in Agents, NEW p \in Players, NEW r \in RoomIdx, rooms[r] # NoRoom,
         user[p] = r, rooms[r].cur = 1, rooms' = [rooms EXCEPT ![r] = NoRoom],
         NEW n \in {0, Absent}, user' = [user EXCEPT ![p] = n], AnswerLeaving(a, p, r)
  PROVE  Tells(a)
<1> DEFINE news == UpdateInfoDeletedRoom(r)
           m == Msg("out_ack", {p})
           after == <<m>>
           before == <<>>
<1>1. Answer(a, before, news, after)
  BY DEF AnswerLeaving
<1>2. served \in Nat
  BY DEF Base, CountTypes
<1>3. m \in Plain /\ m \in StrictDown /\ m.kind = "out_ack" /\ m.to = {p}
  BY <1>2, PlainTo
<1>4. RightNews(news)
  BY <1>2, MadeOrGone
<1>5. /\ user \in Tables /\ user' \in Tables /\ user'[p] = n
      /\ \A x \in Players \ {p} : user'[x] = user[x]
      /\ \A s \in RoomIdx \ {r} : rooms'[s] = rooms[s]
  BY DEF RoomsOK, Tables
<1>6. GuestsOf(user, r) \subseteq {p}
  <2>1. Members(rooms[r]) = GuestsOf(user, r)
    BY GuestsAre
  <2>2. Members(rooms[r]) = {rooms[r].slot[1]}
    BY DEF Members
  <2>3. p \in GuestsOf(user, r)
    BY DEF GuestsOf
  <2> QED BY <2>1, <2>2, <2>3
<1>7. down' = [b \in Agents |-> down[b] \o (IF b = a THEN before ELSE <<>>) \o Told(news, b)
                                           \o (IF b = a THEN after ELSE <<>>)]
  <2> HIDE DEF before, news, after
  <2> QED BY <1>1 DEF Answer, Told, Everybody
<1> HIDE DEF news, m
<1>8. Strictly(after) /\ after \in Seq(DownMessages) /\ Strictly(before) /\ before \in Seq(DownMessages)
  BY <1>3, StrictOne, StrictNone, EmptyIsSeq
<1>9. ASSUME NEW q \in Players, NEW v \in Views
      PROVE  \E x, w : Leads(q, before, v, x) /\ Leads(q, after, x, w) /\ Keeps(user, rooms, user', rooms', q, v, w)
  <2>1. Leads(q, before, v, v) /\ Leads(q, after, v, After(q, v, m))
    BY <1>3, LeadsNone, LeadsOne
  <2>2. CASE q = p
    <3>1. After(q, v, m) = NoView
      BY <1>3, <2>2, AfterIs
    <3>2. Keeps(user, rooms, user', rooms', q, v, NoView)
      <4>1. user'[q] \in {0, Absent}
        BY <1>5, <2>2
      <4> QED BY <4>1, <1>5, NobodyKeeps, Zenon
    <3> QED BY <2>1, <3>1, <3>2
  <2>3. CASE q # p
    <3>1. After(q, v, m) = v
      BY <1>3, <2>3, AfterIs
    <3>2. user[q] # r
      BY <1>6, <2>3 DEF GuestsOf
    <3>3. Keeps(user, rooms, user', rooms', q, v, v)
      <4>1. user[p] \in {0, Absent, r} /\ user'[p] \in {0, Absent, r}
        BY <1>5
      <4> QED BY <1>5, <2>3, <3>2, <4>1, OthersStay, Zenon
    <3> QED BY <2>1, <3>1, <3>3
  <2> QED BY <2>2, <2>3
<1>10. KeepAll(before, after)
  BY <1>9 DEF KeepAll
<1> HIDE DEF before, after
<1> QED BY <1>4, <1>7, <1>8, <1>10 DEF Tells

(* One of several leaves the room r. *)
LEMMA StayTells ==
  ASSUME Base, RoomsOK, RoomsOK', NEW a \in Agents, NEW p \in Players, NEW r \in RoomIdx, rooms[r] # NoRoom,
         user[p] = r, rooms[r].cur # 1, NEW c \in Room, c # NoRoom, rooms' = [rooms EXCEPT ![r] = c],
         c.cap = rooms[r].cap, rooms[r].owner # p => c.owner = rooms[r].owner,
         NEW n \in {0, Absent}, user' = [user EXCEPT ![p] = n], AnswerLeaving(a, p, r)
  PROVE  Tells(a)
<1> DEFINE news == UpdateInfoCurrentGuestCount(r)
           before == <<>>
<1> PICK m : m = Msg("out_ack", {p})
  OBVIOUS
<1> PICK stay : stay = Named(rooms'[r])
  OBVIOUS
<1> PICK x : x = Notice("out", stay, p)
  OBVIOUS
<1> PICK o : o = rooms'[r].owner
  OBVIOUS
<1> PICK y : y = Notice("heir", stay, o)
  OBVIOUS
<1> DEFINE after == <<m, x>> \o IF rooms[r].owner = p THEN <<y>> ELSE <<>>
<1>1. Answer(a, before, news, after)
  <2>1. Answer(a, before, news, <<Msg("out_ack", {p}), Notice("out", Named(rooms'[r]), p)>>
                \o IF rooms[r].owner = p THEN <<Notice("heir", Named(rooms'[r]), rooms'[r].owner)>> ELSE <<>>)
    <3> HIDE DEF news
    <3> QED BY DEF AnswerLeaving, news
  <2> HIDE DEF news, before
  <2> QED BY <2>1
<1>2. served \in Nat
  BY DEF Base, CountTypes
<1>5. /\ user \in Tables /\ user' \in Tables /\ user'[p] = n /\ rooms'[r] = c
      /\ \A z \in Players \ {p} : user'[z] = user[z]
      /\ \A s \in RoomIdx \ {r} : rooms'[s] = rooms[s]
  BY DEF RoomsOK, Tables
<1>6. r # 0 /\ r # Absent /\ Members(rooms'[r]) = GuestsOf(user', r) /\ o \in Players
  BY <1>5, GuestsAreThen, ZeroIdx, RoomFields
<1>7. stay = GuestsOf(user', r) /\ GuestsOf(user', r) = GuestsOf(user, r) \ {p}
  <2>1. \A z \in Players : user'[z] = r <=> user[z] = r /\ z # p
    BY <1>5, <1>6
  <2>2. GuestsOf(user', r) = GuestsOf(user, r) \ {p}
    BY <2>1 DEF GuestsOf
  <2>3. \A z \in GuestsOf(user', r) : Registered(z)
    BY <2>1, <1>6 DEF GuestsOf, Registered
  <2> QED BY <1>6, <2>2, <2>3 DEF Named
<1>8. stay \in SUBSET Someone /\ p \in Someone /\ o \in Someone /\ stay \subseteq Players
  BY <1>6, <1>7 DEF GuestsOf, Someone
<1>m. m \in Plain /\ m \in StrictDown /\ m.kind = "out_ack" /\ m.to = {p}
  BY <1>2, PlainTo
<1>x. x \in Plain /\ x \in StrictDown /\ x.kind = "out" /\ x.to = stay /\ x.about = p
  BY <1>2, <1>8, PlainNotice DEF Notices
<1>y. y \in Plain /\ y \in StrictDown /\ y.kind = "heir" /\ y.to = stay /\ y.about = o
  BY <1>2, <1>8, PlainNotice DEF Notices
<1>4. RightNews(news)
  BY <1>2, CountedOrSized DEF IsRoom
<1>9. down' = [b \in Agents |-> down[b] \o (IF b = a THEN before ELSE <<>>) \o Told(news, b)
                                           \o (IF b = a THEN after ELSE <<>>)]
  <2> HIDE DEF before, news, after
  <2> QED BY <1>1 DEF Answer, Told, Everybody
<1>10. after = IF rooms[r].owner = p THEN <<m, x>> \o <<y>> ELSE <<m, x>>
  <2>1. <<m, x>> \o <<>> = <<m, x>>
    BY <1>m, <1>x, KeptTwo DEF Plain
  <2>2. CASE rooms[r].owner = p
    BY <2>2
  <2>3. CASE rooms[r].owner # p
    <3>1. after = <<m, x>> \o <<>>
      BY <2>3
    <3> HIDE DEF after
    <3> QED BY <2>1, <2>3, <3>1
  <2> QED BY <2>2, <2>3
<1> HIDE DEF news, after
<1>11. Strictly(after) /\ after \in Seq(DownMessages)
  <2>1. Strictly(<<m, x>>) /\ <<m, x>> \in Seq(DownMessages)
    BY <1>m, <1>x, StrictTwo
  <2>2. Strictly(<<y>>) /\ <<y>> \in Seq(DownMessages)
    BY <1>y, StrictOne
  <2>3. Strictly(<<m, x>> \o <<y>>) /\ <<m, x>> \o <<y>> \in Seq(DownMessages)
    BY <2>1, <2>2, StrictJoin
  <2> QED BY <1>10, <2>1, <2>3
<1>12. Strictly(before) /\ before \in Seq(DownMessages)
  BY StrictNone, EmptyIsSeq
<1>13. ASSUME NEW q \in Players, NEW v \in Views
      PROVE  \E z, w : Leads(q, before, v, z) /\ Leads(q, after, z, w) /\ Keeps(user, rooms, user', rooms', q, v, w)
  <2>1. Leads(q, before, v, v)
    BY LeadsNone
  <2> PICK v1 : v1 = After(q, v, m)
    OBVIOUS
  <2> PICK v2 : v2 = After(q, v1, x)
    OBVIOUS
  <2> PICK v3 : v3 = After(q, v2, y)
    OBVIOUS
  <2>2. Leads(q, after, v, IF rooms[r].owner = p THEN v3 ELSE v2)
    <3>1. Leads(q, <<m, x>>, v, v2)
      BY <1>m, <1>x, LeadsTwo
    <3>2. Leads(q, <<m, x>> \o <<y>>, v, v3)
      BY <1>m, <1>x, <1>y, LeadsThree
    <3> QED BY <1>10, <3>1, <3>2
  <2>3. v1 \in Views
    BY <1>m, AfterIs
  <2>4. v2 \in Views
    BY <1>x, <2>3, AfterIs
  <2>5. v3 \in Views
    BY <1>y, <2>4, AfterIs
  <2> PICK w : w = IF rooms[r].owner = p THEN v3 ELSE v2
    OBVIOUS
  <2>6. CASE q = p
    <3>0. q \notin stay
      BY <1>7, <2>6
    <3>1. v1 = NoView
      BY <1>m, <2>6, AfterIs
    <3>2. v2 = v1
      BY <1>x, <2>3, <3>0, AfterIs
    <3>3. v3 = v2
      BY <1>y, <2>4, <3>0, AfterIs
    <3>4. w = NoView /\ user'[q] \in {0, Absent}
      BY <3>1, <3>2, <3>3, <1>5, <2>6
    <3>5. Keeps(user, rooms, user', rooms', q, v, w)
      BY <1>5, <3>4, NobodyKeeps, Zenon
    <3> QED BY <2>1, <2>2, <3>5
  <2>7. CASE q # p /\ user[q] # r
    <3>0. q \notin stay
      BY <1>7, <2>7 DEF GuestsOf
    <3>1. v1 = v
      BY <1>m, <2>7, AfterIs
    <3>2. v2 = v1
      BY <1>x, <2>3, <3>0, AfterIs
    <3>3. v3 = v2
      BY <1>y, <2>4, <3>0, AfterIs
    <3>4. w = v
      BY <3>1, <3>2, <3>3
    <3>5. Keeps(user, rooms, user', rooms', q, v, v)
      <4>1. user[p] \in {0, Absent, r} /\ user'[p] \in {0, Absent, r}
        BY <1>5
      <4> QED BY <1>5, <2>7, <4>1, OthersStay, Zenon
    <3> QED BY <2>1, <2>2, <3>4, <3>5
  <2>8. CASE q # p /\ user[q] = r
    <3>0. q \in stay /\ user'[q] = r
      BY <1>5, <1>7, <2>8 DEF GuestsOf
    <3>1. v1 = v
      BY <1>m, <2>8, AfterIs
    <3>2. v2 = [room |-> v.room, members |-> v.members \ {p}, owner |-> v.owner]
      <4>1. q \in x.to /\ x.kind \in {"out", "kicked"}
        BY <1>x, <3>0
      <4>2. x.about = p /\ x \in Plain /\ v2 = After(q, v1, x)
        BY <1>x
      <4>3. After(q, v1, x) = Without(v1, p)
        BY <2>3, <4>1, <4>2, AfterOut
      <4> QED BY <3>1, <4>2, <4>3 DEF Without
    <3>3. v3 = IF v2.room = 0 THEN v2 ELSE [room |-> v2.room, members |-> v2.members, owner |-> o]
      <4>1. q \in y.to /\ y.kind \in {"heir", "owner"}
        BY <1>y, <3>0
      <4>2. y.about = o /\ y \in Plain /\ v3 = After(q, v2, y)
        BY <1>y
      <4>3. After(q, v2, y) = OwnedBy(v2, o)
        BY <2>4, <4>1, <4>2, AfterHeir
      <4> QED BY <4>2, <4>3 DEF OwnedBy
    <3>4. w \in Views /\ w.room = v.room /\ w.members = v.members \ {p}
          /\ w.owner = IF rooms[r].owner = p /\ v.room # 0 THEN o ELSE v.owner
      BY <2>4, <2>5, <3>2, <3>3
    <3>5. v = NoView => w = NoView
      <4> SUFFICES ASSUME v = NoView PROVE w = NoView
        OBVIOUS
      <4>1. v2 = NoView
        BY <3>2, NoViewStays
      <4>2. v3 = v2
        BY <3>3, <4>1, NoViewIs
      <4> QED BY <4>1, <4>2
    <3>6. v.room = r /\ GuestsOf(user, r) \subseteq v.members /\ v.owner = rooms[r].owner
          => GuestsOf(user', r) \subseteq w.members /\ w.owner = rooms'[r].owner
      BY <1>5, <1>6, <1>7, <3>4
    <3>7. Keeps(user, rooms, user', rooms', q, v, w)
      <4>1. user \in Tables /\ user' \in Tables /\ r # 0 /\ user[q] = r /\ user'[q] = r /\ w \in Views /\ w.room = v.room
        BY <1>5, <1>6, <2>8, <3>0, <3>4
      <4>2. IdxIn(user, q) = r /\ IdxIn(user', q) = r
        BY <4>1, ZeroIdx DEF IdxIn
      <4>3. AgreesIn(user, rooms, q, v) => AgreesIn(user', rooms', q, w)
        BY <4>1, <4>2, <3>6 DEF AgreesIn
      <4> QED BY <3>5, <4>3 DEF Keeps
    <3> QED BY <2>1, <2>2, <3>7
  <2> QED BY <2>6, <2>7, <2>8
<1>14. KeepAll(before, after)
  BY <1>13 DEF KeepAll
<1> HIDE DEF before
<1> QED BY <1>4, <1>9, <1>11, <1>12, <1>14 DEF Tells

LEMMA LeavingTells ==
  ASSUME Base, RoomsOK, RoomsOK', NEW a \in Agents, NEW p \in Players, InRoom(p), LeaveRoom(p, user[p]),
         NEW n \in {0, Absent}, user' = [user EXCEPT ![p] = n], AnswerLeaving(a, p, user[p])
  PROVE  Tells(a)
<1>1. PICK r : r = user[p]
  OBVIOUS
<1>2. r \in RoomIdx /\ r # 0 /\ rooms[r] # NoRoom
  BY <1>1, ZeroIdx DEF InRoom, RoomsOK, IsRoom
<1>3. rooms[r] \in Room /\ Fits(rooms[r], user, r) /\ SeatedIn(rooms[r], p)
  BY <1>1, <1>2, GuestsAre DEF RoomsOK, Seated, InRoom
<1>4. CASE rooms[r].cur = 1 /\ DeleteRoom(r)
  <2>1. rooms' = [rooms EXCEPT ![r] = NoRoom]
    BY <1>4 DEF DeleteRoom
  <2> QED BY <1>1, <1>2, <1>4, <2>1, LastTells
<1>5. CASE rooms[r].cur > 1 /\ rooms' = [rooms EXCEPT ![r] = [Compacted(rooms[r], p) EXCEPT !.owner = Heir(rooms[r], p)]]
  <2>1. Heir(rooms[r], p) \in Players /\ SeatedIn(rooms[r], Heir(rooms[r], p)) /\ Heir(rooms[r], p) # p
    BY <1>3, <1>5, HeirStays DEF Fits
  <2>2. Compacted(rooms[r], p) \in Room /\ Compacted(rooms[r], p).cap = rooms[r].cap
    BY <1>3, <1>5, CompactedRoom DEF Fits
  <2>3. PICK c : c = [Compacted(rooms[r], p) EXCEPT !.owner = Heir(rooms[r], p)]
    OBVIOUS
  <2>4. c \in Room /\ c.owner = Heir(rooms[r], p) /\ c.cap = rooms[r].cap /\ rooms' = [rooms EXCEPT ![r] = c]
    BY <1>5, <2>1, <2>2, <2>3, OwnedRoom
  <2>5. c # NoRoom
    BY <2>4, NoRoomAssumption
  <2>6. rooms[r].owner # p => c.owner = rooms[r].owner
    BY <2>4 DEF Heir
  <2>7. rooms[r].cur # 1
    BY <1>5
  <2> QED BY <1>1, <1>2, <2>4, <2>5, <2>6, <2>7, StayTells
<1>6. Seats(rooms[r]) /\ LeaveRoom(p, r)
  BY <1>1, <1>3 DEF Fits
<1> QED BY <1>2, <1>3, <1>4, <1>5, <1>6, LeaveRoomDoes

LEMMA TellsBy ==
  ASSUME NEW a, NEW before \in Seq(DownMessages), NEW after \in Seq(DownMessages), Strictly(before), Strictly(after),
         NEW news, RightNews(news), KeepAll(before, after), Answer(a, before, news, after)
  PROVE  Tells(a)
<1>1. down' = [b \in Agents |-> down[b] \o (IF b = a THEN before ELSE <<>>) \o Told(news, b)
                                           \o (IF b = a THEN after ELSE <<>>)]
  BY DEF Answer, Told, Everybody
<1> QED BY <1>1 DEF Tells

(* Nothing is sent after the news. *)
LEMMA KeepFirst ==
  ASSUME NEW before,
         \A q \in Players, v \in Views : \E w : Leads(q, before, v, w) /\ Keeps(user, rooms, user', rooms', q, v, w)
  PROVE  KeepAll(before, <<>>)
<1> SUFFICES ASSUME NEW q \in Players, NEW v \in Views
             PROVE  \E x, w : Leads(q, before, v, x) /\ Leads(q, <<>>, x, w)
                              /\ Keeps(user, rooms, user', rooms', q, v, w)
  BY DEF KeepAll
<1>1. PICK w : Leads(q, before, v, w) /\ Keeps(user, rooms, user', rooms', q, v, w)
  OBVIOUS
<1>2. Leads(q, <<>>, w, w)
  BY LeadsNone
<1> QED BY <1>1, <1>2

(* The tables of those who are in rooms are as they were. *)
LEMMA SameKeep ==
  ASSUME NEW u \in Tables, NEW u2 \in Tables, NEW R, NEW R2, NEW p \in Players, NEW q \in Players, NEW v \in Views,
         \A x \in Players \ {p} : u2[x] = u[x],
         u2[p] = u[p] \/ (u[p] \in {0, Absent} /\ u2[p] \in {0, Absent}),
         \A s \in RoomIdx : R2[s].owner = R[s].owner
  PROVE  Keeps(u, R, u2, R2, q, v, v)
<1>1. IdxIn(u2, q) = IdxIn(u, q)
  BY DEF IdxIn
<1>2. ASSUME v.room # 0 PROVE GuestsOf(u2, v.room) = GuestsOf(u, v.room) /\ R2[v.room].owner = R[v.room].owner
  <2>1. v.room \in RoomIdx /\ v.room # Absent
    BY ZeroIdx DEF Views
  <2>2. \A x \in Players : u2[x] = v.room <=> u[x] = v.room
    BY <1>2, <2>1
  <2> QED BY <2>1, <2>2 DEF GuestsOf
<1> QED BY <1>1, <1>2 DEF Keeps, AgreesIn

LEMMA SilentTells ==
  ASSUME Base, RoomsOK, RoomsOK', NEW a \in Agents, NEW p \in Players, Silent, rooms' = rooms,
         \A x \in Players \ {p} : user'[x] = user[x],
         user'[p] = user[p] \/ (user[p] \in {0, Absent} /\ user'[p] \in {0, Absent})
  PROVE  Tells(a)
<1>1. user \in Tables /\ user' \in Tables /\ \A s \in RoomIdx : rooms'[s].owner = rooms[s].owner
  BY DEF RoomsOK, Tables
<1>2. ASSUME NEW q \in Players, NEW v \in Views
      PROVE  \E w : Leads(q, <<>>, v, w) /\ Keeps(user, rooms, user', rooms', q, v, w)
  <2>1. Keeps(user, rooms, user', rooms', q, v, v)
    BY <1>1, SameKeep
  <2>2. Leads(q, <<>>, v, v)
    BY LeadsNone
  <2> QED BY <2>1, <2>2
<1>3. KeepAll(<<>>, <<>>)
  BY <1>2, KeepFirst
<1>4. TheBoard' = TheBoard
  BY DEF TheBoard, BoardOf
<1>5. RightNews(<<>>)
  BY <1>4, NothingNew
<1>6. down' = [b \in Agents |-> down[b] \o (IF b = a THEN <<>> ELSE <<>>) \o Told(<<>>, b)
                                           \o (IF b = a THEN <<>> ELSE <<>>)]
  <2>1. down \in [Agents -> Seq(DownMessages)] /\ down' = down
    BY DEF Base, WireTypes, Silent
  <2>2. ASSUME NEW b \in Agents PROVE down[b] \o (IF b = a THEN <<>> ELSE <<>>) \o Told(<<>>, b)
                                           \o (IF b = a THEN <<>> ELSE <<>>) = down[b]
    <3>1. Told(<<>>, b) = <<>>
      <4>1. ASSUME NEW W PROVE [k \in DOMAIN <<>> |-> [<<>>[k] EXCEPT !.to = W]] = <<>>
        OBVIOUS
      <4> QED BY <4>1 DEF Told
    <3>2. (IF b = a THEN <<>> ELSE <<>>) = <<>>
      OBVIOUS
    <3>3. down[b] \o <<>> = down[b]
      BY <2>1, ConcatEmpty
    <3> QED BY <3>1, <3>2, <3>3
  <2> QED BY <2>1, <2>2
<1>7. <<>> \in Seq(DownMessages) /\ Strictly(<<>>)
  BY EmptyIsSeq, StrictNone
<1> QED BY <1>3, <1>5, <1>6, <1>7 DEF Tells

LEMMA UnchangedTells ==
  ASSUME Base, RoomsOK, RoomsOK', NEW a \in Agents, NEW p \in Players, Silent, rooms' = rooms, user' = user
  PROVE  Tells(a)
<1>1. user'[p] = user[p] /\ \A x \in Players \ {p} : user'[x] = user[x]
  OBVIOUS
<1>2. user'[p] = user[p] \/ (user[p] \in {0, Absent} /\ user'[p] \in {0, Absent})
  BY <1>1, Zenon
<1>3. rooms' = rooms /\ Silent
  OBVIOUS
<1> HIDE DEF Silent
<1> QED BY <1>1, <1>2, <1>3, SilentTells

LEMMA AddTells ==
  ASSUME Base, RoomsOK, RoomsOK', NEW a \in Agents, NEW p \in Players, ServeAdd(a, p)
  PROVE  Tells(a)
<1>1. CASE Registered(p)
  <2>1. UNCHANGED vars /\ Silent
    BY <1>1 DEF ServeAdd
  <2>2. user' = user /\ rooms' = rooms
    BY <2>1 DEF vars
  <2> QED BY <2>1, <2>2, UnchangedTells
<1>2. CASE ~Registered(p)
  <2> PICK m : m = Msg("add_ack", {p})
    OBVIOUS
  <2>1. AddUserSyn(p) /\ Answer(a, <<m>>, <<>>, <<>>)
    BY <1>2 DEF ServeAdd
  <2>2. served \in Nat
    BY DEF Base, CountTypes
  <2>3. m \in Plain /\ m \in StrictDown /\ m.kind = "add_ack"
    BY <2>2, PlainTo
  <2>4. /\ user \in Tables /\ user' \in Tables /\ \A s \in RoomIdx : rooms'[s].owner = rooms[s].owner
        /\ user' = [user EXCEPT ![p] = 0] /\ rooms' = rooms
    BY <2>1 DEF RoomsOK, Tables, AddUserSyn
  <2>5. user[p] \in {0, Absent} /\ user'[p] \in {0, Absent} /\ \A x \in Players \ {p} : user'[x] = user[x]
    BY <1>2, <2>4 DEF Registered, Tables
  <2>6. ASSUME NEW q \in Players, NEW v \in Views
        PROVE  \E w : Leads(q, <<m>>, v, w) /\ Keeps(user, rooms, user', rooms', q, v, w)
    <3>1. Keeps(user, rooms, user', rooms', q, v, v)
      BY <2>4, <2>5, SameKeep
    <3>2. After(q, v, m) = v
      BY <2>3, AfterIs
    <3>3. Leads(q, <<m>>, v, After(q, v, m))
      BY <2>3, LeadsOne
    <3> QED BY <3>1, <3>2, <3>3
  <2>7. KeepAll(<<m>>, <<>>)
    BY <2>6, KeepFirst
  <2>8. TheBoard' = TheBoard
    BY <2>4 DEF TheBoard, BoardOf
  <2>9. RightNews(<<>>)
    BY <2>8, NothingNew
  <2>10. /\ <<>> \in Seq(DownMessages) /\ Strictly(<<>>) /\ <<m>> \in Seq(DownMessages) /\ Strictly(<<m>>)
    BY <2>3, EmptyIsSeq, StrictNone, StrictOne
  <2> QED BY <2>1, <2>7, <2>9, <2>10, TellsBy
<1> QED BY <1>1, <1>2

LEMMA OutTells ==
  ASSUME Base, RoomsOK, RoomsOK', NEW a \in Agents, NEW p \in Players, ServeOut(a, p)
  PROVE  Tells(a)
<1>1. /\ InRoom(p) /\ LeaveRoom(p, user[p]) /\ user' = [user EXCEPT ![p] = 0] /\ AnswerLeaving(a, p, user[p])
  BY DEF ServeOut, OutRoomSyn
<1>2. 0 \in {0, Absent}
  OBVIOUS
<1> QED BY <1>1, <1>2, LeavingTells

(* A player that is registered anew, or deleted. *)
LEMMA LeaveAsTells ==
  ASSUME Base, RoomsOK, RoomsOK', NEW a \in Agents, NEW p \in Players, NEW n \in {0, Absent}, NEW e, LeaveAs(p, n, e),
         IF InRoom(p) THEN AnswerLeaving(a, p, user[p]) ELSE Silent
  PROVE  Tells(a)
<1>1. user' = [user EXCEPT ![p] = n]
  BY DEF LeaveAs
<1>2. CASE InRoom(p)
  <2>1. LeaveRoom(p, user[p])
    BY <1>2 DEF LeaveAs
  <2> QED BY <1>1, <1>2, <2>1, LeavingTells
<1>3. CASE ~InRoom(p)
  <2>1. rooms' = rooms /\ Silent
    BY <1>3 DEF LeaveAs
  <2>2. user[p] \in {0, Absent}
    BY <1>3 DEF RoomsOK, Seated, InRoom
  <2>3. user'[p] \in {0, Absent} /\ \A x \in Players \ {p} : user'[x] = user[x]
    BY <1>1 DEF RoomsOK
  <2> QED BY <2>1, <2>2, <2>3, SilentTells
<1> QED BY <1>2, <1>3

LEMMA ForceTells ==
  ASSUME Base, RoomsOK, RoomsOK', NEW a \in Agents, NEW p \in Players, ServeForce(a, p)
  PROVE  Tells(a)
<1>1. \E e : LeaveAs(p, 0, e)
  BY DEF ServeForce, ForceAddUserSyn
<1>2. IF InRoom(p) THEN AnswerLeaving(a, p, user[p]) ELSE Silent
  BY DEF ServeForce
<1>3. 0 \in {0, Absent}
  OBVIOUS
<1> QED BY <1>1, <1>2, <1>3, LeaveAsTells

LEMMA DelTells ==
  ASSUME Base, RoomsOK, RoomsOK', NEW a \in Agents, NEW p \in Players, ServeDel(a, p)
  PROVE  Tells(a)
<1>1. CASE Registered(p)
  <2>1. \E e : LeaveAs(p, Absent, e)
    BY <1>1 DEF ServeDel, DelUserSyn
  <2>2. IF InRoom(p) THEN AnswerLeaving(a, p, user[p]) ELSE Silent
    BY <1>1 DEF ServeDel
  <2>3. Absent \in {0, Absent}
    OBVIOUS
  <2> QED BY <2>1, <2>2, <2>3, LeaveAsTells
<1>2. CASE ~Registered(p)
  <2>1. UNCHANGED vars /\ Silent
    BY <1>2 DEF ServeDel
  <2>2. user' = user /\ rooms' = rooms
    BY <2>1 DEF vars
  <2> QED BY <2>1, <2>2, UnchangedTells
<1> QED BY <1>1, <1>2

LEMMA CreateTells ==
  ASSUME Base, RoomsOK, RoomsOK', NEW a \in Agents, NEW p \in Players, NEW cap \in Caps, ServeCreate(a, p, cap)
  PROVE  Tells(a)
<1>1. PICK type \in Types : CreateRoomSyn(p, cap, type)
  BY DEF ServeCreate
<1>2. PICK r : r = user'[p]
  OBVIOUS
<1> PICK c : c = NewRoom(p, cap, type)
  OBVIOUS
<1>3. c \in Room /\ c # NoRoom /\ c.cur = 1 /\ c.slot[1] = p /\ c.owner = p
  BY NewRoomIs
<1>4. /\ user[p] = 0 /\ user' = [user EXCEPT ![p] = GetEmptyRoomIdx]
      /\ rooms' = [rooms EXCEPT ![GetEmptyRoomIdx] = c]
  BY <1>1 DEF CreateRoomSyn, AddRoom, NewRoom
<1>5. /\ user \in Tables /\ user' \in Tables /\ r = GetEmptyRoomIdx /\ r \in RoomIdx
      /\ \A x \in Players \ {p} : user'[x] = user[x]
      /\ \A s \in RoomIdx \ {r} : rooms'[s] = rooms[s]
      /\ rooms'[r] = c /\ rooms' = [rooms EXCEPT ![r] = c]
  BY <1>2, <1>4, EmptyRoomIdx DEF RoomsOK, Tables
<1>6. r # 0 /\ ~IsRoom(r)
  <2>1. rooms'[0] = NoRoom
    BY DEF RoomsOK
  <2> QED BY <2>1, <1>3, <1>5, EmptyRoomIdx
<1>7. GuestsOf(user', r) = {p}
  <2>1. Members(rooms'[r]) = GuestsOf(user', r)
    BY <1>3, <1>5, GuestsAreThen
  <2>2. Members(c) = {p}
    BY <1>3 DEF Members
  <2> QED BY <2>1, <2>2, <1>5
<1>8. served \in Nat /\ rooms'[r] \in LooseRoom
  <2>1. rooms'[user'[p]] \in LooseRoom
    BY <1>1, CreateTypes DEF Base
  <2> QED BY <2>1, <1>2 DEF Base, CountTypes
<1> PICK m : m = Ack("create_ack", p, r)
  OBVIOUS
<1>9. /\ m \in Plain /\ m \in StrictDown /\ m.kind = "create_ack" /\ m.to = {p} /\ m.room = r
      /\ m.about = p /\ m.list = {p}
  <2>1. rooms'[r].owner = p
    BY <1>3, <1>5
  <2>2. /\ m \in Plain /\ m \in StrictDown /\ m.kind = "create_ack" /\ m.to = {p} /\ m.room = r
        /\ m.about = rooms'[r].owner
        /\ m.list = IF "create_ack" = "join_ack" THEN JoinAckLists(rooms'[r]) ELSE {p}
    BY <1>5, <1>8, PlainAck
  <2> QED BY <2>1, <2>2
<1> PICK news : news = UpdateInfoCreatedRoom(r)
  OBVIOUS
<1>10. Answer(a, <<m>>, news, <<>>)
  BY <1>2 DEF ServeCreate
<1>11. RightNews(news)
  BY <1>3, <1>5, <1>8, MadeOrGone
<1>12. ASSUME NEW q \in Players, NEW v \in Views
       PROVE  \E w : Leads(q, <<m>>, v, w) /\ Keeps(user, rooms, user', rooms', q, v, w)
  <2> PICK w : w = After(q, v, m)
    OBVIOUS
  <2>1. Leads(q, <<m>>, v, w)
    BY <1>9, LeadsOne
  <2>2. CASE q = p
    <3>1. w = [room |-> r, members |-> {p} \cup {p}, owner |-> p]
      <4>1. q \in m.to /\ m.kind \in {"create_ack", "join_ack"}
        BY <1>9, <2>2
      <4>2. w = [room |-> m.room, members |-> m.list \cup {q}, owner |-> m.about]
        BY <1>9, <4>1, AfterIs
      <4> QED BY <4>2, <1>9, <2>2
    <3>2. w.room = r /\ GuestsOf(user', r) \subseteq w.members /\ w.owner = rooms'[r].owner /\ user'[q] = r
      <4>1. w.room = r /\ w.members = {p} /\ w.owner = p
        BY <3>1
      <4>2. rooms'[r].owner = p
        BY <1>3, <1>5
      <4> QED BY <4>1, <4>2, <1>2, <1>7, <2>2
    <3>3. Keeps(user, rooms, user', rooms', q, v, w)
      BY <1>5, <3>2, ComerKeeps
    <3> QED BY <2>1, <3>3
  <2>3. CASE q # p
    <3>1. w = v
      BY <1>9, <2>3, AfterIs
    <3>2. user[q] # r
      BY <1>5, <1>6, ZeroIdx DEF RoomsOK, Seated
    <3>3. Keeps(user, rooms, user', rooms', q, v, v)
      <4>1. user[p] \in {0, Absent, r} /\ user'[p] \in {0, Absent, r}
        BY <1>2, <1>4
      <4>2. v.members \ {p} \subseteq v.members
        OBVIOUS
      <4> QED BY <1>5, <2>3, <3>2, <4>1, <4>2, OthersKeep, Zenon
    <3> QED BY <2>1, <3>1, <3>3
  <2> QED BY <2>2, <2>3
<1>13. KeepAll(<<m>>, <<>>)
  BY <1>12, KeepFirst
<1>14. /\ <<>> \in Seq(DownMessages) /\ Strictly(<<>>) /\ <<m>> \in Seq(DownMessages) /\ Strictly(<<m>>)
  BY <1>9, EmptyIsSeq, StrictNone, StrictOne
<1> QED BY <1>10, <1>11, <1>13, <1>14, TellsBy

LEMMA JoinTells ==
  ASSUME Base, RoomsOK, RoomsOK', NEW a \in Agents, NEW p \in Players, NEW r \in RoomIdx, ServeJoin(a, p, r)
  PROVE  Tells(a)
<1>1. /\ JoinRoomSyn(p, r) /\ user[p] = 0 /\ r # 0 /\ rooms[r] # NoRoom
      /\ user' = [user EXCEPT ![p] = r]
      /\ rooms' = [rooms EXCEPT ![r].slot[rooms[r].cur + 1] = p, ![r].cur = @ + 1]
  BY DEF ServeJoin, JoinRoomSyn, IsRoom
<1>2. /\ user \in Tables /\ user' \in Tables /\ user'[p] = r
      /\ \A x \in Players \ {p} : user'[x] = user[x]
      /\ \A s \in RoomIdx \ {r} : rooms'[s] = rooms[s]
      /\ rooms[r] \in Room /\ rooms \in [RoomIdx -> Room \cup {NoRoom}]
  BY <1>1, GuestsAre DEF RoomsOK, Tables
<1>r. rooms[r] \in Room
  BY <1>2
<1>3. PICK n \in Nat : n = rooms[r].cur
  BY <1>r, RoomFields
<1> DEFINE c == [owner |-> rooms[r].owner, slot |-> [rooms[r].slot EXCEPT ![n + 1] = p],
                 cur |-> n + 1, cap |-> rooms[r].cap, type |-> rooms[r].type]
<1>4. rooms' = [rooms EXCEPT ![r] = c]
  <2>1. c = [rooms[r] EXCEPT !.slot[n + 1] = p, !.cur = n + 1]
    <3>1. GrownFields(rooms[r], n, p) = Grown(rooms[r], n, p)
      BY <1>r, RoomGrown
    <3> QED BY <3>1, Zenon DEF Grown, GrownFields
  <2> HIDE DEF c
  <2>2. rooms' = [rooms EXCEPT ![r] = [rooms[r] EXCEPT !.slot[rooms[r].cur + 1] = p, !.cur = rooms[r].cur + 1]]
    BY <1>1
  <2> QED BY <1>3, <2>1, <2>2, Zenon
<1>5. c.owner = rooms[r].owner /\ c.cap = rooms[r].cap /\ c.cur = n + 1
  OBVIOUS
<1> HIDE DEF c
<1>6. rooms'[r] = c
  BY <1>2, <1>4
<1>7. c # NoRoom
  <2>1. user'[p] \notin {0, Absent}
    BY <1>1, <1>2, ZeroIdx
  <2> QED BY <2>1, <1>2, <1>6 DEF RoomsOK, Seated, IsRoom
<1>8. /\ c \in Room /\ Members(c) = GuestsOf(user', r) /\ Fits(c, user', r)
  BY <1>6, <1>7, GuestsAreThen
<1>9. /\ Members(rooms[r]) = GuestsOf(user, r) /\ GuestsOf(user', r) = GuestsOf(user, r) \cup {p} /\ p \notin GuestsOf(user, r)
  <2>1. Members(rooms[r]) = GuestsOf(user, r)
    BY <1>1, GuestsAre
  <2>2. \A x \in Players : user'[x] = r <=> user[x] = r \/ x = p
    BY <1>2
  <2> QED BY <2>1, <2>2, <1>1 DEF GuestsOf
<1> PICK J : J = JoinAckLists(rooms'[r])
  OBVIOUS
<1> PICK M : M = Named(rooms'[r]) \ {p}
  OBVIOUS
<1>10. /\ \A z \in GuestsOf(user, r) : Registered(z)
  BY <1>1, ZeroIdx DEF GuestsOf, Registered
<1>11. GuestsOf(user, r) \subseteq J
  <2> SUFFICES ASSUME NEW z \in GuestsOf(user, r) PROVE z \in J
    OBVIOUS
  <2>1. PICK k \in 1..c.cur : c.slot[k] = z
    BY <1>8, <1>9 DEF Members
  <2>2. k \in 1..MaxGuests
    BY <1>8, <2>1, RoomFields
  <2>3. z # NoPlayer /\ Registered(z)
    BY <1>10, ZeroIdx DEF GuestsOf
  <2> QED BY <1>6, <2>1, <2>2, <2>3 DEF JoinAckLists
<1>12. M = GuestsOf(user, r)
  <2>1. Named(c) = {z \in GuestsOf(user', r) : Registered(z)}
    BY <1>8 DEF Named
  <2> QED BY <2>1, <1>6, <1>9, <1>10
<1>13. served \in Nat /\ rooms'[r] \in LooseRoom
  BY <1>1, JoinTypes DEF Base, CountTypes
<1>14. M \in SUBSET Someone /\ p \in Someone
  BY <1>12 DEF GuestsOf, Someone
<1> PICK m : m = Ack("join_ack", p, r)
  OBVIOUS
<1> PICK x : x = Notice("join", M, p)
  OBVIOUS
<1>m. /\ m \in Plain /\ m \in StrictDown /\ m.kind = "join_ack" /\ m.to = {p} /\ m.room = r
      /\ m.about = c.owner /\ m.list = J
  BY <1>6, <1>13, PlainAck
<1>x. x \in Plain /\ x \in StrictDown /\ x.kind = "join" /\ x.to = M /\ x.about = p
  BY <1>13, <1>14, PlainNotice DEF Notices
<1> PICK news : news = UpdateInfoCurrentGuestCount(r)
  OBVIOUS
<1>15. Answer(a, <<m, x>>, news, <<>>)
  BY DEF ServeJoin
<1>16. RightNews(news)
  BY <1>1, <1>4, <1>5, <1>7, <1>8, <1>13, CountedOrSized DEF IsRoom
<1>17. ASSUME NEW q \in Players, NEW v \in Views
       PROVE  \E w : Leads(q, <<m, x>>, v, w) /\ Keeps(user, rooms, user', rooms', q, v, w)
  <2> PICK v1 : v1 = After(q, v, m)
    OBVIOUS
  <2> PICK w : w = After(q, v1, x)
    OBVIOUS
  <2>1. Leads(q, <<m, x>>, v, w)
    BY <1>m, <1>x, LeadsTwo
  <2>2. v1 \in Views
    BY <1>m, AfterIs
  <2>3. w \in Views
    BY <1>x, <2>2, AfterIs
  <2>4. CASE q = p
    <3>1. w = v1
      <4>1. q \notin x.to
        BY <1>x, <1>12, <1>9, <2>4
      <4> QED BY <1>x, <2>2, <4>1, AfterIs
    <3>2. v1 = [room |-> r, members |-> J \cup {p}, owner |-> c.owner]
      <4>1. q \in m.to /\ m.kind \in {"create_ack", "join_ack"}
        BY <1>m, <2>4
      <4>2. v1 = [room |-> m.room, members |-> m.list \cup {q}, owner |-> m.about]
        BY <1>m, <4>1, AfterIs
      <4> QED BY <4>2, <1>m, <2>4
    <3>3. w.room = r /\ GuestsOf(user', r) \subseteq w.members /\ w.owner = rooms'[r].owner /\ user'[q] = r
      <4>1. w.room = r /\ w.members = J \cup {p} /\ w.owner = c.owner
        BY <3>1, <3>2
      <4>2. rooms'[r].owner = c.owner
        BY <1>6
      <4> QED BY <4>1, <4>2, <1>2, <1>9, <1>11, <2>4
    <3>4. Keeps(user, rooms, user', rooms', q, v, w)
      BY <3>3, ComerKeeps
    <3> QED BY <2>1, <3>4
  <2>5. CASE q # p /\ user[q] # r
    <3>0. q \notin m.to /\ q \notin x.to
      BY <1>m, <1>x, <1>12, <2>5 DEF GuestsOf
    <3>1. v1 = v
      BY <1>m, <3>0, AfterIs
    <3>2. w = v1
      BY <1>x, <2>2, <3>0, AfterIs
    <3>3. Keeps(user, rooms, user', rooms', q, v, v)
      <4>1. user[p] \in {0, Absent, r} /\ user'[p] \in {0, Absent, r}
        BY <1>1, <1>2
      <4>2. v.members \ {p} \subseteq v.members
        OBVIOUS
      <4> QED BY <1>2, <2>5, <4>1, <4>2, OthersKeep, Zenon
    <3> QED BY <2>1, <3>1, <3>2, <3>3
  <2>6. CASE q # p /\ user[q] = r
    <3>0. q \notin m.to /\ q \in x.to /\ user'[q] = r
      BY <1>m, <1>x, <1>2, <1>12, <2>6 DEF GuestsOf
    <3>1. v1 = v
      BY <1>m, <3>0, AfterIs
    <3>2. /\ v.room = 0 => w = v
          /\ v.room # 0 => w = [room |-> v.room, members |-> v.members \cup {p}, owner |-> v.owner]
      <4>1. q \in x.to /\ x.kind = "join" /\ x.about = p /\ x \in Plain
        BY <1>x, <3>0
      <4>2. /\ v.room = 0 => After(q, v, x) = v
            /\ v.room # 0 => After(q, v, x) = [room |-> v.room, members |-> v.members \cup {x.about}, owner |-> v.owner]
        BY <4>1, AfterComer
      <4> QED BY <4>1, <4>2, <3>1
    <3>3. w.room = v.room
      BY <3>2
    <3>r. v.room # 0 => w.members = v.members \cup {p} /\ w.owner = v.owner
      BY <3>2
    <3>4. v = NoView => w = NoView
      BY <3>2, NoViewIs
    <3>5. ASSUME v.room = r, GuestsOf(user, r) \subseteq v.members, v.owner = rooms[r].owner
          PROVE  GuestsOf(user', r) \subseteq w.members /\ w.owner = rooms'[r].owner
      <4>1. w.members = v.members \cup {p} /\ w.owner = v.owner
        BY <3>5, <3>r, <1>1
      <4>2. rooms'[r].owner = rooms[r].owner
        BY <1>5, <1>6
      <4> QED BY <4>1, <4>2, <3>5, <1>9
    <3>6. Keeps(user, rooms, user', rooms', q, v, w)
      <4>1. /\ w.room = v.room
            /\ v = NoView => w = NoView
            /\ v.room = r /\ GuestsOf(user, r) \subseteq v.members /\ v.owner = rooms[r].owner
               => GuestsOf(user', r) \subseteq w.members /\ w.owner = rooms'[r].owner
            /\ user[q] = r /\ user'[q] = r /\ r # 0
        BY <1>1, <2>6, <3>0, <3>3, <3>4, <3>5
      <4> QED BY <1>2, <2>3, <4>1, GuestKeeps
    <3> QED BY <2>1, <3>6
  <2> QED BY <2>4, <2>5, <2>6
<1>18. KeepAll(<<m, x>>, <<>>)
  BY <1>17, KeepFirst
<1>19. /\ <<>> \in Seq(DownMessages) /\ Strictly(<<>>) /\ <<m, x>> \in Seq(DownMessages) /\ Strictly(<<m, x>>)
  BY <1>m, <1>x, EmptyIsSeq, StrictNone, StrictTwo
<1> QED BY <1>15, <1>16, <1>18, <1>19, TellsBy

LEMMA OptionTells ==
  ASSUME Base, RoomsOK, RoomsOK', NEW a \in Agents, NEW p \in Players, NEW cap \in Caps, ServeOption(a, p, cap)
  PROVE  Tells(a)
<1> PICK r : r = user[p]
  OBVIOUS
<1>1. r # Absent /\ rooms[r] # NoRoom /\ OptionSyn(p, cap, rooms[r].type)
  BY DEF ServeOption, OptionSyn, Owns, IsRoom
<1>2. r \in RoomIdx
  BY <1>1 DEF RoomsOK
<1>3. rooms[r] \in Room /\ Members(rooms[r]) = GuestsOf(user, r)
  BY <1>1, <1>2, GuestsAre
<1> PICK c : c = Opted(rooms[r], cap, rooms[r].type)
  OBVIOUS
<1>4. c \in Room /\ c # NoRoom /\ c.owner = rooms[r].owner /\ c.cur = rooms[r].cur /\ c.cap = cap
  BY <1>3, RoomFields, OptedRoom, NoRoomAssumption
<1>5. rooms' = [rooms EXCEPT ![r] = c] /\ user' = user
  BY <1>1 DEF OptionSyn, Opted
<1>6. /\ user \in Tables /\ user' \in Tables
      /\ user'[p] = user[p] \/ (user[p] \in {0, Absent} /\ user'[p] \in {0, Absent})
      /\ \A x \in Players \ {p} : user'[x] = user[x]
  BY <1>5 DEF RoomsOK, Tables
<1>7. \A s \in RoomIdx : rooms'[s].owner = rooms[s].owner
  BY <1>4, <1>5 DEF RoomsOK
<1>8. served \in Nat
  BY DEF Base, CountTypes
<1> PICK m : m = Notice("option", Named(rooms[r]), NoPlayer)
  OBVIOUS
<1>9. m \in Plain /\ m \in StrictDown /\ m.kind = "option"
  <2>1. Named(rooms[r]) \in SUBSET Someone /\ NoPlayer \in Someone
    BY <1>3 DEF Named, GuestsOf, Someone
  <2> QED BY <1>8, <2>1, PlainNotice DEF Notices
<1> PICK news : news = IF cap # rooms[r].cap THEN UpdateInfoTotalGuestCount(r) ELSE <<>>
  OBVIOUS
<1>10. Answer(a, <<m>>, news, <<>>)
  BY DEF ServeOption
<1>11. RightNews(news)
  <2>1. CASE cap # rooms[r].cap
    <3>1. RightNews(UpdateInfoTotalGuestCount(r))
      BY <1>1, <1>2, <1>4, <1>5, <1>8, CountedOrSized DEF IsRoom
    <3> QED BY <2>1, <3>1
  <2>2. CASE cap = rooms[r].cap
    <3>1. Line(c) = Line(rooms[r])
      BY <1>4, <2>2 DEF Line
    <3>2. TheBoard[r] = Line(rooms[r]) /\ TheBoard \in StrictPage
      BY <1>1, <1>2, BoardIs
    <3> PICK l : l = Line(c)
      OBVIOUS
    <3>3. l = IF c # NoRoom THEN Line(c) ELSE NoRoom
      BY <1>4
    <3>4. TheBoard' = [TheBoard EXCEPT ![r] = l]
      <4>1. RoomReplaced(r, c)
        BY <1>5 DEF RoomReplaced
      <4>2. RoomsOK /\ r \in RoomIdx
        BY <1>2
      <4>3. LineReplaced(r, l)
        BY <3>3, <4>1, <4>2, BoardPut
      <4> QED BY <4>3 DEF LineReplaced
    <3>5. TheBoard' = TheBoard
      <4> PICK b : b = TheBoard
        OBVIOUS
      <4>1. b \in StrictPage /\ b[r] = l /\ TheBoard' = [b EXCEPT ![r] = l]
        BY <3>1, <3>2, <3>4
      <4>2. [b EXCEPT ![r] = l] = b
        BY <4>1 DEF StrictPage
      <4> QED BY <4>1, <4>2
    <3> QED BY <2>2, <3>5, NothingNew
  <2> QED BY <2>1, <2>2
<1>12. ASSUME NEW q \in Players, NEW v \in Views
       PROVE  \E w : Leads(q, <<m>>, v, w) /\ Keeps(user, rooms, user', rooms', q, v, w)
  <2>1. Keeps(user, rooms, user', rooms', q, v, v)
    BY <1>6, <1>7, SameKeep
  <2>2. After(q, v, m) = v
    <3>1. m.kind \in {"add_ack", "option"}
      BY <1>9
    <3> QED BY <1>9, <3>1, AfterIs
  <2>3. Leads(q, <<m>>, v, After(q, v, m))
    BY <1>9, LeadsOne
  <2> QED BY <2>1, <2>2, <2>3
<1>13. KeepAll(<<m>>, <<>>)
  BY <1>12, KeepFirst
<1>14. /\ <<>> \in Seq(DownMessages) /\ Strictly(<<>>) /\ <<m>> \in Seq(DownMessages) /\ Strictly(<<m>>)
  BY <1>9, EmptyIsSeq, StrictNone, StrictOne
<1> QED BY <1>10, <1>11, <1>13, <1>14, TellsBy

(* The owner and the new one are in the same room. *)
LEMMA OwnerTells ==
  ASSUME Base, RoomsOK, RoomsOK', ~Delayed, NEW a \in Agents, NEW p \in Players, NEW o \in Nameable(p),
         ServeOwner(a, p, o)
  PROVE  Tells(a)
<1>1. OwnerSyn(p, o) /\ Owns(p, user[p])
  BY DEF ServeOwner, OwnerSyn
<1>2. PICK r \in RoomIdx : /\ r = user[p] /\ r = user[o] /\ IsRoom(r)
                           /\ o \in Players /\ o # p /\ rooms[r] \in Room
  BY <1>1, NamedIsGuest
<1>3. r # 0 /\ Members(rooms[r]) = GuestsOf(user, r)
  BY <1>2, GuestsAre DEF IsRoom
<1> PICK c : c = [rooms[r] EXCEPT !.owner = o]
  OBVIOUS
<1>4. c \in Room /\ c # NoRoom /\ c.owner = o /\ c.cur = rooms[r].cur /\ c.cap = rooms[r].cap
  BY <1>2, OwnedRoom, NoRoomAssumption
<1>5. rooms' = [rooms EXCEPT ![r] = c] /\ user' = user
  BY <1>1, <1>2 DEF OwnerSyn
<1>6. /\ user \in Tables /\ user' \in Tables
      /\ user[p] \in {0, Absent, r} /\ user'[p] \in {0, Absent, r}
      /\ \A x \in Players \ {p} : user'[x] = user[x]
      /\ \A s \in RoomIdx \ {r} : rooms'[s] = rooms[s]
      /\ rooms'[r].owner = o
  BY <1>2, <1>4, <1>5 DEF RoomsOK, Tables
<1>7. served \in Nat
  BY DEF Base, CountTypes
<1> PICK M : M = Named(rooms[r])
  OBVIOUS
<1>8. M = GuestsOf(user, r)
  <2>1. \A z \in GuestsOf(user, r) : Registered(z)
    BY <1>3, ZeroIdx DEF GuestsOf, Registered
  <2> QED BY <1>3, <2>1 DEF Named
<1> PICK m : m = Notice("owner", M, o)
  OBVIOUS
<1>9. m \in Plain /\ m \in StrictDown /\ m.kind = "owner" /\ m.to = M /\ m.about = o
  <2>1. M \in SUBSET Someone /\ o \in Someone
    BY <1>2, <1>8 DEF GuestsOf, Someone
  <2> QED BY <1>7, <2>1, PlainNotice DEF Notices
<1>10. Answer(a, <<m>>, <<>>, <<>>)
  BY <1>2 DEF ServeOwner
<1>11. RightNews(<<>>)
  <2> PICK l : l = Line(c)
    OBVIOUS
  <2>1. l = Line(rooms[r])
    BY <1>4 DEF Line
  <2>2. TheBoard[r] = l /\ TheBoard \in StrictPage
    BY <1>2, <2>1, BoardIs DEF IsRoom
  <2>3. l = IF c # NoRoom THEN Line(c) ELSE NoRoom
    BY <1>4
  <2>4. TheBoard' = [TheBoard EXCEPT ![r] = l]
    <3>1. RoomReplaced(r, c)
      BY <1>5 DEF RoomReplaced
    <3>2. LineReplaced(r, l)
      BY <2>3, <3>1, BoardPut
    <3> QED BY <3>2 DEF LineReplaced
  <2> PICK b : b = TheBoard
    OBVIOUS
  <2>5. [b EXCEPT ![r] = l] = b
    BY <2>2 DEF StrictPage
  <2>6. TheBoard' = TheBoard
    BY <2>4, <2>5
  <2> QED BY <2>6, NothingNew
<1>12. ASSUME NEW q \in Players, NEW v \in Views
       PROVE  \E w : Leads(q, <<m>>, v, w) /\ Keeps(user, rooms, user', rooms', q, v, w)
  <2> PICK w : w = After(q, v, m)
    OBVIOUS
  <2>1. Leads(q, <<m>>, v, w)
    BY <1>9, LeadsOne
  <2>2. w \in Views
    BY <1>9, AfterIs
  <2>3. CASE user[q] = r
    <3>1. w = IF v.room = 0 THEN v ELSE [room |-> v.room, members |-> v.members, owner |-> o]
      <4>1. q \in m.to /\ m.kind \in {"heir", "owner"}
        BY <1>8, <1>9, <2>3 DEF GuestsOf
      <4>2. After(q, v, m) = IF v.room = 0 THEN v ELSE [room |-> v.room, members |-> v.members, owner |-> m.about]
        BY <1>9, <4>1, AfterIs
      <4> QED BY <4>2, <1>9
    <3>2. w.room = v.room /\ (v.room # 0 => w.members = v.members /\ w.owner = o)
      BY <3>1
    <3>3. v = NoView => w = NoView
      BY <3>1, NoViewIs
    <3>4. GuestsOf(user', r) = GuestsOf(user, r)
      BY <1>5
    <3>5. v.room = r /\ GuestsOf(user, r) \subseteq v.members /\ v.owner = rooms[r].owner
          => GuestsOf(user', r) \subseteq w.members /\ w.owner = rooms'[r].owner
      BY <1>3, <1>6, <3>2, <3>4
    <3>6. Keeps(user, rooms, user', rooms', q, v, w)
      <4>1. user \in Tables /\ user' \in Tables /\ r # 0 /\ user[q] = r /\ user'[q] = r /\ w \in Views /\ w.room = v.room
        BY <1>3, <1>5, <1>6, <2>2, <2>3, <3>2
      <4> QED BY <4>1, <3>3, <3>5, GuestKeeps
    <3> QED BY <2>1, <3>6
  <2>4. CASE user[q] # r
    <3>0. q \notin m.to /\ q # p
      BY <1>2, <1>8, <1>9, <2>4 DEF GuestsOf
    <3>1. w = v
      BY <1>9, <3>0, AfterIs
    <3>2. Keeps(user, rooms, user', rooms', q, v, v)
      <4>2. v.members \ {p} \subseteq v.members
        OBVIOUS
      <4> QED BY <1>6, <2>4, <3>0, <4>2, OthersKeep, Zenon
    <3> QED BY <2>1, <3>1, <3>2
  <2> QED BY <2>3, <2>4
<1>13. KeepAll(<<m>>, <<>>)
  BY <1>12, KeepFirst
<1>14. /\ <<>> \in Seq(DownMessages) /\ Strictly(<<>>) /\ <<m>> \in Seq(DownMessages) /\ Strictly(<<m>>)
  BY <1>9, EmptyIsSeq, StrictNone, StrictOne
<1> QED BY <1>10, <1>11, <1>13, <1>14, TellsBy

LEMMA KickTells ==
  ASSUME Base, RoomsOK, RoomsOK', ~Delayed, NEW a \in Agents, NEW p \in Players, NEW o \in Nameable(p),
         ServeKick(a, p, o)
  PROVE  Tells(a)
<1>1. KickSyn(p, o) /\ Owns(p, user[p])
  BY DEF ServeKick, KickSyn
<1>2. PICK r \in RoomIdx : /\ r = user[p] /\ r = user[o] /\ IsRoom(r)
                           /\ o \in Players /\ o # p /\ rooms[r] \in Room /\ rooms[r].cur > 1
                           /\ Fits(rooms[r], user, r) /\ SeatedIn(rooms[r], o)
  BY <1>1, NamedIsGuest
<1>3. r # 0
  BY <1>2, GuestsAre DEF IsRoom
<1> PICK c : c = Compacted(rooms[r], o)
  OBVIOUS
<1>4. c \in Room /\ c # NoRoom /\ c.owner = rooms[r].owner /\ c.cap = rooms[r].cap
  BY <1>2, CompactedRoom, NoRoomAssumption DEF Fits
<1>5. rooms' = [rooms EXCEPT ![r] = c] /\ user' = [user EXCEPT ![o] = 0]
  BY <1>1, <1>2 DEF KickSyn
<1>6. /\ user \in Tables /\ user' \in Tables
      /\ user[o] \in {0, Absent, r} /\ user'[o] \in {0, Absent, r} /\ user'[o] = 0
      /\ \A x \in Players \ {o} : user'[x] = user[x]
      /\ \A s \in RoomIdx \ {r} : rooms'[s] = rooms[s]
      /\ rooms'[r] = c
  BY <1>2, <1>5 DEF RoomsOK, Tables
<1>7. Members(c) = GuestsOf(user', r)
  BY <1>4, <1>6, GuestsAreThen
<1>8. GuestsOf(user', r) = GuestsOf(user, r) \ {o}
  <2>1. \A z \in Players : user'[z] = r <=> user[z] = r /\ z # o
    BY <1>2, <1>3, <1>6
  <2> QED BY <2>1 DEF GuestsOf
<1>9. served \in Nat /\ rooms'[r] \in LooseRoom
  BY <1>1, <1>2, KickTypes DEF Base, CountTypes
<1> PICK J : J = JoinAckLists(rooms'[r]) \ {o}
  OBVIOUS
<1>10. GuestsOf(user', r) \subseteq J /\ o \notin J
  <2> SUFFICES ASSUME NEW z \in GuestsOf(user', r) PROVE z \in JoinAckLists(rooms'[r]) /\ z # o
    OBVIOUS
  <2>1. PICK k \in 1..c.cur : c.slot[k] = z
    BY <1>7 DEF Members
  <2>2. k \in 1..MaxGuests
    BY <1>4, <2>1, RoomFields
  <2>3. z # NoPlayer /\ Registered(z)
    BY <1>8, ZeroIdx DEF GuestsOf, Registered
  <2> QED BY <1>6, <1>8, <2>1, <2>2, <2>3 DEF JoinAckLists
<1>11. J \in SUBSET Someone /\ o \in Someone
  BY <1>2, <1>9, NamedAre DEF Someone
<1> PICK m : m = Msg("kick", {o})
  OBVIOUS
<1> PICK x : x = Notice("kicked", J, o)
  OBVIOUS
<1>m. m \in Plain /\ m \in StrictDown /\ m.kind = "kick" /\ m.to = {o}
  BY <1>2, <1>9, PlainTo
<1>x. x \in Plain /\ x \in StrictDown /\ x.kind = "kicked" /\ x.to = J /\ x.about = o
  BY <1>9, <1>11, PlainNotice DEF Notices
<1> PICK news : news = UpdateInfoCurrentGuestCount(r)
  OBVIOUS
<1>15. Answer(a, <<m, x>>, news, <<>>)
  BY <1>2 DEF ServeKick
<1>16. RightNews(news)
  BY <1>2, <1>4, <1>5, <1>9, CountedOrSized
<1>17. ASSUME NEW q \in Players, NEW v \in Views
       PROVE  \E w : Leads(q, <<m, x>>, v, w) /\ Keeps(user, rooms, user', rooms', q, v, w)
  <2> PICK v1 : v1 = After(q, v, m)
    OBVIOUS
  <2> PICK w : w = After(q, v1, x)
    OBVIOUS
  <2>1. Leads(q, <<m, x>>, v, w)
    BY <1>m, <1>x, LeadsTwo
  <2>2. v1 \in Views
    BY <1>m, AfterIs
  <2>3. w \in Views
    BY <1>x, <2>2, AfterIs
  <2>4. CASE q = o
    <3>1. w = v1
      <4>1. x \in Plain /\ v1 \in Views /\ q \notin x.to
        BY <1>x, <1>10, <2>2, <2>4
      <4>2. After(q, v1, x) = v1
        BY <4>1, AfterIs
      <4> QED BY <4>2
    <3>2. v1 = NoView
      <4>1. q \in m.to /\ m.kind \in {"out_ack", "kick"}
        BY <1>m, <2>4
      <4> QED BY <1>m, <4>1, AfterIs
    <3>3. w = NoView /\ user'[q] \in {0, Absent}
      BY <3>1, <3>2, <1>6, <2>4
    <3>4. Keeps(user, rooms, user', rooms', q, v, w)
      BY <1>6, <3>3, NobodyKeeps, Zenon
    <3> QED BY <2>1, <3>4
  <2>5. CASE q # o
    <3>1. v1 = v
      <4>1. m \in Plain /\ q \notin m.to
        BY <1>m, <2>5
      <4>2. After(q, v, m) = v
        BY <4>1 DEF After
      <4> QED BY <4>2
    <3>2. w = v \/ w = [room |-> v.room, members |-> v.members \ {o}, owner |-> v.owner]
      <4>1. CASE q \notin x.to
        BY <1>x, <2>2, <3>1, <4>1, AfterIs
      <4>2. CASE q \in x.to
        <5>1. x \in Plain /\ v \in Views /\ q \in x.to /\ x.kind = "kicked" /\ x.about = o
          BY <1>x, <4>2
        <5>2. After(q, v, x) = [room |-> v.room, members |-> v.members \ {o}, owner |-> v.owner]
          BY <5>1, AfterGoer, Zenon
        <5> QED BY <5>2, <3>1
      <4> QED BY <4>1, <4>2
    <3>3. w.room = v.room /\ w.owner = v.owner /\ v.members \ {o} \subseteq w.members
      BY <3>2
    <3>4. v = NoView => w = NoView
      BY <3>2, NoViewStays
    <3>5. CASE user[q] # r
      <4>1. Keeps(user, rooms, user', rooms', q, v, w)
        BY <1>2, <1>6, <2>3, <2>5, <3>3, <3>4, <3>5, OthersKeep, Zenon
      <4> QED BY <2>1, <4>1
    <3>6. CASE user[q] = r
      <4>1. v.room = r /\ GuestsOf(user, r) \subseteq v.members /\ v.owner = rooms[r].owner
            => GuestsOf(user', r) \subseteq w.members /\ w.owner = rooms'[r].owner
        BY <1>4, <1>6, <1>8, <3>3
      <4>2. Keeps(user, rooms, user', rooms', q, v, w)
        <5>1. user \in Tables /\ user' \in Tables /\ r # 0 /\ user[q] = r /\ user'[q] = r /\ w \in Views /\ w.room = v.room
          BY <1>3, <1>6, <2>3, <2>5, <3>3, <3>6
        <5> QED BY <5>1, <3>4, <4>1, GuestKeeps
      <4> QED BY <2>1, <4>2
    <3> QED BY <3>5, <3>6
  <2> QED BY <2>4, <2>5
<1>18. KeepAll(<<m, x>>, <<>>)
  BY <1>17, KeepFirst
<1>19. /\ <<>> \in Seq(DownMessages) /\ Strictly(<<>>) /\ <<m, x>> \in Seq(DownMessages) /\ Strictly(<<m, x>>)
  BY <1>m, <1>x, EmptyIsSeq, StrictNone, StrictTwo
<1> QED BY <1>15, <1>16, <1>18, <1>19, TellsBy

(* A request that is granted, none that comes too late. *)
LEMMA GrantedTells ==
  ASSUME Base, RoomsOK, RoomsOK', ~Delayed, NEW a \in Agents, NEW m \in Requests, Granted(a, m), ~TooLate(m)
  PROVE  Tells(a)
<1>f. /\ m.by \in Players /\ m.room \in RoomIdx
      /\ m.kind \in {"create", "option"} => m.cap \in Caps
      /\ m.kind \in {"owner", "kick"} => m.who \in Players /\ m.who # m.by
  BY RequestFields
<1>n. ASSUME m.kind \in {"owner", "kick"}, Registered(m.by), Owns(m.by, user[m.by]) PROVE m.who \in Nameable(m.by)
  <2>1. user[m.who] = user[m.by]
    BY <1>n DEF TooLate
  <2>2. user[m.by] # 0
    <3>1. user[m.by] \in RoomIdx /\ rooms[user[m.by]] # NoRoom
      BY <1>f, <1>n DEF Owns, RoomsOK, IsRoom
    <3> QED BY <3>1, GuestsAre
  <2> QED BY <1>f, <1>n, <2>1, <2>2 DEF Nameable
<1>1. CASE m.kind = "create" /\ ServeCreate(a, m.by, m.cap)
  BY <1>f, <1>1, CreateTells
<1>2. CASE m.kind = "join" /\ ServeJoin(a, m.by, m.room)
  BY <1>f, <1>2, JoinTells
<1>3. CASE m.kind = "out" /\ ServeOut(a, m.by)
  BY <1>f, <1>3, OutTells
<1>4. CASE m.kind = "option" /\ ServeOption(a, m.by, m.cap)
  BY <1>f, <1>4, OptionTells
<1>5. CASE m.kind = "owner" /\ Registered(m.by) /\ ServeOwner(a, m.by, m.who)
  <2>1. Owns(m.by, user[m.by])
    BY <1>5 DEF ServeOwner, OwnerSyn
  <2>2. m.who \in Nameable(m.by)
    BY <1>5, <1>n, <2>1
  <2> QED BY <1>f, <1>5, <2>2, OwnerTells
<1>6. CASE m.kind = "kick" /\ Registered(m.by) /\ ServeKick(a, m.by, m.who)
  <2>1. Owns(m.by, user[m.by])
    BY <1>6 DEF ServeKick, KickSyn
  <2>2. m.who \in Nameable(m.by)
    BY <1>6, <1>n, <2>1
  <2> QED BY <1>f, <1>6, <2>2, KickTells
<1> QED BY <1>1, <1>2, <1>3, <1>4, <1>5, <1>6 DEF Granted

LEMMA ServedTells ==
  ASSUME Base, RoomsOK, RoomsOK', ~Delayed, NEW a \in Agents, Serve(a), ~late'
  PROVE  \/ Tells(a)
         \/ Head(up[a]).kind = "list" /\ ServeList(a, Head(up[a]).by)
<1> PICK m : m = Head(up[a])
  OBVIOUS
<1>1. m \in Requests
  BY HeadIn DEF Serve, Base, WireTypes
<1>2. m.by \in Players
  BY <1>1, RequestFields
<1>3. ~TooLate(m)
  BY DEF Serve
<1>4. CASE ServeAdd(a, m.by)
  BY <1>2, <1>4, AddTells
<1>5. CASE ServeForce(a, m.by)
  BY <1>2, <1>5, ForceTells
<1>6. CASE ServeDel(a, m.by)
  BY <1>2, <1>6, DelTells
<1>7. CASE m.kind = "list" /\ ServeList(a, m.by)
  BY <1>7
<1>8. CASE Granted(a, m)
  BY <1>1, <1>3, <1>8, GrantedTells
<1>9. CASE Refused(a, m)
  <2>1. UNCHANGED vars /\ Silent
    BY <1>9, RefusedMakes
  <2>2. user' = user /\ rooms' = rooms
    BY <2>1 DEF vars
  <2> QED BY <1>2, <2>1, <2>2, UnchangedTells
<1> QED BY <1>4, <1>5, <1>6, <1>7, <1>8, <1>9 DEF Serve

(* The first page shows all rooms when there is place for them. *)
LEMMA FirstPageShows ==
  ASSUME ListOK, Len(list) <= PerPage
  PROVE  \A r \in RoomIdx : r \in ToSet(RoomPage(0, NoRoom)) <=> rooms[r] # NoRoom
<1>1. PICK n \in Nat :
           /\ n = Len(list) /\ DOMAIN list = 1..n
           /\ \A i \in 1..n : list[i] \in RoomIdx /\ rooms[list[i]] # NoRoom
           /\ \A r \in RoomIdx : rooms[r] # NoRoom => \E i \in 1..n : list[i] = r
  BY ListHas
<1> PICK page : page = RoomPage(0, NoRoom)
  OBVIOUS
<1>2. PICK m \in Nat :
           /\ Len(page) = m /\ page \in Seq(RoomIdx) /\ m <= PerPage
           /\ \A k \in 1..PerPage : k <= m <=> PerPage * 0 + k <= Len(list)
           /\ \A k \in 1..m : page[k] = list[PerPage * 0 + k]
  BY PageIs
<1>3. PerPage \in Nat /\ PerPage * 0 = 0
  BY ChatAssumption
<1>4. m = n
  <2>1. \A k \in 1..PerPage : k <= m <=> k <= n
    BY <1>1, <1>2, <1>3
  <2>2. n <= PerPage
    BY <1>1
  <2>3. ~(m < n)
    <3>1. m < n => m + 1 \in 1..PerPage /\ m + 1 <= n
      BY <1>1, <1>2, <1>3, <2>2
    <3> QED BY <1>1, <1>2, <2>1, <3>1
  <2>4. ~(n < m)
    <3>1. n < m => n + 1 \in 1..PerPage /\ n + 1 <= m
      BY <1>1, <1>2, <1>3
    <3> QED BY <1>1, <1>2, <2>1, <3>1
  <2> QED BY <1>1, <1>2, <2>3, <2>4
<1>5. DOMAIN page = 1..n /\ \A k \in 1..n : page[k] = list[k]
  <2>1. \A k \in 1..n : 0 + k = k
    OBVIOUS
  <2> QED BY <1>2, <1>3, <1>4, <2>1
<1>6. ToSet(page) = {page[k] : k \in 1..n}
  BY <1>5 DEF ToSet
<1> QED BY <1>1, <1>5, <1>6

LEMMA WithPage ==
  ASSUME NEW p, NEW g
  PROVE  [Msg("list_ack", {p}) EXCEPT !.page = g]
         = [kind |-> "list_ack", to |-> {p}, n |-> served, about |-> NoPlayer, room |-> 0, list |-> {}, page |-> g]
<1> PICK b : b = [kind |-> "list_ack", to |-> {p}, n |-> served, about |-> NoPlayer, room |-> 0, list |-> {},
                  page |-> NoPage]
  OBVIOUS
<1>1. [b EXCEPT !.page = g]
      = [kind |-> "list_ack", to |-> {p}, n |-> served, about |-> NoPlayer, room |-> 0, list |-> {}, page |-> g]
  OBVIOUS
<1>2. Msg("list_ack", {p}) = b
  BY DEF Msg
<1> QED BY <1>1, <1>2

(* The answer to a request for the list is the whole board of the server. *)
LEMMA ListTells ==
  ASSUME Base, RoomsOK, ListOK, Len(list) <= PerPage, NEW a \in Agents, NEW p \in Players, ServeList(a, p)
  PROVE  /\ UNCHANGED vars
         /\ \E m \in StrictDown : /\ m.kind = "list_ack" /\ m.to = {p} /\ m.page = TheBoard
                                  /\ down' = [down EXCEPT ![a] = @ \o <<m>>]
<1> DEFINE g == [r \in RoomIdx |-> IF r \in ToSet(RoomPage(0, NoRoom)) THEN Line(rooms[r]) ELSE NoRoom]
           m == [Msg("list_ack", {p}) EXCEPT !.page = g]
<1>1. Answer(a, <<m>>, <<>>, <<>>) /\ UNCHANGED vars
  BY DEF ServeList
<1>2. g = TheBoard
  <2>1. \A r \in RoomIdx : (IF r \in ToSet(RoomPage(0, NoRoom)) THEN Line(rooms[r]) ELSE NoRoom)
                            = (IF rooms[r] # NoRoom THEN Line(rooms[r]) ELSE NoRoom)
    BY FirstPageShows
  <2> QED BY <2>1 DEF TheBoard, BoardOf
<1>3. g \in StrictPage /\ g \in LoosePage
  BY <1>2, BoardIs, StrictLines
<1> HIDE DEF g
<1>4. Msg("list_ack", {p}) = [kind |-> "list_ack", to |-> {p}, n |-> served, about |-> NoPlayer, room |-> 0,
                               list |-> {}, page |-> NoPage]
  BY DEF Msg
<1>5. m = [kind |-> "list_ack", to |-> {p}, n |-> served, about |-> NoPlayer, room |-> 0,
           list |-> {}, page |-> g]
  BY WithPage
<1> HIDE DEF m
<1>6. m.kind = "list_ack" /\ m.to = {p} /\ m.page = g
  BY <1>5
<1>7. m \in DownMessages
  <2>1. served \in Nat /\ "list_ack" \in Tracked \cup Answers \cup NewsKinds /\ {p} \in SUBSET Someone
        /\ NoPlayer \in Someone /\ {} \in SUBSET Players /\ "list_ack" # "chat"
    BY DEF Base, CountTypes, Answers, Someone
  <2>2. m \in Messages
    BY <1>3, <1>5, <2>1, ZeroIdx DEF Messages
  <2> QED BY <1>6, <2>2 DEF DownMessages
<1>8. m \in StrictDown
  BY <1>3, <1>6, <1>7 DEF StrictDown
<1>9. down' = [down EXCEPT ![a] = @ \o <<m>>]
  <2>1. down' = [b \in Agents |-> down[b] \o (IF b = a THEN <<m>> ELSE <<>>) \o Told(<<>>, b)
                                           \o (IF b = a THEN <<>> ELSE <<>>)]
    BY <1>1 DEF Answer, Told, Everybody
  <2>2. down \in [Agents -> Seq(DownMessages)]
    BY DEF Base, WireTypes
  <2>3. ASSUME NEW b \in Agents
        PROVE  down[b] \o (IF b = a THEN <<m>> ELSE <<>>) \o Told(<<>>, b) \o (IF b = a THEN <<>> ELSE <<>>)
               = IF b = a THEN down[b] \o <<m>> ELSE down[b]
    <3>1. Told(<<>>, b) = <<>>
      <4>1. ASSUME NEW W PROVE [k \in DOMAIN <<>> |-> [<<>>[k] EXCEPT !.to = W]] = <<>>
        OBVIOUS
      <4> QED BY <4>1 DEF Told
    <3>2. (IF b = a THEN <<>> ELSE <<>>) = <<>>
      OBVIOUS
    <3> PICK x : x = IF b = a THEN <<m>> ELSE <<>>
      OBVIOUS
    <3>3. x \in Seq(DownMessages) /\ down[b] \in Seq(DownMessages)
      <4>1. <<m>> \in Seq(DownMessages) /\ <<>> \in Seq(DownMessages)
        BY <1>8, StrictOne, EmptyIsSeq
      <4> QED BY <2>2, <4>1
    <3> PICK y : y = down[b] \o x
      OBVIOUS
    <3>4. y \in Seq(DownMessages)
      BY <3>3, ConcatOf
    <3>5. y \o <<>> \o <<>> = y
      BY <3>4, ConcatEmpty
    <3>6. down[b] \o x \o Told(<<>>, b) \o (IF b = a THEN <<>> ELSE <<>>) = y
      BY <3>1, <3>2, <3>5
    <3>7. y = IF b = a THEN down[b] \o <<m>> ELSE down[b]
      BY <3>3, ConcatEmpty
    <3> QED BY <3>6, <3>7
  <2> QED BY <2>1, <2>2, <2>3
<1> QED BY <1>1, <1>2, <1>6, <1>8, <1>9

(***************************************************************************)
(* What a player's requests on the way say of its registration.            *)
(***************************************************************************)

(* Among the first n requests of q, one of p of kind K or, at first,       *)
(* membership in R, with none of kind A by p after it.                     *)
Since(p, q, n, K, A, R) ==
  \E k \in 0..n : /\ \A i \in 1..n : i > k => ~(q[i].by = p /\ q[i].kind \in A)
                  /\ IF k = 0 THEN p \in R ELSE q[k].by = p /\ q[k].kind \in K

Registrants == {x \in Players : Registered(x)}
Strangers   == {x \in Players : ~Registered(x)}

(* p will not be registered when the first n requests of q have been served. *)
Cleared(p, q, n) == Since(p, q, n, {"del"}, {"add", "force"}, Strangers)

Present(p, q, n) == Since(p, q, n, {"add"}, {"del"}, Registrants)

Mine(p) == \A a \in Agents : \A i \in DOMAIN up[a] : up[a][i].by = p => a = home[p]

(* A player that comes is not registered when its coming is served; one    *)
(* that is away will not be registered, one that is here will be.          *)
Says(p, q) ==
  /\ \A i \in DOMAIN q : q[i].by = p /\ q[i].kind = "add" => Cleared(p, q, i - 1)
  /\ at[p] = NoAgent => Cleared(p, q, Len(q))
  /\ at[p] # NoAgent => Present(p, q, Len(q))

WordsOf(p) == Mine(p) /\ Says(p, up[home[p]])

LEMMA SinceTail ==
  ASSUME NEW p, NEW q \in Seq(Requests), q # <<>>, NEW n \in 1..Len(q), NEW K, NEW A, NEW R, NEW R2,
         Since(p, q, n, K, A, R),
         q[1].by = p /\ q[1].kind \in K => p \in R2,
         p \in R /\ ~(q[1].by = p /\ q[1].kind \in A) => p \in R2
  PROVE  Since(p, Tail(q), n - 1, K, A, R2)
<1>1. PICK k \in 0..n : /\ \A i \in 1..n : i > k => ~(q[i].by = p /\ q[i].kind \in A)
                        /\ IF k = 0 THEN p \in R ELSE q[k].by = p /\ q[k].kind \in K
  BY DEF Since
<1> PICK t : t = Tail(q)
  OBVIOUS
<1>2. Len(q) \in Nat /\ \A i \in 1..(Len(q) - 1) : t[i] = q[i + 1]
  BY TailOf
<1>3. n \in Nat /\ n <= Len(q) /\ n >= 1
  BY <1>2
<1>4. CASE k > 1
  <2>1. k - 1 \in 0..(n - 1) /\ k - 1 # 0 /\ k - 1 \in 1..(Len(q) - 1) /\ (k - 1) + 1 = k
    BY <1>2, <1>3, <1>4
  <2>2. t[k - 1] = q[k]
    BY <1>2, <2>1
  <2>3. ASSUME NEW i \in 1..(n - 1), i > k - 1 PROVE ~(t[i].by = p /\ t[i].kind \in A)
    <3>1. i + 1 \in 1..n /\ i + 1 > k /\ i \in 1..(Len(q) - 1)
      BY <1>2, <1>3, <2>3
    <3> QED BY <1>1, <1>2, <3>1
  <2>4. IF k - 1 = 0 THEN p \in R2 ELSE t[k - 1].by = p /\ t[k - 1].kind \in K
    BY <1>1, <1>4, <2>1, <2>2
  <2> QED BY <2>1, <2>3, <2>4 DEF Since
<1>5. CASE k <= 1
  <2>1. p \in R2
    <3>1. CASE k = 0
      BY <1>1, <1>3, <3>1
    <3>2. CASE k = 1
      BY <1>1, <3>2
    <3> QED BY <1>5, <3>1, <3>2
  <2>2. ASSUME NEW i \in 1..(n - 1), i > 0 PROVE ~(t[i].by = p /\ t[i].kind \in A)
    <3>1. i + 1 \in 1..n /\ i + 1 > k /\ i \in 1..(Len(q) - 1)
      BY <1>2, <1>3, <1>5, <2>2
    <3> QED BY <1>1, <1>2, <3>1
  <2>3. 0 \in 0..(n - 1)
    BY <1>3
  <2> QED BY <2>1, <2>2, <2>3 DEF Since
<1> QED BY <1>4, <1>5

(* The first m of w are the first n of q and then none of kind A by p.     *)
GoesOn(p, q, n, w, m, A) ==
  /\ n \in Nat /\ m \in Nat /\ n <= m
  /\ \A i \in 1..n : w[i] = q[i]
  /\ \A i \in 1..m : i > n => ~(w[i].by = p /\ w[i].kind \in A)

LEMMA SinceSame ==
  ASSUME NEW p, NEW q, NEW q2, NEW n, NEW m, NEW K, NEW A, NEW R, NEW R2,
         Since(p, q, n, K, A, R), GoesOn(p, q, n, q2, m, A), p \in R => p \in R2
  PROVE  Since(p, q2, m, K, A, R2)
<1> USE DEF GoesOn
<1>1. PICK k \in 0..n : /\ \A i \in 1..n : i > k => ~(q[i].by = p /\ q[i].kind \in A)
                        /\ IF k = 0 THEN p \in R ELSE q[k].by = p /\ q[k].kind \in K
  BY DEF Since
<1>2. k \in 0..m /\ (k # 0 => k \in 1..n)
  OBVIOUS
<1>3. ASSUME NEW i \in 1..m, i > k PROVE ~(q2[i].by = p /\ q2[i].kind \in A)
  <2>1. CASE i > n
    BY <2>1
  <2>2. CASE i <= n
    <3>1. i \in 1..n
      BY <2>2
    <3> QED BY <1>1, <1>3, <3>1
  <2> QED BY <2>1, <2>2
<1>4. IF k = 0 THEN p \in R2 ELSE q2[k].by = p /\ q2[k].kind \in K
  BY <1>1, <1>2
<1> QED BY <1>2, <1>3, <1>4 DEF Since

LEMMA SinceLast ==
  ASSUME NEW p, NEW q, NEW n \in Nat, n > 0, NEW K, NEW A, NEW R, q[n].by = p, q[n].kind \in K
  PROVE  Since(p, q, n, K, A, R)
<1>1. n \in 0..n /\ n # 0
  OBVIOUS
<1>2. \A i \in 1..n : i > n => ~(q[i].by = p /\ q[i].kind \in A)
  OBVIOUS
<1> QED BY <1>1, <1>2 DEF Since

(* Requests that do not change what is said. *)
LEMMA SaysMore ==
  ASSUME NEW p \in Players, NEW q \in Seq(Requests), NEW t \in Seq(Requests), Says(p, q),
         at'[p] = at[p], Registered(p)' <=> Registered(p),
         \A i \in DOMAIN t : t[i].by = p => t[i].kind \notin {"add", "del"}
                                            /\ (t[i].kind = "force" => at[p] # NoAgent)
  PROVE  Says(p, q \o t)'
<1> PICK w : w = q \o t
  OBVIOUS
<1>1. /\ w \in Seq(Requests) /\ Len(q) \in Nat /\ Len(t) \in Nat /\ Len(w) = Len(q) + Len(t)
      /\ DOMAIN q = 1..Len(q) /\ DOMAIN t = 1..Len(t) /\ DOMAIN w = 1..(Len(q) + Len(t))
      /\ \A i \in 1..Len(q) : w[i] = q[i]
      /\ \A i \in 1..Len(t) : w[Len(q) + i] = t[i]
  BY ConcatOf
<1>2. (p \in Registrants => p \in Registrants') /\ (p \in Strangers => p \in Strangers')
  BY DEF Registrants, Strangers
<1>3. ASSUME NEW i \in 1..Len(w), i > Len(q)
      PROVE  w[i].by = p => w[i].kind \notin {"add", "del"} /\ (w[i].kind = "force" => at[p] # NoAgent)
  <2>1. i - Len(q) \in DOMAIN t /\ Len(q) + (i - Len(q)) = i
    BY <1>1, <1>3
  <2>2. w[i] = t[i - Len(q)]
    BY <1>1, <2>1
  <2> QED BY <2>1, <2>2
<1> PICK R : R = Strangers
  OBVIOUS
<1> PICK R2 : R2 = Strangers'
  OBVIOUS
<1> PICK H : H = Registrants
  OBVIOUS
<1> PICK H2 : H2 = Registrants'
  OBVIOUS
<1> PICK D : D = {"del"}
  OBVIOUS
<1> PICK C : C = {"add"}
  OBVIOUS
<1> PICK B : B = {"add", "force"}
  OBVIOUS
<1>4. ASSUME NEW i \in DOMAIN w, w[i].by = p, w[i].kind = "add" PROVE Cleared(p, w, i - 1)'
  <2>1. i \in 1..Len(q)
    BY <1>1, <1>3, <1>4
  <2> PICK n : n = i - 1
    OBVIOUS
  <2>2. Cleared(p, q, n) /\ n \in Nat /\ n <= n /\ \A j \in 1..n : w[j] = q[j]
    BY <1>1, <1>4, <2>1 DEF Says
  <2>3. Since(p, q, n, D, B, R)
    BY <2>2 DEF Cleared
  <2>4. GoesOn(p, q, n, w, n, B)
    BY <2>2 DEF GoesOn
  <2>5. Since(p, w, n, D, B, R2)
    BY <1>2, <2>3, <2>4, SinceSame, Zenon
  <2> QED BY <2>5 DEF Cleared
<1>l. Len(w) \in Nat /\ Len(q) \in Nat /\ Len(q) <= Len(w)
  BY <1>1
<1>5. ASSUME at[p] = NoAgent PROVE Cleared(p, w, Len(w))'
  <2>1. Since(p, q, Len(q), D, B, R)
    BY <1>5 DEF Says, Cleared
  <2>2. \A i \in 1..Len(w) : i > Len(q) => ~(w[i].by = p /\ w[i].kind \in B)
    BY <1>3, <1>5
  <2>3. GoesOn(p, q, Len(q), w, Len(w), B)
    BY <1>1, <1>l, <2>2 DEF GoesOn
  <2>4. Since(p, w, Len(w), D, B, R2)
    BY <1>2, <2>1, <2>3, SinceSame, Zenon
  <2> QED BY <2>4 DEF Cleared
<1>6. ASSUME at[p] # NoAgent PROVE Present(p, w, Len(w))'
  <2>1. Since(p, q, Len(q), C, D, H)
    BY <1>6 DEF Says, Present
  <2>2. \A i \in 1..Len(w) : i > Len(q) => ~(w[i].by = p /\ w[i].kind \in D)
    BY <1>3
  <2>3. GoesOn(p, q, Len(q), w, Len(w), D)
    BY <1>1, <1>l, <2>2 DEF GoesOn
  <2>4. Since(p, w, Len(w), C, D, H2)
    BY <1>2, <2>1, <2>3, SinceSame, Zenon
  <2> QED BY <2>4 DEF Present
<1> QED BY <1>4, <1>5, <1>6 DEF Says

LEMMA ClearedGoesOn ==
  ASSUME NEW p \in Players, NEW q \in Seq(Requests), NEW t \in Seq(Requests), NEW n \in Nat, n <= Len(q),
         Cleared(p, q, n), Registered(p)' <=> Registered(p)
  PROVE  Cleared(p, q \o t, n)'
<1> PICK R : R = Strangers
  OBVIOUS
<1> PICK R2 : R2 = Strangers'
  OBVIOUS
<1> PICK w : w = q \o t
  OBVIOUS
<1>1. Since(p, q, n, {"del"}, {"add", "force"}, R) /\ (p \in R => p \in R2)
  BY DEF Cleared, Strangers
<1>2. GoesOn(p, q, n, w, n, {"add", "force"})
  <2>1. Len(q) \in Nat /\ \A i \in 1..Len(q) : w[i] = q[i]
    BY ConcatOf
  <2> QED BY <2>1 DEF GoesOn
<1>3. Since(p, w, n, {"del"}, {"add", "force"}, R2)
  <2> PICK D : D = {"del"}
    OBVIOUS
  <2> PICK B : B = {"add", "force"}
    OBVIOUS
  <2>1. Since(p, q, n, D, B, R) /\ (p \in R => p \in R2) /\ GoesOn(p, q, n, w, n, B)
    BY <1>1, <1>2
  <2>2. Since(p, w, n, D, B, R2)
    BY <2>1, SinceSame, Zenon
  <2> QED BY <2>2
<1> QED BY <1>3 DEF Cleared

(* A player comes back: it had gone for good. *)
LEMMA SaysCome ==
  ASSUME NEW p \in Players, NEW q \in Seq(Requests), NEW m \in Requests, m.by = p, m.kind = "add", Says(p, q),
         at[p] = NoAgent, at'[p] # NoAgent, Registered(p)' <=> Registered(p)
  PROVE  Says(p, q \o <<m>>)'
<1> PICK t : t = <<m>>
  OBVIOUS
<1> PICK w : w = q \o t
  OBVIOUS
<1>1. t \in Seq(Requests) /\ Len(t) = 1 /\ t[1] = m /\ 1 \in 1..1
  OBVIOUS
<1>2. /\ Len(q) \in Nat /\ Len(w) = Len(q) + 1
      /\ DOMAIN q = 1..Len(q) /\ DOMAIN w = 1..(Len(q) + 1)
      /\ \A i \in 1..Len(q) : w[i] = q[i]
      /\ w[Len(q) + 1] = m
  BY <1>1, ConcatOf
<1>3. ASSUME NEW i \in DOMAIN w, w[i].by = p, w[i].kind = "add" PROVE Cleared(p, w, i - 1)'
  <2>1. i - 1 \in Nat /\ i - 1 <= Len(q)
    BY <1>2
  <2>2. Cleared(p, q, i - 1)
    <3>1. CASE i \in DOMAIN q
      BY <1>2, <1>3, <3>1 DEF Says
    <3>2. CASE i \notin DOMAIN q
      <4>1. i - 1 = Len(q)
        BY <1>2, <3>2
      <4> QED BY <4>1 DEF Says
    <3> QED BY <3>1, <3>2
  <2> QED BY <1>1, <2>1, <2>2, ClearedGoesOn
<1>4. Present(p, w, Len(w))'
  <2> PICK n : n = Len(w)
    OBVIOUS
  <2>1. n \in Nat /\ n > 0 /\ w[n] = m
    BY <1>2
  <2>2. \A R : Since(p, w, n, {"add"}, {"del"}, R)
    BY <2>1, SinceLast
  <2> QED BY <2>2 DEF Present
<1> QED BY <1>3, <1>4 DEF Says

LEMMA SaysGo ==
  ASSUME NEW p \in Players, NEW q \in Seq(Requests), NEW t \in Seq(Requests), Len(t) > 0,
         \A i \in DOMAIN t : t[i].by = p /\ t[i].kind = "del", Says(p, q),
         at'[p] = NoAgent, Registered(p)' <=> Registered(p)
  PROVE  Says(p, q \o t)'
<1> PICK w : w = q \o t
  OBVIOUS
<1>1. /\ w \in Seq(Requests) /\ Len(q) \in Nat /\ Len(t) \in Nat /\ Len(w) = Len(q) + Len(t)
      /\ DOMAIN q = 1..Len(q) /\ DOMAIN t = 1..Len(t) /\ DOMAIN w = 1..(Len(q) + Len(t))
      /\ \A i \in 1..Len(q) : w[i] = q[i]
      /\ \A i \in 1..Len(t) : w[Len(q) + i] = t[i]
  BY ConcatOf
<1>2. ASSUME NEW i \in 1..Len(w), i > Len(q) PROVE w[i].by = p /\ w[i].kind = "del"
  <2>1. i - Len(q) \in DOMAIN t /\ Len(q) + (i - Len(q)) = i
    BY <1>1, <1>2
  <2>2. w[i] = t[i - Len(q)]
    BY <1>1, <2>1
  <2> QED BY <2>1, <2>2
<1>3. ASSUME NEW i \in DOMAIN w, w[i].by = p, w[i].kind = "add" PROVE Cleared(p, w, i - 1)'
  <2>1. i \in 1..Len(q)
    BY <1>1, <1>2, <1>3
  <2>2. Cleared(p, q, i - 1) /\ i - 1 \in Nat /\ i - 1 <= Len(q)
    BY <1>1, <1>3, <2>1 DEF Says
  <2> QED BY <2>2, ClearedGoesOn
<1>4. Cleared(p, w, Len(w))'
  <2> PICK n : n = Len(w)
    OBVIOUS
  <2>1. n \in Nat /\ n > 0 /\ w[n].by = p /\ w[n].kind = "del"
    BY <1>1, <1>2
  <2>2. \A R : Since(p, w, n, {"del"}, {"add", "force"}, R)
    BY <2>1, SinceLast
  <2> QED BY <2>2 DEF Cleared
<1> QED BY <1>3, <1>4 DEF Says

(* One request is served. *)
Passes(p, m, K, A, R, R2) ==
  /\ m.by = p /\ m.kind \in K => p \in R2
  /\ p \in R /\ ~(m.by = p /\ m.kind \in A) => p \in R2

LEMMA SinceLess ==
  ASSUME NEW p, NEW q \in Seq(Requests), q # <<>>, NEW n \in 1..Len(q), NEW K, NEW A, NEW R, NEW R2,
         Since(p, q, n, K, A, R), Passes(p, Head(q), K, A, R, R2)
  PROVE  Since(p, Tail(q), n - 1, K, A, R2)
<1>1. Head(q) = q[1]
  BY TailOf
<1>2. /\ q[1].by = p /\ q[1].kind \in K => p \in R2
      /\ p \in R /\ ~(q[1].by = p /\ q[1].kind \in A) => p \in R2
  BY <1>1 DEF Passes
<1> QED BY <1>2, SinceTail, Zenon

LEMMA SaysLess ==
  ASSUME NEW p \in Players, NEW q \in Seq(Requests), q # <<>>, Says(p, q), at'[p] = at[p], NEW m, m = Head(q),
         ~Word(p, m) => (Registered(p)' <=> Registered(p)),
         Word(p, m) => (Registered(p)' <=> m.kind # "del")
  PROVE  Says(p, Tail(q))'
<1> PICK R : R = Strangers
  OBVIOUS
<1> PICK R2 : R2 = Strangers'
  OBVIOUS
<1> PICK H : H = Registrants
  OBVIOUS
<1> PICK H2 : H2 = Registrants'
  OBVIOUS
<1> PICK D : D = {"del"}
  OBVIOUS
<1> PICK C : C = {"add"}
  OBVIOUS
<1> PICK B : B = {"add", "force"}
  OBVIOUS
<1> PICK t : t = Tail(q)
  OBVIOUS
<1>1. /\ t \in Seq(Requests) /\ Len(q) \in Nat /\ Len(q) > 0 /\ Len(t) = Len(q) - 1
      /\ DOMAIN q = 1..Len(q) /\ DOMAIN t = 1..(Len(q) - 1)
      /\ \A i \in 1..(Len(q) - 1) : t[i] = q[i + 1]
      /\ m \in Requests
  BY TailOf
<1>2. m.kind \in {"add", "force", "del", "list", "create", "join", "out", "option", "owner", "kick"}
  BY <1>1 DEF Requests
<1>3. Passes(p, m, D, B, R, R2)
  <2>1. m.by = p /\ m.kind = "del" => ~Registered(p)'
    BY DEF Word, Comings
  <2>2. ~Registered(p) /\ ~(m.by = p /\ m.kind \in {"add", "force"}) => ~Registered(p)'
    BY DEF Word, Comings
  <2> QED BY <2>1, <2>2 DEF Passes, Strangers
<1>4. Passes(p, m, C, D, H, H2)
  <2>1. m.by = p /\ m.kind = "add" => Registered(p)'
    BY DEF Word, Comings
  <2>2. Registered(p) /\ ~(m.by = p /\ m.kind = "del") => Registered(p)'
    BY DEF Word, Comings
  <2> QED BY <2>1, <2>2 DEF Passes, Registrants
<1>5. ASSUME NEW n \in 1..Len(q), Cleared(p, q, n) PROVE Cleared(p, t, n - 1)'
  <2>1. Since(p, q, n, D, B, R)
    BY <1>5 DEF Cleared
  <2>2. Since(p, t, n - 1, D, B, R2)
    BY <1>3, <2>1, SinceLess, Zenon
  <2> QED BY <2>2 DEF Cleared
<1>6. ASSUME NEW n \in 1..Len(q), Present(p, q, n) PROVE Present(p, t, n - 1)'
  <2>1. Since(p, q, n, C, D, H)
    BY <1>6 DEF Present
  <2>2. Since(p, t, n - 1, C, D, H2)
    BY <1>4, <2>1, SinceLess, Zenon
  <2> QED BY <2>2 DEF Present
<1>7. Len(q) \in 1..Len(q)
  BY <1>1
<1>8. ASSUME NEW i \in DOMAIN t, t[i].by = p, t[i].kind = "add" PROVE Cleared(p, t, i - 1)'
  <2>1. i \in 1..Len(q) /\ i + 1 \in DOMAIN q /\ t[i] = q[i + 1] /\ (i + 1) - 1 = i
    BY <1>1
  <2>2. Cleared(p, q, i)
    BY <1>8, <2>1 DEF Says
  <2> QED BY <1>5, <2>1, <2>2
<1>9. at[p] = NoAgent => Cleared(p, t, Len(t))'
  BY <1>1, <1>5, <1>7 DEF Says
<1>10. at[p] # NoAgent => Present(p, t, Len(t))'
  BY <1>1, <1>6, <1>7 DEF Says
<1> QED BY <1>8, <1>9, <1>10 DEF Says

WordsInv == \A p \in Players : WordsOf(p)

(* What a step makes of the words of one player. *)
LEMMA SaysIs ==
  ASSUME NEW p \in Players, NEW w, w = up'[home'[p]], Says(p, w)'
  PROVE  Says(p, up[home[p]])'
BY DEF Says, Cleared, Present

LEMMA WordsSame ==
  ASSUME NEW p \in Players, WordsOf(p), UNCHANGED <<home, up>>, at'[p] = at[p], Registered(p)' <=> Registered(p)
  PROVE  WordsOf(p)'
<1>1. PICK q : q = up[home[p]]
  OBVIOUS
<1>2. Says(p, q)
  BY <1>1 DEF WordsOf
<1>3. (p \in Strangers <=> p \in Strangers') /\ (p \in Registrants <=> p \in Registrants')
  BY DEF Strangers, Registrants
<1>4. Says(p, q)'
  BY <1>2, <1>3 DEF Says, Cleared, Present, Since
<1>5. q = up'[home'[p]]
  BY <1>1
<1>6. Says(p, up[home[p]])'
  BY <1>4, <1>5, SaysIs
<1> QED BY <1>6 DEF WordsOf, Mine

(* Requests are sent that do not change what is said. *)
LEMMA MineMore ==
  ASSUME Base, NEW p \in Players, Mine(p), home' = home,
         NEW a \in Agents, NEW t \in Seq(Requests), up' = [up EXCEPT ![a] = @ \o t],
         \A i \in DOMAIN t : t[i].by = p => a = home[p]
  PROVE  Mine(p)'
<1>1. /\ up \in [Agents -> Seq(Requests)] /\ up[a] \in Seq(Requests)
      /\ up'[a] = up[a] \o t /\ \A b \in Agents \ {a} : up'[b] = up[b]
  BY DEF Base, WireTypes
<1>2. ASSUME NEW i \in DOMAIN (up[a] \o t), (up[a] \o t)[i].by = p PROVE a = home[p]
  <2>1. PICK q \in Seq(Requests) : q = up[a]
    BY <1>1
  <2>2. /\ Len(q) \in Nat /\ Len(t) \in Nat /\ DOMAIN q = 1..Len(q) /\ DOMAIN t = 1..Len(t)
        /\ DOMAIN (q \o t) = 1..(Len(q) + Len(t))
        /\ \A k \in 1..Len(q) : (q \o t)[k] = q[k]
        /\ \A k \in 1..Len(t) : (q \o t)[Len(q) + k] = t[k]
    BY ConcatOf
  <2>3. CASE i \in DOMAIN q
    <3>1. (q \o t)[i] = q[i]
      BY <2>2, <2>3
    <3>2. up[a][i].by = p /\ i \in DOMAIN up[a]
      BY <1>2, <2>1, <2>3, <3>1
    <3> QED BY <3>2 DEF Mine
  <2>4. CASE i \notin DOMAIN q
    <3>1. i - Len(q) \in DOMAIN t /\ Len(q) + (i - Len(q)) = i
      BY <1>2, <2>1, <2>2, <2>4
    <3>2. (q \o t)[i] = t[i - Len(q)]
      BY <2>2, <3>1
    <3> QED BY <1>2, <2>1, <3>1, <3>2
  <2> QED BY <2>3, <2>4
<1>3. ASSUME NEW b \in Agents, NEW i \in DOMAIN up'[b], up'[b][i].by = p PROVE b = home[p]
  <2>1. CASE b = a
    BY <1>1, <1>2, <1>3, <2>1
  <2>2. CASE b # a
    BY <1>1, <1>3, <2>2 DEF Mine
  <2> QED BY <2>1, <2>2
<1> QED BY <1>3 DEF Mine

LEMMA WordsMore ==
  ASSUME Base, NEW p \in Players, WordsOf(p), home' = home,
         at'[p] = at[p], Registered(p)' <=> Registered(p),
         NEW a \in Agents, NEW t \in Seq(Requests), up' = [up EXCEPT ![a] = @ \o t],
         \A i \in DOMAIN t : t[i].by = p => /\ a = home[p] /\ t[i].kind \notin {"add", "del"}
                                            /\ (t[i].kind = "force" => at[p] # NoAgent)
  PROVE  WordsOf(p)'
<1>1. /\ up \in [Agents -> Seq(Requests)] /\ home[p] \in Agents /\ up[a] \in Seq(Requests)
      /\ up'[a] = up[a] \o t /\ \A b \in Agents \ {a} : up'[b] = up[b]
  BY DEF Base, WireTypes, ClientTypes
<1>2. Mine(p)'
  BY MineMore DEF WordsOf
<1>3. PICK q \in Seq(Requests) : q = up[home[p]]
  BY <1>1
<1>4. Says(p, q)
  BY <1>3 DEF WordsOf
<1>5. CASE a = home[p]
  <2>1. Says(p, q \o t)'
    BY <1>4, SaysMore
  <2>2. PICK w : w = q \o t
    OBVIOUS
  <2>3. w = up'[home'[p]]
    BY <1>1, <1>3, <1>5, <2>2
  <2>4. Says(p, w)'
    BY <2>1, <2>2
  <2>5. Says(p, up[home[p]])'
    BY <2>3, <2>4, SaysIs
  <2> QED BY <1>2, <2>5 DEF WordsOf
<1>6. CASE a # home[p]
  <2>1. q = up'[home'[p]]
    BY <1>1, <1>3, <1>6
  <2>2. (p \in Strangers <=> p \in Strangers') /\ (p \in Registrants <=> p \in Registrants')
    BY DEF Strangers, Registrants
  <2>3. Says(p, q)'
    BY <1>4, <2>2 DEF Says, Cleared, Present, Since
  <2>4. Says(p, up[home[p]])'
    BY <2>1, <2>3, SaysIs
  <2> QED BY <1>2, <2>4 DEF WordsOf
<1> QED BY <1>5, <1>6

LEMMA WordsOneMore ==
  ASSUME Base, NEW p \in Players, WordsOf(p), home' = home,
         at'[p] = at[p], Registered(p)' <=> Registered(p),
         NEW a \in Agents, NEW m \in Requests, up' = [up EXCEPT ![a] = Append(@, m)],
         m.by = p => /\ a = home[p] /\ m.kind \notin {"add", "del"}
                     /\ (m.kind = "force" => at[p] # NoAgent)
  PROVE  WordsOf(p)'
<1>1. up[a] \in Seq(Requests)
  BY DEF Base, WireTypes
<1>2. PICK t \in Seq(Requests) : t = <<m>>
  BY <1>1, AppendIs
<1>3. \A i \in DOMAIN t : t[i] = m
  BY <1>1, <1>2, AppendIs
<1>a. Append(up[a], m) = up[a] \o t
  BY <1>1, <1>2, AppendIs
<1>4. up' = [up EXCEPT ![a] = @ \o t]
  BY <1>a
<1>5. \A i \in DOMAIN t : t[i].by = p => /\ a = home[p] /\ t[i].kind \notin {"add", "del"}
                                         /\ (t[i].kind = "force" => at[p] # NoAgent)
  BY <1>3
<1> QED BY <1>4, <1>5, WordsMore

LEMMA WordsLess ==
  ASSUME Base, NEW p \in Players, WordsOf(p), home' = home, at'[p] = at[p],
         NEW a \in Agents, up[a] # <<>>, up' = [up EXCEPT ![a] = Tail(@)],
         NEW m, m = Head(up[a]),
         ~Word(p, m) => (Registered(p)' <=> Registered(p)),
         Word(p, m) => (Registered(p)' <=> m.kind # "del")
  PROVE  WordsOf(p)'
<1>1. /\ up \in [Agents -> Seq(Requests)] /\ home[p] \in Agents /\ up[a] \in Seq(Requests)
      /\ up'[a] = Tail(up[a]) /\ \A b \in Agents \ {a} : up'[b] = up[b]
  BY DEF Base, WireTypes, ClientTypes
<1>2. 1 \in DOMAIN up[a] /\ up[a][1] = m
  BY <1>1, HeadIn
<1>3. Word(p, m) => a = home[p]
  BY <1>2 DEF WordsOf, Mine, Word
<1>4. Mine(p)'
  <2>1. ASSUME NEW b \in Agents, NEW i \in DOMAIN up'[b], up'[b][i].by = p PROVE b = home[p]
    <3>1. CASE b = a
      <4>1. i \in DOMAIN Tail(up[a]) /\ up'[b][i] = Tail(up[a])[i]
        BY <1>1, <2>1, <3>1
      <4>2. i + 1 \in DOMAIN up[a] /\ Tail(up[a])[i] = up[a][i + 1]
        BY <1>1, <4>1, TailIn
      <4> QED BY <2>1, <3>1, <4>1, <4>2 DEF WordsOf, Mine
    <3>2. CASE b # a
      BY <1>1, <2>1, <3>2 DEF WordsOf, Mine
    <3> QED BY <3>1, <3>2
  <2> QED BY <2>1 DEF Mine
<1>5. PICK q \in Seq(Requests) : q = up[home[p]]
  BY <1>1
<1>6. Says(p, q)
  BY <1>5 DEF WordsOf
<1>7. CASE a = home[p]
  <2>1. q # <<>> /\ m = Head(q)
    BY <1>5, <1>7
  <2>2. Says(p, Tail(q))'
    BY <1>6, <2>1, SaysLess
  <2>3. PICK w : w = Tail(q)
    OBVIOUS
  <2>4. w = up'[home'[p]]
    BY <1>1, <1>5, <1>7, <2>3
  <2>5. Says(p, w)'
    BY <2>2, <2>3
  <2>6. Says(p, up[home[p]])'
    BY <2>4, <2>5, SaysIs
  <2> QED BY <1>4, <2>6 DEF WordsOf
<1>8. CASE a # home[p]
  <2>1. q = up'[home'[p]]
    BY <1>1, <1>5, <1>8
  <2>2. (p \in Strangers <=> p \in Strangers') /\ (p \in Registrants <=> p \in Registrants')
    BY <1>3, <1>8 DEF Strangers, Registrants
  <2>3. Says(p, q)'
    BY <1>6, <2>2 DEF Says, Cleared, Present, Since
  <2>4. Says(p, up[home[p]])'
    BY <2>1, <2>3, SaysIs
  <2> QED BY <1>4, <2>4 DEF WordsOf
<1> QED BY <1>7, <1>8

(* What is said follows, step by step. *)
LEMMA WordsInit ==
  ASSUME RelayInit
  PROVE  WordsInv
<1> SUFFICES ASSUME NEW p \in Players PROVE WordsOf(p)
  BY DEF WordsInv
<1>1. /\ home[p] \in Agents /\ at[p] = home[p] /\ user[p] = 0
      /\ \A a \in Agents : up[a] = <<>>
  BY DEF RelayInit
<1>2. \A a \in Agents : DOMAIN up[a] = {}
  BY <1>1
<1>3. Registered(p) /\ at[p] # NoAgent
  BY <1>1, ZeroIdx, RelayAssumption DEF Registered
<1>4. Mine(p)
  BY <1>2 DEF Mine
<1>5. Len(up[home[p]]) = 0
  BY <1>1
<1>6. 0 \in 0..0 /\ p \in Registrants /\ 1..0 = {}
  BY <1>3 DEF Registrants
<1>7. Present(p, up[home[p]], 0)
  BY <1>6 DEF Present, Since
<1>8. Says(p, up[home[p]])
  BY <1>1, <1>2, <1>3, <1>5, <1>7 DEF Says
<1> QED BY <1>4, <1>8 DEF WordsOf

LEMMA WordsServe ==
  ASSUME Base, WordsInv, NEW a \in Agents, Serve(a)
  PROVE  WordsInv'
<1> SUFFICES ASSUME NEW p \in Players PROVE WordsOf(p)'
  BY DEF WordsInv
<1>1. PICK m : m = Head(up[a])
  OBVIOUS
<1>2. up[a] # <<>> /\ up' = [up EXCEPT ![a] = Tail(@)] /\ UNCHANGED <<home, at>>
  BY DEF Serve
<1>3. /\ ~Word(p, m) => (Registered(p)' <=> Registered(p))
      /\ Word(p, m) => (Registered(p)' <=> m.kind # "del")
  BY <1>1, ServedRegisters
<1> QED BY <1>1, <1>2, <1>3, WordsLess DEF WordsInv

LEMMA WordsFromServer ==
  ASSUME Base, RegInv, WordsInv, NEW a \in Agents, FromServer(a)
  PROVE  WordsInv'
<1> SUFFICES ASSUME NEW p \in Players PROVE WordsOf(p)'
  BY DEF WordsInv
<1>1. PICK m : m = Head(down[a])
  OBVIOUS
<1>2. /\ m \in DownMessages /\ UNCHANGED <<vars, home, at, via>>
      /\ up' = IF m.kind = "add_ack"
               THEN [up EXCEPT ![a] = @ \o SetToSeq({Req("list", q) : q \in Local(a, m)})]
               ELSE up
  BY <1>1, FromServerIs
<1>3. (Registered(p)' <=> Registered(p)) /\ at'[p] = at[p]
  BY <1>2 DEF vars, Registered
<1>4. CASE m.kind = "add_ack"
  <2>1. PICK t \in Seq(Requests) :
          /\ t = SetToSeq({Req("list", q) : q \in Local(a, m)})
          /\ \A i \in DOMAIN t : t[i].kind = "list" /\ t[i].by \in Local(a, m)
    BY <1>2, <1>4, AsksForList
  <2>2. p \in Local(a, m) => a = home[p]
    BY RelayAssumption DEF Local, RegInv, RegOf, AtHome
  <2>3. \A i \in DOMAIN t : t[i].by = p => /\ a = home[p] /\ t[i].kind \notin {"add", "del"}
                                           /\ (t[i].kind = "force" => at[p] # NoAgent)
    BY <2>1, <2>2
  <2>4. up' = [up EXCEPT ![a] = @ \o t]
    BY <1>2, <1>4, <2>1
  <2> QED BY <1>2, <1>3, <2>3, <2>4, WordsMore DEF WordsInv
<1>5. CASE m.kind # "add_ack"
  BY <1>2, <1>3, <1>5, WordsSame DEF WordsInv
<1> QED BY <1>4, <1>5

LEMMA WordsEnter ==
  ASSUME ~Roams, Base, WordsInv, NEW p \in Players, Enter(p)
  PROVE  WordsInv'
<1> SUFFICES ASSUME NEW q \in Players PROVE WordsOf(q)'
  BY DEF WordsInv
<1>1. /\ home[p] \in Agents /\ at[p] = NoAgent /\ at' = [at EXCEPT ![p] = home[p]]
      /\ up' = [up EXCEPT ![home[p]] = Append(@, Req("add", p))]
      /\ UNCHANGED <<vars, home, via>>
  BY DEF Enter, Base, ClientTypes
<1>2. PICK m \in Requests : m = Req("add", p)
  BY PlainRequest
<1>3. m.by = p /\ m.kind = "add"
  BY <1>2 DEF Req
<1>4. up' = [up EXCEPT ![home[p]] = Append(@, m)] /\ at \in [Players -> Agents \cup {NoAgent}]
  BY <1>1, <1>2 DEF Base, ClientTypes
<1>5. Registered(q)' <=> Registered(q)
  BY <1>1 DEF vars, Registered
<1>6. CASE q = p
  <2>1. PICK w \in Seq(Requests) : w = up[home[p]]
    BY <1>1 DEF Base, WireTypes
  <2>2. PICK t \in Seq(Requests) : t = <<m>>
    BY <2>1, AppendIs
  <2>3. \A i \in DOMAIN t : t[i] = m
    BY <2>1, <2>2, AppendIs
  <2>4. Append(w, m) = w \o t
    BY <2>1, <2>2, AppendIs
  <2>5. up' = [up EXCEPT ![home[p]] = @ \o t] /\ up'[home'[p]] = w \o t
    BY <1>1, <1>4, <2>1, <2>4 DEF Base, WireTypes
  <2>6. Mine(p) /\ Says(p, w)
    BY <2>1 DEF WordsInv, WordsOf
  <2>7. at'[p] # NoAgent
    BY <1>1, <1>4, RelayAssumption
  <2>8. Says(p, w \o <<m>>)'
    BY <1>1, <1>3, <1>5, <1>6, <2>6, <2>7, SaysCome
  <2>9. PICK z : z = w \o <<m>>
    OBVIOUS
  <2>10. z = up'[home'[p]] /\ Says(p, z)'
    BY <2>2, <2>5, <2>8, <2>9
  <2>11. Says(p, up[home[p]])'
    BY <2>10, SaysIs
  <2>12. Mine(p)'
    BY <1>1, <2>5, <2>6, MineMore
  <2> QED BY <1>6, <2>11, <2>12 DEF WordsOf
<1>7. CASE q # p
  <2>1. at'[q] = at[q] /\ m.by # q
    BY <1>1, <1>3, <1>4, <1>7
  <2> QED BY <1>1, <1>4, <1>5, <2>1, WordsOneMore DEF WordsInv
<1> QED BY <1>6, <1>7

LEMMA WordsLeave ==
  ASSUME Base, RegInv, WordsInv, NEW p \in Players, Leave(p)
  PROVE  WordsInv'
<1> SUFFICES ASSUME NEW q \in Players PROVE WordsOf(q)'
  BY DEF WordsInv
<1>1. /\ at[p] \in Agents /\ at' = [at EXCEPT ![p] = NoAgent] /\ UNCHANGED <<vars, home, via>>
      /\ at \in [Players -> Agents \cup {NoAgent}]
  BY LeaveIs DEF Leave, Base, ClientTypes
<1>2. at[p] = home[p] /\ home[p] \in Agents
  BY <1>1, RelayAssumption DEF RegInv, RegOf, AtHome
<1>3. PICK n \in {1, 3} : up' = [up EXCEPT ![at[p]] = @ \o [k \in 1..n |-> Req("del", p)]]
  BY LeaveIs
<1>4. PICK m \in Requests : m = Req("del", p)
  BY PlainRequest
<1>5. m.by = p /\ m.kind = "del"
  BY <1>4 DEF Req
<1>6. PICK t \in Seq(Requests) : t = [k \in 1..n |-> m]
  <2>1. n \in Nat
    OBVIOUS
  <2>2. [k \in 1..n |-> m] \in Seq(Requests)
    BY <2>1
  <2> QED BY <2>2
<1>7. Len(t) > 0 /\ \A i \in DOMAIN t : t[i] = m
  BY <1>6
<1>8. up' = [up EXCEPT ![home[p]] = @ \o t]
  BY <1>2, <1>3, <1>4, <1>6
<1>9. Registered(q)' <=> Registered(q)
  BY <1>1 DEF vars, Registered
<1>10. CASE q = p
  <2>1. PICK w \in Seq(Requests) : w = up[home[p]]
    BY <1>2 DEF Base, WireTypes
  <2>2. up'[home'[p]] = w \o t
    BY <1>1, <1>2, <1>8, <2>1 DEF Base, WireTypes
  <2>3. Mine(p) /\ Says(p, w)
    BY <2>1 DEF WordsInv, WordsOf
  <2>4. at'[p] = NoAgent /\ \A i \in DOMAIN t : t[i].by = p /\ t[i].kind = "del"
    BY <1>1, <1>5, <1>7
  <2>5. Says(p, w \o t)'
    BY <1>7, <1>9, <1>10, <2>3, <2>4, SaysGo
  <2>6. PICK z : z = w \o t
    OBVIOUS
  <2>7. z = up'[home'[p]] /\ Says(p, z)'
    BY <2>2, <2>5, <2>6
  <2>8. Says(p, up[home[p]])'
    BY <2>7, SaysIs
  <2>9. Mine(p)'
    BY <1>1, <1>2, <1>8, <2>3, MineMore
  <2> QED BY <1>10, <2>8, <2>9 DEF WordsOf
<1>11. CASE q # p
  <2>1. at'[q] = at[q] /\ \A i \in DOMAIN t : t[i].by # q
    BY <1>1, <1>5, <1>7, <1>11
  <2> QED BY <1>1, <1>2, <1>8, <1>9, <2>1, WordsMore DEF WordsInv
<1> QED BY <1>10, <1>11

LEMMA WordsAsk ==
  ASSUME Base, RegInv, WordsInv, NEW p \in Players, Ask(p)
  PROVE  WordsInv'
<1> SUFFICES ASSUME NEW q \in Players PROVE WordsOf(q)'
  BY DEF WordsInv
<1>1. PICK m \in Requests : /\ m.kind \notin {"add", "force", "del"} /\ at[p] \in Agents /\ m.by = p
                            /\ up' = [up EXCEPT ![at[p]] = Append(@, m)]
  BY AskIs
<1>2. UNCHANGED <<vars, home, at, via>>
  BY DEF Ask
<1>3. at[p] = home[p] /\ (Registered(q)' <=> Registered(q))
  BY <1>1, <1>2, RelayAssumption DEF RegInv, RegOf, AtHome, vars, Registered
<1>4. m.by = q => /\ at[p] = home[q] /\ m.kind \notin {"add", "del"}
                  /\ (m.kind = "force" => at[q] # NoAgent)
  BY <1>1, <1>3
<1> QED BY <1>1, <1>2, <1>3, <1>4, WordsOneMore DEF WordsInv

LEMMA WordsForce ==
  ASSUME Base, RegInv, WordsInv, NEW p \in Players, ForceRegistPlayerToLobby(p)
  PROVE  WordsInv'
<1> SUFFICES ASSUME NEW q \in Players PROVE WordsOf(q)'
  BY DEF WordsInv
<1>1. at[p] \in Agents /\ up' = [up EXCEPT ![at[p]] = Append(@, Req("force", p))]
  BY ForceIs
<1>2. UNCHANGED <<vars, home, at, via>>
  BY DEF ForceRegistPlayerToLobby
<1>3. at[p] = home[p] /\ at[p] # NoAgent /\ (Registered(q)' <=> Registered(q))
  BY <1>1, <1>2, RelayAssumption DEF RegInv, RegOf, AtHome, vars, Registered
<1>4. PICK m \in Requests : m = Req("force", p)
  BY PlainRequest
<1>5. m.by = p /\ m.kind = "force"
  BY <1>4 DEF Req
<1>6. up' = [up EXCEPT ![at[p]] = Append(@, m)]
  BY <1>1, <1>4
<1>7. m.by = q => /\ at[p] = home[q] /\ m.kind \notin {"add", "del"}
                  /\ (m.kind = "force" => at[q] # NoAgent)
  BY <1>3, <1>5
<1> QED BY <1>1, <1>2, <1>3, <1>6, <1>7, WordsOneMore DEF WordsInv

LEMMA WordsNext ==
  ASSUME ~Roams, Base, RegInv, WordsInv, [RelayNext]_<<vars, relayVars>>
  PROVE  WordsInv'
<1>1. ASSUME UNCHANGED <<vars, home, at, up>> PROVE WordsInv'
  <2>1. \A q \in Players : Registered(q)' <=> Registered(q)
    BY <1>1 DEF vars, Registered
  <2> QED BY <1>1, <2>1, WordsSame DEF WordsInv
<1>2. ASSUME NEW ba \in Agents \X Agents, FromAgent(ba[1], ba[2]) PROVE WordsInv'
  BY <1>1, <1>2 DEF FromAgent
<1>3. ASSUME NEW p \in Players, Chat(p) PROVE WordsInv'
  BY <1>1, <1>3 DEF Chat
<1>4. ASSUME UNCHANGED <<vars, relayVars>> PROVE WordsInv'
  BY <1>1, <1>4 DEF relayVars, wires
<1> QED BY <1>2, <1>3, <1>4, WordsServe, WordsFromServer, WordsEnter, WordsLeave, WordsAsk, WordsForce DEF RelayNext

(***************************************************************************)
(* What a client will know when its messages have come.                    *)
(***************************************************************************)

ClientOf(p) == <<view[p], board[p]>>

Asked(p, k) == \E i \in DOMAIN up[home[p]] : up[home[p]][i].by = p /\ up[home[p]][i].kind = k

Coming(p) == \E i \in DOMAIN down[home[p]] : down[home[p]][i].kind = "add_ack" /\ p \in down[home[p]][i].to

(* The list of a client that plays will be that of the server, or it will  *)
(* be sent it.                                                             *)
BoardFor(p) ==
  at[p] # NoAgent =>
    \/ Asked(p, "add") \/ Asked(p, "list") \/ Coming(p)
    \/ \E d : Ends(p, down[home[p]], ClientOf(p), d) /\ d[2] = TheBoard

(* It will see its room as the server has it, unless it has gone.          *)
Sits(p, v) == AgreesIn(user, rooms, p, v) \/ (v = NoView /\ Asked(p, "del"))

ViewFor(p) == \E d : Ends(p, down[home[p]], ClientOf(p), d) /\ Sits(p, d[1])

BoardInv == \A p \in Players : BoardFor(p)
ViewInv  == \A p \in Players : ViewFor(p)

Away == \A p \in Players : at[p] = NoAgent => view[p] = NoView

StrictWires == board \in [Players -> StrictPage] /\ \A a \in Agents : Strictly(down[a])

(* Nothing is under way to or from another agent than the only one. *)
OneWires == \A p \in Players : /\ \A a \in Agents \ {home[p]} : down[a] = <<>>
                               /\ \A b \in Agents : side[<<b, home[p]>>] = <<>>

LEMMA ClientOfIs ==
  ASSUME Base, NEW p \in Players
  PROVE  ClientOf(p) \in Clients /\ ClientOf(p)[1] = view[p] /\ ClientOf(p)[2] = board[p]
         /\ view[p] \in Views /\ board[p] \in LoosePage
BY DEF Base, ClientTypes, ClientOf, Clients

(* What was asked is asked until it is served. *)
LEMMA AskedMore ==
  ASSUME Base, NEW p \in Players, NEW k, home' = home,
         NEW a \in Agents, NEW t \in Seq(Requests), up' = [up EXCEPT ![a] = @ \o t]
  PROVE  /\ Asked(p, k) => Asked(p, k)'
         /\ a = home[p] /\ (\E i \in DOMAIN t : t[i].by = p /\ t[i].kind = k) => Asked(p, k)'
<1>1. /\ up \in [Agents -> Seq(Requests)] /\ home[p] \in Agents /\ up[a] \in Seq(Requests)
      /\ up'[a] = up[a] \o t /\ \A b \in Agents \ {a} : up'[b] = up[b]
  BY DEF Base, WireTypes, ClientTypes
<1>2. PICK q \in Seq(Requests) : q = up[a]
  BY <1>1
<1>3. PICK w : w = q \o t
  OBVIOUS
<1>4. /\ Len(q) \in Nat /\ Len(t) \in Nat /\ DOMAIN q = 1..Len(q) /\ DOMAIN t = 1..Len(t)
      /\ DOMAIN w = 1..(Len(q) + Len(t))
      /\ \A i \in 1..Len(q) : w[i] = q[i]
      /\ \A i \in 1..Len(t) : w[Len(q) + i] = t[i]
  BY <1>3, ConcatOf
<1>5. up'[a] = w
  BY <1>1, <1>2, <1>3
<1>6. ASSUME Asked(p, k) PROVE Asked(p, k)'
  <2>1. CASE a = home[p]
    <3>1. PICK i \in DOMAIN q : q[i].by = p /\ q[i].kind = k
      BY <1>2, <1>6, <2>1 DEF Asked
    <3>2. i \in DOMAIN w /\ w[i] = q[i]
      BY <1>4
    <3> QED BY <1>5, <2>1, <3>1, <3>2 DEF Asked
  <2>2. CASE a # home[p]
    BY <1>1, <1>6, <2>2 DEF Asked
  <2> QED BY <2>1, <2>2
<1>7. ASSUME a = home[p], NEW i \in DOMAIN t, t[i].by = p, t[i].kind = k PROVE Asked(p, k)'
  <2>1. Len(q) + i \in DOMAIN w /\ w[Len(q) + i] = t[i]
    BY <1>4
  <2> QED BY <1>5, <1>7, <2>1 DEF Asked
<1> QED BY <1>6, <1>7

(* The first request of agent a has been taken, and what is left of those *)
(* of a player.                                                            *)
TakenFrom(a) == home' = home /\ up[a] # <<>> /\ up' = [up EXCEPT ![a] = Tail(@)]

StillAsks(p, k, a) == Asked(p, k)' \/ (a = home[p] /\ Head(up[a]).by = p /\ Head(up[a]).kind = k)

LEMMA AskedAfter ==
  ASSUME Base, NEW p \in Players, NEW k, NEW a \in Agents, TakenFrom(a), Asked(p, k)
  PROVE  StillAsks(p, k, a)
<1>1. /\ up \in [Agents -> Seq(Requests)] /\ home[p] \in Agents /\ up[a] \in Seq(Requests)
      /\ up'[a] = Tail(up[a]) /\ \A b \in Agents \ {a} : up'[b] = up[b]
      /\ home' = home /\ up[a] # <<>>
  BY DEF Base, WireTypes, ClientTypes, TakenFrom
<1>2. CASE a # home[p]
  BY <1>1, <1>2 DEF Asked, StillAsks
<1>3. CASE a = home[p]
  <2>1. PICK q \in Seq(Requests) : q = up[a]
    BY <1>1
  <2>2. PICK i \in DOMAIN q : q[i].by = p /\ q[i].kind = k
    BY <1>3, <2>1 DEF Asked
  <2>3. q # <<>>
    BY <1>1, <2>1
  <2>4. CASE i = 1
    <3>1. Head(q) = q[1]
      BY <2>3, HeadIn
    <3> QED BY <1>3, <2>1, <2>2, <2>4, <3>1 DEF StillAsks
  <2>5. CASE i # 1
    <3>1. i - 1 \in DOMAIN Tail(q) /\ Tail(q)[i - 1] = q[i]
      BY <2>3, <2>5, TailHas
    <3>2. up'[home[p]] = Tail(q)
      BY <1>1, <1>3, <2>1
    <3> QED BY <1>1, <2>2, <3>1, <3>2 DEF Asked, StillAsks
  <2> QED BY <2>4, <2>5
<1> QED BY <1>2, <1>3

LEMMA AskedLess ==
  ASSUME Base, NEW p \in Players, NEW k, home' = home, Asked(p, k),
         NEW a \in Agents, up[a] # <<>>, up' = [up EXCEPT ![a] = Tail(@)]
  PROVE  Asked(p, k)' \/ (a = home[p] /\ Head(up[a]).by = p /\ Head(up[a]).kind = k)
<1>1. TakenFrom(a)
  BY DEF TakenFrom
<1>2. StillAsks(p, k, a)
  BY <1>1, AskedAfter, Zenon
<1> QED BY <1>2 DEF StillAsks

LEMMA AskedSame ==
  ASSUME NEW p, NEW k, UNCHANGED <<home, up>>
  PROVE  Asked(p, k)' <=> Asked(p, k)
BY DEF Asked

(* The queue of a player's agent gets longer. *)
LEMMA ComingMore ==
  ASSUME NEW p \in Players, home' = home, Coming(p),
         NEW q \in Seq(DownMessages), NEW t \in Seq(DownMessages), down[home[p]] = q, down'[home[p]] = q \o t
  PROVE  Coming(p)'
<1>1. PICK i \in DOMAIN q : q[i].kind = "add_ack" /\ p \in q[i].to
  BY DEF Coming
<1>2. PICK w : w = q \o t
  OBVIOUS
<1>3. i \in DOMAIN w /\ w[i] = q[i]
  BY <1>2, ConcatOf
<1> QED BY <1>1, <1>2, <1>3 DEF Coming

LEMMA ComingLess ==
  ASSUME NEW p \in Players, home' = home, Coming(p),
         NEW q \in Seq(DownMessages), q # <<>>, down[home[p]] = q, down'[home[p]] = Tail(q)
  PROVE  Coming(p)' \/ (Head(q).kind = "add_ack" /\ p \in Head(q).to)
<1>1. PICK i \in DOMAIN q : q[i].kind = "add_ack" /\ p \in q[i].to
  BY DEF Coming
<1>2. CASE i = 1
  <2>1. Head(q) = q[1]
    BY HeadIn
  <2> QED BY <1>1, <1>2, <2>1
<1>3. CASE i # 1
  <2>1. i - 1 \in DOMAIN Tail(q) /\ Tail(q)[i - 1] = q[i]
    BY <1>3, TailHas
  <2>2. PICK w : w = Tail(q)
    OBVIOUS
  <2> QED BY <1>1, <2>1, <2>2 DEF Coming
<1> QED BY <1>2, <1>3

(* What a player has said of itself. *)
LEMMA NoComing ==
  ASSUME NEW p \in Players, WordsOf(p), at[p] # NoAgent, ~Asked(p, "add")
  PROVE  Registered(p)
<1>1. PICK q : q = up[home[p]]
  OBVIOUS
<1>2. Present(p, q, Len(q))
  BY <1>1 DEF WordsOf, Says
<1>3. PICK k \in 0..Len(q) : IF k = 0 THEN p \in Registrants ELSE q[k].by = p /\ q[k].kind \in {"add"}
  BY <1>2 DEF Present, Since
<1> QED BY <1>1, <1>3 DEF Asked, Registrants

LEMMA HasGone ==
  ASSUME Base, NEW p \in Players, WordsOf(p), at[p] = NoAgent
  PROVE  ~Registered(p) \/ Asked(p, "del")
<1>1. PICK q \in Seq(Requests) : q = up[home[p]]
  BY DEF Base, WireTypes, ClientTypes
<1>2. Cleared(p, q, Len(q))
  BY <1>1 DEF WordsOf, Says
<1>3. PICK k \in 0..Len(q) : IF k = 0 THEN p \in Strangers ELSE q[k].by = p /\ q[k].kind \in {"del"}
  BY <1>2 DEF Cleared, Since
<1>4. CASE k = 0
  BY <1>3, <1>4 DEF Strangers
<1>5. CASE k # 0
  <2>1. k \in DOMAIN q
    BY <1>5
  <2> QED BY <1>1, <1>3, <1>5, <2>1 DEF Asked
<1> QED BY <1>4, <1>5

LEMMA ComesNew ==
  ASSUME Base, NEW p \in Players, WordsOf(p), up[home[p]] # <<>>,
         Head(up[home[p]]).by = p, Head(up[home[p]]).kind = "add"
  PROVE  ~Registered(p)
<1>1. PICK q \in Seq(Requests) : q = up[home[p]]
  BY DEF Base, WireTypes, ClientTypes
<1>2. 1 \in DOMAIN q /\ q[1] = Head(q)
  BY <1>1, HeadIn
<1>3. Cleared(p, q, 1 - 1)
  BY <1>1, <1>2 DEF WordsOf, Says
<1>4. PICK k \in 0..(1 - 1) : IF k = 0 THEN p \in Strangers ELSE q[k].by = p /\ q[k].kind \in {"del"}
  BY <1>3 DEF Cleared, Since
<1> QED BY <1>4 DEF Strangers

(* Who is not registered sees no room. *)
LEMMA StrangerSits ==
  ASSUME RoomTypes, NEW p \in Players, ~Registered(p)
  PROVE  AgreesIn(user, rooms, p, NoView)
BY NoViewIs DEF Registered, AgreesIn, IdxIn

(***************************************************************************)
(* What it will know follows, while the server serves.                     *)
(***************************************************************************)

LEMMA TellsAt ==
  ASSUME NEW a \in Agents, Tells(a), NEW b \in Agents
  PROVE  \E before, news, after :
           /\ before \in Seq(DownMessages) /\ after \in Seq(DownMessages) /\ Strictly(before) /\ Strictly(after)
           /\ RightNews(news)
           /\ b = a => KeepAll(before, after)
           /\ b # a => before = <<>> /\ after = <<>>
           /\ down'[b] = down[b] \o before \o Told(news, b) \o after
<1>1. PICK before, news, after :
        /\ before \in Seq(DownMessages) /\ after \in Seq(DownMessages) /\ Strictly(before) /\ Strictly(after)
        /\ RightNews(news) /\ KeepAll(before, after)
        /\ down' = [c \in Agents |-> down[c] \o (IF c = a THEN before ELSE <<>>) \o Told(news, c)
                                             \o (IF c = a THEN after ELSE <<>>)]
  BY DEF Tells
<1>2. CASE b = a
  <2>1. down'[b] = down[b] \o before \o Told(news, b) \o after
    BY <1>1, <1>2
  <2> QED BY <1>1, <1>2, <2>1
<1>3. CASE b # a
  <2>1. PICK z : z = <<>>
    OBVIOUS
  <2>2. down'[b] = down[b] \o z \o Told(news, b) \o z
    BY <1>1, <1>3, <2>1
  <2>3. z \in Seq(DownMessages) /\ Strictly(z)
    BY <2>1, EmptyIsSeq, StrictNone
  <2> QED BY <1>1, <1>3, <2>1, <2>2, <2>3
<1> QED BY <1>2, <1>3

LEMMA ToldStrict ==
  ASSUME NEW news, OneNews(news), Strictly(news), NEW b
  PROVE  Told(news, b) \in Seq(DownMessages) /\ Strictly(Told(news, b))
<1>1. news \in Seq(DownMessages) /\ \A i \in DOMAIN news : news[i].kind \in NewsKinds
  <2>1. CASE news = <<>>
    BY <2>1, EmptyIsSeq
  <2>2. ASSUME NEW m \in DownMessages, news = <<m>>, m.kind \in NewsKinds
        PROVE  news \in Seq(DownMessages) /\ \A i \in DOMAIN news : news[i].kind \in NewsKinds
    BY <2>2
  <2> QED BY <2>1, <2>2 DEF OneNews
<1> PICK t : t = Told(news, b)
  OBVIOUS
<1>2. /\ t \in Seq(DownMessages) /\ DOMAIN t \subseteq DOMAIN news
      /\ \A i \in DOMAIN t : t[i].kind = news[i].kind /\ t[i].room = news[i].room /\ t[i].page = news[i].page
  BY <1>1, ToldIs
<1>3. ASSUME NEW i \in DOMAIN t PROVE t[i] \in StrictDown
  <2>1. news[i] \in StrictDown /\ t[i] \in DownMessages
    BY <1>2, InSeq DEF Strictly
  <2> QED BY <1>2, <2>1 DEF StrictDown
<1> QED BY <1>2, <1>3 DEF Strictly

LEMMA TellsStrict ==
  ASSUME Base, NEW a \in Agents, Tells(a), StrictWires, board' = board
  PROVE  StrictWires'
<1> SUFFICES ASSUME NEW b \in Agents PROVE Strictly(down'[b])
  BY DEF StrictWires, Strictly
<1>1. PICK before, news, after :
           /\ before \in Seq(DownMessages) /\ after \in Seq(DownMessages) /\ Strictly(before) /\ Strictly(after)
           /\ RightNews(news)
           /\ b = a => KeepAll(before, after)
           /\ b # a => before = <<>> /\ after = <<>>
           /\ down'[b] = down[b] \o before \o Told(news, b) \o after
  BY TellsAt
<1>2. PICK t \in Seq(DownMessages) : t = Told(news, b) /\ Strictly(t)
  BY <1>1, ToldStrict DEF RightNews
<1>3. PICK q \in Seq(DownMessages) : q = down[b] /\ Strictly(q)
  BY DEF Base, WireTypes, StrictWires
<1>4. PICK x : x = q \o before
  OBVIOUS
<1>5. PICK y : y = x \o t
  OBVIOUS
<1>6. x \in Seq(DownMessages) /\ Strictly(x)
  BY <1>1, <1>3, <1>4, StrictJoin
<1>7. y \in Seq(DownMessages) /\ Strictly(y)
  BY <1>2, <1>5, <1>6, StrictJoin
<1>8. Strictly(y \o after)
  BY <1>1, <1>7, StrictJoin
<1>9. down'[b] = y \o after
  BY <1>1, <1>2, <1>3, <1>4, <1>5
<1> QED BY <1>8, <1>9

(* The queue of the agent of p gets longer; where the client ends up. *)
LEMMA TellsEnds ==
  ASSUME Base, NEW a \in Agents, Tells(a), NEW p \in Players, NEW b \in Agents, NEW c, NEW d, Ends(p, down[b], c, d)
  PROVE  /\ \E t \in Seq(DownMessages) : down'[b] = down[b] \o t
         /\ \E e : /\ Ends(p, down'[b], c, e)
                   /\ p \in Everybody(b) /\ d[2] = TheBoard => e[2] = TheBoard'
                   /\ b = a => Keeps(user, rooms, user', rooms', p, d[1], e[1])
<1>1. PICK before, news, after :
           /\ before \in Seq(DownMessages) /\ after \in Seq(DownMessages) /\ Strictly(before) /\ Strictly(after)
           /\ RightNews(news)
           /\ b = a => KeepAll(before, after)
           /\ b # a => before = <<>> /\ after = <<>>
           /\ down'[b] = down[b] \o before \o Told(news, b) \o after
  BY TellsAt
<1>2. PICK t : t = Told(news, b)
  OBVIOUS
<1>3. /\ t \in Seq(DownMessages)
      /\ p \in Everybody(b) => TellsNews(p, t, news)
      /\ p \notin Everybody(b) => TellsNews(p, t, <<>>)
  BY <1>1, <1>2, NewsTold DEF RightNews
<1>4. PICK q \in Seq(DownMessages) : q = down[b]
  BY DEF Base, WireTypes
<1>5. Ends(p, q, c, d)
  BY <1>4
<1>6. d \in Clients
  BY <1>5, EndsType
<1>7. d[1] \in Views
  BY <1>6, ClientIs
<1>8. PICK v, w : /\ Leads(p, before, d[1], v) /\ Leads(p, after, v, w)
                  /\ b = a => Keeps(user, rooms, user', rooms', p, d[1], w)
  <2>1. CASE b = a
    BY <1>1, <1>7, <2>1 DEF KeepAll
  <2>2. CASE b # a
    <3>1. Leads(p, <<>>, d[1], d[1])
      BY LeadsNone
    <3> QED BY <1>1, <2>2, <3>1
  <2> QED BY <2>1, <2>2
<1>9. PICK n : /\ TellsNews(p, t, n) /\ (p \in Everybody(b) => n = news)
  BY <1>3
<1>10. PICK e : Ends(p, q \o before \o t \o after, c, e) /\ e[1] = w /\ e[2] = TheNews(d[2], n)
  BY <1>1, <1>3, <1>5, <1>8, <1>9, EndsAnswered
<1>11. down'[b] = q \o before \o t \o after
  BY <1>1, <1>2, <1>4
<1>12. ASSUME p \in Everybody(b), d[2] = TheBoard PROVE e[2] = TheBoard'
  <2>1. TheNews(TheBoard, news) = TheBoard'
    BY <1>1 DEF RightNews
  <2> QED BY <1>9, <1>10, <1>12, <2>1
<1>13. \E x \in Seq(DownMessages) : down'[b] = down[b] \o x
  <2>1. (q \o before) \o t \o after = q \o (before \o t \o after) /\ before \o t \o after \in Seq(DownMessages)
    BY <1>1, <1>3
  <2> QED BY <1>4, <1>11, <2>1
<1> QED BY <1>8, <1>10, <1>11, <1>12, <1>13

LEMMA TellsElsewhere ==
  ASSUME Base, NEW a \in Agents, Tells(a), NEW b \in Agents, b # a, Everybody(b) = {}, down[b] = <<>>
  PROVE  down'[b] = <<>>
<1>1. PICK before, news, after :
           /\ before \in Seq(DownMessages) /\ after \in Seq(DownMessages) /\ Strictly(before) /\ Strictly(after)
           /\ RightNews(news)
           /\ b = a => KeepAll(before, after)
           /\ b # a => before = <<>> /\ after = <<>>
           /\ down'[b] = down[b] \o before \o Told(news, b) \o after
  BY TellsAt
<1>2. Told(news, b) = <<>>
  BY DEF Told
<1>3. <<>> \o <<>> \o <<>> \o <<>> = <<>>
  OBVIOUS
<1> QED BY <1>1, <1>2, <1>3

(* A player that comes is told so. *)
LEMMA AddAcks ==
  ASSUME Base, NEW a \in Agents, NEW p \in Players, ~Registered(p), ServeAdd(a, p), home[p] = a, home' = home
  PROVE  Coming(p)'
<1>1. PICK m : m = Msg("add_ack", {p})
  OBVIOUS
<1>2. Answer(a, <<m>>, <<>>, <<>>)
  BY <1>1 DEF ServeAdd
<1>3. served \in Nat
  BY DEF Base, CountTypes
<1>4. m \in DownMessages /\ m.kind = "add_ack" /\ m.to = {p}
  BY <1>1, <1>3, PlainTo DEF StrictDown
<1>5. \A b : Told(<<>>, b) = <<>>
  <2>1. \A W : [k \in DOMAIN <<>> |-> [<<>>[k] EXCEPT !.to = W]] = <<>>
    OBVIOUS
  <2> QED BY <2>1 DEF Told
<1>6. down'[a] = down[a] \o <<m>> \o Told(<<>>, a) \o <<>>
  BY <1>2 DEF Answer, Told, Everybody
<1>7. PICK q \in Seq(DownMessages) : q = down[a]
  BY DEF Base, WireTypes
<1>8. PICK w : w = q \o <<m>>
  OBVIOUS
<1>9. Len(q) + 1 \in DOMAIN w /\ w[Len(q) + 1] = m /\ w \in Seq(DownMessages)
  BY <1>4, <1>8
<1>10. w \o <<>> \o <<>> = w
  BY <1>9
<1>11. down'[a] = w
  BY <1>5, <1>6, <1>7, <1>8, <1>10
<1> QED BY <1>4, <1>9, <1>11 DEF Coming

LEMMA EndsSome ==
  ASSUME NEW p \in Players, NEW q \in Seq(DownMessages), NEW c \in Clients
  PROVE  \E d : Ends(p, q, c, d)
BY HearingExists DEF Ends

LEMMA ServeIs ==
  ASSUME Base, NEW a \in Agents, Serve(a), NEW m, m = Head(up[a])
  PROVE  /\ up[a] # <<>> /\ up' = [up EXCEPT ![a] = Tail(@)] /\ m \in Requests
         /\ UNCHANGED <<home, at, side, view, board>>
         /\ m.kind = "list" => ServeList(a, m.by)
         /\ m.kind = "add" => ServeAdd(a, m.by)
<1>1. up[a] # <<>> /\ up' = [up EXCEPT ![a] = Tail(@)] /\ UNCHANGED <<home, at, side, view, board>>
  BY DEF Serve, clients
<1>2. up[a] \in Seq(Requests)
  BY DEF Base, WireTypes
<1>3. m \in Requests
  BY <1>1, <1>2, TailOf
<1>4. /\ m.kind = "list" => ServeList(a, m.by)
      /\ m.kind = "add" => ServeAdd(a, m.by)
  BY DEF Serve, Granted, Refused
<1> QED BY <1>1, <1>3, <1>4

(* The list of one client, from the end of its queue. *)
LEMMA BoardEnds ==
  ASSUME NEW p \in Players, UNCHANGED <<home, at>>, NEW c, ClientOf(p)' = c, NEW b, home[p] = b,
         NEW q, down'[b] = q, NEW e, Ends(p, q, c, e), e[2] = TheBoard'
  PROVE  BoardFor(p)'
<1>1. down'[home'[p]] = q
  OBVIOUS
<1>2. Ends(p, down[home[p]], ClientOf(p), e)'
  BY <1>1
<1> QED BY <1>2 DEF BoardFor

LEMMA TellsBoards ==
  ASSUME Base, RegInv, WordsInv, NEW a \in Agents, Serve(a), Tells(a), Head(up[a]).kind # "list", BoardInv
  PROVE  BoardInv'
<1> SUFFICES ASSUME NEW p \in Players PROVE BoardFor(p)'
  BY DEF BoardInv
<1>1. PICK m : m = Head(up[a])
  OBVIOUS
<1>2. /\ up[a] # <<>> /\ up' = [up EXCEPT ![a] = Tail(@)]
      /\ UNCHANGED <<home, at, side, view, board>>
      /\ m.kind = "add" => ServeAdd(a, m.by)
  BY <1>1, ServeIs
<1>3. home[p] \in Agents
  BY DEF Base, ClientTypes
<1>4. CASE at[p] = NoAgent
  BY <1>2, <1>4 DEF BoardFor
<1>5. PICK c \in Clients : c = ClientOf(p)
  BY ClientOfIs
<1>6. PICK b \in Agents : b = home[p]
  BY <1>3
<1>7. down[b] \in Seq(DownMessages)
  BY DEF Base, WireTypes
<1>8. c = ClientOf(p)'
  BY <1>2, <1>5 DEF ClientOf
<1>9. ASSUME Asked(p, "add"), at[p] # NoAgent PROVE BoardFor(p)'
  <2>1. Asked(p, "add")' \/ (a = home[p] /\ m.by = p /\ m.kind = "add")
    <3>1. TakenFrom(a)
      BY <1>2 DEF TakenFrom
    <3>2. Asked(p, "add")' \/ (a = home[p] /\ Head(up[a]).by = p /\ Head(up[a]).kind = "add")
      <4>1. PICK k : k = "add"
        OBVIOUS
      <4>2. Asked(p, k)
        BY <1>9, <4>1
      <4>3. StillAsks(p, k, a)
        BY <3>1, <4>2, AskedAfter, Zenon
      <4>4. Asked(p, k)' \/ (a = home[p] /\ Head(up[a]).by = p /\ Head(up[a]).kind = k)
        BY <4>3 DEF StillAsks
      <4>5. Asked(p, k)' <=> Asked(p, "add")'
        BY <4>1 DEF Asked
      <4> QED BY <4>1, <4>4, <4>5
    <3> QED BY <1>1, <3>2
  <2>2. ASSUME a = home[p], m.by = p, m.kind = "add" PROVE Coming(p)'
    <3>1. ~Registered(p)
      BY <1>1, <1>2, <2>2, ComesNew DEF WordsInv
    <3>2. ServeAdd(a, p)
      BY <1>2, <2>2
    <3> QED BY <1>2, <2>2, <3>1, <3>2, AddAcks
  <2> QED BY <2>1, <2>2 DEF BoardFor
<1>10. ASSUME Asked(p, "list") PROVE BoardFor(p)'
  <2>1. TakenFrom(a)
    BY <1>2 DEF TakenFrom
  <2>2. StillAsks(p, "list", a)
    BY <1>10, <2>1, AskedAfter, Zenon
  <2>3. Asked(p, "list")'
    BY <2>2 DEF StillAsks
  <2> QED BY <2>3 DEF BoardFor
<1>11. ASSUME Coming(p) PROVE BoardFor(p)'
  <2>1. PICK d : Ends(p, down[b], c, d)
    BY <1>7, EndsSome
  <2>2. PICK t \in Seq(DownMessages) : down'[b] = down[b] \o t
    BY <2>1, TellsEnds
  <2>3. Coming(p)'
    BY <1>2, <1>6, <1>7, <1>11, <2>2, ComingMore
  <2> QED BY <2>3 DEF BoardFor
<1>12. ASSUME NEW d, Ends(p, down[b], c, d), d[2] = TheBoard, at[p] # NoAgent, ~Asked(p, "add") PROVE BoardFor(p)'
  <2>1. Registered(p)
    BY <1>12, NoComing DEF WordsInv
  <2>2. via[p] = b
    BY <1>6, <2>1 DEF Base, ClientTypes, RegInv, RegOf, AtHome
  <2>3. p \in Everybody(b)
    BY <2>1, <2>2 DEF Everybody
  <2>4. PICK e : /\ Ends(p, down'[b], c, e)
                 /\ p \in Everybody(b) /\ d[2] = TheBoard => e[2] = TheBoard'
    <3>1. \E e : /\ Ends(p, down'[b], c, e)
                 /\ p \in Everybody(b) /\ d[2] = TheBoard => e[2] = TheBoard'
                 /\ b = a => Keeps(user, rooms, user', rooms', p, d[1], e[1])
      BY <1>12, TellsEnds
    <3> QED BY <3>1
  <2> QED BY <1>2, <1>6, <1>8, <1>12, <2>3, <2>4, BoardEnds
<1>13. \/ at[p] = NoAgent \/ Asked(p, "add") \/ Asked(p, "list") \/ Coming(p)
       \/ \E d : Ends(p, down[b], c, d) /\ d[2] = TheBoard
  BY <1>5, <1>6 DEF BoardInv, BoardFor
<1> QED BY <1>4, <1>9, <1>10, <1>11, <1>12, <1>13

(* The view of one client. *)
LEMMA ViewEnds ==
  ASSUME NEW p \in Players, home' = home, NEW c, ClientOf(p)' = c, NEW b, home[p] = b,
         NEW q, down'[b] = q, NEW e, Ends(p, q, c, e), Sits(p, e[1])'
  PROVE  ViewFor(p)'
<1>1. down'[home'[p]] = q
  OBVIOUS
<1>2. Ends(p, down[home[p]], ClientOf(p), e)'
  BY <1>1
<1>3. PICK v : v = e[1]
  OBVIOUS
<1> QED BY <1>2 DEF ViewFor, Sits

LEMMA TellsViews ==
  ASSUME OneAgent, Base, Base', RegInv, WordsInv, NEW a \in Agents, Serve(a), Tells(a), ViewInv
  PROVE  ViewInv'
<1> SUFFICES ASSUME NEW p \in Players PROVE ViewFor(p)'
  BY DEF ViewInv
<1>1. PICK m : m = Head(up[a])
  OBVIOUS
<1>2. /\ up[a] # <<>> /\ up' = [up EXCEPT ![a] = Tail(@)] /\ m \in Requests
      /\ UNCHANGED <<home, at, side, view, board>>
  BY <1>1, ServeIs
<1>3. home[p] = a
  <2>1. up[a] \in Seq(Requests)
    BY DEF Base, WireTypes
  <2>2. 1 \in DOMAIN up[a] /\ up[a][1] = m
    BY <1>1, <1>2, <2>1, HeadIn
  <2>3. m.by \in Players
    BY <1>2, RequestFields
  <2>4. a = home[m.by]
    BY <2>2, <2>3 DEF WordsInv, WordsOf, Mine
  <2> QED BY <2>3, <2>4 DEF OneAgent
<1>4. PICK c \in Clients : c = ClientOf(p)
  BY ClientOfIs
<1>5. c = ClientOf(p)'
  BY <1>2, <1>4 DEF ClientOf
<1>6. PICK d : Ends(p, down[a], c, d) /\ Sits(p, d[1])
  BY <1>3, <1>4 DEF ViewInv, ViewFor
<1>7. PICK e : Ends(p, down'[a], c, e) /\ Keeps(user, rooms, user', rooms', p, d[1], e[1])
  BY <1>6, TellsEnds
<1>8. PICK v : v = e[1]
  OBVIOUS
<1>9. AgreesIn(user', rooms', p, v) => Sits(p, v)'
  BY DEF Sits
<1>10. Sits(p, v)'
  <2>1. CASE AgreesIn(user, rooms, p, d[1])
    BY <1>7, <1>8, <1>9, <2>1 DEF Keeps
  <2>2. CASE d[1] = NoView /\ Asked(p, "del")
    <3>1. v = NoView \/ AgreesIn(user', rooms', p, v)
      BY <1>7, <1>8, <2>2 DEF Keeps
    <3>2. Asked(p, "del")' \/ (m.by = p /\ m.kind = "del")
      <4>1. TakenFrom(a)
        BY <1>2 DEF TakenFrom
      <4>2. StillAsks(p, "del", a)
        BY <2>2, <4>1, AskedAfter, Zenon
      <4> QED BY <1>1, <4>2 DEF StillAsks
    <3>3. ASSUME m.by = p, m.kind = "del" PROVE AgreesIn(user', rooms', p, NoView)
      <4>1. ~Registered(p)'
        BY <1>1, <3>3, ServedRegisters DEF Word, Comings
      <4>2. RoomTypes'
        BY DEF Base
      <4> QED BY <4>1, <4>2, NoViewIs DEF Registered, AgreesIn, IdxIn
    <3>4. Asked(p, "del")' /\ v = NoView => Sits(p, v)'
      BY DEF Sits
    <3> QED BY <1>9, <3>1, <3>2, <3>3, <3>4
  <2> QED BY <1>6, <2>1, <2>2 DEF Sits
<1>11. Sits(p, e[1])'
  BY <1>8, <1>10 DEF Sits
<1> QED BY <1>2, <1>3, <1>5, <1>7, <1>11, ViewEnds

LEMMA HearsList ==
  ASSUME NEW p \in Players, NEW c \in Clients, NEW m \in StrictDown, m.kind = "list_ack"
  PROVE  /\ Hears(p, c, m)[1] = c[1]
         /\ p \in m.to => Hears(p, c, m)[2] = m.page
         /\ p \notin m.to => Hears(p, c, m) = c
<1>1. c[1] \in Views /\ m \in Messages
  BY ClientIs DEF StrictDown, DownMessages
<1>2. Seen(p, c[1], m) = c[1]
  BY <1>1, SeenIs
<1>3. Listed(c[2], m) = m.page
  BY DEF Listed
<1> QED BY <1>2, <1>3 DEF Hears

SentOne(a, m) == down' = [down EXCEPT ![a] = @ \o <<m>>]

(* What p, whose agent is b, makes of a list sent to a. *)
ListHeard(a, m, p, b, c, d) ==
  \E t, e : /\ t \in Seq(DownMessages) /\ down'[b] = down[b] \o t
            /\ Ends(p, down'[b], c, e) /\ e[1] = d[1]
            /\ b = a /\ p \in m.to => e[2] = TheBoard
            /\ d[2] = TheBoard => e[2] = TheBoard

LEMMA ListEnds ==
  ASSUME Base, NEW a \in Agents, NEW m \in StrictDown, m.kind = "list_ack", m.page = TheBoard,
         SentOne(a, m),
         NEW p \in Players, NEW b \in Agents, NEW c, NEW d, Ends(p, down[b], c, d)
  PROVE  ListHeard(a, m, p, b, c, d)
<1>1. down \in [Agents -> Seq(DownMessages)]
  BY DEF Base, WireTypes
<1>2. CASE b # a
  <2>1. down'[b] = down[b]
    BY <1>1, <1>2 DEF SentOne
  <2>2. down[b] = down[b] \o <<>> /\ <<>> \in Seq(DownMessages)
    BY <1>1
  <2> QED BY <1>2, <2>1, <2>2 DEF ListHeard
<1>3. CASE b = a
  <2>1. PICK q \in Seq(DownMessages) : q = down[b]
    BY <1>1
  <2>2. Ends(p, q, c, d)
    BY <2>1
  <2>3. d \in Clients /\ m \in DownMessages
    BY <2>2, EndsType DEF StrictDown
  <2>4. PICK e : e = Hears(p, d, m)
    OBVIOUS
  <2>5. PICK t \in Seq(DownMessages) : t = <<m>>
    BY StrictOne
  <2>6. Ends(p, t, d, e)
    BY <2>3, <2>4, <2>5, EndsOne
  <2>7. Ends(p, q \o t, c, e)
    BY <2>2, <2>6, EndsJoin
  <2>8. down'[b] = q \o t
    BY <1>1, <1>3, <2>1, <2>5 DEF SentOne
  <2>9. e[1] = d[1] /\ (p \in m.to => e[2] = TheBoard) /\ (p \notin m.to => e = d)
    BY <2>3, <2>4, HearsList
  <2> QED BY <2>1, <2>5, <2>7, <2>8, <2>9 DEF ListHeard
<1> QED BY <1>2, <1>3

LEMMA ListBoards ==
  ASSUME Base, RoomsOK, ListOK, Len(list) <= PerPage, NEW a \in Agents, Serve(a), Head(up[a]).kind = "list", BoardInv
  PROVE  BoardInv'
<1> SUFFICES ASSUME NEW p \in Players PROVE BoardFor(p)'
  BY DEF BoardInv
<1>1. PICK r : r = Head(up[a])
  OBVIOUS
<1>2. /\ up[a] # <<>> /\ up' = [up EXCEPT ![a] = Tail(@)] /\ r \in Requests
      /\ UNCHANGED <<home, at, side, view, board>>
      /\ ServeList(a, r.by)
  BY <1>1, ServeIs
<1>3. r.by \in Players
  BY <1>2, RequestFields
<1>4. /\ UNCHANGED vars
      /\ \E m \in StrictDown : /\ m.kind = "list_ack" /\ m.to = {r.by} /\ m.page = TheBoard
                               /\ down' = [down EXCEPT ![a] = @ \o <<m>>]
  BY <1>2, <1>3, ListTells
<1>5. PICK m \in StrictDown : /\ m.kind = "list_ack" /\ m.to = {r.by} /\ m.page = TheBoard
                              /\ down' = [down EXCEPT ![a] = @ \o <<m>>]
  BY <1>4
<1>a. SentOne(a, m) /\ m.kind = "list_ack" /\ m.page = TheBoard
  BY <1>5 DEF SentOne
<1>6. TheBoard' = TheBoard
  BY <1>4 DEF vars, TheBoard, BoardOf
<1>7. PICK b \in Agents : b = home[p]
  BY DEF Base, ClientTypes
<1>8. PICK c \in Clients : c = ClientOf(p)
  BY ClientOfIs
<1>9. down[b] \in Seq(DownMessages)
  BY DEF Base, WireTypes
<1>10. c = ClientOf(p)'
  BY <1>2, <1>8 DEF ClientOf
<1>b. ASSUME NEW d, Ends(p, down[b], c, d)
      PROVE  \E t, e : /\ t \in Seq(DownMessages) /\ down'[b] = down[b] \o t
                       /\ Ends(p, down'[b], c, e) /\ e[1] = d[1]
                       /\ b = a /\ p \in m.to => e[2] = TheBoard
                       /\ d[2] = TheBoard => e[2] = TheBoard
  <2>1. ListHeard(a, m, p, b, c, d)
    BY <1>a, <1>b, ListEnds, Zenon
  <2> QED BY <2>1 DEF ListHeard
<1>11. ASSUME NEW d, Ends(p, down[b], c, d), (b = a /\ p = r.by) \/ d[2] = TheBoard PROVE BoardFor(p)'
  <2>1. PICK e : /\ Ends(p, down'[b], c, e)
                 /\ b = a /\ p \in m.to => e[2] = TheBoard
                 /\ d[2] = TheBoard => e[2] = TheBoard
    BY <1>b, <1>11
  <2>2. e[2] = TheBoard'
    BY <1>5, <1>6, <1>11, <2>1
  <2> QED BY <1>2, <1>7, <1>10, <2>1, <2>2, BoardEnds
<1>12. ASSUME Coming(p) PROVE BoardFor(p)'
  <2>1. PICK d : Ends(p, down[b], c, d)
    BY <1>9, EndsSome
  <2>2. PICK t \in Seq(DownMessages) : down'[b] = down[b] \o t
    BY <1>b, <2>1
  <2>3. Coming(p)'
    BY <1>2, <1>7, <1>9, <1>12, <2>2, ComingMore
  <2> QED BY <2>3 DEF BoardFor
<1>13. ASSUME Asked(p, "add") PROVE BoardFor(p)'
  <2>1. Asked(p, "add")' \/ r.kind = "add"
    BY <1>1, <1>2, <1>13, AskedLess
  <2> QED BY <1>1, <2>1 DEF BoardFor
<1>14. ASSUME Asked(p, "list") PROVE BoardFor(p)'
  <2>1. PICK k : k = "list"
    OBVIOUS
  <2>2. Asked(p, k)
    BY <1>14, <2>1
  <2>3. Asked(p, k)' \/ (a = home[p] /\ Head(up[a]).by = p /\ Head(up[a]).kind = k)
    BY <1>2, <2>2, AskedLess
  <2>4. Asked(p, k)' <=> Asked(p, "list")'
    BY <2>1 DEF Asked
  <2>5. CASE Asked(p, "list")'
    BY <2>5 DEF BoardFor
  <2>6. CASE b = a /\ p = r.by
    <3>1. PICK d : Ends(p, down[b], c, d)
      BY <1>9, EndsSome
    <3> QED BY <1>11, <2>6, <3>1
  <2> QED BY <1>1, <1>7, <2>3, <2>4, <2>5, <2>6
<1>15. CASE at[p] = NoAgent
  BY <1>2, <1>15 DEF BoardFor
<1>16. \/ at[p] = NoAgent \/ Asked(p, "add") \/ Asked(p, "list") \/ Coming(p)
       \/ \E d : Ends(p, down[b], c, d) /\ d[2] = TheBoard
  BY <1>7, <1>8 DEF BoardInv, BoardFor
<1> QED BY <1>11, <1>12, <1>13, <1>14, <1>15, <1>16

LEMMA ListViews ==
  ASSUME Base, RoomsOK, ListOK, Len(list) <= PerPage, NEW a \in Agents, Serve(a), Head(up[a]).kind = "list", ViewInv
  PROVE  ViewInv'
<1> SUFFICES ASSUME NEW p \in Players PROVE ViewFor(p)'
  BY DEF ViewInv
<1>1. PICK r : r = Head(up[a])
  OBVIOUS
<1>2. /\ up[a] # <<>> /\ up' = [up EXCEPT ![a] = Tail(@)] /\ r \in Requests
      /\ UNCHANGED <<home, at, side, view, board>>
      /\ ServeList(a, r.by)
  BY <1>1, ServeIs
<1>3. r.by \in Players
  BY <1>2, RequestFields
<1>4. /\ UNCHANGED vars
      /\ \E m \in StrictDown : /\ m.kind = "list_ack" /\ m.to = {r.by} /\ m.page = TheBoard
                               /\ down' = [down EXCEPT ![a] = @ \o <<m>>]
  BY <1>2, <1>3, ListTells
<1>5. PICK m \in StrictDown : /\ m.kind = "list_ack" /\ m.to = {r.by} /\ m.page = TheBoard
                              /\ down' = [down EXCEPT ![a] = @ \o <<m>>]
  BY <1>4
<1>a. SentOne(a, m) /\ m.kind = "list_ack" /\ m.page = TheBoard
  BY <1>5 DEF SentOne
<1>6. PICK b \in Agents : b = home[p]
  BY DEF Base, ClientTypes
<1>7. PICK c \in Clients : c = ClientOf(p)
  BY ClientOfIs
<1>8. c = ClientOf(p)'
  BY <1>2, <1>7 DEF ClientOf
<1>b. ASSUME NEW d, Ends(p, down[b], c, d)
      PROVE  \E t, e : /\ t \in Seq(DownMessages) /\ down'[b] = down[b] \o t
                       /\ Ends(p, down'[b], c, e) /\ e[1] = d[1]
                       /\ b = a /\ p \in m.to => e[2] = TheBoard
                       /\ d[2] = TheBoard => e[2] = TheBoard
  <2>1. ListHeard(a, m, p, b, c, d)
    BY <1>a, <1>b, ListEnds, Zenon
  <2> QED BY <2>1 DEF ListHeard
<1>9. PICK d : Ends(p, down[b], c, d) /\ Sits(p, d[1])
  BY <1>6, <1>7 DEF ViewInv, ViewFor
<1>10. PICK e : Ends(p, down'[b], c, e) /\ e[1] = d[1]
  BY <1>9, <1>b
<1>11. Asked(p, "del") => Asked(p, "del")'
  <2>1. Asked(p, "del") => Asked(p, "del")' \/ r.kind = "del"
    BY <1>1, <1>2, AskedLess
  <2> QED BY <1>1, <2>1
<1>12. PICK v : v = d[1]
  OBVIOUS
<1>13. Sits(p, v)'
  BY <1>4, <1>9, <1>11, <1>12 DEF Sits, vars
<1>14. Sits(p, e[1])'
  BY <1>10, <1>12, <1>13 DEF Sits
<1> QED BY <1>2, <1>6, <1>8, <1>10, <1>14, ViewEnds

LEMMA ListStrict ==
  ASSUME Base, RoomsOK, ListOK, Len(list) <= PerPage, NEW a \in Agents, NEW p \in Players, ServeList(a, p),
         StrictWires, board' = board
  PROVE  StrictWires'
<1>1. PICK m \in StrictDown : down' = [down EXCEPT ![a] = @ \o <<m>>]
  <2>1. \E m \in StrictDown : /\ m.kind = "list_ack" /\ m.to = {p} /\ m.page = TheBoard
                              /\ down' = [down EXCEPT ![a] = @ \o <<m>>]
    BY ListTells
  <2> QED BY <2>1
<1> SUFFICES ASSUME NEW b \in Agents PROVE Strictly(down'[b])
  BY DEF StrictWires, Strictly
<1>2. down \in [Agents -> Seq(DownMessages)] /\ Strictly(down[b]) /\ Strictly(down[a])
  BY DEF Base, WireTypes, StrictWires
<1>3. Strictly(<<m>>) /\ <<m>> \in Seq(DownMessages)
  BY StrictOne
<1>4. CASE b = a
  <2>1. PICK q \in Seq(DownMessages) : q = down[a]
    BY <1>2
  <2>2. PICK t \in Seq(DownMessages) : t = <<m>>
    BY <1>3
  <2>3. Strictly(q \o t)
    BY <1>2, <1>3, <2>1, <2>2, StrictJoin
  <2>4. down'[b] = q \o t
    BY <1>1, <1>2, <1>4, <2>1, <2>2
  <2> QED BY <2>3, <2>4
<1>5. CASE b # a
  BY <1>1, <1>2, <1>5
<1> QED BY <1>4, <1>5

(***************************************************************************)
(* ... while the agents pass on what they are sent, ...                    *)
(***************************************************************************)

LEMMA DeliveredIs ==
  ASSUME Base, NEW a \in Agents, NEW m, DeliverTo(Local(a, m), m), NEW p \in Players
  PROVE  /\ at[p] = a => ClientOf(p)' = Hears(p, ClientOf(p), m)
         /\ at[p] # a => ClientOf(p)' = ClientOf(p)
         /\ p \notin m.to => ClientOf(p)' = ClientOf(p)
<1>1. /\ view'[p] = IF p \in Local(a, m) THEN Seen(p, view[p], m) ELSE view[p]
      /\ board'[p] = IF p \in Local(a, m) THEN Listed(board[p], m) ELSE board[p]
  BY DEF DeliverTo
<1>2. p \in Local(a, m) <=> (p \in m.to /\ at[p] = a)
  BY DEF Local
<1>3. CASE p \in Local(a, m)
  BY <1>1, <1>2, <1>3 DEF ClientOf, Hears
<1>4. CASE p \notin Local(a, m)
  BY <1>1, <1>2, <1>4 DEF ClientOf, Hears
<1> QED BY <1>3, <1>4

(* The head of the queue of b is taken. *)
LEMMA HeadBoard ==
  ASSUME Base, NEW a \in Agents, FromServer(a), NEW m, m = Head(down[a]), NEW p \in Players, at[p] \in {home[p], NoAgent},
         BoardFor(p)
  PROVE  BoardFor(p)'
<1>1. /\ down[a] # <<>> /\ down' = [down EXCEPT ![a] = Tail(@)] /\ m \in DownMessages
      /\ UNCHANGED <<vars, home, at>>
      /\ DeliverTo(Local(a, m), m)
      /\ up' = IF m.kind = "add_ack"
               THEN [up EXCEPT ![a] = @ \o SetToSeq({Req("list", q) : q \in Local(a, m)})]
               ELSE up
  BY FromServerIs
<1>2. TheBoard' = TheBoard
  BY <1>1 DEF vars, TheBoard, BoardOf
<1>3. CASE at[p] = NoAgent
  BY <1>1, <1>3 DEF BoardFor
<1>4. PICK b \in Agents : b = home[p]
  BY DEF Base, ClientTypes
<1>5. PICK c \in Clients : c = ClientOf(p)
  BY ClientOfIs
<1>6. PICK q \in Seq(DownMessages) : q = down[b]
  BY DEF Base, WireTypes
<1>7. /\ b = a => q # <<>> /\ m = Head(q) /\ down'[b] = Tail(q)
      /\ b # a => down'[b] = q
  BY <1>1, <1>6 DEF Base, WireTypes
<1>8. ASSUME at[p] # NoAgent PROVE ClientOf(p)' = IF b = a THEN Hears(p, c, m) ELSE c
  <2>1. at[p] = b
    BY <1>4, <1>8
  <2> QED BY <1>1, <1>5, <2>1, DeliveredIs
<1>9. ASSUME NEW k, Asked(p, k) PROVE Asked(p, k)'
  <2>1. CASE m.kind = "add_ack"
    <3>1. PICK t \in Seq(Requests) : t = SetToSeq({Req("list", x) : x \in Local(a, m)})
      <4>1. SetToSeq({Req("list", x) : x \in Local(a, m)}) \in Seq(Requests)
        BY <1>1, <2>1, AsksForList
      <4> QED BY <4>1
    <3>2. up' = [up EXCEPT ![a] = @ \o t]
      BY <1>1, <2>1, <3>1
    <3> QED BY <1>1, <1>9, <3>2, AskedMore
  <2>2. CASE m.kind # "add_ack"
    BY <1>1, <1>9, <2>2, AskedSame
  <2> QED BY <2>1, <2>2
<1>10. ASSUME Coming(p), at[p] # NoAgent PROVE BoardFor(p)'
  <2>1. CASE b # a
    BY <1>1, <1>4, <1>6, <1>7, <1>10, <2>1 DEF BoardFor, Coming
  <2>2. CASE b = a
    <3>1. Coming(p)' \/ (Head(q).kind = "add_ack" /\ p \in Head(q).to)
      BY <1>1, <1>4, <1>6, <1>7, <1>10, <2>2, ComingLess
    <3>2. ASSUME m.kind = "add_ack", p \in m.to PROVE Asked(p, "list")'
      <4>1. PICK t : t = AsksOf(a, m)
        OBVIOUS
      <4>2. /\ t \in Seq(Requests)
            /\ \A x \in Local(a, m) : \E i \in DOMAIN t : t[i].by = x /\ t[i].kind = "list"
        <5>1. m \in DownMessages /\ m.kind = "add_ack"
          BY <1>1, <3>2
        <5> QED BY <1>1, <4>1, <5>1, ListAsked
      <4>3. p \in Local(a, m)
        BY <1>4, <1>10, <2>2, <3>2 DEF Local
      <4>5. up' = [up EXCEPT ![a] = @ \o t]
        BY <1>1, <3>2, <4>1 DEF AsksOf
      <4>6. PICK k : k = "list"
        OBVIOUS
      <4>4. \E i \in DOMAIN t : t[i].by = p /\ t[i].kind = k
        BY <4>2, <4>3, <4>6
      <4>7. a = home[p] /\ home' = home
        BY <1>1, <1>4, <2>2
      <4>8. Asked(p, k)'
        BY <4>2, <4>4, <4>5, <4>7, AskedMore
      <4> QED BY <4>6, <4>8 DEF Asked
    <3> QED BY <1>7, <2>2, <3>1, <3>2 DEF BoardFor
  <2> QED BY <2>1, <2>2
<1>11. ASSUME NEW d, Ends(p, q, c, d), d[2] = TheBoard, at[p] # NoAgent PROVE BoardFor(p)'
  <2>1. PICK y : y = ClientOf(p)'
    OBVIOUS
  <2>2. CASE b # a
    BY <1>1, <1>2, <1>4, <1>7, <1>8, <1>11, <2>2, BoardEnds
  <2>3. CASE b = a
    <3>1. PICK z : z = Tail(q)
      OBVIOUS
    <3>2. Ends(p, z, Hears(p, c, Head(q)), d)
      BY <1>7, <1>11, <2>3, <3>1, EndsTail
    <3>3. y = Hears(p, c, Head(q))
      BY <1>7, <1>8, <1>11, <2>1, <2>3
    <3>4. Ends(p, z, y, d) /\ down'[b] = z
      BY <1>7, <2>3, <3>1, <3>2, <3>3
    <3> QED BY <1>1, <1>2, <1>4, <1>11, <2>1, <3>4, BoardEnds
  <2> QED BY <2>2, <2>3
<1>12. \/ at[p] = NoAgent \/ Asked(p, "add") \/ Asked(p, "list") \/ Coming(p)
       \/ \E d : Ends(p, q, c, d) /\ d[2] = TheBoard
  BY <1>4, <1>5, <1>6 DEF BoardFor
<1>13. Asked(p, "add")' \/ Asked(p, "list")' => BoardFor(p)'
  BY DEF BoardFor
<1> QED BY <1>3, <1>9, <1>10, <1>11, <1>12, <1>13

LEMMA HeadView ==
  ASSUME OneAgent, OneWires, Base, Away, WordsInv, NEW a \in Agents, FromServer(a), NEW m, m = Head(down[a]),
         NEW p \in Players, at[p] \in {home[p], NoAgent}, ViewFor(p)
  PROVE  ViewFor(p)'
<1>1. /\ down[a] # <<>> /\ down' = [down EXCEPT ![a] = Tail(@)] /\ m \in DownMessages
      /\ UNCHANGED <<vars, home, at>>
      /\ DeliverTo(Local(a, m), m)
      /\ up' = IF m.kind = "add_ack"
               THEN [up EXCEPT ![a] = @ \o SetToSeq({Req("list", q) : q \in Local(a, m)})]
               ELSE up
  BY FromServerIs
<1>2. home[p] = a
  BY <1>1 DEF OneWires
<1>3. PICK c \in Clients : c = ClientOf(p) /\ c[1] = view[p]
  BY ClientOfIs
<1>4. PICK q \in Seq(DownMessages) : q = down[a]
  BY DEF Base, WireTypes
<1>5. q # <<>> /\ m = Head(q) /\ down'[a] = Tail(q)
  BY <1>1, <1>4 DEF Base, WireTypes
<1>6. PICK d : Ends(p, q, c, d) /\ Sits(p, d[1])
  BY <1>2, <1>3, <1>4 DEF ViewFor
<1>7. PICK z \in Seq(DownMessages) : z = Tail(q)
  BY <1>5, HeadIn
<1>8. PICK h : h = Hears(p, c, m)
  OBVIOUS
<1>9. Ends(p, z, h, d)
  BY <1>5, <1>6, <1>7, <1>8, EndsTail
<1>10. Asked(p, "del") => Asked(p, "del")'
  <2>1. PICK k : k = "del"
    OBVIOUS
  <2>2. CASE m.kind = "add_ack"
    <3>1. PICK t \in Seq(Requests) : t = SetToSeq({Req("list", x) : x \in Local(a, m)})
      <4>1. SetToSeq({Req("list", x) : x \in Local(a, m)}) \in Seq(Requests)
        BY <1>1, <2>2, AsksForList
      <4> QED BY <4>1
    <3>2. up' = [up EXCEPT ![a] = @ \o t]
      BY <1>1, <2>2, <3>1
    <3>3. Asked(p, k) => Asked(p, k)'
      BY <1>1, <3>2, AskedMore
    <3> QED BY <2>1, <3>3 DEF Asked
  <2>3. CASE m.kind # "add_ack"
    BY <1>1, <2>3 DEF Asked
  <2> QED BY <2>2, <2>3
<1>11. PICK v : v = d[1]
  OBVIOUS
<1>12. Sits(p, v) => Sits(p, v)'
  BY <1>1, <1>10 DEF Sits, vars
<1>13. CASE at[p] = a
  <2>1. ClientOf(p)' = h
    BY <1>1, <1>3, <1>8, <1>13, DeliveredIs
  <2>2. Sits(p, d[1])'
    BY <1>6, <1>11, <1>12 DEF Sits
  <2> QED BY <1>1, <1>2, <1>5, <1>7, <1>9, <2>1, <2>2, ViewEnds
<1>14. CASE at[p] # a
  <2>1. ClientOf(p)' = c /\ at[p] = NoAgent
    BY <1>1, <1>2, <1>3, <1>14, DeliveredIs
  <2>2. c[1] = NoView
    BY <1>3, <2>1 DEF Away
  <2>3. PICK e : Ends(p, z, c, e) /\ e[1] \in {NoView, d[1]}
    BY <1>9, <2>2, EndsReset
  <2>4. Sits(p, NoView)
    <3>1. ~Registered(p) \/ Asked(p, "del")
      BY <2>1, HasGone DEF WordsInv
    <3>2. ~Registered(p) => AgreesIn(user, rooms, p, NoView)
      BY StrangerSits DEF Base
    <3> QED BY <3>1, <3>2 DEF Sits
  <2>5. PICK w : w = e[1]
    OBVIOUS
  <2>6. Sits(p, w)
    BY <1>6, <2>3, <2>4, <2>5
  <2>7. Sits(p, w)'
    BY <1>1, <1>10, <2>6 DEF Sits, vars
  <2>8. Sits(p, e[1])'
    BY <2>5, <2>7 DEF Sits
  <2> QED BY <1>1, <1>2, <1>5, <1>7, <2>1, <2>3, <2>8, ViewEnds
<1> QED BY <1>13, <1>14

Knows == BoardInv /\ Away /\ StrictWires /\ (OneAgent => OneWires /\ ViewInv)

(* Nothing that a player will make of its messages has changed. *)
LEMMA SameBoard ==
  ASSUME NEW p \in Players, UNCHANGED <<home, down, rooms>>, at'[p] = at[p], ClientOf(p)' = ClientOf(p),
         Asked(p, "add") => Asked(p, "add")', Asked(p, "list") => Asked(p, "list")', BoardFor(p)
  PROVE  BoardFor(p)'
<1>1. TheBoard' = TheBoard /\ (Coming(p) => Coming(p)')
  BY DEF TheBoard, BoardOf, Coming
<1>2. PICK c : c = ClientOf(p)
  OBVIOUS
<1>3. PICK b : b = home[p]
  OBVIOUS
<1>4. PICK q : q = down[b]
  OBVIOUS
<1>5. ASSUME NEW d, Ends(p, q, c, d), d[2] = TheBoard, at[p] # NoAgent PROVE BoardFor(p)'
  <2>1. (Ends(p, down[home[p]], ClientOf(p), d) /\ d[2] = TheBoard)'
    BY <1>1, <1>2, <1>3, <1>4, <1>5
  <2> QED BY <2>1 DEF BoardFor
<1>6. at[p] = NoAgent => BoardFor(p)'
  BY DEF BoardFor
<1>7. Coming(p)' \/ Asked(p, "add")' \/ Asked(p, "list")' => BoardFor(p)'
  BY DEF BoardFor
<1>8. \/ at[p] = NoAgent \/ Asked(p, "add") \/ Asked(p, "list") \/ Coming(p)
      \/ \E d : Ends(p, q, c, d) /\ d[2] = TheBoard
  BY <1>2, <1>3, <1>4 DEF BoardFor
<1> QED BY <1>1, <1>5, <1>6, <1>7, <1>8

LEMMA SameView ==
  ASSUME NEW p \in Players, UNCHANGED <<home, down, user, rooms>>, ClientOf(p)' = ClientOf(p),
         Asked(p, "del") => Asked(p, "del")', ViewFor(p)
  PROVE  ViewFor(p)'
<1>1. PICK c : c = ClientOf(p)
  OBVIOUS
<1>2. PICK b : b = home[p]
  OBVIOUS
<1>3. PICK q : q = down[b]
  OBVIOUS
<1>4. PICK d : Ends(p, q, c, d) /\ Sits(p, d[1])
  BY <1>1, <1>2, <1>3 DEF ViewFor
<1>5. Sits(p, d[1])'
  BY <1>4 DEF Sits
<1>6. down'[b] = q /\ ClientOf(p)' = c
  BY <1>1, <1>3
<1> QED BY <1>2, <1>4, <1>5, <1>6, ViewEnds

(* A notice changes no list of rooms, and chat changes no view. *)
LEMMA TrackedBoard ==
  ASSUME NEW b, NEW m, m.kind \in Tracked
  PROVE  Listed(b, m) = b
BY DEF Tracked, Notices, Listed

LEMMA DeliveredBoard ==
  ASSUME Base, NEW ps, NEW m, m.kind \in Tracked, DeliverTo(ps, m)
  PROVE  board' = board
<1>1. board \in [Players -> LoosePage]
  BY DEF Base, ClientTypes
<1>2. board' = [p \in Players |-> IF p \in ps THEN Listed(board[p], m) ELSE board[p]]
  BY DEF DeliverTo
<1>3. \A p \in Players : board'[p] = board[p]
  BY <1>2, TrackedBoard
<1> QED BY <1>1, <1>2, <1>3

LEMMA OneStays == ASSUME home' = home PROVE OneAgent' <=> OneAgent
BY DEF OneAgent

LEMMA AwayStays ==
  ASSUME Base, Away, NEW a \in Agents, NEW m, DeliverTo(Local(a, m), m), at' = at
  PROVE  Away'
<1> SUFFICES ASSUME NEW p \in Players, at[p] = NoAgent PROVE view'[p] = NoView
  BY DEF Away
<1>1. p \notin Local(a, m)
  BY RelayAssumption DEF Local
<1>2. view'[p] = view[p]
  BY <1>1 DEF DeliverTo
<1> QED BY <1>2 DEF Away

LEMMA KnowsFromServer ==
  ASSUME Base, RegInv, WordsInv, Knows, NEW a \in Agents, FromServer(a)
  PROVE  Knows'
<1>0. PICK m : m = Head(down[a])
  OBVIOUS
<1>1. /\ down[a] # <<>> /\ down' = [down EXCEPT ![a] = Tail(@)] /\ m \in DownMessages
      /\ UNCHANGED <<home, at>>
      /\ DeliverTo(Local(a, m), m)
      /\ \/ m.kind \notin Tracked /\ side' = side
         \/ m.kind \in Tracked /\ PassedOn(a, m)
         \/ m.kind \in Tracked /\ side' = side /\ m.to \subseteq Local(a, m)
  BY <1>0, FromServerIs
<1>2. BoardInv'
  <2>1. \A p \in Players : at[p] \in {home[p], NoAgent}
    BY DEF RegInv, RegOf, AtHome
  <2> QED BY <1>0, <2>1, HeadBoard DEF Knows, BoardInv
<1>3. Away'
  BY <1>1, AwayStays DEF Knows
<1>4. StrictWires'
  <2>1. down[a] \in Seq(DownMessages) /\ Strictly(down[a])
    BY DEF Base, WireTypes, Knows, StrictWires
  <2>2. PICK q \in Seq(DownMessages) : q = down[a]
    BY <2>1
  <2>3. q # <<>> /\ Head(q) = m
    BY <1>0, <1>1, <2>2
  <2>4. m \in StrictDown
    <3>1. 1 \in DOMAIN q /\ q[1] = Head(q)
      BY <2>3, HeadIn
    <3> QED BY <2>1, <2>2, <2>3, <3>1 DEF Strictly
  <2>5. Strictly(Tail(q))
    <3>1. ASSUME NEW i \in DOMAIN Tail(q) PROVE Tail(q)[i] \in StrictDown
      <4>1. i + 1 \in DOMAIN q /\ Tail(q)[i] = q[i + 1]
        BY <2>3, TailIn
      <4> QED BY <2>1, <2>2, <4>1 DEF Strictly
    <3> QED BY <3>1 DEF Strictly
  <2>6. \A b \in Agents : Strictly(down'[b])
    BY <1>1, <2>2, <2>5 DEF Base, WireTypes, Knows, StrictWires
  <2>7. board' \in [Players -> StrictPage]
    <3>1. \A p \in Players : board[p] \in StrictPage
      BY DEF Knows, StrictWires
    <3>2. \A p \in Players : (IF p \in Local(a, m) THEN Listed(board[p], m) ELSE board[p]) \in StrictPage
      BY <2>4, <3>1, ListedStrict
    <3>3. board' = [p \in Players |-> IF p \in Local(a, m) THEN Listed(board[p], m) ELSE board[p]]
      BY <1>1 DEF DeliverTo
    <3> QED BY <3>2, <3>3
  <2>8. Strictly(down[a])' = Strictly(down'[a])
    BY DEF Strictly
  <2> QED BY <2>6, <2>7 DEF StrictWires, Strictly
<1>5. ASSUME OneAgent PROVE OneWires' /\ ViewInv'
  <2>1. OneWires /\ ViewInv
    BY <1>5 DEF Knows
  <2>2. \A p \in Players : home[p] = a
    BY <1>1, <2>1 DEF OneWires
  <2>3. \A b \in Agents \ {a} : down'[b] = down[b]
    BY <1>1 DEF Base, WireTypes
  <2>4. ASSUME NEW p \in Players, NEW b \in Agents PROVE side'[<<b, home[p]>>] = side[<<b, home[p]>>]
    <3>1. CASE PassedOn(a, m)
      <4>1. <<b, a>> \in Agents \X Agents /\ <<b, a>>[2] = a
        OBVIOUS
      <4>2. side'[<<b, a>>] = side[<<b, a>>]
        BY <3>1, <4>1 DEF PassedOn
      <4> QED BY <2>2, <4>2
    <3> QED BY <1>1, <3>1
  <2>5. OneWires'
    BY <1>1, <2>1, <2>2, <2>3, <2>4 DEF OneWires
  <2>6. ViewInv'
    <3>1. Away
      BY DEF Knows
    <3>2. \A p \in Players : at[p] \in {home[p], NoAgent}
      BY DEF RegInv, RegOf, AtHome
    <3> QED BY <1>0, <1>5, <2>1, <3>1, <3>2, HeadView DEF ViewInv
  <2> QED BY <2>5, <2>6
<1> QED BY <1>1, <1>2, <1>3, <1>4, <1>5, OneStays DEF Knows

LEMMA KnowsFromAgent ==
  ASSUME Base, RegInv, Knows, NEW ba \in Agents \X Agents, FromAgent(ba[1], ba[2])
  PROVE  Knows'
<1>0. PICK m : m = Head(side[ba])
  OBVIOUS
<1> PICK a \in Agents : a = ba[2]
  OBVIOUS
<1> PICK o \in Agents : o = ba[1]
  OBVIOUS
<1>a. ba = <<o, a>>
  OBVIOUS
<1>1. /\ side[ba] # <<>> /\ side' = [side EXCEPT ![ba] = Tail(@)]
      /\ DeliverTo(Local(a, m), m)
      /\ UNCHANGED <<vars, home, at, up, down>>
  BY <1>0, <1>a DEF FromAgent
<1>2. m \in SideMessages /\ m.kind \in Tracked
  <2>1. side[ba] \in Seq(SideMessages)
    BY DEF Base, WireTypes
  <2>2. m \in SideMessages
    BY <1>0, <1>1, <2>1, HeadIn
  <2> QED BY <2>2 DEF SideMessages
<1>3. board' = board
  BY <1>1, <1>2, DeliveredBoard
<1>4. Away'
  BY <1>1, AwayStays DEF Knows
<1>5. StrictWires'
  BY <1>1, <1>3 DEF Knows, StrictWires, Strictly
<1>6. UNCHANGED <<home, down, user, rooms>> /\ TheBoard' = TheBoard
  BY <1>1 DEF vars, TheBoard, BoardOf
<1>7. BoardInv'
  <2> SUFFICES ASSUME NEW p \in Players PROVE BoardFor(p)'
    BY DEF BoardInv
  <2>1. BoardFor(p)
    BY DEF Knows, BoardInv
  <2>2. PICK c \in Clients : c = ClientOf(p) /\ c[2] = board[p]
    BY ClientOfIs
  <2>3. PICK x : x = ClientOf(p)' /\ x[2] = board[p] /\ x \in Clients
    <3>1. m \in Messages
      BY <1>2 DEF SideMessages
    <3>2. view' \in [Players -> Views]
      BY <1>1, <3>1, DeliverTypes
    <3>3. board[p] \in LoosePage
      BY DEF Base, ClientTypes
    <3>4. ClientOf(p)' = <<view'[p], board[p]>>
      BY <1>3 DEF ClientOf
    <3>5. PICK x : x = <<view'[p], board[p]>>
      OBVIOUS
    <3>6. view'[p] \in Views
      BY <3>2
    <3>7. x[2] = board[p] /\ x \in Clients
      BY <3>3, <3>5, <3>6 DEF Clients
    <3> QED BY <3>4, <3>5, <3>7
  <2>4. PICK b \in Agents : b = home[p]
    BY DEF Base, ClientTypes
  <2>5. PICK q \in Seq(DownMessages) : q = down[b]
    BY DEF Base, WireTypes
  <2>6. ASSUME NEW d, Ends(p, q, c, d), d[2] = TheBoard PROVE BoardFor(p)'
    <3>1. PICK e : Ends(p, q, x, e) /\ e[2] = d[2]
      BY <2>2, <2>3, <2>6, EndsSameBoard
    <3>2. down'[b] = q /\ e[2] = TheBoard'
      BY <1>1, <1>6, <2>5, <2>6, <3>1
    <3> QED BY <1>1, <2>3, <2>4, <3>1, <3>2, BoardEnds
  <2>7. \/ at[p] = NoAgent \/ Asked(p, "add") \/ Asked(p, "list") \/ Coming(p)
        \/ \E d : Ends(p, q, c, d) /\ d[2] = TheBoard
    BY <2>1, <2>2, <2>4, <2>5 DEF BoardFor
  <2>8. at[p] = NoAgent \/ Asked(p, "add") \/ Asked(p, "list") \/ Coming(p) => BoardFor(p)'
    BY <1>1 DEF BoardFor, Asked, Coming
  <2> QED BY <2>6, <2>7, <2>8
<1>8. ASSUME OneAgent PROVE OneWires' /\ ViewInv'
  <2>1. OneWires /\ ViewInv
    BY <1>8 DEF Knows
  <2>2. \A p \in Players : home[p] # a
    BY <1>1, <1>a, <2>1 DEF OneWires
  <2>3. OneWires'
    BY <1>1, <1>a, <2>1, <2>2 DEF OneWires
  <2>4. ASSUME NEW p \in Players PROVE ViewFor(p)'
    <3>1. at[p] # a
      BY <2>2, RelayAssumption DEF RegInv, RegOf, AtHome
    <3>2. ClientOf(p)' = ClientOf(p)
      BY <1>1, <3>1, DeliveredIs
    <3>3. Asked(p, "del") => Asked(p, "del")'
      BY <1>1 DEF Asked
    <3> QED BY <1>6, <2>1, <3>2, <3>3, SameView DEF ViewInv
  <2> QED BY <2>3, <2>4 DEF ViewInv
<1> QED BY <1>1, <1>4, <1>5, <1>7, <1>8, OneStays DEF Knows

(***************************************************************************)
(* ... and while the players come, go and ask.                             *)
(***************************************************************************)

(* Players ask for more; nothing else changes. *)
LEMMA KnowsMore ==
  ASSUME Base, Knows, UNCHANGED <<vars, home, at, down, view, board>>,
         side' = side \/ (\E a \in Agents, m \in SideMessages : PassedOn(a, m) /\ \A p \in Players : OneAgent => home[p] = a),
         \/ up' = up
         \/ \E a \in Agents : \E t \in Seq(Requests) : up' = [up EXCEPT ![a] = @ \o t]
  PROVE  Knows'
<1>1. ASSUME NEW p \in Players, NEW k PROVE Asked(p, k) => Asked(p, k)'
  BY <1>1, AskedMore, AskedSame
<1>2. UNCHANGED <<home, down, rooms>> /\ UNCHANGED <<home, down, user, rooms>>
  BY DEF vars
<1>3. \A p \in Players : ClientOf(p)' = ClientOf(p)
  BY DEF ClientOf
<1>4. BoardInv'
  <2> SUFFICES ASSUME NEW p \in Players PROVE BoardFor(p)'
    BY DEF BoardInv
  <2>1. Asked(p, "add") => Asked(p, "add")'
    BY <1>1
  <2>2. Asked(p, "list") => Asked(p, "list")'
    BY <1>1
  <2> QED BY <1>2, <1>3, <2>1, <2>2, SameBoard DEF Knows, BoardInv
<1>5. Away' /\ StrictWires'
  BY DEF Knows, Away, StrictWires, Strictly
<1>6. ASSUME OneAgent PROVE OneWires' /\ ViewInv'
  <2>1. OneWires /\ ViewInv
    BY <1>6 DEF Knows
  <2>2. ASSUME NEW p \in Players, NEW b \in Agents PROVE side'[<<b, home[p]>>] = side[<<b, home[p]>>]
    <3>1. CASE side' = side
      BY <3>1
    <3>2. ASSUME NEW a \in Agents, NEW m \in SideMessages, PassedOn(a, m), home[p] = a
          PROVE  side'[<<b, home[p]>>] = side[<<b, home[p]>>]
      <4>1. <<b, a>> \in Agents \X Agents /\ <<b, a>>[2] = a
        OBVIOUS
      <4>2. side'[<<b, a>>] = side[<<b, a>>]
        BY <3>2, <4>1 DEF PassedOn
      <4> QED BY <3>2, <4>2
    <3> QED BY <1>6, <3>1, <3>2
  <2>3. OneWires'
    BY <2>1, <2>2 DEF OneWires
  <2>4. ASSUME NEW p \in Players PROVE ViewFor(p)'
    <3>1. Asked(p, "del") => Asked(p, "del")'
      BY <1>1
    <3> QED BY <1>2, <1>3, <2>1, <3>1, SameView DEF ViewInv
  <2> QED BY <2>3, <2>4 DEF ViewInv
<1> QED BY <1>4, <1>5, <1>6, OneStays DEF Knows

LEMMA KnowsChat ==
  ASSUME Base, RegInv, Knows, NEW p \in Players, Chat(p)
  PROVE  Knows'
<1>0. PICK m : m = Notice("chat", view[p].members, p)
  OBVIOUS
<1>1. /\ at[p] \in Agents /\ m \in SideMessages /\ m.kind \in Tracked
      /\ DeliverTo(Local(at[p], m), m) /\ PassedOn(at[p], m)
      /\ UNCHANGED <<vars, home, at, up, down>>
  BY <1>0, ChatIs
<1>2. board' = board
  BY <1>1, DeliveredBoard
<1>3. m \in Messages /\ m.kind = "chat"
  <2>1. m.kind = "chat"
    BY <1>0 DEF Notice, Msg
  <2> QED BY <1>1, <2>1 DEF SideMessages
<1>4. view' = view
  <2>1. view \in [Players -> Views]
    BY DEF Base, ClientTypes
  <2>2. ASSUME NEW q \in Players PROVE Seen(q, view[q], m) = view[q]
    <3>1. view[q] \in Views
      BY <2>1
    <3>2. PICK v \in Views : v = view[q]
      BY <3>1
    <3>3. Seen(q, v, m) = v
      BY <1>3 DEF Seen
    <3> QED BY <3>2, <3>3
  <2>3. view' = [q \in Players |-> IF q \in Local(at[p], m) THEN Seen(q, view[q], m) ELSE view[q]]
    BY <1>1 DEF DeliverTo
  <2>4. \A q \in Players : view'[q] = view[q]
    BY <2>2, <2>3
  <2> QED BY <2>1, <2>3, <2>4
<1>5. ASSUME NEW q \in Players, OneAgent PROVE home[q] = at[p]
  BY <1>1, <1>5, RelayAssumption DEF RegInv, RegOf, AtHome, OneAgent
<1>6. \E a \in Agents, x \in SideMessages : PassedOn(a, x) /\ \A q \in Players : OneAgent => home[q] = a
  BY <1>1, <1>5
<1>7. UNCHANGED <<vars, home, at, down, view, board>> /\ up' = up
  BY <1>1, <1>2, <1>4
<1> QED BY <1>6, <1>7, KnowsMore

LEMMA KnowsOneMore ==
  ASSUME Base, Knows, UNCHANGED <<vars, home, at, down, side, view, board>>,
         NEW a \in Agents, NEW m \in Requests, up' = [up EXCEPT ![a] = Append(@, m)]
  PROVE  Knows'
<1>1. up[a] \in Seq(Requests)
  BY DEF Base, WireTypes
<1>2. PICK t \in Seq(Requests) : t = <<m>>
  BY <1>1, AppendIs
<1>a. Append(up[a], m) = up[a] \o t
  BY <1>1, <1>2, AppendIs
<1>3. \E x \in Seq(Requests) : up' = [up EXCEPT ![a] = @ \o x]
  BY <1>a
<1> QED BY <1>3, KnowsMore

LEMMA KnowsAsk ==
  ASSUME Base, Knows, NEW p \in Players, Ask(p)
  PROVE  Knows'
<1>1. UNCHANGED <<vars, home, at, down, side, view, board>>
  BY DEF Ask, clients
<1>2. PICK m \in Requests : at[p] \in Agents /\ up' = [up EXCEPT ![at[p]] = Append(@, m)]
  BY AskIs
<1> QED BY <1>1, <1>2, KnowsOneMore

LEMMA KnowsForce ==
  ASSUME Base, Knows, NEW p \in Players, ForceRegistPlayerToLobby(p)
  PROVE  Knows'
<1>1. UNCHANGED <<vars, home, at, down, side, view, board>>
  BY DEF ForceRegistPlayerToLobby, clients
<1>2. at[p] \in Agents /\ up' = [up EXCEPT ![at[p]] = Append(@, Req("force", p))]
  BY ForceIs
<1>3. PICK m \in Requests : m = Req("force", p)
  BY PlainRequest
<1>4. up' = [up EXCEPT ![at[p]] = Append(@, m)]
  BY <1>2, <1>3
<1> QED BY <1>1, <1>2, <1>4, KnowsOneMore

(* Only whether p is there changes, and what p sees as it goes. *)
LEMMA KnowsOthers ==
  ASSUME Base, Knows, NEW p \in Players, NEW a \in Agents, NEW t \in Seq(Requests),
         up' = [up EXCEPT ![a] = @ \o t], UNCHANGED <<vars, home, down, side>>,
         NEW q \in Players, q # p, at'[q] = at[q], view'[q] = view[q], board'[q] = board[q]
  PROVE  BoardFor(q)' /\ (OneAgent => ViewFor(q)')
<1>1. ASSUME NEW k PROVE Asked(q, k) => Asked(q, k)'
  BY AskedMore
<1>2. UNCHANGED <<home, down, rooms>> /\ UNCHANGED <<home, down, user, rooms>>
  BY DEF vars
<1>3. ClientOf(q)' = ClientOf(q)
  BY DEF ClientOf
<1>4. Asked(q, "add") => Asked(q, "add")'
  BY <1>1
<1>5. Asked(q, "list") => Asked(q, "list")'
  BY <1>1
<1>6. Asked(q, "del") => Asked(q, "del")'
  BY <1>1
<1>7. BoardFor(q)'
  BY <1>2, <1>3, <1>4, <1>5, SameBoard DEF Knows, BoardInv
<1>8. OneAgent => ViewFor(q)'
  BY <1>2, <1>3, <1>6, SameView DEF Knows, ViewInv
<1> QED BY <1>7, <1>8

LEMMA KnowsEnter ==
  ASSUME ~Roams, Base, Knows, NEW p \in Players, Enter(p)
  PROVE  Knows'
<1>1. /\ home[p] \in Agents /\ at[p] = NoAgent /\ at' = [at EXCEPT ![p] = home[p]]
      /\ up' = [up EXCEPT ![home[p]] = Append(@, Req("add", p))]
      /\ UNCHANGED <<vars, home, down, side, view, board>>
      /\ at \in [Players -> Agents \cup {NoAgent}]
  BY DEF Enter, clients, Base, ClientTypes
<1>2. PICK m \in Requests : m = Req("add", p)
  BY PlainRequest
<1>3. m.by = p /\ m.kind = "add"
  BY <1>2 DEF Req
<1>4. up[home[p]] \in Seq(Requests)
  BY <1>1 DEF Base, WireTypes
<1>5. PICK t \in Seq(Requests) : t = <<m>>
  BY <1>4, AppendIs
<1>6. Append(up[home[p]], m) = up[home[p]] \o t /\ 1 \in DOMAIN t /\ t[1] = m
  BY <1>4, <1>5, AppendIs
<1>7. PICK a \in Agents : a = home[p]
  BY <1>1
<1>8. up' = [up EXCEPT ![a] = @ \o t]
  BY <1>1, <1>2, <1>6, <1>7
<1>9. ASSUME NEW q \in Players, q # p PROVE BoardFor(q)' /\ (OneAgent => ViewFor(q)')
  <2>1. at'[q] = at[q] /\ view'[q] = view[q] /\ board'[q] = board[q]
    BY <1>1, <1>9
  <2> QED BY <1>1, <1>8, <1>9, <2>1, KnowsOthers
<1>10. BoardFor(p)'
  <2>1. PICK k : k = "add"
    OBVIOUS
  <2>2. a = home[p] /\ home' = home /\ \E i \in DOMAIN t : t[i].by = p /\ t[i].kind = k
    BY <1>1, <1>3, <1>6, <1>7, <2>1
  <2>3. Asked(p, k)'
    BY <1>8, <2>2, AskedMore
  <2> QED BY <2>1, <2>3 DEF BoardFor, Asked
<1>11. ASSUME OneAgent PROVE ViewFor(p)'
  <2>1. PICK k : k = "del"
    OBVIOUS
  <2>2. Asked(p, k) => Asked(p, k)'
    BY <1>1, <1>8, AskedMore
  <2>3. Asked(p, "del") => Asked(p, "del")'
    BY <2>1, <2>2 DEF Asked
  <2>4. UNCHANGED <<home, down, user, rooms>>
    BY <1>1 DEF vars
  <2>5. ClientOf(p)' = ClientOf(p)
    BY <1>1 DEF ClientOf
  <2> QED BY <1>11, <2>3, <2>4, <2>5, SameView DEF Knows, ViewInv
<1>12. Away'
  BY <1>1 DEF Knows, Away
<1>13. StrictWires'
  BY <1>1 DEF Knows, StrictWires, Strictly
<1>14. OneAgent => OneWires'
  BY <1>1 DEF Knows, OneWires
<1> QED BY <1>1, <1>9, <1>10, <1>11, <1>12, <1>13, <1>14, OneStays DEF Knows, BoardInv, ViewInv

LEMMA KnowsLeave ==
  ASSUME Base, RegInv, Knows, NEW p \in Players, Leave(p)
  PROVE  Knows'
<1>1. /\ at[p] \in Agents /\ at' = [at EXCEPT ![p] = NoAgent]
      /\ view' = [view EXCEPT ![p] = NoView] /\ board' = [board EXCEPT ![p] = NoPage]
      /\ UNCHANGED <<vars, home, down, side>>
      /\ at \in [Players -> Agents \cup {NoAgent}] /\ view \in [Players -> Views] /\ board \in [Players -> LoosePage]
  BY LeaveIs DEF Leave, Base, ClientTypes
<1>2. at[p] = home[p] /\ home[p] \in Agents
  BY <1>1, RelayAssumption DEF RegInv, RegOf, AtHome
<1>3. PICK n \in {1, 3} : up' = [up EXCEPT ![at[p]] = @ \o [k \in 1..n |-> Req("del", p)]]
  BY LeaveIs
<1>4. PICK m \in Requests : m = Req("del", p)
  BY PlainRequest
<1>5. m.by = p /\ m.kind = "del"
  BY <1>4 DEF Req
<1>6. PICK t \in Seq(Requests) : t = [k \in 1..n |-> m]
  <2>1. n \in Nat
    OBVIOUS
  <2>2. [k \in 1..n |-> m] \in Seq(Requests)
    BY <2>1
  <2> QED BY <2>2
<1>7. 1 \in DOMAIN t /\ t[1] = m
  BY <1>6
<1>a. PICK a \in Agents : a = home[p]
  BY <1>2
<1>8. up' = [up EXCEPT ![a] = @ \o t]
  BY <1>2, <1>3, <1>4, <1>6, <1>a
<1>9. ASSUME NEW q \in Players, q # p PROVE BoardFor(q)' /\ (OneAgent => ViewFor(q)')
  <2>1. at'[q] = at[q] /\ view'[q] = view[q] /\ board'[q] = board[q]
    BY <1>1, <1>9
  <2> QED BY <1>1, <1>8, <1>9, <2>1, KnowsOthers
<1>10. at'[p] = NoAgent /\ view'[p] = NoView /\ board'[p] = NoPage
  BY <1>1
<1>11. BoardFor(p)'
  BY <1>10 DEF BoardFor
<1>12. ASSUME OneAgent PROVE ViewFor(p)'
  <2>1. ViewFor(p)
    BY <1>12 DEF Knows, ViewInv
  <2>2. PICK q \in Seq(DownMessages) : q = down[a]
    BY DEF Base, WireTypes
  <2>3. PICK c : c = ClientOf(p)
    OBVIOUS
  <2>4. PICK d : Ends(p, q, c, d) /\ Sits(p, d[1])
    BY <1>a, <2>1, <2>2, <2>3 DEF ViewFor
  <2>5. PICK x : x = <<NoView, NoPage>>
    OBVIOUS
  <2>6. x \in Clients /\ x[1] = NoView /\ ClientOf(p)' = x
    BY <1>10, <2>5, NoViewIs, NoPageType DEF Clients, ClientOf
  <2>7. PICK e : Ends(p, q, x, e) /\ e[1] \in {NoView, d[1]}
    BY <2>4, <2>6, EndsReset
  <2>8. Asked(p, "del")'
    <3>1. PICK k : k = "del"
      OBVIOUS
    <3>2. a = home[p] /\ home' = home /\ \E i \in DOMAIN t : t[i].by = p /\ t[i].kind = k
      BY <1>1, <1>5, <1>7, <1>a, <3>1
    <3>3. Asked(p, k)'
      BY <1>8, <3>2, AskedMore
    <3> QED BY <3>1, <3>3 DEF Asked
  <2>9. PICK v : v = e[1]
    OBVIOUS
  <2>10. user' = user /\ rooms' = rooms
    BY <1>1 DEF vars
  <2>11. Sits(p, v)'
    <3>1. CASE v = NoView
      BY <2>8, <3>1 DEF Sits
    <3>2. CASE v = d[1]
      BY <2>4, <2>8, <2>10, <3>2 DEF Sits
    <3> QED BY <2>7, <2>9, <3>1, <3>2
  <2>12. Sits(p, e[1])'
    BY <2>9, <2>11 DEF Sits
  <2>13. down'[a] = q
    BY <1>1, <2>2
  <2> QED BY <1>1, <1>a, <2>6, <2>7, <2>12, <2>13, ViewEnds
<1>13. Away'
  <2> SUFFICES ASSUME NEW q \in Players, at'[q] = NoAgent PROVE view'[q] = NoView
    BY DEF Away
  <2>1. CASE q = p
    BY <1>10, <2>1
  <2>2. CASE q # p
    BY <1>1, <2>2 DEF Knows, Away
  <2> QED BY <2>1, <2>2
<1>14. StrictWires'
  <2>1. board' \in [Players -> StrictPage]
    BY <1>1, StrictLines DEF Knows, StrictWires
  <2> QED BY <1>1, <2>1 DEF Knows, StrictWires, Strictly
<1>15. OneAgent => OneWires'
  BY <1>1 DEF Knows, OneWires
<1> QED BY <1>1, <1>9, <1>11, <1>12, <1>13, <1>14, <1>15, OneStays DEF Knows, BoardInv, ViewInv

(***************************************************************************)
(* ... and when the server answers one of them.                            *)
(***************************************************************************)

LEMMA KnowsServe ==
  ASSUME Base, Base', RegInv, WordsInv, Knows, RoomsOK, RoomsOK', ListOK, Len(list) <= PerPage, ~Delayed,
         NEW a \in Agents, Serve(a), ~late'
  PROVE  Knows'
<1>1. PICK m : m = Head(up[a])
  OBVIOUS
<1>2. /\ up[a] # <<>> /\ up' = [up EXCEPT ![a] = Tail(@)] /\ m \in Requests
      /\ UNCHANGED <<home, at, side, view, board>>
      /\ m.kind = "list" => ServeList(a, m.by)
  BY <1>1, ServeIs
<1>3. BoardInv /\ Away /\ StrictWires /\ (OneAgent => OneWires /\ ViewInv)
  BY DEF Knows
<1>4. Away'
  BY <1>2, <1>3 DEF Away
<1>5. OneAgent' <=> OneAgent
  BY <1>2, OneStays
<1>6. ASSUME OneAgent, NEW p \in Players PROVE home[p] = a
  <2>1. up[a] \in Seq(Requests)
    BY DEF Base, WireTypes
  <2>2. 1 \in DOMAIN up[a] /\ up[a][1] = m
    BY <1>1, <1>2, <2>1, HeadIn
  <2>3. m.by \in Players
    BY <1>2, RequestFields
  <2>4. a = home[m.by]
    BY <2>2, <2>3 DEF WordsInv, WordsOf, Mine
  <2> QED BY <1>6, <2>3, <2>4 DEF OneAgent
<1>7. CASE m.kind = "list"
  <2>1. BoardInv'
    BY <1>1, <1>3, <1>7, ListBoards
  <2>2. m.by \in Players
    BY <1>2, RequestFields
  <2>3. StrictWires'
    BY <1>2, <1>3, <1>7, <2>2, ListStrict
  <2>4. ASSUME OneAgent PROVE OneWires' /\ ViewInv'
    <3>1. OneWires /\ ViewInv
      BY <1>3, <2>4
    <3>2. ViewInv'
      BY <1>1, <1>7, <3>1, ListViews
    <3>3. PICK x \in StrictDown : down' = [down EXCEPT ![a] = @ \o <<x>>]
      BY <1>2, <1>7, <2>2, ListTells
    <3>4. \A b \in Agents \ {a} : down'[b] = down[b]
      BY <3>3 DEF Base, WireTypes
    <3>5. OneWires'
      BY <1>2, <1>6, <2>4, <3>1, <3>4 DEF OneWires
    <3> QED BY <3>2, <3>5
  <2> QED BY <1>4, <1>5, <2>1, <2>3, <2>4 DEF Knows
<1>8. CASE m.kind # "list"
  <2>1. Tells(a)
    BY <1>1, <1>8, ServedTells
  <2>2. BoardInv'
    BY <1>1, <1>3, <1>8, <2>1, TellsBoards
  <2>3. StrictWires'
    BY <1>2, <1>3, <2>1, TellsStrict
  <2>4. ASSUME OneAgent PROVE OneWires' /\ ViewInv'
    <3>1. OneWires /\ ViewInv
      BY <1>3, <2>4
    <3>2. ViewInv'
      BY <2>1, <2>4, <3>1, TellsViews
    <3>3. ASSUME NEW p \in Players, NEW b \in Agents \ {a} PROVE down'[b] = <<>>
      <4>1. down[b] = <<>>
        BY <1>6, <2>4, <3>1, <3>3 DEF OneWires
      <4>2. \A q \in Players : ~(Registered(q) /\ via[q] = b)
        <5> SUFFICES ASSUME NEW q \in Players, Registered(q), via[q] = b PROVE FALSE
          OBVIOUS
        <5>1. via[q] # NoAgent
          BY DEF Base, ClientTypes
        <5>2. via[q] = home[q]
          BY <5>1 DEF RegInv, RegOf, AtHome
        <5> QED BY <1>6, <2>4, <3>3, <5>2
      <4>3. Everybody(b) = {}
        BY <4>2 DEF Everybody
      <4> QED BY <2>1, <4>1, <4>3, TellsElsewhere
    <3>4. OneWires'
      BY <1>2, <1>6, <2>4, <3>1, <3>3 DEF OneWires
    <3> QED BY <3>2, <3>4
  <2> QED BY <1>4, <1>5, <2>2, <2>3, <2>4 DEF Knows
<1> QED BY <1>7, <1>8

LEMMA KnowsSame ==
  ASSUME Base, Knows, UNCHANGED <<vars, relayVars>>
  PROVE  Knows'
<1>1. UNCHANGED <<vars, home, at, down, view, board>> /\ up' = up /\ side' = side
  BY DEF relayVars, wires, clients
<1> QED BY <1>1, KnowsMore

LEMMA KnowsInit ==
  ASSUME RelayInit
  PROVE  Knows
<1>1. /\ user = [p \in Players |-> 0] /\ rooms = [r \in RoomIdx |-> NoRoom]
      /\ home \in [Players -> Agents] /\ at = home
      /\ down = [a \in Agents |-> <<>>] /\ side = [ab \in Agents \X Agents |-> <<>>]
      /\ view = [p \in Players |-> NoView] /\ board = [p \in Players |-> NoPage]
  BY DEF RelayInit
<1>2. TheBoard = NoPage
  BY <1>1 DEF TheBoard, BoardOf, NoPage
<1>3. ASSUME NEW p \in Players
      PROVE  \E d : Ends(p, down[home[p]], ClientOf(p), d) /\ d[1] = NoView /\ d[2] = TheBoard
  <2>1. down[home[p]] = <<>> /\ ClientOf(p) = <<NoView, NoPage>>
    BY <1>1 DEF ClientOf
  <2>2. PICK c : c = <<NoView, NoPage>>
    OBVIOUS
  <2>3. c \in Clients /\ c[1] = NoView /\ c[2] = NoPage
    BY <2>2, NoViewIs, NoPageType DEF Clients
  <2>4. Ends(p, <<>>, c, c)
    BY <2>3, EndsNone
  <2> QED BY <1>2, <2>1, <2>2, <2>3, <2>4
<1>4. BoardInv
  BY <1>3 DEF BoardInv, BoardFor
<1>5. Away
  BY <1>1 DEF Away
<1>6. StrictWires
  <2>1. \A a \in Agents : DOMAIN down[a] = {}
    BY <1>1
  <2>2. NoPage \in StrictPage
    BY StrictLines
  <2> QED BY <1>1, <2>1, <2>2 DEF StrictWires, Strictly
<1>7. OneWires
  BY <1>1 DEF OneWires
<1>8. ViewInv
  <2> SUFFICES ASSUME NEW p \in Players PROVE ViewFor(p)
    BY DEF ViewInv
  <2>1. AgreesIn(user, rooms, p, NoView)
    BY <1>1, ZeroIdx, NoViewIs DEF AgreesIn, IdxIn
  <2>2. PICK d : Ends(p, down[home[p]], ClientOf(p), d) /\ d[1] = NoView
    BY <1>3
  <2>3. Sits(p, d[1])
    BY <2>1, <2>2 DEF Sits
  <2> QED BY <2>2, <2>3 DEF ViewFor
<1> QED BY <1>4, <1>5, <1>6, <1>7, <1>8 DEF Knows

LEMMA RelayWhole ==
  ASSUME RelayInit
  PROVE  Whole
<1>1. 0 \in RoomIdx /\ Absent \notin RoomIdx
  BY ChatAssumption DEF RoomIdx
<1>2. RoomsOK
  BY <1>1 DEF RelayInit, RoomsOK, IsRoom, Seated
<1>3. ListOK
  <2>1. list = <<>> /\ Len(list) = 0 /\ list \in Seq(RoomIdx)
    BY DEF RelayInit
  <2> QED BY <2>1 DEF RelayInit, ListOK, IsRoom
<1>4. TitlesOK
  BY DEF RelayInit, TitlesOK, IsRoom
<1>5. SearchOK
  BY DEF RelayInit, SearchOK
<1>6. MetOK
  BY DEF RelayInit, MetOK
<1> QED BY <1>2, <1>3, <1>4, <1>5, <1>6 DEF Whole

(* Whatever is not too late the distribute server handles as a step of its *)
(* rooms.                                                                  *)
LEMMA GrantedSteps ==
  ASSUME Base, RoomsOK, ~Delayed, NEW a \in Agents, NEW m \in Requests, Granted(a, m), ~TooLate(m)
  PROVE  Next
<1>f. /\ m.by \in Players /\ m.room \in RoomIdx
      /\ m.kind \in {"create", "option"} => m.cap \in Caps
      /\ m.kind \in {"owner", "kick"} => m.who \in Players /\ m.who # m.by
  BY RequestFields
<1>n. ASSUME m.kind \in {"owner", "kick"}, Registered(m.by), Owns(m.by, user[m.by]) PROVE m.who \in Nameable(m.by)
  <2>1. user[m.who] = user[m.by]
    BY <1>n DEF TooLate
  <2>2. user[m.by] # 0
    <3>1. user[m.by] \in RoomIdx /\ rooms[user[m.by]] # NoRoom
      BY <1>f, <1>n DEF Owns, RoomsOK, IsRoom
    <3> QED BY <3>1, GuestsAre
  <2> QED BY <1>f, <1>n, <2>1, <2>2 DEF Nameable
<1>1. ASSUME m.kind = "create", ServeCreate(a, m.by, m.cap) PROVE Request(m.by)
  BY <1>f, <1>1 DEF ServeCreate, Request
<1>2. ASSUME m.kind = "join", ServeJoin(a, m.by, m.room) PROVE Request(m.by)
  BY <1>f, <1>2 DEF ServeJoin, Request
<1>3. ASSUME ServeOut(a, m.by) PROVE Request(m.by)
  BY <1>3 DEF ServeOut, Request
<1>4. ASSUME m.kind = "option", ServeOption(a, m.by, m.cap) PROVE Request(m.by)
  <2>1. OptionSyn(m.by, m.cap, rooms[user[m.by]].type)
    BY <1>4 DEF ServeOption
  <2>2. rooms[user[m.by]].type \in Types
    <3>1. Owns(m.by, user[m.by])
      BY <2>1 DEF OptionSyn
    <3>2. rooms[user[m.by]] \in Room
      BY <1>f, <3>1 DEF Owns, RoomsOK, IsRoom
    <3> QED BY <3>2, RoomFields
  <2> QED BY <1>f, <1>4, <2>1, <2>2 DEF Request
<1>5. ASSUME m.kind = "owner", Registered(m.by), ServeOwner(a, m.by, m.who) PROVE Request(m.by)
  <2>1. Owns(m.by, user[m.by])
    BY <1>5 DEF ServeOwner, OwnerSyn
  <2>2. m.who \in Nameable(m.by)
    BY <1>5, <1>n, <2>1
  <2> QED BY <1>5, <2>2 DEF ServeOwner, Request
<1>6. ASSUME m.kind = "kick", Registered(m.by), ServeKick(a, m.by, m.who) PROVE Request(m.by)
  <2>1. Owns(m.by, user[m.by])
    BY <1>6 DEF ServeKick, KickSyn
  <2>2. m.who \in Nameable(m.by)
    BY <1>6, <1>n, <2>1
  <2> QED BY <1>6, <2>2 DEF ServeKick, Request
<1>7. Request(m.by)
  BY <1>1, <1>2, <1>3, <1>4, <1>5, <1>6 DEF Granted
<1> QED BY <1>f, <1>7 DEF Next

LEMMA ServedSteps ==
  ASSUME Base, RoomsOK, ~Delayed, NEW a \in Agents, Serve(a), ~late'
  PROVE  [Next]_vars
<1> PICK m : m = Head(up[a])
  OBVIOUS
<1>1. m \in Requests
  BY HeadIn DEF Serve, Base, WireTypes
<1>2. m.by \in Players
  BY <1>1, RequestFields
<1>3. ~TooLate(m)
  BY DEF Serve
<1>4. CASE ServeAdd(a, m.by)
  BY <1>2, <1>4 DEF ServeAdd, Next, Registration
<1>5. CASE ServeForce(a, m.by)
  BY <1>2, <1>5 DEF ServeForce, Next, Registration
<1>6. CASE ServeDel(a, m.by)
  BY <1>2, <1>6 DEF ServeDel, Next, Registration
<1>7. CASE ServeList(a, m.by)
  BY <1>7 DEF ServeList
<1>8. CASE Granted(a, m)
  BY <1>1, <1>3, <1>8, GrantedSteps
<1>9. CASE Refused(a, m)
  BY <1>9, RefusedMakes
<1> QED BY <1>4, <1>5, <1>6, <1>7, <1>8, <1>9 DEF Serve

(***************************************************************************)
(* The invariant.  Once a kick or a new owner came too late it says        *)
(* nothing of the rooms any more.                                          *)
(***************************************************************************)

KnowInv ==
  /\ Base /\ NoticeInv /\ RegInv /\ WordsInv
  /\ late \/ (Whole /\ Knows)

LEMMA KnowInit ==
  ASSUME RelayInit
  PROVE  KnowInv
BY BaseInit, NoticeInit, RegInit, WordsInit, RelayWhole, KnowsInit DEF KnowInv

LEMMA OthersLeaveRooms ==
  ASSUME [RelayNext]_<<vars, relayVars>>, \A a \in Agents : ~Serve(a)
  PROVE  UNCHANGED vars /\ late' = late
<1>1. ASSUME NEW a \in Agents, FromServer(a) PROVE UNCHANGED vars /\ late' = late
  BY <1>1 DEF FromServer
<1>2. ASSUME NEW ba \in Agents \X Agents, FromAgent(ba[1], ba[2]) PROVE UNCHANGED vars /\ late' = late
  BY <1>2 DEF FromAgent
<1>3. ASSUME NEW p \in Players, Enter(p) PROVE UNCHANGED vars /\ late' = late
  BY <1>3 DEF Enter
<1>4. ASSUME NEW p \in Players, Leave(p) PROVE UNCHANGED vars /\ late' = late
  BY <1>4 DEF Leave
<1>5. ASSUME NEW p \in Players, Ask(p) PROVE UNCHANGED vars /\ late' = late
  BY <1>5 DEF Ask
<1>6. ASSUME NEW p \in Players, Chat(p) PROVE UNCHANGED vars /\ late' = late
  BY <1>6 DEF Chat
<1>7. ASSUME NEW p \in Players, ForceRegistPlayerToLobby(p) PROVE UNCHANGED vars /\ late' = late
  BY <1>7 DEF ForceRegistPlayerToLobby
<1>8. ASSUME UNCHANGED <<vars, relayVars>> PROVE UNCHANGED vars /\ late' = late
  BY <1>8 DEF relayVars
<1> QED BY <1>1, <1>2, <1>3, <1>4, <1>5, <1>6, <1>7, <1>8 DEF RelayNext

LEMMA KnowNext ==
  ASSUME ~Delayed, ~Roams, KnowInv, late \/ Len(list) <= PerPage, late' \/ RoomLeft,
         [RelayNext]_<<vars, relayVars>>
  PROVE  KnowInv'
<1>1. Base /\ NoticeInv /\ RegInv /\ WordsInv
  BY DEF KnowInv
<1>2. Base' /\ NoticeInv' /\ RegInv' /\ WordsInv'
  BY <1>1, NoticeNext, RegNext, WordsNext
<1>3. ASSUME NEW a \in Agents, Serve(a) PROVE late' \/ (Whole' /\ Knows')
  <2> SUFFICES ASSUME ~late' PROVE Whole' /\ Knows'
    OBVIOUS
  <2>1. ~late
    BY <1>3 DEF Serve
  <2>2. Whole /\ Knows /\ Len(list) <= PerPage /\ RoomLeft
    BY <2>1 DEF KnowInv
  <2>3. RoomsOK /\ ListOK
    BY <2>2 DEF Whole
  <2>4. [Next]_vars
    BY <1>1, <1>3, <2>3, ServedSteps
  <2>5. Whole'
    BY <2>2, <2>4, StepWhole
  <2>6. RoomsOK'
    BY <2>5 DEF Whole
  <2> QED BY <1>1, <1>2, <1>3, <2>2, <2>3, <2>5, <2>6, KnowsServe
<1>4. ASSUME \A a \in Agents : ~Serve(a) PROVE late' \/ (Whole' /\ Knows')
  <2>1. UNCHANGED vars /\ late' = late
    BY <1>4, OthersLeaveRooms
  <2> SUFFICES ASSUME ~late PROVE Whole' /\ Knows'
    BY <2>1
  <2>2. Whole /\ Knows
    BY DEF KnowInv
  <2>3. Whole'
    <3>1. RoomLeft
      BY <2>1 
    <3> QED BY <2>1, <2>2, <3>1, StepWhole
  <2>4. Knows'
    BY <1>1, <1>4, <2>2, KnowsFromServer, KnowsFromAgent, KnowsChat, KnowsAsk, KnowsForce, KnowsEnter, KnowsLeave, KnowsSame
       DEF RelayNext
  <2> QED BY <2>3, <2>4
<1> QED BY <1>2, <1>3, <1>4 DEF KnowInv

(* When nothing is under way clients know what they will know. *)
LEMMA EndsNoneIs ==
  ASSUME NEW p, NEW c, NEW d, Ends(p, <<>>, c, d)
  PROVE  d = c
<1>1. PICK h : Hearing(p, <<>>, c, h) /\ d = h[Len(<<>>)]
  BY DEF Ends
<1>2. Len(<<>>) = 0 /\ h[0] = c
  BY <1>1 DEF Hearing
<1> QED BY <1>1, <1>2

LEMMA KnowEnough ==
  ASSUME KnowInv
  PROVE  ClientsKnow
<1>1. Base /\ RegInv
  BY DEF KnowInv
<1>2. \A p \in Players : home[p] \in Agents /\ (via[p] # NoAgent <=> Registered(p))
  BY <1>1 DEF Base, ClientTypes
<1>3. ASSUME Quiet, NEW p \in Players
      PROVE  ~Asked(p, "add") /\ ~Asked(p, "list") /\ ~Asked(p, "del") /\ ~Coming(p) /\ down[home[p]] = <<>>
  <2>1. DOMAIN up[home[p]] = {} /\ DOMAIN down[home[p]] = {} /\ down[home[p]] = <<>>
    BY <1>2, <1>3 DEF Quiet
  <2> QED BY <2>1 DEF Asked, Coming
<1>4. RelayTypeOK
  <2>1. late \/ TypeOK
    BY WholeRooms DEF KnowInv, RoomsWhole
  <2>2. late \/ board \in [Players -> [RoomIdx -> [cur : 1..MaxGuests, cap : Caps] \cup {NoRoom}]]
    BY DEF KnowInv, Knows, StrictWires, StrictPage, StrictLine
  <2>3. view \in [Players -> [room : RoomIdx, members : SUBSET Players, owner : Players \cup {NoPlayer}]]
    BY <1>1 DEF Base, ClientTypes, Views, Someone
  <2> QED BY <1>1, <2>1, <2>2, <2>3 DEF RelayTypeOK, Base, ClientTypes
<1>5. BoardsAgree
  <2> SUFFICES ASSUME Quiet, ~late, NEW p \in Players, at[p] # NoAgent PROVE board[p] = TheBoard
    BY DEF BoardsAgree, TheBoard, BoardOf, IsRoom
  <2>1. PICK d : Ends(p, <<>>, ClientOf(p), d) /\ d[2] = TheBoard
    BY <1>3 DEF KnowInv, Knows, BoardInv, BoardFor
  <2>2. d = ClientOf(p)
    BY <2>1, EndsNoneIs
  <2> QED BY <1>1, <2>1, <2>2, ClientOfIs
<1>6. ASSUME Quiet, OneAgent, ~late, NEW p \in Players PROVE AgreesIn(user, rooms, p, view[p])
  <2>1. PICK d : Ends(p, <<>>, ClientOf(p), d) /\ Sits(p, d[1])
    BY <1>3, <1>6 DEF KnowInv, Knows, ViewInv, ViewFor
  <2>2. d = ClientOf(p)
    BY <2>1, EndsNoneIs
  <2>3. d[1] = view[p]
    BY <1>1, <2>2, ClientOfIs
  <2>4. PICK v : v = d[1]
    OBVIOUS
  <2>5. Sits(p, v)
    BY <2>1, <2>4
  <2>6. AgreesIn(user, rooms, p, v)
    BY <1>3, <1>6, <2>5 DEF Sits
  <2> QED BY <2>3, <2>4, <2>6
<1>7. OwnRoomKnown
  BY <1>6 DEF OwnRoomKnown, AgreesIn, IdxIn, Registered
<1>8. ASSUME ~late, NEW p \in Players, Registered(p), user[p] # 0
      PROVE  Members(rooms[user[p]]) = GuestsOf(user, user[p])
  <2>1. RoomsOK
    BY <1>8 DEF KnowInv, Whole
  <2>2. user[p] \in RoomIdx /\ rooms[user[p]] # NoRoom
    BY <1>8, <2>1 DEF RoomsOK, Seated, IsRoom, Registered
  <2> QED BY <2>1, <2>2, GuestsAre
<1>9. ViewsCover
  BY <1>6, <1>8 DEF ViewsCover, AgreesIn, IdxIn, Registered
<1>10. OwnersKnown
  BY <1>6 DEF OwnersKnown, AgreesIn, IdxIn, Registered
<1> QED BY <1>4, <1>5, <1>7, <1>9, <1>10 DEF ClientsKnow

(* Every room has its owner, so that there are no more than players. *)
LEMMA FewRooms ==
  ASSUME RoomsOK, ListOK, IsFiniteSet(Players)
  PROVE  Len(list) <= Cardinality(Players)
<1>1. Len(list) \in Nat /\ \A i \in 1..Len(list) : list[i] \in RoomIdx /\ rooms[list[i]] # NoRoom
  BY DEF ListOK, IsRoom
<1>2. \A r \in RoomIdx : rooms[r] # NoRoom => rooms[r].owner \in Players /\ user[rooms[r].owner] = r
  <2> SUFFICES ASSUME NEW r \in RoomIdx, rooms[r] # NoRoom PROVE rooms[r].owner \in Players /\ user[rooms[r].owner] = r
    OBVIOUS
  <2>1. rooms[r] \in Room /\ Fits(rooms[r], user, r)
    BY GuestsAre
  <2> QED BY <2>1, RoomFields DEF Fits, SeatedIn
<1> DEFINE owner == [i \in 1..Len(list) |-> rooms[list[i]].owner]
<1>3. owner \in Injection(1..Len(list), Players)
  <2>1. owner \in [1..Len(list) -> Players]
    BY <1>1, <1>2
  <2>2. \A i, j \in 1..Len(list) : owner[i] = owner[j] => i = j
    BY <1>1, <1>2 DEF ListOK
  <2> QED BY <2>1, <2>2 DEF Injection, IsInjective
<1>4. Cardinality(1..Len(list)) = Len(list)
  <2>1. PICK n \in Nat : n = Len(list)
    BY <1>1
  <2>2. 1 \in Int /\ n \in Int
    OBVIOUS
  <2>3. Cardinality(1..n) = IF 1 > n THEN 0 ELSE n - 1 + 1
    BY <2>2, FS_Interval
  <2>4. Cardinality(1..n) = n
    BY <2>3
  <2> QED BY <2>1, <2>4
<1> QED BY <1>3, <1>4, FS_Injection

(* Where every player comes back to the agent it left, as long as no room  *)
(* is made of index 0 and the rooms fit on the page that a client asks     *)
(* for: what the clients of all agents were told of the rooms, and those   *)
(* of the only agent of their own room, adds up to what the distribute     *)
(* server has whenever nothing is under way, unless a kick or a new owner  *)
(* named somebody who had gone.                                            *)
THEOREM ClientsAlwaysKnow ==
  ASSUME ~Delayed, ~Roams
  PROVE  RelaySpec /\ []~IsRoom(0) /\ [](Len(list) <= PerPage) => []ClientsKnow
<1>1. RelayInit => KnowInv
  BY KnowInit
<1>2. KnowInv /\ Len(list) <= PerPage /\ (~IsRoom(0))' /\ [RelayNext]_<<vars, relayVars>> => KnowInv'
  <2> SUFFICES ASSUME KnowInv, Len(list) <= PerPage, (~IsRoom(0))', [RelayNext]_<<vars, relayVars>> PROVE KnowInv'
    OBVIOUS
  <2>1. late' \/ RoomLeft
    <3> SUFFICES ASSUME ~late' PROVE RoomLeft
      OBVIOUS
    <3>1. ~late
      BY OthersLeaveRooms DEF Serve
    <3>2. RoomsOK
      BY <3>1 DEF KnowInv, Whole
    <3> QED BY <3>2, RoomIsLeft DEF IsRoom
  <2> QED BY <2>1, KnowNext
<1>3. KnowInv => ClientsKnow
  BY KnowEnough
<1> QED BY <1>1, <1>2, <1>3, PTL DEF RelaySpec

(* Players that are fewer than the indexes and fit, each with a room of    *)
(* its own, on a page need nothing else.                                   *)
THEOREM FewClientsKnow ==
  ASSUME ~Delayed, ~Roams, IsFiniteSet(Players), Cardinality(Players) < MaxRooms, Cardinality(Players) <= PerPage
  PROVE  RelaySpec => []ClientsKnow
<1>1. RelayInit => KnowInv
  BY KnowInit
<1>2. KnowInv /\ [RelayNext]_<<vars, relayVars>> => KnowInv'
  <2> SUFFICES ASSUME KnowInv, [RelayNext]_<<vars, relayVars>> PROVE KnowInv'
    OBVIOUS
  <2>1. late \/ (RoomsOK /\ ListOK)
    BY DEF KnowInv, Whole
  <2>2. late' \/ RoomLeft
    <3>1. late => late'
      BY OthersLeaveRooms DEF Serve
    <3> QED BY <2>1, <3>1, FewLeaveRoom
  <2>3. late \/ Len(list) <= PerPage
    <3>1. CASE ~late
      <4>1. Len(list) <= Cardinality(Players)
        BY <2>1, <3>1, FewRooms
      <4>2. Len(list) \in Nat /\ Cardinality(Players) \in Nat /\ PerPage \in Nat
        BY <2>1, <3>1, FS_CardinalityType, ChatAssumption DEF ListOK
      <4> QED BY <4>1, <4>2
    <3> QED BY <3>1
  <2> QED BY <2>2, <2>3, KnowNext
<1>3. KnowInv => ClientsKnow
  BY KnowEnough
<1> QED BY <1>1, <1>2, <1>3, PTL DEF RelaySpec
=============================================================================
