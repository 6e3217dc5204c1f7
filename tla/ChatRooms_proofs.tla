-------------------------- MODULE ChatRooms_proofs --------------------------
(***************************************************************************)
(* What holds of the chat rooms for every number of players, rooms, places *)
(* in a room and rooms on a page.                                          *)
(*                                                                         *)
(* The arrays of the code are compacted by copying the entries to keep one *)
(* after the other; EntriesAt is that copy, and the first lemmas say where *)
(* an entry goes.  Then each request is shown to keep the invariant: the   *)
(* rooms and the table of players fit, the list has every room once, the   *)
(* titles and the names follow.                                            *)
(***************************************************************************)
EXTENDS ChatRooms, FiniteSetTheorems, SequenceTheorems, WellFoundedInduction, TLAPS

-----------------------------------------------------------------------------
(* EntriesAt: the place of the n-th entry, and the rank of a place. *)

Rank(P, j) == Cardinality({i \in P : i <= j})

PlaceOf(P, n) == CHOOSE j \in P : Cardinality({i \in P : i <= j}) = n

LEMMA PlacesFinite ==
  ASSUME NEW m \in Nat, NEW P \in SUBSET (1..m)
  PROVE  IsFiniteSet(P) /\ Cardinality(P) \in Nat
<1>1. IsFiniteSet(1..m)
  BY FS_Interval, 1 \in Int, m \in Int
<1> QED BY <1>1, FS_Subset, FS_CardinalityType

LEMMA RanksAgree ==
  ASSUME NEW P \in SUBSET Nat, IsFiniteSet(P)
  PROVE  /\ \A j \in P : Rank(P, j) \in 1..Cardinality(P)
         /\ \A i, j \in P : i < j => Rank(P, i) < Rank(P, j)
<1>1. \A j \in Nat : {i \in P : i <= j} \in SUBSET P
  OBVIOUS
<1>2. \A j \in Nat : IsFiniteSet({i \in P : i <= j}) /\ Rank(P, j) \in Nat /\ Rank(P, j) <= Cardinality(P)
  <2> TAKE j \in Nat
  <2>1. IsFiniteSet({i \in P : i <= j}) /\ Cardinality({i \in P : i <= j}) <= Cardinality(P)
    BY <1>1, FS_Subset
  <2>2. Cardinality({i \in P : i <= j}) \in Nat
    BY <2>1, FS_CardinalityType
  <2> QED BY <2>1, <2>2 DEF Rank
<1>3. ASSUME NEW j \in P PROVE Rank(P, j) \in 1..Cardinality(P)
  <2>1. j \in Nat /\ j \in {i \in P : i <= j}
    OBVIOUS
  <2>2. Rank(P, j) # 0
    BY <1>2, <2>1, FS_EmptySet DEF Rank
  <2>3. Rank(P, j) \in Nat /\ Rank(P, j) <= Cardinality(P) /\ Cardinality(P) \in Nat
    BY <1>2, <2>1, FS_CardinalityType
  <2> QED BY <2>2, <2>3
<1>4. ASSUME NEW i \in P, NEW j \in P, i < j PROVE Rank(P, i) < Rank(P, j)
  <2>1. i \in Nat /\ j \in Nat
    OBVIOUS
  <2>2. {x \in P : x <= i} \in SUBSET {x \in P : x <= j}
    <3>1. \A x \in P : x <= i => x <= j
      BY <1>4, <2>1
    <3> QED BY <3>1
  <2>3. {x \in P : x <= i} # {x \in P : x <= j}
    <3>1. j \in {x \in P : x <= j} /\ j \notin {x \in P : x <= i}
      BY <1>4, <2>1
    <3> QED BY <3>1
  <2>4. IsFiniteSet({x \in P : x <= j})
    BY <1>2, <2>1
  <2>5. PICK S \in SUBSET P : S = {x \in P : x <= j}
    OBVIOUS
  <2>6. PICK T \in SUBSET S : T = {x \in P : x <= i}
    BY <2>2, <2>5
  <2>7. Cardinality(T) <= Cardinality(S) /\ Cardinality(S) # Cardinality(T)
    BY <2>3, <2>4, <2>5, <2>6, FS_Subset
  <2>8. Rank(P, i) <= Rank(P, j) /\ Rank(P, i) # Rank(P, j)
    BY <2>5, <2>6, <2>7 DEF Rank
  <2>9. Rank(P, i) \in Nat /\ Rank(P, j) \in Nat
    BY <1>2, <2>1
  <2> QED BY <2>8, <2>9
<1> QED BY <1>3, <1>4

LEMMA PlacesAgree ==
  ASSUME NEW P \in SUBSET Nat, IsFiniteSet(P)
  PROVE  /\ \A n \in 1..Cardinality(P) : PlaceOf(P, n) \in P /\ Rank(P, PlaceOf(P, n)) = n
         /\ \A j \in P : PlaceOf(P, Rank(P, j)) = j
         /\ \A a, b \in 1..Cardinality(P) : a < b => PlaceOf(P, a) < PlaceOf(P, b)
<1> DEFINE f == [j \in P |-> Rank(P, j)]
<1>1. \A i, j \in P : Rank(P, i) = Rank(P, j) => i = j
  <2> TAKE i, j \in P
  <2>1. i \in Nat /\ j \in Nat
    OBVIOUS
  <2>2. CASE i < j
    <3>1. Rank(P, i) < Rank(P, j) /\ Rank(P, i) \in Nat /\ Rank(P, j) \in Nat
      BY <2>2, RanksAgree, FS_CardinalityType
    <3> QED BY <3>1
  <2>3. CASE j < i
    <3>1. Rank(P, j) < Rank(P, i) /\ Rank(P, i) \in Nat /\ Rank(P, j) \in Nat
      BY <2>3, RanksAgree, FS_CardinalityType
    <3> QED BY <3>1
  <2> QED BY <2>1, <2>2, <2>3
<1>2. f \in Injection(P, 1..Cardinality(P))
  <2>1. f \in [P -> 1..Cardinality(P)]
    BY RanksAgree
  <2> QED BY <1>1, <2>1 DEF Injection, IsInjective
<1>3. IsFiniteSet(1..Cardinality(P)) /\ Cardinality(1..Cardinality(P)) = Cardinality(P)
  <2>1. Cardinality(P) \in Nat /\ 1 \in Int /\ Cardinality(P) \in Int
    BY FS_CardinalityType
  <2>2. /\ IsFiniteSet(1..Cardinality(P))
        /\ Cardinality(1..Cardinality(P)) = IF 1 > Cardinality(P) THEN 0 ELSE Cardinality(P) - 1 + 1
    BY <2>1, FS_Interval
  <2> QED BY <2>1, <2>2
<1>4. f \in Surjection(P, 1..Cardinality(P))
  BY <1>2, <1>3, FS_Injection
<1>5. ASSUME NEW n \in 1..Cardinality(P)
      PROVE  PlaceOf(P, n) \in P /\ Rank(P, PlaceOf(P, n)) = n
  <2>1. PICK j \in P : f[j] = n
    BY <1>4 DEF Surjection
  <2> QED BY <2>1 DEF PlaceOf, Rank
<1>6. ASSUME NEW j \in P PROVE PlaceOf(P, Rank(P, j)) = j
  <2>1. Rank(P, j) \in 1..Cardinality(P)
    BY RanksAgree
  <2>2. PlaceOf(P, Rank(P, j)) \in P /\ Rank(P, PlaceOf(P, Rank(P, j))) = Rank(P, j)
    BY <1>5, <2>1
  <2> QED BY <1>1, <2>2
<1>7. ASSUME NEW a \in 1..Cardinality(P), NEW b \in 1..Cardinality(P), a < b
      PROVE  PlaceOf(P, a) < PlaceOf(P, b)
  <2>1. PICK x \in P : x = PlaceOf(P, a) /\ Rank(P, x) = a
    BY <1>5
  <2>2. PICK y \in P : y = PlaceOf(P, b) /\ Rank(P, y) = b
    BY <1>5
  <2>3. x \in Nat /\ y \in Nat
    OBVIOUS
  <2>4. x # y
    BY <1>7, <2>1, <2>2
  <2>5. ~(y < x)
    <3>1. y < x => b < a
      BY <2>1, <2>2, RanksAgree
    <3> QED BY <3>1, <1>7
  <2> QED BY <2>1, <2>2, <2>3, <2>4, <2>5
<1> QED BY <1>5, <1>6, <1>7

LEMMA EntriesAre ==
  ASSUME NEW P \in SUBSET Nat, IsFiniteSet(P), NEW s
  PROVE  EntriesAt(s, P) = [n \in 1..Cardinality(P) |-> s[PlaceOf(P, n)]]
BY DEF EntriesAt, PlaceOf

LEMMA EntriesInSeq ==
  ASSUME NEW P \in SUBSET Nat, IsFiniteSet(P), NEW S, NEW s, \A j \in P : s[j] \in S
  PROVE  /\ EntriesAt(s, P) \in Seq(S)
         /\ Len(EntriesAt(s, P)) = Cardinality(P)
         /\ Cardinality(P) \in Nat
<1>1. Cardinality(P) \in Nat
  BY FS_CardinalityType
<1>2. \A n \in 1..Cardinality(P) : s[PlaceOf(P, n)] \in S
  BY PlacesAgree
<1>3. EntriesAt(s, P) \in [1..Cardinality(P) -> S]
  BY <1>2, EntriesAre
<1> QED BY <1>1, <1>3

(* What is at a place of P is an entry, and every entry is at a place of P. *)
LEMMA EntryOfPlace ==
  ASSUME NEW P \in SUBSET Nat, IsFiniteSet(P), NEW s, NEW j \in P
  PROVE  Rank(P, j) \in 1..Cardinality(P) /\ EntriesAt(s, P)[Rank(P, j)] = s[j]
<1>1. Rank(P, j) \in 1..Cardinality(P)
  BY RanksAgree
<1>2. EntriesAt(s, P)[Rank(P, j)] = s[PlaceOf(P, Rank(P, j))]
  BY <1>1, EntriesAre
<1>3. PlaceOf(P, Rank(P, j)) = j
  BY PlacesAgree
<1> QED BY <1>1, <1>2, <1>3

LEMMA PlaceOfEntry ==
  ASSUME NEW P \in SUBSET Nat, IsFiniteSet(P), NEW s, NEW n \in 1..Cardinality(P)
  PROVE  PlaceOf(P, n) \in P /\ EntriesAt(s, P)[n] = s[PlaceOf(P, n)]
<1>1. PlaceOf(P, n) \in P
  BY PlacesAgree
<1> QED BY <1>1, EntriesAre

(* Two entries at different places are at different places of s. *)
LEMMA PlacesDiffer ==
  ASSUME NEW P \in SUBSET Nat, IsFiniteSet(P),
         NEW a \in 1..Cardinality(P), NEW b \in 1..Cardinality(P), PlaceOf(P, a) = PlaceOf(P, b)
  PROVE  a = b
<1>1. Rank(P, PlaceOf(P, a)) = a /\ Rank(P, PlaceOf(P, b)) = b
  BY PlacesAgree
<1> QED BY <1>1

(* All places: the sequence itself. *)
LEMMA RankOfAll ==
  ASSUME NEW m \in Nat, NEW j \in 1..m
  PROVE  Rank(1..m, j) = j
<1>1. {i \in 1..m : i <= j} = 1..j
  OBVIOUS
<1>2. Cardinality(1..j) = j
  BY FS_Interval, 1 \in Int, j \in Int
<1> QED BY <1>1, <1>2 DEF Rank

LEMMA AllEntries ==
  ASSUME NEW m \in Nat, NEW s
  PROVE  EntriesAt(s, 1..m) = [n \in 1..m |-> s[n]]
<1>1. Cardinality(1..m) = m
  BY FS_Interval, 1 \in Int, m \in Int
<1>2. 1..m \in SUBSET Nat /\ IsFiniteSet(1..m)
  BY FS_Interval, 1 \in Int, m \in Int
<1>3. \A n \in 1..m : PlaceOf(1..m, n) = n
  BY <1>2, RankOfAll, PlacesAgree
<1> QED BY <1>1, <1>2, <1>3, EntriesAre

-----------------------------------------------------------------------------
(* Rooms and the table of players.  The operators take the room and the    *)
(* table as parameters, so that both states of a step can be put in.       *)

SeatedIn(room, p) == \E k \in 1..room.cur : room.slot[k] = p

(* Nobody sits twice, all are players that are registered with the room,   *)
(* and the owner is one of them.                                           *)
Seats(room) ==
  /\ \A k \in 1..room.cur : room.slot[k] \in Players
  /\ \A j, k \in 1..room.cur : room.slot[j] = room.slot[k] => j = k

Fits(room, u, r) ==
  /\ Seats(room)
  /\ \A k \in 1..room.cur : u[room.slot[k]] = r
  /\ SeatedIn(room, room.owner)

Seated(p) == user[p] \notin {0, Absent} => IsRoom(user[p]) /\ SeatedIn(rooms[user[p]], p)

RoomsOK ==
  /\ user \in [Players -> RoomIdx \cup {Absent}]
  /\ rooms \in [RoomIdx -> Room \cup {NoRoom}]
  /\ rooms[0] = NoRoom
  /\ \A r \in RoomIdx : IsRoom(r) => Fits(rooms[r], user, r)
  /\ \A p \in Players : Seated(p)

LEMMA RoomFields ==
  ASSUME NEW room \in Room
  PROVE  /\ room.cur \in 1..MaxGuests /\ room.cur \in Nat /\ room.cur > 0
         /\ room.owner \in Players /\ room.cap \in Caps /\ room.type \in Types
         /\ room.slot \in [1..MaxGuests -> Players \cup {NoPlayer}]
         /\ DOMAIN room = {"owner", "slot", "cur", "cap", "type"}
         /\ room = [owner |-> room.owner, slot |-> room.slot, cur |-> room.cur,
                    cap |-> room.cap, type |-> room.type]
         /\ 1..room.cur \subseteq 1..MaxGuests
         /\ IsFiniteSet(1..room.cur) /\ Cardinality(1..room.cur) = room.cur
<1>1. /\ room.cur \in 1..MaxGuests
      /\ room.owner \in Players /\ room.cap \in Caps /\ room.type \in Types
      /\ room.slot \in [1..MaxGuests -> Players \cup {NoPlayer}]
      /\ DOMAIN room = {"owner", "slot", "cur", "cap", "type"}
      /\ room = [owner |-> room.owner, slot |-> room.slot, cur |-> room.cur,
                 cap |-> room.cap, type |-> room.type]
  BY DEF Room
<1>2. MaxGuests \in Nat
  BY ChatAssumption
<1>3. room.cur \in Nat /\ room.cur > 0 /\ room.cur \in Int /\ 1 \in Int
  BY <1>1, <1>2
<1>4. IsFiniteSet(1..room.cur) /\ Cardinality(1..room.cur) = room.cur
  BY <1>3, FS_Interval
<1>5. 1..room.cur \subseteq 1..MaxGuests
  BY <1>1, <1>2
<1> QED BY <1>1, <1>3, <1>4, <1>5

(* Without a guest that is in it, a room keeps the others, and no others.  *)
KeptPlaces(room, q) == {k \in 1..room.cur : room.slot[k] # q}

LEMMA KeptOthers ==
  ASSUME NEW room \in Room, Seats(room), NEW q, SeatedIn(room, q)
  PROVE  /\ KeptPlaces(room, q) \in SUBSET Nat /\ IsFiniteSet(KeptPlaces(room, q))
         /\ Cardinality(KeptPlaces(room, q)) = room.cur - 1
         /\ Kept(room, q) = EntriesAt(room.slot, KeptPlaces(room, q))
         /\ Kept(room, q) \in Seq(Players)
         /\ Len(Kept(room, q)) = room.cur - 1
<1>1. PICK x \in 1..room.cur : room.slot[x] = q
  BY DEF SeatedIn
<1>2. KeptPlaces(room, q) = (1..room.cur) \ {x}
  BY <1>1 DEF KeptPlaces, Seats
<1>3. /\ IsFiniteSet(KeptPlaces(room, q))
      /\ Cardinality(KeptPlaces(room, q)) = room.cur - 1
  <2>1. IsFiniteSet(1..room.cur) /\ Cardinality(1..room.cur) = room.cur
    BY RoomFields
  <2>2. /\ IsFiniteSet((1..room.cur) \ {x})
        /\ Cardinality((1..room.cur) \ {x}) = Cardinality(1..room.cur) - 1
    BY <2>1, FS_RemoveElement
  <2> QED BY <1>2, <2>1, <2>2
<1>4. KeptPlaces(room, q) \in SUBSET Nat
  <2>1. room.cur \in Nat
    BY RoomFields
  <2> QED BY <2>1 DEF KeptPlaces
<1>5. \A k \in KeptPlaces(room, q) : room.slot[k] \in Players
  BY DEF KeptPlaces, Seats
<1>6. Kept(room, q) = EntriesAt(room.slot, KeptPlaces(room, q))
  BY DEF Kept, KeptPlaces
<1>7. /\ EntriesAt(room.slot, KeptPlaces(room, q)) \in Seq(Players)
      /\ Len(EntriesAt(room.slot, KeptPlaces(room, q))) = Cardinality(KeptPlaces(room, q))
  BY <1>3, <1>4, <1>5, EntriesInSeq
<1> QED BY <1>3, <1>4, <1>6, <1>7

LEMMA KeptSeats ==
  ASSUME NEW room \in Room, Seats(room), NEW q, SeatedIn(room, q)
  PROVE  /\ \A n \in 1..room.cur - 1 :
              \E k \in 1..room.cur : room.slot[k] # q /\ Kept(room, q)[n] = room.slot[k]
         /\ \A k \in 1..room.cur : room.slot[k] # q =>
              \E n \in 1..room.cur - 1 : Kept(room, q)[n] = room.slot[k]
         /\ \A i, j \in 1..room.cur - 1 : Kept(room, q)[i] = Kept(room, q)[j] => i = j
<1> PICK P \in SUBSET Nat : P = KeptPlaces(room, q)
  BY KeptOthers
<1>1. /\ IsFiniteSet(P) /\ Cardinality(P) = room.cur - 1
      /\ Kept(room, q) = EntriesAt(room.slot, P)
  BY KeptOthers
<1>2. ASSUME NEW n \in 1..room.cur - 1
      PROVE  PlaceOf(P, n) \in P /\ Kept(room, q)[n] = room.slot[PlaceOf(P, n)]
  BY <1>1, PlaceOfEntry
<1>3. ASSUME NEW k \in P PROVE \E n \in 1..room.cur - 1 : Kept(room, q)[n] = room.slot[k]
  BY <1>1, EntryOfPlace
<1>4. ASSUME NEW i \in 1..room.cur - 1, NEW j \in 1..room.cur - 1, Kept(room, q)[i] = Kept(room, q)[j]
      PROVE  i = j
  <2>1. room.slot[PlaceOf(P, i)] = room.slot[PlaceOf(P, j)]
    BY <1>2, <1>4
  <2>2. PlaceOf(P, i) \in 1..room.cur /\ PlaceOf(P, j) \in 1..room.cur
    BY <1>2 DEF KeptPlaces
  <2>3. PlaceOf(P, i) = PlaceOf(P, j)
    BY <2>1, <2>2 DEF Seats
  <2> QED BY <1>1, <2>3, PlacesDiffer
<1>5. \A n \in 1..room.cur - 1 :
        \E k \in 1..room.cur : room.slot[k] # q /\ Kept(room, q)[n] = room.slot[k]
  <2> TAKE n \in 1..room.cur - 1
  <2>1. PlaceOf(P, n) \in 1..room.cur /\ room.slot[PlaceOf(P, n)] # q
    BY <1>2 DEF KeptPlaces
  <2> QED BY <1>2, <2>1
<1>6. \A k \in 1..room.cur : room.slot[k] # q =>
        \E n \in 1..room.cur - 1 : Kept(room, q)[n] = room.slot[k]
  BY <1>3 DEF KeptPlaces
<1> QED BY <1>4, <1>5, <1>6

LEMMA CompactedRoom ==
  ASSUME NEW room \in Room, Seats(room), NEW q, SeatedIn(room, q), room.cur > 1
  PROVE  /\ Compacted(room, q) \in Room
         /\ Compacted(room, q).cur = room.cur - 1
         /\ \A n \in 1..room.cur - 1 : Compacted(room, q).slot[n] = Kept(room, q)[n]
         /\ Compacted(room, q).owner = room.owner
         /\ Compacted(room, q).cap = room.cap /\ Compacted(room, q).type = room.type
<1> DEFINE slot == [k \in 1..MaxGuests |->
                      IF k >= room.cur THEN room.slot[k]
                      ELSE IF k <= Len(Kept(room, q)) THEN Kept(room, q)[k] ELSE NoPlayer]
<1>1. Compacted(room, q) = [room EXCEPT !.cur = room.cur - 1, !.slot = slot]
  BY RoomFields DEF Compacted
<1>2. /\ Kept(room, q) \in Seq(Players) /\ Len(Kept(room, q)) = room.cur - 1
      /\ room.cur \in Nat /\ room.cur \in 1..MaxGuests /\ MaxGuests \in Nat
  BY KeptOthers, RoomFields, ChatAssumption
<1>3. \A n \in 1..room.cur - 1 : Kept(room, q)[n] \in Players
  BY <1>2
<1>4. slot \in [1..MaxGuests -> Players \cup {NoPlayer}]
  <2>1. ASSUME NEW k \in 1..MaxGuests PROVE slot[k] \in Players \cup {NoPlayer}
    <3>1. CASE k >= room.cur
      BY <3>1, RoomFields
    <3>2. CASE ~(k >= room.cur)
      <4>1. k \in 1..room.cur - 1 /\ k <= Len(Kept(room, q))
        BY <1>2, <3>2
      <4> QED BY <1>3, <3>2, <4>1
    <3> QED BY <3>1, <3>2
  <2> QED BY <2>1
<1>5. \A n \in 1..room.cur - 1 : slot[n] = Kept(room, q)[n]
  <2> TAKE n \in 1..room.cur - 1
  <2>1. n \in 1..MaxGuests /\ ~(n >= room.cur) /\ n <= Len(Kept(room, q))
    BY <1>2
  <2> QED BY <2>1
<1>6. room.cur - 1 \in 1..MaxGuests
  BY <1>2
<1> HIDE DEF slot
<1>7. Compacted(room, q) = [owner |-> room.owner, slot |-> slot, cur |-> room.cur - 1,
                           cap |-> room.cap, type |-> room.type]
  BY <1>1, RoomFields
<1>8. Compacted(room, q) \in Room
  BY <1>4, <1>6, <1>7, RoomFields DEF Room
<1> QED BY <1>5, <1>7, <1>8

(* The room after q has gone from it, with the owner o. *)
LEMMA RoomWithout ==
  ASSUME NEW room \in Room, Seats(room), NEW q, SeatedIn(room, q), room.cur > 1,
         NEW o \in Players, SeatedIn(room, o), o # q
  PROVE  /\ [Compacted(room, q) EXCEPT !.owner = o] \in Room
         /\ Seats([Compacted(room, q) EXCEPT !.owner = o])
         /\ SeatedIn([Compacted(room, q) EXCEPT !.owner = o], o)
         /\ \A p : SeatedIn([Compacted(room, q) EXCEPT !.owner = o], p) <=> SeatedIn(room, p) /\ p # q
<1>1. PICK c \in Room : c = [Compacted(room, q) EXCEPT !.owner = o]
  BY CompactedRoom DEF Room
<1>2. /\ c.cur = room.cur - 1 /\ c.owner = o
      /\ \A n \in 1..room.cur - 1 : c.slot[n] = Kept(room, q)[n]
  BY <1>1, CompactedRoom, RoomFields
<1>3. ASSUME NEW p, SeatedIn(c, p) PROVE SeatedIn(room, p) /\ p # q
  BY <1>2, <1>3, KeptSeats DEF SeatedIn
<1>4. ASSUME NEW p, SeatedIn(room, p), p # q PROVE SeatedIn(c, p)
  BY <1>2, <1>4, KeptSeats DEF SeatedIn
<1>5. Seats(c)
  <2>1. \A n \in 1..c.cur : c.slot[n] \in Players
    BY <1>2, KeptSeats DEF Seats
  <2>2. \A i, j \in 1..c.cur : c.slot[i] = c.slot[j] => i = j
    BY <1>2, KeptSeats
  <2> QED BY <2>1, <2>2 DEF Seats
<1> QED BY <1>1, <1>3, <1>4, <1>5

-----------------------------------------------------------------------------
(* Steps, by what they do to the rooms. *)

(* Who moves, moves between the room r and none. *)
Moves(u, r) == \A p \in Players : u[p] # user[p] => user[p] \in {0, Absent, r} /\ u[p] \in {0, Absent, r}

AllSeated(room, u, r) == \A p \in Players : u[p] = r => SeatedIn(room, p)

LEMMA NamedRooms ==
  ASSUME RoomsOK, NEW r \in RoomIdx, IsRoom(r)
  PROVE  r # 0 /\ r # Absent /\ rooms[r] \in Room /\ Fits(rooms[r], user, r)
<1>1. Absent \notin RoomIdx
  BY ChatAssumption DEF RoomIdx
<1> QED BY <1>1 DEF RoomsOK, IsRoom

LEMMA RoomChanges ==
  ASSUME RoomsOK, NEW r \in RoomIdx, r # 0, NEW room \in Room,
         NEW u \in [Players -> RoomIdx \cup {Absent}], Moves(u, r),
         Fits(room, u, r), AllSeated(room, u, r),
         rooms' = [rooms EXCEPT ![r] = room], user' = u
  PROVE  RoomsOK'
<1>1. rooms \in [RoomIdx -> Room \cup {NoRoom}] /\ rooms' \in [RoomIdx -> Room \cup {NoRoom}]
  BY DEF RoomsOK
<1>2. rooms'[r] = room /\ \A s \in RoomIdx : s # r => rooms'[s] = rooms[s]
  BY <1>1
<1>3. rooms'[0] = NoRoom /\ room # NoRoom
  <2>1. 0 \in RoomIdx
    BY ChatAssumption DEF RoomIdx
  <2> QED BY <1>2, <2>1, NoRoomAssumption DEF RoomsOK
<1>4. ASSUME NEW s \in RoomIdx, rooms'[s] # NoRoom PROVE Fits(rooms'[s], u, s)
  <2>1. CASE s = r
    BY <1>2, <2>1
  <2>2. CASE s # r
    <3>1. IsRoom(s) /\ rooms'[s] = rooms[s]
      BY <1>2, <1>4, <2>2 DEF IsRoom
    <3>2. s # 0 /\ s # Absent /\ Fits(rooms[s], user, s)
      BY <3>1, NamedRooms
    <3>3. \A k \in 1..rooms[s].cur : u[rooms[s].slot[k]] = s
      <4> TAKE k \in 1..rooms[s].cur
      <4>1. rooms[s].slot[k] \in Players /\ user[rooms[s].slot[k]] = s
        BY <3>2 DEF Fits, Seats
      <4> QED BY <2>2, <3>2, <4>1 DEF Moves
    <3> QED BY <3>1, <3>2, <3>3 DEF Fits
  <2> QED BY <2>1, <2>2
<1>5. ASSUME NEW p \in Players, u[p] \notin {0, Absent}
      PROVE  rooms'[u[p]] # NoRoom /\ SeatedIn(rooms'[u[p]], p)
  <2>1. CASE u[p] = r
    BY <1>2, <1>3, <2>1 DEF AllSeated
  <2>2. CASE u[p] # r
    <3>1. u[p] = user[p]
      BY <1>5, <2>2 DEF Moves
    <3>2. rooms[u[p]] # NoRoom /\ SeatedIn(rooms[u[p]], p) /\ u[p] \in RoomIdx
      BY <1>5, <3>1 DEF RoomsOK, Seated, IsRoom
    <3> QED BY <1>2, <2>2, <3>2
  <2> QED BY <2>1, <2>2
<1> QED BY <1>1, <1>3, <1>4, <1>5 DEF RoomsOK, Seated, IsRoom

LEMMA RoomGoes ==
  ASSUME RoomsOK, NEW r \in RoomIdx, r # 0,
         NEW u \in [Players -> RoomIdx \cup {Absent}], Moves(u, r), \A p \in Players : u[p] # r,
         rooms' = [rooms EXCEPT ![r] = NoRoom], user' = u
  PROVE  RoomsOK'
<1>1. rooms \in [RoomIdx -> Room \cup {NoRoom}] /\ rooms' \in [RoomIdx -> Room \cup {NoRoom}]
  BY DEF RoomsOK
<1>2. rooms'[r] = NoRoom /\ \A s \in RoomIdx : s # r => rooms'[s] = rooms[s]
  BY <1>1
<1>3. rooms'[0] = NoRoom
  <2>1. 0 \in RoomIdx
    BY ChatAssumption DEF RoomIdx
  <2> QED BY <1>2, <2>1 DEF RoomsOK
<1>4. ASSUME NEW s \in RoomIdx, rooms'[s] # NoRoom PROVE Fits(rooms'[s], u, s)
  <2>1. s # r /\ rooms'[s] = rooms[s] /\ IsRoom(s)
    BY <1>2, <1>4 DEF IsRoom
  <2>2. s # 0 /\ s # Absent /\ Fits(rooms[s], user, s)
    BY <2>1, NamedRooms
  <2>3. \A k \in 1..rooms[s].cur : u[rooms[s].slot[k]] = s
    <3> TAKE k \in 1..rooms[s].cur
    <3>1. rooms[s].slot[k] \in Players /\ user[rooms[s].slot[k]] = s
      BY <2>2 DEF Fits, Seats
    <3> QED BY <2>1, <2>2, <3>1 DEF Moves
  <2> QED BY <2>1, <2>2, <2>3 DEF Fits
<1>5. ASSUME NEW p \in Players, u[p] \notin {0, Absent}
      PROVE  rooms'[u[p]] # NoRoom /\ SeatedIn(rooms'[u[p]], p)
  <2>1. u[p] # r /\ u[p] = user[p]
    BY <1>5 DEF Moves
  <2>2. rooms[u[p]] # NoRoom /\ SeatedIn(rooms[u[p]], p) /\ u[p] \in RoomIdx
    BY <1>5, <2>1 DEF RoomsOK, Seated, IsRoom
  <2> QED BY <1>2, <2>1, <2>2
<1> QED BY <1>1, <1>3, <1>4, <1>5 DEF RoomsOK, Seated, IsRoom

LEMMA RoomsStay ==
  ASSUME RoomsOK, NEW u \in [Players -> RoomIdx \cup {Absent}], Moves(u, 0),
         rooms' = rooms, user' = u
  PROVE  RoomsOK'
<1>1. ASSUME NEW s \in RoomIdx, IsRoom(s) PROVE Fits(rooms[s], u, s)
  <2>1. s # 0 /\ s # Absent /\ Fits(rooms[s], user, s)
    BY <1>1, NamedRooms
  <2>2. \A k \in 1..rooms[s].cur : u[rooms[s].slot[k]] = s
    <3> TAKE k \in 1..rooms[s].cur
    <3>1. rooms[s].slot[k] \in Players /\ user[rooms[s].slot[k]] = s
      BY <2>1 DEF Fits, Seats
    <3> QED BY <2>1, <3>1 DEF Moves
  <2> QED BY <2>1, <2>2 DEF Fits
<1>2. ASSUME NEW p \in Players, u[p] \notin {0, Absent}
      PROVE  IsRoom(u[p]) /\ SeatedIn(rooms[u[p]], p)
  <2>1. u[p] = user[p]
    BY <1>2 DEF Moves
  <2> QED BY <1>2, <2>1 DEF RoomsOK, Seated
<1> QED BY <1>1, <1>2 DEF RoomsOK, Seated, IsRoom

-----------------------------------------------------------------------------
(* The handlers. *)

(* The index a new room gets, unless all are used. *)
LEMMA FreeIsFound ==
  ASSUME {r \in RoomIdx \ {0} : ~IsRoom(r)} # {}
  PROVE  GetEmptyRoomIdx \in {r \in RoomIdx \ {0} : ~IsRoom(r)}
<1> DEFINE free == {r \in RoomIdx \ {0} : ~IsRoom(r)}
           Less == {p \in Nat \X Nat : p[1] < p[2]}
<1>1. IsWellFoundedOn(Less, Nat)
  BY NatLessThanWellFounded, Zenon DEF OpToRel
<1>2. free \subseteq Nat /\ free # {}
  BY ChatAssumption DEF RoomIdx
<1>3. GetEmptyRoomIdx = CHOOSE r \in free : \A s \in free : r <= s
  BY DEF GetEmptyRoomIdx
<1> HIDE DEF free
<1>4. PICK x \in free : \A y \in free : <<y, x>> \notin Less
  BY <1>1, <1>2, WFMin
<1>5. \A y \in free : x <= y
  <2> TAKE y \in free
  <2>1. x \in Nat /\ y \in Nat /\ ~(y < x)
    BY <1>2, <1>4
  <2> QED BY <2>1
<1>6. (CHOOSE r \in free : \A s \in free : r <= s) \in free
  BY <1>5
<1> QED BY <1>3, <1>6 DEF free

LEMMA EmptyRoomIdx ==
  /\ GetEmptyRoomIdx \in RoomIdx
  /\ GetEmptyRoomIdx # 0 => ~IsRoom(GetEmptyRoomIdx)
<1>1. CASE {r \in RoomIdx \ {0} : ~IsRoom(r)} = {}
  BY <1>1, ChatAssumption DEF GetEmptyRoomIdx, RoomIdx
<1>2. CASE {r \in RoomIdx \ {0} : ~IsRoom(r)} # {}
  BY <1>2, FreeIsFound
<1> QED BY <1>1, <1>2

(* The rooms are not used up: a room that is made gets an index of its own. *)
RoomLeft ==
  (\E p \in Players, cap \in Caps, type \in Types : CreateRoomSyn(p, cap, type)) => GetEmptyRoomIdx # 0

NewRoom(p, cap, type) ==
  [owner |-> p, slot |-> [k \in 1..MaxGuests |-> IF k = 1 THEN p ELSE NoPlayer],
   cur |-> 1, cap |-> cap, type |-> type]

LEMMA NewRoomIs ==
  ASSUME NEW p \in Players, NEW cap \in Caps, NEW type \in Types
  PROVE  /\ NewRoom(p, cap, type) \in Room /\ NewRoom(p, cap, type) # NoRoom
         /\ NewRoom(p, cap, type).cur = 1 /\ NewRoom(p, cap, type).slot[1] = p
         /\ NewRoom(p, cap, type).owner = p
<1>1. 1 \in 1..MaxGuests
  BY ChatAssumption
<1>2. [k \in 1..MaxGuests |-> IF k = 1 THEN p ELSE NoPlayer] \in [1..MaxGuests -> Players \cup {NoPlayer}]
  OBVIOUS
<1>3. NewRoom(p, cap, type) \in Room
  BY <1>1, <1>2 DEF NewRoom, Room
<1>4. /\ NewRoom(p, cap, type).cur = 1 /\ NewRoom(p, cap, type).slot[1] = p
      /\ NewRoom(p, cap, type).owner = p
  BY <1>1 DEF NewRoom
<1> QED BY <1>3, <1>4, NoRoomAssumption

(* Where nothing is made of index 0, the rooms are not used up. *)
LEMMA RoomIsLeft ==
  ASSUME RoomsOK, rooms'[0] = NoRoom
  PROVE  RoomLeft
<1> SUFFICES ASSUME NEW p \in Players, NEW cap \in Caps, NEW type \in Types,
                    CreateRoomSyn(p, cap, type), GetEmptyRoomIdx = 0
             PROVE  FALSE
  BY DEF RoomLeft
<1>1. rooms' = [rooms EXCEPT ![0] = NewRoom(p, cap, type)]
  BY DEF CreateRoomSyn, AddRoom, NewRoom
<1>2. 0 \in RoomIdx
  BY ChatAssumption DEF RoomIdx
<1> QED BY <1>1, <1>2, NewRoomIs DEF RoomsOK

LEMMA CreateHolds ==
  ASSUME RoomsOK, NEW p \in Players, NEW cap \in Caps, NEW type \in Types,
         CreateRoomSyn(p, cap, type), GetEmptyRoomIdx # 0
  PROVE  RoomsOK'
<1> PICK r \in RoomIdx : r = GetEmptyRoomIdx
  BY EmptyRoomIdx
<1>1. /\ user[p] = 0 /\ user' = [user EXCEPT ![p] = r]
      /\ rooms' = [rooms EXCEPT ![r] = NewRoom(p, cap, type)]
  BY DEF CreateRoomSyn, AddRoom, NewRoom
<1>2. PICK room \in Room :
        /\ room = NewRoom(p, cap, type)
        /\ room.cur = 1 /\ room.slot[1] = p /\ room.owner = p
  BY NewRoomIs
<1>3. room.cur = 1 /\ room.slot[1] = p /\ room.owner = p
  BY <1>2
<1>4. r # 0 /\ ~IsRoom(r)
  BY EmptyRoomIdx
<1>5. user \in [Players -> RoomIdx \cup {Absent}] /\ \A q \in Players : user[q] # r
  <2>1. r # Absent
    BY ChatAssumption DEF RoomIdx
  <2> QED BY <1>4, <2>1 DEF RoomsOK, Seated
<1>6. PICK u \in [Players -> RoomIdx \cup {Absent}] : u = [user EXCEPT ![p] = r]
  BY <1>5
<1>7. u[p] = r /\ \A q \in Players : q # p => u[q] = user[q]
  BY <1>5, <1>6
<1>8. Moves(u, r)
  BY <1>1, <1>7 DEF Moves
<1>9. \A k \in 1..room.cur : k = 1
  BY <1>3
<1>10. SeatedIn(room, p)
  BY <1>3 DEF SeatedIn
<1>11. Fits(room, u, r)
  BY <1>3, <1>7, <1>9, <1>10 DEF Fits, Seats
<1>12. AllSeated(room, u, r)
  BY <1>5, <1>7, <1>10 DEF AllSeated
<1> QED BY <1>1, <1>2, <1>4, <1>6, <1>8, <1>11, <1>12, RoomChanges

LEMMA RoomWithOneMore ==
  ASSUME NEW room, NEW n, NEW p,
         room = [owner |-> room.owner, slot |-> room.slot, cur |-> room.cur,
                 cap |-> room.cap, type |-> room.type]
  PROVE  [room EXCEPT !.slot[n + 1] = p, !.cur = n + 1]
         = [owner |-> room.owner, slot |-> [room.slot EXCEPT ![n + 1] = p],
            cur |-> n + 1, cap |-> room.cap, type |-> room.type]
<1>1. PICK slot : slot = [room.slot EXCEPT ![n + 1] = p]
  OBVIOUS
<1>2. PICK m : m = n + 1
  OBVIOUS
<1>3. [room EXCEPT !.slot[n + 1] = p, !.cur = n + 1] = [room EXCEPT !.slot = slot, !.cur = m]
  BY <1>1, <1>2, Zenon
<1>4. PICK o, s, c, k, t : room = [owner |-> o, slot |-> s, cur |-> c, cap |-> k, type |-> t]
  OBVIOUS
<1>5. [room EXCEPT !.slot = slot, !.cur = m]
      = [owner |-> o, slot |-> slot, cur |-> m, cap |-> k, type |-> t]
  <2>1. PICK b : b = [room EXCEPT !.slot = slot]
    OBVIOUS
  <2>2. b = [owner |-> o, slot |-> slot, cur |-> c, cap |-> k, type |-> t]
    BY <1>4, <2>1
  <2>3. [b EXCEPT !.cur = m] = [owner |-> o, slot |-> slot, cur |-> m, cap |-> k, type |-> t]
    BY <2>2
  <2> QED BY <2>1, <2>3
<1>6. room.owner = o /\ room.cap = k /\ room.type = t
  BY <1>4, Zenon
<1> QED BY <1>1, <1>2, <1>3, <1>5, <1>6

(* A room with a guest more, as JoinRoomSyn writes it and field by field. *)
Grown(x, n, p) == [x EXCEPT !.slot[n + 1] = p, !.cur = n + 1]

GrownFields(x, n, p) ==
  [owner |-> x.owner, slot |-> [x.slot EXCEPT ![n + 1] = p], cur |-> n + 1, cap |-> x.cap, type |-> x.type]

LEMMA RoomGrown ==
  ASSUME NEW x \in Room, NEW n, NEW p
  PROVE  GrownFields(x, n, p) = Grown(x, n, p)
<1>1. x = [owner |-> x.owner, slot |-> x.slot, cur |-> x.cur, cap |-> x.cap, type |-> x.type]
  BY RoomFields
<1>2. [x EXCEPT !.slot[n + 1] = p, !.cur = n + 1]
      = [owner |-> x.owner, slot |-> [x.slot EXCEPT ![n + 1] = p], cur |-> n + 1, cap |-> x.cap, type |-> x.type]
  BY <1>1, RoomWithOneMore, Zenon
<1> QED BY <1>2, Zenon DEF Grown, GrownFields

LEMMA JoinHolds ==
  ASSUME RoomsOK, NEW p \in Players, NEW r \in RoomIdx, JoinRoomSyn(p, r)
  PROVE  RoomsOK'
<1>1. /\ user[p] = 0 /\ r # 0 /\ IsRoom(r) /\ rooms[r].cur < rooms[r].cap
      /\ user' = [user EXCEPT ![p] = r]
      /\ rooms' = [rooms EXCEPT ![r].slot[rooms[r].cur + 1] = p, ![r].cur = @ + 1]
  BY DEF JoinRoomSyn
<1>2. /\ rooms[r] \in Room /\ Fits(rooms[r], user, r) /\ r # Absent
      /\ user \in [Players -> RoomIdx \cup {Absent}]
      /\ rooms \in [RoomIdx -> Room \cup {NoRoom}]
  BY <1>1, NamedRooms DEF RoomsOK
<1>3. PICK n \in Nat : n = rooms[r].cur
  BY <1>2, RoomFields
<1> DEFINE room == [owner |-> rooms[r].owner, slot |-> [rooms[r].slot EXCEPT ![n + 1] = p],
                    cur |-> n + 1, cap |-> rooms[r].cap, type |-> rooms[r].type]
<1>4. rooms' = [rooms EXCEPT ![r] = room]
  <2>1. room = [rooms[r] EXCEPT !.slot[n + 1] = p, !.cur = n + 1]
    <3>1. GrownFields(rooms[r], n, p) = Grown(rooms[r], n, p)
      BY <1>2, RoomGrown
    <3> QED BY <3>1, Zenon DEF Grown, GrownFields
  <2> HIDE DEF room
  <2>2. rooms' = [rooms EXCEPT ![r] = [rooms[r] EXCEPT !.slot[rooms[r].cur + 1] = p, !.cur = rooms[r].cur + 1]]
    BY <1>1
  <2> QED BY <1>3, <2>1, <2>2, Zenon
<1>5. n + 1 \in 1..MaxGuests /\ n > 0
  <2>1. rooms[r].cap \in 1..MaxGuests /\ MaxGuests \in Nat /\ n > 0
    BY <1>2, <1>3, RoomFields, ChatAssumption
  <2> QED BY <1>1, <1>3, <2>1
<1>6. room \in Room
  BY <1>2, <1>5, RoomFields DEF Room
<1>7. /\ room.cur = n + 1 /\ room.owner = rooms[r].owner
      /\ room.slot[n + 1] = p /\ \A k \in 1..n : room.slot[k] = rooms[r].slot[k]
  <2>1. rooms[r].slot \in [1..MaxGuests -> Players \cup {NoPlayer}]
    BY <1>2, RoomFields
  <2>2. /\ [rooms[r].slot EXCEPT ![n + 1] = p][n + 1] = p
        /\ \A k \in 1..n : [rooms[r].slot EXCEPT ![n + 1] = p][k] = rooms[r].slot[k]
    BY <1>5, <2>1, ChatAssumption
  <2> QED BY <2>2
<1> HIDE DEF room
<1>8. PICK u \in [Players -> RoomIdx \cup {Absent}] : u = [user EXCEPT ![p] = r]
  BY <1>2
<1>9. u[p] = r /\ \A q \in Players : q # p => u[q] = user[q]
  BY <1>2, <1>8
<1>10. Moves(u, r)
  BY <1>1, <1>9 DEF Moves
<1>11. \A k \in 1..n : /\ rooms[r].slot[k] \in Players /\ user[rooms[r].slot[k]] = r
                       /\ rooms[r].slot[k] # p
  BY <1>1, <1>2, <1>3 DEF Fits, Seats
<1>12. \A k \in 1..room.cur : k \in 1..n \/ k = n + 1
  BY <1>7
<1>13. Seats(room)
  <2>1. \A k \in 1..room.cur : room.slot[k] \in Players
    BY <1>7, <1>11, <1>12
  <2>2. \A j, k \in 1..room.cur : room.slot[j] = room.slot[k] => j = k
    BY <1>2, <1>3, <1>7, <1>11, <1>12 DEF Fits, Seats
  <2> QED BY <2>1, <2>2 DEF Seats
<1>14. \A k \in 1..room.cur : u[room.slot[k]] = r
  BY <1>7, <1>9, <1>11, <1>12
<1>15. \A q : SeatedIn(rooms[r], q) => SeatedIn(room, q)
  <2>1. \A k \in 1..n : k \in 1..room.cur
    BY <1>7
  <2> QED BY <1>3, <1>7, <2>1 DEF SeatedIn
<1>16. Fits(room, u, r)
  BY <1>2, <1>7, <1>13, <1>14, <1>15 DEF Fits
<1>17. AllSeated(room, u, r)
  <2>1. SeatedIn(room, p)
    <3>1. n + 1 \in 1..room.cur
      BY <1>7
    <3> QED BY <1>7, <3>1 DEF SeatedIn
  <2>2. \A q \in Players : user[q] = r => SeatedIn(rooms[r], q)
    BY <1>1, <1>2 DEF RoomsOK, Seated
  <2> QED BY <1>9, <1>15, <2>1, <2>2 DEF AllSeated
<1> QED BY <1>1, <1>4, <1>6, <1>8, <1>10, <1>16, <1>17, RoomChanges

(* A guest goes from a room in which others stay. *)
LEMMA GuestGoes ==
  ASSUME RoomsOK, NEW r \in RoomIdx, IsRoom(r), NEW q \in Players, user[q] = r, rooms[r].cur > 1,
         NEW o \in Players, SeatedIn(rooms[r], o), o # q, NEW v \in {0, Absent},
         rooms' = [rooms EXCEPT ![r] = [Compacted(rooms[r], q) EXCEPT !.owner = o]],
         user' = [user EXCEPT ![q] = v]
  PROVE  RoomsOK'
<1>1. /\ r # 0 /\ r # Absent /\ rooms[r] \in Room /\ Fits(rooms[r], user, r)
      /\ user \in [Players -> RoomIdx \cup {Absent}]
  BY NamedRooms DEF RoomsOK
<1>2. Seats(rooms[r]) /\ \A k \in 1..rooms[r].cur : user[rooms[r].slot[k]] = r
  BY <1>1 DEF Fits
<1>3. \A p \in Players : user[p] = r => SeatedIn(rooms[r], p)
  BY <1>1 DEF RoomsOK, Seated
<1>4. SeatedIn(rooms[r], q)
  BY <1>3
<1>5. PICK room \in Room : room = [Compacted(rooms[r], q) EXCEPT !.owner = o]
  BY <1>1, <1>2, <1>4, RoomWithout
<1>6. /\ Seats(room) /\ SeatedIn(room, o) /\ room.owner = o
      /\ \A p : SeatedIn(room, p) <=> SeatedIn(rooms[r], p) /\ p # q
  <2>1. Compacted(rooms[r], q) \in Room
    BY <1>1, <1>2, <1>4, CompactedRoom
  <2>2. room.owner = o
    BY <1>5, <2>1 DEF Room
  <2> QED BY <1>1, <1>2, <1>4, <1>5, <2>2, RoomWithout
<1>7. v \in RoomIdx \cup {Absent} /\ v # r
  BY <1>1, ChatAssumption DEF RoomIdx
<1>8. PICK u \in [Players -> RoomIdx \cup {Absent}] : u = [user EXCEPT ![q] = v]
  BY <1>1, <1>7
<1>9. u[q] = v /\ \A p \in Players : p # q => u[p] = user[p]
  BY <1>1, <1>8
<1>10. Moves(u, r)
  BY <1>9 DEF Moves
<1>11. \A k \in 1..room.cur : u[room.slot[k]] = r
  <2> TAKE k \in 1..room.cur
  <2>1. SeatedIn(room, room.slot[k]) /\ room.slot[k] \in Players
    BY <1>6 DEF SeatedIn, Seats
  <2>2. SeatedIn(rooms[r], room.slot[k]) /\ room.slot[k] # q
    BY <1>6, <2>1
  <2>3. user[room.slot[k]] = r
    BY <1>2, <2>2 DEF SeatedIn
  <2> QED BY <1>9, <2>1, <2>2, <2>3
<1>12. Fits(room, u, r)
  BY <1>6, <1>11 DEF Fits
<1>13. AllSeated(room, u, r)
  BY <1>3, <1>6, <1>7, <1>9 DEF AllSeated
<1>14. rooms' = [rooms EXCEPT ![r] = room]
  BY <1>5
<1> QED BY <1>1, <1>8, <1>10, <1>12, <1>13, <1>14, RoomChanges

(* The last guest goes, and the room with it. *)
LEMMA LastGoes ==
  ASSUME RoomsOK, NEW r \in RoomIdx, IsRoom(r), NEW q \in Players, user[q] = r, rooms[r].cur = 1,
         NEW v \in {0, Absent},
         rooms' = [rooms EXCEPT ![r] = NoRoom],
         user' = [user EXCEPT ![q] = v]
  PROVE  RoomsOK'
<1>1. /\ r # 0 /\ r # Absent /\ rooms[r] \in Room /\ Fits(rooms[r], user, r)
      /\ user \in [Players -> RoomIdx \cup {Absent}]
  BY NamedRooms DEF RoomsOK
<1>2. \A p \in Players : user[p] = r => SeatedIn(rooms[r], p)
  BY <1>1 DEF RoomsOK, Seated
<1>3. \A p \in Players : user[p] = r => p = q
  <2>1. \A k \in 1..rooms[r].cur : k = 1
    OBVIOUS
  <2>2. \A p \in Players : user[p] = r => p = rooms[r].slot[1]
    BY <1>2, <2>1 DEF SeatedIn
  <2> QED BY <2>2
<1>4. v \in RoomIdx \cup {Absent} /\ v # r
  BY <1>1, ChatAssumption DEF RoomIdx
<1>5. PICK u \in [Players -> RoomIdx \cup {Absent}] : u = [user EXCEPT ![q] = v]
  BY <1>1, <1>4
<1>6. u[q] = v /\ \A p \in Players : p # q => u[p] = user[p]
  BY <1>1, <1>5
<1>7. Moves(u, r)
  BY <1>6 DEF Moves
<1>8. \A p \in Players : u[p] # r
  BY <1>3, <1>4, <1>6
<1> QED BY <1>1, <1>5, <1>7, <1>8, RoomGoes

(* What LeaveRoom makes of a room in which others stay: it has an owner    *)
(* that stays.                                                             *)
Heir(room, p) == IF room.owner = p THEN Kept(room, p)[1] ELSE room.owner

LEMMA HeirStays ==
  ASSUME NEW room \in Room, Seats(room), SeatedIn(room, room.owner), NEW p, SeatedIn(room, p), room.cur > 1
  PROVE  Heir(room, p) \in Players /\ SeatedIn(room, Heir(room, p)) /\ Heir(room, p) # p
<1>1. CASE room.owner = p
  <2>1. 1 \in 1..room.cur - 1
    BY RoomFields
  <2>2. \E k \in 1..room.cur : room.slot[k] # p /\ Kept(room, p)[1] = room.slot[k]
    BY <2>1, KeptSeats
  <2> QED BY <1>1, <2>2 DEF Heir, Seats, SeatedIn
<1>2. CASE room.owner # p
  BY <1>2, RoomFields DEF Heir
<1> QED BY <1>1, <1>2

LEMMA LeaveRoomDoes ==
  ASSUME NEW p \in Players, NEW r \in RoomIdx, rooms[r] \in Room, Seats(rooms[r]),
         SeatedIn(rooms[r], p), LeaveRoom(p, r)
  PROVE  \/ /\ rooms[r].cur = 1 /\ DeleteRoom(r)
         \/ /\ rooms[r].cur > 1
            /\ rooms' = [rooms EXCEPT ![r] =
                           [Compacted(rooms[r], p) EXCEPT !.owner = Heir(rooms[r], p)]]
            /\ list' = list /\ titles' = titles
<1>1. CASE rooms[r].cur = 1 /\ DeleteRoom(r)
  BY <1>1
<1>2. CASE ~(rooms[r].cur = 1 /\ DeleteRoom(r))
  <2>1. rooms[r].cur > 1 /\ rooms[r].cur \in Nat
    BY <1>2, RoomFields DEF LeaveRoom
  <2>2. Kept(rooms[r], p) # <<>>
    BY <2>1, KeptOthers
  <2>3. Compacted(rooms[r], p).owner = rooms[r].owner
    BY <2>1, CompactedRoom
  <2>4. /\ rooms' = [rooms EXCEPT ![r] =
              [Compacted(rooms[r], p) EXCEPT
                 !.owner = IF Compacted(rooms[r], p).owner = p
                           THEN IF Kept(rooms[r], p) = <<>> THEN NoPlayer ELSE Kept(rooms[r], p)[1]
                           ELSE Compacted(rooms[r], p).owner]]
        /\ list' = list /\ titles' = titles
    BY <1>2 DEF LeaveRoom
  <2> QED BY <2>1, <2>2, <2>3, <2>4 DEF Heir
<1> QED BY <1>1, <1>2

LEMMA LeaveHolds ==
  ASSUME RoomsOK, NEW p \in Players, InRoom(p), LeaveRoom(p, user[p]), NEW v \in {0, Absent},
         user' = [user EXCEPT ![p] = v]
  PROVE  RoomsOK'
<1>1. PICK r \in RoomIdx : r = user[p]
  BY DEF InRoom, RoomsOK
<1>2. /\ IsRoom(r) /\ rooms[r] \in Room /\ Fits(rooms[r], user, r) /\ SeatedIn(rooms[r], p)
  BY <1>1, NamedRooms DEF InRoom, RoomsOK, Seated
<1>3. Seats(rooms[r]) /\ SeatedIn(rooms[r], rooms[r].owner)
  BY <1>2 DEF Fits
<1>4. LeaveRoom(p, r)
  BY <1>1
<1>5. CASE rooms[r].cur = 1 /\ DeleteRoom(r)
  <2>1. rooms' = [rooms EXCEPT ![r] = NoRoom]
    BY <1>5 DEF DeleteRoom
  <2> QED BY <1>1, <1>2, <1>5, <2>1, LastGoes
<1>6. CASE rooms[r].cur > 1 /\ rooms' = [rooms EXCEPT ![r] =
                           [Compacted(rooms[r], p) EXCEPT !.owner = Heir(rooms[r], p)]]
  <2>1. PICK o \in Players : o = Heir(rooms[r], p) /\ SeatedIn(rooms[r], o) /\ o # p
    BY <1>2, <1>3, <1>6, HeirStays
  <2>2. rooms' = [rooms EXCEPT ![r] = [Compacted(rooms[r], p) EXCEPT !.owner = o]]
    BY <1>6, <2>1
  <2> QED BY <1>1, <1>2, <1>6, <2>1, <2>2, GuestGoes
<1> QED BY <1>2, <1>3, <1>4, <1>5, <1>6, LeaveRoomDoes

LEMMA OutHolds ==
  ASSUME RoomsOK, NEW p \in Players, OutRoomSyn(p)
  PROVE  RoomsOK'
BY LeaveHolds DEF OutRoomSyn

LEMMA LeaveAsHolds ==
  ASSUME RoomsOK, NEW p \in Players, NEW v \in {0, Absent}, NEW e, LeaveAs(p, v, e)
  PROVE  RoomsOK'
<1>1. user' = [user EXCEPT ![p] = v]
  BY DEF LeaveAs
<1>2. CASE InRoom(p)
  BY <1>1, <1>2, LeaveHolds DEF LeaveAs
<1>3. CASE ~InRoom(p)
  <2>1. user[p] \in {0, Absent}
    BY <1>3 DEF RoomsOK, Seated, InRoom
  <2>2. user \in [Players -> RoomIdx \cup {Absent}] /\ v \in RoomIdx \cup {Absent}
    BY ChatAssumption DEF RoomsOK, RoomIdx
  <2>3. PICK u \in [Players -> RoomIdx \cup {Absent}] : u = [user EXCEPT ![p] = v]
    BY <2>2
  <2>4. Moves(u, 0)
    BY <2>1, <2>2, <2>3 DEF Moves
  <2>5. rooms' = rooms
    BY <1>3 DEF LeaveAs
  <2> QED BY <1>1, <2>3, <2>4, <2>5, RoomsStay
<1> QED BY <1>2, <1>3

(* Where requests are in time, a guest that is named is in the room.       *)
LEMMA NamedIsGuest ==
  ASSUME RoomsOK, ~Delayed, NEW p \in Players, NEW q \in Nameable(p), Owns(p, user[p])
  PROVE  \E r \in RoomIdx :
           /\ r = user[p] /\ r = user[q] /\ IsRoom(r) /\ rooms[r].owner = p
           /\ q \in Players /\ q # p
           /\ rooms[r] \in Room /\ rooms[r].cur > 1
           /\ Fits(rooms[r], user, r) /\ SeatedIn(rooms[r], q)
<1>1. PICK r \in RoomIdx : r = user[p]
  BY DEF Owns, RoomsOK
<1>2. q \in Players /\ q # p /\ user[q] = r
  BY <1>1 DEF Nameable
<1>3. IsRoom(r) /\ rooms[r].owner = p
  BY <1>1 DEF Owns
<1>4. r # 0 /\ r # Absent /\ rooms[r] \in Room /\ Fits(rooms[r], user, r)
  BY <1>3, NamedRooms
<1>5. SeatedIn(rooms[r], q) /\ SeatedIn(rooms[r], p)
  BY <1>1, <1>2, <1>4 DEF RoomsOK, Seated
<1>6. rooms[r].cur > 1
  <2>1. PICK i \in 1..rooms[r].cur : rooms[r].slot[i] = q
    BY <1>5 DEF SeatedIn
  <2>2. PICK j \in 1..rooms[r].cur : rooms[r].slot[j] = p
    BY <1>5 DEF SeatedIn
  <2>3. i # j /\ rooms[r].cur \in Nat
    BY <1>2, <1>4, <2>1, <2>2, RoomFields
  <2> QED BY <2>3
<1> QED BY <1>1, <1>2, <1>3, <1>4, <1>5, <1>6

LEMMA KickHolds ==
  ASSUME RoomsOK, ~Delayed, NEW p \in Players, NEW q \in Nameable(p), KickSyn(p, q)
  PROVE  RoomsOK'
<1>1. /\ Owns(p, user[p])
      /\ rooms' = [rooms EXCEPT ![user[p]] = Compacted(rooms[user[p]], q)]
      /\ user' = [user EXCEPT ![q] = 0]
  BY DEF KickSyn
<1>2. PICK r \in RoomIdx :
           /\ r = user[p] /\ r = user[q] /\ IsRoom(r) /\ rooms[r].owner = p
           /\ q \in Players /\ q # p
           /\ rooms[r] \in Room /\ rooms[r].cur > 1
           /\ Fits(rooms[r], user, r) /\ SeatedIn(rooms[r], q)
  BY <1>1, NamedIsGuest
<1>3. SeatedIn(rooms[r], p) /\ Seats(rooms[r])
  BY <1>2 DEF Fits
<1>4. PICK c \in Room : c = Compacted(rooms[r], q) /\ c.owner = p
  BY <1>2, <1>3, CompactedRoom
<1>5. c = [c EXCEPT !.owner = p]
  BY <1>4 DEF Room
<1>6. rooms' = [rooms EXCEPT ![r] = [Compacted(rooms[r], q) EXCEPT !.owner = p]]
  BY <1>1, <1>2, <1>4, <1>5
<1>7. 0 \in {0, Absent}
  OBVIOUS
<1> QED BY <1>1, <1>2, <1>3, <1>6, <1>7, GuestGoes

(* The guests of a room stay, and its owner is one of them. *)
LEMMA GuestsStay ==
  ASSUME RoomsOK, NEW r \in RoomIdx, IsRoom(r), NEW room \in Room,
         room.cur = rooms[r].cur, room.slot = rooms[r].slot, SeatedIn(rooms[r], room.owner),
         rooms' = [rooms EXCEPT ![r] = room], user' = user
  PROVE  RoomsOK'
<1>1. /\ r # 0 /\ r # Absent /\ Fits(rooms[r], user, r)
      /\ user \in [Players -> RoomIdx \cup {Absent}]
  BY NamedRooms DEF RoomsOK
<1>2. \A p : SeatedIn(room, p) <=> SeatedIn(rooms[r], p)
  BY DEF SeatedIn
<1>3. Seats(room)
  BY <1>1 DEF Fits, Seats
<1>4. Fits(room, user, r)
  BY <1>1, <1>2, <1>3 DEF Fits
<1>5. AllSeated(room, user, r)
  BY <1>1, <1>2 DEF AllSeated, RoomsOK, Seated
<1>6. Moves(user, r)
  BY DEF Moves
<1> QED BY <1>1, <1>4, <1>5, <1>6, RoomChanges

LEMMA OwnedRoom ==
  ASSUME NEW room \in Room, NEW q \in Players
  PROVE  /\ [room EXCEPT !.owner = q] \in Room
         /\ [room EXCEPT !.owner = q].owner = q
         /\ [room EXCEPT !.owner = q].slot = room.slot
         /\ [room EXCEPT !.owner = q].cur = room.cur
         /\ [room EXCEPT !.owner = q].cap = room.cap
         /\ [room EXCEPT !.owner = q].type = room.type
BY DEF Room

Opted(room, cap, type) == [room EXCEPT !.cap = cap, !.type = type]

LEMMA OptedRoom ==
  ASSUME NEW room \in Room, NEW cap \in Caps, NEW type \in Types
  PROVE  /\ Opted(room, cap, type) \in Room
         /\ Opted(room, cap, type).owner = room.owner
         /\ Opted(room, cap, type).slot = room.slot
         /\ Opted(room, cap, type).cur = room.cur
         /\ Opted(room, cap, type).cap = cap
         /\ Opted(room, cap, type).type = type
<1>1. PICK b \in Room : b = [room EXCEPT !.cap = cap]
  BY DEF Room
<1>2. b.owner = room.owner /\ b.slot = room.slot /\ b.cur = room.cur /\ b.cap = cap
  BY <1>1 DEF Room
<1>3. PICK c \in Room : c = [b EXCEPT !.type = type]
  BY DEF Room
<1>4. c.owner = b.owner /\ c.slot = b.slot /\ c.cur = b.cur /\ c.cap = b.cap /\ c.type = type
  BY <1>3 DEF Room
<1> QED BY <1>1, <1>2, <1>3, <1>4 DEF Opted

LEMMA OwnerHolds ==
  ASSUME RoomsOK, ~Delayed, NEW p \in Players, NEW q \in Nameable(p), OwnerSyn(p, q)
  PROVE  RoomsOK'
<1>1. /\ Owns(p, user[p])
      /\ rooms' = [rooms EXCEPT ![user[p]].owner = q]
      /\ user' = user
  BY DEF OwnerSyn
<1>2. PICK r \in RoomIdx :
           /\ r = user[p] /\ r = user[q] /\ IsRoom(r) /\ rooms[r].owner = p
           /\ q \in Players /\ q # p
           /\ rooms[r] \in Room /\ rooms[r].cur > 1
           /\ Fits(rooms[r], user, r) /\ SeatedIn(rooms[r], q)
  BY <1>1, NamedIsGuest
<1>3. PICK room \in Room : room = [rooms[r] EXCEPT !.owner = q]
  BY <1>2, OwnedRoom
<1>4. room.owner = q /\ room.slot = rooms[r].slot /\ room.cur = rooms[r].cur
  BY <1>2, <1>3, OwnedRoom
<1>5. rooms' = [rooms EXCEPT ![r] = room]
  <2>1. rooms' = [rooms EXCEPT ![r] = [rooms[r] EXCEPT !.owner = q]]
    BY <1>1, <1>2
  <2> QED BY <1>3, <2>1
<1> QED BY <1>1, <1>2, <1>4, <1>5, GuestsStay

LEMMA OptionHolds ==
  ASSUME RoomsOK, NEW p \in Players, NEW cap \in Caps, NEW type \in Types, OptionSyn(p, cap, type)
  PROVE  RoomsOK'
<1>1. PICK r \in RoomIdx : r = user[p]
  BY DEF OptionSyn, Owns, RoomsOK
<1>2. /\ IsRoom(r) /\ rooms[r].owner = p /\ user' = user
      /\ rooms' = [rooms EXCEPT ![r] = Opted(rooms[r], cap, type)]
  BY <1>1 DEF OptionSyn, Owns, Opted
<1>3. rooms[r] \in Room /\ Fits(rooms[r], user, r)
  BY <1>2, NamedRooms
<1>4. PICK room \in Room : room = Opted(rooms[r], cap, type)
  BY <1>3, OptedRoom
<1>5. room.owner = rooms[r].owner /\ room.slot = rooms[r].slot /\ room.cur = rooms[r].cur
  BY <1>3, <1>4, OptedRoom
<1>6. SeatedIn(rooms[r], room.owner)
  BY <1>3, <1>5 DEF Fits
<1>7. rooms' = [rooms EXCEPT ![r] = room]
  BY <1>2, <1>4
<1> QED BY <1>2, <1>5, <1>6, <1>7, GuestsStay

LEMMA AddHolds ==
  ASSUME RoomsOK, NEW p \in Players, AddUserSyn(p)
  PROVE  RoomsOK'
<1>1. user[p] = Absent /\ user' = [user EXCEPT ![p] = 0] /\ rooms' = rooms
  BY DEF AddUserSyn, Registered
<1>2. user \in [Players -> RoomIdx \cup {Absent}] /\ 0 \in RoomIdx \cup {Absent}
  BY ChatAssumption DEF RoomsOK, RoomIdx
<1>3. PICK u \in [Players -> RoomIdx \cup {Absent}] : u = [user EXCEPT ![p] = 0]
  BY <1>2
<1>4. Moves(u, 0)
  BY <1>1, <1>2, <1>3 DEF Moves
<1> QED BY <1>1, <1>3, <1>4, RoomsStay

LEMMA RoomsInv ==
  ASSUME RoomsOK, ~Delayed, [Next]_vars, RoomLeft
  PROVE  RoomsOK'
<1>1. CASE UNCHANGED vars
  BY <1>1 DEF vars, RoomsOK, IsRoom, Seated
<1>2. CASE Next
  <2> PICK p \in Players : Request(p) \/ Registration(p)
    BY <1>2 DEF Next
  <2>1. CASE Request(p)
    <3>1. ASSUME NEW cap \in Caps, NEW type \in Types,
                 CreateRoomSyn(p, cap, type) \/ OptionSyn(p, cap, type)
          PROVE  RoomsOK'
      BY <3>1, CreateHolds, OptionHolds DEF RoomLeft
    <3>2. ASSUME NEW r \in RoomIdx, JoinRoomSyn(p, r) PROVE RoomsOK'
      BY <3>2, JoinHolds
    <3>3. ASSUME OutRoomSyn(p) PROVE RoomsOK'
      BY <3>3, OutHolds
    <3>4. ASSUME NEW q \in Nameable(p), OwnerSyn(p, q) \/ KickSyn(p, q) PROVE RoomsOK'
      BY <3>4, OwnerHolds, KickHolds
    <3>5. ASSUME UpdateUserInfo(p) PROVE RoomsOK'
      BY <3>5 DEF UpdateUserInfo, RoomsOK, IsRoom, Seated
    <3> QED BY <2>1, <3>1, <3>2, <3>3, <3>4, <3>5 DEF Request
  <2>2. CASE AddUserSyn(p)
    BY <2>2, AddHolds
  <2>3. CASE ForceAddUserSyn(p)
    BY <2>3, LeaveAsHolds DEF ForceAddUserSyn
  <2>4. CASE DelUserSyn(p)
    BY <2>4, LeaveAsHolds DEF DelUserSyn
  <2> QED BY <2>1, <2>2, <2>3, <2>4 DEF Registration
<1> QED BY <1>1, <1>2

-----------------------------------------------------------------------------
(* What a step makes of the rooms, their list and their titles. *)

SeatsSame(room, c) == c.cur = room.cur /\ c.slot = room.slot

Joined(room, c, p) ==
  /\ c.cur = room.cur + 1 /\ c.slot[c.cur] = p /\ ~SeatedIn(room, p)
  /\ \A k \in 1..room.cur : c.slot[k] = room.slot[k]
  /\ c.owner = room.owner

Left(room, c, q) ==
  /\ SeatedIn(room, q) /\ room.cur > 1 /\ c.cur = room.cur - 1
  /\ \A n \in 1..c.cur : c.slot[n] = Kept(room, q)[n]
  /\ c.owner = Heir(room, q)

Succeeds(room, c) ==
  \/ SeatsSame(room, c)
  \/ \E p \in Players : Joined(room, c, p) \/ Left(room, c, p)

Added(r, c) == ~IsRoom(r) /\ AddRoom(r, c)

Altered(r, c) ==
  /\ IsRoom(r)
  /\ rooms' = [rooms EXCEPT ![r] = c] /\ list' = list
  /\ Succeeds(rooms[r], c)
  /\ \/ titles' = titles /\ c.cap = rooms[r].cap /\ c.type = rooms[r].type
     \/ titles' = [titles EXCEPT ![r] = SearchTitle(c)]

Untouched == rooms' = rooms /\ list' = list /\ titles' = titles

Shaped ==
  \/ \E r \in RoomIdx, c \in Room : Added(r, c) \/ Altered(r, c)
  \/ \E r \in RoomIdx : IsRoom(r) /\ DeleteRoom(r)
  \/ Untouched

LEMMA CreateShaped ==
  ASSUME RoomsOK, NEW p \in Players, NEW cap \in Caps, NEW type \in Types,
         CreateRoomSyn(p, cap, type), GetEmptyRoomIdx # 0
  PROVE  Shaped
<1>1. PICK r \in RoomIdx : r = GetEmptyRoomIdx /\ ~IsRoom(r)
  BY EmptyRoomIdx
<1>2. AddRoom(r, NewRoom(p, cap, type))
  BY <1>1 DEF CreateRoomSyn, NewRoom
<1>3. PICK room \in Room : room = NewRoom(p, cap, type)
  BY NewRoomIs
<1> QED BY <1>1, <1>2, <1>3 DEF Shaped, Added

LEMMA JoinShaped ==
  ASSUME RoomsOK, NEW p \in Players, NEW r \in RoomIdx, JoinRoomSyn(p, r)
  PROVE  Shaped
<1>1. /\ user[p] = 0 /\ r # 0 /\ IsRoom(r) /\ rooms[r].cur < rooms[r].cap
      /\ rooms' = [rooms EXCEPT ![r].slot[rooms[r].cur + 1] = p, ![r].cur = @ + 1]
      /\ list' = list /\ titles' = titles
  BY DEF JoinRoomSyn
<1>2. /\ rooms[r] \in Room /\ Fits(rooms[r], user, r)
      /\ rooms \in [RoomIdx -> Room \cup {NoRoom}]
  BY <1>1, NamedRooms DEF RoomsOK
<1>3. PICK n \in Nat : n = rooms[r].cur
  BY <1>2, RoomFields
<1> DEFINE room == [owner |-> rooms[r].owner, slot |-> [rooms[r].slot EXCEPT ![n + 1] = p],
                    cur |-> n + 1, cap |-> rooms[r].cap, type |-> rooms[r].type]
<1>4. rooms' = [rooms EXCEPT ![r] = room]
  <2>1. room = [rooms[r] EXCEPT !.slot[n + 1] = p, !.cur = n + 1]
    <3>1. GrownFields(rooms[r], n, p) = Grown(rooms[r], n, p)
      BY <1>2, RoomGrown
    <3> QED BY <3>1, Zenon DEF Grown, GrownFields
  <2> HIDE DEF room
  <2>2. rooms' = [rooms EXCEPT ![r] = [rooms[r] EXCEPT !.slot[rooms[r].cur + 1] = p, !.cur = rooms[r].cur + 1]]
    BY <1>1
  <2> QED BY <1>3, <2>1, <2>2, Zenon
<1>5. n + 1 \in 1..MaxGuests /\ n > 0
  <2>1. rooms[r].cap \in 1..MaxGuests /\ MaxGuests \in Nat /\ n > 0
    BY <1>2, <1>3, RoomFields, ChatAssumption
  <2> QED BY <1>1, <1>3, <2>1
<1>6. room \in Room
  BY <1>2, <1>5, RoomFields DEF Room
<1>7. /\ room.cur = n + 1 /\ room.owner = rooms[r].owner
      /\ room.cap = rooms[r].cap /\ room.type = rooms[r].type
      /\ room.slot[n + 1] = p /\ \A k \in 1..n : room.slot[k] = rooms[r].slot[k]
  <2>1. rooms[r].slot \in [1..MaxGuests -> Players \cup {NoPlayer}]
    BY <1>2, RoomFields
  <2>2. /\ [rooms[r].slot EXCEPT ![n + 1] = p][n + 1] = p
        /\ \A k \in 1..n : [rooms[r].slot EXCEPT ![n + 1] = p][k] = rooms[r].slot[k]
    BY <1>5, <2>1, ChatAssumption
  <2> QED BY <2>2
<1> HIDE DEF room
<1>8. ~SeatedIn(rooms[r], p)
  BY <1>1, <1>2 DEF Fits, SeatedIn
<1>9. Joined(rooms[r], room, p)
  BY <1>3, <1>7, <1>8 DEF Joined
<1>10. Altered(r, room)
  BY <1>1, <1>4, <1>7, <1>9 DEF Altered, Succeeds
<1> QED BY <1>6, <1>10 DEF Shaped

LEMMA GoneShaped ==
  ASSUME RoomsOK, NEW r \in RoomIdx, IsRoom(r), NEW q \in Players, user[q] = r, rooms[r].cur > 1,
         rooms' = [rooms EXCEPT ![r] = [Compacted(rooms[r], q) EXCEPT !.owner = Heir(rooms[r], q)]],
         list' = list, titles' = titles
  PROVE  Shaped
<1>1. /\ r # 0 /\ r # Absent /\ rooms[r] \in Room /\ Fits(rooms[r], user, r)
      /\ SeatedIn(rooms[r], q)
  BY NamedRooms DEF RoomsOK, Seated
<1>2. Seats(rooms[r]) /\ SeatedIn(rooms[r], rooms[r].owner)
  BY <1>1 DEF Fits
<1>3. PICK o \in Players : o = Heir(rooms[r], q)
  BY <1>1, <1>2, HeirStays
<1>4. PICK c \in Room :
        /\ c = Compacted(rooms[r], q) /\ c.cur = rooms[r].cur - 1
        /\ \A n \in 1..rooms[r].cur - 1 : c.slot[n] = Kept(rooms[r], q)[n]
        /\ c.cap = rooms[r].cap /\ c.type = rooms[r].type
  BY <1>1, <1>2, CompactedRoom
<1>5. PICK room \in Room : room = [c EXCEPT !.owner = o]
  BY OwnedRoom
<1>6. room.owner = o /\ room.slot = c.slot /\ room.cur = c.cur /\ room.cap = c.cap /\ room.type = c.type
  BY <1>5, OwnedRoom
<1>7. rooms' = [rooms EXCEPT ![r] = room]
  BY <1>3, <1>4, <1>5
<1>8. Left(rooms[r], room, q)
  BY <1>1, <1>3, <1>4, <1>6 DEF Left
<1>9. Altered(r, room)
  BY <1>4, <1>6, <1>7, <1>8 DEF Altered, Succeeds
<1> QED BY <1>9 DEF Shaped

LEMMA LeaveShaped ==
  ASSUME RoomsOK, NEW p \in Players, InRoom(p), LeaveRoom(p, user[p])
  PROVE  Shaped
<1>1. PICK r \in RoomIdx : r = user[p]
  BY DEF InRoom, RoomsOK
<1>2. /\ IsRoom(r) /\ rooms[r] \in Room /\ Fits(rooms[r], user, r) /\ SeatedIn(rooms[r], p)
  BY <1>1, NamedRooms DEF InRoom, RoomsOK, Seated
<1>3. Seats(rooms[r]) /\ LeaveRoom(p, r)
  BY <1>1, <1>2 DEF Fits
<1>4. CASE rooms[r].cur = 1 /\ DeleteRoom(r)
  BY <1>2, <1>4 DEF Shaped
<1>5. CASE /\ rooms[r].cur > 1
           /\ rooms' = [rooms EXCEPT ![r] =
                           [Compacted(rooms[r], p) EXCEPT !.owner = Heir(rooms[r], p)]]
           /\ list' = list /\ titles' = titles
  BY <1>1, <1>2, <1>5, GoneShaped
<1> QED BY <1>2, <1>3, <1>4, <1>5, LeaveRoomDoes

LEMMA KickShaped ==
  ASSUME RoomsOK, ~Delayed, NEW p \in Players, NEW q \in Nameable(p), KickSyn(p, q)
  PROVE  Shaped
<1>1. /\ Owns(p, user[p])
      /\ rooms' = [rooms EXCEPT ![user[p]] = Compacted(rooms[user[p]], q)]
      /\ list' = list /\ titles' = titles
  BY DEF KickSyn
<1>2. PICK r \in RoomIdx :
           /\ r = user[p] /\ r = user[q] /\ IsRoom(r) /\ rooms[r].owner = p
           /\ q \in Players /\ q # p
           /\ rooms[r] \in Room /\ rooms[r].cur > 1
           /\ Fits(rooms[r], user, r) /\ SeatedIn(rooms[r], q)
  BY <1>1, NamedIsGuest
<1>3. PICK c \in Room : c = Compacted(rooms[r], q) /\ c.owner = p
  BY <1>2, CompactedRoom DEF Fits
<1>4. c = [c EXCEPT !.owner = p]
  BY <1>3 DEF Room
<1>5. p = Heir(rooms[r], q)
  BY <1>2 DEF Heir
<1>6. rooms' = [rooms EXCEPT ![r] = [Compacted(rooms[r], q) EXCEPT !.owner = Heir(rooms[r], q)]]
  BY <1>1, <1>2, <1>3, <1>4, <1>5
<1> QED BY <1>1, <1>2, <1>6, GoneShaped

LEMMA OwnerShaped ==
  ASSUME RoomsOK, ~Delayed, NEW p \in Players, NEW q \in Nameable(p), OwnerSyn(p, q)
  PROVE  Shaped
<1>1. /\ Owns(p, user[p])
      /\ rooms' = [rooms EXCEPT ![user[p]].owner = q]
      /\ list' = list /\ titles' = titles
  BY DEF OwnerSyn
<1>2. PICK r \in RoomIdx :
           /\ r = user[p] /\ r = user[q] /\ IsRoom(r) /\ rooms[r].owner = p
           /\ q \in Players /\ q # p
           /\ rooms[r] \in Room /\ rooms[r].cur > 1
           /\ Fits(rooms[r], user, r) /\ SeatedIn(rooms[r], q)
  BY <1>1, NamedIsGuest
<1>3. PICK room \in Room : room = [rooms[r] EXCEPT !.owner = q]
  BY <1>2, OwnedRoom
<1>4. /\ SeatsSame(rooms[r], room)
      /\ room.cap = rooms[r].cap /\ room.type = rooms[r].type
  BY <1>2, <1>3, OwnedRoom DEF SeatsSame
<1>5. rooms' = [rooms EXCEPT ![r] = room]
  <2>1. rooms' = [rooms EXCEPT ![r] = [rooms[r] EXCEPT !.owner = q]]
    BY <1>1, <1>2
  <2> QED BY <1>3, <2>1
<1>6. Altered(r, room)
  BY <1>1, <1>2, <1>4, <1>5 DEF Altered, Succeeds
<1> QED BY <1>6 DEF Shaped

LEMMA OptionShaped ==
  ASSUME RoomsOK, NEW p \in Players, NEW cap \in Caps, NEW type \in Types, OptionSyn(p, cap, type)
  PROVE  Shaped
<1>1. PICK r \in RoomIdx : r = user[p]
  BY DEF OptionSyn, Owns, RoomsOK
<1>2. /\ IsRoom(r) /\ list' = list
      /\ rooms' = [rooms EXCEPT ![r] = Opted(rooms[r], cap, type)]
      /\ titles' = [titles EXCEPT ![r] = SearchTitle(Opted(rooms[r], cap, type))]
  BY <1>1 DEF OptionSyn, Owns, Opted
<1>3. rooms[r] \in Room
  BY <1>2, NamedRooms
<1>4. PICK room \in Room : room = Opted(rooms[r], cap, type)
  BY <1>3, OptedRoom
<1>5. SeatsSame(rooms[r], room)
  BY <1>3, <1>4, OptedRoom DEF SeatsSame
<1>6. Altered(r, room)
  BY <1>2, <1>4, <1>5 DEF Altered, Succeeds
<1> QED BY <1>6 DEF Shaped

LEMMA LeaveAsShaped ==
  ASSUME RoomsOK, NEW p \in Players, NEW v, NEW e, LeaveAs(p, v, e)
  PROVE  Shaped
<1>1. CASE InRoom(p)
  BY <1>1, LeaveShaped DEF LeaveAs
<1>2. CASE ~InRoom(p)
  BY <1>2 DEF LeaveAs, Shaped, Untouched
<1> QED BY <1>1, <1>2

LEMMA StepShaped ==
  ASSUME RoomsOK, ~Delayed, [Next]_vars, RoomLeft
  PROVE  Shaped
<1>1. CASE UNCHANGED vars
  BY <1>1 DEF vars, Shaped, Untouched
<1>2. CASE Next
  <2> PICK p \in Players : Request(p) \/ Registration(p)
    BY <1>2 DEF Next
  <2>1. CASE Request(p)
    <3>1. ASSUME NEW cap \in Caps, NEW type \in Types,
                 CreateRoomSyn(p, cap, type) \/ OptionSyn(p, cap, type)
          PROVE  Shaped
      BY <3>1, CreateShaped, OptionShaped DEF RoomLeft
    <3>2. ASSUME NEW r \in RoomIdx, JoinRoomSyn(p, r) PROVE Shaped
      BY <3>2, JoinShaped
    <3>3. ASSUME OutRoomSyn(p) PROVE Shaped
      BY <3>3, LeaveShaped DEF OutRoomSyn
    <3>4. ASSUME NEW q \in Nameable(p), OwnerSyn(p, q) \/ KickSyn(p, q) PROVE Shaped
      BY <3>4, OwnerShaped, KickShaped
    <3>5. ASSUME UpdateUserInfo(p) PROVE Shaped
      BY <3>5 DEF UpdateUserInfo, Shaped, Untouched
    <3> QED BY <2>1, <3>1, <3>2, <3>3, <3>4, <3>5 DEF Request
  <2>2. CASE AddUserSyn(p)
    BY <2>2 DEF AddUserSyn, Shaped, Untouched
  <2>3. CASE ForceAddUserSyn(p)
    BY <2>3, LeaveAsShaped DEF ForceAddUserSyn
  <2>4. CASE DelUserSyn(p)
    BY <2>4, LeaveAsShaped DEF DelUserSyn
  <2> QED BY <2>1, <2>2, <2>3, <2>4 DEF Registration
<1> QED BY <1>1, <1>2

-----------------------------------------------------------------------------
(* The list has every room once, and every room has its title. *)

ListOK ==
  /\ list \in Seq(RoomIdx)
  /\ \A i \in 1..Len(list) : IsRoom(list[i])
  /\ \A i, j \in 1..Len(list) : list[i] = list[j] => i = j
  /\ \A r \in RoomIdx : IsRoom(r) => \E i \in 1..Len(list) : list[i] = r

TitlesOK ==
  /\ titles \in [RoomIdx -> Title \cup {NoRoom}]
  /\ \A r \in RoomIdx : (titles[r] # NoRoom) <=> IsRoom(r)
  /\ \A r \in RoomIdx : IsRoom(r) => titles[r].cap = rooms[r].cap /\ titles[r].type = rooms[r].type

LEMMA TitleOf ==
  ASSUME NEW c \in Room
  PROVE  /\ SearchTitle(c) \in Title /\ SearchTitle(c) # NoRoom
         /\ SearchTitle(c).cap = c.cap /\ SearchTitle(c).type = c.type
<1>1. SearchTitle(c) \in Title
  BY RoomFields DEF SearchTitle, Title
<1> QED BY <1>1, NoRoomAssumption DEF SearchTitle

LEMMA ListHas ==
  ASSUME ListOK
  PROVE  \E n \in Nat :
           /\ n = Len(list) /\ DOMAIN list = 1..n
           /\ \A i \in 1..n : list[i] \in RoomIdx /\ rooms[list[i]] # NoRoom
           /\ \A i, j \in 1..n : list[i] = list[j] => i = j
           /\ \A r \in RoomIdx : rooms[r] # NoRoom => \E i \in 1..n : list[i] = r
<1>1. list \in Seq(RoomIdx)
  BY DEF ListOK
<1>2. PICK n \in Nat : n = Len(list)
  BY <1>1, LenProperties
<1>3. DOMAIN list = 1..n
  BY <1>1, <1>2, LenProperties
<1>4. \A i \in 1..n : list[i] \in RoomIdx
  BY <1>1, <1>2, ElementOfSeq
<1>5. /\ \A i \in 1..n : rooms[list[i]] # NoRoom
      /\ \A i, j \in 1..n : list[i] = list[j] => i = j
      /\ \A r \in RoomIdx : rooms[r] # NoRoom => \E i \in 1..n : list[i] = r
  BY <1>2 DEF ListOK, IsRoom
<1> QED BY <1>2, <1>3, <1>4, <1>5

LEMMA ListHolds ==
  ASSUME NEW l \in Seq(RoomIdx), NEW n, n = Len(l), list' = l,
         \A i \in 1..n : rooms'[l[i]] # NoRoom,
         \A i, j \in 1..n : l[i] = l[j] => i = j,
         \A r \in RoomIdx : rooms'[r] # NoRoom => \E i \in 1..n : l[i] = r
  PROVE  ListOK'
BY DEF ListOK, IsRoom

LEMMA ListGrows ==
  ASSUME RoomsOK, ListOK, NEW r \in RoomIdx, NEW c \in Room, Added(r, c)
  PROVE  ListOK'
<1>1. rooms[r] = NoRoom /\ rooms' = [rooms EXCEPT ![r] = c] /\ list' = Append(list, r)
  BY DEF Added, AddRoom, IsRoom
<1>2. rooms'[r] = c /\ \A s \in RoomIdx : s # r => rooms'[s] = rooms[s]
  BY <1>1 DEF RoomsOK
<1>3. PICK n \in Nat :
           /\ n = Len(list) /\ DOMAIN list = 1..n
           /\ \A i \in 1..n : list[i] \in RoomIdx /\ rooms[list[i]] # NoRoom
           /\ \A i, j \in 1..n : list[i] = list[j] => i = j
           /\ \A s \in RoomIdx : rooms[s] # NoRoom => \E i \in 1..n : list[i] = s
  BY ListHas
<1>4. PICK l \in Seq(RoomIdx) :
           /\ list' = l /\ Len(l) = n + 1 /\ l[n + 1] = r
           /\ \A i \in 1..n : l[i] = list[i]
  BY <1>1, <1>3, AppendProperties DEF ListOK
<1>5. \A i \in 1..(n + 1) : i \in 1..n \/ i = n + 1
  OBVIOUS
<1>6. \A i \in 1..n : list[i] # r
  BY <1>1, <1>3
<1>7. \A i \in 1..(n + 1) : rooms'[l[i]] # NoRoom
  BY <1>2, <1>3, <1>4, <1>5, NoRoomAssumption
<1>8. \A i, j \in 1..(n + 1) : l[i] = l[j] => i = j
  BY <1>3, <1>4, <1>5, <1>6
<1>9. ASSUME NEW s \in RoomIdx, rooms'[s] # NoRoom PROVE \E i \in 1..(n + 1) : l[i] = s
  <2>1. CASE s = r
    BY <1>4, <2>1
  <2>2. CASE s # r
    <3>1. PICK i \in 1..n : list[i] = s
      BY <1>2, <1>3, <1>9, <2>2
    <3>2. i \in 1..(n + 1)
      OBVIOUS
    <3> QED BY <1>4, <3>1, <3>2
  <2> QED BY <2>1, <2>2
<1> QED BY <1>4, <1>7, <1>8, <1>9, ListHolds

LEMMA ListShrinks ==
  ASSUME RoomsOK, ListOK, NEW r \in RoomIdx, DeleteRoom(r)
  PROVE  ListOK'
<1>1. rooms' = [rooms EXCEPT ![r] = NoRoom] /\ list' = EntriesAt(list, {k \in DOMAIN list : list[k] # r})
  BY DEF DeleteRoom
<1>2. rooms'[r] = NoRoom /\ \A s \in RoomIdx : s # r => rooms'[s] = rooms[s]
  BY <1>1 DEF RoomsOK
<1>3. PICK n \in Nat :
           /\ n = Len(list) /\ DOMAIN list = 1..n
           /\ \A i \in 1..n : list[i] \in RoomIdx /\ rooms[list[i]] # NoRoom
           /\ \A i, j \in 1..n : list[i] = list[j] => i = j
           /\ \A s \in RoomIdx : rooms[s] # NoRoom => \E i \in 1..n : list[i] = s
  BY ListHas
<1>4. PICK P \in SUBSET (1..n) : P = {k \in 1..n : list[k] # r}
  OBVIOUS
<1>5. P \in SUBSET Nat /\ IsFiniteSet(P)
  <2>1. IsFiniteSet(P)
    BY PlacesFinite
  <2>2. P \in SUBSET Nat
    OBVIOUS
  <2> QED BY <2>1, <2>2
<1>6. PICK m \in Nat : m = Cardinality(P)
  BY PlacesFinite
<1>7. \A j \in P : list[j] \in RoomIdx
  BY <1>3
<1>8. PICK l : l = EntriesAt(list, P)
  OBVIOUS
<1>9. l \in Seq(RoomIdx) /\ Len(l) = m /\ list' = l
  <2>1. list' = l
    BY <1>1, <1>3, <1>4, <1>8
  <2>2. l \in Seq(RoomIdx) /\ Len(l) = m
    BY <1>5, <1>6, <1>7, <1>8, EntriesInSeq
  <2> QED BY <2>1, <2>2
<1>10. \A i \in 1..m : PlaceOf(P, i) \in P /\ l[i] = list[PlaceOf(P, i)]
  BY <1>5, <1>6, <1>8, PlaceOfEntry
<1>11. \A i \in 1..m : rooms'[l[i]] # NoRoom
  <2> TAKE i \in 1..m
  <2>1. PICK k \in 1..n : l[i] = list[k] /\ list[k] # r
    BY <1>4, <1>10
  <2> QED BY <1>2, <1>3, <2>1
<1>12. ASSUME NEW i \in 1..m, NEW j \in 1..m, l[i] = l[j] PROVE i = j
  <2>1. PlaceOf(P, i) \in 1..n /\ PlaceOf(P, j) \in 1..n
    BY <1>10
  <2>2. PlaceOf(P, i) = PlaceOf(P, j)
    BY <1>3, <1>10, <1>12, <2>1
  <2> QED BY <1>5, <1>6, <2>2, PlacesDiffer
<1>13. ASSUME NEW s \in RoomIdx, rooms'[s] # NoRoom PROVE \E i \in 1..m : l[i] = s
  <2>1. PICK k \in 1..n : list[k] = s /\ s # r
    BY <1>2, <1>3, <1>13
  <2>2. k \in P
    BY <1>4, <2>1
  <2>3. Rank(P, k) \in 1..m /\ l[Rank(P, k)] = list[k]
    BY <1>5, <1>6, <1>8, <2>2, EntryOfPlace
  <2> QED BY <2>1, <2>3
<1> QED BY <1>9, <1>11, <1>12, <1>13, ListHolds

LEMMA ListStays ==
  ASSUME ListOK, list' = list, \A r \in RoomIdx : IsRoom(r)' <=> IsRoom(r)
  PROVE  ListOK'
<1>1. PICK n \in Nat :
           /\ n = Len(list) /\ DOMAIN list = 1..n
           /\ \A i \in 1..n : list[i] \in RoomIdx /\ rooms[list[i]] # NoRoom
           /\ \A i, j \in 1..n : list[i] = list[j] => i = j
           /\ \A s \in RoomIdx : rooms[s] # NoRoom => \E i \in 1..n : list[i] = s
  BY ListHas
<1>2. \A r \in RoomIdx : rooms'[r] # NoRoom <=> rooms[r] # NoRoom
  BY DEF IsRoom
<1>3. PICK l \in Seq(RoomIdx) : l = list
  BY DEF ListOK
<1> QED BY <1>1, <1>2, <1>3, ListHolds

LEMMA IndexInv ==
  ASSUME RoomsOK, RoomsOK', ListOK, TitlesOK, Shaped
  PROVE  ListOK' /\ TitlesOK'
<1>1. ASSUME NEW r \in RoomIdx, NEW c \in Room, Added(r, c) PROVE ListOK' /\ TitlesOK'
  <2>1. ~IsRoom(r) /\ rooms' = [rooms EXCEPT ![r] = c] /\ titles' = [titles EXCEPT ![r] = SearchTitle(c)]
    BY <1>1 DEF Added, AddRoom
  <2>2. c # NoRoom /\ rooms'[r] = c /\ \A s \in RoomIdx : s # r => rooms'[s] = rooms[s]
    BY <2>1, NoRoomAssumption DEF RoomsOK
  <2>3. /\ titles' \in [RoomIdx -> Title \cup {NoRoom}]
        /\ titles'[r] = SearchTitle(c) /\ \A s \in RoomIdx : s # r => titles'[s] = titles[s]
    BY <2>1, TitleOf DEF TitlesOK
  <2>4. SearchTitle(c) # NoRoom /\ SearchTitle(c).cap = c.cap /\ SearchTitle(c).type = c.type
    BY TitleOf
  <2>5. \A s \in RoomIdx : titles'[s] # NoRoom <=> rooms'[s] # NoRoom
    BY <2>2, <2>3, <2>4 DEF TitlesOK, IsRoom
  <2>6. \A s \in RoomIdx : rooms'[s] # NoRoom =>
          titles'[s].cap = rooms'[s].cap /\ titles'[s].type = rooms'[s].type
    BY <2>2, <2>3, <2>4 DEF TitlesOK, IsRoom
  <2>7. TitlesOK'
    BY <2>3, <2>5, <2>6 DEF TitlesOK, IsRoom
  <2> QED BY <1>1, <2>7, ListGrows
<1>2. ASSUME NEW r \in RoomIdx, NEW c \in Room, Altered(r, c) PROVE ListOK' /\ TitlesOK'
  <2>1. IsRoom(r) /\ rooms' = [rooms EXCEPT ![r] = c] /\ list' = list
    BY <1>2 DEF Altered
  <2>2. c # NoRoom /\ rooms'[r] = c /\ \A s \in RoomIdx : s # r => rooms'[s] = rooms[s]
    BY <2>1, NoRoomAssumption DEF RoomsOK
  <2>3. \A s \in RoomIdx : IsRoom(s)' <=> IsRoom(s)
    BY <2>1, <2>2 DEF IsRoom
  <2>4. ListOK'
    BY <2>1, <2>3, ListStays
  <2>5. CASE titles' = titles /\ c.cap = rooms[r].cap /\ c.type = rooms[r].type
    <3>1. TitlesOK'
      <4>1. \A s \in RoomIdx : rooms'[s] # NoRoom <=> rooms[s] # NoRoom
        BY <2>3 DEF IsRoom
      <4>2. \A s \in RoomIdx : rooms'[s] # NoRoom =>
              titles[s].cap = rooms'[s].cap /\ titles[s].type = rooms'[s].type
        BY <2>2, <2>5, <4>1 DEF TitlesOK, IsRoom
      <4> QED BY <2>5, <4>1, <4>2 DEF TitlesOK, IsRoom
    <3> QED BY <2>4, <3>1
  <2>6. CASE titles' = [titles EXCEPT ![r] = SearchTitle(c)]
    <3>1. /\ titles' \in [RoomIdx -> Title \cup {NoRoom}]
          /\ titles'[r] = SearchTitle(c) /\ \A s \in RoomIdx : s # r => titles'[s] = titles[s]
      BY <2>6, TitleOf DEF TitlesOK
    <3>2. SearchTitle(c) # NoRoom /\ SearchTitle(c).cap = c.cap /\ SearchTitle(c).type = c.type
      BY TitleOf
    <3>3. \A s \in RoomIdx : titles'[s] # NoRoom <=> rooms'[s] # NoRoom
      BY <2>1, <2>2, <3>1, <3>2 DEF TitlesOK, IsRoom
    <3>4. \A s \in RoomIdx : rooms'[s] # NoRoom =>
            titles'[s].cap = rooms'[s].cap /\ titles'[s].type = rooms'[s].type
      BY <2>2, <3>1, <3>2 DEF TitlesOK, IsRoom
    <3>5. TitlesOK'
      BY <3>1, <3>3, <3>4 DEF TitlesOK, IsRoom
    <3> QED BY <2>4, <3>5
  <2> QED BY <1>2, <2>4, <2>5, <2>6 DEF Altered
<1>3. ASSUME NEW r \in RoomIdx, DeleteRoom(r) PROVE ListOK' /\ TitlesOK'
  <2>1. rooms' = [rooms EXCEPT ![r] = NoRoom] /\ titles' = [titles EXCEPT ![r] = NoRoom]
    BY <1>3 DEF DeleteRoom
  <2>2. rooms'[r] = NoRoom /\ \A s \in RoomIdx : s # r => rooms'[s] = rooms[s]
    BY <2>1 DEF RoomsOK
  <2>3. /\ titles' \in [RoomIdx -> Title \cup {NoRoom}]
        /\ titles'[r] = NoRoom /\ \A s \in RoomIdx : s # r => titles'[s] = titles[s]
    BY <2>1 DEF TitlesOK
  <2>4. TitlesOK'
    BY <2>2, <2>3 DEF TitlesOK, IsRoom
  <2> QED BY <1>3, <2>4, ListShrinks
<1>4. ASSUME Untouched PROVE ListOK' /\ TitlesOK'
  <2>1. rooms' = rooms /\ list' = list /\ titles' = titles
    BY <1>4 DEF Untouched
  <2>2. ListOK'
    BY <2>1, ListStays DEF IsRoom
  <2> QED BY <2>1, <2>2 DEF TitlesOK, IsRoom
<1> QED BY <1>1, <1>2, <1>3, <1>4 DEF Shaped

-----------------------------------------------------------------------------
(* The index of names follows the table of players. *)

SearchOK ==
  /\ search \in [Players -> RoomIdx \cup {Absent}]
  /\ \A p \in Players : search[p] = IF user[p] \in {0, Absent} THEN Absent ELSE user[p]

LEMMA SearchHolds ==
  ASSUME RoomsOK, SearchOK, NEW p \in Players, NEW v \in RoomIdx \cup {Absent},
         user' = [user EXCEPT ![p] = v],
         search' = [search EXCEPT ![p] = IF v \in {0, Absent} THEN Absent ELSE v]
  PROVE  SearchOK'
<1>1. user'[p] = v /\ \A q \in Players : q # p => user'[q] = user[q]
  BY DEF RoomsOK
<1>2. PICK e \in RoomIdx \cup {Absent} : e = IF v \in {0, Absent} THEN Absent ELSE v
  OBVIOUS
<1>3. search' = [search EXCEPT ![p] = e]
  BY <1>2
<1>4. /\ search' \in [Players -> RoomIdx \cup {Absent}]
      /\ search'[p] = e /\ \A q \in Players : q # p => search'[q] = search[q]
  BY <1>3 DEF SearchOK
<1> QED BY <1>1, <1>2, <1>4 DEF SearchOK

LEMMA SearchStays ==
  ASSUME SearchOK, user' = user, search' = search
  PROVE  SearchOK'
BY DEF SearchOK

LEMMA SearchGoes ==
  ASSUME RoomsOK, SearchOK, NEW p \in Players, NEW v \in {0, Absent},
         user' = [user EXCEPT ![p] = v], search' = [search EXCEPT ![p] = Absent]
  PROVE  SearchOK'
<1>1. v \in RoomIdx \cup {Absent}
  BY ChatAssumption DEF RoomIdx
<1> QED BY <1>1, SearchHolds

LEMMA SearchSame ==
  ASSUME RoomsOK, SearchOK, NEW p \in Players, user[p] \in {0, Absent}, NEW v \in {0, Absent},
         user' = [user EXCEPT ![p] = v], search' = [search EXCEPT ![p] = search[p]]
  PROVE  SearchOK'
<1>1. search[p] = Absent
  BY DEF SearchOK
<1> QED BY <1>1, SearchGoes

LEMMA LeaveAsSearch ==
  ASSUME RoomsOK, SearchOK, NEW p \in Players,
         ForceAddUserSyn(p) \/ DelUserSyn(p)
  PROVE  SearchOK'
<1>1. CASE DelUserSyn(p)
  BY <1>1, SearchGoes DEF DelUserSyn, LeaveAs
<1>2. CASE ForceAddUserSyn(p)
  <2>1. /\ user' = [user EXCEPT ![p] = 0]
        /\ search' = [search EXCEPT ![p] = IF InRoom(p) THEN Absent ELSE search[p]]
    BY <1>2 DEF ForceAddUserSyn, LeaveAs
  <2>2. CASE InRoom(p)
    BY <2>1, <2>2, SearchGoes
  <2>3. CASE ~InRoom(p)
    <3>1. user[p] \in {0, Absent}
      BY <2>3 DEF RoomsOK, Seated, InRoom
    <3> QED BY <2>1, <2>3, <3>1, SearchSame
  <2> QED BY <2>2, <2>3
<1> QED BY <1>1, <1>2

LEMMA SearchInv ==
  ASSUME RoomsOK, SearchOK, ~Delayed, [Next]_vars, RoomLeft
  PROVE  SearchOK'
<1>0. Absent \notin RoomIdx
  BY ChatAssumption DEF RoomIdx
<1>1. CASE UNCHANGED vars
  BY <1>1, SearchStays DEF vars
<1>2. CASE Next
  <2> PICK p \in Players : Request(p) \/ Registration(p)
    BY <1>2 DEF Next
  <2>1. CASE Request(p)
    <3>1. ASSUME NEW cap \in Caps, NEW type \in Types, CreateRoomSyn(p, cap, type) PROVE SearchOK'
      <4>1. PICK r \in RoomIdx : r = GetEmptyRoomIdx
        BY EmptyRoomIdx
      <4>2. user' = [user EXCEPT ![p] = r] /\ search' = [search EXCEPT ![p] = r]
        BY <3>1, <4>1 DEF CreateRoomSyn, InsertUserName
      <4>3. r # 0
        BY <3>1, <4>1 DEF RoomLeft
      <4>4. search' = [search EXCEPT ![p] = IF r \in {0, Absent} THEN Absent ELSE r]
        BY <1>0, <4>2, <4>3
      <4> QED BY <4>2, <4>4, SearchHolds
    <3>2. ASSUME NEW cap \in Caps, NEW type \in Types, OptionSyn(p, cap, type) PROVE SearchOK'
      BY <3>2, SearchStays DEF OptionSyn
    <3>3. ASSUME NEW r \in RoomIdx, JoinRoomSyn(p, r) PROVE SearchOK'
      <4>1. r # 0 /\ user' = [user EXCEPT ![p] = r] /\ search' = [search EXCEPT ![p] = r]
        BY <3>3 DEF JoinRoomSyn, InsertUserName
      <4>2. search' = [search EXCEPT ![p] = IF r \in {0, Absent} THEN Absent ELSE r]
        BY <1>0, <4>1
      <4> QED BY <4>1, <4>2, SearchHolds
    <3>4. ASSUME OutRoomSyn(p) PROVE SearchOK'
      BY <3>4, SearchGoes DEF OutRoomSyn, EraseUserName
    <3>5. ASSUME NEW q \in Nameable(p), OwnerSyn(p, q) PROVE SearchOK'
      BY <3>5, SearchStays DEF OwnerSyn
    <3>6. ASSUME NEW q \in Nameable(p), KickSyn(p, q) PROVE SearchOK'
      BY <3>6, SearchGoes DEF KickSyn, EraseUserName, Nameable
    <3>7. ASSUME UpdateUserInfo(p) PROVE SearchOK'
      <4>1. search[p] # Absent /\ user' = user /\ search' = [search EXCEPT ![p] = user[p]]
        BY <3>7 DEF UpdateUserInfo, UpdateNameRoomIdx
      <4>2. search[p] = user[p]
        BY <4>1 DEF SearchOK
      <4>3. search' = search
        BY <4>1, <4>2 DEF SearchOK
      <4> QED BY <4>1, <4>3, SearchStays
    <3> QED BY <2>1, <3>1, <3>2, <3>3, <3>4, <3>5, <3>6, <3>7 DEF Request
  <2>2. CASE AddUserSyn(p)
    <3>1. user[p] = Absent /\ user' = [user EXCEPT ![p] = 0] /\ search' = search
      BY <2>2 DEF AddUserSyn, Registered
    <3>2. search' = [search EXCEPT ![p] = search[p]]
      BY <3>1 DEF SearchOK
    <3> QED BY <3>1, <3>2, SearchSame
  <2>3. CASE ForceAddUserSyn(p) \/ DelUserSyn(p)
    BY <2>3, LeaveAsSearch
  <2> QED BY <2>1, <2>2, <2>3 DEF Registration
<1> QED BY <1>1, <1>2

-----------------------------------------------------------------------------
(* Nobody has met anybody where requests are in time. *)
MetOK == met \in [Players -> {{}}]

LEMMA MetParts ==
  ASSUME MetOK, NEW p, met' = [met EXCEPT ![p] = {}]
  PROVE  MetOK'
BY DEF MetOK

LEMMA MetMeets ==
  ASSUME ~Delayed, NEW p, NEW others, Meet(p, others)
  PROVE  MetOK'
BY DEF MetOK, Meet

LEMMA MetStays ==
  ASSUME MetOK, met' = met
  PROVE  MetOK'
BY DEF MetOK

LEMMA MetInv ==
  ASSUME MetOK, ~Delayed, [Next]_vars
  PROVE  MetOK'
<1>1. CASE UNCHANGED vars
  BY <1>1, MetStays DEF vars
<1>2. CASE Next
  <2> PICK p \in Players : Request(p) \/ Registration(p)
    BY <1>2 DEF Next
  <2>1. CASE Request(p)
    <3>1. ASSUME NEW cap \in Caps, NEW type \in Types, CreateRoomSyn(p, cap, type) PROVE MetOK'
      BY <3>1, MetMeets DEF CreateRoomSyn
    <3>2. ASSUME NEW cap \in Caps, NEW type \in Types, OptionSyn(p, cap, type) PROVE MetOK'
      BY <3>2, MetStays DEF OptionSyn
    <3>3. ASSUME NEW r \in RoomIdx, JoinRoomSyn(p, r) PROVE MetOK'
      BY <3>3, MetMeets DEF JoinRoomSyn
    <3>4. ASSUME OutRoomSyn(p) PROVE MetOK'
      BY <3>4, MetParts DEF OutRoomSyn, Part
    <3>5. ASSUME NEW q \in Nameable(p), OwnerSyn(p, q) PROVE MetOK'
      BY <3>5, MetStays DEF OwnerSyn
    <3>6. ASSUME NEW q \in Nameable(p), KickSyn(p, q) PROVE MetOK'
      BY <3>6, MetParts DEF KickSyn, Part
    <3>7. ASSUME UpdateUserInfo(p) PROVE MetOK'
      BY <3>7, MetStays DEF UpdateUserInfo
    <3> QED BY <2>1, <3>1, <3>2, <3>3, <3>4, <3>5, <3>6, <3>7 DEF Request
  <2>2. CASE AddUserSyn(p)
    BY <2>2, MetStays DEF AddUserSyn
  <2>3. CASE ForceAddUserSyn(p)
    BY <2>3, MetParts DEF ForceAddUserSyn, LeaveAs, Part
  <2>4. CASE DelUserSyn(p)
    BY <2>4, MetParts DEF DelUserSyn, LeaveAs, Part
  <2> QED BY <2>1, <2>2, <2>3, <2>4 DEF Registration
<1> QED BY <1>1, <1>2

-----------------------------------------------------------------------------
(* The invariant and what follows from it. *)

Whole == RoomsOK /\ ListOK /\ TitlesOK /\ SearchOK /\ MetOK

LEMMA InitWhole == Init => Whole
<1> SUFFICES ASSUME Init PROVE Whole
  OBVIOUS
<1>1. 0 \in RoomIdx /\ Absent \notin RoomIdx
  BY ChatAssumption DEF RoomIdx
<1>2. RoomsOK
  BY <1>1 DEF Init, RoomsOK, IsRoom, Seated
<1>3. ListOK
  <2>1. list = <<>> /\ Len(list) = 0 /\ list \in Seq(RoomIdx)
    BY DEF Init
  <2> QED BY <2>1 DEF Init, ListOK, IsRoom
<1>4. TitlesOK
  BY DEF Init, TitlesOK, IsRoom
<1>5. SearchOK
  BY DEF Init, SearchOK
<1>6. MetOK
  BY DEF Init, MetOK
<1> QED BY <1>2, <1>3, <1>4, <1>5, <1>6 DEF Whole

LEMMA StepWhole ==
  ASSUME Whole, ~Delayed, [Next]_vars, RoomLeft
  PROVE  Whole' /\ Shaped
<1>1. RoomsOK /\ ListOK /\ TitlesOK /\ SearchOK /\ MetOK
  BY DEF Whole
<1>2. RoomsOK'
  BY <1>1, RoomsInv
<1>3. Shaped
  BY <1>1, StepShaped
<1>4. ListOK' /\ TitlesOK'
  BY <1>1, <1>2, <1>3, IndexInv
<1>5. SearchOK' /\ MetOK'
  BY <1>1, SearchInv, MetInv
<1> QED BY <1>2, <1>3, <1>4, <1>5 DEF Whole

LEMMA SeatOnce ==
  ASSUME NEW room \in Room, Seats(room), NEW p, SeatedIn(room, p)
  PROVE  Cardinality({k \in 1..room.cur : room.slot[k] = p}) = 1
<1>1. PICK x \in 1..room.cur : room.slot[x] = p
  BY DEF SeatedIn
<1>2. {k \in 1..room.cur : room.slot[k] = p} = {x}
  BY <1>1 DEF Seats
<1> QED BY <1>2, FS_Singleton

LEMMA WholeRooms ==
  ASSUME Whole
  PROVE  RoomsWhole
<1>1. RoomsOK /\ ListOK /\ TitlesOK /\ SearchOK /\ MetOK
  BY DEF Whole
<1>2. TypeOK
  BY <1>1 DEF TypeOK, RoomsOK, ListOK, TitlesOK, SearchOK, MetOK
<1>3. ASSUME NEW p \in Players, NEW r \in RoomIdx, user[p] = r, r # 0
      PROVE  IsRoom(r) /\ Cardinality({k \in 1..rooms[r].cur : rooms[r].slot[k] = p}) = 1
  <2>1. r # Absent
    BY ChatAssumption DEF RoomIdx
  <2>2. IsRoom(r) /\ SeatedIn(rooms[r], p)
    BY <1>1, <1>3, <2>1 DEF RoomsOK, Seated
  <2>3. rooms[r] \in Room /\ Seats(rooms[r])
    BY <1>1, <2>2, NamedRooms DEF Fits
  <2> QED BY <2>2, <2>3, SeatOnce
<1>4. ASSUME NEW r \in RoomIdx, IsRoom(r)
      PROVE  /\ rooms[r].cur > 0
             /\ \A k \in 1..rooms[r].cur : \E p \in Players : rooms[r].slot[k] = p /\ user[p] = r
             /\ rooms[r].owner \in Members(rooms[r])
  <2>1. rooms[r] \in Room /\ Fits(rooms[r], user, r)
    BY <1>1, <1>4, NamedRooms
  <2>2. rooms[r].cur > 0
    BY <2>1, RoomFields
  <2>3. \A k \in 1..rooms[r].cur : \E p \in Players : rooms[r].slot[k] = p /\ user[p] = r
    BY <2>1 DEF Fits, Seats
  <2>4. rooms[r].owner \in Members(rooms[r])
    BY <2>1 DEF Fits, SeatedIn, Members
  <2> QED BY <2>2, <2>3, <2>4
<1>5. RoomsAgree
  BY <1>3, <1>4 DEF RoomsAgree
<1>6. OwnerInRoom
  BY <1>4 DEF OwnerInRoom
<1> QED BY <1>2, <1>5, <1>6 DEF RoomsWhole

LEMMA RoomIdxFinite == IsFiniteSet(RoomIdx)
<1>1. 0 \in Int /\ MaxRooms - 1 \in Int
  BY ChatAssumption
<1> QED BY <1>1, FS_Interval DEF RoomIdx

LEMMA WholeSearches ==
  ASSUME Whole
  PROVE  SearchesAgree
<1>1. RoomsOK /\ TitlesOK /\ SearchOK
  BY DEF Whole
<1>2. SearchAgrees
  <2> SUFFICES ASSUME NEW p \in Players
               PROVE  FoundByName(p) = IF user[p] \in {0, Absent} THEN NoRoom ELSE user[p]
    BY DEF SearchAgrees
  <2>1. search[p] = IF user[p] \in {0, Absent} THEN Absent ELSE user[p]
    BY <1>1 DEF SearchOK
  <2>2. CASE user[p] \in {0, Absent}
    BY <2>1, <2>2 DEF FoundByName
  <2>3. CASE user[p] \notin {0, Absent}
    BY <1>1, <2>1, <2>3 DEF FoundByName, RoomsOK, Seated
  <2> QED BY <2>2, <2>3
<1>3. TitleSearchFinds
  <2> SUFFICES ASSUME NEW some \in SUBSET RoomIdx, NEW open, open = {r \in some : IsRoom(r)},
                      Cardinality(open) <= MaxGuests
               PROVE  /\ FoundByTitle(some) = {open}
                      /\ \A r \in open : titles[r].cap = rooms[r].cap /\ titles[r].type = rooms[r].type
    BY DEF TitleSearchFinds
  <2>1. IsFiniteSet(open) /\ open \in SUBSET RoomIdx
    <3>1. open \in SUBSET RoomIdx
      OBVIOUS
    <3> QED BY <3>1, RoomIdxFinite, FS_Subset
  <2>2. {r \in some : titles[r] # NoRoom} = open
    BY <1>1 DEF TitlesOK
  <2>3. PICK n \in Nat : n = Cardinality(open)
    BY <2>1, FS_CardinalityType
  <2>4. (IF n < MaxGuests THEN n ELSE MaxGuests) = n
    BY <2>3, ChatAssumption
  <2>5. FoundByTitle(some) = {shown \in SUBSET open : Cardinality(shown) = n}
    BY <2>2, <2>3, <2>4 DEF FoundByTitle
  <2>6. \A shown \in SUBSET open : Cardinality(shown) = n => shown = open
    <3> TAKE shown \in SUBSET open
    <3>1. Cardinality(open) = Cardinality(shown) => open = shown
      BY <2>1, FS_Subset
    <3> QED BY <2>3, <3>1
  <2>7. FoundByTitle(some) = {open}
    BY <2>3, <2>5, <2>6
  <2>8. \A r \in open : titles[r].cap = rooms[r].cap /\ titles[r].type = rooms[r].type
    BY <1>1 DEF TitlesOK
  <2> QED BY <2>7, <2>8
<1> QED BY <1>2, <1>3 DEF SearchesAgree

-----------------------------------------------------------------------------
(* The guests that stay in a room, in their order. *)
Staying(room, c) == Members(room) \cap Members(c)
OrderOf(room, stay) == EntriesAt(room.slot, {k \in 1..room.cur : room.slot[k] \in stay})

Follows(room, c) ==
  /\ OrderOf(room, Staying(room, c)) = OrderOf(c, Staying(room, c))
  /\ room.owner \notin Staying(room, c) => c.owner = OrderOf(room, Staying(room, c))[1]

LEMMA SameFollows ==
  ASSUME NEW room \in Room, SeatedIn(room, room.owner), NEW c, SeatsSame(room, c)
  PROVE  Follows(room, c)
<1>1. Members(c) = Members(room)
  BY DEF Members, SeatsSame
<1>2. OrderOf(c, Staying(room, c)) = OrderOf(room, Staying(room, c))
  BY DEF OrderOf, SeatsSame
<1>3. room.owner \in Staying(room, c)
  BY <1>1 DEF Staying, Members, SeatedIn
<1> QED BY <1>2, <1>3 DEF Follows

LEMMA JoinedFollows ==
  ASSUME NEW room \in Room, SeatedIn(room, room.owner), NEW c, NEW p, Joined(room, c, p)
  PROVE  Follows(room, c)
<1>1. PICK n \in Nat : n = room.cur /\ c.cur = n + 1
  BY RoomFields DEF Joined
<1>2. /\ c.slot[n + 1] = p /\ \A k \in 1..n : c.slot[k] = room.slot[k] /\ room.slot[k] # p
  BY <1>1 DEF Joined, SeatedIn
<1>3. \A k \in 1..(n + 1) : k \in 1..n \/ k = n + 1
  OBVIOUS
<1>4. \A k \in 1..n : k \in 1..(n + 1)
  OBVIOUS
<1>5. Staying(room, c) = Members(room)
  BY <1>1, <1>2, <1>4 DEF Staying, Members
<1>6. {k \in 1..room.cur : room.slot[k] \in Members(room)} = 1..n
  BY <1>1 DEF Members
<1>7. {k \in 1..c.cur : c.slot[k] \in Members(room)} = 1..n
  BY <1>1, <1>2, <1>3, <1>4 DEF Members
<1>8. EntriesAt(room.slot, 1..n) = EntriesAt(c.slot, 1..n)
  <2>1. /\ EntriesAt(room.slot, 1..n) = [k \in 1..n |-> room.slot[k]]
        /\ EntriesAt(c.slot, 1..n) = [k \in 1..n |-> c.slot[k]]
    BY AllEntries
  <2> QED BY <1>2, <2>1
<1>9. room.owner \in Members(room)
  BY DEF Members, SeatedIn
<1> QED BY <1>5, <1>6, <1>7, <1>8, <1>9 DEF Follows, OrderOf

LEMMA LeftFollows ==
  ASSUME NEW room \in Room, Seats(room), SeatedIn(room, room.owner), NEW c, NEW q, Left(room, c, q)
  PROVE  Follows(room, c)
<1>1. PICK n \in Nat : n = room.cur - 1 /\ c.cur = n
  BY RoomFields DEF Left
<1>2. /\ SeatedIn(room, q) /\ c.owner = Heir(room, q)
      /\ \A k \in 1..n : c.slot[k] = Kept(room, q)[k]
  BY <1>1 DEF Left
<1>3. \A x : x \in Members(c) <=> \E k \in 1..n : Kept(room, q)[k] = x
  BY <1>1, <1>2 DEF Members
<1>4. \A x : x \in Members(room) <=> \E k \in 1..room.cur : room.slot[k] = x
  BY DEF Members
<1>5. Staying(room, c) = Members(room) \ {q}
  <2>1. \A x \in Members(c) : x \in Members(room) /\ x # q
    BY <1>1, <1>2, <1>3, <1>4, KeptSeats
  <2>2. \A x \in Members(room) : x # q => x \in Members(c)
    BY <1>1, <1>2, <1>3, <1>4, KeptSeats
  <2> QED BY <2>1, <2>2 DEF Staying
<1>6. {k \in 1..room.cur : room.slot[k] \in Staying(room, c)} = KeptPlaces(room, q)
  BY <1>4, <1>5 DEF KeptPlaces
<1>7. {k \in 1..c.cur : c.slot[k] \in Staying(room, c)} = 1..n
  <2>1. \A k \in 1..n : Kept(room, q)[k] \in Members(room) \ {q}
    BY <1>1, <1>2, <1>4, KeptSeats
  <2> QED BY <1>1, <1>2, <1>5, <2>1
<1>8. OrderOf(room, Staying(room, c)) = Kept(room, q)
  BY <1>2, <1>6, KeptOthers DEF OrderOf
<1>9. OrderOf(c, Staying(room, c)) = [k \in 1..n |-> c.slot[k]]
  BY <1>7, AllEntries DEF OrderOf
<1>10. Kept(room, q) = [k \in 1..n |-> c.slot[k]]
  <2>1. Kept(room, q) \in Seq(Players) /\ Len(Kept(room, q)) = n
    BY <1>1, <1>2, KeptOthers
  <2>2. Kept(room, q) = [k \in 1..n |-> Kept(room, q)[k]]
    BY <2>1
  <2> QED BY <1>2, <2>2
<1>11. ASSUME room.owner \notin Staying(room, c) PROVE c.owner = Kept(room, q)[1]
  <2>1. room.owner = q
    BY <1>4, <1>5, <1>11 DEF SeatedIn
  <2> QED BY <1>2, <2>1 DEF Heir
<1> QED BY <1>8, <1>9, <1>10, <1>11 DEF Follows

LEMMA StepFollows ==
  ASSUME RoomsOK, Shaped, NEW r \in RoomIdx, IsRoom(r), IsRoom(r)'
  PROVE  Follows(rooms[r], rooms'[r])
<1>1. rooms[r] \in Room /\ Seats(rooms[r]) /\ SeatedIn(rooms[r], rooms[r].owner)
  BY NamedRooms DEF Fits
<1>2. ASSUME rooms'[r] = rooms[r] PROVE Follows(rooms[r], rooms'[r])
  <2>1. SeatsSame(rooms[r], rooms'[r])
    BY <1>2 DEF SeatsSame
  <2> QED BY <1>1, <2>1, SameFollows
<1>3. ASSUME NEW s \in RoomIdx, NEW c \in Room, Added(s, c) PROVE Follows(rooms[r], rooms'[r])
  <2>1. rooms'[r] = rooms[r]
    BY <1>3 DEF Added, AddRoom, RoomsOK
  <2> QED BY <1>2, <2>1
<1>4. ASSUME NEW s \in RoomIdx, NEW c \in Room, Altered(s, c) PROVE Follows(rooms[r], rooms'[r])
  <2>1. rooms' = [rooms EXCEPT ![s] = c] /\ Succeeds(rooms[s], c)
    BY <1>4 DEF Altered
  <2>2. CASE s # r
    <3>1. rooms'[r] = rooms[r]
      BY <2>1, <2>2 DEF RoomsOK
    <3> QED BY <1>2, <3>1
  <2>3. CASE s = r
    <3>1. rooms'[r] = c /\ Succeeds(rooms[r], c)
      BY <2>1, <2>3 DEF RoomsOK
    <3>2. CASE SeatsSame(rooms[r], c)
      BY <1>1, <3>1, <3>2, SameFollows
    <3>3. ASSUME NEW p \in Players, Joined(rooms[r], c, p) \/ Left(rooms[r], c, p)
          PROVE  Follows(rooms[r], rooms'[r])
      BY <1>1, <3>1, <3>3, JoinedFollows, LeftFollows
    <3> QED BY <3>1, <3>2, <3>3 DEF Succeeds
  <2> QED BY <2>2, <2>3
<1>5. ASSUME NEW s \in RoomIdx, DeleteRoom(s) PROVE Follows(rooms[r], rooms'[r])
  <2>1. rooms'[r] = rooms[r]
    BY <1>5 DEF DeleteRoom, RoomsOK, IsRoom
  <2> QED BY <1>2, <2>1
<1>6. ASSUME Untouched PROVE Follows(rooms[r], rooms'[r])
  BY <1>2, <1>6 DEF Untouched
<1> QED BY <1>3, <1>4, <1>5, <1>6 DEF Shaped

-----------------------------------------------------------------------------
(* The pages of the list. *)

LEMMA Division ==
  ASSUME NEW a \in Nat, NEW b \in Nat, b > 0
  PROVE  a \div b \in Nat /\ a % b \in Nat /\ a % b < b /\ a = b * (a \div b) + (a % b)
<1>1. a % b \in 0..(b - 1)
  OBVIOUS
<1>2. a = b * (a \div b) + (a % b)
  OBVIOUS
<1>3. a \div b \in Int
  OBVIOUS
<1>4. a \div b >= 0
  OBVIOUS
<1>5. a \div b \in Nat
  BY <1>3, <1>4
<1>6. a % b \in Nat /\ a % b < b
  BY <1>1
<1> QED BY <1>2, <1>5, <1>6

LEMMA QuotientUnique ==
  ASSUME NEW b \in Nat, b > 0, NEW q \in Nat, NEW s \in Nat, NEW k \in Nat, NEW l \in Nat,
         k < b, l < b, b * q + k = b * s + l
  PROVE  q = s /\ k = l
<1>1. CASE q < s
  <2>1. PICK d \in Nat : s = q + 1 + d
    <3>1. s - q - 1 \in Nat /\ s = q + 1 + (s - q - 1)
      BY <1>1
    <3> QED BY <3>1
  <2>2. b * s = b * q + b + b * d /\ b * d \in Nat /\ b * q \in Nat
    BY <2>1
  <2> QED BY <2>2
<1>2. CASE s < q
  <2>1. PICK d \in Nat : q = s + 1 + d
    <3>1. q - s - 1 \in Nat /\ q = s + 1 + (q - s - 1)
      BY <1>2
    <3> QED BY <3>1
  <2>2. b * q = b * s + b + b * d /\ b * d \in Nat /\ b * s \in Nat
    BY <2>1
  <2> QED BY <2>2
<1>3. CASE q = s
  <2>1. b * q \in Nat
    OBVIOUS
  <2> QED BY <1>3, <2>1
<1> QED BY <1>1, <1>2, <1>3

LEMMA QuotientGrows ==
  ASSUME NEW b \in Nat, b > 0, NEW i \in Nat, NEW n \in Nat, i <= n
  PROVE  i \div b <= n \div b
<1>1. PICK q \in Nat, k \in Nat : q = i \div b /\ k < b /\ i = b * q + k
  BY Division
<1>2. PICK s \in Nat, l \in Nat : s = n \div b /\ l < b /\ n = b * s + l
  BY Division
<1>3. CASE s < q
  <2>1. PICK d \in Nat : q = s + 1 + d
    <3>1. q - s - 1 \in Nat /\ q = s + 1 + (q - s - 1)
      BY <1>3
    <3> QED BY <3>1
  <2>2. b * q = b * s + b + b * d /\ b * d \in Nat /\ b * s \in Nat
    BY <2>1
  <2> QED BY <1>1, <1>2, <2>2
<1> QED BY <1>1, <1>2, <1>3

LEMMA ListCounts ==
  ASSUME ListOK
  PROVE  Cardinality({r \in RoomIdx : IsRoom(r)}) = Len(list)
<1>1. PICK n \in Nat :
           /\ n = Len(list) /\ DOMAIN list = 1..n
           /\ \A i \in 1..n : list[i] \in RoomIdx /\ rooms[list[i]] # NoRoom
           /\ \A i, j \in 1..n : list[i] = list[j] => i = j
           /\ \A s \in RoomIdx : rooms[s] # NoRoom => \E i \in 1..n : list[i] = s
  BY ListHas
<1> DEFINE T == {r \in RoomIdx : IsRoom(r)}
           f == [i \in 1..n |-> list[i]]
<1>2. f \in Bijection(1..n, T)
  <2>1. f \in [1..n -> T]
    BY <1>1 DEF IsRoom
  <2>2. \A i, j \in 1..n : f[i] = f[j] => i = j
    BY <1>1
  <2>3. \A t \in T : \E i \in 1..n : f[i] = t
    BY <1>1 DEF IsRoom
  <2> QED BY <2>1, <2>2, <2>3 DEF Bijection, Injection, Surjection, IsInjective
<1>3. IsFiniteSet(1..n) /\ Cardinality(1..n) = n
  BY FS_Interval, 1 \in Int, n \in Int
<1>4. Cardinality(T) = Cardinality(1..n)
  BY <1>2, <1>3, FS_Bijection DEF ExistsBijection
<1> QED BY <1>1, <1>3, <1>4

(* A page has the rooms of the list from its first one on. *)
LEMMA PageIs ==
  ASSUME ListOK, NEW page \in Nat
  PROVE  \E m \in Nat :
           /\ Len(RoomPage(page, NoRoom)) = m /\ RoomPage(page, NoRoom) \in Seq(RoomIdx) /\ m <= PerPage
           /\ \A k \in 1..PerPage : k <= m <=> PerPage * page + k <= Len(list)
           /\ \A k \in 1..m : RoomPage(page, NoRoom)[k] = list[PerPage * page + k]
<1>1. PICK n \in Nat :
           /\ n = Len(list) /\ DOMAIN list = 1..n
           /\ \A i \in 1..n : list[i] \in RoomIdx /\ rooms[list[i]] # NoRoom
           /\ \A i, j \in 1..n : list[i] = list[j] => i = j
           /\ \A s \in RoomIdx : rooms[s] # NoRoom => \E i \in 1..n : list[i] = s
  BY ListHas
<1>2. PICK a \in Nat : a = PerPage * page /\ page * PerPage = a
  BY ChatAssumption
<1>3. PICK rest : rest = SubSeq(list, page * PerPage + 1, n)
  OBVIOUS
<1>4. PICK m \in Nat : m = IF a + 1 <= n THEN n - a ELSE 0
  <2>1. CASE a + 1 <= n
    <3>1. n - a \in Nat
      BY <2>1
    <3> QED BY <2>1, <3>1
  <2>2. CASE ~(a + 1 <= n)
    BY <2>2
  <2> QED BY <2>1, <2>2
<1>5. /\ rest \in Seq(RoomIdx) /\ Len(rest) = m
      /\ \A i \in 1..m : rest[i] = list[a + i]
  <2>1. rest = SubSeq(list, a + 1, n) /\ a + 1 \in Int /\ n \in Int
    BY <1>2, <1>3
  <2>2. \A i \in (a + 1)..n : list[i] \in RoomIdx
    BY <1>1
  <2>3. /\ SubSeq(list, a + 1, n) \in Seq(RoomIdx)
        /\ Len(SubSeq(list, a + 1, n)) = IF a + 1 <= n THEN n - (a + 1) + 1 ELSE 0
        /\ \A i \in 1..(n - (a + 1) + 1) : SubSeq(list, a + 1, n)[i] = list[(a + 1) + i - 1]
    BY <2>1, <2>2, SubSeqProperties
  <2>4. Len(rest) = m
    BY <1>4, <2>1, <2>3
  <2>5. \A i \in 1..m : i \in 1..(n - (a + 1) + 1) /\ (a + 1) + i - 1 = a + i
    BY <1>4
  <2> QED BY <2>1, <2>3, <2>4, <2>5
<1>6. {k \in DOMAIN rest : Wanted(rest[k], NoRoom)} = 1..m
  BY <1>5 DEF Wanted
<1>7. EntriesAt(rest, 1..m) = rest
  <2>1. EntriesAt(rest, 1..m) = [i \in 1..m |-> rest[i]]
    BY AllEntries
  <2> QED BY <1>5, <2>1
<1>8. PICK z \in Nat : z = IF m < PerPage THEN m ELSE PerPage
  BY ChatAssumption
<1>9. RoomPage(page, NoRoom) = SubSeq(rest, 1, z)
  BY <1>1, <1>3, <1>5, <1>6, <1>7, <1>8 DEF RoomPage
<1>10. /\ Len(SubSeq(rest, 1, z)) = z /\ SubSeq(rest, 1, z) \in Seq(RoomIdx)
       /\ \A i \in 1..z : SubSeq(rest, 1, z)[i] = rest[i]
  <2>1. z <= m /\ 1 \in Int /\ z \in Int
    BY <1>8, ChatAssumption
  <2>2. \A i \in 1..z : rest[i] \in RoomIdx
    BY <1>5, <2>1
  <2>3. /\ SubSeq(rest, 1, z) \in Seq(RoomIdx)
        /\ Len(SubSeq(rest, 1, z)) = IF 1 <= z THEN z - 1 + 1 ELSE 0
        /\ \A i \in 1..(z - 1 + 1) : SubSeq(rest, 1, z)[i] = rest[1 + i - 1]
    BY <2>1, <2>2, SubSeqProperties
  <2>4. (IF 1 <= z THEN z - 1 + 1 ELSE 0) = z /\ \A i \in 1..z : i \in 1..(z - 1 + 1) /\ 1 + i - 1 = i
    OBVIOUS
  <2> QED BY <2>3, <2>4
<1>11. \A k \in 1..PerPage : k <= z <=> a + k <= n
  BY <1>4, <1>8, ChatAssumption
<1>12. \A k \in 1..z : rest[k] = list[a + k]
  <2>1. z <= m
    BY <1>8, ChatAssumption
  <2> QED BY <1>5, <2>1
<1>13. z <= PerPage
  BY <1>8, ChatAssumption
<1>14. Len(RoomPage(page, NoRoom)) = z /\ RoomPage(page, NoRoom) \in Seq(RoomIdx)
  BY <1>9, <1>10
<1>15. \A k \in 1..z : RoomPage(page, NoRoom)[k] = list[PerPage * page + k]
  <2>1. \A k \in 1..z : RoomPage(page, NoRoom)[k] = list[a + k]
    BY <1>9, <1>10, <1>12
  <2>2. a = PerPage * page
    BY <1>2
  <2> QED BY <2>1, <2>2, Zenon
<1>16. \A k \in 1..PerPage : k <= z <=> PerPage * page + k <= Len(list)
  <2>1. a = PerPage * page /\ n = Len(list)
    BY <1>1, <1>2
  <2> QED BY <1>11, <2>1, Zenon
<1> QED BY <1>13, <1>14, <1>15, <1>16, Zenon

(* The places where the pages show the room r. *)
ShownAt(r) ==
  LET last == TotalPage(NoRoom) + 1 IN
  {spot \in (1..last) \X (1..PerPage) :
     spot[2] <= Len(RoomPage(spot[1] - 1, NoRoom)) /\ RoomPage(spot[1] - 1, NoRoom)[spot[2]] = r}

LEMMA ShownIs ==
  ASSUME NEW r \in RoomIdx
  PROVE  Shown(NoRoom)[r] = Cardinality(ShownAt(r))
<1> DEFINE pages == [n \in 1..(TotalPage(NoRoom) + 1) |-> RoomPage(n - 1, NoRoom)]
<1>1. \A spot \in (1..(TotalPage(NoRoom) + 1)) \X (1..PerPage) : pages[spot[1]] = RoomPage(spot[1] - 1, NoRoom)
  OBVIOUS
<1>2. {spot \in (DOMAIN pages) \X (1..PerPage) :
         spot[2] <= Len(pages[spot[1]]) /\ pages[spot[1]][spot[2]] = r} = ShownAt(r)
  BY <1>1 DEF ShownAt
<1>3. Shown(NoRoom)[r]
      = Cardinality({spot \in (DOMAIN pages) \X (1..PerPage) :
                       spot[2] <= Len(pages[spot[1]]) /\ pages[spot[1]][spot[2]] = r})
  BY DEF Shown
<1> QED BY <1>2, <1>3

LEMMA ShownFor ==
  ASSUME ListOK, NEW r \in RoomIdx, NEW n \in Nat \ {0}, NEW k \in 1..PerPage
  PROVE  (k <= Len(RoomPage(n - 1, NoRoom)) /\ RoomPage(n - 1, NoRoom)[k] = r)
         <=> (PerPage * (n - 1) + k <= Len(list) /\ list[PerPage * (n - 1) + k] = r)
<1>1. n - 1 \in Nat
  OBVIOUS
<1>2. PICK m \in Nat :
           /\ Len(RoomPage(n - 1, NoRoom)) = m
           /\ \A j \in 1..PerPage : j <= m <=> PerPage * (n - 1) + j <= Len(list)
           /\ \A j \in 1..m : RoomPage(n - 1, NoRoom)[j] = list[PerPage * (n - 1) + j]
  BY <1>1, PageIs
<1>3. k <= m => k \in 1..m
  BY ChatAssumption
<1> QED BY <1>2, <1>3

LEMMA WholePages ==
  ASSUME Whole
  PROVE  PagesCover
<1>1. ListOK
  BY DEF Whole
<1>2. PICK len \in Nat :
           /\ len = Len(list) /\ DOMAIN list = 1..len
           /\ \A i \in 1..len : list[i] \in RoomIdx /\ rooms[list[i]] # NoRoom
           /\ \A i, j \in 1..len : list[i] = list[j] => i = j
           /\ \A s \in RoomIdx : rooms[s] # NoRoom => \E i \in 1..len : list[i] = s
  BY <1>1, ListHas
<1>3. PerPage \in Nat /\ PerPage > 0
  BY ChatAssumption
<1>4. PICK last \in Nat : last = TotalPage(NoRoom) + 1 /\ last = len \div PerPage + 1
  <2>1. {r \in RoomIdx : IsRoom(r) /\ Wanted(r, NoRoom)} = {r \in RoomIdx : IsRoom(r)}
    BY DEF Wanted
  <2>2. TotalPage(NoRoom) = len \div PerPage
    BY <1>1, <1>2, <2>1, ListCounts DEF TotalPage
  <2>3. len \div PerPage \in Nat
    BY <1>3, Division
  <2> QED BY <2>2, <2>3
<1> SUFFICES ASSUME NEW r \in RoomIdx
             PROVE  Shown(NoRoom)[r] = IF IsRoom(r) THEN 1 ELSE 0
  BY DEF PagesCover
<1>5. \A spot : spot \in ShownAt(r) <=>
        /\ spot \in (1..last) \X (1..PerPage)
        /\ spot[2] <= Len(RoomPage(spot[1] - 1, NoRoom)) /\ RoomPage(spot[1] - 1, NoRoom)[spot[2]] = r
  BY <1>4 DEF ShownAt
<1>6. \A n \in 1..last, k \in 1..PerPage : <<n, k>> \in ShownAt(r) <=>
        PerPage * (n - 1) + k <= len /\ list[PerPage * (n - 1) + k] = r
  <2> TAKE n \in 1..last, k \in 1..PerPage
  <2>1. <<n, k>> \in ShownAt(r) <=>
          k <= Len(RoomPage(n - 1, NoRoom)) /\ RoomPage(n - 1, NoRoom)[k] = r
    BY <1>5
  <2> QED BY <1>1, <1>2, <2>1, ShownFor
<1>7. \A spot \in ShownAt(r) : \E n \in 1..last : \E k \in 1..PerPage : spot = <<n, k>>
  BY <1>5
<1>8. CASE ~IsRoom(r)
  <2>1. ASSUME NEW spot \in ShownAt(r) PROVE FALSE
    <3>1. PICK n \in 1..last : \E k \in 1..PerPage : spot = <<n, k>>
      BY <1>7
    <3>2. PICK k \in 1..PerPage : spot = <<n, k>>
      BY <3>1
    <3>3. PICK i \in 1..len : list[i] = r
      <4>1. PerPage * (n - 1) + k <= len /\ list[PerPage * (n - 1) + k] = r
        BY <1>6, <3>2
      <4>2. PerPage * (n - 1) \in Nat
        <5>1. n - 1 \in Nat
          OBVIOUS
        <5> QED BY <1>3, <5>1
      <4> QED BY <4>1, <4>2
    <3> QED BY <1>2, <1>8, <3>3 DEF IsRoom
  <2>2. ShownAt(r) = {}
    BY <2>1
  <2> QED BY <1>8, <2>2, ShownIs, FS_EmptySet
<1>9. CASE IsRoom(r)
  <2>1. PICK i \in 1..len : list[i] = r
    BY <1>2, <1>9 DEF IsRoom
  <2>2. PICK p \in Nat, o \in Nat : p = (i - 1) \div PerPage /\ o < PerPage /\ i - 1 = PerPage * p + o
    BY <1>3, Division
  <2>3. p <= len \div PerPage
    BY <1>3, <2>2, QuotientGrows
  <2>4. p + 1 \in 1..last /\ o + 1 \in 1..PerPage
    <3>1. len \div PerPage \in Nat
      BY <1>3, Division
    <3> QED BY <1>3, <1>4, <2>2, <2>3, <3>1
  <2>5. PerPage * p + (o + 1) = i /\ (p + 1) - 1 = p
    BY <1>3, <2>2
  <2>6. <<p + 1, o + 1>> \in ShownAt(r)
    BY <1>6, <2>1, <2>4, <2>5
  <2>7. ASSUME NEW spot \in ShownAt(r) PROVE spot = <<p + 1, o + 1>>
    <3>1. PICK n \in 1..last : \E k \in 1..PerPage : spot = <<n, k>>
      BY <1>7
    <3>2. PICK k \in 1..PerPage : spot = <<n, k>>
      BY <3>1
    <3>3. PerPage * (n - 1) + k <= len /\ list[PerPage * (n - 1) + k] = r
      BY <1>6, <3>2
    <3>4. n - 1 \in Nat /\ k - 1 \in Nat /\ k - 1 < PerPage /\ PerPage * (n - 1) \in Nat
      <4>1. n - 1 \in Nat
        OBVIOUS
      <4> QED BY <1>3, <4>1
    <3>5. PerPage * (n - 1) + k = i
      BY <1>2, <2>1, <3>3, <3>4
    <3>6. PerPage * (n - 1) + (k - 1) = PerPage * p + o
      BY <2>2, <3>4, <3>5
    <3>7. n - 1 = p /\ k - 1 = o
      BY <1>3, <2>2, <3>4, <3>6, QuotientUnique
    <3> QED BY <3>2, <3>7
  <2>8. ShownAt(r) = {<<p + 1, o + 1>>}
    BY <2>6, <2>7
  <2> QED BY <1>9, <2>8, ShownIs, FS_Singleton
<1> QED BY <1>8, <1>9

-----------------------------------------------------------------------------
(* While there are fewer players than indexes, one is left for the player  *)
(* that makes a room: every room has an owner of its own, and none of them *)
(* is that player.                                                         *)
LEMMA FewLeaveRoom ==
  ASSUME IsFiniteSet(Players), Cardinality(Players) < MaxRooms, RoomsOK
  PROVE  RoomLeft
<1> SUFFICES ASSUME NEW p \in Players, NEW cap \in Caps, NEW type \in Types,
                    CreateRoomSyn(p, cap, type), GetEmptyRoomIdx = 0
             PROVE  FALSE
  BY DEF RoomLeft
<1> DEFINE used == 1..(MaxRooms - 1)
           owner == [r \in used |-> rooms[r].owner]
<1>1. \A r \in used : r \in RoomIdx /\ r # 0
  BY ChatAssumption DEF RoomIdx
<1>2. \A r \in used : IsRoom(r)
  <2>1. CASE {r \in RoomIdx \ {0} : ~IsRoom(r)} = {}
    BY <1>1, <2>1
  <2>2. CASE {r \in RoomIdx \ {0} : ~IsRoom(r)} # {}
    BY <2>2, FreeIsFound
  <2> QED BY <2>1, <2>2
<1>3. user[p] = 0
  BY DEF CreateRoomSyn
<1>4. \A r \in used : rooms[r].owner \in Players /\ user[rooms[r].owner] = r
  <2> TAKE r \in used
  <2>1. rooms[r] \in Room /\ Fits(rooms[r], user, r)
    BY <1>1, <1>2, NamedRooms
  <2> QED BY <2>1, RoomFields DEF Fits, SeatedIn
<1>5. owner \in Injection(used, Players \ {p})
  <2>1. owner \in [used -> Players \ {p}]
    BY <1>1, <1>3, <1>4
  <2>2. \A r, s \in used : owner[r] = owner[s] => r = s
    BY <1>4
  <2> QED BY <2>1, <2>2 DEF Injection, IsInjective
<1>6. /\ IsFiniteSet(Players \ {p})
      /\ Cardinality(Players \ {p}) = Cardinality(Players) - 1
  BY FS_RemoveElement
<1>7. Cardinality(used) <= Cardinality(Players \ {p})
  BY <1>5, <1>6, FS_Injection
<1>8. Cardinality(used) = MaxRooms - 1
  <2>1. 1 \in Int /\ MaxRooms - 1 \in Int /\ MaxRooms \in Nat /\ MaxRooms > 0
    BY ChatAssumption
  <2> QED BY <2>1, FS_Interval
<1>9. Cardinality(Players) \in Nat /\ MaxRooms \in Nat
  BY FS_CardinalityType, ChatAssumption
<1> QED BY <1>6, <1>7, <1>8, <1>9

-----------------------------------------------------------------------------
(* The theorems.  They are about clients that are in time (a request names *)
(* a guest of the room), and about behaviours in which the rooms are not   *)
(* used up: GetEmptyRoomIdx answers 0 then, the index of no room.          *)

LEMMA AlwaysWhole ==
  ASSUME ~Delayed
  PROVE  Spec /\ []~IsRoom(0) => []Whole
<1>1. Init => Whole
  BY InitWhole
<1>2. Whole /\ [Next]_vars /\ (~IsRoom(0))' => Whole'
  <2> SUFFICES ASSUME Whole, [Next]_vars, (~IsRoom(0))' PROVE Whole'
    OBVIOUS
  <2>1. RoomLeft
    BY RoomIsLeft DEF Whole, IsRoom
  <2> QED BY <2>1, StepWhole
<1> QED BY <1>1, <1>2, PTL DEF Spec

(* A player and its room agree, and the owner of a room is one of its      *)
(* guests: through Create, Join, Out, Kick, Owner, Option and the two      *)
(* log-out paths.                                                          *)
THEOREM RoomsStayWhole ==
  ASSUME ~Delayed
  PROVE  Spec /\ []~IsRoom(0) => []RoomsWhole
<1>1. Whole => RoomsWhole
  BY WholeRooms
<1> QED BY <1>1, AlwaysWhole, PTL

(* Both search indexes follow the rooms: m_htSearchName the players,       *)
(* m_pTitleList the rooms and their options.                               *)
THEOREM SearchesFollow ==
  ASSUME ~Delayed
  PROVE  Spec /\ []~IsRoom(0) => []SearchesAgree
<1>1. Whole => SearchesAgree
  BY WholeSearches
<1> QED BY <1>1, AlwaysWhole, PTL

(* The pages of Room_Syn show every room once, for every number of rooms   *)
(* and of rooms on a page.                                                 *)
THEOREM PagesShowEveryRoom ==
  ASSUME ~Delayed
  PROVE  Spec /\ []~IsRoom(0) => []PagesCover
<1>1. Whole => PagesCover
  BY WholePages
<1> QED BY <1>1, AlwaysWhole, PTL

(* The guests that stay in a room keep their order, and an owner that goes *)
(* is followed by the one that came first.                                 *)
THEOREM EldersFollow ==
  ASSUME ~Delayed
  PROVE  Spec /\ []~IsRoom(0) => ElderFollows
<1>1. Whole /\ [Next]_vars /\ (~IsRoom(0))' =>
        [\A r \in RoomIdx : (IsRoom(r) /\ IsRoom(r)') =>
           LET stay == Members(rooms[r]) \cap Members(rooms'[r])
               Order(room) == EntriesAt(room.slot, {k \in 1..room.cur : room.slot[k] \in stay})
           IN  /\ Order(rooms[r]) = Order(rooms'[r])
               /\ rooms[r].owner \notin stay => rooms'[r].owner = Order(rooms[r])[1]]_vars
  <2> SUFFICES ASSUME Whole, [Next]_vars, (~IsRoom(0))', NEW r \in RoomIdx, IsRoom(r), IsRoom(r)'
               PROVE  Follows(rooms[r], rooms'[r])
    BY DEF Follows, Staying, OrderOf
  <2>1. RoomsOK
    BY DEF Whole
  <2>2. Shaped
    BY <2>1, RoomIsLeft, StepWhole DEF IsRoom
  <2> QED BY <2>1, <2>2, StepFollows
<1> QED BY <1>1, AlwaysWhole, PTL DEF Spec, ElderFollows

(* With fewer players than indexes no room is ever made of index 0.        *)
THEOREM RoomZeroIsFree ==
  ASSUME ~Delayed, IsFiniteSet(Players), Cardinality(Players) < MaxRooms
  PROVE  Spec => []~IsRoom(0)
<1>1. Init => Whole
  BY InitWhole
<1>2. Whole /\ [Next]_vars => Whole'
  <2> SUFFICES ASSUME Whole, [Next]_vars PROVE Whole'
    OBVIOUS
  <2>1. RoomLeft
    BY FewLeaveRoom DEF Whole
  <2> QED BY <2>1, StepWhole
<1>3. Whole => ~IsRoom(0)
  BY DEF Whole, RoomsOK, IsRoom
<1> QED BY <1>1, <1>2, <1>3, PTL DEF Spec
=============================================================================
