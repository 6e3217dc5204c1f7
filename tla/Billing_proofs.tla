--------------------------- MODULE Billing_proofs ---------------------------
(***************************************************************************)
(* What holds of the billing for every number of players, agents and       *)
(* places, any number of failures and however often the connection is      *)
(* lost.                                                                   *)
(*                                                                         *)
(* Three parts are shown one after the other.  SearchInv counts the agents *)
(* that may still deny a player: as long as one has it they are fewer than *)
(* the count that is taken down.  AnswerInv says where the answer to a     *)
(* question of the billing server is.  World, LoginInv, ChargeInv and      *)
(* ShownInv follow a login and a logout through the queues: at most one    *)
(* login of a player is under way, a charge that outlives its player is    *)
(* followed by the logout, and the last packet or message about a player   *)
(* on the way from the billing server to an agent says what the billing    *)
(* server charges.                                                         *)
(***************************************************************************)
EXTENDS Billing, FiniteSetTheorems, FunctionTheorems, SequenceTheorems, TLAPS

-----------------------------------------------------------------------------
(* Queues. *)

(* A packet of a type about a player is in a queue. *)
Names(q, t, u) == \E i \in DOMAIN q : q[i].type = t /\ q[i].user = u

(* A message of a kind about a player is in a queue. *)
Tells(q, k, u) == \E i \in DOMAIN q : q[i].kind = k /\ q[i].user = u

LEMMA TailElements ==
  ASSUME NEW S, NEW q \in Seq(S), q # <<>>
  PROVE  /\ Tail(q) \in Seq(S) /\ Len(q) \in Nat /\ Len(q) > 0 /\ Len(Tail(q)) = Len(q) - 1
         /\ DOMAIN q = 1..Len(q) /\ DOMAIN Tail(q) = 1..(Len(q) - 1)
         /\ \A i \in 1..(Len(q) - 1) : Tail(q)[i] = q[i + 1]
         /\ Head(q) = q[1] /\ Head(q) \in S
  OBVIOUS

LEMMA AppendElements ==
  ASSUME NEW S, NEW q \in Seq(S), NEW e \in S
  PROVE  /\ Append(q, e) \in Seq(S) /\ Len(q) \in Nat
         /\ DOMAIN q = 1..Len(q) /\ DOMAIN Append(q, e) = 1..(Len(q) + 1)
         /\ \A i \in 1..Len(q) : Append(q, e)[i] = q[i]
         /\ Append(q, e)[Len(q) + 1] = e
  OBVIOUS

LEMMA NamesInTail ==
  ASSUME NEW S, NEW q \in Seq(S), q # <<>>, NEW t, NEW u
  PROVE  Names(q, t, u) <=> Names(Tail(q), t, u) \/ (Head(q).type = t /\ Head(q).user = u)
<1> USE TailElements
<1>1. ASSUME Names(q, t, u)
      PROVE  Names(Tail(q), t, u) \/ (Head(q).type = t /\ Head(q).user = u)
  <2>1. PICK i \in 1..Len(q) : q[i].type = t /\ q[i].user = u
    BY <1>1 DEF Names
  <2>2. CASE i = 1
    BY <2>1, <2>2
  <2>3. CASE i # 1
    <3>1. i - 1 \in 1..(Len(q) - 1) /\ Tail(q)[i - 1] = q[i]
      BY <2>3
    <3> QED BY <2>1, <3>1 DEF Names
  <2> QED BY <2>2, <2>3
<1>2. ASSUME Names(Tail(q), t, u)
      PROVE  Names(q, t, u)
  <2>1. PICK i \in 1..(Len(q) - 1) : Tail(q)[i].type = t /\ Tail(q)[i].user = u
    BY <1>2 DEF Names
  <2>2. i + 1 \in 1..Len(q) /\ q[i + 1] = Tail(q)[i]
    OBVIOUS
  <2> QED BY <2>1, <2>2 DEF Names
<1>3. ASSUME Head(q).type = t /\ Head(q).user = u
      PROVE  Names(q, t, u)
  BY <1>3, 1 \in 1..Len(q) DEF Names
<1> QED BY <1>1, <1>2, <1>3

LEMMA NamesInAppend ==
  ASSUME NEW S, NEW q \in Seq(S), NEW e \in S, NEW t, NEW u
  PROVE  Names(Append(q, e), t, u) <=> Names(q, t, u) \/ (e.type = t /\ e.user = u)
<1> USE AppendElements
<1>1. ASSUME Names(Append(q, e), t, u)
      PROVE  Names(q, t, u) \/ (e.type = t /\ e.user = u)
  <2>1. PICK i \in 1..(Len(q) + 1) : Append(q, e)[i].type = t /\ Append(q, e)[i].user = u
    BY <1>1 DEF Names
  <2>2. CASE i = Len(q) + 1
    BY <2>1, <2>2
  <2>3. CASE i # Len(q) + 1
    <3>1. i \in 1..Len(q)
      BY <2>3
    <3> QED BY <2>1, <3>1 DEF Names
  <2> QED BY <2>2, <2>3
<1>2. ASSUME Names(q, t, u)
      PROVE  Names(Append(q, e), t, u)
  <2>1. PICK i \in 1..Len(q) : q[i].type = t /\ q[i].user = u
    BY <1>2 DEF Names
  <2>2. i \in 1..(Len(q) + 1) /\ Append(q, e)[i] = q[i]
    OBVIOUS
  <2> QED BY <2>1, <2>2 DEF Names
<1>3. ASSUME e.type = t /\ e.user = u
      PROVE  Names(Append(q, e), t, u)
  BY <1>3, Len(q) + 1 \in 1..(Len(q) + 1) DEF Names
<1> QED BY <1>1, <1>2, <1>3

LEMMA TellsInTail ==
  ASSUME NEW S, NEW q \in Seq(S), q # <<>>, NEW t, NEW u
  PROVE  Tells(q, t, u) <=> Tells(Tail(q), t, u) \/ (Head(q).kind = t /\ Head(q).user = u)
<1> USE TailElements
<1>1. ASSUME Tells(q, t, u)
      PROVE  Tells(Tail(q), t, u) \/ (Head(q).kind = t /\ Head(q).user = u)
  <2>1. PICK i \in 1..Len(q) : q[i].kind = t /\ q[i].user = u
    BY <1>1 DEF Tells
  <2>2. CASE i = 1
    BY <2>1, <2>2
  <2>3. CASE i # 1
    <3>1. i - 1 \in 1..(Len(q) - 1) /\ Tail(q)[i - 1] = q[i]
      BY <2>3
    <3> QED BY <2>1, <3>1 DEF Tells
  <2> QED BY <2>2, <2>3
<1>2. ASSUME Tells(Tail(q), t, u)
      PROVE  Tells(q, t, u)
  <2>1. PICK i \in 1..(Len(q) - 1) : Tail(q)[i].kind = t /\ Tail(q)[i].user = u
    BY <1>2 DEF Tells
  <2>2. i + 1 \in 1..Len(q) /\ q[i + 1] = Tail(q)[i]
    OBVIOUS
  <2> QED BY <2>1, <2>2 DEF Tells
<1>3. ASSUME Head(q).kind = t /\ Head(q).user = u
      PROVE  Tells(q, t, u)
  BY <1>3, 1 \in 1..Len(q) DEF Tells
<1> QED BY <1>1, <1>2, <1>3

LEMMA TellsInAppend ==
  ASSUME NEW S, NEW q \in Seq(S), NEW e \in S, NEW t, NEW u
  PROVE  Tells(Append(q, e), t, u) <=> Tells(q, t, u) \/ (e.kind = t /\ e.user = u)
<1> USE AppendElements
<1>1. ASSUME Tells(Append(q, e), t, u)
      PROVE  Tells(q, t, u) \/ (e.kind = t /\ e.user = u)
  <2>1. PICK i \in 1..(Len(q) + 1) : Append(q, e)[i].kind = t /\ Append(q, e)[i].user = u
    BY <1>1 DEF Tells
  <2>2. CASE i = Len(q) + 1
    BY <2>1, <2>2
  <2>3. CASE i # Len(q) + 1
    <3>1. i \in 1..Len(q)
      BY <2>3
    <3> QED BY <2>1, <3>1 DEF Tells
  <2> QED BY <2>2, <2>3
<1>2. ASSUME Tells(q, t, u)
      PROVE  Tells(Append(q, e), t, u)
  <2>1. PICK i \in 1..Len(q) : q[i].kind = t /\ q[i].user = u
    BY <1>2 DEF Tells
  <2>2. i \in 1..(Len(q) + 1) /\ Append(q, e)[i] = q[i]
    OBVIOUS
  <2> QED BY <2>1, <2>2 DEF Tells
<1>3. ASSUME e.kind = t /\ e.user = u
      PROVE  Tells(Append(q, e), t, u)
  BY <1>3, Len(q) + 1 \in 1..(Len(q) + 1) DEF Tells
<1> QED BY <1>1, <1>2, <1>3

LEMMA EmptyTells ==
  ASSUME NEW t, NEW u
  PROVE  ~Names(<<>>, t, u) /\ ~Tells(<<>>, t, u)
  BY DEF Names, Tells

(* The sets of the module, in these words. *)
LEMMA StartsAreNames ==
  ASSUME NEW q, NEW u
  PROVE  u \in StartsIn(q) <=> Names(q, "start", u)
  BY DEF StartsIn, PlayersIn, Names

LEMMA NamedAreTells ==
  ASSUME NEW q, NEW u
  PROVE  /\ u \in NamedIn(q, {"stop"}) <=> Tells(q, "stop", u)
         /\ u \in NamedIn(q, {"check"}) <=> Tells(q, "check", u)
         /\ u \in NamedIn(q, {"check_ack", "check_nack"}) <=> Tells(q, "check_ack", u) \/ Tells(q, "check_nack", u)
  BY DEF NamedIn, Tells

LEMMA SearchedAnswers ==
  ASSUME NEW u
  PROVE  Searched(u) <=> \E a \in Agents : \/ Tells(down[a], "check", u)
                                          \/ Tells(up[a], "check_ack", u) \/ Tells(up[a], "check_nack", u)
  BY NamedAreTells, Zenon DEF Searched

-----------------------------------------------------------------------------
(* Types. *)

AnyPlace == Places \cup {NoPlace}

Starts == [type : {"start"}, user : Users, place : Places, ok : BOOLEAN]

Outgoing == [type : {"conn", "reset"}] \cup Starts
              \cup [type : {"end", "sync"}, user : Users, place : AnyPlace, ok : BOOLEAN]

Incoming == Starts \cup [type : {"sync", "alert"}, user : Users, place : AnyPlace, ok : BOOLEAN]

DownNotes == [kind : {"check", "start_ack", "start_nack", "alert"}, user : Users, place : AnyPlace]

UpNotes == [kind : {"stop", "check_ack", "check_nack"}, user : Users, place : AnyPlace]

(* The servers, and what the connector and the billing server keep. *)
CoreTypes ==
  /\ mode \in {"server", "database"}
  /\ socket \in {"none", "up", "broken", "invalid"} /\ reading \in BOOLEAN
  /\ lookups \subseteq [user : Users, place : Places]
  /\ started \in [Users -> AnyPlace]
  /\ checks \in [Users -> 0..(Cardinality(Agents) + Others) \cup {NoCheck}]
  /\ charged \in [Users -> AnyPlace]
  /\ asked \subseteq Users

QueueTypes ==
  /\ sendq \in Seq(Outgoing) /\ inbox \in Seq(Incoming)
  /\ down \in [Agents -> Seq(DownNotes)] /\ up \in [Agents -> Seq(UpNotes)]

(* Nobody is in the game at an agent that has ended. *)
PlayerTypes ==
  /\ online \in [Agents -> SUBSET Users]
  /\ place \in [Users -> AnyPlace]
  /\ packets \in [Agents -> [Users -> AnyPlace]]
  /\ running \subseteq Agents
  /\ \A a \in Agents \ running : online[a] = {}

Types == CoreTypes /\ QueueTypes /\ PlayerTypes

LEMMA EmptyQueue ==
  ASSUME NEW S
  PROVE  <<>> \in Seq(S)
  OBVIOUS

LEMMA RunningCount ==
  ASSUME IsFiniteSet(Agents), running \subseteq Agents
  PROVE  /\ IsFiniteSet(running) /\ Cardinality(running) \in Nat /\ Cardinality(Agents) \in Nat
         /\ Cardinality(running) <= Cardinality(Agents)
  BY FS_Subset, FS_CardinalityType

(* A broadcast reaches the agents that run. *)
LEMMA BroadcastReaches ==
  ASSUME Types, NEW msg \in DownNotes, Broadcast(msg)
  PROVE  /\ down' \in [Agents -> Seq(DownNotes)]
         /\ \A a \in running : down'[a] = Append(down[a], msg)
         /\ \A a \in Agents \ running : down'[a] = down[a]
<1>1. \A a \in Agents : down[a] \in Seq(DownNotes) /\ Append(down[a], msg) \in Seq(DownNotes)
  BY AppendElements DEF Types, QueueTypes
<1>2. running \subseteq Agents
  BY DEF Types, PlayerTypes
<1> QED BY <1>1, <1>2 DEF Broadcast

(* What is sent first on a new connection: every player with a packet is *)
(* reported again, and nothing else.                                     *)
Reported(st) ==
  LET again == SetToSeq({u \in Users : st[u] # NoPlace}) IN
  <<Alone("conn"), Alone("reset")>> \o
  [i \in DOMAIN again |-> Packet("start", again[i], st[again[i]], TRUE)]

LEMMA SetInOrder ==
  ASSUME NEW S, IsFiniteSet(S)
  PROVE  /\ SetToSeq(S) \in [1..Cardinality(S) -> S] /\ Cardinality(S) \in Nat
         /\ \A s \in S : \E i \in 1..Cardinality(S) : SetToSeq(S)[i] = s
         /\ \A i, j \in 1..Cardinality(S) : SetToSeq(S)[i] = SetToSeq(S)[j] => i = j
<1> DEFINE n == Cardinality(S)
<1>1. n \in Nat /\ ExistsBijection(1..n, S)
  BY FS_CardinalityType
<1>2. PICK f : f \in Bijection(1..n, S)
  BY <1>1 DEF ExistsBijection
<1>3. f \in [1..n -> S] /\ IsInjective(f)
  BY <1>2 DEF Bijection, Injection, IsInjective
<1> DEFINE g == SetToSeq(S)
<1>4. g \in [1..n -> S] /\ IsInjective(g)
  BY <1>3 DEF SetToSeq
<1>5. \A i, j \in 1..n : g[i] = g[j] => i = j
  BY <1>4 DEF IsInjective
<1>6. g \in Injection(1..n, S)
  BY <1>4, <1>5 DEF Injection, IsInjective
<1>7. IsFiniteSet(1..n) /\ Cardinality(1..n) = n
  BY <1>1, FS_Interval, 1 \in Int, n \in Int
<1>8. g \in Surjection(1..n, S)
  BY <1>6, <1>7, FS_Injection
<1> QED BY <1>1, <1>4, <1>5, <1>8 DEF Surjection

LEMMA AfterTwo ==
  ASSUME NEW S, NEW a \in S, NEW b \in S, NEW n \in Nat, NEW R \in [1..n -> S]
  PROVE  /\ <<a, b>> \o R \in Seq(S) /\ Len(<<a, b>> \o R) = 2 + n /\ DOMAIN (<<a, b>> \o R) = 1..(2 + n)
         /\ (<<a, b>> \o R)[1] = a /\ (<<a, b>> \o R)[2] = b
         /\ \A i \in 3..(2 + n) : (<<a, b>> \o R)[i] = R[i - 2]
<1>1. R \in Seq(S) /\ Len(R) = n
  OBVIOUS
<1>2. <<a, b>> \in Seq(S) /\ Len(<<a, b>>) = 2
  OBVIOUS
<1> QED BY <1>1, <1>2

LEMMA ReportedPackets ==
  ASSUME IsFiniteSet(Users), NEW st \in [Users -> AnyPlace], BillingAssumption
  PROVE  /\ Reported(st) \in Seq(Outgoing)
         /\ Len(Reported(st)) >= 2 /\ Reported(st)[1] = Alone("conn") /\ Reported(st)[2] = Alone("reset")
         /\ \A i \in DOMAIN Reported(st) : i > 2 =>
              \E u \in Users : st[u] # NoPlace /\ Reported(st)[i] = Packet("start", u, st[u], TRUE)
         /\ \A u \in Users : st[u] # NoPlace =>
              \E i \in DOMAIN Reported(st) : Reported(st)[i] = Packet("start", u, st[u], TRUE)
         /\ \A i, j \in DOMAIN Reported(st) :
              i > 2 /\ j > 2 /\ Reported(st)[i].user = Reported(st)[j].user => i = j
<1> DEFINE S == {u \in Users : st[u] # NoPlace}
           n == Cardinality(S)
           again == SetToSeq(S)
           R == [i \in DOMAIN again |-> Packet("start", again[i], st[again[i]], TRUE)]
           Q == <<Alone("conn"), Alone("reset")>> \o R
<1>1. IsFiniteSet(S) /\ \A u \in S : u \in Users /\ st[u] # NoPlace
  BY FS_Subset
<1>2. /\ again \in [1..n -> S] /\ n \in Nat
      /\ \A s \in S : \E i \in 1..n : again[i] = s
      /\ \A i, j \in 1..n : again[i] = again[j] => i = j
  BY <1>1, SetInOrder
<1>3. \A u \in S : Packet("start", u, st[u], TRUE) \in Outgoing
  BY DEF Packet, Starts, AnyPlace, Outgoing
<1>4. \A u \in Users : st[u] # NoPlace => u \in S
  OBVIOUS
<1>5. Reported(st) = Q
  BY DEF Reported
<1> HIDE DEF S, n, again
<1>6. R \in [1..n -> Outgoing] /\ \A i \in 1..n : R[i] = Packet("start", again[i], st[again[i]], TRUE)
  BY <1>2, <1>3
<1>7. Alone("conn") \in Outgoing /\ Alone("reset") \in Outgoing
  BY DEF Alone, Outgoing
<1> HIDE DEF R
<1>8. /\ Q \in Seq(Outgoing) /\ Len(Q) = 2 + n /\ DOMAIN Q = 1..(2 + n)
      /\ Q[1] = Alone("conn") /\ Q[2] = Alone("reset")
      /\ \A i \in 3..(2 + n) : Q[i] = R[i - 2]
  BY <1>2, <1>6, <1>7, AfterTwo
<1> HIDE DEF Q
<1>9. \A i \in 3..(2 + n) : i - 2 \in 1..n /\ again[i - 2] \in S
  BY <1>2
<1>10. \A i \in 3..(2 + n) : Q[i] = Packet("start", again[i - 2], st[again[i - 2]], TRUE)
  BY <1>6, <1>8, <1>9
<1>11. ASSUME NEW i \in 3..(2 + n) PROVE Q[i].user = again[i - 2]
  <2>1. PICK u : u = again[i - 2]
    OBVIOUS
  <2>2. Q[i] = Packet("start", u, st[u], TRUE)
    BY <1>10, <2>1
  <2>3. Packet("start", u, st[u], TRUE).user = u
    BY DEF Packet
  <2> QED BY <2>1, <2>2, <2>3
<1>12. \A i \in DOMAIN Q : i > 2 => i \in 3..(2 + n)
  BY <1>8, <1>2
<1>13. \A i \in DOMAIN Q : i > 2 => \E u \in Users : st[u] # NoPlace /\ Q[i] = Packet("start", u, st[u], TRUE)
  BY <1>9, <1>10, <1>12, <1>1
<1>14. ASSUME NEW u \in Users, st[u] # NoPlace
       PROVE  \E i \in DOMAIN Q : Q[i] = Packet("start", u, st[u], TRUE)
  <2>1. PICK i \in 1..n : again[i] = u
    BY <1>2, <1>4, <1>14
  <2>2. i + 2 \in 3..(2 + n) /\ (i + 2) - 2 = i /\ i + 2 \in DOMAIN Q
    BY <1>2, <1>8
  <2>3. Q[i + 2] = Packet("start", u, st[u], TRUE)
    BY <2>1, <2>2, <1>10
  <2> QED BY <2>2, <2>3
<1>15. ASSUME NEW i \in DOMAIN Q, NEW j \in DOMAIN Q, i > 2, j > 2, Q[i].user = Q[j].user
       PROVE  i = j
  <2>1. i \in 3..(2 + n) /\ j \in 3..(2 + n)
    BY <1>15, <1>12
  <2>2. again[i - 2] = again[j - 2] /\ i - 2 \in 1..n /\ j - 2 \in 1..n
    BY <2>1, <1>9, <1>11, <1>15
  <2>3. i - 2 = j - 2
    BY <2>2, <1>2
  <2> QED BY <2>1, <2>3, <1>2
<1>16. Len(Q) >= 2
  BY <1>8, <1>2
<1> QED BY <1>5, <1>8, <1>13, <1>14, <1>15, <1>16

FiniteSystem == IsFiniteSet(Users) /\ IsFiniteSet(Agents)

LEMMA PacketTypes ==
  ASSUME NEW u \in Users, NEW ok \in BOOLEAN
  PROVE  /\ \A p \in Places : Packet("start", u, p, ok) \in Outgoing /\ Packet("start", u, p, ok) \in Incoming
         /\ \A p \in AnyPlace : /\ Packet("end", u, p, ok) \in Outgoing /\ Packet("sync", u, p, ok) \in Outgoing
                                /\ Packet("sync", u, p, ok) \in Incoming /\ Packet("alert", u, p, ok) \in Incoming
  BY DEF Packet, Outgoing, Incoming, Starts, AnyPlace

LEMMA NoteTypes ==
  ASSUME NEW u \in Users, NEW p \in AnyPlace
  PROVE  /\ \A k \in {"check", "start_ack", "start_nack", "alert"} : Note(k, u, p) \in DownNotes
         /\ \A k \in {"stop", "check_ack", "check_nack"} : Note(k, u, p) \in UpNotes
  BY DEF Note, DownNotes, UpNotes

LEMMA NoPlaceType == NoPlace \in AnyPlace /\ (BillingAssumption => NoPlace \notin Places)
  BY DEF AnyPlace, BillingAssumption

LEMMA SendTypes ==
  ASSUME Types, Send, BillingAssumption
  PROVE  Types'
<1> DEFINE p == Head(sendq)
<1>1. sendq \in Seq(Outgoing) /\ sendq # <<>> /\ inbox \in Seq(Incoming)
  BY DEF Send, Types, QueueTypes
<1>2. p \in Outgoing /\ Tail(sendq) \in Seq(Outgoing)
  BY <1>1, TailElements
<1>3. PICK ok \in Grants(p) : Served(p, ok)
  BY DEF Send
<1>4. ok \in BOOLEAN
  BY DEF Grants
<1>5. sendq' = Tail(sendq) /\ reading' = TRUE
  BY DEF Send
<1>6. charged' \in [Users -> AnyPlace] /\ asked' \subseteq Users /\ inbox' \in Seq(Incoming)
  <2> HIDE DEF p
  <2>1. charged \in [Users -> AnyPlace] /\ asked \subseteq Users
    BY DEF Types, CoreTypes
  <2>2. CASE p.type \in {"conn", "reset"}
    BY <1>1, <1>3, <2>1, <2>2 DEF Served, AnyPlace
  <2>3. CASE p.type = "start"
    <3>1. p \in Starts /\ [p EXCEPT !.ok = ok] \in Starts
      BY <2>3, <1>2, <1>4 DEF Outgoing, Starts
    <3>2. [p EXCEPT !.ok = ok] \in Incoming /\ p.place \in AnyPlace /\ p.user \in Users
      BY <3>1 DEF Incoming, Starts, AnyPlace
    <3>3. inbox' = Append(inbox, [p EXCEPT !.ok = ok])
      BY <1>3, <2>3 DEF Served
    <3>4. charged' \in [Users -> AnyPlace] /\ asked' \subseteq Users
      BY <1>3, <2>1, <2>3, <3>2, NoPlaceType DEF Served
    <3>5. inbox' \in Seq(Incoming)
      BY <3>2, <3>3, <1>1, AppendElements
    <3> QED BY <3>4, <3>5
  <2>4. CASE p.type = "end"
    BY <1>1, <1>3, <2>1, <2>4, NoPlaceType DEF Served
  <2>5. CASE p.type = "sync"
    BY <1>1, <1>3, <2>1, <2>5, NoPlaceType DEF Served
  <2> QED BY <1>2, <2>2, <2>3, <2>4, <2>5 DEF Outgoing, Starts
<1>7. UNCHANGED <<mode, lookups, socket, started, checks, down, up>> /\ UNCHANGED players
  BY DEF Send
<1> QED BY <1>2, <1>5, <1>6, <1>7 DEF Types, CoreTypes, QueueTypes, PlayerTypes, players

LEMMA RecvTypes ==
  ASSUME Types, Recv, BillingAssumption, FiniteSystem
  PROVE  Types'
<1> DEFINE p == Head(inbox)
<1>1. inbox \in Seq(Incoming) /\ inbox # <<>> /\ p \in Incoming
  BY TailElements DEF Recv, Types, QueueTypes
<1>2. inbox' \in Seq(Incoming)
  <2>1. PICK n \in 1..Len(inbox) : inbox' = SubSeq(inbox, n + 1, Len(inbox))
    BY DEF Recv
  <2> QED BY <1>1, <2>1
<1>3. UNCHANGED <<mode, lookups, socket, sendq, charged, asked, up>> /\ UNCHANGED players /\ reading' = FALSE
  BY DEF Recv
<1>4. Receive(p)
  BY DEF Recv
<1> HIDE DEF p
<1>5. p.user \in Users /\ p.place \in AnyPlace
  BY <1>1 DEF Incoming, Starts, AnyPlace
<1>6. started' \in [Users -> AnyPlace] /\ checks' \in [Users -> 0..(Cardinality(Agents) + Others) \cup {NoCheck}]
      /\ down' \in [Agents -> Seq(DownNotes)]
  <2>0. /\ started \in [Users -> AnyPlace] /\ checks \in [Users -> 0..(Cardinality(Agents) + Others) \cup {NoCheck}]
        /\ down \in [Agents -> Seq(DownNotes)]
    BY DEF Types, CoreTypes, QueueTypes
  <2>1. CASE p.type = "start" /\ p.ok /\ started' = [started EXCEPT ![p.user] = p.place]
             /\ Broadcast(Note("start_ack", p.user, p.place)) /\ UNCHANGED checks
    BY <2>0, <2>1, <1>5, NoteTypes, BroadcastReaches
  <2>2. CASE ReceiveDenied(p)
    <3>1. Note("start_nack", p.user, NoPlace) \in DownNotes
      BY <1>5, NoteTypes, NoPlaceType
    <3> QED BY <2>0, <2>2, <3>1, <1>5, BroadcastReaches DEF ReceiveDenied
  <2>3. CASE ReceiveSync(p)
    <3>1. Note("check", p.user, NoPlace) \in DownNotes
      BY <1>5, NoteTypes, NoPlaceType
    <3>2. Cardinality(running) + Others \in 0..(Cardinality(Agents) + Others)
      BY RunningCount DEF FiniteSystem, Types, PlayerTypes, BillingAssumption
    <3>3. CASE checks[p.user] # NoCheck
      BY <2>0, <2>3, <3>3 DEF ReceiveSync
    <3>4. CASE checks[p.user] = NoCheck
      BY <2>0, <2>3, <3>1, <3>2, <3>4, <1>5, BroadcastReaches DEF ReceiveSync
    <3> QED BY <3>3, <3>4
  <2>4. CASE ReceiveAlert(p)
    <3>1. Note("alert", p.user, NoPlace) \in DownNotes
      BY <1>5, NoteTypes, NoPlaceType
    <3> QED BY <2>0, <2>4, <3>1, BroadcastReaches DEF ReceiveAlert
  <2> QED BY <1>4, <2>1, <2>2, <2>3, <2>4 DEF Receive
<1> QED BY <1>2, <1>3, <1>6 DEF Types, CoreTypes, QueueTypes, PlayerTypes, players

LEMMA FromAgentTypes ==
  ASSUME Types, NEW a \in Agents, FromAgent(a), BillingAssumption, FiniteSystem
  PROVE  Types'
<1> DEFINE msg == Head(up[a])
<1>1. up \in [Agents -> Seq(UpNotes)] /\ up[a] # <<>> /\ up' = [up EXCEPT ![a] = Tail(@)]
  BY DEF FromAgent, Types, QueueTypes
<1>2. msg \in UpNotes /\ Tail(up[a]) \in Seq(UpNotes)
  BY <1>1, TailElements
<1>3. msg.user \in Users
  BY <1>2 DEF UpNotes
<1>4. UNCHANGED <<mode, lookups, socket, reading, down>> /\ UNCHANGED billing /\ UNCHANGED players
  BY DEF FromAgent
<1>5. up' \in [Agents -> Seq(UpNotes)]
  BY <1>1, <1>2
<1>6. \/ GameEnd(msg.user)
      \/ SucceedToCheck(msg.user) /\ UNCHANGED started
      \/ FailToCheck(msg.user) /\ UNCHANGED started
  BY DEF FromAgent
<1> HIDE DEF msg
<1>7. PICK u \in Users :
           \/ GameEnd(u)
           \/ SucceedToCheck(u) /\ UNCHANGED started
           \/ FailToCheck(u) /\ UNCHANGED started
  BY <1>3, <1>6
<1>8. sendq \in Seq(Outgoing) /\ started \in [Users -> AnyPlace]
      /\ checks \in [Users -> 0..(Cardinality(Agents) + Others) \cup {NoCheck}]
  BY DEF Types, CoreTypes, QueueTypes
<1>9. \A t \in {"end", "sync"} : \A ok \in BOOLEAN : Append(sendq, Packet(t, u, started[u], ok)) \in Seq(Outgoing)
  <2>1. started[u] \in AnyPlace
    BY <1>8
  <2>2. \A t \in {"end", "sync"} : \A ok \in BOOLEAN : Packet(t, u, started[u], ok) \in Outgoing
    BY <2>1, PacketTypes
  <2> QED BY <2>2, <1>8, AppendElements
<1>10. Cardinality(Agents) + Others \in Nat
  BY FS_CardinalityType DEF FiniteSystem, BillingAssumption
<1>11. sendq' \in Seq(Outgoing)
  BY <1>7, <1>8, <1>9 DEF GameEnd, SucceedToCheck, FailToCheck
<1>12. started' \in [Users -> AnyPlace]
  BY <1>7, <1>8, NoPlaceType DEF GameEnd
<1>13. checks' \in [Users -> 0..(Cardinality(Agents) + Others) \cup {NoCheck}]
  <2>1. CASE FailToCheck(u)
    <3>1. CASE checks[u] \in {NoCheck, 0}
      BY <2>1, <3>1, <1>8 DEF FailToCheck
    <3>2. CASE checks[u] \notin {NoCheck, 0} /\ checks[u] > 1
      <4>1. checks[u] - 1 \in 0..(Cardinality(Agents) + Others)
        BY <3>2, <1>8, <1>10
      <4> QED BY <2>1, <3>2, <4>1, <1>8 DEF FailToCheck
    <3>3. CASE checks[u] \notin {NoCheck, 0} /\ ~(checks[u] > 1)
      BY <2>1, <3>3, <1>8 DEF FailToCheck
    <3> QED BY <3>1, <3>2, <3>3
  <2> QED BY <1>7, <1>8, <2>1 DEF GameEnd, SucceedToCheck
<1> QED BY <1>4, <1>5, <1>11, <1>12, <1>13 DEF Types, CoreTypes, QueueTypes, PlayerTypes, players, billing

LEMMA ToAgentTypes ==
  ASSUME Types, NEW a \in Agents, ToAgent(a)
  PROVE  Types'
<1> DEFINE msg == Head(down[a])
<1>1. down \in [Agents -> Seq(DownNotes)] /\ down[a] # <<>> /\ down' = [down EXCEPT ![a] = Tail(@)]
  BY DEF ToAgent, Types, QueueTypes
<1>2. msg \in DownNotes /\ Tail(down[a]) \in Seq(DownNotes)
  BY <1>1, TailElements
<1>3. msg.user \in Users /\ msg.place \in AnyPlace
  BY <1>2 DEF DownNotes
<1>4. UNCHANGED <<mode, lookups, socket, reading, sendq, started, checks, online, place, running>> /\ UNCHANGED billing
  BY DEF ToAgent, connector
<1>5. down' \in [Agents -> Seq(DownNotes)]
  BY <1>1, <1>2
<1>6. \/ up' = [up EXCEPT ![a] = Append(@, Note(IF msg.user \in online[a] THEN "check_ack" ELSE "check_nack",
                                                    msg.user, NoPlace))] /\ UNCHANGED packets
      \/ \E p \in {msg.place, NoPlace} : Keeps(a, msg.user, p) /\ UNCHANGED up
  BY DEF ToAgent
<1> HIDE DEF msg
<1>7. up \in [Agents -> Seq(UpNotes)] /\ packets \in [Agents -> [Users -> AnyPlace]]
  BY DEF Types, QueueTypes, PlayerTypes
<1>8. up' \in [Agents -> Seq(UpNotes)]
  <2>1. \A k \in {"check_ack", "check_nack"} : Append(up[a], Note(k, msg.user, NoPlace)) \in Seq(UpNotes)
    BY <1>3, <1>7, NoteTypes, NoPlaceType, AppendElements
  <2> QED BY <1>6, <1>7, <2>1
<1>9. packets' \in [Agents -> [Users -> AnyPlace]]
  <2>1. CASE UNCHANGED packets
    BY <2>1, <1>7
  <2>2. ASSUME NEW p \in AnyPlace, packets' = [packets EXCEPT ![a][msg.user] = p]
        PROVE  packets' \in [Agents -> [Users -> AnyPlace]]
    <3>1. [packets[a] EXCEPT ![msg.user] = p] \in [Users -> AnyPlace]
      BY <1>7
    <3>2. packets' = [packets EXCEPT ![a] = [packets[a] EXCEPT ![msg.user] = p]]
      BY <2>2
    <3> QED BY <3>1, <3>2, <1>7
  <2> QED BY <1>3, <1>6, <2>1, <2>2, NoPlaceType DEF Keeps
<1> QED BY <1>4, <1>5, <1>8, <1>9 DEF Types, CoreTypes, QueueTypes, PlayerTypes, billing

LEMMA LookupTypes ==
  ASSUME Types, NEW q \in lookups, RGameRoomData(q)
  PROVE  Types'
<1>1. q \in [user : Users, place : Places] /\ q.user \in Users /\ q.place \in AnyPlace
  BY DEF Types, CoreTypes, AnyPlace
<1>2. Note("start_ack", q.user, q.place) \in DownNotes /\ Note("start_nack", q.user, NoPlace) \in DownNotes
  BY <1>1, NoteTypes, NoPlaceType
<1>3. down' \in [Agents -> Seq(DownNotes)]
  <2>1. PICK n \in DownNotes : Broadcast(n)
    BY <1>2 DEF RGameRoomData
  <2> QED BY <2>1, BroadcastReaches
<1> QED BY <1>3 DEF RGameRoomData, Types, CoreTypes, QueueTypes, PlayerTypes, players, billing

LEMMA GameStartTypes ==
  ASSUME Types, NEW u \in Users, NEW a \in Agents, NEW p \in Places, GameStart(u, a, p)
  PROVE  Types'
<1>1. sendq' \in Seq(Outgoing)
  <2>1. Packet("start", u, p, TRUE) \in Outgoing
    BY PacketTypes
  <2> QED BY <2>1, AppendElements DEF GameStart, Types, QueueTypes
<1>2. lookups' \subseteq [user : Users, place : Places]
  BY DEF GameStart, Types, CoreTypes
<1>3. online' \in [Agents -> SUBSET Users] /\ place' \in [Users -> AnyPlace]
  BY DEF GameStart, Types, PlayerTypes, AnyPlace
<1>4. \A b \in Agents \ running : online'[b] = {}
  BY DEF GameStart, Types, PlayerTypes
<1> QED BY <1>1, <1>2, <1>3, <1>4 DEF GameStart, Types, CoreTypes, QueueTypes, PlayerTypes, billing

LEMMA LeaveTypes ==
  ASSUME Types, NEW u \in Users, NEW a \in Agents, Leave(a, u)
  PROVE  Types'
<1>1. up' \in [Agents -> Seq(UpNotes)]
  <2>1. Note("stop", u, NoPlace) \in UpNotes
    BY NoteTypes, NoPlaceType
  <2> QED BY <2>1, AppendElements DEF Leave, Types, QueueTypes
<1>2. online' \in [Agents -> SUBSET Users] /\ place' \in [Users -> AnyPlace] /\ running' = running
  BY DEF Leave, Types, PlayerTypes, AnyPlace
<1>3. \A b \in Agents \ running : online'[b] = {}
  BY DEF Leave, Types, PlayerTypes
<1> QED BY <1>1, <1>2, <1>3 DEF Leave, Types, CoreTypes, QueueTypes, PlayerTypes, billing, connector, limits

LEMMA AgentStopsTypes ==
  ASSUME Types, NEW a \in Agents, AgentStops(a)
  PROVE  Types'
<1>1. down' \in [Agents -> Seq(DownNotes)]
  BY EmptyQueue DEF AgentStops, Types, QueueTypes
<1>2. /\ online' \in [Agents -> SUBSET Users] /\ place' \in [Users -> AnyPlace]
      /\ packets' \in [Agents -> [Users -> AnyPlace]] /\ running' \subseteq Agents
  BY DEF AgentStops, RemoveServer, Types, PlayerTypes, AnyPlace
<1>3. \A b \in Agents \ running' : online'[b] = {}
  BY DEF AgentStops, RemoveServer, Types, PlayerTypes
<1> QED BY <1>1, <1>2, <1>3 DEF AgentStops, Types, CoreTypes, QueueTypes, PlayerTypes, billing, connector, limits

LEMMA ConnectTypes ==
  ASSUME Types, Connect, BillingAssumption, FiniteSystem
  PROVE  Types'
<1>1. UNCHANGED <<mode, lookups, charged, asked, down, up>> /\ UNCHANGED players /\ reading' = FALSE
  BY DEF Connect
<1>2. CASE Connected
  <2>1. sendq' = Reported(started)
    BY <1>2 DEF Connected, Reported
  <2>2. sendq' \in Seq(Outgoing)
    BY <2>1, ReportedPackets DEF Types, CoreTypes, FiniteSystem
  <2>3. started' \in [Users -> AnyPlace] /\ inbox' \in Seq(Incoming) /\ socket' \in {"up", "invalid"}
    BY <1>2, EmptyQueue DEF Connected, AnyPlace
  <2>4. checks' \in [Users -> 0..(Cardinality(Agents) + Others) \cup {NoCheck}]
    BY <1>2 DEF Connected
  <2> QED BY <1>1, <2>2, <2>3, <2>4 DEF Types, CoreTypes, QueueTypes, PlayerTypes, players
<1>3. CASE ~Connected
  BY <1>1, <1>3 DEF Connect, Types, CoreTypes, QueueTypes, PlayerTypes, players
<1> QED BY <1>2, <1>3

LEMMA RestTypes ==
  ASSUME Types, SendFails \/ Reset \/ Drops \/ \E u \in Users : Asks(u) \/ Alerts(u)
  PROVE  Types'
<1>1. CASE SendFails
  <2>1. sendq' \in Seq(Outgoing)
    BY <1>1, TailElements DEF SendFails, Types, QueueTypes
  <2>2. /\ UNCHANGED <<mode, lookups, started, checks, down, up>> /\ UNCHANGED players /\ UNCHANGED billing
        /\ socket' \in {"none", "broken"} /\ reading' \in BOOLEAN
    BY <1>1 DEF SendFails
  <2> QED BY <2>1, <2>2 DEF Types, CoreTypes, QueueTypes, PlayerTypes, players, billing
<1>2. CASE Reset
  BY <1>2, EmptyQueue DEF Reset, Types, CoreTypes, QueueTypes, PlayerTypes, players
<1>3. CASE Drops
  BY <1>3, EmptyQueue DEF Drops, Types, CoreTypes, QueueTypes, PlayerTypes, players
<1>4. ASSUME NEW u \in Users, Asks(u) \/ Alerts(u)
      PROVE  Types'
  <2>1. charged[u] \in AnyPlace /\ charged \in [Users -> AnyPlace] /\ inbox \in Seq(Incoming)
    BY DEF Types, CoreTypes, QueueTypes
  <2>2. Packet("sync", u, charged[u], TRUE) \in Incoming /\ Packet("alert", u, charged[u], FALSE) \in Incoming
    BY <2>1, PacketTypes
  <2>3. inbox' \in Seq(Incoming)
    <3>1. \A p \in Incoming : Append(inbox, p) \in Seq(Incoming)
      BY <2>1, AppendElements
    <3>2. CASE Asks(u)
      BY <3>1, <3>2, <2>2 DEF Asks
    <3>3. CASE Alerts(u)
      BY <3>1, <3>3, <2>2 DEF Alerts
    <3> QED BY <1>4, <3>2, <3>3
  <2>4. charged' \in [Users -> AnyPlace] /\ asked' \subseteq Users
    <3>1. asked \subseteq Users
      BY DEF Types, CoreTypes
    <3>2. CASE Asks(u)
      BY <3>1, <3>2, <2>1 DEF Asks
    <3>3. CASE Alerts(u)
      BY <3>1, <3>3, <2>1, NoPlaceType DEF Alerts
    <3> QED BY <1>4, <3>2, <3>3
  <2>5. UNCHANGED connector /\ UNCHANGED players /\ UNCHANGED <<down, up>>
    BY <1>4 DEF Asks, Alerts
  <2>6. CoreTypes'
    BY <2>4, <2>5 DEF Types, CoreTypes, connector
  <2>7. QueueTypes'
    BY <2>3, <2>5 DEF Types, QueueTypes, connector
  <2>8. PlayerTypes'
    BY <2>5 DEF Types, PlayerTypes, players
  <2> QED BY <2>6, <2>7, <2>8 DEF Types
<1> QED BY <1>1, <1>2, <1>3, <1>4

LEMMA TypesStep ==
  ASSUME Types, [Next]_vars, BillingAssumption, FiniteSystem
  PROVE  Types'
<1>1. CASE UNCHANGED vars
  BY <1>1 DEF vars, Types, CoreTypes, QueueTypes, PlayerTypes
<1>2. CASE Connect
  BY <1>2, ConnectTypes
<1>3. CASE Send
  BY <1>3, SendTypes
<1>4. CASE Recv
  BY <1>4, RecvTypes
<1>5. CASE SendFails \/ Reset \/ Drops \/ \E u \in Users : Asks(u) \/ Alerts(u)
  BY <1>5, RestTypes
<1>6. ASSUME NEW a \in Agents, FromAgent(a) \/ ToAgent(a) \/ AgentStops(a)
      PROVE  Types'
  BY <1>6, FromAgentTypes, ToAgentTypes, AgentStopsTypes
<1>7. ASSUME NEW a \in Agents, NEW u \in Users, Leave(a, u) \/ \E p \in Places : GameStart(u, a, p)
      PROVE  Types'
  BY <1>7, LeaveTypes, GameStartTypes
<1>8. ASSUME NEW q \in lookups, RGameRoomData(q)
      PROVE  Types'
  BY <1>8, LookupTypes
<1> QED BY <1>1, <1>2, <1>3, <1>4, <1>5, <1>6, <1>7, <1>8 DEF Next, Process

LEMMA InitTypes ==
  ASSUME Init, BillingAssumption
  PROVE  Types
  BY EmptyQueue DEF Init, Types, CoreTypes, QueueTypes, PlayerTypes, AnyPlace

(* Every queue holds packets and messages of its kind about players there *)
(* are, every count of denials is at most the number of servers, and       *)
(* nobody is in the game at an agent that has ended (BillConnector.cpp and *)
(* OnDisconnectServer).                                                    *)
THEOREM BillingTypes ==
  ASSUME FiniteSystem
  PROVE  Spec => []Types
<1>1. Init => Types
  BY InitTypes, BillingAssumption
<1>2. Types /\ [Next]_vars => Types'
  BY TypesStep, BillingAssumption
<1> QED BY <1>1, <1>2, PTL DEF Spec

-----------------------------------------------------------------------------
(* Searches: the denials that may still come are fewer than those waited   *)
(* for, as long as an agent has the player.                                *)

Once(q, K, u) ==
  \A i, j \in DOMAIN q : q[i].kind \in K /\ q[i].user = u /\ q[j].kind \in K /\ q[j].user = u => i = j

(* The answer that a player is gone waits to be sent. *)
Denied(q, u) == \E i \in DOMAIN q : q[i].type = "sync" /\ q[i].user = u /\ ~q[i].ok

Answers == {"check_ack", "check_nack"}

CheckAt(a, u) == Tells(down[a], "check", u)

AckAt(a, u) == Tells(up[a], "check_ack", u)

NackAt(a, u) == Tells(up[a], "check_nack", u)

(* The agents that deny the player, or would if they were asked now. *)
Deniers(u) == {a \in Agents : NackAt(a, u) \/ (CheckAt(a, u) /\ u \notin online[a])}

FewDeny(u) == Deniers(u) = {} \/ Cardinality(Deniers(u)) < checks[u]

OneAtATime == \A u \in Users, a, b \in Agents : u \in online[a] /\ u \in online[b] => a = b

AskedAreThere == \A u \in present : Online(u)

(* Of a search that is not mixed with an older one each agent has one message. *)
OneMessage(a, u) ==
  /\ Once(down[a], {"check"}, u) /\ Once(up[a], Answers, u)
  /\ ~(CheckAt(a, u) /\ (AckAt(a, u) \/ NackAt(a, u)))

NotDenied(u) == ~Denied(sendq, u) /\ (checks[u] # NoCheck => FewDeny(u))

SearchInv ==
  /\ OneAtATime /\ AskedAreThere
  /\ \A u \in Users \ mixed : \A a \in Agents : OneMessage(a, u)
  /\ \A u \in Users \ mixed : Online(u) => NotDenied(u)

LEMMA OnceTail ==
  ASSUME NEW S, NEW q \in Seq(S), q # <<>>, NEW K, NEW u, Once(q, K, u)
  PROVE  /\ Once(Tail(q), K, u)
         /\ Head(q).kind \in K /\ Head(q).user = u => \A k \in K : ~Tells(Tail(q), k, u)
<1> USE TailElements
<1>1. ASSUME NEW i \in 1..(Len(q) - 1), NEW j \in 1..(Len(q) - 1), Tail(q)[i].kind \in K, Tail(q)[i].user = u,
             Tail(q)[j].kind \in K, Tail(q)[j].user = u
      PROVE  i = j
  <2>1. i + 1 \in 1..Len(q) /\ j + 1 \in 1..Len(q) /\ q[i + 1] = Tail(q)[i] /\ q[j + 1] = Tail(q)[j]
    OBVIOUS
  <2>2. i + 1 = j + 1
    BY <1>1, <2>1 DEF Once
  <2> QED BY <2>2
<1>2. ASSUME Head(q).kind \in K, Head(q).user = u, NEW k \in K, Tells(Tail(q), k, u)
      PROVE  FALSE
  <2>1. PICK i \in 1..(Len(q) - 1) : Tail(q)[i].kind = k /\ Tail(q)[i].user = u
    BY <1>2 DEF Tells
  <2>2. i + 1 \in 1..Len(q) /\ 1 \in 1..Len(q) /\ q[i + 1] = Tail(q)[i]
    OBVIOUS
  <2>3. i + 1 = 1
    BY <1>2, <2>1, <2>2 DEF Once
  <2> QED BY <2>3
<1> QED BY <1>1, <1>2 DEF Once

LEMMA OnceAppend ==
  ASSUME NEW S, NEW q \in Seq(S), NEW e \in S, NEW K, NEW u, Once(q, K, u),
         (e.kind \in K /\ e.user = u) => \A k \in K : ~Tells(q, k, u)
  PROVE  Once(Append(q, e), K, u)
<1> USE AppendElements
<1> SUFFICES ASSUME NEW i \in 1..(Len(q) + 1), NEW j \in 1..(Len(q) + 1),
                    Append(q, e)[i].kind \in K, Append(q, e)[i].user = u,
                    Append(q, e)[j].kind \in K, Append(q, e)[j].user = u
             PROVE  i = j
  BY DEF Once
<1>1. \A h \in 1..Len(q) : q[h].kind \in K /\ q[h].user = u => ~(e.kind \in K /\ e.user = u)
  BY DEF Tells
<1>2. CASE i \in 1..Len(q) /\ j \in 1..Len(q)
  BY <1>2 DEF Once
<1>3. CASE i \notin 1..Len(q)
  <2>1. i = Len(q) + 1 /\ e.kind \in K /\ e.user = u
    BY <1>3
  <2> QED BY <2>1, <1>1
<1>4. CASE j \notin 1..Len(q)
  <2>1. j = Len(q) + 1 /\ e.kind \in K /\ e.user = u
    BY <1>4
  <2> QED BY <2>1, <1>1
<1> QED BY <1>2, <1>3, <1>4

LEMMA DeniedInTail ==
  ASSUME NEW S, NEW q \in Seq(S), q # <<>>, NEW u, ~Denied(q, u)
  PROVE  ~Denied(Tail(q), u) /\ ~(Head(q).type = "sync" /\ Head(q).user = u /\ ~Head(q).ok)
<1> USE TailElements
<1>1. ASSUME NEW i \in 1..(Len(q) - 1), Tail(q)[i].type = "sync", Tail(q)[i].user = u, ~Tail(q)[i].ok
      PROVE  FALSE
  <2>1. i + 1 \in 1..Len(q) /\ q[i + 1] = Tail(q)[i]
    OBVIOUS
  <2> QED BY <1>1, <2>1 DEF Denied
<1>2. 1 \in DOMAIN q /\ Head(q) = q[1]
  OBVIOUS
<1> QED BY <1>1, <1>2 DEF Denied

LEMMA DeniedInAppend ==
  ASSUME NEW S, NEW q \in Seq(S), NEW e \in S, NEW u, ~Denied(q, u), ~(e.type = "sync" /\ e.user = u /\ ~e.ok)
  PROVE  ~Denied(Append(q, e), u)
<1> USE AppendElements
<1>1. ASSUME NEW i \in 1..(Len(q) + 1), Append(q, e)[i].type = "sync", Append(q, e)[i].user = u, ~Append(q, e)[i].ok
      PROVE  FALSE
  <2>1. CASE i = Len(q) + 1
    BY <1>1, <2>1
  <2>2. CASE i \in 1..Len(q)
    BY <1>1, <2>2 DEF Denied
  <2> QED BY <2>1, <2>2
<1> QED BY <1>1 DEF Denied

LEMMA NamedSync ==
  ASSUME NEW q, NEW u, ~Names(q, "sync", u)
  PROVE  ~Denied(q, u)
  BY DEF Names, Denied

LEMMA DeniersFinite ==
  ASSUME FiniteSystem, NEW S \in SUBSET Agents
  PROVE  IsFiniteSet(S) /\ Cardinality(S) \in Nat /\ \A T \in SUBSET S : Cardinality(T) <= Cardinality(S)
  BY FS_Subset, FS_CardinalityType DEF FiniteSystem

(* A step that moves no message of a search. *)
SameSearch(u) ==
  /\ \A a \in Agents : /\ CheckAt(a, u)' <=> CheckAt(a, u)
                       /\ AckAt(a, u)' <=> AckAt(a, u)
                       /\ NackAt(a, u)' <=> NackAt(a, u)
                       /\ Once(down[a], {"check"}, u) => Once(down'[a], {"check"}, u)
                       /\ Once(up[a], Answers, u) => Once(up'[a], Answers, u)
  /\ checks'[u] \in {checks[u], NoCheck}
  /\ ~Denied(sendq, u) => ~Denied(sendq', u)

LEMMA SearchKept ==
  ASSUME SearchInv, online' = online, mixed \subseteq mixed', \A u \in present' : u \in present \/ Online(u),
         \A u \in Users \ mixed' : SameSearch(u)
  PROVE  SearchInv'
<1>1. OneAtATime'
  BY DEF SearchInv, OneAtATime
<1>2. AskedAreThere'
  BY DEF SearchInv, AskedAreThere, Online
<1>3. ASSUME NEW u \in Users \ mixed', NEW a \in Agents
      PROVE  OneMessage(a, u)'
  <2>1. OneMessage(a, u) /\ SameSearch(u)
    BY <1>3 DEF SearchInv
  <2> QED BY <2>1 DEF OneMessage, SameSearch
<1>4. ASSUME NEW u \in Users \ mixed', Online(u)'
      PROVE  NotDenied(u)'
  <2>1. NotDenied(u) /\ SameSearch(u)
    BY <1>4 DEF SearchInv, Online
  <2>2. Deniers(u)' = Deniers(u)
    BY <2>1 DEF SameSearch, Deniers
  <2> QED BY <2>1, <2>2 DEF NotDenied, SameSearch, FewDeny
<1> QED BY <1>1, <1>2, <1>3, <1>4 DEF SearchInv

LEMMA BroadcastElse ==
  ASSUME Types, NEW msg \in DownNotes, msg.kind # "check", Broadcast(msg), NEW a \in Agents, NEW u
  PROVE  /\ CheckAt(a, u)' <=> CheckAt(a, u)
         /\ Once(down[a], {"check"}, u) => Once(down'[a], {"check"}, u)
<1>1. down[a] \in Seq(DownNotes)
  BY DEF Types, QueueTypes
<1>2. CASE a \in running
  <2>1. down'[a] = Append(down[a], msg)
    BY <1>2, BroadcastReaches
  <2>2. Tells(Append(down[a], msg), "check", u) <=> Tells(down[a], "check", u)
    BY <1>1, TellsInAppend
  <2>3. Once(down[a], {"check"}, u) => Once(Append(down[a], msg), {"check"}, u)
    BY <1>1, OnceAppend
  <2> QED BY <2>1, <2>2, <2>3 DEF CheckAt
<1>3. CASE a \notin running
  BY <1>3, BroadcastReaches DEF CheckAt
<1> QED BY <1>2, <1>3

LEMMA NoMessageMoves ==
  ASSUME down' = down, up' = up, NEW u, checks'[u] \in {checks[u], NoCheck}, ~Denied(sendq, u) => ~Denied(sendq', u)
  PROVE  SameSearch(u)
  BY DEF SameSearch, CheckAt, AckAt, NackAt

LEMMA NotePart ==
  ASSUME NEW k, NEW u, NEW p
  PROVE  Note(k, u, p).kind = k /\ Note(k, u, p).user = u /\ Note(k, u, p).place = p
  BY DEF Note

LEMMA PacketPart ==
  ASSUME NEW t, NEW u, NEW p, NEW ok
  PROVE  Packet(t, u, p, ok).type = t /\ Packet(t, u, p, ok).user = u /\ Packet(t, u, p, ok).place = p
         /\ Packet(t, u, p, ok).ok = ok
  BY DEF Packet

LEMMA ConnectSearch ==
  ASSUME Types, SearchInv, Connect, BillingAssumption, FiniteSystem
  PROVE  SearchInv'
<1>1. UNCHANGED <<down, up, online, present, mixed>>
  BY DEF Connect, players
<1>2. CASE Connected
  <2>1. sendq' = Reported(started)
    BY <1>2 DEF Connected, Reported
  <2>2. ASSUME NEW i \in DOMAIN sendq'
        PROVE  sendq'[i].type # "sync"
    <3>0. \A u, p : Packet("start", u, p, TRUE).type = "start" /\ Alone("conn").type = "conn" /\ Alone("reset").type = "reset"
      BY DEF Packet, Alone
    <3>1. started \in [Users -> AnyPlace] /\ sendq' \in Seq(Outgoing)
      BY <2>1, ReportedPackets DEF Types, CoreTypes, FiniteSystem
    <3>2. i \in Nat /\ i >= 1
      BY <3>1
    <3>5. /\ \A h \in DOMAIN sendq' : h > 2 =>
               \E u \in Users : started[u] # NoPlace /\ sendq'[h] = Packet("start", u, started[u], TRUE)
          /\ sendq'[1] = Alone("conn") /\ sendq'[2] = Alone("reset")
      BY <2>1, <3>1, ReportedPackets DEF FiniteSystem
    <3>3. CASE i > 2
      <4>1. PICK u \in Users : sendq'[i] = Packet("start", u, started[u], TRUE)
        BY <3>3, <3>5
      <4> QED BY <4>1, <3>0
    <3>4. CASE i = 1 \/ i = 2
      BY <3>0, <3>4, <3>5
    <3> QED BY <3>2, <3>3, <3>4
  <2>3. ASSUME NEW u \in Users
        PROVE  SameSearch(u)
    <3>1. checks'[u] = NoCheck
      BY <1>2 DEF Connected
    <3>2. ~Denied(sendq', u)
      BY <2>2 DEF Denied
    <3> QED BY <1>1, <3>1, <3>2, NoMessageMoves
  <2> QED BY <1>1, <2>3, SearchKept
<1>3. CASE ~Connected
  <2>1. UNCHANGED <<sendq, checks>>
    BY <1>3 DEF Connect
  <2>2. \A u : SameSearch(u)
    BY <1>1, <2>1, NoMessageMoves
  <2> QED BY <1>1, <2>2, SearchKept
<1> QED BY <1>2, <1>3

LEMMA SendSearch ==
  ASSUME Types, SearchInv, Send
  PROVE  SearchInv'
<1>1. UNCHANGED <<down, up, online, mixed, checks>> /\ present' \subseteq present
  BY DEF Send, players
<1>2. sendq' = Tail(sendq) /\ sendq \in Seq(Outgoing) /\ sendq # <<>>
  BY DEF Send, Types, QueueTypes
<1>3. \A u : SameSearch(u)
  BY <1>1, <1>2, DeniedInTail, NoMessageMoves
<1> QED BY <1>1, <1>3, SearchKept

LEMMA QuietStepsSearch ==
  ASSUME Types, SearchInv, SendFails \/ Reset \/ Drops \/ \E u \in Users : Asks(u) \/ Alerts(u)
  PROVE  SearchInv'
<1>1. UNCHANGED <<down, up, online, checks>> /\ mixed \subseteq mixed' /\ \A u \in present' : u \in present \/ Online(u)
  BY DEF SendFails, Reset, Drops, Asks, Alerts, players, connector, Mixes
<1>2. sendq' = sendq \/ (sendq # <<>> /\ sendq' = Tail(sendq))
  BY DEF SendFails, Reset, Drops, Asks, Alerts, connector
<1>3. sendq \in Seq(Outgoing)
  BY DEF Types, QueueTypes
<1>4. \A u : ~Denied(sendq, u) => ~Denied(sendq', u)
  BY <1>2, <1>3, DeniedInTail
<1>5. \A u : SameSearch(u)
  BY <1>1, <1>4, NoMessageMoves
<1> QED BY <1>1, <1>5, SearchKept

LEMMA LookupSearch ==
  ASSUME Types, SearchInv, NEW q \in lookups, RGameRoomData(q)
  PROVE  SearchInv'
<1>1. q.user \in Users /\ q.place \in AnyPlace
  BY DEF Types, CoreTypes, AnyPlace
<1>2. PICK n \in DownNotes : Broadcast(n) /\ n.kind # "check"
  BY <1>1, NoteTypes, NotePart, NoPlaceType DEF RGameRoomData
<1>3. UNCHANGED <<up, online, mixed, present, checks, sendq>>
  BY DEF RGameRoomData, players
<1>4. \A u : SameSearch(u)
  BY <1>2, <1>3, BroadcastElse DEF SameSearch, AckAt, NackAt
<1> QED BY <1>3, <1>4, SearchKept

(* A search begins: everybody is asked, and one of them has the player. *)
LEMMA SyncSearch ==
  ASSUME Types, SearchInv, BillingAssumption, FiniteSystem, NEW p \in Incoming, ReceiveSync(p),
         UNCHANGED <<up, online, present, running, sendq>>
  PROVE  SearchInv'
<1> DEFINE x == p.user
<1>0. x \in Users
  BY DEF Incoming, Starts
<1> HIDE DEF x
<1>1. CASE checks[x] # NoCheck
  <2>1. UNCHANGED <<checks, down, mixed>>
    BY <1>1 DEF ReceiveSync, x
  <2>2. \A u : SameSearch(u)
    BY <2>1, NoMessageMoves
  <2> QED BY <2>1, <2>2, SearchKept
<1>2. CASE checks[x] = NoCheck
  <2>1. /\ checks' = [checks EXCEPT ![x] = Cardinality(running) + Others]
        /\ Broadcast(Note("check", x, NoPlace)) /\ Mixes(x, <<>>)
    BY <1>2 DEF ReceiveSync, x
  <2>2. Note("check", x, NoPlace) \in DownNotes /\ \A a \in Agents : down[a] \in Seq(DownNotes)
    BY <1>0, NoteTypes, NoPlaceType DEF Types, QueueTypes
  <2>3. mixed \subseteq mixed' /\ (x \notin mixed' => ~Searched(x))
    BY <2>1 DEF Mixes
  <2>4. \A a \in Agents : down'[a] \in {down[a], Append(down[a], Note("check", x, NoPlace))}
    BY <2>1, <2>2, BroadcastReaches
  <2>5. ASSUME NEW u, u # x, NEW a \in Agents
        PROVE  /\ CheckAt(a, u)' <=> CheckAt(a, u)
               /\ Once(down[a], {"check"}, u) => Once(down'[a], {"check"}, u)
    <3>1. Tells(Append(down[a], Note("check", x, NoPlace)), "check", u) <=> Tells(down[a], "check", u)
      BY <2>2, <2>5, TellsInAppend, NotePart
    <3>2. Once(down[a], {"check"}, u) => Once(Append(down[a], Note("check", x, NoPlace)), {"check"}, u)
      BY <2>2, <2>5, OnceAppend, NotePart
    <3> QED BY <2>4, <3>1, <3>2 DEF CheckAt
  <2>6. ASSUME x \notin mixed', NEW a \in Agents
        PROVE  OneMessage(a, x)'
    <3>1. ~CheckAt(a, x) /\ ~AckAt(a, x) /\ ~NackAt(a, x) /\ OneMessage(a, x)
      BY <2>3, <2>6, <1>0, SearchedAnswers DEF CheckAt, AckAt, NackAt, SearchInv
    <3>2. Once(down[a], {"check"}, x) /\ Once(Append(down[a], Note("check", x, NoPlace)), {"check"}, x)
      <4>1. \A k \in {"check"} : ~Tells(down[a], k, x)
        BY <3>1 DEF CheckAt
      <4>2. Once(down[a], {"check"}, x)
        BY <3>1 DEF OneMessage
      <4> QED BY <2>2, <4>1, <4>2, OnceAppend
    <3>3. Once(down'[a], {"check"}, x)
      BY <2>4, <3>2
    <3>4. ~AckAt(a, x)' /\ ~NackAt(a, x)' /\ Once(up'[a], Answers, x)
      BY <3>1 DEF AckAt, NackAt, OneMessage
    <3> QED BY <3>3, <3>4 DEF OneMessage
  <2>7. ASSUME x \notin mixed', Online(x)
        PROVE  FewDeny(x)' /\ ~Denied(sendq', x)
    <3>1. PICK b \in Agents : x \in online[b]
      BY <2>7 DEF Online
    <3>2. b \in running
      BY <3>1 DEF Types, PlayerTypes
    <3>3. Deniers(x)' \subseteq running \ {b}
      <4>1. ASSUME NEW a \in Agents, NackAt(a, x)' \/ (CheckAt(a, x)' /\ x \notin online'[a])
            PROVE  a \in running \ {b}
        <5>1. ~CheckAt(a, x) /\ ~NackAt(a, x)
          BY <2>3, <2>7, SearchedAnswers DEF CheckAt, NackAt
        <5>2. ~NackAt(a, x)'
          BY <5>1 DEF NackAt
        <5>3. a # b /\ CheckAt(a, x)'
          BY <4>1, <5>2, <3>1
        <5>4. CASE a \notin running
          <6>1. down'[a] = down[a]
            BY <5>4, <2>1, <2>2, BroadcastReaches
          <6> QED BY <6>1, <5>1, <5>3 DEF CheckAt
        <5> QED BY <5>3, <5>4
      <4> QED BY <4>1 DEF Deniers
    <3>4. IsFiniteSet(running) /\ Cardinality(running) \in Nat
      BY RunningCount DEF FiniteSystem, Types, PlayerTypes
    <3>5. Cardinality(running \ {b}) = Cardinality(running) - 1 /\ IsFiniteSet(running \ {b})
      BY <3>2, <3>4, FS_RemoveElement
    <3>6. Cardinality(Deniers(x)') <= Cardinality(running) - 1 /\ Cardinality(Deniers(x)') \in Nat
      BY <3>3, <3>5, FS_Subset, FS_CardinalityType
    <3>7. checks'[x] = Cardinality(running) + Others
      BY <2>1, <1>0 DEF Types, CoreTypes
    <3>8. Cardinality(Deniers(x)') < checks'[x]
      BY <3>4, <3>6, <3>7 DEF BillingAssumption
    <3>9. FewDeny(x)'
      BY <3>8 DEF FewDeny
    <3>10. ~Denied(sendq, x)
      BY <1>0, <2>3, <2>7 DEF SearchInv, NotDenied
    <3> QED BY <3>9, <3>10
  <2>8. ASSUME NEW u \in Users \ mixed', u # x
        PROVE  /\ \A a \in Agents : OneMessage(a, u)'
               /\ Online(u)' => NotDenied(u)'
    <3>1. \A a \in Agents : OneMessage(a, u)
      BY <2>3, <2>8 DEF SearchInv
    <3>2. \A a \in Agents : AckAt(a, u)' = AckAt(a, u) /\ NackAt(a, u)' = NackAt(a, u)
      BY DEF AckAt, NackAt
    <3>3. \A a \in Agents : OneMessage(a, u)'
      BY <2>5, <2>8, <3>1, <3>2 DEF OneMessage
    <3>4. Deniers(u)' = Deniers(u) /\ checks'[u] = checks[u]
      BY <2>1, <2>5, <2>8, <3>2 DEF Deniers, Types, CoreTypes
    <3>5. Online(u) => NotDenied(u)
      BY <2>3, <2>8 DEF SearchInv
    <3> QED BY <3>3, <3>4, <3>5 DEF NotDenied, FewDeny, Online
  <2>9. OneAtATime' /\ AskedAreThere'
    <3>1. OneAtATime /\ AskedAreThere
      BY DEF SearchInv
    <3> QED BY <3>1 DEF OneAtATime, AskedAreThere, Online
  <2>10. ASSUME NEW u \in Users \ mixed', Online(u)'
         PROVE  NotDenied(u)'
    <3>1. CASE u = x
      BY <3>1, <2>7, <2>10 DEF NotDenied, Online
    <3> QED BY <3>1, <2>8, <2>10
  <2>11. ASSUME NEW u \in Users \ mixed', NEW a \in Agents
         PROVE  OneMessage(a, u)'
    BY <2>6, <2>8
  <2> QED BY <2>9, <2>10, <2>11 DEF SearchInv
<1> QED BY <1>1, <1>2

LEMMA RecvSearch ==
  ASSUME Types, SearchInv, Recv, BillingAssumption, FiniteSystem
  PROVE  SearchInv'
<1> DEFINE p == Head(inbox)
<1>1. p \in Incoming /\ Receive(p)
  BY TailElements DEF Recv, Types, QueueTypes
<1>2. UNCHANGED <<up, online, present, running, sendq>>
  BY DEF Recv, players
<1> HIDE DEF p
<1>3. p.user \in Users /\ p.place \in AnyPlace
  BY <1>1 DEF Incoming, Starts, AnyPlace
<1>4. CASE ReceiveSync(p)
  BY <1>1, <1>2, <1>4, SyncSearch
<1>5. CASE ~ReceiveSync(p)
  <2>1. PICK n \in DownNotes : Broadcast(n) /\ n.kind # "check"
    BY <1>1, <1>3, <1>5, NoteTypes, NotePart, NoPlaceType DEF Receive, ReceiveDenied, ReceiveAlert
  <2>2. UNCHANGED mixed /\ \A u \in Users : checks'[u] \in {checks[u], NoCheck}
    BY <1>1, <1>3, <1>5 DEF Receive, ReceiveDenied, ReceiveAlert, Types, CoreTypes
  <2>3. \A u \in Users : SameSearch(u)
    BY <1>2, <2>1, <2>2, BroadcastElse DEF SameSearch, AckAt, NackAt
  <2> QED BY <1>2, <2>2, <2>3, SearchKept
<1> QED BY <1>4, <1>5

(* A message of an agent is taken from its queue. *)
LEMMA MessageTaken ==
  ASSUME Types, NEW a \in Agents, FromAgent(a)
  PROVE  \E msg \in UpNotes :
         /\ msg = Head(up[a]) /\ msg.user \in Users
         /\ \A b \in Agents : b # a => up'[b] = up[b]
         /\ \A k, u : Tells(up[a], k, u) <=> Tells(up'[a], k, u) \/ (msg.kind = k /\ msg.user = u)
         /\ \A K, u : Once(up[a], K, u) =>
              /\ Once(up'[a], K, u)
              /\ msg.kind \in K /\ msg.user = u => \A k \in K : ~Tells(up'[a], k, u)
<1>1. up \in [Agents -> Seq(UpNotes)] /\ up[a] # <<>> /\ up' = [up EXCEPT ![a] = Tail(@)]
  BY DEF FromAgent, Types, QueueTypes
<1>2. up[a] \in Seq(UpNotes) /\ up'[a] = Tail(up[a]) /\ \A b \in Agents : b # a => up'[b] = up[b]
  BY <1>1
<1>3. Head(up[a]) \in UpNotes
  BY <1>1, <1>2, TailElements
<1>4. Head(up[a]).user \in Users
  BY <1>3 DEF UpNotes
<1>5. \A k, u : Tells(up[a], k, u) <=> Tells(up'[a], k, u) \/ (Head(up[a]).kind = k /\ Head(up[a]).user = u)
  BY <1>1, <1>2, TellsInTail
<1>6. \A K, u : Once(up[a], K, u) =>
              /\ Once(up'[a], K, u)
              /\ Head(up[a]).kind \in K /\ Head(up[a]).user = u => \A k \in K : ~Tells(up'[a], k, u)
  BY <1>1, <1>2, OnceTail
<1> QED BY <1>2, <1>3, <1>4, <1>5, <1>6

LEMMA FromAgentSearch ==
  ASSUME Types, SearchInv, NEW a \in Agents, FromAgent(a), BillingAssumption, FiniteSystem
  PROVE  SearchInv'
<1>0. PICK msg \in UpNotes :
      /\ msg = Head(up[a]) /\ msg.user \in Users
      /\ \A b \in Agents : b # a => up'[b] = up[b]
      /\ \A k, u : Tells(up[a], k, u) <=> Tells(up'[a], k, u) \/ (msg.kind = k /\ msg.user = u)
      /\ \A K, u : Once(up[a], K, u) =>
              /\ Once(up'[a], K, u)
              /\ msg.kind \in K /\ msg.user = u => \A k \in K : ~Tells(up'[a], k, u)
  BY MessageTaken
<1>a. PICK x \in Users : x = msg.user
  BY <1>0
<1>1. /\ \A b \in Agents : b # a => up'[b] = up[b]
      /\ \A k, u : Tells(up[a], k, u) <=> Tells(up'[a], k, u) \/ (msg.kind = k /\ x = u)
      /\ \A K, u : Once(up[a], K, u) =>
              /\ Once(up'[a], K, u)
              /\ msg.kind \in K /\ x = u => \A k \in K : ~Tells(up'[a], k, u)
  BY <1>0, <1>a
<1>2. \/ msg.kind = "stop" /\ GameEnd(x)
      \/ msg.kind = "check_ack" /\ SucceedToCheck(x) /\ UNCHANGED <<started, muddled>>
      \/ msg.kind = "check_nack" /\ FailToCheck(x) /\ UNCHANGED <<started, muddled>>
  BY <1>0, <1>a DEF FromAgent
<1>3. UNCHANGED <<down, online, present, mixed>>
  BY DEF FromAgent, players
<1>4. checks \in [Users -> 0..(Cardinality(Agents) + Others) \cup {NoCheck}] /\ sendq \in Seq(Outgoing)
      /\ started[x] \in AnyPlace
  BY <1>1 DEF Types, CoreTypes, QueueTypes
<1>5. \A ok \in BOOLEAN : Packet("end", x, started[x], ok) \in Outgoing /\ Packet("sync", x, started[x], ok) \in Outgoing
  BY <1>1, <1>4, PacketTypes
<1>12. /\ Packet("end", x, started[x], TRUE).type # "sync" /\ Packet("sync", x, started[x], TRUE).ok
       /\ Packet("sync", x, started[x], FALSE).user = x
  BY DEF Packet
<1>6. \A u : u # x => checks'[u] = checks[u]
  <2>1. \A u : u # x => \A c : [checks EXCEPT ![x] = c][u] = checks[u]
    BY <1>4
  <2> QED BY <1>2, <2>1 DEF GameEnd, SucceedToCheck, FailToCheck
<1>7. ASSUME NEW u, ~Denied(sendq, u), ~Denied(sendq', u) \/ u # x \/ msg.kind # "check_nack"
      PROVE  ~Denied(sendq', u)
  <2>1. \A p \in Outgoing : ~(p.type = "sync" /\ p.user = u /\ ~p.ok) => ~Denied(Append(sendq, p), u)
    BY <1>4, <1>7, DeniedInAppend
  <2>2. CASE msg.kind = "stop"
    <3>1. sendq' \in {sendq, Append(sendq, Packet("end", x, started[x], TRUE))}
      BY <1>2, <2>2 DEF GameEnd
    <3> QED BY <1>5, <1>7, <1>12, <2>1, <3>1
  <2>3. CASE msg.kind = "check_ack"
    <3>1. sendq' \in {sendq, Append(sendq, Packet("sync", x, started[x], TRUE))}
      BY <1>2, <2>3 DEF SucceedToCheck
    <3> QED BY <1>5, <1>7, <1>12, <2>1, <3>1
  <2>4. CASE msg.kind = "check_nack"
    <3>1. sendq' \in {sendq, Append(sendq, Packet("sync", x, started[x], FALSE))}
      BY <1>2, <2>4 DEF FailToCheck
    <3> QED BY <1>5, <1>7, <1>12, <2>1, <2>4, <3>1
  <2> QED BY <1>2, <2>2, <2>3, <2>4
<1>8. \A b \in Agents : \A k, u : k # msg.kind \/ u # x \/ b # a => (Tells(up'[b], k, u) <=> Tells(up[b], k, u))
  BY <1>1
<1>9. ASSUME NEW u \in Users \ mixed', NEW b \in Agents
      PROVE  OneMessage(b, u)'
  <2>1. OneMessage(b, u)
    BY <1>3, <1>9 DEF SearchInv
  <2>2. Once(up'[b], Answers, u) /\ \A k : Tells(up'[b], k, u) => Tells(up[b], k, u)
    BY <1>1, <2>1 DEF OneMessage
  <2> QED BY <1>3, <2>1, <2>2 DEF OneMessage, CheckAt, AckAt, NackAt
<1>10. ASSUME NEW u \in Users \ mixed', Online(u)'
       PROVE  NotDenied(u)'
  <2>1. NotDenied(u) /\ OneMessage(a, u)
    BY <1>3, <1>10 DEF SearchInv, Online
  <2>2. CASE u # x \/ msg.kind = "stop"
    <3>1. ~Denied(sendq', u)
      BY <1>7, <2>1, <2>2 DEF NotDenied
    <3>2. Deniers(u)' = Deniers(u)
      BY <1>3, <1>8, <2>2 DEF Deniers, NackAt, CheckAt
    <3>3. checks'[u] \in {checks[u], NoCheck}
      <4>1. CASE u # x
        BY <1>6, <4>1
      <4>2. CASE msg.kind = "stop"
        <5>1. checks' \in {checks, [checks EXCEPT ![x] = NoCheck]}
          BY <1>2, <4>2 DEF GameEnd
        <5> QED BY <1>4, <5>1
      <4> QED BY <2>2, <4>1, <4>2
    <3> QED BY <2>1, <3>1, <3>2, <3>3 DEF NotDenied, FewDeny
  <2>3. CASE u = x /\ msg.kind = "check_ack"
    <3>1. ~Denied(sendq', u)
      BY <1>7, <2>1, <2>3 DEF NotDenied
    <3>2. checks'[x] = NoCheck
      BY <1>1, <1>2, <1>4, <2>3 DEF SucceedToCheck
    <3> QED BY <2>3, <3>1, <3>2 DEF NotDenied
  <2>4. CASE u = x /\ msg.kind = "check_nack"
    <3>1. a \in Deniers(x)
      BY <1>1, <2>4 DEF Deniers, NackAt
    <3>2. \A k \in Answers : ~Tells(up'[a], k, x)
      BY <1>1, <2>1, <2>4 DEF OneMessage, Answers
    <3>3. ~CheckAt(a, x)
      BY <1>1, <2>1, <2>4 DEF OneMessage, NackAt
    <3>4. Deniers(x)' = Deniers(x) \ {a}
      <4>1. ~NackAt(a, x)' /\ ~CheckAt(a, x)'
        BY <1>3, <3>2, <3>3 DEF NackAt, CheckAt, Answers
      <4>2. \A b \in Agents : b # a => (NackAt(b, x)' <=> NackAt(b, x)) /\ (CheckAt(b, x)' <=> CheckAt(b, x))
        BY <1>1, <1>3 DEF NackAt, CheckAt
      <4> QED BY <1>3, <4>1, <4>2 DEF Deniers
    <3>5. IsFiniteSet(Deniers(x)) /\ Cardinality(Deniers(x)) \in Nat
      BY DeniersFinite DEF Deniers
    <3>6. Cardinality(Deniers(x)') = Cardinality(Deniers(x)) - 1 /\ Cardinality(Deniers(x)) >= 1
      <4>1. Cardinality(Deniers(x) \ {a}) = Cardinality(Deniers(x)) - 1 /\ IsFiniteSet(Deniers(x) \ {a})
        BY <3>1, <3>5, FS_RemoveElement
      <4>2. Cardinality(Deniers(x) \ {a}) \in Nat
        BY <4>1, FS_CardinalityType
      <4> QED BY <3>4, <3>5, <4>1, <4>2
    <3>7. CASE checks[x] = NoCheck
      <4>1. checks'[x] = NoCheck /\ sendq' = sendq
        BY <1>1, <1>2, <1>4, <2>4, <3>7 DEF FailToCheck
      <4> QED BY <2>1, <2>4, <4>1 DEF NotDenied
    <3>8. CASE checks[x] # NoCheck
      <4>1. Cardinality(Deniers(x)) < checks[x] /\ checks[x] \in Nat
        <5>1. checks[x] \in Nat
          BY <1>1, <1>4, <3>8, FS_CardinalityType DEF BillingAssumption, FiniteSystem
        <5> QED BY <5>1, <2>1, <2>4, <3>1, <3>8 DEF NotDenied, FewDeny
      <4>2. checks[x] > 1 /\ checks[x] # 0
        BY <4>1, <3>5, <3>6
      <4>3. checks' = [checks EXCEPT ![x] = @ - 1] /\ sendq' = sendq
        BY <1>2, <2>4, <3>8, <4>2 DEF FailToCheck
      <4>4. checks'[x] = checks[x] - 1
        BY <4>3, <1>1, <1>4
      <4>5. Cardinality(Deniers(x)') < checks'[x]
        BY <3>5, <3>6, <4>1, <4>4
      <4>6. FewDeny(x)' /\ ~Denied(sendq', x)
        BY <2>1, <2>4, <4>3, <4>5 DEF NotDenied, FewDeny
      <4> QED BY <2>4, <4>6 DEF NotDenied
    <3> QED BY <3>7, <3>8
  <2> QED BY <1>2, <2>2, <2>3, <2>4
<1>11. OneAtATime' /\ AskedAreThere'
  <2>1. OneAtATime /\ AskedAreThere
    BY DEF SearchInv
  <2> QED BY <1>3, <2>1 DEF OneAtATime, AskedAreThere, Online
<1> QED BY <1>9, <1>10, <1>11 DEF SearchInv

LEMMA ToAgentSearch ==
  ASSUME Types, SearchInv, NEW a \in Agents, ToAgent(a)
  PROVE  SearchInv'
<1>1. /\ down \in [Agents -> Seq(DownNotes)] /\ down[a] # <<>> /\ down' = [down EXCEPT ![a] = Tail(@)]
      /\ up \in [Agents -> Seq(UpNotes)]
  BY DEF ToAgent, Types, QueueTypes
<1>2. /\ down[a] \in Seq(DownNotes) /\ down'[a] = Tail(down[a])
      /\ \A b \in Agents : b # a => down'[b] = down[b]
  BY <1>1
<1>3. PICK msg \in DownNotes : msg = Head(down[a])
  BY <1>1, <1>2, TailElements
<1>4. PICK x \in Users : x = msg.user
  BY DEF DownNotes
<1>14. PICK ans : ans = Note(IF x \in online[a] THEN "check_ack" ELSE "check_nack", x, NoPlace)
  OBVIOUS
<1>5. UNCHANGED <<online, present, mixed, checks, sendq>>
  BY DEF ToAgent, connector
<1>6. \/ msg.kind = "check" /\ up' = [up EXCEPT ![a] = Append(@, ans)]
      \/ msg.kind # "check" /\ UNCHANGED up
  BY <1>3, <1>4, <1>14 DEF ToAgent
<1>7. \A k, u : Tells(down[a], k, u) <=> Tells(down'[a], k, u) \/ (msg.kind = k /\ x = u)
  BY <1>1, <1>2, <1>3, <1>4, TellsInTail
<1>8. \A u : Once(down[a], {"check"}, u) =>
              /\ Once(down'[a], {"check"}, u)
              /\ msg.kind \in {"check"} /\ x = u => \A k \in {"check"} : ~Tells(down'[a], k, u)
  BY <1>1, <1>2, <1>3, <1>4, OnceTail
<1>9. ans \in UpNotes /\ ans.user = x /\ ans.kind = IF x \in online[a] THEN "check_ack" ELSE "check_nack"
  BY <1>14, NoteTypes, NotePart, NoPlaceType
<1>10. \A u : Once(up[a], Answers, u) /\ (u # x \/ \A k \in Answers : ~Tells(up[a], k, u))
         => Once(Append(up[a], ans), Answers, u)
  BY <1>1, <1>9, OnceAppend
<1>11. \A k, u : Tells(Append(up[a], ans), k, u) <=> Tells(up[a], k, u) \/ (ans.kind = k /\ u = x)
  BY <1>1, <1>9, TellsInAppend
<1>12. CASE msg.kind # "check"
  <2>1. UNCHANGED up
    BY <1>6, <1>12
  <2>2. ASSUME NEW b \in Agents, NEW u
        PROVE  /\ CheckAt(b, u)' <=> CheckAt(b, u)
               /\ Once(down[b], {"check"}, u) => Once(down'[b], {"check"}, u)
    <3>1. CASE b # a
      BY <1>2, <3>1 DEF CheckAt
    <3>2. CASE b = a
      BY <1>7, <1>8, <1>12, <3>2 DEF CheckAt
    <3> QED BY <3>1, <3>2
  <2>3. \A u : SameSearch(u)
    BY <1>5, <2>1, <2>2 DEF SameSearch, AckAt, NackAt
  <2> QED BY <1>5, <2>3, SearchKept
<1>13. CASE msg.kind = "check"
  <2>1. up'[a] = Append(up[a], ans) /\ \A b \in Agents : b # a => up'[b] = up[b]
    BY <1>1, <1>6, <1>13
  <2>2. ASSUME NEW u \in Users \ mixed', NEW b \in Agents
        PROVE  OneMessage(b, u)' /\ (b \in Deniers(u) <=> b \in Deniers(u)')
    <3>1. OneMessage(b, u)
      BY <1>5, <2>2 DEF SearchInv
    <3>2. CASE b # a
      BY <1>2, <1>5, <2>1, <3>1, <3>2 DEF OneMessage, CheckAt, AckAt, NackAt, Deniers
    <3>3. CASE b = a /\ u # x
      <4>1. /\ CheckAt(a, u)' <=> CheckAt(a, u)
            /\ AckAt(a, u)' <=> AckAt(a, u)
            /\ NackAt(a, u)' <=> NackAt(a, u)
            /\ Once(down'[a], {"check"}, u) /\ Once(up'[a], Answers, u)
        BY <1>7, <1>8, <1>10, <1>11, <2>1, <3>1, <3>3 DEF CheckAt, AckAt, NackAt, OneMessage
      <4> QED BY <1>5, <4>1, <3>1, <3>3 DEF OneMessage, Deniers
    <3>4. CASE b = a /\ u = x
      <4>0. OneMessage(a, x)
        BY <3>1, <3>4
      <4>1. CheckAt(a, x) /\ ~AckAt(a, x) /\ ~NackAt(a, x)
        BY <1>7, <1>13, <4>0 DEF CheckAt, OneMessage
      <4>2. ~CheckAt(a, x)' /\ Once(down'[a], {"check"}, x)
        BY <1>8, <1>13, <4>0 DEF CheckAt, OneMessage
      <4>3. Once(up'[a], Answers, x)
        <5>1. \A k \in Answers : ~Tells(up[a], k, x)
          BY <4>1 DEF AckAt, NackAt, Answers
        <5> QED BY <1>10, <2>1, <4>0, <5>1 DEF OneMessage
      <4>4. NackAt(a, x)' <=> x \notin online[a]
        BY <1>9, <1>11, <2>1, <4>1 DEF NackAt
      <4> QED BY <1>5, <3>4, <4>1, <4>2, <4>3, <4>4 DEF OneMessage, Deniers
    <3> QED BY <3>2, <3>3, <3>4
  <2>3. ASSUME NEW u \in Users \ mixed', Online(u)'
        PROVE  NotDenied(u)'
    <3>1. Deniers(u) \subseteq Agents /\ Deniers(u)' \subseteq Agents
      BY DEF Deniers
    <3>2. Deniers(u)' = Deniers(u)
      BY <2>2, <2>3, <3>1
    <3>3. NotDenied(u)
      BY <1>5, <2>3 DEF SearchInv, Online
    <3> QED BY <1>5, <3>2, <3>3 DEF NotDenied, FewDeny
  <2>4. OneAtATime' /\ AskedAreThere'
    <3>1. OneAtATime /\ AskedAreThere
      BY DEF SearchInv
    <3> QED BY <1>5, <3>1 DEF OneAtATime, AskedAreThere, Online
  <2> QED BY <2>2, <2>3, <2>4 DEF SearchInv
<1> QED BY <1>12, <1>13

LEMMA AgentStopsSearch ==
  ASSUME Types, SearchInv, NEW a \in Agents, AgentStops(a), FiniteSystem, BillingAssumption
  PROVE  SearchInv'
<1>1. /\ UNCHANGED <<up, mixed, checks, sendq>> /\ present' = present \ online[a]
      /\ online' = [online EXCEPT ![a] = {}] /\ down' = [down EXCEPT ![a] = <<>>]
  BY DEF AgentStops, connector
<1>2. down \in [Agents -> Seq(DownNotes)] /\ online \in [Agents -> SUBSET Users]
      /\ checks \in [Users -> 0..(Cardinality(Agents) + Others) \cup {NoCheck}]
  BY DEF Types, QueueTypes, PlayerTypes, CoreTypes
<1>3. /\ down'[a] = <<>> /\ online'[a] = {}
      /\ \A b \in Agents : b # a => down'[b] = down[b] /\ online'[b] = online[b]
  BY <1>1, <1>2
<1>4. ASSUME NEW u, NEW b \in Agents
      PROVE  /\ CheckAt(b, u)' => CheckAt(b, u)
             /\ AckAt(b, u)' <=> AckAt(b, u)
             /\ NackAt(b, u)' <=> NackAt(b, u)
             /\ Once(down[b], {"check"}, u) => Once(down'[b], {"check"}, u)
             /\ CheckAt(b, u)' => (u \in online'[b] <=> u \in online[b])
  <2>1. Once(<<>>, {"check"}, u) /\ ~Tells(<<>>, "check", u)
    BY DEF Once, Tells
  <2> QED BY <1>1, <1>3, <2>1 DEF CheckAt, AckAt, NackAt
<1>5. \A u \in Users \ mixed' : \A b \in Agents : OneMessage(b, u)'
  BY <1>1, <1>4 DEF SearchInv, OneMessage
<1>6. ASSUME NEW u \in Users \ mixed', Online(u)'
      PROVE  NotDenied(u)'
  <2>1. Online(u)
    BY <1>1, <1>3, <1>6 DEF Online
  <2>2. NotDenied(u)
    BY <1>1, <1>6, <2>1 DEF SearchInv
  <2>3. Deniers(u)' \subseteq Deniers(u)
    BY <1>4 DEF Deniers
  <2>4. Deniers(u) \subseteq Agents
    BY DEF Deniers
  <2>5. Cardinality(Deniers(u)') <= Cardinality(Deniers(u)) /\ Cardinality(Deniers(u)) \in Nat /\ Cardinality(Deniers(u)') \in Nat
    BY <2>3, <2>4, DeniersFinite
  <2>6. checks[u] # NoCheck => checks[u] \in Nat
    BY <1>2, FS_CardinalityType DEF FiniteSystem, BillingAssumption
  <2>7. checks[u] # NoCheck /\ FewDeny(u) => FewDeny(u)'
    BY <1>1, <2>3, <2>5, <2>6 DEF FewDeny
  <2> QED BY <1>1, <2>2, <2>7 DEF NotDenied
<1>7. OneAtATime'
  BY <1>3 DEF SearchInv, OneAtATime
<1>8. AskedAreThere'
  <2>1. ASSUME NEW u \in present'
        PROVE  Online(u)'
    <3>1. u \in present /\ u \notin online[a]
      BY <1>1
    <3>2. PICK b \in Agents : u \in online[b]
      BY <3>1 DEF SearchInv, AskedAreThere, Online
    <3> QED BY <1>3, <3>1, <3>2 DEF Online
  <2> QED BY <2>1 DEF AskedAreThere
<1> QED BY <1>5, <1>6, <1>7, <1>8 DEF SearchInv

LEMMA LeaveSearch ==
  ASSUME Types, SearchInv, NEW a \in Agents, NEW x \in Users, Leave(a, x)
  PROVE  SearchInv'
<1>1. /\ UNCHANGED <<down, mixed, checks, sendq>> /\ present' = present \ {x} /\ x \in online[a]
      /\ online' = [online EXCEPT ![a] = @ \ {x}] /\ up' = [up EXCEPT ![a] = Append(@, Note("stop", x, NoPlace))]
  BY DEF Leave, connector
<1>2. up \in [Agents -> Seq(UpNotes)] /\ online \in [Agents -> SUBSET Users]
  BY DEF Types, QueueTypes, PlayerTypes
<1>3. /\ up'[a] = Append(up[a], Note("stop", x, NoPlace)) /\ online'[a] = online[a] \ {x}
      /\ \A b \in Agents : b # a => up'[b] = up[b] /\ online'[b] = online[b]
      /\ up[a] \in Seq(UpNotes) /\ Note("stop", x, NoPlace) \in UpNotes
  BY <1>1, <1>2, NoteTypes, NoPlaceType
<1>4. ASSUME NEW u, NEW b \in Agents
      PROVE  /\ CheckAt(b, u)' <=> CheckAt(b, u)
             /\ AckAt(b, u)' <=> AckAt(b, u)
             /\ NackAt(b, u)' <=> NackAt(b, u)
             /\ Once(up[b], Answers, u) => Once(up'[b], Answers, u)
             /\ u # x => (u \in online'[b] <=> u \in online[b])
  <2>1. \A k \in Answers : Tells(Append(up[a], Note("stop", x, NoPlace)), k, u) <=> Tells(up[a], k, u)
    BY <1>3, TellsInAppend, NotePart DEF Answers
  <2>2. Once(up[a], Answers, u) => Once(Append(up[a], Note("stop", x, NoPlace)), Answers, u)
    BY <1>3, OnceAppend, NotePart DEF Answers
  <2> QED BY <1>1, <1>3, <2>1, <2>2 DEF CheckAt, AckAt, NackAt, Answers
<1>5. \A u \in Users \ mixed' : \A b \in Agents : OneMessage(b, u)'
  BY <1>1, <1>4 DEF SearchInv, OneMessage
<1>6. OneAtATime'
  BY <1>3 DEF SearchInv, OneAtATime
<1>7. ~Online(x)'
  <2>1. \A b \in Agents : x \in online[b] => b = a
    BY <1>1 DEF SearchInv, OneAtATime
  <2> QED BY <1>3, <2>1 DEF Online
<1>8. \A u : u # x => (Online(u)' <=> Online(u))
  BY <1>4 DEF Online
<1>9. ASSUME NEW u \in Users \ mixed', Online(u)'
      PROVE  NotDenied(u)'
  <2>1. u # x /\ Online(u)
    BY <1>7, <1>8, <1>9
  <2>2. NotDenied(u)
    BY <1>1, <1>9, <2>1 DEF SearchInv
  <2>3. Deniers(u)' = Deniers(u)
    BY <1>4, <2>1 DEF Deniers
  <2> QED BY <1>1, <2>2, <2>3 DEF NotDenied, FewDeny
<1>10. AskedAreThere'
  BY <1>1, <1>8 DEF SearchInv, AskedAreThere
<1> QED BY <1>5, <1>6, <1>9, <1>10 DEF SearchInv

LEMMA GameStartSearch ==
  ASSUME Types, SearchInv, NEW a \in Agents, NEW x \in Users, NEW p \in Places, GameStart(x, a, p)
  PROVE  SearchInv'
<1>1. /\ UNCHANGED <<down, up, checks, present>> /\ ~Online(x)
      /\ online' = [online EXCEPT ![a] = @ \cup {x}] /\ Mixes(x, inbox)
      /\ sendq' \in {sendq, Append(sendq, Packet("start", x, p, TRUE))}
  BY DEF GameStart
<1>2. online \in [Agents -> SUBSET Users] /\ sendq \in Seq(Outgoing) /\ Packet("start", x, p, TRUE) \in Outgoing
      /\ inbox \in Seq(Incoming)
  BY PacketTypes DEF Types, QueueTypes, PlayerTypes
<1>3. /\ online'[a] = online[a] \cup {x}
      /\ \A b \in Agents : b # a => online'[b] = online[b]
  BY <1>1, <1>2
<1>4. mixed \subseteq mixed' /\ (x \notin mixed' => ~Searched(x) /\ x \notin PlayersIn(sendq \o inbox, {"sync"}))
  BY <1>1 DEF Mixes
<1>5. ASSUME NEW u, ~Denied(sendq, u)
      PROVE  ~Denied(sendq', u)
  <2>1. Packet("start", x, p, TRUE).type # "sync"
    BY DEF Packet
  <2> QED BY <1>1, <1>2, <1>5, <2>1, DeniedInAppend
<1>6. ASSUME x \notin mixed', Denied(sendq, x)
      PROVE  FALSE
  <2>1. PICK i \in 1..Len(sendq) : sendq[i].type = "sync" /\ sendq[i].user = x
    BY <1>2, <1>6 DEF Denied
  <2>2. i \in DOMAIN (sendq \o inbox) /\ (sendq \o inbox)[i] = sendq[i]
    BY <1>2
  <2> QED BY <1>4, <1>6, <2>1, <2>2 DEF PlayersIn
<1>7. \A b \in Agents : \A u :
             /\ (CheckAt(b, u)' <=> CheckAt(b, u)) /\ (AckAt(b, u)' <=> AckAt(b, u))
             /\ (NackAt(b, u)' <=> NackAt(b, u))
  BY <1>1 DEF CheckAt, AckAt, NackAt
<1>8. \A u \in Users \ mixed' : \A b \in Agents : OneMessage(b, u)'
  BY <1>1, <1>4, <1>7 DEF SearchInv, OneMessage
<1>9. OneAtATime'
  BY <1>1, <1>3 DEF SearchInv, OneAtATime, Online
<1>10. \A u : u # x => (Online(u)' <=> Online(u))
  BY <1>3 DEF Online
<1>11. \A u : Online(u) => Online(u)'
  BY <1>3 DEF Online
<1>12. AskedAreThere'
  BY <1>1, <1>11 DEF SearchInv, AskedAreThere
<1>13. ASSUME NEW u \in Users \ mixed', Online(u)'
       PROVE  NotDenied(u)'
  <2>1. CASE u = x
    <3>1. \A b \in Agents : ~CheckAt(b, x) /\ ~NackAt(b, x)
      BY <1>4, <1>13, <2>1, SearchedAnswers DEF CheckAt, NackAt
    <3>2. Deniers(x)' = {}
      BY <1>7, <3>1 DEF Deniers
    <3>3. ~Denied(sendq', x)
      BY <1>5, <1>6, <1>13, <2>1
    <3> QED BY <2>1, <3>2, <3>3 DEF NotDenied, FewDeny
  <2>2. CASE u # x
    <3>1. NotDenied(u)
      BY <1>4, <1>10, <1>13, <2>2 DEF SearchInv
    <3>2. Deniers(u)' = Deniers(u)
      BY <1>3, <1>7, <2>2 DEF Deniers
    <3> QED BY <1>1, <1>5, <3>1, <3>2 DEF NotDenied, FewDeny
  <2> QED BY <2>1, <2>2
<1> QED BY <1>8, <1>9, <1>12, <1>13 DEF SearchInv

LEMMA SearchStep ==
  ASSUME Types, SearchInv, [Next]_vars, BillingAssumption, FiniteSystem
  PROVE  SearchInv'
<1>1. CASE UNCHANGED vars
  <2>1. UNCHANGED <<down, up, online, present, mixed, checks, sendq>>
    BY <1>1 DEF vars
  <2>2. \A u : SameSearch(u)
    BY <2>1, NoMessageMoves
  <2> QED BY <2>1, <2>2, SearchKept
<1>2. CASE Connect
  BY <1>2, ConnectSearch
<1>3. CASE Send
  BY <1>3, SendSearch
<1>4. CASE Recv
  BY <1>4, RecvSearch
<1>5. CASE SendFails \/ Reset \/ Drops \/ \E u \in Users : Asks(u) \/ Alerts(u)
  BY <1>5, QuietStepsSearch
<1>6. ASSUME NEW a \in Agents, FromAgent(a) \/ ToAgent(a) \/ AgentStops(a)
      PROVE  SearchInv'
  BY <1>6, FromAgentSearch, ToAgentSearch, AgentStopsSearch
<1>7. ASSUME NEW a \in Agents, NEW u \in Users, Leave(a, u) \/ \E p \in Places : GameStart(u, a, p)
      PROVE  SearchInv'
  BY <1>7, LeaveSearch, GameStartSearch
<1>8. ASSUME NEW q \in lookups, RGameRoomData(q)
      PROVE  SearchInv'
  BY <1>8, LookupSearch
<1> QED BY <1>1, <1>2, <1>3, <1>4, <1>5, <1>6, <1>7, <1>8 DEF Next, Process

LEMMA InitSearch ==
  ASSUME Init
  PROVE  SearchInv
<1>1. \A u : ~Online(u) /\ \A a, b \in Agents : u \notin online[a]
  BY DEF Init, Online
<1>2. \A u : \A a \in Agents : OneMessage(a, u)
  <2>1. \A a \in Agents : down[a] = <<>> /\ up[a] = <<>>
    BY DEF Init
  <2>2. \A u : ~Tells(<<>>, "check", u) /\ \A K : Once(<<>>, K, u)
    BY DEF Tells, Once
  <2>3. ASSUME NEW u, NEW a \in Agents
        PROVE  OneMessage(a, u)
    <3>1. ~CheckAt(a, u)
      BY <2>1, <2>2 DEF CheckAt
    <3>2. Once(down[a], {"check"}, u) /\ Once(up[a], Answers, u)
      BY <2>1, <2>2
    <3> QED BY <3>1, <3>2 DEF OneMessage
  <2> QED BY <2>3
<1> QED BY <1>1, <1>2 DEF Init, SearchInv, OneAtATime, AskedAreThere

(* A player is reported gone to the billing server only if no agent had it *)
(* at some moment since the billing server asked, whatever the number of   *)
(* agents and however often the connection is lost (FailToCheck,           *)
(* BillConnector.cpp).                                                     *)
THEOREM GoneAreGone ==
  ASSUME FiniteSystem
  PROVE  Spec => GoneIsGone
<1>1. Init => Types /\ SearchInv
  BY InitTypes, InitSearch, BillingAssumption
<1>2. Types /\ SearchInv /\ [Next]_vars => (Types /\ SearchInv)'
  BY TypesStep, SearchStep, BillingAssumption
<1>3. Types /\ SearchInv /\ [Next]_vars =>
        [(Send /\ Head(sendq).type = "sync" /\ ~Head(sendq).ok) => Head(sendq).user \notin present \ mixed]_vars
  <2> SUFFICES ASSUME Types, SearchInv, Send, Head(sendq).type = "sync", ~Head(sendq).ok,
                      Head(sendq).user \in present \ mixed
               PROVE  FALSE
    OBVIOUS
  <2>1. sendq \in Seq(Outgoing) /\ sendq # <<>>
    BY DEF Send, Types, QueueTypes
  <2>2. Denied(sendq, Head(sendq).user)
    BY <2>1, TailElements DEF Denied
  <2>3. Online(Head(sendq).user)
    BY DEF SearchInv, AskedAreThere
  <2>4. Head(sendq).user \in Users
    BY <2>3 DEF Online, Types, PlayerTypes
  <2> QED BY <2>2, <2>3, <2>4 DEF SearchInv, NotDenied
<1> QED BY <1>1, <1>2, <1>3, PTL DEF Spec, GoneIsGone

-----------------------------------------------------------------------------
(* Questions: every agent that is waited for has still something to say,   *)
(* and what the billing server asked is still being looked for.            *)

(* Every server in the table is an agent, and a read finds one packet. *)
OnlyAgents == Others = 0 /\ MaxRead = 1 /\ Agents # {}

Greets(p) == p.type \in {"conn", "reset"}

(* The billing server has still to start from nothing. *)
Greeting(q) == \E i \in DOMAIN q : Greets(q[i])

Linked == mode = "server" /\ socket = "up" /\ ~Greeting(sendq)

Refusal(p, u) == p.type = "start" /\ p.user = u /\ ~p.ok

Refused(q, u) == \E i \in DOMAIN q : Refusal(q[i], u)

(* A question about the player comes after every refusal. *)
Question(q, u) ==
  \E i \in DOMAIN q : q[i].type = "sync" /\ q[i].user = u /\ \A j \in DOMAIN q : j > i => ~Refusal(q[j], u)

Pending(u) == {a \in Agents : CheckAt(a, u) \/ AckAt(a, u) \/ NackAt(a, u)}

CountsMet(u) == checks[u] # NoCheck => checks[u] >= 1 /\ checks[u] <= Cardinality(Pending(u))

Pursued(u) ==
  \/ Question(inbox, u)
  \/ /\ ~Refused(inbox, u)
     /\ checks[u] # NoCheck \/ Names(sendq, "sync", u) \/ Names(sendq, "end", u)

AnswerInv ==
  /\ mode = "database" => socket \in {"none", "invalid"} /\ asked = {}
  /\ running = Agents => \A u \in Users : CountsMet(u)
  /\ running = Agents /\ Linked => \A u \in asked : Pursued(u)

LEMMA GreetingTail ==
  ASSUME NEW S, NEW q \in Seq(S), q # <<>>
  PROVE  Greeting(q) <=> Greeting(Tail(q)) \/ Greets(Head(q))
<1> USE TailElements
<1>1. ASSUME Greeting(q)
      PROVE  Greeting(Tail(q)) \/ Greets(Head(q))
  <2>1. PICK i \in 1..Len(q) : Greets(q[i])
    BY <1>1 DEF Greeting
  <2>2. CASE i = 1
    BY <2>1, <2>2
  <2>3. CASE i # 1
    <3>1. i - 1 \in 1..(Len(q) - 1) /\ Tail(q)[i - 1] = q[i]
      BY <2>3
    <3> QED BY <2>1, <3>1 DEF Greeting
  <2> QED BY <2>2, <2>3
<1>2. ASSUME Greeting(Tail(q))
      PROVE  Greeting(q)
  <2>1. PICK i \in 1..(Len(q) - 1) : Greets(Tail(q)[i])
    BY <1>2 DEF Greeting
  <2>2. i + 1 \in 1..Len(q) /\ q[i + 1] = Tail(q)[i]
    OBVIOUS
  <2> QED BY <2>1, <2>2 DEF Greeting
<1>3. ASSUME Greets(Head(q))
      PROVE  Greeting(q)
  BY <1>3, 1 \in 1..Len(q) DEF Greeting
<1> QED BY <1>1, <1>2, <1>3

LEMMA GreetingAppend ==
  ASSUME NEW S, NEW q \in Seq(S), NEW e \in S
  PROVE  Greeting(Append(q, e)) <=> Greeting(q) \/ Greets(e)
<1> USE AppendElements
<1>1. ASSUME Greeting(Append(q, e))
      PROVE  Greeting(q) \/ Greets(e)
  <2>1. PICK i \in 1..(Len(q) + 1) : Greets(Append(q, e)[i])
    BY <1>1 DEF Greeting
  <2>2. CASE i = Len(q) + 1
    BY <2>1, <2>2
  <2>3. CASE i # Len(q) + 1
    <3>1. i \in 1..Len(q)
      BY <2>3
    <3> QED BY <2>1, <3>1 DEF Greeting
  <2> QED BY <2>2, <2>3
<1>2. ASSUME Greeting(q)
      PROVE  Greeting(Append(q, e))
  <2>1. PICK i \in 1..Len(q) : Greets(q[i])
    BY <1>2 DEF Greeting
  <2>2. i \in 1..(Len(q) + 1) /\ Append(q, e)[i] = q[i]
    OBVIOUS
  <2> QED BY <2>1, <2>2 DEF Greeting
<1>3. ASSUME Greets(e)
      PROVE  Greeting(Append(q, e))
  BY <1>3, Len(q) + 1 \in 1..(Len(q) + 1) DEF Greeting
<1> QED BY <1>1, <1>2, <1>3

LEMMA RefusedTail ==
  ASSUME NEW S, NEW q \in Seq(S), q # <<>>, NEW u, ~Refused(q, u)
  PROVE  ~Refused(Tail(q), u) /\ ~Refusal(Head(q), u)
<1> USE TailElements
<1>1. ASSUME NEW i \in 1..(Len(q) - 1), Refusal(Tail(q)[i], u)
      PROVE  FALSE
  <2>1. i + 1 \in 1..Len(q) /\ q[i + 1] = Tail(q)[i]
    OBVIOUS
  <2> QED BY <1>1, <2>1 DEF Refused
<1>2. 1 \in DOMAIN q /\ Head(q) = q[1]
  OBVIOUS
<1> QED BY <1>1, <1>2 DEF Refused

LEMMA RefusedAppend ==
  ASSUME NEW S, NEW q \in Seq(S), NEW e \in S, NEW u, ~Refused(q, u), ~Refusal(e, u)
  PROVE  ~Refused(Append(q, e), u)
<1> USE AppendElements
<1>1. ASSUME NEW i \in 1..(Len(q) + 1), Refusal(Append(q, e)[i], u)
      PROVE  FALSE
  <2>1. CASE i = Len(q) + 1
    BY <1>1, <2>1
  <2>2. CASE i \in 1..Len(q)
    BY <1>1, <2>2 DEF Refused
  <2> QED BY <2>1, <2>2
<1> QED BY <1>1 DEF Refused

LEMMA QuestionTail ==
  ASSUME NEW S, NEW q \in Seq(S), q # <<>>, NEW u, Question(q, u)
  PROVE  \/ Question(Tail(q), u)
         \/ Head(q).type = "sync" /\ Head(q).user = u /\ ~Refused(Tail(q), u)
<1> USE TailElements
<1>1. PICK i \in 1..Len(q) : /\ q[i].type = "sync" /\ q[i].user = u
                             /\ \A j \in 1..Len(q) : j > i => ~Refusal(q[j], u)
  BY DEF Question
<1>2. \A j \in 1..(Len(q) - 1) : j + 1 \in 1..Len(q) /\ Tail(q)[j] = q[j + 1]
  OBVIOUS
<1>3. CASE i = 1
  <2>1. \A j \in 1..(Len(q) - 1) : ~Refusal(Tail(q)[j], u)
    BY <1>1, <1>2, <1>3
  <2> QED BY <1>1, <1>3, <2>1 DEF Refused
<1>4. CASE i # 1
  <2>1. i - 1 \in 1..(Len(q) - 1) /\ Tail(q)[i - 1] = q[i]
    BY <1>4
  <2>2. \A j \in 1..(Len(q) - 1) : j > i - 1 => ~Refusal(Tail(q)[j], u)
    BY <1>1, <1>2
  <2> QED BY <1>1, <2>1, <2>2 DEF Question
<1> QED BY <1>3, <1>4

LEMMA QuestionAppend ==
  ASSUME NEW S, NEW q \in Seq(S), NEW e \in S, NEW u
  PROVE  /\ Question(q, u) /\ ~Refusal(e, u) => Question(Append(q, e), u)
         /\ e.type = "sync" /\ e.user = u => Question(Append(q, e), u)
<1> USE AppendElements
<1>1. ASSUME Question(q, u), ~Refusal(e, u)
      PROVE  Question(Append(q, e), u)
  <2>1. PICK i \in 1..Len(q) : /\ q[i].type = "sync" /\ q[i].user = u
                               /\ \A j \in 1..Len(q) : j > i => ~Refusal(q[j], u)
    BY <1>1 DEF Question
  <2>2. i \in 1..(Len(q) + 1) /\ Append(q, e)[i] = q[i]
    OBVIOUS
  <2>3. ASSUME NEW j \in 1..(Len(q) + 1), j > i
        PROVE  ~Refusal(Append(q, e)[j], u)
    <3>1. CASE j = Len(q) + 1
      BY <1>1, <3>1
    <3>2. CASE j \in 1..Len(q)
      BY <2>1, <2>3, <3>2
    <3> QED BY <3>1, <3>2
  <2> QED BY <2>1, <2>2, <2>3 DEF Question
<1>2. ASSUME e.type = "sync", e.user = u
      PROVE  Question(Append(q, e), u)
  <2>1. Len(q) + 1 \in 1..(Len(q) + 1) /\ \A j \in 1..(Len(q) + 1) : ~(j > Len(q) + 1)
    OBVIOUS
  <2> QED BY <1>2, <2>1 DEF Question
<1> QED BY <1>1, <1>2

LEMMA PendingFinite ==
  ASSUME FiniteSystem, NEW u
  PROVE  /\ Pending(u) \subseteq Agents /\ IsFiniteSet(Pending(u)) /\ Cardinality(Pending(u)) \in Nat
<1>1. Pending(u) \subseteq Agents
  BY DEF Pending
<1> QED BY <1>1, DeniersFinite

(* A step that takes no message of a search. *)
LEMMA CountsKept ==
  ASSUME FiniteSystem, Types, BillingAssumption, NEW u \in Users, CountsMet(u), checks'[u] \in {checks[u], NoCheck},
         \A a \in Agents : /\ CheckAt(a, u) => CheckAt(a, u)' \/ AckAt(a, u)' \/ NackAt(a, u)'
                           /\ AckAt(a, u) => AckAt(a, u)'
                           /\ NackAt(a, u) => NackAt(a, u)'
  PROVE  CountsMet(u)'
<1>1. Pending(u) \subseteq Pending(u)' /\ Pending(u)' \subseteq Agents
  BY DEF Pending
<1>2. Cardinality(Pending(u)) <= Cardinality(Pending(u)') /\ Cardinality(Pending(u)) \in Nat /\ Cardinality(Pending(u)') \in Nat
  BY <1>1, DeniersFinite, PendingFinite
<1>3. checks[u] # NoCheck => checks[u] \in Nat
  BY FS_CardinalityType DEF FiniteSystem, BillingAssumption, Types, CoreTypes
<1> QED BY <1>2, <1>3 DEF CountsMet

LEMMA NoMessageTaken ==
  ASSUME NEW u, NEW a \in Agents, down' = down, up' = up
  PROVE  (CheckAt(a, u)' <=> CheckAt(a, u)) /\ (AckAt(a, u)' <=> AckAt(a, u)) /\ (NackAt(a, u)' <=> NackAt(a, u))
  BY DEF CheckAt, AckAt, NackAt

LEMMA ConnectAnswers ==
  ASSUME FiniteSystem, Types, BillingAssumption, AnswerInv, Connect
  PROVE  AnswerInv'
<1>1. UNCHANGED <<mode, asked, down, up, running>>
  BY DEF Connect, players
<1>2. CASE mode = "server" /\ Connected
  <2>1. sendq' = Reported(started)
    BY <1>2 DEF Connected, Reported
  <2>2. sendq'[1] = Alone("conn") /\ 1 \in DOMAIN sendq'
    <3>1. started \in [Users -> AnyPlace]
      BY DEF Types, CoreTypes
    <3>2. sendq' \in Seq(Outgoing) /\ Len(sendq') >= 2 /\ sendq'[1] = Alone("conn")
      BY <2>1, <3>1, ReportedPackets DEF FiniteSystem
    <3> QED BY <3>2
  <2>3. Greeting(sendq')
    BY <2>2 DEF Greeting, Greets, Alone
  <2>4. ASSUME NEW u \in Users
        PROVE  CountsMet(u)'
    BY <1>2 DEF Connected, CountsMet
  <2> QED BY <1>1, <1>2, <2>3, <2>4 DEF AnswerInv, Linked, Types, CoreTypes
<1>3. CASE ~(mode = "server" /\ Connected)
  <2>1. socket' \in {"none", "invalid"} /\ UNCHANGED checks
    BY <1>3 DEF Connect
  <2>2. \A u \in Users : CountsMet(u) => CountsMet(u)'
    BY <1>1, <2>1, CountsKept, NoMessageTaken
  <2> QED BY <1>1, <2>1, <2>2 DEF AnswerInv, Linked
<1> QED BY <1>2, <1>3

LEMMA SendAnswers ==
  ASSUME FiniteSystem, Types, BillingAssumption, AnswerInv, Send
  PROVE  AnswerInv'
<1>1. UNCHANGED <<mode, socket, down, up, running, checks>> /\ socket = "up"
  BY DEF Send, players
<1>2. sendq' = Tail(sendq) /\ sendq \in Seq(Outgoing) /\ sendq # <<>> /\ inbox \in Seq(Incoming)
  BY DEF Send, Types, QueueTypes
<1>3. \A u \in Users : CountsMet(u) => CountsMet(u)'
  BY <1>1, CountsKept, NoMessageTaken
<1>4. mode = "server"
  BY <1>1 DEF AnswerInv, Types, CoreTypes
<1>5. PICK p \in Outgoing : p = Head(sendq)
  BY <1>2, TailElements
<1>6. PICK ok \in BOOLEAN : Served(p, ok)
  BY <1>5 DEF Send, Grants
<1>7. ASSUME running = Agents, Linked', NEW u \in asked'
      PROVE  Pursued(u)'
  <2>1. ~Greeting(Tail(sendq))
    BY <1>2, <1>7 DEF Linked
  <2>2. CASE p.type \in {"conn", "reset"}
    BY <1>6, <1>7, <2>2 DEF Served
  <2>3. CASE p.type \notin {"conn", "reset"}
    <3>1. Linked
      BY <1>1, <1>2, <1>4, <1>5, <2>1, <2>3, GreetingTail DEF Linked, Greets
    <3>2. u \in asked /\ ~(p.type \in {"end", "sync"} /\ p.user = u) /\ ~(p.type = "start" /\ p.user = u /\ ~ok)
      BY <1>5, <1>6, <1>7, <2>3 DEF Served, Outgoing, Starts
    <3>3. Pursued(u)
      BY <1>7, <3>1, <3>2 DEF AnswerInv
    <3>4. \A t \in {"end", "sync"} : Names(sendq, t, u) => Names(sendq', t, u)
      BY <1>2, <1>5, <3>2, NamesInTail
    <3>5. CASE p.type = "start"
      <4>1. inbox' = Append(inbox, [p EXCEPT !.ok = ok]) /\ p \in Starts
        BY <1>6, <3>5 DEF Served, Outgoing
      <4>2. PICK e : e = [p EXCEPT !.ok = ok]
        OBVIOUS
      <4>3. e \in Incoming /\ e.ok = ok /\ e.type = "start" /\ e.user = p.user
        BY <4>1, <4>2 DEF Incoming, Starts
      <4>4. ~Refusal(e, u)
        BY <3>2, <3>5, <4>3 DEF Refusal
      <4>5. (Question(inbox, u) => Question(inbox', u)) /\ (~Refused(inbox, u) => ~Refused(inbox', u))
        BY <1>2, <4>1, <4>2, <4>3, <4>4, QuestionAppend, RefusedAppend
      <4> QED BY <1>1, <3>3, <3>4, <4>5 DEF Pursued
    <3>6. CASE p.type # "start"
      <4>1. inbox' = inbox
        BY <1>5, <1>6, <2>3, <3>6 DEF Served, Outgoing, Starts
      <4> QED BY <1>1, <3>3, <3>4, <4>1 DEF Pursued
    <3> QED BY <3>5, <3>6
  <2> QED BY <2>2, <2>3
<1> QED BY <1>1, <1>3, <1>4, <1>7 DEF AnswerInv

LEMMA RecvOne ==
  ASSUME Types, MaxRead = 1, Recv
  PROVE  inbox \in Seq(Incoming) /\ inbox # <<>> /\ inbox' = Tail(inbox) /\ Receive(Head(inbox))
<1>1. inbox \in Seq(Incoming) /\ inbox # <<>> /\ Receive(Head(inbox))
  BY DEF Types, QueueTypes, Recv
<1>2. PICK n \in 1..Len(inbox) : n <= MaxRead /\ inbox' = SubSeq(inbox, n + 1, Len(inbox))
  BY DEF Recv
<1>3. n = 1
  BY <1>1, <1>2
<1>4. Tail(inbox) = SubSeq(inbox, 2, Len(inbox))
  BY <1>1
<1> QED BY <1>1, <1>2, <1>3, <1>4

(* What a received packet does to searches. *)
LEMMA ReceiveSearches ==
  ASSUME FiniteSystem, Types, BillingAssumption, OnlyAgents, NEW p \in Incoming, Receive(p), UNCHANGED <<up, running>>,
         running = Agents, \A u \in Users : CountsMet(u)
  PROVE  /\ \A u \in Users : CountsMet(u)'
         /\ \A u \in Users : ~Refusal(p, u) => (checks[u] # NoCheck => checks'[u] # NoCheck)
         /\ \A u \in Users : p.type = "sync" /\ p.user = u => checks'[u] # NoCheck
<1>1. p.user \in Users /\ p.place \in AnyPlace
  BY DEF Incoming, Starts, AnyPlace
<1>2. checks \in [Users -> 0..(Cardinality(Agents) + Others) \cup {NoCheck}] /\ Cardinality(Agents) \in Nat
  BY FS_CardinalityType DEF FiniteSystem, Types, CoreTypes
<1>3. \A a \in Agents : \A u : (AckAt(a, u)' <=> AckAt(a, u)) /\ (NackAt(a, u)' <=> NackAt(a, u))
  BY DEF AckAt, NackAt
<1>4. \A n \in DownNotes : Broadcast(n) => \A a \in Agents : \A u : CheckAt(a, u) => CheckAt(a, u)'
  <2> SUFFICES ASSUME NEW n \in DownNotes, Broadcast(n), NEW a \in Agents, NEW u, CheckAt(a, u)
               PROVE  CheckAt(a, u)'
    OBVIOUS
  <2>1. down'[a] = Append(down[a], n) /\ down[a] \in Seq(DownNotes)
    BY BroadcastReaches DEF Types, QueueTypes
  <2>2. Tells(Append(down[a], n), "check", u)
    BY <2>1, TellsInAppend DEF CheckAt
  <2> QED BY <2>1, <2>2 DEF CheckAt
<1>5. CASE ReceiveSync(p) /\ checks[p.user] = NoCheck
  <2>1. checks' = [checks EXCEPT ![p.user] = Cardinality(running) + Others] /\ Broadcast(Note("check", p.user, NoPlace))
    BY <1>5 DEF ReceiveSync
  <2>2. PICK x \in Users : x = p.user
    BY <1>1
  <2>3. Note("check", x, NoPlace) \in DownNotes
    BY NoteTypes, NoPlaceType
  <2>4. checks'[x] = Cardinality(Agents) /\ \A u \in Users : u # x => checks'[u] = checks[u]
    BY <1>2, <2>1, <2>2 DEF OnlyAgents
  <2>5. ASSUME NEW a \in Agents
        PROVE  CheckAt(a, x)'
    <3>1. down'[a] = Append(down[a], Note("check", x, NoPlace)) /\ down[a] \in Seq(DownNotes)
      BY <2>1, <2>2, <2>3, BroadcastReaches DEF Types, QueueTypes
    <3>2. Tells(Append(down[a], Note("check", x, NoPlace)), "check", x)
      BY <2>3, <3>1, TellsInAppend, NotePart
    <3> QED BY <3>1, <3>2 DEF CheckAt
  <2>6. Pending(x)' = Agents
    BY <2>5 DEF Pending
  <2>7. Cardinality(Agents) >= 1
    BY <1>2, FS_EmptySet DEF OnlyAgents, FiniteSystem
  <2>8. CountsMet(x)'
    BY <1>2, <2>4, <2>6, <2>7 DEF CountsMet
  <2>9. \A u \in Users : u # x => CountsMet(u)'
    BY <1>3, <1>4, <2>1, <2>2, <2>3, <2>4, CountsKept
  <2>10. checks'[x] # NoCheck
    BY <1>2, <2>4 DEF BillingAssumption
  <2> QED BY <2>2, <2>4, <2>8, <2>9, <2>10
<1>6. CASE ~(ReceiveSync(p) /\ checks[p.user] = NoCheck)
  <2>1. \/ UNCHANGED <<checks, down>>
        \/ \E n \in DownNotes : Broadcast(n)
    BY <1>1, <1>6, NoteTypes, NoPlaceType DEF Receive, ReceiveSync, ReceiveDenied, ReceiveAlert
  <2>2. \A a \in Agents : \A u : CheckAt(a, u) => CheckAt(a, u)'
    BY <1>4, <2>1 DEF CheckAt
  <2>3. \A u \in Users : /\ checks'[u] \in {checks[u], NoCheck}
                         /\ ~Refusal(p, u) => checks'[u] = checks[u]
    BY <1>1, <1>2, <1>6 DEF Receive, ReceiveSync, ReceiveDenied, ReceiveAlert, Refusal
  <2>4. \A u \in Users : CountsMet(u)'
    BY <1>3, <2>2, <2>3, CountsKept
  <2>5. ReceiveSync(p) \/ p.type # "sync"
    BY DEF Receive, ReceiveDenied, ReceiveAlert
  <2>6. p.type = "sync" => checks[p.user] # NoCheck /\ UNCHANGED checks
    BY <1>6, <2>5 DEF ReceiveSync
  <2> QED BY <2>3, <2>4, <2>6
<1> QED BY <1>5, <1>6

LEMMA RecvAnswers ==
  ASSUME FiniteSystem, Types, BillingAssumption, OnlyAgents, AnswerInv, Recv
  PROVE  AnswerInv'
<1>1. inbox \in Seq(Incoming) /\ inbox # <<>> /\ inbox' = Tail(inbox) /\ Receive(Head(inbox))
  BY RecvOne DEF OnlyAgents
<1>2. PICK p \in Incoming : p = Head(inbox)
  BY <1>1, TailElements
<1>3. UNCHANGED <<mode, socket, sendq, asked, up, running>>
  BY DEF Recv, players
<1>4. ASSUME running = Agents
      PROVE  /\ \A u \in Users : CountsMet(u)'
             /\ \A u \in Users : ~Refusal(p, u) => (checks[u] # NoCheck => checks'[u] # NoCheck)
             /\ \A u \in Users : p.type = "sync" /\ p.user = u => checks'[u] # NoCheck
  BY <1>1, <1>2, <1>3, <1>4, ReceiveSearches DEF AnswerInv
<1>5. ASSUME running = Agents, Linked', NEW u \in asked'
      PROVE  Pursued(u)'
  <2>1. Pursued(u) /\ u \in Users
    BY <1>3, <1>5 DEF AnswerInv, Linked, Types, CoreTypes
  <2>2. CASE Question(inbox, u)
    <3>1. Question(inbox', u) \/ (p.type = "sync" /\ p.user = u /\ ~Refused(inbox', u))
      BY <1>1, <1>2, <2>2, QuestionTail
    <3> QED BY <1>4, <1>5, <2>1, <3>1 DEF Pursued
  <2>3. CASE ~Question(inbox, u)
    <3>1. ~Refused(inbox, u) /\ (checks[u] # NoCheck \/ Names(sendq, "sync", u) \/ Names(sendq, "end", u))
      BY <2>1, <2>3 DEF Pursued
    <3>2. ~Refused(inbox', u) /\ ~Refusal(p, u)
      BY <1>1, <1>2, <3>1, RefusedTail
    <3> QED BY <1>3, <1>4, <1>5, <2>1, <3>1, <3>2 DEF Pursued
  <2> QED BY <2>2, <2>3
<1>6. mode = "database" => socket' \in {"none", "invalid"} /\ asked' = {}
  BY <1>3 DEF AnswerInv
<1> QED BY <1>3, <1>4, <1>5, <1>6 DEF AnswerInv

LEMMA FromAgentAnswers ==
  ASSUME FiniteSystem, Types, BillingAssumption, OnlyAgents, AnswerInv, NEW a \in Agents, FromAgent(a)
  PROVE  AnswerInv'
<1>0. PICK msg \in UpNotes :
      /\ msg = Head(up[a]) /\ msg.user \in Users
      /\ \A b \in Agents : b # a => up'[b] = up[b]
      /\ \A k, u : Tells(up[a], k, u) <=> Tells(up'[a], k, u) \/ (msg.kind = k /\ msg.user = u)
  BY MessageTaken
<1>1. PICK x \in Users : x = msg.user
  BY <1>0
<1>2. \/ msg.kind = "stop" /\ GameEnd(x)
      \/ msg.kind = "check_ack" /\ SucceedToCheck(x) /\ UNCHANGED <<started, muddled>>
      \/ msg.kind = "check_nack" /\ FailToCheck(x) /\ UNCHANGED <<started, muddled>>
  BY <1>0, <1>1 DEF FromAgent
<1>3. UNCHANGED <<mode, socket, inbox, asked, down, running>>
  BY DEF FromAgent, players, billing
<1>4. checks \in [Users -> 0..(Cardinality(Agents) + Others) \cup {NoCheck}] /\ sendq \in Seq(Outgoing)
      /\ started[x] \in AnyPlace /\ Cardinality(Agents) \in Nat
  BY FS_CardinalityType DEF Types, CoreTypes, QueueTypes, FiniteSystem
<1>5. \A t \in {"end", "sync"}, ok \in BOOLEAN :
        /\ Packet(t, x, started[x], ok) \in Outgoing
        /\ Packet(t, x, started[x], ok).type = t /\ Packet(t, x, started[x], ok).user = x
  BY <1>1, <1>4, PacketTypes DEF Packet
<1>6. \/ sendq' = sendq
      \/ \E t \in {"end", "sync"}, ok \in BOOLEAN : sendq' = Append(sendq, Packet(t, x, started[x], ok))
  BY <1>2 DEF GameEnd, SucceedToCheck, FailToCheck
<1>7. /\ Greeting(sendq) => Greeting(sendq')
      /\ \A t, u : Names(sendq, t, u) => Names(sendq', t, u)
  <2>1. \A e \in Outgoing : Greeting(sendq) => Greeting(Append(sendq, e))
    BY <1>4, GreetingAppend
  <2>2. \A e \in Outgoing : \A t, u : Names(sendq, t, u) => Names(Append(sendq, e), t, u)
    BY <1>4, NamesInAppend
  <2>3. sendq' = sendq \/ \E e \in Outgoing : sendq' = Append(sendq, e)
    BY <1>5, <1>6
  <2> QED BY <2>1, <2>2, <2>3
<1>13. \A t \in {"end", "sync"}, ok \in BOOLEAN : Names(Append(sendq, Packet(t, x, started[x], ok)), t, x)
  <2>1. \A e \in Outgoing : Names(Append(sendq, e), e.type, e.user)
    BY <1>4, NamesInAppend
  <2> QED BY <1>5, <2>1
<1>8. \A u : u # x => checks'[u] = checks[u]
  <2>1. \A u : u # x => \A c : [checks EXCEPT ![x] = c][u] = checks[u]
    BY <1>4
  <2> QED BY <1>2, <2>1 DEF GameEnd, SucceedToCheck, FailToCheck
<1>9. \A b \in Agents : \A k, u : k # msg.kind \/ u # x \/ b # a => (Tells(up'[b], k, u) <=> Tells(up[b], k, u))
  BY <1>0, <1>1
<1>10. ASSUME running = Agents
       PROVE  /\ CountsMet(x)'
              /\ checks'[x] # NoCheck \/ checks[x] = NoCheck \/ Names(sendq', "end", x) \/ Names(sendq', "sync", x)
  <2>1. CountsMet(x)
    BY <1>10 DEF AnswerInv
  <2>2. CASE msg.kind = "stop"
    <3>1. checks'[x] \in {checks[x], NoCheck}
      BY <1>2, <1>4, <2>2 DEF GameEnd
    <3>2. CountsMet(x)'
      BY <1>3, <1>9, <2>1, <2>2, <3>1, CountsKept DEF CheckAt, AckAt, NackAt
    <3>3. checks'[x] = checks[x] \/ sendq' = Append(sendq, Packet("end", x, started[x], TRUE))
      BY <1>2, <2>2 DEF GameEnd
    <3>4. checks'[x] = checks[x] \/ Names(sendq', "end", x)
      BY <1>13, <3>3
    <3> QED BY <3>2, <3>4
  <2>3. CASE msg.kind = "check_ack"
    <3>1. checks'[x] = NoCheck
      BY <1>2, <1>4, <2>3 DEF SucceedToCheck
    <3>2. checks[x] = NoCheck \/ sendq' = Append(sendq, Packet("sync", x, started[x], TRUE))
      BY <1>2, <2>3 DEF SucceedToCheck
    <3>3. checks[x] = NoCheck \/ Names(sendq', "sync", x)
      BY <1>13, <3>2
    <3> QED BY <3>1, <3>3 DEF CountsMet
  <2>4. CASE msg.kind = "check_nack"
    <3>1. CASE checks[x] = NoCheck
      <4>1. checks'[x] = NoCheck
        BY <1>2, <1>4, <2>4, <3>1 DEF FailToCheck
      <4> QED BY <3>1, <4>1 DEF CountsMet
    <3>2. CASE checks[x] # NoCheck
      <4>1. checks[x] \in Nat /\ checks[x] >= 1 /\ checks[x] <= Cardinality(Pending(x))
        BY <1>4, <2>1, <3>2 DEF CountsMet, BillingAssumption
      <4>2. CASE checks[x] > 1
        <5>0. checks[x] \notin {NoCheck, 0}
          BY <3>2, <4>1
        <5>1. checks' = [checks EXCEPT ![x] = @ - 1]
          BY <1>2, <2>4, <4>2, <5>0 DEF FailToCheck
        <5>2. checks'[x] = checks[x] - 1
          BY <1>4, <5>1
        <5>3. Pending(x) \ {a} \subseteq Pending(x)' /\ Pending(x)' \subseteq Agents
          BY <1>0, <1>3 DEF Pending, CheckAt, AckAt, NackAt
        <5>4. Cardinality(Pending(x) \ {a}) >= Cardinality(Pending(x)) - 1
              /\ IsFiniteSet(Pending(x) \ {a}) /\ Cardinality(Pending(x) \ {a}) \in Nat
          <6>1. IsFiniteSet(Pending(x)) /\ Cardinality(Pending(x)) \in Nat
            BY PendingFinite
          <6>2. IsFiniteSet(Pending(x) \ {a}) /\ Cardinality(Pending(x) \ {a})
                  = IF a \in Pending(x) THEN Cardinality(Pending(x)) - 1 ELSE Cardinality(Pending(x))
            BY <6>1, FS_RemoveElement
          <6>3. Cardinality(Pending(x) \ {a}) \in Nat
            BY <6>2, FS_CardinalityType
          <6> QED BY <6>1, <6>2, <6>3
        <5>5. Cardinality(Pending(x) \ {a}) <= Cardinality(Pending(x)') /\ Cardinality(Pending(x)') \in Nat
          BY <5>3, DeniersFinite
        <5>6. Cardinality(Pending(x)) \in Nat
          BY PendingFinite
        <5>7. checks'[x] >= 1 /\ checks'[x] <= Cardinality(Pending(x)')
          BY <4>1, <4>2, <5>2, <5>4, <5>5, <5>6
        <5>8. checks'[x] # NoCheck
          BY <4>1, <4>2, <5>2 DEF BillingAssumption
        <5> QED BY <5>7, <5>8 DEF CountsMet
      <4>3. CASE ~(checks[x] > 1)
        <5>1. checks[x] # 0
          BY <4>1
        <5>2. checks' = [checks EXCEPT ![x] = NoCheck] /\ sendq' = Append(sendq, Packet("sync", x, started[x], FALSE))
          BY <1>2, <2>4, <3>2, <4>3, <5>1 DEF FailToCheck
        <5>3. checks'[x] = NoCheck
          BY <1>4, <5>2
        <5>4. Names(sendq', "sync", x)
          BY <1>13, <5>2
        <5> QED BY <5>3, <5>4 DEF CountsMet
      <4> QED BY <4>2, <4>3
    <3> QED BY <3>1, <3>2
  <2> QED BY <1>2, <2>2, <2>3, <2>4
<1>11. ASSUME running = Agents, NEW u \in Users, u # x
       PROVE  CountsMet(u)'
  <2>1. CountsMet(u) /\ checks'[u] = checks[u]
    BY <1>8, <1>11 DEF AnswerInv
  <2> QED BY <1>3, <1>9, <1>11, <2>1, CountsKept DEF CheckAt, AckAt, NackAt
<1>12. ASSUME running = Agents, Linked', NEW u \in asked'
       PROVE  Pursued(u)'
  <2>1. Linked /\ u \in asked
    BY <1>3, <1>7, <1>12 DEF Linked
  <2>2. Pursued(u)
    BY <1>12, <2>1 DEF AnswerInv
  <2>3. checks[u] = NoCheck \/ checks'[u] # NoCheck \/ Names(sendq', "end", u) \/ Names(sendq', "sync", u)
    BY <1>8, <1>10, <1>12
  <2> QED BY <1>3, <1>7, <2>2, <2>3 DEF Pursued
<1> QED BY <1>3, <1>10, <1>11, <1>12 DEF AnswerInv

(* Steps that leave the searches alone, and to the questions only add. *)
LEMMA AnswersKept ==
  ASSUME AnswerInv, UNCHANGED <<mode, socket, running, checks, asked, inbox>>,
         \A u \in Users : CountsMet(u) => CountsMet(u)',
         Greeting(sendq) => Greeting(sendq'), \A t, u : Names(sendq, t, u) => Names(sendq', t, u)
  PROVE  AnswerInv'
<1>1. ASSUME running = Agents, Linked', NEW u \in asked'
      PROVE  Pursued(u)'
  <2>1. Linked
    BY <1>1 DEF Linked
  <2>2. Pursued(u)
    BY <1>1, <2>1 DEF AnswerInv
  <2> QED BY <2>2 DEF Pursued
<1> QED BY <1>1 DEF AnswerInv

LEMMA PlayersAnswers ==
  ASSUME FiniteSystem, Types, BillingAssumption, AnswerInv, NEW a \in Agents, NEW x \in Users,
         Leave(a, x) \/ \E p \in Places : GameStart(x, a, p)
  PROVE  AnswerInv'
<1>1. UNCHANGED <<mode, socket, running, checks, asked, inbox, down>>
  BY DEF Leave, GameStart, connector, billing
<1>2. up' = up \/ up' = [up EXCEPT ![a] = Append(@, Note("stop", x, NoPlace))]
  BY DEF Leave, GameStart
<1>3. sendq' = sendq \/ \E p \in Places : sendq' = Append(sendq, Packet("start", x, p, TRUE))
  BY DEF Leave, GameStart, connector
<1>4. up \in [Agents -> Seq(UpNotes)] /\ sendq \in Seq(Outgoing) /\ Note("stop", x, NoPlace) \in UpNotes
  BY NoteTypes, NoPlaceType DEF Types, QueueTypes
<1>5. \A b \in Agents : up'[b] \in {up[b], Append(up[b], Note("stop", x, NoPlace))}
  BY <1>2, <1>4
<1>6. \A b \in Agents : \A k, u : Tells(up[b], k, u) => Tells(up'[b], k, u)
  <2>1. \A b \in Agents : \A k, u : Tells(up[b], k, u) => Tells(Append(up[b], Note("stop", x, NoPlace)), k, u)
    <3> TAKE b \in Agents
    <3>1. up[b] \in Seq(UpNotes)
      BY <1>4
    <3> QED BY <1>4, <3>1, TellsInAppend
  <2>2. ASSUME NEW b \in Agents, NEW k, NEW u, Tells(up[b], k, u)
        PROVE  Tells(up'[b], k, u)
    <3>1. CASE up'[b] = up[b]
      BY <2>2, <3>1
    <3>2. CASE up'[b] = Append(up[b], Note("stop", x, NoPlace))
      BY <2>1, <2>2, <3>2
    <3> QED BY <1>5, <3>1, <3>2
  <2> QED BY <2>2
<1>7. \A u \in Users : CountsMet(u) => CountsMet(u)'
  BY <1>1, <1>6, CountsKept DEF CheckAt, AckAt, NackAt
<1>8. (Greeting(sendq) => Greeting(sendq')) /\ \A t, u : Names(sendq, t, u) => Names(sendq', t, u)
  <2>1. \A p \in Places : Packet("start", x, p, TRUE) \in Outgoing
    BY PacketTypes
  <2>2. \A e \in Outgoing : Greeting(sendq) => Greeting(Append(sendq, e))
    BY <1>4, GreetingAppend
  <2>3. \A e \in Outgoing : \A t, u : Names(sendq, t, u) => Names(Append(sendq, e), t, u)
    BY <1>4, NamesInAppend
  <2>4. sendq' = sendq \/ \E e \in Outgoing : sendq' = Append(sendq, e)
    BY <1>3, <2>1
  <2> QED BY <2>2, <2>3, <2>4
<1> QED BY <1>1, <1>7, <1>8, AnswersKept

LEMMA ToAgentAnswers ==
  ASSUME FiniteSystem, Types, BillingAssumption, AnswerInv, NEW a \in Agents, ToAgent(a)
  PROVE  AnswerInv'
<1>1. UNCHANGED <<mode, socket, running, checks, asked, inbox, sendq>>
  BY DEF ToAgent, connector, billing
<1>2. /\ down \in [Agents -> Seq(DownNotes)] /\ down[a] # <<>> /\ down' = [down EXCEPT ![a] = Tail(@)]
      /\ up \in [Agents -> Seq(UpNotes)]
  BY DEF ToAgent, Types, QueueTypes
<1>3. PICK msg \in DownNotes : msg = Head(down[a])
  BY <1>2, TailElements
<1>4. PICK x \in Users : x = msg.user
  BY DEF DownNotes
<1>5. PICK ans \in UpNotes : ans.user = x /\ ans.kind \in Answers
                             /\ (msg.kind = "check" => up' = [up EXCEPT ![a] = Append(@, ans)])
  <2>1. \A k \in Answers : Note(k, x, NoPlace) \in UpNotes /\ Note(k, x, NoPlace).user = x /\ Note(k, x, NoPlace).kind = k
    BY NoteTypes, NotePart, NoPlaceType DEF Answers
  <2>2. CASE msg.kind # "check"
    BY <2>1, <2>2 DEF Answers
  <2>3. CASE msg.kind = "check"
    <3>1. \E k \in Answers : up' = [up EXCEPT ![a] = Append(@, Note(k, x, NoPlace))]
      BY <1>3, <1>4, <2>3 DEF ToAgent, Answers
    <3> QED BY <2>1, <3>1
  <2> QED BY <2>2, <2>3
<1>6. msg.kind # "check" => up' = up
  BY <1>3 DEF ToAgent
<1>7. down'[a] = Tail(down[a]) /\ \A b \in Agents : b # a => down'[b] = down[b] /\ up'[b] = up[b]
  BY <1>2, <1>5, <1>6
<1>13. down[a] \in Seq(DownNotes) /\ up[a] \in Seq(UpNotes)
  BY <1>2
<1>14. \A k, u : Tells(Append(up[a], ans), k, u) <=> Tells(up[a], k, u) \/ (ans.kind = k /\ ans.user = u)
  BY <1>13, TellsInAppend
<1>15. up'[a] = IF msg.kind = "check" THEN Append(up[a], ans) ELSE up[a]
  BY <1>2, <1>5, <1>6
<1>8. \A k, u : Tells(down[a], k, u) => Tells(down'[a], k, u) \/ (msg.kind = k /\ x = u)
  <2>1. \A k, u : Tells(down[a], k, u) => Tells(Tail(down[a]), k, u) \/ (Head(down[a]).kind = k /\ Head(down[a]).user = u)
    BY <1>2, <1>13, TellsInTail
  <2> QED BY <1>3, <1>4, <1>7, <2>1
<1>9. \A k, u : Tells(up[a], k, u) => Tells(up'[a], k, u)
  BY <1>14, <1>15
<1>10. msg.kind = "check" => Tells(up'[a], "check_ack", x) \/ Tells(up'[a], "check_nack", x)
  BY <1>5, <1>14, <1>15 DEF Answers
<1>11. ASSUME NEW b \in Agents, NEW u
       PROVE  /\ CheckAt(b, u) => CheckAt(b, u)' \/ AckAt(b, u)' \/ NackAt(b, u)'
              /\ AckAt(b, u) => AckAt(b, u)'
              /\ NackAt(b, u) => NackAt(b, u)'
  <2>1. CASE b # a
    BY <1>7, <2>1 DEF CheckAt, AckAt, NackAt
  <2>2. CASE b = a
    BY <1>8, <1>9, <1>10, <2>2 DEF CheckAt, AckAt, NackAt
  <2> QED BY <2>1, <2>2
<1>12. \A u \in Users : CountsMet(u) => CountsMet(u)'
  BY <1>1, <1>11, CountsKept
<1> QED BY <1>1, <1>12, AnswersKept

LEMMA LookupAnswers ==
  ASSUME FiniteSystem, Types, BillingAssumption, AnswerInv, NEW q \in lookups, RGameRoomData(q)
  PROVE  AnswerInv'
<1>1. UNCHANGED <<mode, socket, running, checks, asked, inbox, sendq, up>>
  BY DEF RGameRoomData, players, billing
<1>2. q.user \in Users /\ q.place \in AnyPlace
  BY DEF Types, CoreTypes, AnyPlace
<1>3. PICK n \in DownNotes : Broadcast(n) /\ n.kind # "check"
  BY <1>2, NoteTypes, NotePart, NoPlaceType DEF RGameRoomData
<1>4. \A b \in Agents : \A u : (CheckAt(b, u)' <=> CheckAt(b, u)) /\ (AckAt(b, u)' <=> AckAt(b, u))
                                 /\ (NackAt(b, u)' <=> NackAt(b, u))
  BY <1>1, <1>3, BroadcastElse DEF AckAt, NackAt
<1>5. \A u \in Users : CountsMet(u) => CountsMet(u)'
  BY <1>1, <1>4, CountsKept
<1> QED BY <1>1, <1>5, AnswersKept

LEMMA RestAnswers ==
  ASSUME FiniteSystem, Types, BillingAssumption, AnswerInv,
         SendFails \/ Reset \/ Drops \/ \E u \in Users : Asks(u) \/ Alerts(u)
  PROVE  AnswerInv'
<1>1. UNCHANGED <<mode, running, checks, down, up>>
  BY DEF SendFails, Reset, Drops, Asks, Alerts, players, connector
<1>2. \A u \in Users : CountsMet(u) => CountsMet(u)'
  BY <1>1, CountsKept, NoMessageTaken
<1>3. CASE SendFails
  BY <1>1, <1>2, <1>3 DEF SendFails, AnswerInv, Linked, billing
<1>4. CASE Reset
  BY <1>1, <1>2, <1>4 DEF Reset, AnswerInv, Linked
<1>5. CASE Drops
  BY <1>1, <1>2, <1>5 DEF Drops, AnswerInv, Linked
<1>6. ASSUME NEW x \in Users, Asks(x) \/ Alerts(x)
      PROVE  AnswerInv'
  <2>1. UNCHANGED <<sendq, socket>> /\ socket = "up"
    BY <1>6 DEF Asks, Alerts, connector, Heard
  <2>2. mode = "server"
    BY <2>1 DEF AnswerInv, Types, CoreTypes
  <2>3. inbox \in Seq(Incoming) /\ charged[x] \in AnyPlace
    BY DEF Types, CoreTypes, QueueTypes
  <2>4. Packet("sync", x, charged[x], TRUE) \in Incoming /\ Packet("alert", x, charged[x], FALSE) \in Incoming
    BY <2>3, PacketTypes
  <2>5. /\ Packet("sync", x, charged[x], TRUE).type = "sync" /\ Packet("sync", x, charged[x], TRUE).user = x
        /\ Packet("alert", x, charged[x], FALSE).type = "alert"
    BY DEF Packet
  <2>6. ASSUME running = Agents, Linked', NEW u \in asked'
        PROVE  Pursued(u)'
    <3>1. Linked
      BY <1>1, <2>1, <2>6 DEF Linked
    <3>2. CASE Asks(x)
      <4>1. inbox' = Append(inbox, Packet("sync", x, charged[x], TRUE)) /\ asked' = asked \cup {x}
        BY <3>2 DEF Asks
      <4>2. CASE u = x
        <5>1. Question(inbox', u)
          BY <2>3, <2>4, <2>5, <4>1, <4>2, QuestionAppend
        <5> QED BY <5>1 DEF Pursued
      <4>3. CASE u # x
        <5>1. Pursued(u)
          BY <2>6, <3>1, <4>1, <4>3 DEF AnswerInv
        <5>2. ~Refusal(Packet("sync", x, charged[x], TRUE), u)
          BY <2>5 DEF Refusal
        <5>3. (Question(inbox, u) => Question(inbox', u)) /\ (~Refused(inbox, u) => ~Refused(inbox', u))
          BY <2>3, <2>4, <4>1, <5>2, QuestionAppend, RefusedAppend
        <5> QED BY <1>1, <2>1, <5>1, <5>3 DEF Pursued
      <4> QED BY <4>2, <4>3
    <3>3. CASE Alerts(x)
      <4>1. inbox' = Append(inbox, Packet("alert", x, charged[x], FALSE)) /\ asked' = asked \ {x}
        BY <3>3 DEF Alerts
      <4>2. Pursued(u)
        BY <2>6, <3>1, <4>1 DEF AnswerInv
      <4>3. ~Refusal(Packet("alert", x, charged[x], FALSE), u)
        BY <2>5 DEF Refusal
      <4>4. (Question(inbox, u) => Question(inbox', u)) /\ (~Refused(inbox, u) => ~Refused(inbox', u))
        BY <2>3, <2>4, <4>1, <4>3, QuestionAppend, RefusedAppend
      <4> QED BY <1>1, <2>1, <4>2, <4>4 DEF Pursued
    <3> QED BY <1>6, <3>2, <3>3
  <2> QED BY <1>1, <1>2, <2>2, <2>6 DEF AnswerInv
<1> QED BY <1>3, <1>4, <1>5, <1>6

LEMMA AnswerStep ==
  ASSUME FiniteSystem, Types, BillingAssumption, OnlyAgents, AnswerInv, [Next]_vars
  PROVE  AnswerInv'
<1>1. CASE UNCHANGED vars
  <2>1. UNCHANGED <<mode, socket, running, checks, asked, inbox, sendq, down, up>>
    BY <1>1 DEF vars
  <2>2. \A u \in Users : CountsMet(u) => CountsMet(u)'
    BY <2>1 DEF CountsMet, Pending, CheckAt, AckAt, NackAt
  <2> QED BY <2>1, <2>2, AnswersKept
<1>2. CASE Connect
  BY <1>2, ConnectAnswers
<1>3. CASE Send
  BY <1>3, SendAnswers
<1>4. CASE Recv
  BY <1>4, RecvAnswers
<1>5. CASE SendFails \/ Reset \/ Drops \/ \E u \in Users : Asks(u) \/ Alerts(u)
  BY <1>5, RestAnswers
<1>6. ASSUME NEW a \in Agents, FromAgent(a) \/ ToAgent(a)
      PROVE  AnswerInv'
  BY <1>6, FromAgentAnswers, ToAgentAnswers
<1>7. ASSUME NEW a \in Agents, AgentStops(a)
      PROVE  AnswerInv'
  BY <1>7 DEF AgentStops, RemoveServer, AnswerInv, connector, billing
<1>8. ASSUME NEW a \in Agents, NEW u \in Users, Leave(a, u) \/ \E p \in Places : GameStart(u, a, p)
      PROVE  AnswerInv'
  BY <1>8, PlayersAnswers
<1>9. ASSUME NEW q \in lookups, RGameRoomData(q)
      PROVE  AnswerInv'
  BY <1>9, LookupAnswers
<1> QED BY <1>1, <1>2, <1>3, <1>4, <1>5, <1>6, <1>7, <1>8, <1>9 DEF Next, Process

(* When nothing is under way and every agent runs, no search is left over  *)
(* and the billing server waits for no answer, if every server in the      *)
(* table is an agent and a read finds one packet (ReceiveSync,             *)
(* SucceedToCheck and FailToCheck, BillConnector.cpp).                     *)
THEOREM SearchesDoEnd ==
  ASSUME FiniteSystem, OnlyAgents
  PROVE  Spec => []SearchesEnd
<1>1. Init => Types /\ AnswerInv
  <2> SUFFICES ASSUME Init
               PROVE  Types /\ AnswerInv
    OBVIOUS
  <2>1. \A u \in Users : CountsMet(u)
    BY DEF Init, CountsMet
  <2> QED BY <2>1, InitTypes, BillingAssumption DEF Init, AnswerInv
<1>2. Types /\ AnswerInv /\ [Next]_vars => (Types /\ AnswerInv)'
  BY TypesStep, AnswerStep, BillingAssumption
<1>3. Types /\ AnswerInv => SearchesEnd
  <2> SUFFICES ASSUME Types, AnswerInv, Quiet, running = Agents
               PROVE  (\A u \in Users : checks[u] = NoCheck) /\ asked = {}
    BY DEF SearchesEnd, ChecksEnd, AsksAnswered
  <2>1. \A u : Pending(u) = {}
    <3>1. \A a \in Agents : \A u : ~CheckAt(a, u) /\ ~AckAt(a, u) /\ ~NackAt(a, u)
      BY EmptyTells DEF Quiet, CheckAt, AckAt, NackAt
    <3> QED BY <3>1 DEF Pending
  <2>2. ASSUME NEW u \in Users, checks[u] # NoCheck
        PROVE  FALSE
    <3>1. CountsMet(u)
      BY DEF AnswerInv
    <3>2. checks[u] >= 1 /\ checks[u] <= Cardinality({})
      BY <2>1, <2>2, <3>1 DEF CountsMet
    <3>3. checks[u] \in 0..(Cardinality(Agents) + Others)
      BY <2>2 DEF Types, CoreTypes
    <3>4. Cardinality({}) = 0 /\ Cardinality(Agents) + Others \in Nat
      BY FS_EmptySet, FS_CardinalityType, BillingAssumption DEF FiniteSystem, BillingAssumption
    <3> QED BY <3>2, <3>3, <3>4
  <2>3. CASE mode = "database"
    BY <2>2, <2>3 DEF AnswerInv
  <2>4. CASE mode = "server"
    <3>1. Linked
      BY <2>4 DEF Quiet, Linked, Greeting
    <3>2. ASSUME NEW u \in asked
          PROVE  FALSE
      <4>1. Pursued(u) /\ u \in Users
        BY <3>1, <3>2 DEF AnswerInv, Types, CoreTypes
      <4>2. ~Question(inbox, u) /\ ~Names(sendq, "sync", u) /\ ~Names(sendq, "end", u)
        BY EmptyTells DEF Quiet, Question
      <4> QED BY <2>2, <4>1, <4>2 DEF Pursued
    <3> QED BY <2>2, <3>2
  <2> QED BY <2>3, <2>4 DEF Types, CoreTypes
<1> QED BY <1>1, <1>2, <1>3, PTL DEF Spec

-----------------------------------------------------------------------------
(* Charges: a login and a logout on their way through the queues. *)

Sound(u) == u \notin muddled \cup mixed

(* At most one start of a player is under way. *)
OneStart(q, u) ==
  \A i, j \in DOMAIN q : q[i].type = "start" /\ q[i].user = u /\ q[j].type = "start" /\ q[j].user = u => i = j

StartsFrom(q, u, p) == \A i \in DOMAIN q : q[i].type = "start" /\ q[i].user = u => q[i].place = p

(* Behind the end of an earlier login comes the start of the new one. *)
EndCovered(q, u) ==
  \A i \in DOMAIN q : q[i].type = "end" /\ q[i].user = u
    => \E j \in DOMAIN q : j > i /\ q[j].type = "start" /\ q[j].user = u

(* The connection is greeted before anything else is sent. *)
GreetFirst(q) ==
  \A i \in DOMAIN q :
    /\ q[i].type = "conn" => i = 1 /\ Len(q) >= 2 /\ q[2].type = "reset"
    /\ q[i].type = "reset" => i = 1 \/ (i = 2 /\ q[1].type = "conn")

(* The last answer about a login, if it is a refusal. *)
RefusedLast(q, u) ==
  \E i \in DOMAIN q : Refusal(q[i], u) /\ \A j \in DOMAIN q : j > i => ~(q[j].type = "start" /\ q[j].user = u)

Starting(u) == Names(sendq, "start", u) \/ Names(inbox, "start", u)

Stopping(u) == \E a \in Agents : Tells(up[a], "stop", u)

(* What a message or a packet says about the advantages of a player. *)
Concerns(n, u) == n.kind \in {"start_ack", "start_nack", "alert"} /\ n.user = u

Shows(n) == IF n.kind = "start_ack" THEN n.place ELSE NoPlace

PacketConcerns(p, u) == p.type \in {"start", "alert"} /\ p.user = u

PacketShows(p) == IF p.type = "start" /\ p.ok THEN p.place ELSE NoPlace

LastNote(q, u, v) ==
  \E i \in DOMAIN q : Concerns(q[i], u) /\ Shows(q[i]) = v /\ \A j \in DOMAIN q : j > i => ~Concerns(q[j], u)

LastPacket(q, u, v) ==
  \E i \in DOMAIN q : PacketConcerns(q[i], u) /\ PacketShows(q[i]) = v
                      /\ \A j \in DOMAIN q : j > i => ~PacketConcerns(q[j], u)

(* What an agent will show, once it has read its messages; and once the *)
(* packets of the billing server have come too.                         *)
Shown(d, u, old, v) == LastNote(d, u, v) \/ ((\A i \in DOMAIN d : ~Concerns(d[i], u)) /\ old = v)

Coming(q, d, u, old, v) == LastPacket(q, u, v) \/ ((\A i \in DOMAIN q : ~PacketConcerns(q[i], u)) /\ Shown(d, u, old, v))

World ==
  /\ mode = "database" =>
       /\ socket \in {"none", "invalid"} /\ sendq = <<>>
       /\ \A u \in Users : charged[u] = NoPlace /\ started[u] = NoPlace /\ checks[u] = NoCheck
  /\ mode = "server" => lookups = {}
  /\ socket # "up" => inbox = <<>>
  /\ socket = "up" /\ Greeting(sendq) => inbox = <<>> /\ \A u \in Users : started[u] = NoPlace
  /\ GreetFirst(sendq)

(* A player whose logins and logouts have been heard: one login is under   *)
(* way or is answered, and a logout ends it.                               *)
Heeded(u) ==
  /\ OneStart(sendq, u) /\ OneStart(inbox, u) /\ ~(Names(sendq, "start", u) /\ Names(inbox, "start", u))
  /\ started[u] # NoPlace => ~Starting(u)
  /\ ~Online(u) => Stopping(u) \/ (~Starting(u) /\ started[u] = NoPlace)
  /\ Online(u) => /\ ~Stopping(u) /\ EndCovered(sendq, u)
                  /\ started[u] \in {place[u], NoPlace}
                  /\ StartsFrom(sendq, u, place[u]) /\ StartsFrom(inbox, u, place[u])

LoginInv == \A u \in Users : Sound(u) => Heeded(u)

ChargeInv ==
  Linked => \A u \in Users :
    /\ started[u] = NoPlace /\ ~Starting(u) /\ ~Names(sendq, "end", u) => charged[u] = NoPlace
    /\ RefusedLast(inbox, u) => charged[u] = NoPlace
    /\ Sound(u) /\ ~Online(u) /\ charged[u] # NoPlace => Stopping(u) \/ Names(sendq, "end", u)

(* What the database says of a place. *)
RoomOnly(p) == IF p \in Rooms THEN p ELSE NoPlace

(* What an agent shows of a player that is there, once what is under way   *)
(* has come: nothing before the billing server has answered, then what it  *)
(* charges, or what the database says.                                     *)
Seen(a, u) ==
  /\ mode = "server" /\ started[u] = NoPlace /\ ~Starting(u) => Shown(down[a], u, packets[a][u], NoPlace)
  /\ Linked /\ ~Names(sendq, "start", u) =>
       Coming(inbox, down[a], u, packets[a][u], charged[u]) /\ charged[u] \in {place[u], NoPlace}
  /\ mode = "database" =>
       /\ \A q \in lookups : q.user = u => q.place = place[u]
       /\ (\A q \in lookups : q.user # u) => Shown(down[a], u, packets[a][u], RoomOnly(place[u]))

ShownInv == \A a \in Agents : \A u \in online[a] : Sound(u) => Seen(a, u)

LEMMA OneStartTail ==
  ASSUME NEW S, NEW q \in Seq(S), q # <<>>, NEW u, OneStart(q, u)
  PROVE  /\ OneStart(Tail(q), u)
         /\ Head(q).type = "start" /\ Head(q).user = u => ~Names(Tail(q), "start", u)
<1> USE TailElements
<1>1. ASSUME NEW i \in 1..(Len(q) - 1), NEW j \in 1..(Len(q) - 1), Tail(q)[i].type = "start", Tail(q)[i].user = u,
             Tail(q)[j].type = "start", Tail(q)[j].user = u
      PROVE  i = j
  <2>1. i + 1 \in 1..Len(q) /\ j + 1 \in 1..Len(q) /\ q[i + 1] = Tail(q)[i] /\ q[j + 1] = Tail(q)[j]
    OBVIOUS
  <2>2. i + 1 = j + 1
    BY <1>1, <2>1 DEF OneStart
  <2> QED BY <2>2
<1>2. ASSUME Head(q).type = "start", Head(q).user = u, Names(Tail(q), "start", u)
      PROVE  FALSE
  <2>1. PICK i \in 1..(Len(q) - 1) : Tail(q)[i].type = "start" /\ Tail(q)[i].user = u
    BY <1>2 DEF Names
  <2>2. i + 1 \in 1..Len(q) /\ 1 \in 1..Len(q) /\ q[i + 1] = Tail(q)[i]
    OBVIOUS
  <2>3. i + 1 = 1
    BY <1>2, <2>1, <2>2 DEF OneStart
  <2> QED BY <2>3
<1> QED BY <1>1, <1>2 DEF OneStart

LEMMA OneStartAppend ==
  ASSUME NEW S, NEW q \in Seq(S), NEW e \in S, NEW u, OneStart(q, u),
         (e.type = "start" /\ e.user = u) => ~Names(q, "start", u)
  PROVE  OneStart(Append(q, e), u)
<1> USE AppendElements
<1> SUFFICES ASSUME NEW i \in 1..(Len(q) + 1), NEW j \in 1..(Len(q) + 1),
                    Append(q, e)[i].type = "start", Append(q, e)[i].user = u,
                    Append(q, e)[j].type = "start", Append(q, e)[j].user = u
             PROVE  i = j
  BY DEF OneStart
<1>1. \A h \in 1..Len(q) : q[h].type = "start" /\ q[h].user = u => ~(e.type = "start" /\ e.user = u)
  BY DEF Names
<1>2. CASE i \in 1..Len(q) /\ j \in 1..Len(q)
  BY <1>2 DEF OneStart
<1>3. CASE i \notin 1..Len(q)
  <2>1. i = Len(q) + 1 /\ e.type = "start" /\ e.user = u
    BY <1>3
  <2> QED BY <2>1, <1>1
<1>4. CASE j \notin 1..Len(q)
  <2>1. j = Len(q) + 1 /\ e.type = "start" /\ e.user = u
    BY <1>4
  <2> QED BY <2>1, <1>1
<1> QED BY <1>2, <1>3, <1>4

LEMMA StartsFromTail ==
  ASSUME NEW S, NEW q \in Seq(S), q # <<>>, NEW u, NEW p, StartsFrom(q, u, p)
  PROVE  /\ StartsFrom(Tail(q), u, p)
         /\ Head(q).type = "start" /\ Head(q).user = u => Head(q).place = p
<1> USE TailElements
<1>1. ASSUME NEW i \in 1..(Len(q) - 1), Tail(q)[i].type = "start", Tail(q)[i].user = u
      PROVE  Tail(q)[i].place = p
  <2>1. i + 1 \in 1..Len(q) /\ q[i + 1] = Tail(q)[i]
    OBVIOUS
  <2> QED BY <1>1, <2>1 DEF StartsFrom
<1>2. 1 \in DOMAIN q /\ Head(q) = q[1]
  OBVIOUS
<1> QED BY <1>1, <1>2 DEF StartsFrom

LEMMA StartsFromAppend ==
  ASSUME NEW S, NEW q \in Seq(S), NEW e \in S, NEW u, NEW p, StartsFrom(q, u, p),
         (e.type = "start" /\ e.user = u) => e.place = p
  PROVE  StartsFrom(Append(q, e), u, p)
<1> USE AppendElements
<1>1. ASSUME NEW i \in 1..(Len(q) + 1), Append(q, e)[i].type = "start", Append(q, e)[i].user = u
      PROVE  Append(q, e)[i].place = p
  <2>1. CASE i = Len(q) + 1
    BY <1>1, <2>1
  <2>2. CASE i \in 1..Len(q)
    BY <1>1, <2>2 DEF StartsFrom
  <2> QED BY <2>1, <2>2
<1> QED BY <1>1 DEF StartsFrom

LEMMA NoStartsFrom ==
  ASSUME NEW q, NEW u, NEW p, ~Names(q, "start", u)
  PROVE  StartsFrom(q, u, p) /\ OneStart(q, u)
  BY DEF Names, StartsFrom, OneStart

LEMMA EndCoveredTail ==
  ASSUME NEW S, NEW q \in Seq(S), q # <<>>, NEW u, EndCovered(q, u)
  PROVE  /\ EndCovered(Tail(q), u)
         /\ Head(q).type = "end" /\ Head(q).user = u => Names(Tail(q), "start", u)
<1> USE TailElements
<1>1. ASSUME NEW j \in 1..Len(q), j > 1
      PROVE  j - 1 \in 1..(Len(q) - 1) /\ Tail(q)[j - 1] = q[j]
  BY <1>1
<1>2. ASSUME NEW i \in 1..(Len(q) - 1), Tail(q)[i].type = "end", Tail(q)[i].user = u
      PROVE  \E j \in 1..(Len(q) - 1) : j > i /\ Tail(q)[j].type = "start" /\ Tail(q)[j].user = u
  <2>1. i + 1 \in 1..Len(q) /\ q[i + 1] = Tail(q)[i]
    OBVIOUS
  <2>2. PICK j \in 1..Len(q) : j > i + 1 /\ q[j].type = "start" /\ q[j].user = u
    BY <1>2, <2>1 DEF EndCovered
  <2>3. j - 1 \in 1..(Len(q) - 1) /\ Tail(q)[j - 1] = q[j] /\ j - 1 > i
    BY <1>1, <2>2
  <2> QED BY <2>2, <2>3
<1>3. ASSUME Head(q).type = "end", Head(q).user = u
      PROVE  Names(Tail(q), "start", u)
  <2>1. PICK j \in 1..Len(q) : j > 1 /\ q[j].type = "start" /\ q[j].user = u
    BY <1>3, 1 \in 1..Len(q) DEF EndCovered
  <2> QED BY <1>1, <2>1 DEF Names
<1> QED BY <1>2, <1>3 DEF EndCovered

LEMMA EndCoveredAppend ==
  ASSUME NEW S, NEW q \in Seq(S), NEW e \in S, NEW u, ~(e.type = "end" /\ e.user = u)
  PROVE  /\ EndCovered(q, u) => EndCovered(Append(q, e), u)
         /\ e.type = "start" /\ e.user = u => EndCovered(Append(q, e), u)
<1> USE AppendElements
<1>1. ASSUME EndCovered(q, u) \/ (e.type = "start" /\ e.user = u),
             NEW i \in 1..(Len(q) + 1), Append(q, e)[i].type = "end", Append(q, e)[i].user = u
      PROVE  \E j \in 1..(Len(q) + 1) : j > i /\ Append(q, e)[j].type = "start" /\ Append(q, e)[j].user = u
  <2>1. i \in 1..Len(q) /\ q[i].type = "end" /\ q[i].user = u
    <3>1. CASE i = Len(q) + 1
      BY <1>1, <3>1
    <3>2. CASE i \in 1..Len(q)
      BY <1>1, <3>2
    <3> QED BY <3>1, <3>2
  <2>2. CASE EndCovered(q, u)
    <3>1. PICK j \in 1..Len(q) : j > i /\ q[j].type = "start" /\ q[j].user = u
      BY <2>1, <2>2 DEF EndCovered
    <3>2. j \in 1..(Len(q) + 1) /\ Append(q, e)[j] = q[j]
      OBVIOUS
    <3> QED BY <3>1, <3>2
  <2>3. CASE e.type = "start" /\ e.user = u
    <3>1. Len(q) + 1 \in 1..(Len(q) + 1) /\ Len(q) + 1 > i /\ Append(q, e)[Len(q) + 1] = e
      BY <2>1
    <3> QED BY <2>3, <3>1
  <2> QED BY <1>1, <2>2, <2>3
<1> QED BY <1>1 DEF EndCovered

LEMMA NoEndCovered ==
  ASSUME NEW q, NEW u, ~Names(q, "end", u)
  PROVE  EndCovered(q, u)
  BY DEF Names, EndCovered

LEMMA GreetFirstTail ==
  ASSUME NEW S, NEW q \in Seq(S), q # <<>>, GreetFirst(q)
  PROVE  /\ GreetFirst(Tail(q))
         /\ ~Greets(Head(q)) => ~Greeting(q)
         /\ Greeting(q) /\ (\A i \in DOMAIN q : q[i].type # "reset") => FALSE
<1> USE TailElements
<1>1. \A i \in 1..(Len(q) - 1) : i + 1 \in 1..Len(q) /\ q[i + 1] = Tail(q)[i]
  OBVIOUS
<1>2. ASSUME NEW i \in 1..(Len(q) - 1)
      PROVE  /\ Tail(q)[i].type # "conn"
             /\ Tail(q)[i].type = "reset" => i = 1
  <2>1. i + 1 \in 1..Len(q) /\ q[i + 1] = Tail(q)[i]
    OBVIOUS
  <2>2. q[i + 1].type = "conn" => i + 1 = 1
    BY <2>1 DEF GreetFirst
  <2>3. q[i + 1].type = "reset" => i + 1 = 1 \/ i + 1 = 2
    BY <2>1 DEF GreetFirst
  <2> QED BY <2>1, <2>2, <2>3
<1>3. ASSUME NEW i \in 1..Len(q), Greets(q[i])
      PROVE  Greets(q[1])
  <2>1. CASE q[i].type = "conn"
    BY <1>3, <2>1 DEF GreetFirst
  <2>2. CASE q[i].type = "reset"
    BY <1>3, <2>2 DEF GreetFirst, Greets
  <2> QED BY <1>3, <2>1, <2>2 DEF Greets
<1>4. ASSUME NEW i \in 1..Len(q), Greets(q[i])
      PROVE  \E j \in 1..Len(q) : q[j].type = "reset"
  <2>1. CASE q[i].type = "conn"
    <3>1. Len(q) >= 2 /\ q[2].type = "reset"
      BY <2>1 DEF GreetFirst
    <3> QED BY <3>1, 2 \in 1..Len(q)
  <2>2. CASE q[i].type = "reset"
    BY <2>2
  <2> QED BY <1>4, <2>1, <2>2 DEF Greets
<1> QED BY <1>2, <1>3, <1>4 DEF GreetFirst, Greeting

LEMMA GreetFirstAppend ==
  ASSUME NEW S, NEW q \in Seq(S), NEW e \in S, GreetFirst(q), ~Greets(e)
  PROVE  GreetFirst(Append(q, e))
<1> USE AppendElements
<1>1. Len(Append(q, e)) = Len(q) + 1
  OBVIOUS
<1>2. ASSUME NEW i \in 1..(Len(q) + 1), Greets(Append(q, e)[i])
      PROVE  /\ Append(q, e)[i].type = "conn" => i = 1 /\ Len(Append(q, e)) >= 2 /\ Append(q, e)[2].type = "reset"
             /\ Append(q, e)[i].type = "reset" => i = 1 \/ (i = 2 /\ Append(q, e)[1].type = "conn")
  <2>1. i \in 1..Len(q) /\ Append(q, e)[i] = q[i]
    <3>1. CASE i = Len(q) + 1
      BY <1>2, <3>1
    <3>2. CASE i \in 1..Len(q)
      BY <3>2
    <3> QED BY <3>1, <3>2
  <2>2. CASE q[i].type = "conn"
    <3>1. i = 1 /\ Len(q) >= 2 /\ q[2].type = "reset"
      BY <2>1, <2>2 DEF GreetFirst
    <3>2. Append(q, e)[2] = q[2]
      BY <3>1, 2 \in 1..Len(q)
    <3> QED BY <1>1, <2>1, <2>2, <3>1, <3>2
  <2>3. CASE q[i].type = "reset"
    <3>1. i = 1 \/ (i = 2 /\ q[1].type = "conn")
      BY <2>1, <2>3 DEF GreetFirst
    <3>2. Append(q, e)[1] = q[1]
      BY <2>1, 1 \in 1..Len(q)
    <3> QED BY <2>1, <2>3, <3>1, <3>2
  <2> QED BY <1>2, <2>1, <2>2, <2>3 DEF Greets
<1> QED BY <1>2 DEF GreetFirst, Greets

LEMMA RefusedLastTail ==
  ASSUME NEW S, NEW q \in Seq(S), q # <<>>, NEW u
  PROVE  /\ RefusedLast(Tail(q), u) => RefusedLast(q, u)
         /\ Refusal(Head(q), u) /\ ~Names(Tail(q), "start", u) => RefusedLast(q, u)
<1> USE TailElements
<1>1. \A j \in 1..Len(q) : j > 1 => j - 1 \in 1..(Len(q) - 1) /\ Tail(q)[j - 1] = q[j]
  OBVIOUS
<1>2. ASSUME RefusedLast(Tail(q), u)
      PROVE  RefusedLast(q, u)
  <2>1. PICK i \in 1..(Len(q) - 1) :
               /\ Refusal(Tail(q)[i], u)
               /\ \A j \in 1..(Len(q) - 1) : j > i => ~(Tail(q)[j].type = "start" /\ Tail(q)[j].user = u)
    BY <1>2 DEF RefusedLast
  <2>2. i + 1 \in 1..Len(q) /\ q[i + 1] = Tail(q)[i]
    OBVIOUS
  <2>3. ASSUME NEW j \in 1..Len(q), j > i + 1
        PROVE  ~(q[j].type = "start" /\ q[j].user = u)
    <3>1. j - 1 \in 1..(Len(q) - 1) /\ Tail(q)[j - 1] = q[j] /\ j - 1 > i
      BY <1>1, <2>3
    <3> QED BY <2>1, <3>1
  <2> QED BY <2>1, <2>2, <2>3 DEF RefusedLast
<1>3. ASSUME Refusal(Head(q), u), ~Names(Tail(q), "start", u)
      PROVE  RefusedLast(q, u)
  <2>1. ASSUME NEW j \in 1..Len(q), j > 1
        PROVE  ~(q[j].type = "start" /\ q[j].user = u)
    <3>1. j - 1 \in DOMAIN Tail(q) /\ Tail(q)[j - 1] = q[j]
      BY <1>1, <2>1
    <3> QED BY <1>3, <3>1 DEF Names
  <2>2. 1 \in 1..Len(q) /\ Refusal(q[1], u)
    BY <1>3
  <2> QED BY <2>1, <2>2 DEF RefusedLast
<1> QED BY <1>2, <1>3

LEMMA RefusedLastAppend ==
  ASSUME NEW S, NEW q \in Seq(S), NEW e \in S, NEW u, RefusedLast(Append(q, e), u)
  PROVE  Refusal(e, u) \/ (RefusedLast(q, u) /\ ~(e.type = "start" /\ e.user = u))
<1> USE AppendElements
<1>1. PICK i \in 1..(Len(q) + 1) :
              /\ Refusal(Append(q, e)[i], u)
              /\ \A j \in 1..(Len(q) + 1) : j > i => ~(Append(q, e)[j].type = "start" /\ Append(q, e)[j].user = u)
  BY DEF RefusedLast
<1>2. CASE i = Len(q) + 1
  BY <1>1, <1>2
<1>3. CASE i \in 1..Len(q)
  <2>1. Refusal(q[i], u) /\ Len(q) + 1 \in 1..(Len(q) + 1) /\ Len(q) + 1 > i
    BY <1>1, <1>3
  <2>2. ~(e.type = "start" /\ e.user = u)
    BY <1>1, <2>1
  <2>3. ASSUME NEW j \in 1..Len(q), j > i
        PROVE  ~(q[j].type = "start" /\ q[j].user = u)
    <3>1. j \in 1..(Len(q) + 1) /\ Append(q, e)[j] = q[j]
      OBVIOUS
    <3> QED BY <1>1, <2>3, <3>1
  <2> QED BY <1>3, <2>1, <2>2, <2>3 DEF RefusedLast
<1> QED BY <1>2, <1>3

LEMMA LastNoteAppend ==
  ASSUME NEW S, NEW q \in Seq(S), NEW e \in S, NEW u, NEW v
  PROVE  /\ Concerns(e, u) /\ Shows(e) = v => LastNote(Append(q, e), u, v)
         /\ ~Concerns(e, u) => (LastNote(q, u, v) => LastNote(Append(q, e), u, v))
         /\ ~Concerns(e, u) /\ (\A i \in DOMAIN q : ~Concerns(q[i], u))
              => \A i \in DOMAIN Append(q, e) : ~Concerns(Append(q, e)[i], u)
<1> USE AppendElements
<1>1. Len(q) + 1 \in 1..(Len(q) + 1) /\ \A j \in 1..(Len(q) + 1) : ~(j > Len(q) + 1)
  OBVIOUS
<1>2. ASSUME Concerns(e, u), Shows(e) = v
      PROVE  LastNote(Append(q, e), u, v)
  <2>1. Append(q, e)[Len(q) + 1] = e /\ Len(q) + 1 \in DOMAIN Append(q, e)
    BY <1>1
  <2>2. \A j \in DOMAIN Append(q, e) : ~(j > Len(q) + 1)
    BY <1>1
  <2> QED BY <1>2, <2>1, <2>2 DEF LastNote
<1>3. ASSUME NEW j \in 1..(Len(q) + 1)
      PROVE  (j = Len(q) + 1 /\ Append(q, e)[j] = e) \/ (j \in 1..Len(q) /\ Append(q, e)[j] = q[j])
  OBVIOUS
<1>4. ASSUME ~Concerns(e, u), LastNote(q, u, v)
      PROVE  LastNote(Append(q, e), u, v)
  <2>1. PICK i \in 1..Len(q) : Concerns(q[i], u) /\ Shows(q[i]) = v /\ \A j \in 1..Len(q) : j > i => ~Concerns(q[j], u)
    BY <1>4 DEF LastNote
  <2>2. i \in 1..(Len(q) + 1) /\ Append(q, e)[i] = q[i]
    OBVIOUS
  <2>3. \A j \in 1..(Len(q) + 1) : j > i => ~Concerns(Append(q, e)[j], u)
    BY <1>3, <1>4, <2>1
  <2> QED BY <2>1, <2>2, <2>3 DEF LastNote
<1>5. ASSUME ~Concerns(e, u), \A i \in 1..Len(q) : ~Concerns(q[i], u)
      PROVE  \A i \in 1..(Len(q) + 1) : ~Concerns(Append(q, e)[i], u)
  BY <1>3, <1>5
<1> QED BY <1>2, <1>4, <1>5

LEMMA ShownAppend ==
  ASSUME NEW S, NEW q \in Seq(S), NEW e \in S, NEW u, NEW old, NEW v
  PROVE  /\ Concerns(e, u) /\ Shows(e) = v => Shown(Append(q, e), u, old, v)
         /\ ~Concerns(e, u) => (Shown(q, u, old, v) => Shown(Append(q, e), u, old, v))
  BY LastNoteAppend DEF Shown

LEMMA ShownTail ==
  ASSUME NEW S, NEW q \in Seq(S), q # <<>>, NEW u, NEW old, NEW v, Shown(q, u, old, v)
  PROVE  Shown(Tail(q), u, IF Concerns(Head(q), u) THEN Shows(Head(q)) ELSE old, v)
<1> USE TailElements
<1>1. ASSUME NEW j \in 1..Len(q), j > 1
      PROVE  j - 1 \in 1..(Len(q) - 1) /\ Tail(q)[j - 1] = q[j]
  BY <1>1
<1>2. ASSUME NEW j \in 1..(Len(q) - 1)
      PROVE  j + 1 \in 1..Len(q) /\ Tail(q)[j] = q[j + 1] /\ j + 1 > 1
  OBVIOUS
<1>3. ASSUME LastNote(q, u, v)
      PROVE  Shown(Tail(q), u, IF Concerns(Head(q), u) THEN Shows(Head(q)) ELSE old, v)
  <2>1. PICK i \in 1..Len(q) : Concerns(q[i], u) /\ Shows(q[i]) = v /\ \A j \in 1..Len(q) : j > i => ~Concerns(q[j], u)
    BY <1>3 DEF LastNote
  <2>2. CASE i = 1
    <3>1. Concerns(Head(q), u) /\ Shows(Head(q)) = v
      BY <2>1, <2>2
    <3>2. \A j \in 1..(Len(q) - 1) : ~Concerns(Tail(q)[j], u)
      BY <1>2, <2>1, <2>2
    <3> QED BY <3>1, <3>2 DEF Shown
  <2>3. CASE i > 1
    <3>1. i - 1 \in 1..(Len(q) - 1) /\ Concerns(Tail(q)[i - 1], u) /\ Shows(Tail(q)[i - 1]) = v
      BY <1>1, <2>1, <2>3
    <3>2. ASSUME NEW j \in 1..(Len(q) - 1), j > i - 1
          PROVE  ~Concerns(Tail(q)[j], u)
      <4>1. j + 1 > i
        BY <3>2
      <4> QED BY <1>2, <2>1, <4>1
    <3>3. LastNote(Tail(q), u, v)
      BY <3>1, <3>2 DEF LastNote
    <3> QED BY <3>3 DEF Shown
  <2> QED BY <2>2, <2>3
<1>4. ASSUME \A i \in 1..Len(q) : ~Concerns(q[i], u), old = v
      PROVE  Shown(Tail(q), u, IF Concerns(Head(q), u) THEN Shows(Head(q)) ELSE old, v)
  <2>1. ~Concerns(Head(q), u) /\ \A j \in 1..(Len(q) - 1) : ~Concerns(Tail(q)[j], u)
    BY <1>2, <1>4, 1 \in 1..Len(q)
  <2> QED BY <1>4, <2>1 DEF Shown
<1> QED BY <1>3, <1>4 DEF Shown

LEMMA LastPacketAppend ==
  ASSUME NEW S, NEW q \in Seq(S), NEW e \in S, NEW u, NEW v
  PROVE  /\ PacketConcerns(e, u) /\ PacketShows(e) = v => LastPacket(Append(q, e), u, v)
         /\ ~PacketConcerns(e, u) => (LastPacket(q, u, v) => LastPacket(Append(q, e), u, v))
         /\ ~PacketConcerns(e, u) /\ (\A i \in DOMAIN q : ~PacketConcerns(q[i], u))
              => \A i \in DOMAIN Append(q, e) : ~PacketConcerns(Append(q, e)[i], u)
<1> USE AppendElements
<1>1. Len(q) + 1 \in 1..(Len(q) + 1) /\ \A j \in 1..(Len(q) + 1) : ~(j > Len(q) + 1)
  OBVIOUS
<1>2. ASSUME PacketConcerns(e, u), PacketShows(e) = v
      PROVE  LastPacket(Append(q, e), u, v)
  <2>1. Append(q, e)[Len(q) + 1] = e /\ Len(q) + 1 \in DOMAIN Append(q, e)
    BY <1>1
  <2>2. \A j \in DOMAIN Append(q, e) : ~(j > Len(q) + 1)
    BY <1>1
  <2> QED BY <1>2, <2>1, <2>2 DEF LastPacket
<1>3. ASSUME NEW j \in 1..(Len(q) + 1)
      PROVE  (j = Len(q) + 1 /\ Append(q, e)[j] = e) \/ (j \in 1..Len(q) /\ Append(q, e)[j] = q[j])
  OBVIOUS
<1>4. ASSUME ~PacketConcerns(e, u), LastPacket(q, u, v)
      PROVE  LastPacket(Append(q, e), u, v)
  <2>1. PICK i \in 1..Len(q) : /\ PacketConcerns(q[i], u) /\ PacketShows(q[i]) = v
                               /\ \A j \in 1..Len(q) : j > i => ~PacketConcerns(q[j], u)
    BY <1>4 DEF LastPacket
  <2>2. i \in 1..(Len(q) + 1) /\ Append(q, e)[i] = q[i]
    OBVIOUS
  <2>3. \A j \in 1..(Len(q) + 1) : j > i => ~PacketConcerns(Append(q, e)[j], u)
    BY <1>3, <1>4, <2>1
  <2> QED BY <2>1, <2>2, <2>3 DEF LastPacket
<1>5. ASSUME ~PacketConcerns(e, u), \A i \in 1..Len(q) : ~PacketConcerns(q[i], u)
      PROVE  \A i \in 1..(Len(q) + 1) : ~PacketConcerns(Append(q, e)[i], u)
  BY <1>3, <1>5
<1> QED BY <1>2, <1>4, <1>5

LEMMA ComingAppend ==
  ASSUME NEW S, NEW q \in Seq(S), NEW e \in S, NEW d, NEW u, NEW old, NEW v
  PROVE  /\ PacketConcerns(e, u) /\ PacketShows(e) = v => Coming(Append(q, e), d, u, old, v)
         /\ ~PacketConcerns(e, u) => (Coming(q, d, u, old, v) => Coming(Append(q, e), d, u, old, v))
  BY LastPacketAppend DEF Coming

(* The agent is told of a packet in one step with its being read. *)
LEMMA ComingTail ==
  ASSUME NEW S, NEW q \in Seq(S), q # <<>>, NEW d, NEW d2, NEW u, NEW old, NEW v, Coming(q, d, u, old, v),
         PacketConcerns(Head(q), u) => Shown(d2, u, old, PacketShows(Head(q))),
         ~PacketConcerns(Head(q), u) => (Shown(d, u, old, v) => Shown(d2, u, old, v))
  PROVE  Coming(Tail(q), d2, u, old, v)
<1> USE TailElements
<1>1. ASSUME NEW j \in 1..Len(q), j > 1
      PROVE  j - 1 \in 1..(Len(q) - 1) /\ Tail(q)[j - 1] = q[j]
  BY <1>1
<1>2. ASSUME NEW j \in 1..(Len(q) - 1)
      PROVE  j + 1 \in 1..Len(q) /\ Tail(q)[j] = q[j + 1] /\ j + 1 > 1
  OBVIOUS
<1>3. ASSUME LastPacket(q, u, v)
      PROVE  Coming(Tail(q), d2, u, old, v)
  <2>1. PICK i \in 1..Len(q) : /\ PacketConcerns(q[i], u) /\ PacketShows(q[i]) = v
                               /\ \A j \in 1..Len(q) : j > i => ~PacketConcerns(q[j], u)
    BY <1>3 DEF LastPacket
  <2>2. CASE i = 1
    <3>1. Shown(d2, u, old, v)
      BY <2>1, <2>2
    <3>2. \A j \in 1..(Len(q) - 1) : ~PacketConcerns(Tail(q)[j], u)
      BY <1>2, <2>1, <2>2
    <3> QED BY <3>1, <3>2 DEF Coming
  <2>3. CASE i > 1
    <3>1. i - 1 \in 1..(Len(q) - 1) /\ PacketConcerns(Tail(q)[i - 1], u) /\ PacketShows(Tail(q)[i - 1]) = v
      BY <1>1, <2>1, <2>3
    <3>2. ASSUME NEW j \in 1..(Len(q) - 1), j > i - 1
          PROVE  ~PacketConcerns(Tail(q)[j], u)
      <4>1. j + 1 > i
        BY <3>2
      <4> QED BY <1>2, <2>1, <4>1
    <3>3. LastPacket(Tail(q), u, v)
      BY <3>1, <3>2 DEF LastPacket
    <3> QED BY <3>3 DEF Coming
  <2> QED BY <2>2, <2>3
<1>4. ASSUME \A i \in 1..Len(q) : ~PacketConcerns(q[i], u), Shown(d, u, old, v)
      PROVE  Coming(Tail(q), d2, u, old, v)
  <2>1. ~PacketConcerns(Head(q), u) /\ \A j \in 1..(Len(q) - 1) : ~PacketConcerns(Tail(q)[j], u)
    BY <1>2, <1>4, 1 \in 1..Len(q)
  <2> QED BY <1>4, <2>1 DEF Coming
<1> QED BY <1>3, <1>4 DEF Coming

LEMMA ComingThrough ==
  ASSUME NEW q, NEW d, NEW d2, NEW u, NEW old, NEW old2, NEW v
  PROVE  /\ (Shown(d, u, old, v) => Shown(d2, u, old2, v)) => (Coming(q, d, u, old, v) => Coming(q, d2, u, old2, v))
         /\ Coming(<<>>, d, u, old, v) <=> Shown(d, u, old, v)
  BY DEF Coming, LastPacket

-----------------------------------------------------------------------------
(* What a new connection finds. *)

LEMMA HeardLinked ==
  ASSUME Types, World, Heard
  PROVE  Linked
<1>1. sendq \in Seq(Outgoing) /\ socket = "up" /\ mode = "server" /\ GreetFirst(sendq)
  BY DEF Heard, Types, QueueTypes, CoreTypes, World
<1>2. CASE sendq = <<>>
  BY <1>1, <1>2 DEF Linked, Greeting
<1>3. CASE sendq # <<>>
  <2>1. ~Greeting(sendq)
    BY <1>1, <1>3, GreetFirstTail DEF Heard
  <2> QED BY <1>1, <2>1 DEF Linked
<1> QED BY <1>2, <1>3

(* Steps that change nothing World speaks of, but for the end of sendq and *)
(* packets taken away.                                                     *)
LEMMA WorldKept ==
  ASSUME Types, World, UNCHANGED <<mode, socket, charged, checks, inbox>>,
         mode = "server" => lookups' \subseteq lookups,
         \A u \in Users : started'[u] \in {started[u], NoPlace},
         sendq' = sendq \/ (mode = "server" /\ \E e \in Outgoing : ~Greets(e) /\ sendq' = Append(sendq, e))
  PROVE  World'
<1>1. sendq \in Seq(Outgoing)
  BY DEF Types, QueueTypes
<1>2. (Greeting(sendq') => Greeting(sendq)) /\ GreetFirst(sendq')
  <2>1. ASSUME NEW e \in Outgoing, ~Greets(e)
        PROVE  (Greeting(Append(sendq, e)) => Greeting(sendq)) /\ GreetFirst(Append(sendq, e))
    BY <1>1, <2>1, GreetingAppend, GreetFirstAppend DEF World
  <2> QED BY <2>1 DEF World
<1> QED BY <1>2 DEF World

LEMMA SendWorld ==
  ASSUME Types, World, Send
  PROVE  World'
<1>1. sendq' = Tail(sendq) /\ sendq \in Seq(Outgoing) /\ sendq # <<>> /\ socket = "up" /\ mode = "server"
  BY DEF Send, Types, QueueTypes, CoreTypes, World
<1>2. UNCHANGED <<mode, lookups, socket, started, checks>>
  BY DEF Send
<1>3. PICK p \in Outgoing : p = Head(sendq)
  BY <1>1, TailElements
<1>4. GreetFirst(sendq')
  BY <1>1, GreetFirstTail DEF World
<1>5. ASSUME Greeting(sendq')
      PROVE  inbox' = <<>> /\ \A u \in Users : started'[u] = NoPlace
  <2>1. Greeting(sendq)
    BY <1>1, <1>5, GreetingTail
  <2>2. Greets(p)
    BY <1>1, <1>3, <2>1, GreetFirstTail DEF World
  <2>3. inbox' = inbox
    BY <1>3, <2>2 DEF Send, Served, Greets
  <2> QED BY <1>1, <1>2, <2>1, <2>3 DEF World
<1> QED BY <1>1, <1>2, <1>4, <1>5 DEF World

LEMMA ConnectWorld ==
  ASSUME FiniteSystem, Types, BillingAssumption, World, Connect
  PROVE  World'
<1>1. UNCHANGED <<mode, lookups, charged>>
  BY DEF Connect
<1>2. CASE mode = "server" /\ Connected
  <2>1. sendq' = Reported(started) /\ started \in [Users -> AnyPlace]
    BY <1>2 DEF Connected, Reported, Types, CoreTypes
  <2>2. /\ sendq' \in Seq(Outgoing)
        /\ Len(sendq') >= 2 /\ sendq'[1] = Alone("conn") /\ sendq'[2] = Alone("reset")
        /\ \A i \in DOMAIN sendq' : i > 2 => \E u \in Users : sendq'[i] = Packet("start", u, started[u], TRUE)
    BY <2>1, ReportedPackets DEF FiniteSystem
  <2>3. DOMAIN sendq' = 1..Len(sendq') /\ Len(sendq') \in Nat
    BY <2>2
  <2>4. \A i \in DOMAIN sendq' : i > 2 => sendq'[i].type = "start"
    BY <2>2 DEF Packet
  <2>5. sendq'[1].type = "conn" /\ sendq'[2].type = "reset"
    BY <2>2 DEF Alone
  <2>6. \A i \in DOMAIN sendq' : i = 1 \/ i = 2 \/ i > 2
    BY <2>3
  <2>7. GreetFirst(sendq')
    BY <2>2, <2>4, <2>5, <2>6 DEF GreetFirst
  <2>8. inbox' = <<>> /\ \A u \in Users : started'[u] = NoPlace
    BY <1>2 DEF Connected
  <2> QED BY <1>1, <1>2, <2>7, <2>8 DEF World
<1>3. CASE ~(mode = "server" /\ Connected)
  <2>1. socket = "none" /\ socket' \in {"none", "invalid"} /\ UNCHANGED <<sendq, started, checks, inbox>>
    BY <1>3 DEF Connect
  <2> QED BY <1>1, <2>1 DEF World
<1> QED BY <1>2, <1>3

LEMMA WorldStep ==
  ASSUME FiniteSystem, Types, BillingAssumption, World, [Next]_vars
  PROVE  World'
<1>1. CASE UNCHANGED vars
  BY <1>1, WorldKept DEF vars
<1>2. CASE Connect
  BY <1>2, ConnectWorld
<1>3. CASE Send
  BY <1>3, SendWorld
<1>4. CASE SendFails
  <2>1. sendq \in Seq(Outgoing) /\ sendq # <<>> /\ socket = "broken" /\ mode = "server"
    BY <1>4 DEF SendFails, World, Types, QueueTypes, CoreTypes
  <2>2. GreetFirst(Tail(sendq))
    BY <2>1, GreetFirstTail DEF World
  <2>3. UNCHANGED <<mode, lookups, started, checks, inbox, charged>> /\ socket' \in {"broken", "none"}
        /\ sendq' \in {sendq, Tail(sendq)}
    BY <1>4 DEF SendFails, billing
  <2> QED BY <2>1, <2>2, <2>3 DEF World
<1>5. CASE Recv
  <2>1. inbox # <<>> /\ UNCHANGED <<mode, lookups, socket, sendq, charged>>
    BY <1>5 DEF Recv
  <2>2. socket = "up" /\ ~Greeting(sendq) /\ mode = "server"
    BY <2>1 DEF World, Types, CoreTypes
  <2> QED BY <2>1, <2>2 DEF World
<1>6. CASE Reset \/ Drops
  <2>1. inbox' = <<>> /\ UNCHANGED <<mode, lookups, sendq, started, checks, charged>> /\ socket' \in {"none", "broken"}
    BY <1>6 DEF Reset, Drops
  <2>2. mode = "database" => socket' = "none"
    BY <1>6 DEF Reset, Drops, World
  <2> QED BY <2>1, <2>2 DEF World
<1>7. ASSUME NEW x \in Users, Asks(x) \/ Alerts(x)
      PROVE  World'
  <2>1. Linked
    BY <1>7, HeardLinked DEF Asks, Alerts
  <2>2. UNCHANGED <<mode, lookups, socket, sendq, started, checks>>
    BY <1>7 DEF Asks, Alerts, connector
  <2> QED BY <2>1, <2>2 DEF World, Linked
<1>8. ASSUME NEW a \in Agents, FromAgent(a)
      PROVE  World'
  <2>1. PICK x \in Users :
             \/ GameEnd(x)
             \/ SucceedToCheck(x) /\ UNCHANGED <<started, muddled>>
             \/ FailToCheck(x) /\ UNCHANGED <<started, muddled>>
    <3>1. PICK m : m = Head(up[a]) /\ m.user \in Users
      BY <1>8, MessageTaken
    <3>2. \/ GameEnd(m.user)
          \/ SucceedToCheck(m.user) /\ UNCHANGED <<started, muddled>>
          \/ FailToCheck(m.user) /\ UNCHANGED <<started, muddled>>
      BY <1>8, <3>1 DEF FromAgent
    <3> QED BY <3>1, <3>2
  <2>2. UNCHANGED <<mode, socket, lookups, charged, inbox>>
    BY <1>8 DEF FromAgent, billing
  <2>3. started \in [Users -> AnyPlace] /\ checks \in [Users -> 0..(Cardinality(Agents) + Others) \cup {NoCheck}]
    BY DEF Types, CoreTypes
  <2>4. \A u \in Users : started'[u] \in {started[u], NoPlace}
    BY <2>1, <2>3 DEF GameEnd
  <2>5. CASE mode = "server"
    <3>1. sendq' = sendq \/ \E e \in Outgoing : ~Greets(e) /\ sendq' = Append(sendq, e)
      <4>1. started[x] \in AnyPlace
        BY <2>3
      <4>2. \A t \in {"end", "sync"}, ok \in BOOLEAN :
              Packet(t, x, started[x], ok) \in Outgoing /\ ~Greets(Packet(t, x, started[x], ok))
        BY <4>1, PacketTypes DEF Packet, Greets
      <4>3. sendq' = sendq \/ \E t \in {"end", "sync"}, ok \in BOOLEAN : sendq' = Append(sendq, Packet(t, x, started[x], ok))
        BY <2>1 DEF GameEnd, SucceedToCheck, FailToCheck
      <4> QED BY <4>2, <4>3
    <3>2. (Greeting(sendq') => Greeting(sendq)) /\ GreetFirst(sendq')
      <4>1. ASSUME NEW e \in Outgoing, ~Greets(e)
            PROVE  (Greeting(Append(sendq, e)) => Greeting(sendq)) /\ GreetFirst(Append(sendq, e))
        BY <4>1, GreetingAppend, GreetFirstAppend DEF World, Types, QueueTypes
      <4> QED BY <3>1, <4>1 DEF World
    <3> QED BY <2>2, <2>4, <2>5, <3>2 DEF World
  <2>6. CASE mode = "database"
    <3>1. started[x] = NoPlace /\ checks[x] = NoCheck
      BY <2>6 DEF World
    <3>2. sendq' = sendq
      BY <2>1, <3>1 DEF GameEnd, SucceedToCheck, FailToCheck
    <3>3. \A u \in Users : checks'[u] \in {checks[u], NoCheck}
      <4>1. CASE GameEnd(x)
        BY <2>3, <4>1 DEF GameEnd
      <4>2. CASE SucceedToCheck(x)
        BY <2>3, <3>1, <4>2 DEF SucceedToCheck
      <4>3. CASE FailToCheck(x)
        BY <2>3, <3>1, <4>3 DEF FailToCheck
      <4> QED BY <2>1, <4>1, <4>2, <4>3
    <3> QED BY <2>2, <2>4, <2>6, <3>2, <3>3 DEF World
  <2> QED BY <2>5, <2>6 DEF Types, CoreTypes
<1>9. ASSUME NEW a \in Agents, ToAgent(a) \/ AgentStops(a) \/ \E u \in Users : Leave(a, u)
      PROVE  World'
  <2>1. UNCHANGED <<mode, lookups, socket, sendq, started, checks, inbox, charged>>
    BY <1>9 DEF ToAgent, AgentStops, Leave, connector, billing
  <2> QED BY <2>1 DEF World
<1>10. ASSUME NEW a \in Agents, NEW u \in Users, NEW p \in Places, GameStart(u, a, p)
       PROVE  World'
  <2>1. UNCHANGED <<mode, socket, charged, checks, inbox, started>>
    BY <1>10 DEF GameStart, billing
  <2>2. mode = "server" => lookups' = lookups
    BY <1>10 DEF GameStart
  <2>3. Packet("start", u, p, TRUE) \in Outgoing /\ ~Greets(Packet("start", u, p, TRUE))
    BY PacketTypes DEF Packet, Greets
  <2>4. sendq' = sendq \/ (mode = "server" /\ sendq' = Append(sendq, Packet("start", u, p, TRUE)))
    BY <1>10 DEF GameStart, Types, CoreTypes
  <2> QED BY <2>1, <2>2, <2>3, <2>4, WorldKept
<1>11. ASSUME NEW q \in lookups, RGameRoomData(q)
       PROVE  World'
  BY <1>11, WorldKept DEF RGameRoomData, billing
<1> QED BY <1>1, <1>2, <1>3, <1>4, <1>5, <1>6, <1>7, <1>8, <1>9, <1>10, <1>11 DEF Next, Process

-----------------------------------------------------------------------------
(* Logins and logouts: no more of them than before. *)

(* A queue lost a packet, or got one that is no login and no logout of u. *)
KeptFor(q, r, u) ==
  /\ Names(r, "start", u) => Names(q, "start", u)
  /\ OneStart(q, u) => OneStart(r, u)
  /\ EndCovered(q, u) => EndCovered(r, u)
  /\ \A p : StartsFrom(q, u, p) => StartsFrom(r, u, p)

LEMMA KeptTail ==
  ASSUME NEW S, NEW q \in Seq(S), q # <<>>, NEW u
  PROVE  KeptFor(q, Tail(q), u)
  BY NamesInTail, OneStartTail, EndCoveredTail, StartsFromTail DEF KeptFor

LEMMA KeptAppend ==
  ASSUME NEW S, NEW q \in Seq(S), NEW e \in S, NEW u, e.type \in {"start", "end"} => e.user # u
  PROVE  KeptFor(q, Append(q, e), u)
  BY NamesInAppend, OneStartAppend, EndCoveredAppend, StartsFromAppend DEF KeptFor

LEMMA KeptEmpty ==
  ASSUME NEW q, NEW u
  PROVE  KeptFor(q, <<>>, u) /\ KeptFor(q, q, u)
  BY EmptyTells DEF KeptFor, OneStart, EndCovered, StartsFrom

LEMMA HeededKept ==
  ASSUME NEW u, Heeded(u), KeptFor(sendq, sendq', u), KeptFor(inbox, inbox', u), started'[u] = started[u],
         Online(u)' <=> Online(u), Online(u) => place'[u] = place[u], Stopping(u)' <=> Stopping(u)
  PROVE  Heeded(u)'
  BY DEF Heeded, KeptFor, Starting

(* What is not known of a player stays unknown. *)
LEMMA SoundBefore ==
  ASSUME NEW u, muddled \subseteq muddled', mixed \subseteq mixed', Sound(u)'
  PROVE  Sound(u)
  BY DEF Sound

LEMMA UnknownStays ==
  ASSUME [Next]_vars
  PROVE  muddled \subseteq muddled' /\ mixed \subseteq mixed'
<1>1. CASE UNCHANGED vars
  BY <1>1 DEF vars
<1>2. CASE Connect
  BY <1>2 DEF Connect, Connected
<1>3. CASE Send
  BY <1>3 DEF Send
<1>4. CASE Recv
  BY <1>4 DEF Recv, Receive, ReceiveDenied, ReceiveSync, ReceiveAlert, Mixes
<1>5. CASE SendFails
  BY <1>5 DEF SendFails
<1>6. CASE Reset \/ Drops
  BY <1>6 DEF Reset, Drops
<1>7. ASSUME NEW u \in Users, Asks(u) \/ Alerts(u)
      PROVE  muddled \subseteq muddled' /\ mixed \subseteq mixed'
  BY <1>7 DEF Asks, Alerts, Mixes
<1>8. ASSUME NEW a \in Agents, FromAgent(a)
      PROVE  muddled \subseteq muddled' /\ mixed \subseteq mixed'
  <2>1. PICK x : \/ GameEnd(x)
                 \/ UNCHANGED <<started, muddled>>
    BY <1>8 DEF FromAgent
  <2>2. mixed' = mixed
    BY <1>8 DEF FromAgent
  <2> QED BY <2>1, <2>2 DEF GameEnd
<1>9. ASSUME NEW a \in Agents, ToAgent(a) \/ AgentStops(a)
      PROVE  muddled \subseteq muddled' /\ mixed \subseteq mixed'
  BY <1>9 DEF ToAgent, AgentStops
<1>10. ASSUME NEW a \in Agents, NEW u \in Users, Leave(a, u) \/ \E p \in Places : GameStart(u, a, p)
       PROVE  muddled \subseteq muddled' /\ mixed \subseteq mixed'
  BY <1>10 DEF Leave, GameStart, Mixes
<1>11. ASSUME NEW q \in lookups, RGameRoomData(q)
       PROVE  muddled \subseteq muddled' /\ mixed \subseteq mixed'
  BY <1>11 DEF RGameRoomData
<1> QED BY <1>1, <1>2, <1>3, <1>4, <1>5, <1>6, <1>7, <1>8, <1>9, <1>10, <1>11 DEF Next, Process

(* Who is in the game, and who has left without its having been heard. *)
LEMMA SamePlayers ==
  ASSUME UNCHANGED <<online, place, up>>, NEW u
  PROVE  (Online(u)' <=> Online(u)) /\ place'[u] = place[u] /\ (Stopping(u)' <=> Stopping(u))
  BY DEF Online, Stopping

LEMMA SendLogins ==
  ASSUME Types, World, LoginInv, Send
  PROVE  LoginInv'
<1>1. sendq' = Tail(sendq) /\ sendq \in Seq(Outgoing) /\ sendq # <<>> /\ inbox \in Seq(Incoming)
  BY DEF Send, Types, QueueTypes
<1>2. UNCHANGED <<started, online, place, up, muddled, mixed>>
  BY DEF Send, players
<1>3. PICK p \in Outgoing : p = Head(sendq)
  BY <1>1, TailElements
<1>4. PICK ok \in BOOLEAN : Served(p, ok)
  BY <1>3 DEF Send, Grants
<1>5. ASSUME NEW u \in Users, Sound(u)'
      PROVE  Heeded(u)'
  <2>1. Heeded(u)
    BY <1>2, <1>5 DEF LoginInv, Sound
  <2>2. KeptFor(sendq, sendq', u)
    BY <1>1, KeptTail
  <2>3. /\ Online(u)' <=> Online(u)
        /\ place'[u] = place[u] /\ (Stopping(u)' <=> Stopping(u)) /\ started'[u] = started[u]
    BY <1>2, SamePlayers
  <2>4. CASE p.type = "start"
    <3>1. p \in Starts /\ inbox' = Append(inbox, [p EXCEPT !.ok = ok])
      BY <1>4, <2>4 DEF Served, Outgoing
    <3>2. PICK e \in Incoming : inbox' = Append(inbox, e) /\ e.type = "start" /\ e.user = p.user /\ e.place = p.place
      BY <3>1 DEF Incoming, Starts
    <3>3. CASE p.user # u
      <4>1. KeptFor(inbox, inbox', u)
        BY <1>1, <3>2, <3>3, KeptAppend
      <4> QED BY <2>1, <2>2, <2>3, <4>1, HeededKept
    <3>4. CASE p.user = u
      <4>1. Names(sendq, "start", u) /\ ~Names(sendq', "start", u) /\ ~Names(inbox, "start", u)
        <5>1. Names(sendq, "start", u)
          BY <1>1, <1>3, <2>4, <3>4, NamesInTail
        <5>2. ~Names(sendq', "start", u)
          BY <1>1, <1>3, <2>1, <2>4, <3>4, OneStartTail DEF Heeded
        <5> QED BY <2>1, <5>1, <5>2 DEF Heeded
      <4>2. OneStart(inbox', u) /\ OneStart(sendq', u)
        BY <1>1, <2>1, <2>2, <3>2, <4>1, OneStartAppend DEF Heeded, KeptFor
      <4>3. Names(inbox', "start", u) /\ Starting(u)
        BY <1>1, <3>2, <3>4, <4>1, NamesInAppend DEF Starting
      <4>4. \A v : StartsFrom(sendq, u, v) /\ StartsFrom(inbox, u, v) => StartsFrom(sendq', u, v) /\ StartsFrom(inbox', u, v)
        <5> SUFFICES ASSUME NEW v, StartsFrom(sendq, u, v), StartsFrom(inbox, u, v)
                     PROVE  StartsFrom(sendq', u, v) /\ StartsFrom(inbox', u, v)
          OBVIOUS
        <5>1. p.place = v
          BY <1>1, <1>3, <2>4, <3>4, StartsFromTail
        <5>2. StartsFrom(sendq', u, v)
          BY <2>2 DEF KeptFor
        <5>3. StartsFrom(inbox', u, v)
          BY <1>1, <3>2, <5>1, StartsFromAppend
        <5> QED BY <5>2, <5>3
      <4>5. EndCovered(sendq, u) => EndCovered(sendq', u)
        BY <2>2 DEF KeptFor
      <4> QED BY <2>1, <2>3, <4>1, <4>2, <4>3, <4>4, <4>5 DEF Heeded
    <3> QED BY <3>3, <3>4
  <2>5. CASE p.type # "start"
    <3>1. inbox' = inbox
      BY <1>4, <2>5 DEF Served, Outgoing, Starts
    <3> QED BY <2>1, <2>2, <2>3, <3>1, KeptEmpty, HeededKept
  <2> QED BY <2>4, <2>5
<1> QED BY <1>5 DEF LoginInv

LEMMA ConnectLogins ==
  ASSUME FiniteSystem, Types, BillingAssumption, World, LoginInv, Connect
  PROVE  LoginInv'
<1>1. UNCHANGED <<online, place, up, mixed>> /\ socket = "none"
  BY DEF Connect, players
<1>2. inbox = <<>>
  BY <1>1 DEF World
<1>3. CASE mode = "server" /\ Connected
  <2>1. sendq' = Reported(started) /\ started \in [Users -> AnyPlace]
    BY <1>3 DEF Connected, Reported, Types, CoreTypes
  <2>2. /\ sendq' \in Seq(Outgoing)
        /\ Len(sendq') >= 2 /\ sendq'[1] = Alone("conn") /\ sendq'[2] = Alone("reset")
        /\ \A i \in DOMAIN sendq' : i > 2 =>
             \E u \in Users : started[u] # NoPlace /\ sendq'[i] = Packet("start", u, started[u], TRUE)
        /\ \A i, j \in DOMAIN sendq' : i > 2 /\ j > 2 /\ sendq'[i].user = sendq'[j].user => i = j
    BY <2>1, ReportedPackets DEF FiniteSystem
  <2>3. DOMAIN sendq' = 1..Len(sendq') /\ Len(sendq') \in Nat
    BY <2>2
  <2>4. sendq'[1].type = "conn" /\ sendq'[2].type = "reset"
    BY <2>2 DEF Alone
  <2>5. ASSUME NEW i \in DOMAIN sendq', sendq'[i].type \notin {"conn", "reset"}
        PROVE  /\ i > 2 /\ sendq'[i].type = "start" /\ sendq'[i].place = started[sendq'[i].user]
               /\ started[sendq'[i].user] # NoPlace
    <3>1. i > 2
      BY <2>3, <2>4, <2>5
    <3>2. PICK x \in Users : started[x] # NoPlace /\ sendq'[i] = Packet("start", x, started[x], TRUE)
      BY <2>2, <3>1
    <3>3. sendq'[i].user = x /\ sendq'[i].type = "start" /\ sendq'[i].place = started[x]
      BY <3>2 DEF Packet
    <3> QED BY <3>1, <3>2, <3>3
  <2>6. ASSUME NEW u \in Users, Sound(u)'
        PROVE  Heeded(u)'
    <3>1. ~Names(sendq, "start", u) /\ Sound(u)
      BY <1>1, <1>3, <2>6, StartsAreNames DEF Connected, Sound
    <3>2. ~Starting(u) /\ Heeded(u)
      BY <1>2, <2>6, <3>1, EmptyTells DEF Starting, LoginInv
    <3>3. OneStart(sendq', u)
      BY <2>2, <2>5 DEF OneStart
    <3>4. EndCovered(sendq', u)
      BY <2>5 DEF EndCovered
    <3>5. Names(sendq', "start", u) => started[u] # NoPlace
      BY <2>5 DEF Names
    <3>6. \A v : started[u] \in {v, NoPlace} => StartsFrom(sendq', u, v)
      <4> SUFFICES ASSUME NEW v, started[u] \in {v, NoPlace}, NEW i \in DOMAIN sendq', sendq'[i].type = "start",
                          sendq'[i].user = u
                   PROVE  sendq'[i].place = v
        BY DEF StartsFrom
      <4> QED BY <2>5
    <3>7. inbox' = <<>> /\ started'[u] = NoPlace
      BY <1>3, <2>6 DEF Connected
    <3>8. OneStart(<<>>, u) /\ ~Names(<<>>, "start", u) /\ \A v : StartsFrom(<<>>, u, v)
      BY DEF OneStart, Names, StartsFrom
    <3>9. (Online(u)' <=> Online(u)) /\ place'[u] = place[u] /\ (Stopping(u)' <=> Stopping(u))
      BY <1>1, SamePlayers
    <3>10. ~Online(u) => Stopping(u) \/ (~Names(sendq', "start", u) /\ started[u] = NoPlace)
      BY <3>2, <3>5 DEF Heeded
    <3>11. Online(u) => ~Stopping(u) /\ StartsFrom(sendq', u, place[u])
      BY <3>2, <3>6 DEF Heeded
    <3> QED BY <3>3, <3>4, <3>7, <3>8, <3>9, <3>10, <3>11 DEF Heeded, Starting
  <2> QED BY <2>6 DEF LoginInv
<1>4. CASE ~(mode = "server" /\ Connected)
  <2>1. UNCHANGED <<sendq, started, muddled, inbox>>
    BY <1>4 DEF Connect
  <2>2. ASSUME NEW u \in Users, Sound(u)'
        PROVE  Heeded(u)'
    <3>1. Heeded(u)
      BY <1>1, <2>1, <2>2 DEF LoginInv, Sound
    <3> QED BY <1>1, <2>1, <3>1, SamePlayers, KeptEmpty, HeededKept
  <2> QED BY <2>2 DEF LoginInv
<1> QED BY <1>3, <1>4

(* What a packet does to the players known to the billing server. *)
LEMMA ReceiveStarted ==
  ASSUME Types, NEW p \in Incoming, Receive(p)
  PROVE  /\ p.type = "start" /\ p.ok => started' = [started EXCEPT ![p.user] = p.place]
         /\ ~(p.type = "start" /\ p.ok) => started' = started
  BY DEF Receive, ReceiveDenied, ReceiveSync, ReceiveAlert

LEMMA RecvLogins ==
  ASSUME Types, World, LoginInv, MaxRead = 1, Recv
  PROVE  LoginInv'
<1>1. inbox \in Seq(Incoming) /\ inbox # <<>> /\ inbox' = Tail(inbox) /\ Receive(Head(inbox))
  BY RecvOne
<1>2. PICK p \in Incoming : p = Head(inbox)
  BY <1>1, TailElements
<1>3. UNCHANGED <<sendq, online, place, up>>
  BY DEF Recv, players
<1>4. muddled \subseteq muddled' /\ mixed \subseteq mixed'
  BY UnknownStays DEF Next, Process
<1>5. ASSUME NEW u \in Users, Sound(u)'
      PROVE  Heeded(u)'
  <2>1. Heeded(u)
    BY <1>4, <1>5, SoundBefore DEF LoginInv
  <2>2. KeptFor(inbox, inbox', u) /\ KeptFor(sendq, sendq', u)
    BY <1>1, <1>3, KeptTail, KeptEmpty
  <2>3. (Online(u)' <=> Online(u)) /\ place'[u] = place[u] /\ (Stopping(u)' <=> Stopping(u))
    BY <1>3, SamePlayers
  <2>4. CASE p.type = "start" /\ p.user = u /\ p.ok
    <3>1. started'[u] = p.place
      <4>1. started' = [started EXCEPT ![u] = p.place]
        BY <1>1, <1>2, <2>4, ReceiveStarted
      <4> QED BY <4>1 DEF Types, CoreTypes
    <3>2. Names(inbox, "start", u) /\ ~Names(inbox', "start", u) /\ ~Names(sendq, "start", u)
      <4>1. Names(inbox, "start", u)
        BY <1>1, <1>2, <2>4, NamesInTail
      <4>2. ~Names(inbox', "start", u)
        BY <1>1, <1>2, <2>1, <2>4, OneStartTail DEF Heeded
      <4> QED BY <2>1, <4>1, <4>2 DEF Heeded
    <3>3. ~Starting(u)' /\ Starting(u)
      BY <1>3, <3>2 DEF Starting
    <3>4. StartsFrom(inbox, u, place[u]) => p.place = place[u]
      BY <1>1, <1>2, <2>4, StartsFromTail
    <3> QED BY <1>3, <2>1, <2>2, <2>3, <3>1, <3>2, <3>3, <3>4 DEF Heeded, KeptFor
  <2>5. CASE ~(p.type = "start" /\ p.user = u /\ p.ok)
    <3>1. started'[u] = started[u]
      <4>1. started \in [Users -> AnyPlace]
        BY DEF Types, CoreTypes
      <4>2. CASE p.type = "start" /\ p.ok
        BY <1>1, <1>2, <2>5, <4>1, <4>2, ReceiveStarted
      <4>3. CASE ~(p.type = "start" /\ p.ok)
        BY <1>1, <1>2, <4>3, ReceiveStarted
      <4> QED BY <4>2, <4>3
    <3> QED BY <2>1, <2>2, <2>3, <3>1, HeededKept
  <2> QED BY <2>4, <2>5
<1> QED BY <1>5 DEF LoginInv

LEMMA FromAgentLogins ==
  ASSUME Types, World, LoginInv, NEW a \in Agents, FromAgent(a)
  PROVE  LoginInv'
<1>0. PICK msg \in UpNotes :
      /\ msg = Head(up[a]) /\ msg.user \in Users
      /\ \A b \in Agents : b # a => up'[b] = up[b]
      /\ \A k, u : Tells(up[a], k, u) <=> Tells(up'[a], k, u) \/ (msg.kind = k /\ msg.user = u)
  BY MessageTaken
<1>1. PICK x \in Users : x = msg.user
  BY <1>0
<1>2. \/ msg.kind = "stop" /\ GameEnd(x)
      \/ msg.kind = "check_ack" /\ SucceedToCheck(x) /\ UNCHANGED <<started, muddled>>
      \/ msg.kind = "check_nack" /\ FailToCheck(x) /\ UNCHANGED <<started, muddled>>
  BY <1>0, <1>1 DEF FromAgent
<1>3. UNCHANGED <<inbox, online, place, mixed>>
  BY DEF FromAgent, players, billing
<1>4. sendq \in Seq(Outgoing) /\ started \in [Users -> AnyPlace]
  BY DEF Types, CoreTypes, QueueTypes
<1>5. \A t \in {"end", "sync"}, ok \in BOOLEAN :
        /\ Packet(t, x, started[x], ok) \in Outgoing
        /\ Packet(t, x, started[x], ok).type = t /\ Packet(t, x, started[x], ok).user = x
  <2>1. started[x] \in AnyPlace
    BY <1>4
  <2> QED BY <2>1, PacketTypes DEF Packet
<1>6. sendq' = sendq \/ \E e \in Outgoing :
          sendq' = Append(sendq, e) /\ e.user = x /\ (e.type = "sync" \/ (e.type = "end" /\ msg.kind = "stop"))
  <2>1. \/ sendq' = sendq
        \/ msg.kind = "stop" /\ sendq' = Append(sendq, Packet("end", x, started[x], TRUE))
        \/ \E ok \in BOOLEAN : sendq' = Append(sendq, Packet("sync", x, started[x], ok))
    BY <1>2 DEF GameEnd, SucceedToCheck, FailToCheck
  <2> QED BY <1>5, <2>1
<1>7. muddled \subseteq muddled'
  BY <1>2 DEF GameEnd
<1>8. ASSUME NEW u \in Users, Sound(u)', ~(msg.kind = "stop" /\ x = u)
      PROVE  Heeded(u)'
  <2>1. Heeded(u)
    BY <1>3, <1>7, <1>8, SoundBefore DEF LoginInv
  <2>2. KeptFor(sendq, sendq', u)
    <3>1. ASSUME NEW e \in Outgoing, sendq' = Append(sendq, e), e.user = x,
                 e.type = "sync" \/ (e.type = "end" /\ msg.kind = "stop")
          PROVE  KeptFor(sendq, sendq', u)
      <4>1. e.type \in {"start", "end"} => e.user # u
        BY <1>8, <3>1
      <4> QED BY <1>4, <3>1, <4>1, KeptAppend
    <3> QED BY <1>6, <3>1, KeptEmpty
  <2>3. started'[u] = started[u]
    BY <1>2, <1>4, <1>8 DEF GameEnd
  <2>4. \A b \in Agents : Tells(up'[b], "stop", u) <=> Tells(up[b], "stop", u)
    BY <1>0, <1>1, <1>8
  <2>5. (Online(u)' <=> Online(u)) /\ place'[u] = place[u] /\ (Stopping(u)' <=> Stopping(u))
    BY <1>3, <2>4 DEF Online, Stopping
  <2> QED BY <1>3, <2>1, <2>2, <2>3, <2>5, KeptEmpty, HeededKept
<1>9. ASSUME Sound(x)', msg.kind = "stop"
      PROVE  Heeded(x)'
  <2>1. Heeded(x)
    BY <1>3, <1>7, <1>9, SoundBefore DEF LoginInv
  <2>2. Stopping(x)
    BY <1>0, <1>1, <1>9 DEF Stopping
  <2>3. ~Online(x)
    BY <2>1, <2>2 DEF Heeded
  <2>4. ~Starting(x)
    <3>1. CASE started[x] = NoPlace
      BY <1>2, <1>9, <3>1, StartsAreNames DEF GameEnd, Sound, Starting
    <3>2. CASE started[x] # NoPlace
      BY <2>1, <3>2 DEF Heeded
    <3> QED BY <3>1, <3>2
  <2>5. started'[x] = NoPlace
    BY <1>2, <1>4, <1>9 DEF GameEnd
  <2>6. ~Names(sendq', "start", x) /\ OneStart(sendq', x)
    <3>1. \A e \in Outgoing : e.type # "start" => ~Names(Append(sendq, e), "start", x)
      BY <1>4, <2>4, NamesInAppend DEF Starting
    <3>2. ~Names(sendq', "start", x)
      BY <1>6, <2>4, <3>1 DEF Starting
    <3> QED BY <3>2, NoStartsFrom
  <2>7. ~Online(x)'
    BY <1>3, <2>3 DEF Online
  <2>8. ~Names(inbox', "start", x) /\ OneStart(inbox', x)
    BY <1>3, <2>1, <2>4 DEF Starting, Heeded
  <2> QED BY <2>5, <2>6, <2>7, <2>8 DEF Heeded, Starting
<1>10. \A u \in Users : Sound(u)' => Heeded(u)'
  BY <1>8, <1>9
<1> QED BY <1>10 DEF LoginInv

(* The messages of agents about those who leave. *)
LEMMA LeaveStops ==
  ASSUME Types, SearchInv, NEW a \in Agents, NEW x \in Users, Leave(a, x)
  PROVE  /\ Stopping(x)' /\ ~Online(x)' /\ Online(x)
         /\ \A u : u # x => (Stopping(u)' <=> Stopping(u)) /\ (Online(u)' <=> Online(u)) /\ place'[u] = place[u]
         /\ \A b \in Agents : \A u : u \in online'[b] => u \in online[b] /\ u # x
<1>1. up \in [Agents -> Seq(UpNotes)] /\ online \in [Agents -> SUBSET Users] /\ place \in [Users -> AnyPlace]
  BY DEF Types, QueueTypes, PlayerTypes
<1>2. PICK n \in UpNotes : n = Note("stop", x, NoPlace) /\ n.kind = "stop" /\ n.user = x
  BY NoteTypes, NotePart, NoPlaceType
<1>3. up' = [up EXCEPT ![a] = Append(@, n)] /\ online' = [online EXCEPT ![a] = @ \ {x}]
      /\ place' = [place EXCEPT ![x] = NoPlace] /\ x \in online[a]
  BY <1>2 DEF Leave
<1>4. \A k, u : Tells(Append(up[a], n), k, u) <=> Tells(up[a], k, u) \/ (n.kind = k /\ n.user = u)
  <2>1. up[a] \in Seq(UpNotes)
    BY <1>1
  <2> QED BY <2>1, TellsInAppend
<1>5. up'[a] = Append(up[a], n) /\ \A b \in Agents : b # a => up'[b] = up[b]
  BY <1>1, <1>3
<1>6. \A b \in Agents : online'[b] = IF b = a THEN online[a] \ {x} ELSE online[b]
  BY <1>1, <1>3
<1>7. \A b \in Agents : \A u : u \in online'[b] => u \in online[b] /\ u # x
  BY <1>3, <1>6 DEF SearchInv, OneAtATime
<1>8. \A u : u # x => (Online(u)' <=> Online(u))
  BY <1>6 DEF Online
<1>9. ~Online(x)' /\ Online(x)
  BY <1>3, <1>7 DEF Online
<1>10. Stopping(x)' /\ \A u : u # x => (Stopping(u)' <=> Stopping(u))
  BY <1>2, <1>4, <1>5 DEF Stopping
<1>11. \A u : u # x => place'[u] = place[u]
  BY <1>1, <1>3
<1> QED BY <1>7, <1>8, <1>9, <1>10, <1>11

LEMMA LeaveLogins ==
  ASSUME Types, SearchInv, LoginInv, NEW a \in Agents, NEW x \in Users, Leave(a, x)
  PROVE  LoginInv'
<1>1. UNCHANGED <<sendq, inbox, started, muddled, mixed>>
  BY DEF Leave, connector, billing
<1>2. ASSUME NEW u \in Users, Sound(u)'
      PROVE  Heeded(u)'
  <2>1. Heeded(u)
    BY <1>1, <1>2 DEF LoginInv, Sound
  <2>2. CASE u = x
    <3>1. Stopping(u)' /\ ~Online(u)'
      BY <2>2, LeaveStops
    <3> QED BY <1>1, <2>1, <3>1 DEF Heeded, Starting
  <2>3. CASE u # x
    <3>1. (Stopping(u)' <=> Stopping(u)) /\ (Online(u)' <=> Online(u)) /\ place'[u] = place[u]
      BY <2>3, LeaveStops
    <3> QED BY <1>1, <2>1, <3>1, KeptEmpty, HeededKept
  <2> QED BY <2>2, <2>3
<1> QED BY <1>2 DEF LoginInv

LEMMA GameStartLogins ==
  ASSUME Types, BillingAssumption, World, LoginInv, NEW a \in Agents, NEW x \in Users, NEW p \in Places, GameStart(x, a, p)
  PROVE  LoginInv'
<1>1. UNCHANGED <<inbox, started, up>> /\ muddled \subseteq muddled' /\ mixed \subseteq mixed'
  BY DEF GameStart, Mixes, billing
<1>2. /\ online' = [online EXCEPT ![a] = @ \cup {x}] /\ place' = [place EXCEPT ![x] = p]
      /\ online \in [Agents -> SUBSET Users] /\ place \in [Users -> AnyPlace] /\ ~Online(x)
  BY DEF GameStart, Types, PlayerTypes
<1>3. PICK e \in Outgoing : e = Packet("start", x, p, TRUE) /\ e.type = "start" /\ e.user = x /\ e.place = p
  BY PacketTypes DEF Packet
<1>4. sendq \in Seq(Outgoing) /\ sendq' \in {sendq, Append(sendq, e)}
  BY <1>3 DEF GameStart, Types, QueueTypes
<1>5. \A u : Stopping(u)' <=> Stopping(u)
  BY <1>1 DEF Stopping
<1>6. ASSUME NEW u \in Users, Sound(u)', u # x
      PROVE  Heeded(u)'
  <2>1. Heeded(u)
    BY <1>1, <1>6, SoundBefore DEF LoginInv
  <2>2. (Online(u)' <=> Online(u)) /\ place'[u] = place[u]
    BY <1>2, <1>6 DEF Online
  <2>3. KeptFor(sendq, sendq', u)
    <3>1. KeptFor(sendq, Append(sendq, e), u)
      BY <1>3, <1>4, <1>6, KeptAppend
    <3>2. KeptFor(sendq, sendq, u)
      BY KeptEmpty
    <3> QED BY <1>4, <3>1, <3>2
  <2> QED BY <1>1, <1>5, <2>1, <2>2, <2>3, KeptEmpty, HeededKept
<1>7. ASSUME Sound(x)'
      PROVE  Heeded(x)'
  <2>1. Heeded(x)
    BY <1>1, <1>7, SoundBefore DEF LoginInv
  <2>2. x \notin muddled'
    BY <1>7 DEF Sound
  <2>3. \A b \in Agents : ~Tells(up[b], "stop", x)
    BY <2>2, NamedAreTells DEF GameStart
  <2>4. ~Stopping(x)
    BY <2>3 DEF Stopping
  <2>5. ~Starting(x) /\ started[x] = NoPlace
    BY <1>2, <2>1, <2>4 DEF Heeded
  <2>6. place'[x] = p
    BY <1>2
  <2>7. OneStart(sendq', x) /\ StartsFrom(sendq', x, p)
    <3>1. StartsFrom(sendq, x, p) /\ OneStart(sendq, x) /\ ~Names(sendq, "start", x)
      BY <2>5, NoStartsFrom DEF Starting
    <3>2. OneStart(Append(sendq, e), x)
      BY <1>4, <3>1, OneStartAppend
    <3>3. StartsFrom(Append(sendq, e), x, p)
      BY <1>3, <1>4, <3>1, StartsFromAppend
    <3> QED BY <1>4, <3>1, <3>2, <3>3
  <2>8. EndCovered(sendq', x)
    <3>1. CASE mode = "database"
      <4>1. sendq' = <<>>
        BY <3>1 DEF GameStart, World
      <4> QED BY <4>1 DEF EndCovered
    <3>2. CASE mode = "server"
      <4>1. sendq' = Append(sendq, e)
        BY <1>3, <2>2, <3>2 DEF GameStart
      <4> QED BY <1>3, <1>4, <4>1, EndCoveredAppend
    <3> QED BY <3>1, <3>2 DEF Types, CoreTypes
  <2>9. OneStart(inbox', x) /\ StartsFrom(inbox', x, p) /\ ~Names(inbox', "start", x)
    BY <1>1, <2>5, NoStartsFrom DEF Starting
  <2>10. Online(x)'
    BY <1>2 DEF Online
  <2>11. ~Stopping(x)' /\ started'[x] = NoPlace
    BY <1>1, <1>5, <2>4, <2>5
  <2> QED BY <2>6, <2>7, <2>8, <2>9, <2>10, <2>11 DEF Heeded
<1>8. \A u \in Users : Sound(u)' => Heeded(u)'
  BY <1>6, <1>7
<1> QED BY <1>8 DEF LoginInv

(* An agent tells of nobody's leaving but in Leave. *)
LEMMA NoStopTold ==
  ASSUME Types, NEW a \in Agents, ToAgent(a) \/ AgentStops(a), NEW b \in Agents, NEW u
  PROVE  Tells(up'[b], "stop", u) <=> Tells(up[b], "stop", u)
<1>0. up \in [Agents -> Seq(UpNotes)]
  BY DEF Types, QueueTypes
<1>1. CASE up' = up
  BY <1>1
<1>2. CASE up' # up
  <2>1. PICK m \in DownNotes : m = Head(down[a]) /\ m.user \in Users
    <3>1. down[a] \in Seq(DownNotes) /\ down[a] # <<>>
      BY <1>2 DEF Types, QueueTypes, ToAgent, AgentStops
    <3>2. Head(down[a]) \in DownNotes
      BY <3>1, TailElements
    <3> QED BY <3>2 DEF DownNotes
  <2>2. \E k \in {"check_ack", "check_nack"} : up' = [up EXCEPT ![a] = Append(@, Note(k, m.user, NoPlace))]
    BY <1>2, <2>1 DEF ToAgent, AgentStops
  <2>3. PICK e \in UpNotes : e.kind # "stop" /\ up' = [up EXCEPT ![a] = Append(@, e)]
    BY <2>1, <2>2, NoteTypes, NotePart, NoPlaceType
  <2>4. \A v : Tells(Append(up[a], e), "stop", v) <=> Tells(up[a], "stop", v)
    <3>1. up[a] \in Seq(UpNotes)
      BY <1>0
    <3> QED BY <2>3, <3>1, TellsInAppend
  <2>5. \A c \in Agents : up'[c] = IF c = a THEN Append(up[a], e) ELSE up[c]
    BY <1>0, <2>3
  <2> QED BY <2>4, <2>5
<1> QED BY <1>1, <1>2

LEMMA AgentLogins ==
  ASSUME Types, LoginInv, NEW a \in Agents, ToAgent(a) \/ AgentStops(a)
  PROVE  LoginInv'
<1>1. UNCHANGED <<sendq, inbox, started, mixed>> /\ muddled \subseteq muddled'
  BY DEF ToAgent, AgentStops, connector, billing
<1>2. online \in [Agents -> SUBSET Users]
  BY DEF Types, PlayerTypes
<1>3. \A b \in Agents : \A u : Tells(up'[b], "stop", u) <=> Tells(up[b], "stop", u)
  BY NoStopTold
<1>4. ASSUME NEW u \in Users, Sound(u)'
      PROVE  Heeded(u)'
  <2>1. Heeded(u)
    BY <1>1, <1>4, SoundBefore DEF LoginInv
  <2>2. (Online(u)' <=> Online(u)) /\ place'[u] = place[u]
    <3>1. CASE ToAgent(a)
      BY <3>1 DEF ToAgent, Online
    <3>2. CASE AgentStops(a)
      <4>1. u \notin online[a] /\ \A b \in Agents : online'[b] = IF b = a THEN {} ELSE online[b]
        BY <1>2, <1>4, <3>2 DEF AgentStops, Sound
      <4> QED BY <3>2, <4>1 DEF AgentStops, Online
    <3> QED BY <3>1, <3>2
  <2>3. Stopping(u)' <=> Stopping(u)
    BY <1>3 DEF Stopping
  <2> QED BY <1>1, <2>1, <2>2, <2>3, KeptEmpty, HeededKept
<1> QED BY <1>4 DEF LoginInv

LEMMA RestLogins ==
  ASSUME Types, LoginInv,
         SendFails \/ Reset \/ Drops \/ (\E x \in Users : Asks(x) \/ Alerts(x)) \/ (\E q \in lookups : RGameRoomData(q))
  PROVE  LoginInv'
<1>1. UNCHANGED <<started, online, place, up>>
  BY DEF SendFails, Reset, Drops, Asks, Alerts, RGameRoomData, players, connector, billing
<1>2. muddled \subseteq muddled' /\ mixed \subseteq mixed'
  BY UnknownStays DEF Next, Process
<1>3. sendq \in Seq(Outgoing) /\ inbox \in Seq(Incoming)
  BY DEF Types, QueueTypes
<1>4. ASSUME NEW u
      PROVE  KeptFor(sendq, sendq', u)
  <2>1. CASE SendFails
    <3>1. sendq' \in {sendq, Tail(sendq)} /\ sendq # <<>>
      BY <2>1 DEF SendFails
    <3>2. KeptFor(sendq, Tail(sendq), u)
      BY <1>3, <3>1, KeptTail
    <3>3. KeptFor(sendq, sendq, u)
      BY KeptEmpty
    <3> QED BY <3>1, <3>2, <3>3
  <2>2. CASE ~SendFails
    <3>1. sendq' = sendq
      BY <2>2 DEF Reset, Drops, Asks, Alerts, RGameRoomData, connector
    <3> QED BY <3>1, KeptEmpty
  <2> QED BY <2>1, <2>2
<1>5. ASSUME NEW u
      PROVE  KeptFor(inbox, inbox', u)
  <2>1. ASSUME NEW x \in Users, Asks(x) \/ Alerts(x)
        PROVE  KeptFor(inbox, inbox', u)
    <3>1. charged[x] \in AnyPlace
      BY DEF Types, CoreTypes
    <3>2. Packet("sync", x, charged[x], TRUE) \in Incoming /\ Packet("alert", x, charged[x], FALSE) \in Incoming
      BY <3>1, PacketTypes
    <3>3. Packet("sync", x, charged[x], TRUE).type = "sync" /\ Packet("alert", x, charged[x], FALSE).type = "alert"
      BY DEF Packet
    <3>4. \E e \in Incoming : e.type \notin {"start", "end"} /\ inbox' = Append(inbox, e)
      BY <2>1, <3>2, <3>3 DEF Asks, Alerts
    <3> QED BY <1>3, <3>4, KeptAppend
  <2>2. CASE ~\E x \in Users : Asks(x) \/ Alerts(x)
    <3>1. inbox' \in {inbox, <<>>}
      BY <2>2 DEF SendFails, Reset, Drops, RGameRoomData, billing
    <3> QED BY <3>1, KeptEmpty
  <2> QED BY <2>1, <2>2
<1>6. ASSUME NEW u \in Users, Sound(u)'
      PROVE  Heeded(u)'
  <2>1. Heeded(u)
    BY <1>2, <1>6, SoundBefore DEF LoginInv
  <2> QED BY <1>1, <1>4, <1>5, <2>1, SamePlayers, HeededKept
<1> QED BY <1>6 DEF LoginInv

LEMMA LoginStep ==
  ASSUME FiniteSystem, Types, BillingAssumption, MaxRead = 1, World, SearchInv, LoginInv, [Next]_vars
  PROVE  LoginInv'
<1>1. CASE UNCHANGED vars
  <2>1. UNCHANGED <<sendq, inbox, started, online, place, up, muddled, mixed>>
    BY <1>1 DEF vars
  <2>2. ASSUME NEW u \in Users, Sound(u)'
        PROVE  Heeded(u)'
    <3>1. Heeded(u)
      BY <2>1, <2>2 DEF LoginInv, Sound
    <3> QED BY <2>1, <3>1, SamePlayers, KeptEmpty, HeededKept
  <2> QED BY <2>2 DEF LoginInv
<1>2. CASE Connect
  BY <1>2, ConnectLogins
<1>3. CASE Send
  BY <1>3, SendLogins
<1>4. CASE Recv
  BY <1>4, RecvLogins
<1>5. CASE SendFails \/ Reset \/ Drops \/ (\E x \in Users : Asks(x) \/ Alerts(x)) \/ (\E q \in lookups : RGameRoomData(q))
  BY <1>5, RestLogins
<1>6. ASSUME NEW a \in Agents, FromAgent(a)
      PROVE  LoginInv'
  BY <1>6, FromAgentLogins
<1>7. ASSUME NEW a \in Agents, ToAgent(a) \/ AgentStops(a)
      PROVE  LoginInv'
  BY <1>7, AgentLogins
<1>8. ASSUME NEW a \in Agents, NEW u \in Users, Leave(a, u)
      PROVE  LoginInv'
  BY <1>8, LeaveLogins
<1>9. ASSUME NEW a \in Agents, NEW u \in Users, NEW p \in Places, GameStart(u, a, p)
      PROVE  LoginInv'
  BY <1>9, GameStartLogins
<1> QED BY <1>1, <1>2, <1>3, <1>4, <1>5, <1>6, <1>7, <1>8, <1>9 DEF Next, Process

-----------------------------------------------------------------------------
(* Charges. *)

(* One player's part of ChargeInv. *)
Billed(u) ==
  /\ started[u] = NoPlace /\ ~Starting(u) /\ ~Names(sendq, "end", u) => charged[u] = NoPlace
  /\ RefusedLast(inbox, u) => charged[u] = NoPlace
  /\ Sound(u) /\ ~Online(u) /\ charged[u] # NoPlace => Stopping(u) \/ Names(sendq, "end", u)

LEMMA BilledKept ==
  ASSUME NEW u, Billed(u), charged'[u] \in {charged[u], NoPlace}, started'[u] = started[u],
         Starting(u) => Starting(u)', Names(sendq, "end", u) => Names(sendq', "end", u),
         RefusedLast(inbox', u) => RefusedLast(inbox, u),
         Sound(u)' => Sound(u), Sound(u)' => (Online(u)' <=> Online(u)), Stopping(u) => Stopping(u)'
  PROVE  Billed(u)'
  BY DEF Billed

LEMMA NotCharged ==
  ASSUME NEW u, charged'[u] = NoPlace
  PROVE  Billed(u)'
  BY DEF Billed

(* The type of the first packet decides what is known of the rest. *)
LEMMA HeadSent ==
  ASSUME Types, World, Send, NEW p \in Outgoing, p = Head(sendq)
  PROVE  /\ \A t \in {"start", "end"} : \A u : p.type # t \/ p.user # u => (Names(sendq', t, u) <=> Names(sendq, t, u))
         /\ Linked' => IF Greets(p) THEN inbox = <<>> /\ \A u \in Users : started[u] = NoPlace ELSE Linked
         /\ mode = "server"
<1>1. sendq' = Tail(sendq) /\ sendq \in Seq(Outgoing) /\ sendq # <<>> /\ socket = "up" /\ UNCHANGED <<mode, socket>>
  BY DEF Send, Types, QueueTypes
<1>2. mode = "server"
  BY <1>1 DEF World, Types, CoreTypes
<1>3. \A t \in {"start", "end"} : \A u : p.type # t \/ p.user # u => (Names(sendq', t, u) <=> Names(sendq, t, u))
  BY <1>1, NamesInTail
<1>4. CASE Greets(p)
  <2>1. Greeting(sendq)
    BY <1>1, <1>4, GreetingTail
  <2> QED BY <1>1, <1>2, <1>3, <1>4, <2>1 DEF World
<1>5. CASE ~Greets(p)
  <2>1. ~Greeting(sendq)
    BY <1>1, <1>5, GreetFirstTail DEF World
  <2> QED BY <1>1, <1>2, <1>3, <1>5, <2>1 DEF Linked
<1> QED BY <1>4, <1>5

LEMMA SendCharges ==
  ASSUME Types, BillingAssumption, World, LoginInv, ChargeInv, Send
  PROVE  ChargeInv'
<1>1. sendq' = Tail(sendq) /\ sendq \in Seq(Outgoing) /\ sendq # <<>> /\ inbox \in Seq(Incoming)
      /\ charged \in [Users -> AnyPlace]
  BY DEF Send, Types, QueueTypes, CoreTypes
<1>2. UNCHANGED <<started, online, place, up, muddled, mixed>>
  BY DEF Send, players
<1>3. PICK p \in Outgoing : p = Head(sendq)
  BY <1>1, TailElements
<1>4. PICK ok \in BOOLEAN : Served(p, ok)
  BY <1>3 DEF Send, Grants
<1>5. ASSUME Linked', NEW u \in Users
      PROVE  Billed(u)'
  <2>1. CASE Greets(p)
    BY <1>4, <2>1, NotCharged DEF Served, Greets
  <2>2. CASE ~Greets(p)
    <3>1. Linked
      BY <1>3, <1>5, <2>2, HeadSent
    <3>2. Billed(u)
      BY <3>1 DEF ChargeInv, Billed
    <3>3. (Sound(u)' <=> Sound(u)) /\ (Online(u)' <=> Online(u)) /\ (Stopping(u)' <=> Stopping(u)) /\ started'[u] = started[u]
      BY <1>2 DEF Sound, Online, Stopping
    <3>4. p.type \in {"start", "end", "sync"} /\ p.user \in Users
      BY <2>2 DEF Outgoing, Starts, Greets
    <3>5. CASE p.type = "start"
      <4>1. p \in Starts /\ inbox' = Append(inbox, [p EXCEPT !.ok = ok])
            /\ charged' = [charged EXCEPT ![p.user] = IF ok THEN p.place ELSE NoPlace]
        BY <1>4, <3>5 DEF Served, Outgoing
      <4>2. PICK e \in Incoming : inbox' = Append(inbox, e) /\ e.type = "start" /\ e.user = p.user /\ e.ok = ok
        BY <4>1 DEF Incoming, Starts
      <4>3. CASE p.user # u
        <5>1. charged'[u] = charged[u]
          BY <1>1, <4>1, <4>3
        <5>2. Starting(u) => Starting(u)'
          <6>1. Names(sendq, "start", u) => Names(sendq', "start", u)
            BY <1>3, <4>3, HeadSent
          <6>2. Names(inbox, "start", u) => Names(inbox', "start", u)
            BY <1>1, <4>2, NamesInAppend
          <6> QED BY <6>1, <6>2 DEF Starting
        <5>3. Names(sendq, "end", u) => Names(sendq', "end", u)
          BY <1>3, <4>3, HeadSent
        <5>4. RefusedLast(inbox', u) => RefusedLast(inbox, u)
          BY <1>1, <4>2, <4>3, RefusedLastAppend DEF Refusal
        <5> QED BY <3>2, <3>3, <5>1, <5>2, <5>3, <5>4, BilledKept
      <4>4. CASE p.user = u /\ ~ok
        <5>1. charged'[u] = NoPlace
          BY <1>1, <4>1, <4>4
        <5> QED BY <5>1, NotCharged
      <4>5. CASE p.user = u /\ ok
        <5>1. Starting(u)'
          BY <1>1, <4>2, <4>5, NamesInAppend DEF Starting
        <5>2. ~RefusedLast(inbox', u)
          BY <1>1, <4>2, <4>5, RefusedLastAppend DEF Refusal
        <5>3. Starting(u)
          BY <1>1, <1>3, <3>5, <4>5, NamesInTail DEF Starting
        <5>4. Sound(u) /\ ~Online(u) => Stopping(u)
          BY <5>3 DEF LoginInv, Heeded
        <5> QED BY <3>3, <5>1, <5>2, <5>4 DEF Billed
      <4> QED BY <4>3, <4>4, <4>5
    <3>6. CASE p.type # "start"
      <4>1. inbox' = inbox /\ charged' \in {charged, [charged EXCEPT ![p.user] = NoPlace]}
            /\ (p.type = "end" => charged' = [charged EXCEPT ![p.user] = NoPlace])
        BY <1>4, <3>4, <3>6 DEF Served
      <4>2. CASE p.type = "end" /\ p.user = u
        <5>1. charged'[u] = NoPlace
          BY <1>1, <4>1, <4>2
        <5> QED BY <5>1, NotCharged
      <4>3. CASE ~(p.type = "end" /\ p.user = u)
        <5>1. charged'[u] \in {charged[u], NoPlace}
          BY <1>1, <4>1
        <5>2. (Names(sendq, "start", u) => Names(sendq', "start", u)) /\ (Names(sendq, "end", u) => Names(sendq', "end", u))
          BY <1>3, <3>6, <4>3, HeadSent
        <5> QED BY <3>2, <3>3, <4>1, <5>1, <5>2, BilledKept DEF Starting
      <4> QED BY <4>2, <4>3
    <3> QED BY <3>5, <3>6
  <2> QED BY <2>1, <2>2
<1> QED BY <1>5 DEF ChargeInv, Billed

LEMMA RecvCharges ==
  ASSUME Types, BillingAssumption, World, LoginInv, ChargeInv, MaxRead = 1, Recv
  PROVE  ChargeInv'
<1>1. inbox \in Seq(Incoming) /\ inbox # <<>> /\ inbox' = Tail(inbox) /\ Receive(Head(inbox))
  BY RecvOne
<1>2. PICK p \in Incoming : p = Head(inbox)
  BY <1>1, TailElements
<1>3. UNCHANGED <<mode, socket, sendq, online, place, up, charged>>
  BY DEF Recv, players
<1>4. muddled \subseteq muddled' /\ mixed \subseteq mixed'
  BY UnknownStays DEF Next, Process
<1>5. started \in [Users -> AnyPlace]
  BY DEF Types, CoreTypes
<1>6. ASSUME Linked', NEW u \in Users
      PROVE  Billed(u)'
  <2>1. Linked
    BY <1>3, <1>6 DEF Linked
  <2>2. Billed(u)
    BY <2>1 DEF ChargeInv, Billed
  <2>3. (Sound(u)' => Sound(u)) /\ (Online(u)' <=> Online(u)) /\ (Stopping(u)' <=> Stopping(u))
    BY <1>3, <1>4, SoundBefore DEF Online, Stopping
  <2>4. RefusedLast(inbox', u) => RefusedLast(inbox, u)
    BY <1>1, RefusedLastTail
  <2>5. CASE p.type = "start" /\ p.user = u /\ p.ok
    <3>1. started'[u] = p.place /\ p.place \in Places
      <4>1. started' = [started EXCEPT ![u] = p.place]
        BY <1>1, <1>2, <2>5, ReceiveStarted
      <4>2. p.place \in Places
        BY <2>5 DEF Incoming, Starts
      <4> QED BY <1>5, <4>1, <4>2
    <3>2. started'[u] # NoPlace
      BY <3>1 DEF BillingAssumption
    <3> QED BY <1>3, <2>2, <2>3, <2>4, <3>2 DEF Billed
  <2>6. CASE ~(p.type = "start" /\ p.user = u /\ p.ok)
    <3>1. started'[u] = started[u]
      <4>1. CASE p.type = "start" /\ p.ok
        BY <1>1, <1>2, <1>5, <2>6, <4>1, ReceiveStarted
      <4>2. CASE ~(p.type = "start" /\ p.ok)
        BY <1>1, <1>2, <4>2, ReceiveStarted
      <4> QED BY <4>1, <4>2
    <3>2. CASE p.type = "start" /\ p.user = u
      <4>1. Refusal(p, u)
        BY <2>6, <3>2 DEF Refusal
      <4>2. ~Names(inbox', "start", u) => charged[u] = NoPlace
        <5>1. ~Names(Tail(inbox), "start", u) => RefusedLast(inbox, u)
          BY <1>1, <1>2, <4>1, RefusedLastTail
        <5> QED BY <1>1, <2>2, <5>1 DEF Billed
      <4> QED BY <1>3, <2>2, <2>3, <2>4, <4>2 DEF Billed, Starting
    <3>3. CASE ~(p.type = "start" /\ p.user = u)
      <4>1. Names(inbox, "start", u) => Names(inbox', "start", u)
        BY <1>1, <1>2, <3>3, NamesInTail
      <4> QED BY <1>3, <2>2, <2>3, <2>4, <3>1, <4>1, BilledKept DEF Starting
    <3> QED BY <3>2, <3>3
  <2> QED BY <2>5, <2>6
<1> QED BY <1>6 DEF ChargeInv, Billed

LEMMA FromAgentCharges ==
  ASSUME Types, BillingAssumption, World, LoginInv, ChargeInv, NEW a \in Agents, FromAgent(a)
  PROVE  ChargeInv'
<1>0. PICK msg \in UpNotes :
      /\ msg = Head(up[a]) /\ msg.user \in Users
      /\ \A b \in Agents : b # a => up'[b] = up[b]
      /\ \A k, u : Tells(up[a], k, u) <=> Tells(up'[a], k, u) \/ (msg.kind = k /\ msg.user = u)
  BY MessageTaken
<1>1. PICK x \in Users : x = msg.user
  BY <1>0
<1>2. \/ msg.kind = "stop" /\ GameEnd(x)
      \/ msg.kind = "check_ack" /\ SucceedToCheck(x) /\ UNCHANGED <<started, muddled>>
      \/ msg.kind = "check_nack" /\ FailToCheck(x) /\ UNCHANGED <<started, muddled>>
  BY <1>0, <1>1 DEF FromAgent
<1>3. UNCHANGED <<mode, socket, inbox, online, place, mixed, charged>>
  BY DEF FromAgent, players, billing
<1>4. sendq \in Seq(Outgoing) /\ started \in [Users -> AnyPlace]
  BY DEF Types, CoreTypes, QueueTypes
<1>5. \A t \in {"end", "sync"}, ok \in BOOLEAN :
        /\ Packet(t, x, started[x], ok) \in Outgoing
        /\ Packet(t, x, started[x], ok).type = t /\ Packet(t, x, started[x], ok).user = x
  <2>1. started[x] \in AnyPlace
    BY <1>4
  <2> QED BY <2>1, PacketTypes DEF Packet
<1>6. sendq' = sendq \/ \E e \in Outgoing : sendq' = Append(sendq, e)
  <2>1. \/ sendq' = sendq
        \/ \E t \in {"end", "sync"}, ok \in BOOLEAN : sendq' = Append(sendq, Packet(t, x, started[x], ok))
    BY <1>2 DEF GameEnd, SucceedToCheck, FailToCheck
  <2> QED BY <1>5, <2>1
<1>7. muddled \subseteq muddled'
  BY <1>2 DEF GameEnd
<1>8. \A t, u : Names(sendq, t, u) => Names(sendq', t, u)
  <2>1. \A e \in Outgoing : \A t, u : Names(sendq, t, u) => Names(Append(sendq, e), t, u)
    BY <1>4, NamesInAppend
  <2> QED BY <1>6, <2>1
<1>9. Linked' => Linked
  <2>1. \A e \in Outgoing : Greeting(sendq) => Greeting(Append(sendq, e))
    BY <1>4, GreetingAppend
  <2> QED BY <1>3, <1>6, <2>1 DEF Linked
<1>10. ASSUME Linked', NEW u \in Users
       PROVE  Billed(u)'
  <2>1. Billed(u)
    BY <1>9, <1>10 DEF ChargeInv, Billed
  <2>2. (Sound(u)' => Sound(u)) /\ (Online(u)' <=> Online(u)) /\ (Starting(u) => Starting(u)')
    BY <1>3, <1>7, <1>8, SoundBefore DEF Online, Starting
  <2>3. CASE ~(msg.kind = "stop" /\ u = x)
    <3>1. Stopping(u) => Stopping(u)'
      BY <1>0, <1>1, <2>3 DEF Stopping
    <3>2. started'[u] = started[u]
      BY <1>2, <1>4, <2>3 DEF GameEnd
    <3> QED BY <1>3, <1>8, <2>1, <2>2, <3>1, <3>2, BilledKept
  <2>4. CASE msg.kind = "stop" /\ u = x
    <3>1. CASE started[x] # NoPlace
      <4>1. sendq' = Append(sendq, Packet("end", x, started[x], TRUE))
        BY <1>2, <2>4, <3>1 DEF GameEnd
      <4>2. Names(sendq', "end", x)
        <5>1. \A e \in Outgoing : Names(Append(sendq, e), e.type, e.user)
          BY <1>4, NamesInAppend
        <5> QED BY <1>5, <4>1, <5>1
      <4> QED BY <1>3, <2>1, <2>4, <4>2 DEF Billed
    <3>2. CASE started[x] = NoPlace
      <4>1. UNCHANGED <<sendq, started>> /\ (Sound(x)' => ~Starting(x))
        BY <1>2, <2>4, <3>2, StartsAreNames DEF GameEnd, Sound, Starting
      <4> QED BY <1>3, <2>1, <2>2, <2>4, <3>2, <4>1 DEF Billed, Starting
    <3> QED BY <3>1, <3>2
  <2> QED BY <2>3, <2>4
<1> QED BY <1>10 DEF ChargeInv, Billed

LEMMA PlayersCharges ==
  ASSUME Types, SearchInv, BillingAssumption, ChargeInv, NEW a \in Agents, NEW x \in Users,
         Leave(a, x) \/ \E p \in Places : GameStart(x, a, p)
  PROVE  ChargeInv'
<1>1. UNCHANGED <<mode, socket, inbox, charged, started>> /\ muddled \subseteq muddled' /\ mixed \subseteq mixed'
  BY DEF Leave, GameStart, connector, billing, Mixes
<1>2. sendq' = sendq \/ \E e \in Outgoing : ~Greets(e) /\ e.type # "end" /\ sendq' = Append(sendq, e)
  <2>1. \A p \in Places : /\ Packet("start", x, p, TRUE) \in Outgoing /\ ~Greets(Packet("start", x, p, TRUE))
                          /\ Packet("start", x, p, TRUE).type # "end"
    BY PacketTypes DEF Packet, Greets
  <2>2. sendq' = sendq \/ \E p \in Places : sendq' = Append(sendq, Packet("start", x, p, TRUE))
    BY DEF Leave, GameStart, connector
  <2> QED BY <2>1, <2>2
<1>3. sendq \in Seq(Outgoing)
  BY DEF Types, QueueTypes
<1>4. \A t, u : Names(sendq, t, u) => Names(sendq', t, u)
  <2>1. \A e \in Outgoing : \A t, u : Names(sendq, t, u) => Names(Append(sendq, e), t, u)
    BY <1>3, NamesInAppend
  <2> QED BY <1>2, <2>1
<1>5. Linked' => Linked
  <2>1. \A e \in Outgoing : Greeting(sendq) => Greeting(Append(sendq, e))
    BY <1>3, GreetingAppend
  <2> QED BY <1>1, <1>2, <2>1 DEF Linked
<1>6. ASSUME Linked', NEW u \in Users
      PROVE  Billed(u)'
  <2>1. Billed(u) /\ (Sound(u)' => Sound(u))
    BY <1>1, <1>5, <1>6, SoundBefore DEF ChargeInv, Billed
  <2>2. Starting(u) => Starting(u)'
    BY <1>1, <1>4 DEF Starting
  <2>3. CASE Leave(a, x)
    <3>1. CASE u = x
      <4>1. Stopping(u)'
        BY <2>3, <3>1, LeaveStops
      <4> QED BY <1>1, <1>4, <2>1, <2>2, <4>1 DEF Billed
    <3>2. CASE u # x
      <4>1. (Stopping(u)' <=> Stopping(u)) /\ (Online(u)' <=> Online(u))
        BY <2>3, <3>2, LeaveStops
      <4> QED BY <1>1, <1>4, <2>1, <2>2, <4>1, BilledKept
    <3> QED BY <3>1, <3>2
  <2>4. CASE \E p \in Places : GameStart(x, a, p)
    <3>1. Stopping(u)' <=> Stopping(u)
      BY <2>4 DEF GameStart, Stopping
    <3>2. ~Online(u)' => ~Online(u)
      <4>1. online' = [online EXCEPT ![a] = @ \cup {x}] /\ online \in [Agents -> SUBSET Users]
        BY <2>4 DEF GameStart, Types, PlayerTypes
      <4> QED BY <4>1 DEF Online
    <3> QED BY <1>1, <1>4, <2>1, <2>2, <3>1, <3>2 DEF Billed
  <2> QED BY <2>3, <2>4
<1> QED BY <1>6 DEF ChargeInv, Billed

LEMMA AgentCharges ==
  ASSUME Types, ChargeInv, NEW a \in Agents, ToAgent(a) \/ AgentStops(a)
  PROVE  ChargeInv'
<1>1. UNCHANGED <<mode, socket, sendq, inbox, started, charged, mixed>> /\ muddled \subseteq muddled'
  BY DEF ToAgent, AgentStops, connector, billing
<1>2. online \in [Agents -> SUBSET Users]
  BY DEF Types, PlayerTypes
<1>3. \A b \in Agents : \A u : Tells(up'[b], "stop", u) <=> Tells(up[b], "stop", u)
  BY NoStopTold
<1>4. ASSUME Linked', NEW u \in Users
      PROVE  Billed(u)'
  <2>1. Billed(u) /\ (Sound(u)' => Sound(u))
    BY <1>1, <1>4, SoundBefore DEF ChargeInv, Billed, Linked
  <2>2. Sound(u)' => (Online(u)' <=> Online(u))
    <3>1. CASE ToAgent(a)
      BY <3>1 DEF ToAgent, Online
    <3>2. CASE AgentStops(a)
      <4>1. \A b \in Agents : online'[b] = IF b = a THEN {} ELSE online[b]
        BY <1>2, <3>2 DEF AgentStops
      <4>2. Sound(u)' => u \notin online[a]
        BY <3>2 DEF AgentStops, Sound
      <4> QED BY <4>1, <4>2 DEF Online
    <3> QED BY <3>1, <3>2
  <2>3. Stopping(u) => Stopping(u)'
    BY <1>3 DEF Stopping
  <2> QED BY <1>1, <2>1, <2>2, <2>3, BilledKept DEF Starting
<1> QED BY <1>4 DEF ChargeInv, Billed

LEMMA AskCharges ==
  ASSUME Types, World, ChargeInv, NEW x \in Users, Asks(x) \/ Alerts(x)
  PROVE  ChargeInv'
<1>1. UNCHANGED <<sendq, started, online, up>> /\ Linked
  BY HeardLinked DEF Asks, Alerts, connector, players
<1>2. inbox \in Seq(Incoming) /\ charged \in [Users -> AnyPlace]
  BY DEF Types, CoreTypes, QueueTypes
<1>3. PICK e \in Incoming : e.type # "start" /\ inbox' = Append(inbox, e)
  <2>1. charged[x] \in AnyPlace
    BY <1>2
  <2>2. Packet("sync", x, charged[x], TRUE) \in Incoming /\ Packet("alert", x, charged[x], FALSE) \in Incoming
    BY <2>1, PacketTypes
  <2>3. Packet("sync", x, charged[x], TRUE).type = "sync" /\ Packet("alert", x, charged[x], FALSE).type = "alert"
    BY DEF Packet
  <2> QED BY <2>2, <2>3 DEF Asks, Alerts
<1>4. \A u \in Users : charged'[u] \in {charged[u], NoPlace}
  BY <1>2 DEF Asks, Alerts
<1>5. muddled' = muddled /\ mixed \subseteq mixed'
  BY DEF Asks, Alerts, Mixes
<1>6. ASSUME NEW u \in Users
      PROVE  Billed(u)'
  <2>1. Billed(u) /\ (Sound(u)' => Sound(u))
    BY <1>1, <1>5 DEF ChargeInv, Billed, Sound
  <2>2. Names(inbox, "start", u) => Names(inbox', "start", u)
    BY <1>2, <1>3, NamesInAppend
  <2>3. RefusedLast(inbox', u) => RefusedLast(inbox, u)
    BY <1>2, <1>3, RefusedLastAppend DEF Refusal
  <2> QED BY <1>1, <1>4, <2>1, <2>2, <2>3, BilledKept DEF Starting, Online, Stopping
<1> QED BY <1>6 DEF ChargeInv, Billed

LEMMA ConnectNotLinked ==
  ASSUME FiniteSystem, Types, BillingAssumption, Connect \/ SendFails \/ Reset \/ Drops
  PROVE  ~Linked'
<1>1. CASE Connect /\ mode = "server" /\ Connected
  <2>1. sendq' = Reported(started) /\ started \in [Users -> AnyPlace]
    BY <1>1 DEF Connected, Reported, Types, CoreTypes
  <2>2. sendq' \in Seq(Outgoing) /\ Len(sendq') >= 2 /\ sendq'[1] = Alone("conn")
    BY <2>1, ReportedPackets DEF FiniteSystem
  <2>3. 1 \in DOMAIN sendq' /\ sendq'[1].type = "conn"
    BY <2>2 DEF Alone
  <2> QED BY <2>3 DEF Linked, Greeting, Greets
<1>2. CASE ~(Connect /\ mode = "server" /\ Connected)
  <2>1. socket' # "up"
    BY <1>2 DEF Connect, SendFails, Reset, Drops
  <2> QED BY <2>1 DEF Linked
<1> QED BY <1>1, <1>2

LEMMA ChargeStep ==
  ASSUME FiniteSystem, Types, BillingAssumption, MaxRead = 1, World, SearchInv, LoginInv, ChargeInv, [Next]_vars
  PROVE  ChargeInv'
<1>1. CASE UNCHANGED vars \/ \E q \in lookups : RGameRoomData(q)
  <2>1. UNCHANGED <<mode, socket, sendq, inbox, started, charged, online, up, muddled, mixed>>
    BY <1>1 DEF vars, RGameRoomData, billing, players
  <2>2. ASSUME Linked', NEW u \in Users
        PROVE  Billed(u)'
    <3>1. Billed(u)
      BY <2>1, <2>2 DEF ChargeInv, Billed, Linked
    <3> QED BY <2>1, <3>1, BilledKept DEF Starting, Sound, Online, Stopping
  <2> QED BY <2>2 DEF ChargeInv, Billed
<1>2. CASE Connect \/ SendFails \/ Reset \/ Drops
  BY <1>2, ConnectNotLinked DEF ChargeInv
<1>3. CASE Send
  BY <1>3, SendCharges
<1>4. CASE Recv
  BY <1>4, RecvCharges
<1>5. ASSUME NEW x \in Users, Asks(x) \/ Alerts(x)
      PROVE  ChargeInv'
  BY <1>5, AskCharges
<1>6. ASSUME NEW a \in Agents, FromAgent(a)
      PROVE  ChargeInv'
  BY <1>6, FromAgentCharges
<1>7. ASSUME NEW a \in Agents, ToAgent(a) \/ AgentStops(a)
      PROVE  ChargeInv'
  BY <1>7, AgentCharges
<1>8. ASSUME NEW a \in Agents, NEW u \in Users, Leave(a, u) \/ \E p \in Places : GameStart(u, a, p)
      PROVE  ChargeInv'
  BY <1>8, PlayersCharges
<1> QED BY <1>1, <1>2, <1>3, <1>4, <1>5, <1>6, <1>7, <1>8 DEF Next, Process

-----------------------------------------------------------------------------
(* Advantages. *)

LEMMA SeenKept ==
  ASSUME NEW a, NEW u, Seen(a, u), UNCHANGED mode, started'[u] = started[u], charged'[u] = charged[u], place'[u] = place[u],
         Starting(u) => Starting(u)', Names(sendq, "start", u) => Names(sendq', "start", u), Linked' => Linked,
         \A v : Shown(down[a], u, packets[a][u], v) => Shown(down'[a], u, packets'[a][u], v),
         \A v : Coming(inbox, down[a], u, packets[a][u], v) => Coming(inbox', down'[a], u, packets'[a][u], v),
         \A q : q.user = u => (q \in lookups' <=> q \in lookups)
  PROVE  Seen(a, u)'
<1>1. mode' = "server" /\ started'[u] = NoPlace /\ ~Starting(u)' => Shown(down'[a], u, packets'[a][u], NoPlace)
  BY DEF Seen
<1>2. Linked' /\ ~Names(sendq', "start", u) =>
        Coming(inbox', down'[a], u, packets'[a][u], charged'[u]) /\ charged'[u] \in {place'[u], NoPlace}
  BY DEF Seen
<1>3. mode' = "database" =>
        /\ \A q \in lookups' : q.user = u => q.place = place'[u]
        /\ (\A q \in lookups' : q.user # u) => Shown(down'[a], u, packets'[a][u], RoomOnly(place'[u]))
  BY DEF Seen
<1> QED BY <1>1, <1>2, <1>3 DEF Seen

(* Where nothing comes to the agent, and inbox is the same or longer by a  *)
(* packet about something else.                                            *)
LEMMA SeenQuiet ==
  ASSUME NEW a, NEW u, UNCHANGED <<down, packets>>,
         inbox' = inbox \/ \E S : inbox \in Seq(S) /\ \E e \in S : ~PacketConcerns(e, u) /\ inbox' = Append(inbox, e)
  PROVE  /\ \A v : Shown(down[a], u, packets[a][u], v) => Shown(down'[a], u, packets'[a][u], v)
         /\ \A v : Coming(inbox, down[a], u, packets[a][u], v) => Coming(inbox', down'[a], u, packets'[a][u], v)
  BY ComingAppend

LEMMA SoundOnline ==
  ASSUME Types, LoginInv, NEW a \in Agents, NEW u \in online[a], Sound(u)
  PROVE  u \in Users /\ Online(u) /\ Heeded(u) /\ a \in running
  BY DEF Types, PlayerTypes, LoginInv, Online

LEMMA SendShown ==
  ASSUME Types, BillingAssumption, World, SearchInv, LoginInv, ShownInv, Send
  PROVE  ShownInv'
<1>1. sendq' = Tail(sendq) /\ sendq \in Seq(Outgoing) /\ sendq # <<>> /\ inbox \in Seq(Incoming)
      /\ charged \in [Users -> AnyPlace]
  BY DEF Send, Types, QueueTypes, CoreTypes
<1>2. UNCHANGED <<mode, lookups, started, online, place, packets, down, up, muddled, mixed>>
  BY DEF Send, players
<1>3. PICK p \in Outgoing : p = Head(sendq)
  BY <1>1, TailElements
<1>4. PICK ok \in BOOLEAN : Served(p, ok)
  BY <1>3 DEF Send, Grants
<1>14. mode = "server"
  BY <1>3, HeadSent
<1>5. ASSUME NEW a \in Agents, NEW u \in online'[a], Sound(u)'
      PROVE  Seen(a, u)'
  <2>0. u \in online[a] /\ Sound(u)
    BY <1>2, <1>5 DEF Sound
  <2>1. Seen(a, u) /\ u \in Users /\ Online(u) /\ Heeded(u)
    BY <1>5, <2>0, SoundOnline DEF ShownInv
  <2>2. CASE Greets(p)
    <3>1. inbox' = inbox /\ charged'[u] = NoPlace
      BY <1>4, <2>1, <2>2 DEF Served, Greets
    <3>2. Names(sendq', "start", u) <=> Names(sendq, "start", u)
      <4>1. p.type # "start"
        BY <2>2 DEF Greets
      <4> QED BY <1>3, <4>1, HeadSent
    <3>3. started[u] = NoPlace /\ ~Starting(u) => Shown(down[a], u, packets[a][u], NoPlace)
      BY <1>14, <2>1 DEF Seen
    <3>4. Linked' /\ ~Names(sendq', "start", u) => Coming(inbox', down[a], u, packets[a][u], NoPlace)
      <4> SUFFICES ASSUME Linked', ~Names(sendq', "start", u)
                   PROVE  Coming(inbox', down[a], u, packets[a][u], NoPlace)
        OBVIOUS
      <4>1. inbox = <<>> /\ started[u] = NoPlace
        BY <1>3, <2>1, <2>2, HeadSent
      <4>2. ~Starting(u)
        BY <3>2, <4>1, EmptyTells DEF Starting
      <4>3. Shown(down[a], u, packets[a][u], NoPlace)
        BY <3>3, <4>1, <4>2
      <4> QED BY <3>1, <4>1, <4>3, ComingThrough
    <3> QED BY <1>2, <1>14, <3>1, <3>2, <3>3, <3>4 DEF Seen, Starting
  <2>3. CASE ~Greets(p)
    <3>1. Linked' => Linked
      BY <1>3, <2>3, HeadSent
    <3>2. p.type \in {"start", "end", "sync"} /\ p.user \in Users
      BY <2>3 DEF Outgoing, Starts, Greets
    <3>3. CASE p.type = "start"
      <4>1. p \in Starts /\ inbox' = Append(inbox, [p EXCEPT !.ok = ok])
            /\ charged' = [charged EXCEPT ![p.user] = IF ok THEN p.place ELSE NoPlace]
        BY <1>4, <3>3 DEF Served, Outgoing
      <4>2. PICK e \in Incoming : inbox' = Append(inbox, e) /\ e.type = "start" /\ e.user = p.user /\ e.ok = ok
                                  /\ e.place = p.place
        BY <4>1 DEF Incoming, Starts
      <4>3. CASE p.user # u
        <5>1. charged'[u] = charged[u]
          BY <1>1, <4>1, <4>3
        <5>2. ~PacketConcerns(e, u)
          BY <4>2, <4>3 DEF PacketConcerns
        <5>3. Names(sendq, "start", u) => Names(sendq', "start", u)
          BY <1>3, <4>3, HeadSent
        <5>4. Names(inbox, "start", u) => Names(inbox', "start", u)
          BY <1>1, <4>2, NamesInAppend
        <5>5. /\ \A v : Shown(down[a], u, packets[a][u], v) => Shown(down'[a], u, packets'[a][u], v)
              /\ \A v : Coming(inbox, down[a], u, packets[a][u], v) => Coming(inbox', down'[a], u, packets'[a][u], v)
          BY <1>1, <1>2, <4>2, <5>2, ComingAppend
        <5> QED BY <1>2, <2>1, <3>1, <5>1, <5>3, <5>4, <5>5, SeenKept DEF Starting
      <4>4. CASE p.user = u
        <5>1. charged'[u] = (IF ok THEN p.place ELSE NoPlace)
          BY <1>1, <2>1, <4>1, <4>4
        <5>2. p.place = place[u]
          BY <1>1, <1>3, <2>1, <3>3, <4>4, StartsFromTail DEF Heeded
        <5>3. PacketConcerns(e, u) /\ PacketShows(e) = charged'[u]
          BY <4>2, <4>4, <5>1 DEF PacketConcerns, PacketShows
        <5>4. Coming(inbox', down[a], u, packets[a][u], charged'[u])
          BY <1>1, <4>2, <5>3, ComingAppend
        <5>5. Names(inbox', "start", u)
          BY <1>1, <4>2, <4>4, NamesInAppend
        <5> QED BY <1>2, <1>14, <5>1, <5>2, <5>4, <5>5 DEF Seen, Starting
      <4> QED BY <4>3, <4>4
    <3>4. CASE p.type = "end" /\ p.user = u
      <4>1. Names(sendq', "start", u)
        BY <1>1, <1>3, <2>1, <3>4, EndCoveredTail DEF Heeded
      <4> QED BY <1>2, <1>14, <4>1 DEF Seen, Starting
    <3>5. CASE p.type # "start" /\ ~(p.type = "end" /\ p.user = u)
      <4>1. inbox' = inbox
        BY <1>4, <3>2, <3>5 DEF Served
      <4>2. charged'[u] = charged[u]
        <5>1. p.type = "sync" /\ p.user = u => p.ok
          <6>1. ~Denied(sendq, u)
            BY <2>0, <2>1 DEF SearchInv, NotDenied, Sound
          <6> QED BY <1>1, <1>3, <6>1, TailElements DEF Denied
        <5>2. CASE p.type = "end"
          <6>1. charged' = [charged EXCEPT ![p.user] = NoPlace] /\ p.user # u
            BY <1>4, <3>5, <5>2 DEF Served
          <6> QED BY <1>1, <6>1
        <5>3. CASE p.type = "sync" /\ p.ok
          BY <1>4, <5>3 DEF Served
        <5>4. CASE p.type = "sync" /\ ~p.ok
          <6>1. charged' = [charged EXCEPT ![p.user] = NoPlace]
            BY <1>4, <5>4 DEF Served
          <6>2. p.user # u
            BY <5>1, <5>4
          <6> QED BY <1>1, <6>1, <6>2
        <5> QED BY <3>2, <3>5, <5>2, <5>3, <5>4
      <4>3. Names(sendq, "start", u) => Names(sendq', "start", u)
        BY <1>3, <3>5, HeadSent
      <4> QED BY <1>2, <2>1, <3>1, <4>1, <4>2, <4>3, SeenKept DEF Starting
    <3> QED BY <3>3, <3>4, <3>5
  <2> QED BY <2>2, <2>3
<1> QED BY <1>5 DEF ShownInv

(* What a packet tells the agents of a player. *)
LEMMA ReceiveTells ==
  ASSUME Types, BillingAssumption, NEW p \in Incoming, Receive(p), NEW a \in running, NEW u \in Users, NEW old
  PROVE  /\ PacketConcerns(p, u) => Shown(down'[a], u, old, PacketShows(p))
         /\ ~PacketConcerns(p, u) => \A v : Shown(down[a], u, old, v) => Shown(down'[a], u, old, v)
<1>1. p.user \in Users /\ p.place \in AnyPlace
  BY DEF Incoming, Starts, AnyPlace
<1>2. down[a] \in Seq(DownNotes)
  BY DEF Types, QueueTypes, PlayerTypes
<1>3. ASSUME NEW n \in DownNotes, Broadcast(n)
      PROVE  /\ Concerns(n, u) => Shown(down'[a], u, old, Shows(n))
             /\ ~Concerns(n, u) => \A v : Shown(down[a], u, old, v) => Shown(down'[a], u, old, v)
  <2>1. down'[a] = Append(down[a], n)
    BY <1>3, BroadcastReaches
  <2> QED BY <1>2, <2>1, ShownAppend
<1>4. CASE p.type = "start" /\ p.ok
  <2>1. Broadcast(Note("start_ack", p.user, p.place))
    BY <1>4 DEF Receive, ReceiveDenied, ReceiveSync, ReceiveAlert
  <2>2. PICK n \in DownNotes : n = Note("start_ack", p.user, p.place) /\ n.kind = "start_ack" /\ n.user = p.user /\ n.place = p.place
    BY <1>1, NoteTypes, NotePart
  <2>3. (Concerns(n, u) <=> PacketConcerns(p, u)) /\ Shows(n) = PacketShows(p)
    BY <1>4, <2>2 DEF Concerns, PacketConcerns, Shows, PacketShows
  <2> QED BY <1>3, <2>1, <2>2, <2>3
<1>5. CASE p.type = "start" /\ ~p.ok
  <2>1. Broadcast(Note("start_nack", p.user, NoPlace))
    BY <1>5 DEF Receive, ReceiveDenied, ReceiveSync, ReceiveAlert
  <2>2. PICK n \in DownNotes : n = Note("start_nack", p.user, NoPlace) /\ n.kind = "start_nack" /\ n.user = p.user
    BY <1>1, NoteTypes, NotePart, NoPlaceType
  <2>3. (Concerns(n, u) <=> PacketConcerns(p, u)) /\ Shows(n) = PacketShows(p)
    BY <1>5, <2>2 DEF Concerns, PacketConcerns, Shows, PacketShows
  <2> QED BY <1>3, <2>1, <2>2, <2>3
<1>6. CASE p.type = "alert"
  <2>1. Broadcast(Note("alert", p.user, NoPlace))
    BY <1>6 DEF Receive, ReceiveDenied, ReceiveSync, ReceiveAlert
  <2>2. PICK n \in DownNotes : n = Note("alert", p.user, NoPlace) /\ n.kind = "alert" /\ n.user = p.user
    BY <1>1, NoteTypes, NotePart, NoPlaceType
  <2>3. (Concerns(n, u) <=> PacketConcerns(p, u)) /\ Shows(n) = PacketShows(p)
    BY <1>6, <2>2 DEF Concerns, PacketConcerns, Shows, PacketShows
  <2> QED BY <1>3, <2>1, <2>2, <2>3
<1>7. CASE p.type = "sync"
  <2>1. ~PacketConcerns(p, u)
    BY <1>7 DEF PacketConcerns
  <2>2. down' = down \/ Broadcast(Note("check", p.user, NoPlace))
    BY <1>7 DEF Receive, ReceiveDenied, ReceiveSync, ReceiveAlert
  <2>3. PICK n \in DownNotes : n = Note("check", p.user, NoPlace) /\ n.kind = "check"
    BY <1>1, NoteTypes, NotePart, NoPlaceType
  <2>4. ~Concerns(n, u)
    BY <2>3 DEF Concerns
  <2> QED BY <1>3, <2>1, <2>2, <2>3, <2>4
<1> QED BY <1>4, <1>5, <1>6, <1>7 DEF Incoming, Starts

LEMMA RecvShown ==
  ASSUME Types, BillingAssumption, World, LoginInv, ShownInv, MaxRead = 1, Recv
  PROVE  ShownInv'
<1>1. inbox \in Seq(Incoming) /\ inbox # <<>> /\ inbox' = Tail(inbox) /\ Receive(Head(inbox))
  BY RecvOne
<1>2. PICK p \in Incoming : p = Head(inbox)
  BY <1>1, TailElements
<1>3. UNCHANGED <<mode, lookups, socket, sendq, online, place, up, charged, packets>>
  BY DEF Recv, players
<1>4. muddled \subseteq muddled' /\ mixed \subseteq mixed'
  BY UnknownStays DEF Next, Process
<1>5. started \in [Users -> AnyPlace] /\ mode = "server"
  BY <1>1 DEF Types, CoreTypes, World
<1>6. ASSUME NEW a \in Agents, NEW u \in online'[a], Sound(u)'
      PROVE  Seen(a, u)'
  <2>0. u \in online[a] /\ Sound(u)
    BY <1>3, <1>4, <1>6, SoundBefore
  <2>1. Seen(a, u) /\ u \in Users /\ Heeded(u) /\ a \in running
    BY <1>6, <2>0, SoundOnline DEF ShownInv
  <2>2. PICK old : old = packets[a][u]
    OBVIOUS
  <2>3. /\ PacketConcerns(p, u) => Shown(down'[a], u, old, PacketShows(p))
        /\ ~PacketConcerns(p, u) => \A v : Shown(down[a], u, old, v) => Shown(down'[a], u, old, v)
    BY <1>1, <1>2, <2>1, ReceiveTells
  <2>4. \A v : Coming(inbox, down[a], u, old, v) => Coming(inbox', down'[a], u, old, v)
    BY <1>1, <1>2, <2>3, ComingTail
  <2>5. Linked' /\ ~Names(sendq', "start", u) =>
          Coming(inbox', down'[a], u, old, charged'[u]) /\ charged'[u] \in {place'[u], NoPlace}
    BY <1>3, <2>1, <2>2, <2>4 DEF Seen, Linked
  <2>6. started'[u] = NoPlace /\ ~Starting(u)' => Shown(down'[a], u, old, NoPlace)
    <3>1. CASE p.type = "start" /\ p.user = u /\ p.ok
      <4>1. started' = [started EXCEPT ![u] = p.place] /\ p.place \in Places
        BY <1>1, <1>2, <3>1, ReceiveStarted DEF Incoming, Starts
      <4>2. started'[u] # NoPlace
        BY <1>5, <2>1, <4>1 DEF BillingAssumption
      <4> QED BY <4>2
    <3>2. CASE PacketConcerns(p, u) /\ ~(p.type = "start" /\ p.user = u /\ p.ok)
      <4>1. PacketShows(p) = NoPlace
        BY <3>2 DEF PacketShows, PacketConcerns
      <4> QED BY <2>3, <3>2, <4>1
    <3>3. CASE ~PacketConcerns(p, u)
      <4>1. started'[u] = started[u]
        <5>1. CASE p.type = "start" /\ p.ok
          <6>1. p.user # u
            BY <3>3, <5>1 DEF PacketConcerns
          <6>2. started' = [started EXCEPT ![p.user] = p.place]
            BY <1>1, <1>2, <5>1, ReceiveStarted
          <6> QED BY <1>5, <2>1, <6>1, <6>2
        <5>2. CASE ~(p.type = "start" /\ p.ok)
          BY <1>1, <1>2, <5>2, ReceiveStarted
        <5> QED BY <5>1, <5>2
      <4>2. Names(inbox, "start", u) => Names(inbox', "start", u)
        BY <1>1, <1>2, <3>3, NamesInTail DEF PacketConcerns
      <4>3. Starting(u) => Starting(u)'
        BY <1>3, <4>2 DEF Starting
      <4>4. started[u] = NoPlace /\ ~Starting(u) => Shown(down[a], u, old, NoPlace)
        BY <1>5, <2>1, <2>2 DEF Seen
      <4> QED BY <2>3, <3>3, <4>1, <4>3, <4>4
    <3> QED BY <3>1, <3>2, <3>3 DEF PacketConcerns
  <2> QED BY <1>3, <1>5, <2>2, <2>5, <2>6 DEF Seen
<1> QED BY <1>6 DEF ShownInv

LEMMA LookupShown ==
  ASSUME Types, BillingAssumption, World, LoginInv, ShownInv, NEW q \in lookups, RGameRoomData(q)
  PROVE  ShownInv'
<1>1. UNCHANGED <<mode, socket, sendq, inbox, started, charged, online, place, packets, muddled, mixed>>
      /\ lookups' = lookups \ {q}
  BY DEF RGameRoomData, players, billing
<1>2. mode = "database"
  BY DEF World, Types, CoreTypes
<1>3. q.user \in Users /\ q.place \in AnyPlace
  BY DEF Types, CoreTypes, AnyPlace
<1>4. PICK n \in DownNotes : Broadcast(n) /\ n.user = q.user /\ (\A u : Concerns(n, u) <=> u = q.user)
                              /\ Shows(n) = RoomOnly(q.place)
  <2>1. CASE q.place \in Rooms
    <3>1. Broadcast(Note("start_ack", q.user, q.place))
      BY <2>1 DEF RGameRoomData
    <3>2. Note("start_ack", q.user, q.place) \in DownNotes
      BY <1>3, NoteTypes
    <3> QED BY <2>1, <3>1, <3>2, NotePart DEF Concerns, Shows, RoomOnly
  <2>2. CASE q.place \notin Rooms
    <3>1. Broadcast(Note("start_nack", q.user, NoPlace))
      BY <2>2 DEF RGameRoomData
    <3>2. Note("start_nack", q.user, NoPlace) \in DownNotes
      BY <1>3, NoteTypes, NoPlaceType
    <3> QED BY <2>2, <3>1, <3>2, NotePart DEF Concerns, Shows, RoomOnly
  <2> QED BY <2>1, <2>2
<1>5. ASSUME NEW a \in Agents, NEW u \in online'[a], Sound(u)'
      PROVE  Seen(a, u)'
  <2>0. u \in online[a] /\ Sound(u)
    BY <1>1, <1>5 DEF Sound
  <2>1. Seen(a, u) /\ u \in Users /\ a \in running
    BY <1>5, <2>0, SoundOnline DEF ShownInv
  <2>2. PICK old : old = packets[a][u]
    OBVIOUS
  <2>3. down'[a] = Append(down[a], n) /\ down[a] \in Seq(DownNotes)
    BY <1>4, <1>5, <2>1, BroadcastReaches DEF Types, QueueTypes
  <2>4. \A r \in lookups' : r.user = u => r.place = place'[u]
    BY <1>1, <1>2, <2>1 DEF Seen
  <2>5. CASE u = q.user
    <3>1. q.place = place[u]
      BY <1>2, <2>1, <2>5 DEF Seen
    <3>2. Shown(down'[a], u, old, RoomOnly(place[u]))
      BY <1>4, <2>3, <2>5, <3>1, ShownAppend
    <3> QED BY <1>1, <1>2, <2>2, <2>4, <3>2 DEF Seen, Linked
  <2>6. CASE u # q.user
    <3>1. \A v : Shown(down[a], u, old, v) => Shown(down'[a], u, old, v)
      BY <1>4, <2>3, <2>6, ShownAppend
    <3>2. (\A r \in lookups' : r.user # u) => (\A r \in lookups : r.user # u)
      BY <1>1, <2>6
    <3>3. (\A r \in lookups' : r.user # u) => Shown(down'[a], u, old, RoomOnly(place[u]))
      BY <1>2, <2>1, <2>2, <3>1, <3>2 DEF Seen
    <3> QED BY <1>1, <1>2, <2>2, <2>4, <3>3 DEF Seen, Linked
  <2> QED BY <2>5, <2>6
<1> QED BY <1>5 DEF ShownInv

LEMMA FromAgentShown ==
  ASSUME Types, World, LoginInv, ShownInv, NEW a \in Agents, FromAgent(a)
  PROVE  ShownInv'
<1>0. PICK msg \in UpNotes :
      /\ msg = Head(up[a]) /\ msg.user \in Users
      /\ \A b \in Agents : b # a => up'[b] = up[b]
      /\ \A k, u : Tells(up[a], k, u) <=> Tells(up'[a], k, u) \/ (msg.kind = k /\ msg.user = u)
  BY MessageTaken
<1>1. PICK x \in Users : x = msg.user
  BY <1>0
<1>2. \/ msg.kind = "stop" /\ GameEnd(x)
      \/ msg.kind = "check_ack" /\ SucceedToCheck(x) /\ UNCHANGED <<started, muddled>>
      \/ msg.kind = "check_nack" /\ FailToCheck(x) /\ UNCHANGED <<started, muddled>>
  BY <1>0, <1>1 DEF FromAgent
<1>3. UNCHANGED <<mode, lookups, socket, inbox, online, place, mixed, charged, packets, down>>
  BY DEF FromAgent, players, billing
<1>4. sendq \in Seq(Outgoing) /\ started \in [Users -> AnyPlace]
  BY DEF Types, CoreTypes, QueueTypes
<1>5. sendq' = sendq \/ \E e \in Outgoing : sendq' = Append(sendq, e)
  <2>1. \A t \in {"end", "sync"}, ok \in BOOLEAN : Packet(t, x, started[x], ok) \in Outgoing
    <3>1. started[x] \in AnyPlace
      BY <1>4
    <3> QED BY <3>1, PacketTypes
  <2>2. \/ sendq' = sendq
        \/ \E t \in {"end", "sync"}, ok \in BOOLEAN : sendq' = Append(sendq, Packet(t, x, started[x], ok))
    BY <1>2 DEF GameEnd, SucceedToCheck, FailToCheck
  <2> QED BY <2>1, <2>2
<1>6. muddled \subseteq muddled'
  BY <1>2 DEF GameEnd
<1>7. \A t, u : Names(sendq, t, u) => Names(sendq', t, u)
  <2>1. \A e \in Outgoing : \A t, u : Names(sendq, t, u) => Names(Append(sendq, e), t, u)
    BY <1>4, NamesInAppend
  <2> QED BY <1>5, <2>1
<1>8. Linked' => Linked
  <2>1. \A e \in Outgoing : Greeting(sendq) => Greeting(Append(sendq, e))
    BY <1>4, GreetingAppend
  <2> QED BY <1>3, <1>5, <2>1 DEF Linked
<1>9. ASSUME NEW b \in Agents, NEW u \in online'[b], Sound(u)'
      PROVE  Seen(b, u)'
  <2>0. u \in online[b] /\ Sound(u)
    BY <1>3, <1>6, <1>9, SoundBefore
  <2>1. Seen(b, u) /\ u \in Users /\ Heeded(u) /\ Online(u)
    BY <1>9, <2>0, SoundOnline DEF ShownInv
  <2>2. ~(msg.kind = "stop" /\ x = u)
    <3> SUFFICES ASSUME msg.kind = "stop", x = u
                 PROVE  FALSE
      OBVIOUS
    <3>1. Tells(up[a], "stop", u)
      BY <1>0, <1>1
    <3>2. Stopping(u)
      BY <3>1 DEF Stopping
    <3> QED BY <2>1, <3>2 DEF Heeded
  <2>3. started'[u] = started[u]
    BY <1>2, <1>4, <2>1, <2>2 DEF GameEnd
  <2>4. Starting(u) => Starting(u)'
    BY <1>3, <1>7 DEF Starting
  <2> QED BY <1>3, <1>7, <1>8, <2>1, <2>3, <2>4, SeenKept
<1> QED BY <1>9 DEF ShownInv

LEMMA ToAgentShown ==
  ASSUME Types, ShownInv, NEW a \in Agents, ToAgent(a)
  PROVE  ShownInv'
<1>1. UNCHANGED <<mode, lookups, socket, sendq, started, inbox, charged, online, place, muddled, mixed>>
  BY DEF ToAgent, connector, billing
<1>2. /\ down \in [Agents -> Seq(DownNotes)] /\ down[a] # <<>> /\ down' = [down EXCEPT ![a] = Tail(@)]
      /\ packets \in [Agents -> [Users -> AnyPlace]]
  BY DEF ToAgent, Types, QueueTypes, PlayerTypes
<1>3. down[a] \in Seq(DownNotes)
  BY <1>2
<1>4. PICK msg \in DownNotes : msg = Head(down[a])
  BY <1>2, <1>3, TailElements
<1>5. PICK x \in Users : x = msg.user
  BY DEF DownNotes
<1>6. packets' = IF msg.kind = "check" THEN packets
                 ELSE [packets EXCEPT ![a] = [packets[a] EXCEPT ![x] = Shows(msg)]]
  <2>1. \/ msg.kind = "check" /\ UNCHANGED packets
        \/ msg.kind = "start_ack" /\ Keeps(a, x, msg.place)
        \/ msg.kind = "start_nack" /\ Keeps(a, x, NoPlace)
        \/ msg.kind = "alert" /\ Keeps(a, x, NoPlace)
    BY <1>4, <1>5 DEF ToAgent
  <2>2. \A v : Keeps(a, x, v) => packets' = [packets EXCEPT ![a] = [packets[a] EXCEPT ![x] = v]]
    BY <1>2 DEF Keeps
  <2> QED BY <2>1, <2>2 DEF Shows
<1>7. ASSUME NEW u \in Users
      PROVE  packets'[a][u] = IF Concerns(msg, u) THEN Shows(msg) ELSE packets[a][u]
  <2>1. CASE msg.kind = "check"
    BY <1>6, <2>1 DEF Concerns
  <2>2. CASE msg.kind # "check"
    <3>1. packets' = [packets EXCEPT ![a] = [packets[a] EXCEPT ![x] = Shows(msg)]]
      BY <1>6, <2>2
    <3>2. packets'[a] = [packets[a] EXCEPT ![x] = Shows(msg)] /\ packets[a] \in [Users -> AnyPlace]
      BY <1>2, <3>1
    <3>3. packets'[a][u] = IF u = x THEN Shows(msg) ELSE packets[a][u]
      BY <3>2
    <3>4. Concerns(msg, u) <=> u = x
      BY <1>5, <2>2 DEF Concerns, DownNotes
    <3> QED BY <3>3, <3>4
  <2> QED BY <2>1, <2>2
<1>8. \A b \in Agents : b # a => down'[b] = down[b] /\ packets'[b] = packets[b]
  BY <1>2, <1>6
<1>9. ASSUME NEW b \in Agents, NEW u \in online'[b], Sound(u)'
      PROVE  Seen(b, u)'
  <2>1. Seen(b, u) /\ u \in Users
    BY <1>1, <1>9 DEF ShownInv, Sound, Types, PlayerTypes
  <2>2. \A v : Shown(down[b], u, packets[b][u], v) => Shown(down'[b], u, packets'[b][u], v)
    <3>1. CASE b # a
      BY <1>8, <3>1
    <3>2. CASE b = a
      <4>1. down'[a] = Tail(down[a])
        BY <1>2
      <4>2. PICK new : new = IF Concerns(msg, u) THEN Shows(msg) ELSE packets[a][u]
        OBVIOUS
      <4>3. \A v : Shown(down[a], u, packets[a][u], v) => Shown(Tail(down[a]), u, new, v)
        BY <1>2, <1>3, <1>4, <4>2, ShownTail
      <4>4. packets'[a][u] = new
        BY <1>7, <2>1, <4>2
      <4> QED BY <3>2, <4>1, <4>3, <4>4
    <3> QED BY <3>1, <3>2
  <2>3. \A v : Coming(inbox, down[b], u, packets[b][u], v) => Coming(inbox', down'[b], u, packets'[b][u], v)
    BY <1>1, <2>2, ComingThrough
  <2> QED BY <1>1, <2>1, <2>2, <2>3, SeenKept DEF Starting, Linked
<1> QED BY <1>9 DEF ShownInv

LEMMA PlayersShown ==
  ASSUME Types, SearchInv, BillingAssumption, World, LoginInv, ShownInv, NEW a \in Agents, NEW x \in Users,
         Leave(a, x) \/ AgentStops(a)
  PROVE  ShownInv'
<1>1. UNCHANGED <<mode, lookups, socket, inbox, charged, started, sendq, mixed>> /\ muddled \subseteq muddled'
  BY DEF Leave, AgentStops, connector, billing
<1>2. online \in [Agents -> SUBSET Users] /\ place \in [Users -> AnyPlace] /\ down \in [Agents -> Seq(DownNotes)]
      /\ packets \in [Agents -> [Users -> AnyPlace]]
  BY DEF Types, PlayerTypes, QueueTypes
<1>3. ASSUME NEW b \in Agents, NEW u \in online'[b], Sound(u)'
      PROVE  /\ u \in online[b] /\ place'[u] = place[u] /\ down'[b] = down[b] /\ packets'[b] = packets[b]
  <2>1. CASE Leave(a, x)
    <3>1. u \in online[b] /\ u # x
      BY <1>3, <2>1, LeaveStops
    <3>2. place'[u] = place[u]
      BY <2>1, <3>1, LeaveStops
    <3> QED BY <2>1, <3>1, <3>2 DEF Leave
  <2>2. CASE AgentStops(a)
    <3>1. u \in online[b] /\ b # a
      BY <1>2, <1>3, <2>2 DEF AgentStops
    <3>2. u \notin online[a] /\ u \in Users
      BY <1>2, <1>3, <2>2, <3>1 DEF AgentStops, Sound
    <3> QED BY <1>2, <2>2, <3>1, <3>2 DEF AgentStops
  <2> QED BY <2>1, <2>2
<1>4. ASSUME NEW b \in Agents, NEW u \in online'[b], Sound(u)'
      PROVE  Seen(b, u)'
  <2>1. u \in online[b] /\ place'[u] = place[u] /\ down'[b] = down[b] /\ packets'[b] = packets[b]
    BY <1>3, <1>4
  <2>2. Seen(b, u)
    BY <1>1, <1>4, <2>1, SoundBefore DEF ShownInv
  <2> QED BY <1>1, <2>1, <2>2, SeenKept DEF Starting, Linked
<1> QED BY <1>4 DEF ShownInv

LEMMA GameStartShown ==
  ASSUME Types, BillingAssumption, World, LoginInv, ShownInv, NEW a \in Agents, NEW x \in Users, NEW p \in Places,
         GameStart(x, a, p)
  PROVE  ShownInv'
<1>1. UNCHANGED <<mode, socket, inbox, charged, started, down, packets>> /\ muddled \subseteq muddled' /\ mixed \subseteq mixed'
  BY DEF GameStart, billing, Mixes
<1>2. /\ online' = [online EXCEPT ![a] = @ \cup {x}] /\ place' = [place EXCEPT ![x] = p]
      /\ online \in [Agents -> SUBSET Users] /\ place \in [Users -> AnyPlace] /\ ~Online(x)
  BY DEF GameStart, Types, PlayerTypes
<1>3. PICK e \in Outgoing : e = Packet("start", x, p, TRUE) /\ e.type = "start" /\ e.user = x /\ ~Greets(e)
  BY PacketTypes DEF Packet, Greets
<1>4. sendq \in Seq(Outgoing) /\ (sendq' = sendq \/ sendq' = Append(sendq, e))
  BY <1>3 DEF GameStart, Types, QueueTypes
<1>5. Linked' => Linked
  <2>1. Greeting(Append(sendq, e)) <=> Greeting(sendq)
    BY <1>3, <1>4, GreetingAppend
  <2> QED BY <1>1, <1>4, <2>1 DEF Linked
<1>6. \A t, u : Names(sendq, t, u) => Names(sendq', t, u)
  <2>1. \A t, u : Names(sendq, t, u) => Names(Append(sendq, e), t, u)
    BY <1>4, NamesInAppend
  <2> QED BY <1>4, <2>1
<1>7. lookups' = IF mode = "database" THEN lookups \cup {[user |-> x, place |-> p]} ELSE lookups
  BY DEF GameStart
<1>8. ASSUME NEW b \in Agents, NEW u \in online'[b], Sound(u)', u # x
      PROVE  Seen(b, u)'
  <2>1. u \in online[b] /\ u \in Users
    BY <1>2, <1>8
  <2>2. Seen(b, u)
    BY <1>1, <1>8, <2>1, SoundBefore DEF ShownInv
  <2>3. place'[u] = place[u]
    BY <1>2, <1>8, <2>1
  <2>4. \A q : q.user = u => (q \in lookups' <=> q \in lookups)
    BY <1>7, <1>8
  <2>5. Starting(u) => Starting(u)'
    BY <1>1, <1>6 DEF Starting
  <2> QED BY <1>1, <1>5, <1>6, <2>2, <2>3, <2>4, <2>5, SeenKept
<1>9. ASSUME NEW b \in Agents, Sound(x)'
      PROVE  Seen(b, x)'
  <2>1. x \notin muddled'
    BY <1>9 DEF Sound
  <2>2. ~(mode = "server" /\ socket = "invalid") /\ \A q \in lookups : q.user # x
    BY <2>1 DEF GameStart
  <2>3. mode = "server" => Names(sendq', "start", x)
    <3> SUFFICES ASSUME mode = "server"
                 PROVE  Names(sendq', "start", x)
      OBVIOUS
    <3>1. sendq' = Append(sendq, e)
      BY <1>3, <2>2 DEF GameStart
    <3> QED BY <1>3, <1>4, <3>1, NamesInAppend
  <2>4. place'[x] = p
    BY <1>2
  <2>5. mode = "database" => [user |-> x, place |-> p] \in lookups' /\ \A q \in lookups' : q.user = x => q.place = p
    BY <1>7, <2>2
  <2>6. [user |-> x, place |-> p].user = x
    OBVIOUS
  <2>7. mode = "database" => ~(\A q \in lookups' : q.user # x)
    BY <2>5, <2>6
  <2> QED BY <1>1, <2>3, <2>4, <2>5, <2>7 DEF Seen, Starting, Linked, Types, CoreTypes
<1> QED BY <1>8, <1>9 DEF ShownInv

LEMMA ConnectShown ==
  ASSUME FiniteSystem, Types, BillingAssumption, World, ShownInv, Connect
  PROVE  ShownInv'
<1>1. UNCHANGED <<mode, lookups, online, place, down, packets, mixed>> /\ inbox = <<>>
  BY DEF Connect, players, World
<1>2. ~Linked' /\ (mode = "server" \/ mode = "database")
  BY ConnectNotLinked DEF Types, CoreTypes
<1>3. CASE mode = "server" /\ Connected
  <2>1. sendq' = Reported(started) /\ started \in [Users -> AnyPlace]
    BY <1>3 DEF Connected, Reported, Types, CoreTypes
  <2>2. \A u \in Users : started[u] # NoPlace => Names(sendq', "start", u)
    <3>1. \A u \in Users : started[u] # NoPlace =>
              \E i \in DOMAIN sendq' : sendq'[i] = Packet("start", u, started[u], TRUE)
      BY <2>1, ReportedPackets DEF FiniteSystem
    <3>2. \A u, v : Packet("start", u, v, TRUE).type = "start" /\ Packet("start", u, v, TRUE).user = u
      BY DEF Packet
    <3>3. ASSUME NEW u \in Users, started[u] # NoPlace
          PROVE  Names(sendq', "start", u)
      <4>1. PICK i \in DOMAIN sendq' : sendq'[i] = Packet("start", u, started[u], TRUE)
        BY <3>1, <3>3
      <4>2. sendq'[i].type = "start" /\ sendq'[i].user = u
        BY <3>2, <4>1
      <4> QED BY <4>2 DEF Names
    <3> QED BY <3>3
  <2>3. ASSUME NEW a \in Agents, NEW u \in online'[a], Sound(u)'
        PROVE  Seen(a, u)'
    <3>1. u \in Users /\ ~Names(sendq, "start", u) /\ Sound(u)
      BY <1>1, <1>3, <2>3, StartsAreNames DEF Connected, Sound, Types, PlayerTypes
    <3>2. Seen(a, u) /\ ~Starting(u)
      BY <1>1, <2>3, <3>1, EmptyTells DEF ShownInv, Starting
    <3>3. ~Starting(u)' => started[u] = NoPlace
      BY <2>2, <3>1 DEF Starting
    <3> QED BY <1>1, <1>2, <1>3, <3>2, <3>3 DEF Seen
  <2> QED BY <2>3 DEF ShownInv
<1>4. CASE ~(mode = "server" /\ Connected)
  <2>1. UNCHANGED <<sendq, started, muddled, inbox, charged>>
    BY <1>4 DEF Connect
  <2>2. ASSUME NEW a \in Agents, NEW u \in online'[a], Sound(u)'
        PROVE  Seen(a, u)'
    <3>1. Seen(a, u)
      BY <1>1, <2>1, <2>2 DEF ShownInv, Sound
    <3> QED BY <1>1, <1>2, <2>1, <3>1, SeenKept DEF Starting
  <2> QED BY <2>2 DEF ShownInv
<1> QED BY <1>3, <1>4

(* The connection is lost, and with it what was on its way. *)
LEMMA LostShown ==
  ASSUME FiniteSystem, Types, BillingAssumption, World, ShownInv, SendFails \/ Reset \/ Drops
  PROVE  ShownInv'
<1>1. UNCHANGED <<mode, lookups, online, place, down, packets, mixed, started>> /\ muddled \subseteq muddled'
  BY DEF SendFails, Reset, Drops, players
<1>2. ~Linked'
  BY ConnectNotLinked
<1>3. sendq \in Seq(Outgoing)
  BY DEF Types, QueueTypes
<1>4. ASSUME NEW u, u \notin muddled'
      PROVE  Starting(u) => Starting(u)'
  <2>1. CASE SendFails
    <3>1. inbox' = inbox /\ (sendq' = sendq \/ (sendq # <<>> /\ sendq' = Tail(sendq)
                                               /\ (Head(sendq).type = "start" => Head(sendq).user # u)))
      BY <1>4, <2>1 DEF SendFails, billing
    <3>2. Names(sendq, "start", u) => Names(sendq', "start", u)
      <4>1. sendq # <<>> /\ (Head(sendq).type = "start" => Head(sendq).user # u)
              => (Names(sendq, "start", u) => Names(Tail(sendq), "start", u))
        BY <1>3, NamesInTail
      <4> QED BY <3>1, <4>1
    <3> QED BY <3>1, <3>2 DEF Starting
  <2>2. CASE Reset \/ Drops
    <3>1. sendq' = sendq /\ ~Names(inbox, "start", u)
      BY <1>4, <2>2, StartsAreNames DEF Reset, Drops
    <3> QED BY <3>1 DEF Starting
  <2> QED BY <2>1, <2>2
<1>5. ASSUME NEW a \in Agents, NEW u \in online'[a], Sound(u)'
      PROVE  Seen(a, u)'
  <2>1. Seen(a, u) /\ Sound(u)
    BY <1>1, <1>5, SoundBefore DEF ShownInv
  <2>2. Starting(u) => Starting(u)'
    BY <1>4, <1>5 DEF Sound
  <2> QED BY <1>1, <1>2, <2>1, <2>2 DEF Seen
<1> QED BY <1>5 DEF ShownInv

LEMMA AskShown ==
  ASSUME Types, World, ShownInv, NEW x \in Users, Asks(x) \/ Alerts(x)
  PROVE  ShownInv'
<1>1. UNCHANGED <<mode, lookups, socket, sendq, started, online, place, down, packets>> /\ Linked
      /\ muddled \subseteq muddled' /\ mixed \subseteq mixed'
  BY HeardLinked DEF Asks, Alerts, connector, players, Mixes
<1>2. inbox \in Seq(Incoming) /\ charged \in [Users -> AnyPlace]
  BY DEF Types, CoreTypes, QueueTypes
<1>3. charged[x] \in AnyPlace
  BY <1>2
<1>4. PICK e \in Incoming : inbox' = Append(inbox, e) /\ e.user = x /\ e.type \in {"sync", "alert"}
                            /\ charged' = IF e.type = "alert" THEN [charged EXCEPT ![x] = NoPlace] ELSE charged
  <2>1. Packet("sync", x, charged[x], TRUE) \in Incoming /\ Packet("alert", x, charged[x], FALSE) \in Incoming
    BY <1>3, PacketTypes
  <2>2. /\ Packet("sync", x, charged[x], TRUE).type = "sync" /\ Packet("alert", x, charged[x], FALSE).type = "alert"
        /\ Packet("sync", x, charged[x], TRUE).user = x /\ Packet("alert", x, charged[x], FALSE).user = x
    BY DEF Packet
  <2>3. CASE Asks(x)
    BY <2>1, <2>2, <2>3 DEF Asks
  <2>4. CASE Alerts(x)
    BY <2>1, <2>2, <2>4 DEF Alerts
  <2> QED BY <2>3, <2>4
<1>5. ASSUME NEW a \in Agents, NEW u \in online'[a], Sound(u)'
      PROVE  Seen(a, u)'
  <2>1. Seen(a, u) /\ u \in Users
    BY <1>1, <1>5, SoundBefore DEF ShownInv, Types, PlayerTypes
  <2>2. Starting(u) => Starting(u)'
    <3>1. Names(inbox, "start", u) => Names(inbox', "start", u)
      BY <1>2, <1>4, NamesInAppend
    <3> QED BY <1>1, <3>1 DEF Starting
  <2>3. CASE PacketConcerns(e, u)
    <3>1. u = x /\ e.type = "alert"
      BY <1>4, <2>3 DEF PacketConcerns
    <3>2. charged'[u] = NoPlace
      BY <1>2, <1>4, <3>1
    <3>3. PacketShows(e) = NoPlace
      BY <3>1 DEF PacketShows
    <3>4. Coming(inbox', down[a], u, packets[a][u], charged'[u])
      BY <1>2, <1>4, <2>3, <3>2, <3>3, ComingAppend
    <3>5. mode' = "server"
      BY <1>1 DEF Linked
    <3> QED BY <1>1, <2>1, <2>2, <3>2, <3>4, <3>5 DEF Seen
  <2>4. CASE ~PacketConcerns(e, u)
    <3>1. charged'[u] = charged[u]
      BY <1>2, <1>4, <2>1, <2>4 DEF PacketConcerns
    <3>2. \A v : Coming(inbox, down[a], u, packets[a][u], v) => Coming(inbox', down'[a], u, packets'[a][u], v)
      BY <1>1, <1>2, <1>4, <2>4, ComingAppend
    <3> QED BY <1>1, <2>1, <2>2, <3>1, <3>2, SeenKept
  <2> QED BY <2>3, <2>4
<1> QED BY <1>5 DEF ShownInv

LEMMA ShownStep ==
  ASSUME FiniteSystem, Types, BillingAssumption, MaxRead = 1, World, SearchInv, LoginInv, ShownInv, [Next]_vars
  PROVE  ShownInv'
<1>1. CASE UNCHANGED vars
  <2>1. UNCHANGED <<mode, lookups, socket, sendq, started, inbox, charged, online, place, down, packets, muddled, mixed>>
    BY <1>1 DEF vars
  <2>2. ASSUME NEW a \in Agents, NEW u \in online'[a], Sound(u)'
        PROVE  Seen(a, u)'
    <3>1. Seen(a, u)
      BY <2>1, <2>2 DEF ShownInv, Sound
    <3> QED BY <2>1, <3>1, SeenKept DEF Starting, Linked
  <2> QED BY <2>2 DEF ShownInv
<1>2. CASE Connect
  BY <1>2, ConnectShown
<1>3. CASE Send
  BY <1>3, SendShown
<1>4. CASE Recv
  BY <1>4, RecvShown
<1>5. CASE SendFails \/ Reset \/ Drops
  BY <1>5, LostShown
<1>6. ASSUME NEW x \in Users, Asks(x) \/ Alerts(x)
      PROVE  ShownInv'
  BY <1>6, AskShown
<1>7. ASSUME NEW a \in Agents, FromAgent(a) \/ ToAgent(a)
      PROVE  ShownInv'
  BY <1>7, FromAgentShown, ToAgentShown
<1>8. ASSUME NEW a \in Agents, AgentStops(a)
      PROVE  ShownInv'
  <2>1. CASE Users = {}
    BY <1>8, <2>1, TypesStep DEF ShownInv, Next, Types, PlayerTypes
  <2>2. CASE Users # {}
    BY <1>8, <2>2, PlayersShown
  <2> QED BY <2>1, <2>2
<1>9. ASSUME NEW a \in Agents, NEW u \in Users, Leave(a, u)
      PROVE  ShownInv'
  BY <1>9, PlayersShown
<1>10. ASSUME NEW a \in Agents, NEW u \in Users, NEW p \in Places, GameStart(u, a, p)
       PROVE  ShownInv'
  BY <1>10, GameStartShown
<1>11. ASSUME NEW q \in lookups, RGameRoomData(q)
       PROVE  ShownInv'
  BY <1>11, LookupShown
<1> QED BY <1>1, <1>2, <1>3, <1>4, <1>5, <1>6, <1>7, <1>8, <1>9, <1>10, <1>11 DEF Next, Process

(* When nothing is under way, what the billing server charges, what the    *)
(* agents show and who is in the game agree, for every player whose logins *)
(* and logouts have been heard in order, if a read finds one packet        *)
(* (GameStart and GameEnd, BillConnector.cpp, and the BILLING messages of  *)
(* the agents).                                                            *)
THEOREM ChargesDoAgree ==
  ASSUME FiniteSystem, MaxRead = 1
  PROVE  Spec => []ChargesAgree
<1> DEFINE Inv == Types /\ World /\ SearchInv /\ LoginInv /\ ChargeInv /\ ShownInv
<1>1. Init => Inv
  <2> SUFFICES ASSUME Init
               PROVE  Inv
    OBVIOUS
  <2>1. World
    BY DEF Init, World, GreetFirst
  <2>2. \A t, u : ~Names(sendq, t, u) /\ ~Names(inbox, t, u)
    BY EmptyTells DEF Init
  <2>3. \A u \in Users : Heeded(u)
    BY <2>2, NoStartsFrom, NoEndCovered DEF Init, Heeded, Starting, Online
  <2>4. ChargeInv
    BY DEF Init, ChargeInv, Linked
  <2>5. ShownInv
    BY DEF Init, ShownInv
  <2> QED BY <2>1, <2>3, <2>4, <2>5, InitTypes, InitSearch, BillingAssumption DEF LoginInv
<1>2. Inv /\ [Next]_vars => Inv'
  <2> SUFFICES ASSUME Inv, [Next]_vars
               PROVE  Inv'
    OBVIOUS
  <2>1. Types' /\ SearchInv' /\ World'
    BY TypesStep, SearchStep, WorldStep, BillingAssumption
  <2>2. LoginInv' /\ ChargeInv' /\ ShownInv'
    BY LoginStep, ChargeStep, ShownStep, BillingAssumption
  <2> QED BY <2>1, <2>2
<1>3. Inv => ChargesAgree
  <2> SUFFICES ASSUME Inv
               PROVE  ChargesAgree
    OBVIOUS
  <2>1. TypeOK
    BY DEF Types, CoreTypes, PlayerTypes, TypeOK, AnyPlace
  <2>2. ASSUME Quiet
        PROVE  /\ sendq = <<>> /\ inbox = <<>> /\ lookups = {} /\ (mode = "server" => Linked)
               /\ \A a \in Agents : down[a] = <<>> /\ up[a] = <<>>
               /\ mode \in {"server", "database"}
    BY <2>2 DEF Quiet, Linked, Greeting, Types, CoreTypes
  <2>3. NobodyChargedAway
    <3> SUFFICES ASSUME Quiet, NEW u \in Users, Sound(u), charged[u] # NoPlace, ~Online(u)
                 PROVE  FALSE
      BY DEF NobodyChargedAway, Clear, Sound
    <3>1. mode = "server" /\ Linked
      BY <2>2 DEF World
    <3>2. Stopping(u) \/ Names(sendq, "end", u)
      BY <3>1 DEF ChargeInv
    <3> QED BY <2>2, <3>2, EmptyTells DEF Stopping
  <2>4. ASSUME Quiet, NEW a \in Agents, NEW u \in online[a], Sound(u)
        PROVE  /\ mode = "server" => packets[a][u] = charged[u] /\ charged[u] \in {place[u], NoPlace}
               /\ mode = "database" => packets[a][u] = RoomOnly(place[u])
    <3>1. Seen(a, u)
      BY <2>4 DEF ShownInv
    <3>2. \A v : Shown(<<>>, u, packets[a][u], v) => packets[a][u] = v
      BY DEF Shown, LastNote
    <3>3. \A v : Coming(<<>>, <<>>, u, packets[a][u], v) => packets[a][u] = v
      BY <3>2, ComingThrough
    <3>4. ~Names(sendq, "start", u)
      BY <2>2, <2>4, EmptyTells
    <3>5. mode = "server" => Coming(<<>>, <<>>, u, packets[a][u], charged[u]) /\ charged[u] \in {place[u], NoPlace}
      BY <2>2, <2>4, <3>1, <3>4 DEF Seen
    <3>6. mode = "database" => Shown(<<>>, u, packets[a][u], RoomOnly(place[u]))
      BY <2>2, <2>4, <3>1 DEF Seen
    <3> QED BY <3>2, <3>3, <3>5, <3>6
  <2>5. \A a \in Agents : \A u \in online[a] \cap Clear : u \in online[a] /\ Sound(u)
    BY DEF Clear, Sound
  <2>6. BenefitsEarned
    BY <2>2, <2>4, <2>5 DEF BenefitsEarned, RoomOnly
  <2>7. ChargedIsShown
    BY <2>2, <2>4, <2>5 DEF ChargedIsShown, RoomOnly
  <2> QED BY <2>1, <2>3, <2>6, <2>7 DEF ChargesAgree
<1> QED BY <1>1, <1>2, <1>3, PTL DEF Spec
=============================================================================
