--------------------------- MODULE GameEntry_proofs ---------------------------
(***************************************************************************)
(* What an agent keeps about its sessions, for any number of clients,      *)
(* accounts, characters and map servers: its tables agree, a list shows an *)
(* account its own characters, a session has a login row, a character is   *)
(* in the game in one place, which the agent knows, and no client is       *)
(* forgotten.                                                              *)
(*                                                                         *)
(* A character is found by its number because no two sessions have it: it  *)
(* was chosen from a list, a list shows an account its own characters, and *)
(* an account has one session, for it can log in only without a row.  The  *)
(* row goes only after the session: a session, the query that removes its  *)
(* row, the notice to a map server and its answer take turns in keeping    *)
(* it, and there is never more than one of them.                           *)
(*                                                                         *)
(* A character is in one place because what is said about it stays in      *)
(* order.  A session is at one Stage of its way into a map, on it or away  *)
(* from it: there is one request or one reply about its character, or      *)
(* none, and then the character is on the map.  When the session has       *)
(* ended, what is left of the character at a map server is behind a notice *)
(* or in front of its answer, and the account does not come back before    *)
(* that.  A crash of the map server may lose the notice; it takes the      *)
(* character, too, and leaves the row, so nobody comes back.               *)
(*                                                                         *)
(* What a client waits for is a query, a message, or a character that is   *)
(* being loaded.                                                           *)
(***************************************************************************)
EXTENDS GameEntry, SequenceTheorems, FiniteSetTheorems, TLAPS

Sessions == [key : 1..keys, user : Users, char : Chars \cup {NoChar}, map : Maps \cup {NoMap},
             list : [Chars -> Maps \cup {NoMap}]]

WayKinds == {"gate", "return", "npc", "house", "dungeon"}

PlayKinds == {"gamein", "gamein_ack", "gamein_nack", "othermap", "disconnected",
              "logincheck_delete", "back"}

Messages ==
  [kind : {"channel", "channel_ack", "channel_nack"}, conn : Conns, key : 1..keys]
    \cup [kind : PlayKinds, char : Chars, key : 1..keys, user : Users, map : Maps \cup {NoMap}]
    \cup [kind : WayKinds, char : Chars, key : 1..keys, user : Users, map : Maps]

Entries == [char : Chars, key : 1..keys, user : Users, in : BOOLEAN]

Queries ==
  {Logout(u) : u \in Users}
    \cup [kind : {"list", "name"}, conn : Conns, key : 1..keys, user : Users, char : {NoChar}]
    \cup [kind : {"make", "remove"}, conn : Conns, key : 1..keys, user : Users, char : Chars]

WiresOK ==
  /\ keys \in Nat /\ crossed \in BOOLEAN
  /\ up \in [Maps -> Seq(Messages)]
  /\ down \in [Maps -> Seq(Messages)]
  /\ world \in [Maps -> SUBSET Entries]
  /\ jobs \subseteq Queries

(* A client is in the game, or on its way, exactly with a character. *)
InGame == {"enter", "load", "play", "leave", "back"}

PhasesFit == \A c \in Conns : Live(c) => (phase[c] \in InGame <=> sess[c].char # NoChar)

(* A query of a session that lives is about its account, and a list comes  *)
(* while its client waits for it.                                          *)
JobsFit ==
  /\ \A j \in jobs : j.kind # "logout" /\ Live(j.conn) /\ sess[j.conn].key = j.key =>
       sess[j.conn].user = j.user /\ (j.kind = "list" => phase[j.conn] = "list")
  /\ \A j \in jobs : j.kind = "make" => Owner[j.char] = j.user

OwnsChar == \A c \in Conns : Live(c) /\ sess[c].char # NoChar => Owner[sess[c].char] = sess[c].user

(* What keeps the login row of u, with the place where it does. *)
Told(q, kind, u) == {i \in 1..Len(q) : q[i].kind = kind /\ q[i].user = u}

OneOf(q, kind, u) == \A i, j \in Told(q, kind, u) : i = j

Keepers(u) ==
  {<<"session", c>> : c \in {d \in Conns : Live(d) /\ sess[d].user = u}}
    \cup (IF Logout(u) \in jobs THEN {<<"query", u>>} ELSE {})
    \cup {<<"notice", m>> : m \in {n \in Maps : Told(up[n], "disconnected", u) # {}}}
    \cup {<<"answer", m>> : m \in {n \in Maps : Told(down[n], "logincheck_delete", u) # {}}}

Fits(u) ==
  /\ \A s, t \in Keepers(u) : s = t
  /\ Keepers(u) # {} => row[u]
  /\ \A m \in Maps : OneOf(up[m], "disconnected", u) /\ OneOf(down[m], "logincheck_delete", u)

RowsFit == \A u \in Users : Fits(u)

Inv == TypeOK /\ WiresOK /\ PhasesFit /\ JobsFit /\ OwnsChar /\ ListsOwn /\ TablesAgree /\ RowsFit

-----------------------------------------------------------------------------
(* Queues. *)

LEMMA ToldAppend ==
  ASSUME NEW S, NEW q \in Seq(S), NEW x \in S, NEW kind, NEW u
  PROVE  Told(Append(q, x), kind, u) =
           Told(q, kind, u) \cup IF x.kind = kind /\ x.user = u THEN {Len(q) + 1} ELSE {}
<1>1. /\ Len(Append(q, x)) = Len(q) + 1 /\ Len(q) \in Nat
      /\ \A i \in 1..Len(q) : Append(q, x)[i] = q[i]
      /\ Append(q, x)[Len(q) + 1] = x
  BY AppendProperties
<1>2. 1..(Len(q) + 1) = 1..Len(q) \cup {Len(q) + 1}
  BY <1>1
<1>3. ASSUME NEW i \in 1..(Len(q) + 1)
      PROVE  i \in Told(Append(q, x), kind, u) <=>
               i \in Told(q, kind, u) \cup IF x.kind = kind /\ x.user = u THEN {Len(q) + 1} ELSE {}
  <2>1. CASE i = Len(q) + 1
    <3>1. i \notin Told(q, kind, u)
      BY <1>1, <2>1 DEF Told
    <3>2. i \in Told(Append(q, x), kind, u) <=> x.kind = kind /\ x.user = u
      BY <1>1, <2>1 DEF Told
    <3>3. QED
      BY <2>1, <3>1, <3>2
  <2>2. CASE i \in 1..Len(q)
    <3>1. i # Len(q) + 1
      BY <1>1, <2>2
    <3>2. i \in Told(Append(q, x), kind, u) <=> i \in Told(q, kind, u)
      BY <1>1, <1>3, <2>2 DEF Told
    <3>3. QED
      BY <3>1, <3>2
  <2>3. QED
    BY <1>2, <1>3, <2>1, <2>2
<1>4. /\ Told(Append(q, x), kind, u) \subseteq 1..(Len(q) + 1)
      /\ Told(q, kind, u) \subseteq 1..(Len(q) + 1)
      /\ Len(q) + 1 \in 1..(Len(q) + 1)
  BY <1>1, <1>2 DEF Told
<1>5. QED
  BY <1>3, <1>4

LEMMA ToldTail ==
  ASSUME NEW S, NEW q \in Seq(S), q # <<>>, NEW kind, NEW u
  PROVE  /\ \A i \in Told(Tail(q), kind, u) : i \in Nat /\ i + 1 \in Told(q, kind, u) /\ i + 1 # 1
         /\ Head(q).kind = kind /\ Head(q).user = u => 1 \in Told(q, kind, u)
<1>1. /\ Len(Tail(q)) = Len(q) - 1 /\ Len(q) \in Nat /\ Len(q) > 0
      /\ \A i \in 1..Len(Tail(q)) : Tail(q)[i] = q[i + 1]
      /\ Head(q) = q[1]
  BY HeadTailProperties, EmptySeq, LenProperties
<1>2. ASSUME NEW i \in Told(Tail(q), kind, u)
      PROVE  i \in Nat /\ i + 1 \in Told(q, kind, u) /\ i + 1 # 1
  <2>1. i \in 1..Len(Tail(q)) /\ Tail(q)[i].kind = kind /\ Tail(q)[i].user = u
    BY <1>2 DEF Told
  <2>2. i \in Nat /\ i + 1 \in 1..Len(q) /\ i + 1 # 1 /\ Tail(q)[i] = q[i + 1]
    BY <1>1, <2>1
  <2>3. QED
    BY <2>1, <2>2 DEF Told
<1>3. QED
  BY <1>1, <1>2 DEF Told

(* A queue that has no new message of a kind about u, or about anybody. *)
QuietFor(new, old, kind, u) ==
  /\ Told(old, kind, u) = {} => Told(new, kind, u) = {}
  /\ OneOf(old, kind, u) => OneOf(new, kind, u)

Quieter(new, old, kind) == \A u : QuietFor(new, old, kind, u)

LEMMA QuieterSame == \A q, kind : Quieter(q, q, kind)
BY DEF Quieter, QuietFor

LEMMA QuieterEmpty == \A q, kind : Quieter(<<>>, q, kind)
BY DEF Quieter, QuietFor, OneOf, Told

LEMMA QuietForAppend ==
  ASSUME NEW S, NEW q \in Seq(S), NEW x \in S, NEW kind, NEW u, x.kind # kind \/ x.user # u
  PROVE  QuietFor(Append(q, x), q, kind, u)
<1>1. Told(Append(q, x), kind, u) =
        Told(q, kind, u) \cup IF x.kind = kind /\ x.user = u THEN {Len(q) + 1} ELSE {}
  BY ToldAppend
<1>2. Told(Append(q, x), kind, u) = Told(q, kind, u)
  BY <1>1
<1>3. QED
  BY <1>2 DEF QuietFor, OneOf

LEMMA QuieterAppend ==
  ASSUME NEW S, NEW q \in Seq(S), NEW x \in S, NEW kind, x.kind # kind
  PROVE  Quieter(Append(q, x), q, kind)
BY QuietForAppend DEF Quieter

LEMMA QuieterTail ==
  ASSUME NEW S, NEW q \in Seq(S), q # <<>>, NEW kind
  PROVE  Quieter(Tail(q), q, kind)
<1>1. ASSUME NEW u, Told(q, kind, u) = {} PROVE Told(Tail(q), kind, u) = {}
  BY <1>1, ToldTail
<1>2. ASSUME NEW u, OneOf(q, kind, u), NEW i \in Told(Tail(q), kind, u), NEW j \in Told(Tail(q), kind, u)
      PROVE  i = j
  <2>1. i \in Nat /\ j \in Nat /\ i + 1 \in Told(q, kind, u) /\ j + 1 \in Told(q, kind, u)
    BY ToldTail
  <2>2. i + 1 = j + 1
    BY <1>2, <2>1 DEF OneOf
  <2>3. QED
    BY <2>1, <2>2
<1>3. QED
  BY <1>1, <1>2 DEF Quieter, QuietFor, OneOf

(* The only one is taken. *)
FirstIs(q, kind, u) == q # <<>> /\ Head(q).kind = kind /\ Head(q).user = u

OnlyTaken(q, kind, u) == Told(Tail(q), kind, u) = {} /\ Told(q, kind, u) # {}

LEMMA TakenWasLast ==
  ASSUME NEW S, NEW q \in Seq(S), NEW kind, NEW u, OneOf(q, kind, u), FirstIs(q, kind, u)
  PROVE  OnlyTaken(q, kind, u)
<1>1. q # <<>> /\ Head(q).kind = kind /\ Head(q).user = u
  BY DEF FirstIs
<1>2. 1 \in Told(q, kind, u)
  BY <1>1, ToldTail
<1>3. \A i \in Told(Tail(q), kind, u) : FALSE
  BY <1>1, <1>2, ToldTail DEF OneOf
<1>4. QED
  BY <1>2, <1>3 DEF OnlyTaken

(* The first one is put. *)
LEMMA PutIsFirst ==
  ASSUME NEW S, NEW q \in Seq(S), NEW x \in S, NEW kind, NEW u, Told(q, kind, u) = {}
  PROVE  OneOf(Append(q, x), kind, u)
BY ToldAppend DEF OneOf

-----------------------------------------------------------------------------
(* Rows. *)

LEMMA KeptBy ==
  ASSUME NEW u
  PROVE  /\ \A c \in Conns : <<"session", c>> \in Keepers(u) <=> Live(c) /\ sess[c].user = u
         /\ <<"query", u>> \in Keepers(u) <=> Logout(u) \in jobs
         /\ \A m \in Maps : <<"notice", m>> \in Keepers(u) <=> Told(up[m], "disconnected", u) # {}
         /\ \A m \in Maps : <<"answer", m>> \in Keepers(u) <=> Told(down[m], "logincheck_delete", u) # {}
         /\ \A t \in Keepers(u) :
              \/ \E c \in Conns : t = <<"session", c>>
              \/ t = <<"query", u>>
              \/ \E m \in Maps : t = <<"notice", m>>
              \/ \E m \in Maps : t = <<"answer", m>>
BY DEF Keepers

LEMMA KeptByNext ==
  ASSUME NEW u
  PROVE  /\ \A c \in Conns : <<"session", c>> \in Keepers(u)' <=> Live(c)' /\ sess'[c].user = u
         /\ <<"query", u>> \in Keepers(u)' <=> Logout(u) \in jobs'
         /\ \A m \in Maps : <<"notice", m>> \in Keepers(u)' <=> Told(up'[m], "disconnected", u) # {}
         /\ \A m \in Maps : <<"answer", m>> \in Keepers(u)' <=> Told(down'[m], "logincheck_delete", u) # {}
         /\ \A t \in Keepers(u)' :
              \/ \E c \in Conns : t = <<"session", c>>
              \/ t = <<"query", u>>
              \/ \E m \in Maps : t = <<"notice", m>>
              \/ \E m \in Maps : t = <<"answer", m>>
BY DEF Keepers, Told, Live, Logout

LEMMA KeeperIs ==
  ASSUME NEW u, NEW t \in Keepers(u)'
  PROVE  \/ \E c \in Conns : t = <<"session", c>>
         \/ t = <<"query", u>>
         \/ \E m \in Maps : t = <<"notice", m>>
         \/ \E m \in Maps : t = <<"answer", m>>
BY DEF Keepers

(* What changes on the links is that messages are taken. *)
QuietLinksFor(u) ==
  \A m \in Maps : /\ QuietFor(up'[m], up[m], "disconnected", u)
                  /\ QuietFor(down'[m], down[m], "logincheck_delete", u)

QuietLinks ==
  \A m \in Maps : /\ Quieter(up'[m], up[m], "disconnected")
                  /\ Quieter(down'[m], down[m], "logincheck_delete")

LEMMA QuietForAll == QuietLinks => \A u : QuietLinksFor(u)
BY DEF QuietLinks, QuietLinksFor, Quieter

(* A step that gives u nothing that keeps its row. *)
LEMMA NoNewKeeper ==
  ASSUME NEW u, Fits(u), row'[u] = row[u], QuietLinksFor(u),
         \A c \in Conns : Live(c)' /\ sess'[c].user = u => Live(c) /\ sess[c].user = u,
         Logout(u) \in jobs' => Logout(u) \in jobs
  PROVE  Fits(u)'
<1>1. ASSUME NEW t \in Keepers(u)' PROVE t \in Keepers(u)
  <2>1. CASE \E c \in Conns : t = <<"session", c>>
    <3>1. PICK c \in Conns : t = <<"session", c>>
      BY <2>1
    <3>2. Live(c)' /\ sess'[c].user = u
      BY <1>1, <3>1, KeptByNext
    <3>3. Live(c) /\ sess[c].user = u
      BY <3>2
    <3>4. QED
      BY <3>1, <3>3, KeptBy
  <2>2. CASE t = <<"query", u>>
    BY <1>1, <2>2, KeptBy, KeptByNext
  <2>3. CASE \E m \in Maps : t = <<"notice", m>>
    <3>1. PICK m \in Maps : t = <<"notice", m>>
      BY <2>3
    <3>2. Told(up'[m], "disconnected", u) # {}
      BY <1>1, <3>1, KeptByNext
    <3>3. Told(up[m], "disconnected", u) # {}
      BY <3>2 DEF QuietLinksFor, QuietFor
    <3>4. QED
      BY <3>1, <3>3, KeptBy
  <2>4. CASE \E m \in Maps : t = <<"answer", m>>
    <3>1. PICK m \in Maps : t = <<"answer", m>>
      BY <2>4
    <3>2. Told(down'[m], "logincheck_delete", u) # {}
      BY <1>1, <3>1, KeptByNext
    <3>3. Told(down[m], "logincheck_delete", u) # {}
      BY <3>2 DEF QuietLinksFor, QuietFor
    <3>4. QED
      BY <3>1, <3>3, KeptBy
  <2>5. QED
    BY <1>1, <2>1, <2>2, <2>3, <2>4, KeeperIs
<1>2. \A m \in Maps : OneOf(up'[m], "disconnected", u) /\ OneOf(down'[m], "logincheck_delete", u)
  BY DEF Fits, QuietLinksFor, QuietFor
<1>3. QED
  BY <1>1, <1>2 DEF Fits, OneOf, Told

LEMMA RowsStay ==
  ASSUME RowsFit, row' = row, QuietLinks,
         \A c \in Conns : Live(c)' => Live(c) /\ sess'[c].user = sess[c].user,
         \A u \in Users : Logout(u) \in jobs' => Logout(u) \in jobs
  PROVE  RowsFit'
BY NoNewKeeper, QuietForAll DEF RowsFit

(* What keeps the row of u, if s does. *)
LEMMA OnlyKeeper ==
  ASSUME NEW u, NEW s \in Keepers(u), Fits(u)
  PROVE  /\ \A c \in Conns : Live(c) /\ sess[c].user = u => s = <<"session", c>>
         /\ Logout(u) \in jobs => s = <<"query", u>>
         /\ \A m \in Maps : Told(up[m], "disconnected", u) # {} => s = <<"notice", m>>
         /\ \A m \in Maps : Told(down[m], "logincheck_delete", u) # {} => s = <<"answer", m>>
BY KeptBy DEF Fits

(* After a step only t keeps the row of u. *)
LEMMA OnlyKeeperNext ==
  ASSUME NEW u, NEW t,
         \A c \in Conns : Live(c)' /\ sess'[c].user = u => t = <<"session", c>>,
         Logout(u) \in jobs' => t = <<"query", u>>,
         \A m \in Maps : Told(up'[m], "disconnected", u) # {} => t = <<"notice", m>>,
         \A m \in Maps : Told(down'[m], "logincheck_delete", u) # {} => t = <<"answer", m>>
  PROVE  \A s \in Keepers(u)' : s = t
<1>1. ASSUME NEW s \in Keepers(u)' PROVE s = t
  <2>1. CASE \E c \in Conns : s = <<"session", c>>
    <3>1. PICK c \in Conns : s = <<"session", c>>
      BY <2>1
    <3>2. QED
      BY <1>1, <3>1, KeptByNext
  <2>2. CASE s = <<"query", u>>
    BY <1>1, <2>2, KeptByNext
  <2>3. CASE \E m \in Maps : s = <<"notice", m>>
    <3>1. PICK m \in Maps : s = <<"notice", m>>
      BY <2>3
    <3>2. QED
      BY <1>1, <3>1, KeptByNext
  <2>4. CASE \E m \in Maps : s = <<"answer", m>>
    <3>1. PICK m \in Maps : s = <<"answer", m>>
      BY <2>4
    <3>2. QED
      BY <1>1, <3>1, KeptByNext
  <2>5. QED
    BY <1>1, <2>1, <2>2, <2>3, <2>4, KeeperIs
<1>2. QED
  BY <1>1

(* A step that hands the row of u over to t. *)
LEMMA KeeperMoves ==
  ASSUME NEW u, NEW s \in Keepers(u), NEW t, Fits(u), row'[u] = row[u],
         \A r \in Keepers(u)' : r = t,
         \A m \in Maps : OneOf(up'[m], "disconnected", u) /\ OneOf(down'[m], "logincheck_delete", u)
  PROVE  Fits(u)'
BY DEF Fits, OneOf, Told

-----------------------------------------------------------------------------
(* Links. *)

LEMMA SentOne ==
  ASSUME up \in [Maps -> Seq(Messages)], NEW m \in Maps, NEW x \in Messages, Sent(m, x)
  PROVE  /\ up' \in [Maps -> Seq(Messages)]
         /\ \A n \in Maps : up'[n] = up[n] \/ (n = m /\ up'[n] = Append(up[n], x))
<1>1. Append(up[m], x) \in Seq(Messages)
  BY AppendProperties
<1>2. QED
  BY <1>1 DEF Sent

LEMMA SentQuietlyFor ==
  ASSUME up \in [Maps -> Seq(Messages)], NEW m \in Maps, NEW x \in Messages, Sent(m, x),
         NEW u, x.kind # "disconnected" \/ x.user # u
  PROVE  \A n \in Maps : QuietFor(up'[n], up[n], "disconnected", u)
<1>1. ASSUME NEW n \in Maps PROVE QuietFor(up'[n], up[n], "disconnected", u)
  <2>1. CASE up'[n] = up[n]
    BY <2>1 DEF QuietFor
  <2>2. CASE up'[n] = Append(up[n], x)
    BY <2>2, QuietForAppend
  <2>3. QED
    BY <2>1, <2>2, SentOne
<1>2. QED
  BY <1>1

LEMMA SentQuietly ==
  ASSUME up \in [Maps -> Seq(Messages)], NEW m \in Maps, NEW x \in Messages, Sent(m, x),
         x.kind # "disconnected"
  PROVE  \A n \in Maps : Quieter(up'[n], up[n], "disconnected")
<1>1. ASSUME NEW n \in Maps PROVE Quieter(up'[n], up[n], "disconnected")
  <2>1. CASE up'[n] = up[n]
    BY <2>1, QuieterSame
  <2>2. CASE up'[n] = Append(up[n], x)
    BY <2>2, QuieterAppend
  <2>3. QED
    BY <2>1, <2>2, SentOne
<1>2. QED
  BY <1>1

(* The first message of a map server is taken. *)
LEMMA DownTaken ==
  ASSUME down \in [Maps -> Seq(Messages)], NEW m \in Maps, down[m] # <<>>,
         down' = [down EXCEPT ![m] = Tail(@)]
  PROVE  /\ Head(down[m]) \in Messages
         /\ down' \in [Maps -> Seq(Messages)]
         /\ \A n \in Maps : Quieter(down'[n], down[n], "logincheck_delete")
<1>1. Head(down[m]) \in Messages /\ Tail(down[m]) \in Seq(Messages)
  BY HeadTailProperties
<1>2. ASSUME NEW n \in Maps PROVE Quieter(down'[n], down[n], "logincheck_delete")
  <2>1. CASE n = m
    BY <2>1, QuieterTail
  <2>2. CASE n # m
    BY <2>2, QuieterSame
  <2>3. QED
    BY <2>1, <2>2
<1>3. QED
  BY <1>1, <1>2

-----------------------------------------------------------------------------
(* Sessions. *)

(* The parts of TypeOK. *)
SessTypes ==
  /\ sess \in [Conns -> Sessions \cup {NoSess}]
  /\ \A c \in Conns : Live(c) => (sess[c].char = NoChar <=> sess[c].map = NoMap)
  /\ byChar \in [Chars -> Conns \cup {NoConn}]
  /\ phase \in [Conns -> Waiting \cup {"none", "choose", "enter", "play"}]
  /\ \A c \in Conns : phase[c] = "none" <=> ~Live(c)

BaseTypes ==
  /\ row \in [Users -> BOOLEAN]
  /\ saved \in [Chars -> Maps \cup {NoMap}]
  /\ known \subseteq Maps /\ alive \subseteq Maps

LEMMA TypeParts == TypeOK /\ WiresOK <=> SessTypes /\ BaseTypes /\ WiresOK
<1>1. WiresOK => \A m \in Maps : \A e \in world[m] : e.char \in Chars /\ e.key \in 1..keys
  BY DEF WiresOK, Entries
<1>2. QED
  BY <1>1 DEF TypeOK, SessTypes, BaseTypes, Sessions

LEMMA TypePartsNext == SessTypes' /\ BaseTypes' /\ WiresOK' => TypeOK'
<1>1. WiresOK' => \A m \in Maps : \A e \in world'[m] : e.char \in Chars /\ e.key \in 1..keys'
  BY DEF WiresOK, Entries
<1>2. QED
  BY <1>1 DEF TypeOK, SessTypes, BaseTypes, Sessions

LEMMA SessionIsNone == keys \in Nat => NoSess \notin Sessions
BY EntryAssumption DEF Sessions

LEMMA QueryFields ==
  ASSUME WiresOK, NEW j \in jobs, j.kind # "logout"
  PROVE  /\ j.conn \in Conns /\ j.key \in 1..keys /\ j.user \in Users
         /\ j.kind \in {"list", "name", "make", "remove"}
         /\ j.kind \in {"list", "name"} => j.char = NoChar
         /\ j.kind \in {"make", "remove"} => j.char \in Chars
<1>1. j \in Queries /\ \A u \in Users : j # Logout(u)
  BY DEF WiresOK, Logout
<1>2. QED
  BY <1>1 DEF Queries

LEMMA LiveSession ==
  ASSUME SessTypes, NEW c \in Conns, Live(c)
  PROVE  sess[c] \in Sessions
BY DEF SessTypes, Live

SessionsFit == SessTypes /\ PhasesFit /\ JobsFit /\ OwnsChar /\ ListsOwn /\ TablesAgree

LEMMA InvParts == Inv <=> SessionsFit /\ BaseTypes /\ WiresOK /\ RowsFit
BY TypeParts DEF Inv, SessionsFit

LEMMA InvPartsNext == SessionsFit' /\ BaseTypes' /\ WiresOK' /\ RowsFit' => Inv'
BY TypePartsNext DEF Inv, SessionsFit

(* Nothing happens at the agent, except that queries are answered. *)
LEMMA SessionsStay ==
  ASSUME SessionsFit, sess' = sess, byChar' = byChar, phase' = phase,
         keys' = keys, crossed' = crossed, jobs' \subseteq jobs
  PROVE  SessionsFit'
BY DEF SessionsFit, SessTypes, Sessions, PhasesFit, JobsFit, OwnsChar, ListsOwn, TablesAgree, Live

(* The client of c does something and waits for p; a query j may be made.  *)
LEMMA PhaseMoves ==
  ASSUME SessionsFit, NEW c \in Conns, Live(c),
         NEW p \in (Waiting \cup {"choose", "enter", "play"}),
         p \in InGame <=> phase[c] \in InGame, phase[c] # "list",
         sess' = sess, byChar' = byChar, phase' = [phase EXCEPT ![c] = p],
         keys' = keys, crossed' = crossed,
         NEW js, jobs' = jobs \cup js,
         \A j \in js : /\ j.kind \in {"make", "name", "remove"}
                       /\ j.conn = c /\ j.key = sess[c].key /\ j.user = sess[c].user
                       /\ j.kind = "make" => Owner[j.char] = j.user
  PROVE  SessionsFit'
<1>1. SessTypes'
  <2>1. phase' \in [Conns -> Waiting \cup {"none", "choose", "enter", "play"}]
    BY DEF SessionsFit, SessTypes
  <2>2. p # "none"
    BY DEF Waiting
  <2>3. \A d \in Conns : phase'[d] = "none" <=> ~Live(d)'
    BY <2>2 DEF SessionsFit, SessTypes, Live
  <2>4. QED
    BY <2>1, <2>3 DEF SessionsFit, SessTypes, Sessions, Live
<1>2. PhasesFit'
  BY DEF SessionsFit, SessTypes, PhasesFit, Live
<1>3. JobsFit'
  <2>1. ASSUME NEW j \in jobs', j.kind # "logout", Live(j.conn)', sess'[j.conn].key = j.key
        PROVE  sess'[j.conn].user = j.user /\ (j.kind = "list" => phase'[j.conn] = "list")
    <3>1. CASE j \in js
      BY <2>1, <3>1
    <3>2. CASE j \in jobs
      <4>1. sess[j.conn].user = j.user /\ (j.kind = "list" => phase[j.conn] = "list")
        BY <2>1, <3>2 DEF SessionsFit, JobsFit, Live
      <4>2. j.kind = "list" => phase'[j.conn] = "list"
        BY <4>1 DEF SessionsFit, SessTypes
      <4>3. QED
        BY <4>1, <4>2
    <3>3. QED
      BY <2>1, <3>1, <3>2
  <2>2. \A j \in jobs' : j.kind = "make" => Owner[j.char] = j.user
    BY DEF SessionsFit, JobsFit
  <2>3. QED
    BY <2>1, <2>2 DEF JobsFit
<1>4. QED
  BY <1>1, <1>2, <1>3 DEF SessionsFit, OwnsChar, ListsOwn, TablesAgree, Live

(* The session at c becomes s, which keeps the account and the character. *)
SessionBecomes(c, s, p) ==
  /\ sess' = [sess EXCEPT ![c] = s] /\ phase' = [phase EXCEPT ![c] = p]
  /\ byChar' = byChar /\ keys' = keys
  /\ s.key = sess[c].key /\ s.user = sess[c].user /\ s.char = sess[c].char
  /\ s.char = NoChar <=> s.map = NoMap
  /\ p \in InGame <=> s.char # NoChar

LEMMA SessionMoves ==
  ASSUME SessionsFit, WiresOK, NEW c \in Conns, Live(c), NEW s \in Sessions,
         NEW p \in (Waiting \cup {"choose", "enter", "play"}),
         SessionBecomes(c, s, p), ListsOwn', jobs' \subseteq jobs,
         \A j \in jobs' : j.kind = "list" /\ j.conn = c /\ j.key = s.key => p = "list"
  PROVE  SessionsFit'
<1>0. /\ sess' = [sess EXCEPT ![c] = s] /\ phase' = [phase EXCEPT ![c] = p]
      /\ byChar' = byChar /\ keys' = keys
      /\ s.key = sess[c].key /\ s.user = sess[c].user /\ s.char = sess[c].char
      /\ s.char = NoChar <=> s.map = NoMap
      /\ p \in InGame <=> s.char # NoChar
  BY DEF SessionBecomes
<1>1. s # NoSess
  BY SessionIsNone DEF WiresOK
<1>2. /\ \A d \in Conns : Live(d)' <=> Live(d)
      /\ sess'[c] = s /\ phase'[c] = p
      /\ \A d \in Conns : d # c => sess'[d] = sess[d] /\ phase'[d] = phase[d]
  BY <1>0, <1>1 DEF SessionsFit, SessTypes, Live
<1>3. \A d \in Conns : Live(d) => /\ sess'[d].key = sess[d].key
                                  /\ sess'[d].user = sess[d].user
                                  /\ sess'[d].char = sess[d].char
  BY <1>0, <1>2
<1>4. SessTypes'
  <2>1. sess' \in [Conns -> Sessions \cup {NoSess}]
    BY <1>0 DEF SessionsFit, SessTypes
  <2>2. \A d \in Conns : Live(d)' => (sess'[d].char = NoChar <=> sess'[d].map = NoMap)
    BY <1>0, <1>2 DEF SessionsFit, SessTypes
  <2>3. phase' \in [Conns -> Waiting \cup {"none", "choose", "enter", "play"}]
    BY <1>0 DEF SessionsFit, SessTypes
  <2>4. \A d \in Conns : phase'[d] = "none" <=> ~Live(d)'
    BY <1>0, <1>2 DEF SessionsFit, SessTypes, Waiting
  <2>5. QED
    BY <1>0, <2>1, <2>2, <2>3, <2>4 DEF SessionsFit, SessTypes, Sessions
<1>5. PhasesFit'
  BY <1>0, <1>2 DEF SessionsFit, PhasesFit
<1>6. JobsFit'
  <2>1. ASSUME NEW j \in jobs', j.kind # "logout", Live(j.conn)', sess'[j.conn].key = j.key
        PROVE  sess'[j.conn].user = j.user /\ (j.kind = "list" => phase'[j.conn] = "list")
    <3>0. j.conn \in Conns
      BY <2>1, QueryFields
    <3>1. sess[j.conn].user = j.user /\ (j.kind = "list" => phase[j.conn] = "list")
      BY <1>2, <1>3, <2>1, <3>0 DEF SessionsFit, JobsFit
    <3>2. j.kind = "list" => phase'[j.conn] = "list"
      BY <1>0, <1>2, <2>1, <3>0, <3>1
    <3>3. QED
      BY <1>2, <1>3, <2>1, <3>0, <3>1, <3>2
  <2>2. QED
    BY <2>1 DEF SessionsFit, JobsFit
<1>7. OwnsChar'
  BY <1>2, <1>3 DEF SessionsFit, OwnsChar
<1>8. TablesAgree'
  BY <1>0, <1>2, <1>3 DEF SessionsFit, TablesAgree
<1>9. QED
  BY <1>4, <1>5, <1>6, <1>7, <1>8 DEF SessionsFit

-----------------------------------------------------------------------------
(* What clients ask for. *)

(* The session of a player has a map server. *)
LEMMA PlayerAt ==
  ASSUME Inv, NEW c \in Conns, Live(c), sess[c].char # NoChar
  PROVE  /\ sess[c].char \in Chars /\ sess[c].map \in Maps
         /\ sess[c].key \in 1..keys /\ sess[c].user \in Users
         /\ byChar[sess[c].char] = c
<1>1. sess[c] \in Sessions
  BY LiveSession, InvParts DEF SessionsFit
<1>2. QED
  BY <1>1, EntryAssumption DEF Inv, TypeOK, TablesAgree, Sessions

(* A message about the player at c. *)
LEMMA PlayerMessage ==
  ASSUME Inv, NEW c \in Conns, Live(c), sess[c].char # NoChar, NEW kind, NEW m,
         \/ kind \in PlayKinds /\ m \in Maps \cup {NoMap}
         \/ kind \in WayKinds /\ m \in Maps
  PROVE  /\ Msg(kind, c, m) \in Messages
         /\ Msg(kind, c, m).kind = kind /\ Msg(kind, c, m).user = sess[c].user
BY PlayerAt DEF Msg, Messages

LEMMA RequestKeeps ==
  ASSUME Inv, NEW c \in Conns, Live(c),
         NEW p \in (Waiting \cup {"choose", "enter", "play"}),
         p \in InGame <=> phase[c] \in InGame, phase[c] # "list",
         sess' = sess, byChar' = byChar, phase' = [phase EXCEPT ![c] = p],
         NEW js, jobs' = jobs \cup js,
         js = {} \/ \E j \in Queries :
           /\ js = {j}
           /\ j.kind \in {"make", "name", "remove"}
           /\ j.conn = c /\ j.key = sess[c].key /\ j.user = sess[c].user
           /\ j.kind = "make" => Owner[j.char] = j.user,
         up' = up \/ (\E m \in Maps : \E x \in Messages : x.kind # "disconnected" /\ Sent(m, x)),
         UNCHANGED <<row, saved, down, known, alive, world, keys, crossed>>
  PROVE  Inv'
<1>1. SessionsFit /\ BaseTypes /\ WiresOK /\ RowsFit
  BY InvParts
<1>2. SessionsFit'
  <2>1. \A j \in js : /\ j.kind \in {"make", "name", "remove"}
                      /\ j.conn = c /\ j.key = sess[c].key /\ j.user = sess[c].user
                      /\ j.kind = "make" => Owner[j.char] = j.user
    OBVIOUS
  <2>2. QED
    BY <1>1, <2>1, PhaseMoves
<1>3. BaseTypes'
  BY <1>1 DEF BaseTypes
<1>4. up' \in [Maps -> Seq(Messages)] /\ \A m \in Maps : Quieter(up'[m], up[m], "disconnected")
  <2>1. CASE up' = up
    BY <1>1, <2>1, QuieterSame DEF WiresOK
  <2>2. ASSUME NEW m \in Maps, NEW x \in Messages, x.kind # "disconnected", Sent(m, x)
        PROVE  up' \in [Maps -> Seq(Messages)] /\ \A n \in Maps : Quieter(up'[n], up[n], "disconnected")
    BY <1>1, <2>2, SentOne, SentQuietly DEF WiresOK
  <2>3. QED
    BY <2>1, <2>2
<1>5. jobs' \subseteq Queries
  BY <1>1 DEF WiresOK
<1>6. WiresOK'
  BY <1>1, <1>4, <1>5 DEF WiresOK, Messages, Entries, Queries, Logout
<1>7. RowsFit'
  <2>1. \A u \in Users : Logout(u) \in jobs' => Logout(u) \in jobs
    BY DEF Logout
  <2>2. QuietLinks
    BY <1>4, QuieterSame DEF QuietLinks
  <2>3. QED
    BY <1>1, <2>1, <2>2, RowsStay DEF Live
<1>8. QED
  BY <1>2, <1>3, <1>6, <1>7, InvPartsNext

LEMMA PhaseOf ==
  ASSUME Inv, NEW c \in Conns, Live(c)
  PROVE  phase[c] \in InGame <=> sess[c].char # NoChar
BY DEF Inv, PhasesFit

LEMMA KeepsAskings ==
  ASSUME Inv, NEW c \in Conns, NEW x,
         \/ x \in Chars /\ (CharacterMakeSyn(c, x) \/ CharacterRemoveSyn(c, x))
         \/ CharacterNameCheckSyn(c)
  PROVE  Inv'
<1>1. Live(c) /\ phase[c] = "choose"
  BY DEF CharacterMakeSyn, CharacterNameCheckSyn, CharacterRemoveSyn
<1>2. sess[c].key \in 1..keys /\ sess[c].user \in Users
  BY <1>1, LiveSession, InvParts DEF SessionsFit, Sessions
<1>3. /\ x \in Chars => Job("make", c, x) \in Queries /\ Job("remove", c, x) \in Queries
      /\ Job("name", c, NoChar) \in Queries
  BY <1>2 DEF Job, Queries
<1>4. UNCHANGED <<row, saved, up, down, known, alive, world, keys, crossed, sess, byChar>>
  BY DEF CharacterMakeSyn, CharacterNameCheckSyn, CharacterRemoveSyn, Moves, maps
<1>5. CASE x \in Chars /\ CharacterMakeSyn(c, x)
  <2>1. /\ phase' = [phase EXCEPT ![c] = "make"] /\ jobs' = jobs \cup {Job("make", c, x)}
        /\ Owner[x] = sess[c].user
    BY <1>5 DEF CharacterMakeSyn, CreateCharacter, Phase
  <2>2. "make" \in Waiting /\ "make" \notin InGame /\ "choose" \notin InGame
    BY DEF Waiting, InGame
  <2>3. QED
    BY <1>1, <1>3, <1>4, <1>5, <2>1, <2>2, RequestKeeps DEF Job
<1>6. CASE CharacterNameCheckSyn(c)
  <2>1. phase' = [phase EXCEPT ![c] = "name"] /\ jobs' = jobs \cup {Job("name", c, NoChar)}
    BY <1>6 DEF CharacterNameCheckSyn, CharacterNameCheck, Phase
  <2>2. "name" \in Waiting /\ "name" \notin InGame /\ "choose" \notin InGame
    BY DEF Waiting, InGame
  <2>3. QED
    BY <1>1, <1>3, <1>4, <1>5, <2>1, <2>2, RequestKeeps DEF Job
<1>7. CASE x \in Chars /\ CharacterRemoveSyn(c, x)
  <2>1. phase' = [phase EXCEPT ![c] = "make"] /\ jobs' = jobs \cup {Job("remove", c, x)}
    BY <1>7 DEF CharacterRemoveSyn, DeleteCharacter, Phase
  <2>2. "make" \in Waiting /\ "make" \notin InGame /\ "choose" \notin InGame
    BY DEF Waiting, InGame
  <2>3. QED
    BY <1>1, <1>3, <1>4, <1>7, <2>1, <2>2, RequestKeeps DEF Job
<1>8. QED
  BY <1>5, <1>6, <1>7

LEMMA KeepsRequests ==
  ASSUME Inv, NEW c \in Conns, NEW x, NEW m, NEW way,
         \/ x \in Chars /\ ChannelInfoSyn(c, x)
         \/ EnterMap(c)
         \/ m \in Maps /\ GoesTo(c, m, way)
         \/ BackToCharSelSyn(c)
  PROVE  Inv'
<1>1. Live(c) /\ phase[c] \in {"choose", "enter", "play"} /\ sess[c] \in Sessions
  BY LiveSession, InvParts DEF SessionsFit, ChannelInfoSyn, EnterMap, GoesTo, BackToCharSelSyn
<1>2. UNCHANGED <<row, saved, jobs, down, known, alive, world, keys, crossed, sess, byChar>>
  BY DEF ChannelInfoSyn, EnterMap, GoesTo, BackToCharSelSyn, Moves, base, limits
<1>3. jobs' = jobs \cup {}
  BY <1>2
<1>4. /\ {"channel", "load", "leave", "back"} \subseteq Waiting
      /\ "channel" \notin InGame /\ "choose" \notin InGame
      /\ {"load", "leave", "back", "enter", "play"} \subseteq InGame
  BY DEF Waiting, InGame
<1>5. CASE x \in Chars /\ ChannelInfoSyn(c, x)
  <2>1. /\ phase' = [phase EXCEPT ![c] = "channel"] /\ phase[c] = "choose"
        /\ sess[c].list[x] # NoMap /\ Sent(sess[c].list[x], ChannelMsg("channel", c))
    BY <1>5 DEF ChannelInfoSyn, Phase
  <2>2. sess[c].list[x] \in Maps
    BY <1>1, <1>5, <2>1 DEF Sessions
  <2>3. ChannelMsg("channel", c) \in Messages /\ ChannelMsg("channel", c).kind # "disconnected"
    BY <1>1 DEF ChannelMsg, Messages, Sessions
  <2>4. QED
    BY <1>1, <1>2, <1>3, <1>4, <2>1, <2>2, <2>3, RequestKeeps
<1>6. ASSUME sess[c].char # NoChar, NEW kind, NEW n, kind # "disconnected",
             (kind \in PlayKinds /\ n = NoMap) \/ (kind \in WayKinds /\ n \in Maps),
             Sent(sess[c].map, Msg(kind, c, n))
      PROVE  \E k \in Maps : \E y \in Messages : y.kind # "disconnected" /\ Sent(k, y)
  BY <1>1, <1>6, PlayerAt, PlayerMessage
<1>7. CASE EnterMap(c)
  <2>1. /\ phase' = [phase EXCEPT ![c] = "load"] /\ phase[c] = "enter"
        /\ Sent(sess[c].map, Msg("gamein", c, NoMap))
    BY <1>7 DEF EnterMap, Phase
  <2>2. sess[c].char # NoChar
    BY <1>1, <1>4, <2>1, PhaseOf
  <2>3. \E k \in Maps : \E y \in Messages : y.kind # "disconnected" /\ Sent(k, y)
    BY <1>6, <2>1, <2>2 DEF PlayKinds
  <2>4. QED
    BY <1>1, <1>2, <1>3, <1>4, <2>1, <2>3, RequestKeeps
<1>8. CASE m \in Maps /\ GoesTo(c, m, way)
  <2>1. way \in WayKinds /\ phase[c] = "play"
    BY <1>8, EntryAssumption DEF GoesTo, WayKinds
  <2>2. sess[c].char # NoChar
    BY <1>1, <1>4, <2>1, PhaseOf
  <2>3. CASE Sent(sess[c].map, Msg(way, c, m)) /\ phase' = [phase EXCEPT ![c] = "leave"]
    <3>1. \E k \in Maps : \E y \in Messages : y.kind # "disconnected" /\ Sent(k, y)
      BY <1>6, <1>8, <2>1, <2>2, <2>3 DEF WayKinds
    <3>2. QED
      BY <1>1, <1>2, <1>3, <1>4, <2>1, <2>3, <3>1, RequestKeeps
  <2>4. CASE UNCHANGED <<up, phase>>
    <3>1. phase' = [phase EXCEPT ![c] = "play"]
      BY <2>1, <2>4, InvParts DEF SessionsFit, SessTypes
    <3>2. QED
      BY <1>1, <1>2, <1>3, <2>1, <2>4, <3>1, RequestKeeps
  <2>5. QED
    BY <1>8, <2>3, <2>4 DEF GoesTo, Phase
<1>9. CASE BackToCharSelSyn(c)
  <2>1. /\ phase' = [phase EXCEPT ![c] = "back"] /\ phase[c] = "play"
        /\ Sent(sess[c].map, Msg("back", c, NoMap))
    BY <1>9 DEF BackToCharSelSyn, Phase
  <2>2. sess[c].char # NoChar
    BY <1>1, <1>4, <2>1, PhaseOf
  <2>3. \E k \in Maps : \E y \in Messages : y.kind # "disconnected" /\ Sent(k, y)
    BY <1>6, <2>1, <2>2 DEF PlayKinds
  <2>4. QED
    BY <1>1, <1>2, <1>3, <1>4, <2>1, <2>3, RequestKeeps
<1>10. QED
  BY <1>5, <1>7, <1>8, <1>9

-----------------------------------------------------------------------------
(* Sessions begin, and choose a character. *)

(* An account has one session. *)
LEMMA OneSession ==
  ASSUME Inv, NEW c \in Conns, NEW d \in Conns, Live(c), Live(d), sess[c].user = sess[d].user
  PROVE  c = d
<1>1. sess[c].user \in Users
  BY LiveSession, InvParts DEF SessionsFit, Sessions
<1>2. Fits(sess[c].user)
  BY <1>1, InvParts DEF RowsFit
<1>3. <<"session", c>> \in Keepers(sess[c].user) /\ <<"session", d>> \in Keepers(sess[c].user)
  BY KeptBy
<1>4. <<"session", c>> = <<"session", d>>
  BY <1>2, <1>3 DEF Fits
<1>5. QED
  BY <1>4

(* The character of a list is free, or its own session's. *)
LEMMA ListedIsFree ==
  ASSUME Inv, NEW c \in Conns, NEW x \in Chars, Live(c), ~crossed, sess[c].list[x] # NoMap,
         byChar[x] # NoConn
  PROVE  byChar[x] = c /\ sess[c].char = x
<1>1. byChar[x] \in Conns
  BY DEF Inv, TypeOK
<1>2. Live(byChar[x]) /\ sess[byChar[x]].char = x
  BY <1>1 DEF Inv, TablesAgree
<1>3. Owner[x] = sess[c].user
  BY DEF Inv, ListsOwn
<1>4. x # NoChar
  BY EntryAssumption
<1>5. Owner[x] = sess[byChar[x]].user
  BY <1>1, <1>2, <1>4 DEF Inv, OwnsChar
<1>6. QED
  BY <1>1, <1>2, <1>3, <1>5, OneSession

LEMMA KeepsSelect ==
  ASSUME Inv, NEW c \in Conns, NEW x \in Chars, CharacterSelectSyn(c, x)
  PROVE  Inv'
<1> DEFINE m == sess[c].list[x]
<1>1. /\ Live(c) /\ phase[c] = "choose" /\ ~crossed /\ m # NoMap
      /\ sess' = [sess EXCEPT ![c].char = x, ![c].map = m]
      /\ byChar' = [byChar EXCEPT ![x] = c]
      /\ phase' = [phase EXCEPT ![c] = "enter"]
      /\ UNCHANGED <<base, maps, limits>>
  BY DEF CharacterSelectSyn, Phase
<1>2. SessionsFit /\ BaseTypes /\ WiresOK /\ RowsFit
  BY InvParts
<1>3. sess[c] \in Sessions /\ m \in Maps /\ sess \in [Conns -> Sessions \cup {NoSess}]
  BY <1>1, <1>2, LiveSession DEF SessionsFit, SessTypes, Sessions
<1>4. x # NoChar
  BY EntryAssumption
<1>5. sess[c].char = NoChar
  BY <1>1, PhaseOf DEF InGame
<1>6. byChar[x] = NoConn
  BY <1>1, <1>4, <1>5, ListedIsFree
<1>7. /\ sess'[c] = [sess[c] EXCEPT !.char = x, !.map = m]
      /\ \A d \in Conns : d # c => sess'[d] = sess[d]
  BY <1>1, <1>3
<1>8. /\ sess'[c] \in Sessions /\ sess'[c].char = x /\ sess'[c].map = m
      /\ sess'[c].key = sess[c].key /\ sess'[c].user = sess[c].user /\ sess'[c].list = sess[c].list
  BY <1>3, <1>7 DEF Sessions
<1>9. Live(c)' /\ \A d \in Conns : Live(d)' <=> Live(d)
  BY <1>1, <1>2, <1>7, <1>8, SessionIsNone DEF Live, WiresOK
<1>10. SessTypes'
  <2>1. sess' \in [Conns -> Sessions \cup {NoSess}]
    BY <1>1, <1>3, <1>8
  <2>2. \A d \in Conns : Live(d)' => (sess'[d].char = NoChar <=> sess'[d].map = NoMap)
    BY <1>1, <1>2, <1>4, <1>7, <1>8, <1>9 DEF SessionsFit, SessTypes
  <2>3. byChar' \in [Chars -> Conns \cup {NoConn}]
    BY <1>1, <1>2 DEF SessionsFit, SessTypes
  <2>4. /\ phase' \in [Conns -> Waiting \cup {"none", "choose", "enter", "play"}]
        /\ \A d \in Conns : phase'[d] = "none" <=> ~Live(d)'
    BY <1>1, <1>2, <1>9 DEF SessionsFit, SessTypes
  <2>5. QED
    BY <1>1, <2>1, <2>2, <2>3, <2>4 DEF SessTypes, Sessions, limits
<1>11. PhasesFit'
  <2>1. \A d \in Conns : Live(d)' => (phase'[d] \in InGame <=> sess'[d].char # NoChar)
    BY <1>1, <1>2, <1>4, <1>7, <1>8, <1>9 DEF SessionsFit, SessTypes, PhasesFit, InGame
  <2>2. QED
    BY <2>1 DEF PhasesFit
<1>12. JobsFit'
  <2>1. ASSUME NEW j \in jobs', j.kind # "logout", Live(j.conn)', sess'[j.conn].key = j.key
        PROVE  sess'[j.conn].user = j.user /\ (j.kind = "list" => phase'[j.conn] = "list")
    <3>1. j \in jobs /\ j.conn \in Conns
      BY <1>1, <1>2, <2>1, QueryFields DEF base
    <3>2. /\ sess'[j.conn].key = sess[j.conn].key /\ sess'[j.conn].user = sess[j.conn].user
          /\ Live(j.conn)
      BY <1>7, <1>8, <1>9, <2>1, <3>1
    <3>3. sess[j.conn].user = j.user /\ (j.kind = "list" => phase[j.conn] = "list")
      BY <1>2, <2>1, <3>1, <3>2 DEF SessionsFit, JobsFit
    <3>4. QED
      BY <1>1, <1>2, <3>1, <3>2, <3>3 DEF SessionsFit, SessTypes
  <2>2. QED
    BY <1>1, <1>2, <2>1 DEF SessionsFit, JobsFit, base
<1>13. OwnsChar'
  <2>1. Owner[x] = sess[c].user
    BY <1>1 DEF Inv, ListsOwn
  <2>2. ASSUME NEW d \in Conns, Live(d)', sess'[d].char # NoChar
        PROVE  Owner[sess'[d].char] = sess'[d].user
    <3>1. CASE d = c
      BY <1>8, <2>1, <3>1
    <3>2. CASE d # c
      <4>1. sess'[d] = sess[d] /\ Live(d)
        BY <1>7, <1>9, <2>2, <3>2
      <4>2. QED
        BY <1>2, <2>2, <4>1 DEF SessionsFit, OwnsChar
    <3>3. QED
      BY <3>1, <3>2
  <2>3. QED
    BY <2>2 DEF OwnsChar
<1>14. ListsOwn'
  <2>1. \A d \in Conns : Live(d)' => /\ Live(d) /\ sess'[d].list = sess[d].list
                                     /\ sess'[d].user = sess[d].user
    BY <1>7, <1>8, <1>9
  <2>2. QED
    BY <1>1, <1>2, <2>1 DEF SessionsFit, ListsOwn
<1>15. TablesAgree'
  <2>1. ASSUME NEW y \in Chars, NEW d \in Conns
        PROVE  byChar'[y] = d <=> Live(d)' /\ sess'[d].char = y
    <3>1. byChar[y] = d <=> Live(d) /\ sess[d].char = y
      BY <1>2 DEF SessionsFit, TablesAgree
    <3>2. byChar \in [Chars -> Conns \cup {NoConn}] /\ NoConn \notin Conns /\ NoChar \notin Chars
      BY <1>2, EntryAssumption DEF SessionsFit, SessTypes
    <3>3. CASE y = x
      <4>1. byChar'[y] = c
        BY <1>1, <3>2, <3>3
      <4>2. ~(Live(d) /\ sess[d].char = y)
        BY <1>6, <3>1, <3>2, <3>3
      <4>3. d # c => ~(Live(d)' /\ sess'[d].char = y)
        BY <1>7, <1>9, <4>2
      <4>4. QED
        BY <1>8, <1>9, <3>3, <4>1, <4>3
    <3>4. CASE y # x
      BY <1>1, <1>5, <1>7, <1>8, <1>9, <3>1, <3>2, <3>4
    <3>5. QED
      BY <3>3, <3>4
  <2>2. QED
    BY <2>1 DEF TablesAgree
<1>16. SessionsFit'
  BY <1>10, <1>11, <1>12, <1>13, <1>14, <1>15 DEF SessionsFit
<1>17. BaseTypes' /\ WiresOK'
  <2>1. BaseTypes'
    BY <1>1, <1>2 DEF BaseTypes, base, maps
  <2>2. Messages' = Messages /\ Entries' = Entries /\ Queries' = Queries
    BY <1>1 DEF Messages, Entries, Queries, Logout, limits
  <2>3. WiresOK'
    BY <1>1, <1>2, <2>2 DEF WiresOK, base, maps, limits
  <2>4. QED
    BY <2>1, <2>3
<1>18. RowsFit'
  <2>1. QuietLinks
    BY <1>1, QuieterSame DEF QuietLinks, maps
  <2>2. \A d \in Conns : Live(d)' => Live(d) /\ sess'[d].user = sess[d].user
    BY <1>7, <1>8, <1>9
  <2>3. QED
    BY <1>1, <1>2, <2>1, <2>2, RowsStay DEF base
<1>19. QED
  BY <1>16, <1>17, <1>18, InvPartsNext

LEMMA SeqGrows == ASSUME NEW A, NEW B, A \subseteq B PROVE Seq(A) \subseteq Seq(B)
<1>1. ASSUME NEW q \in Seq(A) PROVE q \in Seq(B)
  <2>1. q \in [1..Len(q) -> A] /\ Len(q) \in Nat
    BY LenProperties
  <2>2. q \in [1..Len(q) -> B]
    BY <2>1
  <2>3. QED
    BY <2>1, <2>2, SeqDef
<1>2. QED
  BY <1>1

LEMMA KeepsConnect ==
  ASSUME Inv, NEW c \in Conns, NEW u \in Users, Connect(c, u)
  PROVE  Inv'
<1> DEFINE new == [key |-> keys + 1, user |-> u, char |-> NoChar, map |-> NoMap,
                   list |-> [x \in Chars |-> NoMap]]
           query == [kind |-> "list", conn |-> c, key |-> keys + 1, user |-> u, char |-> NoChar]
<1>1. /\ ~Live(c) /\ ~row[u] /\ keys' = keys + 1 /\ row' = [row EXCEPT ![u] = TRUE]
      /\ sess' = [sess EXCEPT ![c] = new] /\ jobs' = jobs \cup {query}
      /\ phase' = [phase EXCEPT ![c] = "list"]
      /\ UNCHANGED <<byChar, saved, up, down, known, alive, world, crossed>>
  BY DEF Connect, Phase, maps
<1>2. SessionsFit /\ BaseTypes /\ WiresOK /\ RowsFit
  BY InvParts
<1>3. keys \in Nat /\ keys' \in Nat /\ 1..keys \subseteq 1..keys' /\ keys + 1 \in 1..keys' /\ keys + 1 \notin 1..keys
  BY <1>1, <1>2 DEF WiresOK
<1>4. new \in Sessions' /\ Sessions \subseteq Sessions' /\ new # NoSess /\ NoSess \notin Sessions'
  BY <1>3, EntryAssumption DEF Sessions
<1>5. /\ sess'[c] = new /\ Live(c)'
      /\ \A d \in Conns : d # c => sess'[d] = sess[d] /\ (Live(d)' <=> Live(d))
  BY <1>1, <1>2, <1>4 DEF SessionsFit, SessTypes, Live
<1>6. SessTypes'
  <2>1. sess' \in [Conns -> Sessions' \cup {NoSess}]
    BY <1>1, <1>2, <1>4 DEF SessionsFit, SessTypes
  <2>2. \A d \in Conns : Live(d)' => (sess'[d].char = NoChar <=> sess'[d].map = NoMap)
    BY <1>2, <1>5 DEF SessionsFit, SessTypes
  <2>3. /\ phase' \in [Conns -> Waiting \cup {"none", "choose", "enter", "play"}]
        /\ \A d \in Conns : phase'[d] = "none" <=> ~Live(d)'
    BY <1>1, <1>2, <1>5 DEF SessionsFit, SessTypes, Waiting
  <2>4. QED
    BY <1>1, <1>2, <2>1, <2>2, <2>3 DEF SessionsFit, SessTypes
<1>7. PhasesFit'
  <2>1. \A d \in Conns : Live(d)' => (phase'[d] \in InGame <=> sess'[d].char # NoChar)
    BY <1>1, <1>2, <1>5 DEF SessionsFit, SessTypes, PhasesFit, InGame
  <2>2. QED
    BY <2>1 DEF PhasesFit
<1>8. JobsFit'
  <2>1. ASSUME NEW j \in jobs', j.kind # "logout", Live(j.conn)', sess'[j.conn].key = j.key
        PROVE  sess'[j.conn].user = j.user /\ (j.kind = "list" => phase'[j.conn] = "list")
    <3>1. CASE j = query
      BY <1>1, <1>2, <1>5, <3>1 DEF SessionsFit, SessTypes
    <3>2. CASE j \in jobs
      <4>1. j.conn \in Conns /\ j.key \in 1..keys
        BY <1>2, <2>1, <3>2, QueryFields
      <4>2. j.conn # c
        BY <1>3, <1>5, <2>1, <4>1
      <4>3. sess[j.conn].user = j.user /\ (j.kind = "list" => phase[j.conn] = "list")
        BY <1>2, <1>5, <2>1, <3>2, <4>1, <4>2 DEF SessionsFit, JobsFit
      <4>4. QED
        BY <1>1, <1>2, <1>5, <4>1, <4>2, <4>3 DEF SessionsFit, SessTypes
    <3>3. QED
      BY <1>1, <2>1, <3>1, <3>2
  <2>2. \A j \in jobs' : j.kind = "make" => Owner[j.char] = j.user
    BY <1>1, <1>2 DEF SessionsFit, JobsFit
  <2>3. QED
    BY <2>1, <2>2 DEF JobsFit
<1>9. OwnsChar'
  BY <1>2, <1>5 DEF SessionsFit, OwnsChar
<1>10. ListsOwn'
  <2>1. \A x \in Chars : new.list[x] = NoMap
    OBVIOUS
  <2>2. QED
    BY <1>1, <1>2, <1>5, <2>1 DEF SessionsFit, ListsOwn
<1>11. TablesAgree'
  <2>1. ASSUME NEW x \in Chars, NEW d \in Conns PROVE byChar'[x] = d <=> Live(d)' /\ sess'[d].char = x
    <3>1. byChar[x] = d <=> Live(d) /\ sess[d].char = x
      BY <1>2 DEF SessionsFit, TablesAgree
    <3>2. CASE d = c
      BY <1>1, <1>5, <3>1, <3>2, EntryAssumption
    <3>3. CASE d # c
      BY <1>1, <1>5, <3>1, <3>3
    <3>4. QED
      BY <3>2, <3>3
  <2>2. QED
    BY <2>1 DEF TablesAgree
<1>12. SessionsFit'
  BY <1>6, <1>7, <1>8, <1>9, <1>10, <1>11 DEF SessionsFit
<1>13. BaseTypes'
  BY <1>1, <1>2 DEF BaseTypes
<1>14. WiresOK'
  <2>1. Messages \subseteq Messages'
    BY <1>3 DEF Messages
  <2>2. Seq(Messages) \subseteq Seq(Messages')
    BY <2>1, SeqGrows
  <2>3. Entries \subseteq Entries'
    BY <1>3 DEF Entries
  <2>4. Queries \subseteq Queries' /\ query \in Queries'
    BY <1>3 DEF Queries, Logout
  <2>5. /\ up' \in [Maps -> Seq(Messages')] /\ down' \in [Maps -> Seq(Messages')]
        /\ world' \in [Maps -> SUBSET Entries'] /\ jobs' \subseteq Queries'
    BY <1>1, <1>2, <2>2, <2>3, <2>4 DEF WiresOK
  <2>6. QED
    BY <1>1, <1>2, <1>3, <2>5 DEF WiresOK
<1>15. RowsFit'
  <2>1. QuietLinks
    BY <1>1, QuieterSame DEF QuietLinks
  <2>2. \A v \in Users : Logout(v) \in jobs' => Logout(v) \in jobs
    BY <1>1 DEF Logout
  <2>3. ASSUME NEW v \in Users, v # u PROVE Fits(v)'
    <3>1. Fits(v) /\ row'[v] = row[v]
      BY <1>1, <1>2, <2>3 DEF RowsFit, BaseTypes
    <3>2. \A d \in Conns : Live(d)' /\ sess'[d].user = v => Live(d) /\ sess[d].user = v
      BY <1>5, <2>3
    <3>3. QED
      BY <2>1, <2>2, <3>1, <3>2, NoNewKeeper, QuietForAll
  <2>4. Fits(u)'
    <3>1. Fits(u)
      BY <1>2 DEF RowsFit
    <3>2. Keepers(u) = {}
      BY <1>1, <3>1 DEF Fits
    <3>3. ASSUME NEW t \in Keepers(u)' PROVE t = <<"session", c>>
      <4>1. CASE \E d \in Conns : t = <<"session", d>>
        <5>1. PICK d \in Conns : t = <<"session", d>>
          BY <4>1
        <5>2. Live(d)' /\ sess'[d].user = u
          BY <3>3, <5>1, KeptByNext
        <5>3. d # c => Live(d) /\ sess[d].user = u
          BY <1>5, <5>2
        <5>4. QED
          BY <3>2, <5>1, <5>3, KeptBy
      <4>2. CASE t = <<"query", u>>
        <5>1. Logout(u) \in jobs
          BY <2>2, <3>3, <4>2, KeptByNext
        <5>2. QED
          BY <3>2, <5>1, KeptBy
      <4>3. CASE \E m \in Maps : t = <<"notice", m>>
        <5>1. PICK m \in Maps : t = <<"notice", m>>
          BY <4>3
        <5>2. Told(up[m], "disconnected", u) # {}
          BY <1>1, <3>3, <5>1, KeptByNext
        <5>3. QED
          BY <3>2, <5>2, KeptBy
      <4>4. CASE \E m \in Maps : t = <<"answer", m>>
        <5>1. PICK m \in Maps : t = <<"answer", m>>
          BY <4>4
        <5>2. Told(down[m], "logincheck_delete", u) # {}
          BY <1>1, <3>3, <5>1, KeptByNext
        <5>3. QED
          BY <3>2, <5>2, KeptBy
      <4>5. QED
        BY <3>3, <4>1, <4>2, <4>3, <4>4, KeeperIs
    <3>4. row'[u]
      BY <1>1, <1>2 DEF BaseTypes
    <3>5. QED
      BY <1>1, <3>1, <3>3, <3>4 DEF Fits, OneOf, Told
  <2>5. QED
    BY <2>3, <2>4 DEF RowsFit
<1>16. QED
  BY <1>12, <1>13, <1>14, <1>15, InvPartsNext

-----------------------------------------------------------------------------
(* Sessions end. *)

(* Those of cs end, and rows are asked to be removed. *)
LEMMA SessionsEnd ==
  ASSUME SessionsFit, NEW cs \in SUBSET Conns,
         sess' = [c \in Conns |-> IF c \in cs THEN NoSess ELSE sess[c]],
         phase' = [c \in Conns |-> IF c \in cs THEN "none" ELSE phase[c]],
         byChar' = [x \in Chars |-> IF byChar[x] \in cs THEN NoConn ELSE byChar[x]],
         \A j \in jobs' : j \in jobs \/ j.kind = "logout",
         WiresOK, keys' = keys, crossed' = crossed
  PROVE  SessionsFit' /\ \A c \in Conns : Live(c)' => Live(c) /\ c \notin cs /\ sess'[c] = sess[c]
<1>1. \A c \in Conns : /\ c \in cs => ~Live(c)' /\ phase'[c] = "none"
                       /\ c \notin cs => /\ sess'[c] = sess[c] /\ phase'[c] = phase[c]
                                         /\ Live(c)' <=> Live(c)
  BY DEF Live
<1>2. SessTypes'
  <2>1. sess' \in [Conns -> Sessions \cup {NoSess}] /\ byChar' \in [Chars -> Conns \cup {NoConn}]
    BY DEF SessionsFit, SessTypes
  <2>2. \A c \in Conns : Live(c)' => (sess'[c].char = NoChar <=> sess'[c].map = NoMap)
    BY <1>1 DEF SessionsFit, SessTypes
  <2>3. /\ phase' \in [Conns -> Waiting \cup {"none", "choose", "enter", "play"}]
        /\ \A c \in Conns : phase'[c] = "none" <=> ~Live(c)'
    BY <1>1 DEF SessionsFit, SessTypes
  <2>4. QED
    BY <2>1, <2>2, <2>3 DEF SessTypes, Sessions
<1>3. PhasesFit' /\ OwnsChar' /\ ListsOwn'
  BY <1>1 DEF SessionsFit, PhasesFit, OwnsChar, ListsOwn
<1>4. JobsFit'
  <2>1. ASSUME NEW j \in jobs', j.kind # "logout", Live(j.conn)', sess'[j.conn].key = j.key
        PROVE  sess'[j.conn].user = j.user /\ (j.kind = "list" => phase'[j.conn] = "list")
    <3>1. j \in jobs /\ j.conn \in Conns
      BY <2>1, QueryFields
    <3>2. QED
      BY <1>1, <2>1, <3>1 DEF SessionsFit, JobsFit
  <2>2. \A j \in jobs' : j.kind = "make" => Owner[j.char] = j.user
    BY DEF SessionsFit, JobsFit
  <2>3. QED
    BY <2>1, <2>2 DEF JobsFit
<1>5. TablesAgree'
  <2>1. ASSUME NEW x \in Chars, NEW c \in Conns PROVE byChar'[x] = c <=> Live(c)' /\ sess'[c].char = x
    <3>1. byChar[x] = c <=> Live(c) /\ sess[c].char = x
      BY DEF SessionsFit, TablesAgree
    <3>2. byChar'[x] = c <=> byChar[x] = c /\ c \notin cs
      BY EntryAssumption
    <3>3. QED
      BY <1>1, <3>1, <3>2
  <2>2. QED
    BY <2>1 DEF TablesAgree
<1>6. QED
  BY <1>1, <1>2, <1>3, <1>4, <1>5 DEF SessionsFit

LEMMA LogoutIs ==
  ASSUME NEW u, NEW v
  PROVE  Logout(u).kind = "logout" /\ (Logout(u) = Logout(v) => u = v)
<1>1. Logout(u).user = u /\ Logout(v).user = v
  BY DEF Logout
<1>2. QED
  BY <1>1 DEF Logout

LEMMA GoneEnds ==
  ASSUME Inv, NEW cs \in SUBSET Conns, \A c \in cs : Live(c), NEW more,
         more \subseteq {Logout(sess[c].user) : c \in cs}, Gone(cs, more), keys' = keys, crossed' = crossed
  PROVE  /\ SessionsFit'
         /\ \A c \in Conns : Live(c)' => Live(c) /\ c \notin cs /\ sess'[c] = sess[c]
         /\ \A j \in jobs' : j \in jobs \/ \E c \in cs : j = Logout(sess[c].user)
         /\ \A c \in cs : sess[c].char = NoChar => Logout(sess[c].user) \in jobs'
         /\ jobs \cup more \subseteq jobs'
         /\ jobs' \subseteq Queries
<1> DEFINE out == {c \in cs : sess[c].char # NoChar}
<1>1. /\ sess' = [c \in Conns |-> IF c \in cs THEN NoSess ELSE sess[c]]
      /\ phase' = [c \in Conns |-> IF c \in cs THEN "none" ELSE phase[c]]
      /\ byChar' = [x \in Chars |-> IF \E c \in out : sess[c].char = x THEN NoConn ELSE byChar[x]]
      /\ jobs' = jobs \cup {Logout(sess[c].user) : c \in cs \ out} \cup more
  BY DEF Gone
<1>2. SessionsFit /\ WiresOK
  BY InvParts
<1>3. ASSUME NEW x \in Chars PROVE (\E c \in out : sess[c].char = x) <=> byChar[x] \in cs
  BY <1>2, EntryAssumption DEF SessionsFit, TablesAgree
<1>4. byChar' = [x \in Chars |-> IF byChar[x] \in cs THEN NoConn ELSE byChar[x]]
  BY <1>1, <1>3
<1>5. \A j \in jobs' : j \in jobs \/ \E c \in cs : j = Logout(sess[c].user)
  BY <1>1
<1>6. \A j \in jobs' : j \in jobs \/ j.kind = "logout"
  BY <1>5, LogoutIs
<1>7. \A c \in cs : sess[c].user \in Users
  BY <1>2, LiveSession DEF SessionsFit, Sessions
<1>8. jobs' \subseteq Queries
  BY <1>2, <1>5, <1>7 DEF WiresOK, Queries
<1>9. \A c \in cs : sess[c].char = NoChar => Logout(sess[c].user) \in jobs'
  BY <1>1
<1>10. SessionsFit' /\ \A c \in Conns : Live(c)' => Live(c) /\ c \notin cs /\ sess'[c] = sess[c]
  BY <1>1, <1>2, <1>4, <1>6, SessionsEnd
<1>11. QED
  BY <1>1, <1>5, <1>8, <1>9, <1>10

(* OnDisconnectUser, by whatever message. *)
LEMMA UserGone ==
  ASSUME Inv, NEW c \in Conns, Live(c), NEW u, u = sess[c].user, Gone({c}, {}),
         IF sess[c].char = NoChar THEN up' = up ELSE Sent(sess[c].map, Msg("disconnected", c, NoMap)),
         down' \in [Maps -> Seq(Messages)],
         \A m \in Maps : Quieter(down'[m], down[m], "logincheck_delete"),
         UNCHANGED <<row, saved, known, alive, world, keys, crossed>>
  PROVE  Inv'
<1> DEFINE msg == Msg("disconnected", c, NoMap)
<1>1. SessionsFit /\ BaseTypes /\ WiresOK /\ RowsFit
  BY InvParts
<1>2. /\ SessionsFit'
      /\ \A d \in Conns : Live(d)' => Live(d) /\ d # c /\ sess'[d] = sess[d]
      /\ \A j \in jobs' : j \in jobs \/ j = Logout(u)
      /\ sess[c].char = NoChar => Logout(u) \in jobs'
      /\ jobs' \subseteq Queries
  <2>1. /\ {c} \in SUBSET Conns /\ \A d \in {c} : Live(d)
        /\ {} \subseteq {Logout(sess[d].user) : d \in {c}}
    OBVIOUS
  <2>2. /\ SessionsFit'
        /\ \A d \in Conns : Live(d)' => Live(d) /\ d \notin {c} /\ sess'[d] = sess[d]
        /\ \A j \in jobs' : j \in jobs \/ \E d \in {c} : j = Logout(sess[d].user)
        /\ \A d \in {c} : sess[d].char = NoChar => Logout(sess[d].user) \in jobs'
        /\ jobs' \subseteq Queries
    BY <2>1, GoneEnds
  <2>3. QED
    BY <2>2
<1>3. sess[c].char # NoChar => jobs' = jobs
  BY DEF Gone
<1>4. u \in Users
  BY <1>1, LiveSession DEF SessionsFit, Sessions
<1>5. sess[c].char # NoChar =>
        /\ sess[c].map \in Maps /\ msg \in Messages /\ msg.kind = "disconnected" /\ msg.user = u
        /\ Sent(sess[c].map, msg)
  BY PlayerAt, PlayerMessage DEF PlayKinds
<1>6. up \in [Maps -> Seq(Messages)]
  BY <1>1 DEF WiresOK
<1>7. up' \in [Maps -> Seq(Messages)]
  <2>1. CASE sess[c].char = NoChar
    BY <1>6, <2>1
  <2>2. CASE sess[c].char # NoChar
    BY <1>5, <1>6, <2>2, SentOne
  <2>3. QED
    BY <2>1, <2>2
<1>8. BaseTypes'
  BY <1>1 DEF BaseTypes
<1>9. WiresOK'
  BY <1>1, <1>2, <1>7 DEF WiresOK, Messages, Entries, Queries, Logout
<1>10. ASSUME NEW v \in Users, v # u PROVE Fits(v)'
  <2>1. \A m \in Maps : QuietFor(up'[m], up[m], "disconnected", v)
    <3>1. CASE sess[c].char = NoChar
      BY <3>1 DEF QuietFor
    <3>2. CASE sess[c].char # NoChar
      BY <1>5, <1>6, <1>10, <3>2, SentQuietlyFor
    <3>3. QED
      BY <3>1, <3>2
  <2>2. QuietLinksFor(v)
    BY <2>1 DEF QuietLinksFor, Quieter
  <2>3. Logout(v) \in jobs' => Logout(v) \in jobs
    BY <1>2, <1>10, LogoutIs
  <2>4. Fits(v)
    BY <1>1 DEF RowsFit
  <2>5. QED
    BY <1>2, <2>2, <2>3, <2>4, NoNewKeeper
<1>11. Fits(u)'
  <2>1. <<"session", c>> \in Keepers(u) /\ Fits(u)
    BY <1>1, <1>4, KeptBy DEF RowsFit
  <2>2. /\ \A d \in Conns : Live(d) /\ sess[d].user = u => d = c
        /\ Logout(u) \notin jobs
        /\ \A m \in Maps : Told(up[m], "disconnected", u) = {}
        /\ \A m \in Maps : Told(down[m], "logincheck_delete", u) = {}
    <3>1. /\ \A d \in Conns : Live(d) /\ sess[d].user = u => <<"session", c>> = <<"session", d>>
          /\ Logout(u) \in jobs => <<"session", c>> = <<"query", u>>
          /\ \A m \in Maps : Told(up[m], "disconnected", u) # {} => <<"session", c>> = <<"notice", m>>
          /\ \A m \in Maps : Told(down[m], "logincheck_delete", u) # {} => <<"session", c>> = <<"answer", m>>
      BY <2>1, OnlyKeeper
    <3>2. QED
      BY <3>1
  <2>3. /\ \A d \in Conns : ~(Live(d)' /\ sess'[d].user = u)
        /\ \A m \in Maps : Told(down'[m], "logincheck_delete", u) = {}
    BY <1>2, <2>2 DEF Quieter, QuietFor
  <2>4. \A m \in Maps : OneOf(down'[m], "logincheck_delete", u)
    BY <2>3 DEF OneOf
  <2>5. CASE sess[c].char = NoChar
    <3>1. \A m \in Maps : Told(up'[m], "disconnected", u) = {}
      BY <2>2, <2>5
    <3>2. \A r \in Keepers(u)' : r = <<"query", u>>
      BY <2>3, <3>1, OnlyKeeperNext
    <3>3. \A m \in Maps : OneOf(up'[m], "disconnected", u)
      BY <3>1 DEF OneOf
    <3>4. QED
      BY <2>1, <2>4, <3>2, <3>3, KeeperMoves
  <2>6. CASE sess[c].char # NoChar
    <3>1. \A m \in Maps : up'[m] = up[m] \/ (m = sess[c].map /\ up'[m] = Append(up[m], msg))
      BY <1>5, <1>6, <2>6, SentOne
    <3>2. \A m \in Maps : Told(up'[m], "disconnected", u) # {} => m = sess[c].map
      BY <2>2, <3>1
    <3>3. \A r \in Keepers(u)' : r = <<"notice", sess[c].map>>
      BY <1>3, <2>2, <2>3, <2>6, <3>2, OnlyKeeperNext
    <3>4. ASSUME NEW m \in Maps PROVE OneOf(up'[m], "disconnected", u)
      <4>1. CASE up'[m] = up[m]
        BY <2>2, <4>1 DEF OneOf
      <4>2. CASE up'[m] = Append(up[m], msg)
        BY <1>5, <1>6, <2>2, <2>6, <4>2, PutIsFirst
      <4>3. QED
        BY <3>1, <4>1, <4>2
    <3>5. QED
      BY <2>1, <2>4, <3>3, <3>4, KeeperMoves
  <2>7. QED
    BY <2>5, <2>6
<1>12. RowsFit'
  BY <1>10, <1>11 DEF RowsFit
<1>13. QED
  BY <1>2, <1>8, <1>9, <1>12, InvPartsNext

LEMMA KeepsDisconnect ==
  ASSUME Inv, NEW c \in Conns, OnDisconnectUser(c)
  PROVE  Inv'
<1>1. /\ Live(c) /\ Gone({c}, {})
      /\ IF sess[c].char = NoChar THEN up' = up ELSE Sent(sess[c].map, Msg("disconnected", c, NoMap))
      /\ UNCHANGED <<row, saved, down, known, alive, world, keys, crossed>>
  BY DEF OnDisconnectUser, limits
<1>2. down' \in [Maps -> Seq(Messages)] /\ \A m \in Maps : Quieter(down'[m], down[m], "logincheck_delete")
  BY <1>1, InvParts, QuieterSame DEF WiresOK
<1>3. QED
  BY <1>1, <1>2, UserGone

LEMMA KeepsBan ==
  ASSUME Inv, NEW x \in Chars, RGMBanCharacter(x) \/ CheatServerBanCharacter(x)
  PROVE  Inv'
<1>1. byChar[x] \in Conns /\ OnDisconnectUser(byChar[x])
  BY DEF RGMBanCharacter, CheatServerBanCharacter, Inv, TypeOK
<1>2. QED
  BY <1>1, KeepsDisconnect

LEMMA KeepsServerDown ==
  ASSUME Inv, NEW m \in Maps, OnDisconnectServer(m)
  PROVE  Inv'
<1> DEFINE there == {c \in Conns : Live(c) /\ sess[c].map = m}
<1>1. /\ Gone(there, {Logout(sess[c].user) : c \in there})
      /\ known' = known \ {m}
      /\ UNCHANGED <<row, saved, up, down, alive, world, keys, crossed>>
  BY DEF OnDisconnectServer, RemoveServer, limits
<1>2. SessionsFit /\ BaseTypes /\ WiresOK /\ RowsFit
  BY InvParts
<1>3. there \in SUBSET Conns /\ \A c \in there : Live(c)
  OBVIOUS
<1>4. /\ SessionsFit'
      /\ \A c \in Conns : Live(c)' => Live(c) /\ c \notin there /\ sess'[c] = sess[c]
      /\ \A j \in jobs' : j \in jobs \/ \E c \in there : j = Logout(sess[c].user)
      /\ jobs' \subseteq Queries
  BY <1>1, <1>3, GoneEnds
<1>5. BaseTypes'
  BY <1>1, <1>2 DEF BaseTypes
<1>6. WiresOK'
  BY <1>1, <1>2, <1>4 DEF WiresOK, Messages, Entries, Queries, Logout
<1>7. QuietLinks
  BY <1>1, QuieterSame DEF QuietLinks
<1>8. ASSUME NEW u \in Users PROVE Fits(u)'
  <2>1. Fits(u) /\ QuietLinksFor(u)
    BY <1>2, <1>7, QuietForAll DEF RowsFit
  <2>2. CASE \E c \in there : sess[c].user = u
    <3>1. PICK c \in there : sess[c].user = u
      BY <2>2
    <3>2. <<"session", c>> \in Keepers(u)
      BY <3>1, KeptBy
    <3>3. /\ \A d \in Conns : Live(d) /\ sess[d].user = u => <<"session", c>> = <<"session", d>>
          /\ \A n \in Maps : Told(up[n], "disconnected", u) # {} => <<"session", c>> = <<"notice", n>>
          /\ \A n \in Maps : Told(down[n], "logincheck_delete", u) # {} => <<"session", c>> = <<"answer", n>>
      BY <2>1, <3>2, OnlyKeeper
    <3>4. /\ \A d \in Conns : ~(Live(d)' /\ sess'[d].user = u)
          /\ \A n \in Maps : Told(up'[n], "disconnected", u) = {}
          /\ \A n \in Maps : Told(down'[n], "logincheck_delete", u) = {}
      BY <1>1, <1>4, <3>1, <3>3
    <3>5. \A r \in Keepers(u)' : r = <<"query", u>>
      BY <3>4, OnlyKeeperNext
    <3>6. \A n \in Maps : OneOf(up'[n], "disconnected", u) /\ OneOf(down'[n], "logincheck_delete", u)
      BY <3>4 DEF OneOf
    <3>7. row'[u] = row[u]
      BY <1>1
    <3>8. QED
      BY <2>1, <3>2, <3>5, <3>6, <3>7, KeeperMoves
  <2>3. CASE ~ \E c \in there : sess[c].user = u
    <3>1. Logout(u) \in jobs' => Logout(u) \in jobs
      BY <1>4, <2>3, LogoutIs
    <3>2. \A d \in Conns : Live(d)' /\ sess'[d].user = u => Live(d) /\ sess[d].user = u
      BY <1>4
    <3>3. QED
      BY <1>1, <2>1, <3>1, <3>2, NoNewKeeper
  <2>4. QED
    BY <2>2, <2>3
<1>9. RowsFit'
  BY <1>8 DEF RowsFit
<1>10. QED
  BY <1>4, <1>5, <1>6, <1>9, InvPartsNext

LEMMA KeepsDisconnectAll ==
  ASSUME Inv, DisconnectAllUser
  PROVE  Inv'
<1> DEFINE on == {c \in Conns : Live(c)}
           At(m) == {c \in on : sess[c].map = m}
           done == jobs \cup {Logout(sess[c].user) : c \in {d \in on : sess[d].char = NoChar}}
<1>1. /\ sess' = [c \in Conns |-> NoSess] /\ phase' = [c \in Conns |-> "none"]
      /\ byChar' = [x \in Chars |-> IF byChar[x] \in on THEN NoConn ELSE byChar[x]]
      /\ row' = [u \in Users |-> row[u] /\ Logout(u) \notin done]
      /\ jobs' = {j \in jobs : j.kind \notin {"logout", "list"}}
      /\ up' = [m \in Maps |-> IF m \in alive /\ At(m) # {}
                               THEN Append(up[m], Msg("disconnected", CHOOSE c \in At(m) : TRUE, NoMap))
                               ELSE up[m]]
      /\ UNCHANGED <<saved, down, known, alive, world, keys, crossed>>
  BY DEF DisconnectAllUser, limits
<1>2. SessionsFit /\ BaseTypes /\ WiresOK /\ RowsFit
  BY InvParts
<1>3. SessionsFit'
  <2>1. /\ sess' = [c \in Conns |-> IF c \in on THEN NoSess ELSE sess[c]]
        /\ phase' = [c \in Conns |-> IF c \in on THEN "none" ELSE phase[c]]
    BY <1>1, <1>2 DEF Live, SessionsFit, SessTypes
  <2>2. \A j \in jobs' : j \in jobs \/ j.kind = "logout"
    BY <1>1
  <2>3. on \in SUBSET Conns
    OBVIOUS
  <2>4. QED
    BY <1>1, <1>2, <2>1, <2>2, <2>3, SessionsEnd
<1>4. BaseTypes'
  <2>1. row' \in [Users -> BOOLEAN]
    BY <1>1
  <2>2. QED
    BY <1>1, <1>2, <2>1 DEF BaseTypes
<1>5. ASSUME NEW m \in Maps
      PROVE  \/ up'[m] = up[m]
             \/ \E c \in Conns : \E x \in Messages :
                  /\ Live(c) /\ sess[c].char # NoChar /\ sess[c].map = m
                  /\ x.kind = "disconnected" /\ x.user = sess[c].user /\ up'[m] = Append(up[m], x)
  <2>1. CASE m \in alive /\ At(m) # {}
    <3>1. PICK c \in At(m) : c = CHOOSE d \in At(m) : TRUE
      BY <2>1
    <3>2. c \in Conns /\ Live(c) /\ sess[c].map = m /\ m # NoMap
      BY <3>1, EntryAssumption
    <3>3. sess[c].char # NoChar
      BY <1>2, <3>2 DEF SessionsFit, SessTypes
    <3>4. /\ Msg("disconnected", c, NoMap) \in Messages
          /\ Msg("disconnected", c, NoMap).kind = "disconnected"
          /\ Msg("disconnected", c, NoMap).user = sess[c].user
      BY <3>2, <3>3, PlayerMessage DEF PlayKinds
    <3>5. up'[m] = Append(up[m], Msg("disconnected", c, NoMap))
      BY <1>1, <2>1, <3>1
    <3>6. QED
      BY <3>2, <3>3, <3>4, <3>5
  <2>2. CASE ~(m \in alive /\ At(m) # {})
    BY <1>1, <2>2
  <2>3. QED
    BY <2>1, <2>2
<1>6. up \in [Maps -> Seq(Messages)]
  BY <1>2 DEF WiresOK
<1>7. WiresOK'
  <2>1. ASSUME NEW m \in Maps PROVE up'[m] \in Seq(Messages)
    <3>1. \A x \in Messages : Append(up[m], x) \in Seq(Messages)
      BY <1>6, AppendProperties
    <3>2. QED
      BY <1>5, <1>6, <3>1
  <2>2. up' \in [Maps -> Seq(Messages)]
    BY <1>1, <2>1
  <2>3. QED
    BY <1>1, <1>2, <2>2 DEF WiresOK, Messages, Entries, Queries, Logout
<1>8. ASSUME NEW u \in Users PROVE Fits(u)'
  <2>1. Fits(u)
    BY <1>2 DEF RowsFit
  <2>2. /\ \A d \in Conns : ~Live(d)'
        /\ Logout(u) \notin jobs'
    BY <1>1, LogoutIs DEF Live
  <2>3. row'[u] <=> row[u] /\ Logout(u) \notin done
    BY <1>1
  <2>4. CASE \E c \in Conns : Live(c) /\ sess[c].user = u
    <3>1. PICK c \in Conns : Live(c) /\ sess[c].user = u
      BY <2>4
    <3>2. <<"session", c>> \in Keepers(u)
      BY <3>1, KeptBy
    <3>3. /\ Logout(u) \in jobs => <<"session", c>> = <<"query", u>>
          /\ \A m \in Maps : Told(up[m], "disconnected", u) # {} => <<"session", c>> = <<"notice", m>>
          /\ \A m \in Maps : Told(down[m], "logincheck_delete", u) # {} => <<"session", c>> = <<"answer", m>>
      BY <2>1, <3>2, OnlyKeeper
    <3>4. /\ Logout(u) \notin jobs
          /\ \A m \in Maps : Told(up[m], "disconnected", u) = {}
          /\ \A m \in Maps : Told(down'[m], "logincheck_delete", u) = {}
      BY <1>1, <3>3
    <3>5. ASSUME NEW m \in Maps
          PROVE  /\ Told(up'[m], "disconnected", u) # {} => sess[c].map = m /\ sess[c].char # NoChar
                 /\ OneOf(up'[m], "disconnected", u)
      <4>1. CASE up'[m] = up[m]
        BY <3>4, <4>1 DEF OneOf
      <4>2. ASSUME NEW d \in Conns, NEW x \in Messages,
                   Live(d), sess[d].char # NoChar, sess[d].map = m,
                   x.user = sess[d].user, up'[m] = Append(up[m], x)
            PROVE  /\ Told(up'[m], "disconnected", u) # {} => sess[c].map = m /\ sess[c].char # NoChar
                   /\ OneOf(up'[m], "disconnected", u)
        <5>1. OneOf(up'[m], "disconnected", u)
          BY <1>6, <3>4, <4>2, PutIsFirst
        <5>2. CASE sess[d].user = u
          <6>1. c = d
            BY <3>1, <4>2, <5>2, OneSession
          <6>2. QED
            BY <4>2, <5>1, <6>1
        <5>3. CASE sess[d].user # u
          <6>1. QuietFor(up'[m], up[m], "disconnected", u)
            BY <1>6, <4>2, <5>3, QuietForAppend
          <6>2. QED
            BY <3>4, <5>1, <6>1 DEF QuietFor
        <5>4. QED
          BY <5>2, <5>3
      <4>3. QED
        BY <1>5, <4>1, <4>2
    <3>6. \A r \in Keepers(u)' : r = <<"notice", sess[c].map>>
      BY <2>2, <3>4, <3>5, OnlyKeeperNext
    <3>7. Keepers(u)' # {} => row'[u]
      <4>1. CASE sess[c].char = NoChar
        <5>1. \A m \in Maps : Told(up'[m], "disconnected", u) = {}
          BY <3>5, <4>1
        <5>2. \A t : \A r \in Keepers(u)' : r = t
          BY <2>2, <3>4, <5>1, OnlyKeeperNext
        <5>3. \A r \in Keepers(u)' : r = 0 /\ r = 1
          BY <5>2
        <5>4. QED
          BY <5>3
      <4>2. CASE sess[c].char # NoChar
        <5>1. \A d \in on : sess[d].char = NoChar => Logout(u) # Logout(sess[d].user)
          BY <3>1, <4>2, OneSession, LogoutIs
        <5>2. Logout(u) \notin done
          BY <3>4, <5>1
        <5>3. row[u]
          BY <2>1, <3>2 DEF Fits
        <5>4. QED
          BY <2>3, <5>2, <5>3
      <4>3. QED
        BY <4>1, <4>2
    <3>8. \A m \in Maps : OneOf(down'[m], "logincheck_delete", u)
      BY <3>4 DEF OneOf
    <3>9. QED
      BY <3>5, <3>6, <3>7, <3>8 DEF Fits, OneOf, Told
  <2>5. CASE ~ \E c \in Conns : Live(c) /\ sess[c].user = u
    <3>1. ASSUME NEW m \in Maps PROVE QuietFor(up'[m], up[m], "disconnected", u)
      <4>1. CASE up'[m] = up[m]
        BY <4>1 DEF QuietFor
      <4>2. ASSUME NEW d \in Conns, NEW x \in Messages, Live(d), x.user = sess[d].user, up'[m] = Append(up[m], x)
            PROVE  QuietFor(up'[m], up[m], "disconnected", u)
        BY <1>6, <2>5, <4>2, QuietForAppend
      <4>3. QED
        BY <1>5, <4>1, <4>2
    <3>2. QuietLinksFor(u)
      BY <1>1, <3>1 DEF QuietLinksFor, QuietFor
    <3>3. CASE Logout(u) \notin done
      <4>1. row'[u] = row[u]
        BY <1>2, <2>3, <3>3, <1>4 DEF BaseTypes
      <4>2. QED
        BY <2>1, <2>2, <3>2, <4>1, NoNewKeeper
    <3>4. CASE Logout(u) \in done
      <4>1. Logout(u) \in jobs
        BY <2>5, <3>4, LogoutIs
      <4>2. <<"query", u>> \in Keepers(u)
        BY <4>1, KeptBy
      <4>3. /\ \A m \in Maps : Told(up[m], "disconnected", u) # {} => <<"query", u>> = <<"notice", m>>
            /\ \A m \in Maps : Told(down[m], "logincheck_delete", u) # {} => <<"query", u>> = <<"answer", m>>
        BY <2>1, <4>2, OnlyKeeper
      <4>4. \A m \in Maps : /\ Told(up'[m], "disconnected", u) = {}
                            /\ Told(down'[m], "logincheck_delete", u) = {}
        BY <3>2, <4>3 DEF QuietLinksFor, QuietFor
      <4>5. \A t : \A r \in Keepers(u)' : r = t
        BY <2>2, <4>4, OnlyKeeperNext
      <4>6. \A r \in Keepers(u)' : r = 0 /\ r = 1
        BY <4>5
      <4>7. Keepers(u)' = {}
        BY <4>6
      <4>8. QED
        BY <4>4, <4>7 DEF Fits, OneOf, Told
    <3>5. QED
      BY <3>3, <3>4
  <2>6. QED
    BY <2>4, <2>5
<1>9. RowsFit'
  BY <1>8 DEF RowsFit
<1>10. QED
  BY <1>3, <1>4, <1>7, <1>9, InvPartsNext

-----------------------------------------------------------------------------
(* Queries are answered. *)

(* An answer to a session that removes no row. *)
LEMMA AnswerKeeps ==
  ASSUME Inv, NEW j \in jobs, j.kind # "logout", jobs' = jobs \ {j}, SessionsFit',
         \A c \in Conns : Live(c)' => Live(c) /\ sess'[c].user = sess[c].user,
         saved' \in [Chars -> Maps \cup {NoMap}], crossed' \in BOOLEAN,
         UNCHANGED <<row, up, down, known, alive, world, keys>>
  PROVE  Inv'
<1>1. BaseTypes /\ WiresOK /\ RowsFit
  BY InvParts
<1>2. BaseTypes' /\ WiresOK'
  BY <1>1 DEF BaseTypes, WiresOK, Messages, Entries, Queries, Logout
<1>3. QuietLinks
  BY QuieterSame DEF QuietLinks
<1>4. RowsFit'
  BY <1>1, <1>3, RowsStay
<1>5. QED
  BY <1>2, <1>4, InvPartsNext

(* The client of c has an answer, and the list l. *)
AnswerChanges(c, l, p) ==
  /\ sess' = [sess EXCEPT ![c].list = l] /\ phase' = [phase EXCEPT ![c] = p]
  /\ p = phase[c] \/ (p = "choose" /\ phase[c] \notin InGame)
  /\ crossed' \in BOOLEAN /\ (crossed => crossed')
  /\ crossed' \/ \A x \in Chars : l[x] # NoMap => Owner[x] = sess[c].user
  /\ saved' \in [Chars -> Maps \cup {NoMap}]
  /\ UNCHANGED <<byChar, row, up, down, known, alive, world, keys>>

LEMMA AnswerMoves ==
  ASSUME Inv, NEW j \in jobs, j.kind # "logout", jobs' = jobs \ {j},
         NEW c \in Conns, Live(c), NEW l \in [Chars -> Maps \cup {NoMap}],
         NEW p, AnswerChanges(c, l, p),
         \A k \in jobs' : k.kind = "list" /\ k.conn = c /\ k.key = sess[c].key => p = "list"
  PROVE  Inv'
<1>1. SessionsFit /\ WiresOK
  BY InvParts
<1>2. /\ sess' = [sess EXCEPT ![c].list = l] /\ phase' = [phase EXCEPT ![c] = p]
      /\ p = phase[c] \/ (p = "choose" /\ phase[c] \notin InGame)
      /\ crossed' \in BOOLEAN /\ (crossed => crossed')
      /\ crossed' \/ \A x \in Chars : l[x] # NoMap => Owner[x] = sess[c].user
      /\ saved' \in [Chars -> Maps \cup {NoMap}]
      /\ UNCHANGED <<byChar, row, up, down, known, alive, world, keys>>
  BY DEF AnswerChanges
<1>3. sess[c] \in Sessions
  BY <1>1, LiveSession DEF SessionsFit
<1>4. PICK s : s = [sess[c] EXCEPT !.list = l]
  OBVIOUS
<1>5. /\ s \in Sessions /\ s.key = sess[c].key /\ s.user = sess[c].user /\ s.char = sess[c].char
      /\ s.map = sess[c].map /\ s.list = l
  BY <1>3, <1>4 DEF Sessions
<1>6. sess' = [sess EXCEPT ![c] = s]
  BY <1>1, <1>2, <1>4 DEF SessionsFit, SessTypes
<1>7. /\ p \in Waiting \cup {"choose", "enter", "play"}
      /\ p \in InGame <=> s.char # NoChar
      /\ s.char = NoChar <=> s.map = NoMap
  BY <1>1, <1>2, <1>5 DEF SessionsFit, SessTypes, PhasesFit, InGame
<1>8. SessionBecomes(c, s, p)
  BY <1>2, <1>5, <1>6, <1>7 DEF SessionBecomes
<1>9. \A d \in Conns : /\ Live(d)' => Live(d) /\ sess'[d].user = sess[d].user
                       /\ sess'[d].list = IF d = c THEN l ELSE sess[d].list
  BY <1>1, <1>5, <1>6 DEF SessionsFit, SessTypes, Live
<1>10. ListsOwn'
  BY <1>1, <1>2, <1>9 DEF SessionsFit, ListsOwn
<1>11. SessionsFit'
  BY <1>1, <1>5, <1>7, <1>8, <1>10, SessionMoves
<1>12. QED
  BY <1>2, <1>9, <1>11, AnswerKeeps

(* Nobody is there for it. *)
LEMMA AnswerMissed ==
  ASSUME Inv, NEW j \in jobs, j.kind # "logout", jobs' = jobs \ {j},
         saved' \in [Chars -> Maps \cup {NoMap}],
         UNCHANGED <<sess, phase, byChar, crossed, row, up, down, known, alive, world, keys>>
  PROVE  Inv'
<1>1. SessionsFit /\ WiresOK
  BY InvParts
<1>2. SessionsFit' /\ crossed' \in BOOLEAN
  BY <1>1, SessionsStay DEF WiresOK
<1>3. QED
  BY <1>2, AnswerKeeps DEF Live

LEMMA ListQuery ==
  ASSUME WiresOK, NEW k \in jobs, k.kind = "list"
  PROVE  k = [kind |-> "list", conn |-> k.conn, key |-> k.key, user |-> k.user, char |-> NoChar]
<1>1. k \in Queries
  BY DEF WiresOK
<1>2. \A u \in Users : k # Logout(u)
  BY LogoutIs
<1>3. k \in [kind : {"list", "name"}, conn : Conns, key : 1..keys, user : Users, char : {NoChar}]
  BY <1>1, <1>2 DEF Queries
<1>4. QED
  BY <1>3

LEMMA KeepsList ==
  ASSUME Inv, NEW j \in jobs, RCharacterList(j), jobs' = jobs \ {j},
         UNCHANGED <<maps, keys>>
  PROVE  Inv'
<1>1. SessionsFit /\ BaseTypes /\ WiresOK
  BY InvParts
<1>2. /\ j.kind = "list" /\ UNCHANGED <<row, saved, byChar, crossed, up, down, known, alive, world, keys>>
      /\ saved' \in [Chars -> Maps \cup {NoMap}] /\ crossed' \in BOOLEAN
  BY <1>1 DEF RCharacterList, maps, BaseTypes, WiresOK
<1>3. CASE Live(j.conn) /\ sess[j.conn].key = j.key
  <2>1. PICK c \in Conns : c = j.conn
    BY <1>1, <1>2, QueryFields
  <2>2. PICK l : l = [x \in Chars |-> IF Owner[x] = j.user /\ saved[x] # NoMap THEN saved[x] ELSE sess[c].list[x]]
    OBVIOUS
  <2>3. sess' = [sess EXCEPT ![c].list = l] /\ phase' = [phase EXCEPT ![c] = "choose"]
    BY <1>3, <2>1, <2>2 DEF RCharacterList, Phase
  <2>4. Live(c) /\ sess[c] \in Sessions /\ sess[c].user = j.user /\ phase[c] = "list" /\ sess[c].key = j.key
    BY <1>1, <1>2, <1>3, <2>1, LiveSession DEF SessionsFit, JobsFit
  <2>5. l \in [Chars -> Maps \cup {NoMap}]
    BY <1>1, <2>2, <2>4 DEF BaseTypes, Sessions
  <2>6. phase[c] \notin InGame
    BY <2>4 DEF InGame
  <2>7. ASSUME NEW k \in jobs', k.kind = "list", k.conn = c, k.key = sess[c].key PROVE FALSE
    <3>1. k \in jobs /\ k # j
      BY <2>7
    <3>2. sess[c].user = k.user
      BY <1>1, <2>4, <2>7, <3>1 DEF SessionsFit, JobsFit
    <3>4. /\ k = [kind |-> "list", conn |-> k.conn, key |-> k.key, user |-> k.user, char |-> NoChar]
          /\ j = [kind |-> "list", conn |-> j.conn, key |-> j.key, user |-> j.user, char |-> NoChar]
      BY <1>1, <1>2, <2>7, <3>1, ListQuery
    <3>6. k = j
      BY <1>2, <2>1, <2>4, <2>7, <3>2, <3>4
    <3>7. QED
      BY <3>1, <3>6
  <2>8. crossed' \/ \A x \in Chars : l[x] # NoMap => Owner[x] = sess[c].user
    BY <1>1, <1>2, <2>2, <2>4 DEF SessionsFit, ListsOwn
  <2>9. AnswerChanges(c, l, "choose")
    BY <1>2, <2>3, <2>6, <2>8 DEF AnswerChanges
  <2>10. QED
    BY <1>2, <2>4, <2>5, <2>7, <2>9, AnswerMoves
<1>4. CASE ~(Live(j.conn) /\ sess[j.conn].key = j.key)
  <2>1. UNCHANGED <<sess, phase>>
    BY <1>4 DEF RCharacterList
  <2>2. QED
    BY <1>2, <2>1, AnswerMissed
<1>5. QED
  BY <1>3, <1>4

(* A session that gets no answer to what it does not wait for. *)
LEMMA StillListed ==
  ASSUME Inv, NEW c \in Conns, Live(c), NEW k \in jobs, k.kind = "list", k.conn = c, k.key = sess[c].key
  PROVE  phase[c] = "list"
BY InvParts DEF SessionsFit, JobsFit

LEMMA KeepsMade ==
  ASSUME Inv, NEW j \in jobs, RCreateCharacter(j) \/ RDeleteCharacter(j) \/ RCharacterNameCheck(j),
         jobs' = jobs \ {j}, UNCHANGED <<maps, keys>>
  PROVE  Inv'
<1>1. SessionsFit /\ BaseTypes /\ WiresOK
  BY InvParts
<1>2. /\ j.kind \in {"make", "remove", "name"}
      /\ UNCHANGED <<row, byChar, up, down, known, alive, world, keys>>
  BY DEF RCreateCharacter, RDeleteCharacter, RCharacterNameCheck, maps
<1>3. j.conn \in Conns /\ (j.kind \in {"make", "remove"} => j.char \in Chars)
  BY <1>1, <1>2, QueryFields
<1>4. PICK wait \in {"make", "name"} :
        phase' = IF Live(j.conn) /\ phase[j.conn] = wait THEN [phase EXCEPT ![j.conn] = "choose"] ELSE phase
  BY DEF RCreateCharacter, RDeleteCharacter, RCharacterNameCheck
<1>5. \/ UNCHANGED <<saved, sess, crossed>>
      \/ \E m \in Maps \cup {NoMap} :
           /\ j.kind \in {"make", "remove"}
           /\ saved' = [saved EXCEPT ![j.char] = m]
           /\ sess' = IF Live(j.conn) THEN [sess EXCEPT ![j.conn].list[j.char] = m] ELSE sess
           /\ crossed' \in BOOLEAN /\ (crossed => crossed')
           /\ Live(j.conn) => \/ crossed' \/ m = NoMap
                              \/ j.kind = "make" /\ sess[j.conn].key = j.key
  <2>1. CASE RCreateCharacter(j)
    BY <1>1, <2>1 DEF RCreateCharacter, WiresOK
  <2>2. CASE RDeleteCharacter(j)
    BY <1>1, <2>2 DEF RDeleteCharacter, WiresOK
  <2>3. CASE RCharacterNameCheck(j)
    BY <2>3 DEF RCharacterNameCheck
  <2>4. QED
    BY <2>1, <2>2, <2>3
<1>6. saved' \in [Chars -> Maps \cup {NoMap}] /\ crossed' \in BOOLEAN /\ (crossed => crossed')
  BY <1>1, <1>5 DEF BaseTypes, WiresOK
<1>7. CASE ~Live(j.conn)
  <2>1. UNCHANGED <<sess, phase>>
    BY <1>4, <1>5, <1>7
  <2>2. SessionsFit'
    <3>1. SessTypes' /\ PhasesFit' /\ JobsFit' /\ OwnsChar' /\ TablesAgree'
      BY <1>1, <1>2, <2>1 DEF SessionsFit, SessTypes, Sessions, PhasesFit, JobsFit, OwnsChar, TablesAgree, Live
    <3>2. ListsOwn'
      BY <1>1, <1>6, <2>1 DEF SessionsFit, ListsOwn, Live
    <3>3. QED
      BY <3>1, <3>2 DEF SessionsFit
  <2>3. QED
    BY <1>2, <1>6, <2>1, <2>2, AnswerKeeps DEF Live
<1>8. CASE Live(j.conn)
  <2>1. PICK c \in Conns : c = j.conn
    BY <1>3
  <2>2. Live(c) /\ sess[c] \in Sessions
    BY <1>1, <1>8, <2>1, LiveSession DEF SessionsFit
  <2>3. PICK p :
          /\ p = phase[c] \/ p = "choose"
          /\ phase' = [phase EXCEPT ![c] = p]
          /\ p = "choose" => phase[c] \notin InGame
          /\ phase[c] = "list" => p = "list"
    <3>1. CASE phase[c] = wait
      <4>1. phase' = [phase EXCEPT ![c] = "choose"] /\ wait \notin InGame /\ wait # "list"
        BY <1>4, <1>8, <2>1, <3>1 DEF InGame
      <4>2. QED
        BY <3>1, <4>1
    <3>2. CASE phase[c] # wait
      <4>1. phase' = [phase EXCEPT ![c] = phase[c]]
        BY <1>1, <1>4, <2>1, <3>2 DEF SessionsFit, SessTypes
      <4>2. phase[c] = "choose" => phase[c] \notin InGame
        BY DEF InGame
      <4>3. QED
        BY <4>1, <4>2
    <3>3. QED
      BY <3>1, <3>2
  <2>4. \A k \in jobs' : k.kind = "list" /\ k.conn = c /\ k.key = sess[c].key => p = "list"
    BY <2>2, <2>3, StillListed
  <2>5. PICK l \in [Chars -> Maps \cup {NoMap}] :
          /\ sess' = [sess EXCEPT ![c].list = l]
          /\ crossed' \/ \A x \in Chars : l[x] # NoMap => Owner[x] = sess[c].user
    <3>1. sess[c].list \in [Chars -> Maps \cup {NoMap}]
      BY <2>2 DEF Sessions
    <3>2. crossed \/ \A x \in Chars : sess[c].list[x] # NoMap => Owner[x] = sess[c].user
      BY <1>1, <2>2 DEF SessionsFit, ListsOwn
    <3>3. CASE UNCHANGED <<saved, sess, crossed>>
      <4>1. sess' = [sess EXCEPT ![c].list = sess[c].list]
        BY <1>1, <2>2, <3>3 DEF SessionsFit, SessTypes, Sessions
      <4>2. QED
        BY <3>1, <3>2, <3>3, <4>1
    <3>4. CASE ~ UNCHANGED <<saved, sess, crossed>>
      <4>1. PICK m \in Maps \cup {NoMap} :
              /\ j.kind \in {"make", "remove"}
              /\ sess' = [sess EXCEPT ![c].list[j.char] = m]
              /\ crossed' \/ m = NoMap \/ (j.kind = "make" /\ sess[c].key = j.key)
        BY <1>5, <1>8, <2>1, <3>4
      <4> DEFINE l == [sess[c].list EXCEPT ![j.char] = m]
      <4>2. sess' = [sess EXCEPT ![c].list = l] /\ l \in [Chars -> Maps \cup {NoMap}]
        BY <3>1, <4>1
      <4>3. j.kind = "make" /\ sess[c].key = j.key => Owner[j.char] = sess[c].user
        BY <1>1, <2>1, <2>2 DEF SessionsFit, JobsFit
      <4>4. crossed' \/ \A x \in Chars : l[x] # NoMap => Owner[x] = sess[c].user
        BY <1>3, <1>6, <2>1, <3>1, <3>2, <4>1, <4>3
      <4>5. QED
        BY <4>2, <4>4
    <3>5. QED
      BY <3>3, <3>4
  <2>6. j.kind # "logout"
    BY <1>2
  <2>7. AnswerChanges(c, l, p)
    BY <1>2, <1>6, <2>3, <2>5 DEF AnswerChanges
  <2>8. QED
    BY <2>2, <2>4, <2>6, <2>7, AnswerMoves
<1>9. QED
  BY <1>7, <1>8

LEMMA KeepsLogout ==
  ASSUME Inv, NEW j \in jobs, RLogout(j), jobs' = jobs \ {j}, UNCHANGED <<maps, keys>>
  PROVE  Inv'
<1>1. SessionsFit /\ BaseTypes /\ WiresOK /\ RowsFit
  BY InvParts
<1>2. /\ j.kind = "logout" /\ row' = [row EXCEPT ![j.user] = FALSE]
      /\ UNCHANGED <<sess, byChar, phase, saved, crossed, up, down, known, alive, world, keys>>
  BY DEF RLogout, maps
<1>3. PICK u \in Users : j = Logout(u)
  BY <1>1, <1>2 DEF WiresOK, Queries
<1>4. j.user = u
  BY <1>3 DEF Logout
<1>5. SessionsFit'
  BY <1>1, <1>2, SessionsStay
<1>6. BaseTypes' /\ WiresOK'
  BY <1>1, <1>2 DEF BaseTypes, WiresOK, Messages, Entries, Queries, Logout
<1>7. QuietLinks
  BY <1>2, QuieterSame DEF QuietLinks
<1>8. ASSUME NEW v \in Users, v # u PROVE Fits(v)'
  <2>1. Fits(v) /\ row'[v] = row[v]
    BY <1>1, <1>2, <1>4, <1>8 DEF RowsFit, BaseTypes
  <2>2. \A c \in Conns : Live(c)' /\ sess'[c].user = v => Live(c) /\ sess[c].user = v
    BY <1>2 DEF Live
  <2>3. QED
    BY <1>7, <2>1, <2>2, NoNewKeeper, QuietForAll
<1>9. Fits(u)'
  <2>1. <<"query", u>> \in Keepers(u) /\ Fits(u)
    BY <1>1, <1>3, KeptBy DEF RowsFit
  <2>2. /\ \A c \in Conns : Live(c) /\ sess[c].user = u => <<"query", u>> = <<"session", c>>
        /\ \A m \in Maps : Told(up[m], "disconnected", u) # {} => <<"query", u>> = <<"notice", m>>
        /\ \A m \in Maps : Told(down[m], "logincheck_delete", u) # {} => <<"query", u>> = <<"answer", m>>
    BY <2>1, OnlyKeeper
  <2>3. /\ \A c \in Conns : ~(Live(c)' /\ sess'[c].user = u)
        /\ Logout(u) \notin jobs'
        /\ \A m \in Maps : Told(up'[m], "disconnected", u) = {}
        /\ \A m \in Maps : Told(down'[m], "logincheck_delete", u) = {}
    BY <1>2, <1>3, <2>2 DEF Live
  <2>4. \A t : \A r \in Keepers(u)' : r = t
    BY <2>3, OnlyKeeperNext
  <2>5. \A r \in Keepers(u)' : r = 0 /\ r = 1
    BY <2>4
  <2>6. Keepers(u)' = {}
    BY <2>5
  <2>7. QED
    BY <2>3, <2>6 DEF Fits, OneOf, Told
<1>10. RowsFit'
  BY <1>8, <1>9 DEF RowsFit
<1>11. QED
  BY <1>5, <1>6, <1>10, InvPartsNext

LEMMA KeepsResult == ASSUME Inv, Result PROVE Inv'
<1>1. PICK j \in jobs :
        /\ RCharacterList(j) \/ RCreateCharacter(j) \/ RCharacterNameCheck(j) \/ RDeleteCharacter(j) \/ RLogout(j)
        /\ jobs' = jobs \ {j}
  BY DEF Result
<1>2. UNCHANGED <<maps, keys>>
  BY DEF Result
<1>3. QED
  BY <1>1, <1>2, KeepsList, KeepsMade, KeepsLogout

-----------------------------------------------------------------------------
(* Messages of map servers. *)

(* The first message of m is handled. *)
Taken(m) ==
  /\ down[m] # <<>> /\ down' = [down EXCEPT ![m] = Tail(@)]
  /\ UNCHANGED <<row, saved, made, known, alive, world, limits>>

LEMMA TakenMessage ==
  ASSUME Inv, NEW m \in Maps, Taken(m)
  PROVE  /\ Head(down[m]) \in Messages
         /\ down' \in [Maps -> Seq(Messages)]
         /\ \A n \in Maps : Quieter(down'[n], down[n], "logincheck_delete")
BY DownTaken, InvParts DEF Taken, WiresOK

LEMMA MessageIs ==
  ASSUME NEW msg \in Messages
  PROVE  /\ msg.kind \in PlayKinds \cup WayKinds =>
              msg.char \in Chars /\ msg.key \in 1..keys /\ msg.user \in Users /\ msg.map \in Maps \cup {NoMap}
         /\ msg.kind \in WayKinds \ {"back"} => msg.map \in Maps
         /\ msg.kind \in PlayKinds =>
              \A kind \in PlayKinds : /\ [msg EXCEPT !.kind = kind] \in Messages
                                      /\ [msg EXCEPT !.kind = kind].kind = kind
                                      /\ [msg EXCEPT !.kind = kind].user = msg.user
         /\ msg.kind \notin PlayKinds \cup WayKinds =>
              \A kind \in {"channel_ack", "channel_nack"} : [msg EXCEPT !.kind = kind] \in Messages
<1>1. CASE msg \in [kind : {"channel", "channel_ack", "channel_nack"}, conn : Conns, key : 1..keys]
  BY <1>1 DEF Messages, PlayKinds, WayKinds
<1>2. CASE msg \in [kind : PlayKinds, char : Chars, key : 1..keys, user : Users, map : Maps \cup {NoMap}]
  BY <1>2 DEF Messages, PlayKinds, WayKinds
<1>3. CASE msg \in [kind : WayKinds, char : Chars, key : 1..keys, user : Users, map : Maps]
  <2>1. msg \in [kind : WayKinds, char : Chars, key : 1..keys, user : Users, map : Maps \cup {NoMap}]
    BY <1>3
  <2>2. msg.kind \in PlayKinds =>
          \A kind \in PlayKinds : /\ [msg EXCEPT !.kind = kind] \in Messages
                                  /\ [msg EXCEPT !.kind = kind].kind = kind
                                  /\ [msg EXCEPT !.kind = kind].user = msg.user
    BY <1>3 DEF Messages, PlayKinds, WayKinds
  <2>3. QED
    BY <1>3, <2>2 DEF PlayKinds, WayKinds
<1>4. QED
  BY <1>1, <1>2, <1>3 DEF Messages

(* No row is handed over. *)
LEMMA MessageKeeps ==
  ASSUME Inv, NEW m \in Maps, Taken(m), SessionsFit',
         \A c \in Conns : Live(c)' => Live(c) /\ sess'[c].user = sess[c].user,
         jobs' \subseteq Queries, \A u \in Users : Logout(u) \in jobs' => Logout(u) \in jobs,
         up' \in [Maps -> Seq(Messages)],
         \A n \in Maps : Quieter(up'[n], up[n], "disconnected")
  PROVE  Inv'
<1>1. BaseTypes /\ WiresOK /\ RowsFit
  BY InvParts
<1>2. /\ UNCHANGED <<row, saved, known, alive, world, keys, crossed>>
      /\ down' \in [Maps -> Seq(Messages)]
      /\ \A n \in Maps : Quieter(down'[n], down[n], "logincheck_delete")
  BY TakenMessage DEF Taken, limits
<1>3. BaseTypes' /\ WiresOK'
  BY <1>1, <1>2 DEF BaseTypes, WiresOK, Messages, Entries, Queries, Logout
<1>4. QuietLinks
  BY <1>2 DEF QuietLinks
<1>5. RowsFit'
  BY <1>1, <1>2, <1>4, RowsStay
<1>6. QED
  BY <1>3, <1>5, InvPartsNext

(* The player that is found. *)
LEMMA Found ==
  ASSUME Inv, NEW x \in Chars, byChar[x] # NoConn
  PROVE  /\ byChar[x] \in Conns /\ Live(byChar[x]) /\ sess[byChar[x]].char = x
         /\ sess[byChar[x]] \in Sessions /\ sess[byChar[x]].map \in Maps
         /\ phase[byChar[x]] \in InGame /\ Owner[x] = sess[byChar[x]].user
         /\ x # NoChar
<1>1. byChar[x] \in Conns
  BY DEF Inv, TypeOK
<1>2. Live(byChar[x]) /\ sess[byChar[x]].char = x /\ x # NoChar
  BY <1>1, EntryAssumption DEF Inv, TablesAgree
<1>3. QED
  BY <1>1, <1>2, PlayerAt, LiveSession, InvParts DEF SessionsFit, PhasesFit, OwnsChar

(* The player x at c is at p, with the list l and at the map n. *)
PlayerIs(x, c, n, l, p) ==
  /\ sess' = [sess EXCEPT ![c] = [sess[c] EXCEPT !.map = n, !.list = l]]
  /\ l = sess[c].list \/ (\E k \in Maps : l = [sess[c].list EXCEPT ![x] = k])
  /\ phase' = [phase EXCEPT ![c] = p]

LEMMA PlayerChanges ==
  ASSUME Inv, NEW x \in Chars, NEW c, c = byChar[x], c # NoConn, NEW m \in Maps, Taken(m),
         NEW p \in {"enter", "play"}, NEW n \in Maps, NEW l \in [Chars -> Maps \cup {NoMap}],
         PlayerIs(x, c, n, l, p), UNCHANGED <<byChar, jobs>>,
         up' \in [Maps -> Seq(Messages)],
         \A k \in Maps : Quieter(up'[k], up[k], "disconnected")
  PROVE  Inv'
<1>0. PICK s : s = [sess[c] EXCEPT !.map = n, !.list = l]
  OBVIOUS
<1>1. SessionsFit /\ WiresOK
  BY InvParts
<1>2. /\ c \in Conns /\ Live(c) /\ sess[c].char = x /\ sess[c] \in Sessions /\ sess[c].map \in Maps
      /\ phase[c] \in InGame /\ Owner[x] = sess[c].user /\ x # NoChar
  BY Found
<1>3. /\ s \in Sessions /\ s.key = sess[c].key /\ s.user = sess[c].user /\ s.char = sess[c].char
      /\ s.map = n /\ s.list = l
  BY <1>0, <1>2 DEF Sessions
<1>4. keys' = keys /\ crossed' = crossed
  BY DEF Taken, limits
<1>5. p \in InGame /\ p \in Waiting \cup {"choose", "enter", "play"} /\ n # NoMap
  BY EntryAssumption DEF InGame
<1>6. SessionBecomes(c, s, p)
  BY <1>0, <1>2, <1>3, <1>4, <1>5 DEF SessionBecomes, PlayerIs
<1>7. \A d \in Conns : /\ Live(d)' => Live(d) /\ sess'[d].user = sess[d].user
                       /\ sess'[d].list = IF d = c THEN l ELSE sess[d].list
  BY <1>0, <1>1, <1>2, <1>3 DEF PlayerIs, SessionsFit, SessTypes, Live
<1>8. ListsOwn'
  <2>1. crossed \/ \A y \in Chars : sess[c].list[y] # NoMap => Owner[y] = sess[c].user
    BY <1>1, <1>2 DEF SessionsFit, ListsOwn
  <2>2. sess[c].list \in [Chars -> Maps \cup {NoMap}]
    BY <1>2 DEF Sessions
  <2>3. crossed \/ \A y \in Chars : l[y] # NoMap => Owner[y] = sess[c].user
    <3>1. CASE l = sess[c].list
      BY <2>1, <3>1
    <3>2. CASE \E k \in Maps : l = [sess[c].list EXCEPT ![x] = k]
      BY <1>2, <2>1, <2>2, <3>2
    <3>3. QED
      BY <3>1, <3>2 DEF PlayerIs
  <2>4. QED
    BY <1>1, <1>4, <1>7, <2>3 DEF SessionsFit, ListsOwn
<1>9. \A j \in jobs' : j.kind = "list" /\ j.conn = c /\ j.key = s.key => p = "list"
  <2>1. ASSUME NEW j \in jobs, j.kind = "list", j.conn = c, j.key = sess[c].key PROVE FALSE
    <3>1. phase[c] = "list"
      BY <1>2, <2>1, StillListed
    <3>2. QED
      BY <1>2, <3>1 DEF InGame
  <2>2. QED
    BY <1>3, <2>1
<1>10. jobs' \subseteq jobs
  OBVIOUS
<1>11. SessionsFit'
  BY <1>1, <1>2, <1>3, <1>5, <1>6, <1>8, <1>9, <1>10, SessionMoves
<1>12. jobs' \subseteq Queries
  BY <1>1 DEF WiresOK
<1>13. QED
  BY <1>7, <1>11, <1>12, MessageKeeps

(* Nothing changes but the messages. *)
LEMMA NothingChanges ==
  ASSUME Inv, NEW m \in Maps, Taken(m), UNCHANGED <<agent, jobs>>,
         up' \in [Maps -> Seq(Messages)],
         \A k \in Maps : Quieter(up'[k], up[k], "disconnected")
  PROVE  Inv'
<1>1. SessionsFit /\ WiresOK
  BY InvParts
<1>2. UNCHANGED <<sess, byChar, phase, jobs, keys, crossed>>
  BY DEF agent, Taken, limits
<1>3. SessionsFit' /\ jobs' \subseteq Queries
  BY <1>1, <1>2, SessionsStay DEF WiresOK
<1>4. QED
  BY <1>2, <1>3, MessageKeeps DEF Live

LEMMA UpStays ==
  ASSUME Inv, up' = up
  PROVE  up' \in [Maps -> Seq(Messages)] /\ \A k \in Maps : Quieter(up'[k], up[k], "disconnected")
BY InvParts, QuieterSame DEF WiresOK

LEMMA KeepsGameinAck ==
  ASSUME Inv, NEW m \in Maps, Taken(m), GameinAck(m, Head(down[m]))
  PROVE  Inv'
<1>1. PICK msg \in Messages : msg = Head(down[m]) /\ msg.kind = "gamein_ack"
  BY TakenMessage DEF GameinAck
<1>2. /\ msg.char \in Chars /\ msg.kind \in PlayKinds
      /\ [msg EXCEPT !.kind = "gamein_nack"] \in Messages
      /\ [msg EXCEPT !.kind = "gamein_nack"].kind = "gamein_nack"
      /\ [msg EXCEPT !.kind = "othermap"] \in Messages
      /\ [msg EXCEPT !.kind = "othermap"].kind = "othermap"
  BY <1>1, MessageIs DEF PlayKinds
<1>3. PICK c : c = byChar[msg.char]
  OBVIOUS
<1>4. SessionsFit /\ WiresOK
  BY InvParts
<1>5. UNCHANGED <<byChar, jobs>>
  BY DEF GameinAck
<1>6. CASE c = NoConn \/ sess[c].key # msg.key
  <2>1. Sent(m, [msg EXCEPT !.kind = "gamein_nack"]) /\ UNCHANGED <<sess, phase>>
    BY <1>1, <1>3, <1>6 DEF GameinAck
  <2>2. up' \in [Maps -> Seq(Messages)] /\ \A k \in Maps : Quieter(up'[k], up[k], "disconnected")
    BY <1>2, <1>4, <2>1, SentOne, SentQuietly DEF WiresOK
  <2>3. QED
    BY <1>5, <2>1, <2>2, NothingChanges DEF agent
<1>7. CASE ~(c = NoConn \/ sess[c].key # msg.key)
  <2>1. /\ sess' = [sess EXCEPT ![c].list[msg.char] = sess[c].map]
        /\ phase' = [phase EXCEPT ![c] = "play"]
        /\ Broadcast(m, [msg EXCEPT !.kind = "othermap"])
    BY <1>1, <1>3, <1>7 DEF GameinAck, Phase
  <2>2. c \in Conns /\ sess[c] \in Sessions /\ sess[c].map \in Maps
    BY <1>2, <1>3, <1>7, Found
  <2>3. PICK l : l = [sess[c].list EXCEPT ![msg.char] = sess[c].map]
    OBVIOUS
  <2>4. l \in [Chars -> Maps \cup {NoMap}]
    BY <1>2, <2>2, <2>3 DEF Sessions
  <2>5. sess' = [sess EXCEPT ![c] = [sess[c] EXCEPT !.map = sess[c].map, !.list = l]]
    BY <1>4, <2>1, <2>2, <2>3 DEF SessionsFit, SessTypes, Sessions
  <2>6. PlayerIs(msg.char, c, sess[c].map, l, "play")
    BY <2>1, <2>2, <2>3, <2>5 DEF PlayerIs
  <2>7. \A k \in Maps : up'[k] = up[k] \/ up'[k] = Append(up[k], [msg EXCEPT !.kind = "othermap"])
    BY <2>1 DEF Broadcast
  <2>8. up \in [Maps -> Seq(Messages)]
    BY <1>4 DEF WiresOK
  <2>9. \A k \in Maps : up'[k] \in Seq(Messages) /\ Quieter(up'[k], up[k], "disconnected")
    <3>1. ASSUME NEW k \in Maps PROVE up'[k] \in Seq(Messages) /\ Quieter(up'[k], up[k], "disconnected")
      <4>1. CASE up'[k] = up[k]
        BY <2>8, <4>1, QuieterSame
      <4>2. CASE up'[k] = Append(up[k], [msg EXCEPT !.kind = "othermap"])
        <5>1. PICK x \in Messages : x = [msg EXCEPT !.kind = "othermap"] /\ x.kind # "disconnected"
          BY <1>2
        <5>2. up[k] \in Seq(Messages) /\ up'[k] = Append(up[k], x)
          BY <2>8, <4>2, <5>1
        <5>3. Append(up[k], x) \in Seq(Messages)
          BY <5>2, AppendProperties
        <5>4. Quieter(Append(up[k], x), up[k], "disconnected")
          BY <5>1, <5>2, QuieterAppend
        <5>5. QED
          BY <5>2, <5>3, <5>4
      <4>3. QED
        BY <2>7, <4>1, <4>2
    <3>2. QED
      BY <3>1
  <2>10. up' \in [Maps -> Seq(Messages)]
    BY <2>1, <2>9 DEF Broadcast
  <2>11. QED
    BY <1>2, <1>3, <1>5, <1>7, <2>2, <2>4, <2>6, <2>9, <2>10, PlayerChanges
<1>8. QED
  BY <1>6, <1>7

LEMMA KeepsGameinNack ==
  ASSUME Inv, NEW m \in Maps, Taken(m), GameinNack(m, Head(down[m]))
  PROVE  Inv'
<1>1. PICK msg \in Messages : msg = Head(down[m]) /\ msg.kind = "gamein_nack"
  BY TakenMessage DEF GameinNack
<1>2. msg.char \in Chars
  BY <1>1, MessageIs DEF PlayKinds
<1>3. PICK c : c = byChar[msg.char]
  OBVIOUS
<1>4. CASE c = NoConn
  BY <1>1, <1>3, <1>4, NothingChanges, UpStays DEF GameinNack
<1>5. CASE c # NoConn
  <2>1. Gone({c}, {}) /\ Sent(sess[c].map, Msg("disconnected", c, NoMap))
    BY <1>1, <1>3, <1>5 DEF GameinNack
  <2>2. c \in Conns /\ Live(c) /\ sess[c].char # NoChar
    BY <1>2, <1>3, <1>5, Found
  <2>3. UNCHANGED <<row, saved, known, alive, world, keys, crossed>>
    BY DEF Taken, limits
  <2>4. PICK u : u = sess[c].user
    OBVIOUS
  <2>5. QED
    BY <2>1, <2>2, <2>3, <2>4, TakenMessage, UserGone
<1>6. QED
  BY <1>4, <1>5

LEMMA KeepsLeftFor ==
  ASSUME Inv, NEW m \in Maps, Taken(m),
         MapOut(m, Head(down[m])) \/ NpcMapOut(m, Head(down[m])) \/ MapOutWithMapNum(m, Head(down[m]))
  PROVE  Inv'
<1>1. PICK msg \in Messages : /\ msg = Head(down[m]) /\ LeftFor(msg)
                              /\ msg.kind \in {"gate", "return", "npc", "house", "dungeon"}
  BY TakenMessage DEF MapOut, NpcMapOut, MapOutWithMapNum
<1>2. msg.char \in Chars /\ msg.map \in Maps
  BY <1>1, MessageIs DEF WayKinds
<1>3. PICK c : c = byChar[msg.char]
  OBVIOUS
<1>4. UNCHANGED <<byChar, jobs, up>>
  BY <1>1 DEF LeftFor
<1>5. CASE FindMapServer(msg.map) /\ c # NoConn
  <2>1. sess' = [sess EXCEPT ![c].map = msg.map] /\ phase' = [phase EXCEPT ![c] = "enter"]
    BY <1>1, <1>3, <1>5 DEF LeftFor, Phase
  <2>2. c \in Conns /\ sess[c] \in Sessions
    BY <1>2, <1>3, <1>5, Found
  <2>3. SessTypes
    BY InvParts DEF SessionsFit
  <2>4. PICK l : l = sess[c].list
    OBVIOUS
  <2>5. sess' = [sess EXCEPT ![c] = [sess[c] EXCEPT !.map = msg.map, !.list = l]]
    BY <2>1, <2>2, <2>3, <2>4 DEF SessTypes, Sessions
  <2>6. PlayerIs(msg.char, c, msg.map, l, "enter") /\ l \in [Chars -> Maps \cup {NoMap}]
    BY <2>1, <2>2, <2>4, <2>5 DEF PlayerIs, Sessions
  <2>7. QED
    BY <1>2, <1>3, <1>4, <1>5, <2>6, PlayerChanges, UpStays
<1>6. CASE ~(FindMapServer(msg.map) /\ c # NoConn)
  <2>1. UNCHANGED <<sess, phase>>
    BY <1>1, <1>3, <1>6 DEF LeftFor
  <2>2. QED
    BY <1>4, <2>1, NothingChanges, UpStays DEF agent
<1>7. QED
  BY <1>5, <1>6

LEMMA KeepsChannelAnswer ==
  ASSUME Inv, NEW m \in Maps, Taken(m), ChannelInfoAck(Head(down[m])) \/ ChannelInfoNack(Head(down[m]))
  PROVE  Inv'
<1>1. /\ UNCHANGED <<sess, byChar, jobs, up>>
      /\ \/ phase' = phase
         \/ \E c : Live(c) /\ phase[c] = "channel" /\ phase' = [phase EXCEPT ![c] = "choose"]
  BY DEF ChannelInfoAck, ChannelInfoNack
<1>2. SessionsFit /\ WiresOK
  BY InvParts
<1>3. CASE phase' = phase
  BY <1>1, <1>3, NothingChanges, UpStays DEF agent
<1>4. CASE \E c : Live(c) /\ phase[c] = "channel" /\ phase' = [phase EXCEPT ![c] = "choose"]
  <2>1. PICK c : Live(c) /\ phase[c] = "channel" /\ phase' = [phase EXCEPT ![c] = "choose"]
    BY <1>4
  <2>2. CASE c \in Conns
    <3>1. keys' = keys /\ crossed' = crossed
      BY DEF Taken, limits
    <3>2. "choose" \notin InGame /\ phase[c] \notin InGame /\ phase[c] # "list"
      BY <2>1 DEF InGame
    <3>3. SessionsFit'
      <4>1. PICK js : js = {}
        OBVIOUS
      <4>2. \A j \in js : /\ j.kind \in {"make", "name", "remove"}
                          /\ j.conn = c /\ j.key = sess[c].key /\ j.user = sess[c].user
                          /\ j.kind = "make" => Owner[j.char] = j.user
        BY <4>1
      <4>3. jobs' = jobs \cup js
        BY <1>1, <4>1
      <4>4. QED
        BY <1>1, <1>2, <2>1, <2>2, <3>1, <3>2, <4>2, <4>3, PhaseMoves
    <3>4. jobs' \subseteq Queries
      BY <1>1, <1>2 DEF WiresOK
    <3>5. QED
      BY <1>1, <3>3, <3>4, MessageKeeps, UpStays DEF Live
  <2>3. CASE c \notin Conns
    <3>1. phase' = phase
      BY <1>2, <2>1, <2>3 DEF SessionsFit, SessTypes
    <3>2. QED
      BY <1>1, <3>1, NothingChanges, UpStays DEF agent
  <2>4. QED
    BY <2>2, <2>3
<1>5. QED
  BY <1>1, <1>3, <1>4

LEMMA KeepsBackToList ==
  ASSUME Inv, NEW m \in Maps, Taken(m), BackToCharSelAck(m, Head(down[m]))
  PROVE  Inv'
<1>1. PICK msg \in Messages : msg = Head(down[m]) /\ msg.kind = "back"
  BY TakenMessage DEF BackToCharSelAck
<1>2. PICK x \in Chars : x = msg.char
  BY <1>1, MessageIs DEF PlayKinds
<1>3. PICK c : c = byChar[x]
  OBVIOUS
<1>4. up' = up /\ keys' = keys /\ crossed' = crossed
  BY DEF BackToCharSelAck, Taken, limits
<1>5. CASE c = NoConn
  <2>1. UNCHANGED <<sess, byChar, phase, jobs>>
    BY <1>1, <1>2, <1>3, <1>5 DEF BackToCharSelAck
  <2>2. QED
    BY <1>4, <2>1, NothingChanges, UpStays DEF agent
<1>6. CASE c # NoConn
  <2>1. /\ jobs' = jobs \cup {Job("list", c, NoChar)}
        /\ byChar' = [byChar EXCEPT ![x] = NoConn]
        /\ sess' = [sess EXCEPT ![c].char = NoChar, ![c].map = NoMap]
        /\ phase' = [phase EXCEPT ![c] = "list"]
    BY <1>1, <1>2, <1>3, <1>6 DEF BackToCharSelAck, Phase
  <2>2. /\ c \in Conns /\ Live(c) /\ sess[c].char = x /\ sess[c] \in Sessions
        /\ phase[c] \in InGame /\ x # NoChar
    BY <1>2, <1>3, <1>6, Found
  <2>3. SessionsFit /\ WiresOK
    BY InvParts
  <2>4. /\ sess'[c] = [sess[c] EXCEPT !.char = NoChar, !.map = NoMap]
        /\ \A d \in Conns : d # c => sess'[d] = sess[d]
    BY <2>1, <2>2, <2>3 DEF SessionsFit, SessTypes
  <2>5. /\ sess'[c] \in Sessions /\ sess'[c].char = NoChar /\ sess'[c].map = NoMap
        /\ sess'[c].key = sess[c].key /\ sess'[c].user = sess[c].user /\ sess'[c].list = sess[c].list
    BY <2>2, <2>4 DEF Sessions
  <2>6. Live(c)' /\ \A d \in Conns : Live(d)' <=> Live(d)
    BY <2>2, <2>3, <2>4, <2>5, SessionIsNone DEF Live, WiresOK
  <2>7. SessTypes'
    <3>1. sess' \in [Conns -> Sessions \cup {NoSess}]
      BY <2>1, <2>3, <2>4, <2>5 DEF SessionsFit, SessTypes
    <3>2. \A d \in Conns : Live(d)' => (sess'[d].char = NoChar <=> sess'[d].map = NoMap)
      BY <2>3, <2>4, <2>5, <2>6 DEF SessionsFit, SessTypes
    <3>3. byChar' \in [Chars -> Conns \cup {NoConn}]
      BY <2>1, <2>3 DEF SessionsFit, SessTypes
    <3>4. /\ phase' \in [Conns -> Waiting \cup {"none", "choose", "enter", "play"}]
          /\ \A d \in Conns : phase'[d] = "none" <=> ~Live(d)'
      BY <2>1, <2>3, <2>6 DEF SessionsFit, SessTypes, Waiting
    <3>5. QED
      BY <1>4, <3>1, <3>2, <3>3, <3>4 DEF SessTypes, Sessions
  <2>8. PhasesFit'
    <3>1. \A d \in Conns : Live(d)' => (phase'[d] \in InGame <=> sess'[d].char # NoChar)
      BY <2>1, <2>3, <2>4, <2>5, <2>6 DEF SessionsFit, SessTypes, PhasesFit, InGame
    <3>2. QED
      BY <3>1 DEF PhasesFit
  <2>9. /\ Job("list", c, NoChar) \in Queries
        /\ Job("list", c, NoChar).kind = "list" /\ Job("list", c, NoChar).conn = c
        /\ Job("list", c, NoChar).user = sess[c].user
    BY <2>2 DEF Job, Queries, Sessions
  <2>10. JobsFit'
    <3>1. ASSUME NEW j \in jobs', j.kind # "logout", Live(j.conn)', sess'[j.conn].key = j.key
          PROVE  sess'[j.conn].user = j.user /\ (j.kind = "list" => phase'[j.conn] = "list")
      <4>1. CASE j = Job("list", c, NoChar)
        BY <2>1, <2>2, <2>3, <2>5, <2>9, <4>1 DEF SessionsFit, SessTypes
      <4>2. CASE j \in jobs
        <5>1. j.conn \in Conns
          BY <2>3, <3>1, <4>2, QueryFields
        <5>2. /\ sess'[j.conn].key = sess[j.conn].key /\ sess'[j.conn].user = sess[j.conn].user
              /\ Live(j.conn)
          BY <2>4, <2>5, <2>6, <3>1, <5>1
        <5>3. sess[j.conn].user = j.user /\ (j.kind = "list" => phase[j.conn] = "list")
          BY <2>3, <3>1, <4>2, <5>1, <5>2 DEF SessionsFit, JobsFit
        <5>4. QED
          BY <2>1, <2>3, <5>1, <5>2, <5>3 DEF SessionsFit, SessTypes
      <4>3. QED
        BY <2>1, <3>1, <4>1, <4>2
    <3>2. \A j \in jobs' : j.kind = "make" => Owner[j.char] = j.user
      BY <2>1, <2>3, <2>9 DEF SessionsFit, JobsFit
    <3>3. QED
      BY <3>1, <3>2 DEF JobsFit
  <2>11. OwnsChar'
    BY <2>3, <2>4, <2>5, <2>6 DEF SessionsFit, OwnsChar
  <2>12. ListsOwn'
    <3>1. \A d \in Conns : Live(d)' => /\ Live(d) /\ sess'[d].list = sess[d].list
                                       /\ sess'[d].user = sess[d].user
      BY <2>4, <2>5, <2>6
    <3>2. QED
      BY <1>4, <2>3, <3>1 DEF SessionsFit, ListsOwn
  <2>13. TablesAgree'
    <3>1. ASSUME NEW y \in Chars, NEW d \in Conns
          PROVE  byChar'[y] = d <=> Live(d)' /\ sess'[d].char = y
      <4>1. byChar[y] = d <=> Live(d) /\ sess[d].char = y
        BY <2>3 DEF SessionsFit, TablesAgree
      <4>2. byChar \in [Chars -> Conns \cup {NoConn}] /\ NoConn \notin Conns /\ NoChar \notin Chars
        BY <2>3, EntryAssumption DEF SessionsFit, SessTypes
      <4>3. CASE y = x
        <5>1. byChar'[y] # d
          BY <2>1, <4>2, <4>3
        <5>2. d = c => sess'[d].char # y
          BY <2>5, <4>2
        <5>3. d # c => ~(Live(d)' /\ sess'[d].char = y)
          BY <1>3, <2>4, <2>6, <4>1, <4>3
        <5>4. QED
          BY <5>1, <5>2, <5>3
      <4>4. CASE y # x
        <5>1. byChar'[y] = byChar[y]
          BY <2>1, <4>2, <4>4
        <5>2. d = c => sess'[d].char # y /\ sess[d].char # y
          BY <2>2, <2>5, <4>2, <4>4
        <5>3. QED
          BY <2>4, <2>6, <4>1, <5>1, <5>2
      <4>5. QED
        BY <4>3, <4>4
    <3>2. QED
      BY <3>1 DEF TablesAgree
  <2>14. SessionsFit'
    BY <2>7, <2>8, <2>10, <2>11, <2>12, <2>13 DEF SessionsFit
  <2>15. jobs' \subseteq Queries /\ \A u \in Users : Logout(u) \in jobs' => Logout(u) \in jobs
    BY <2>1, <2>3, <2>9, LogoutIs DEF WiresOK
  <2>16. \A d \in Conns : Live(d)' => Live(d) /\ sess'[d].user = sess[d].user
    BY <2>4, <2>5, <2>6
  <2>17. QED
    BY <1>4, <2>14, <2>15, <2>16, MessageKeeps, UpStays
<1>7. QED
  BY <1>5, <1>6

LEMMA KeepsLoginCheckDelete ==
  ASSUME Inv, NEW m \in Maps, Taken(m), LoginCheckDelete(m, Head(down[m]))
  PROVE  Inv'
<1>1. PICK msg \in Messages : msg = Head(down[m]) /\ msg.kind = "logincheck_delete"
  BY TakenMessage DEF LoginCheckDelete
<1>2. PICK u \in Users : u = msg.user
  BY <1>1, MessageIs DEF PlayKinds
<1>3. /\ jobs' = IF HasSession(u) THEN jobs ELSE jobs \cup {Logout(u)}
      /\ UNCHANGED <<sess, byChar, phase, up>>
  BY <1>1, <1>2 DEF LoginCheckDelete, agent
<1>4. CASE HasSession(u)
  BY <1>3, <1>4, NothingChanges, UpStays DEF agent
<1>5. CASE ~HasSession(u)
  <2>1. SessionsFit /\ BaseTypes /\ WiresOK /\ RowsFit
    BY InvParts
  <2>2. jobs' = jobs \cup {Logout(u)}
    BY <1>3, <1>5
  <2>3. /\ UNCHANGED <<row, saved, known, alive, world, keys, crossed>>
        /\ down' \in [Maps -> Seq(Messages)]
        /\ \A n \in Maps : Quieter(down'[n], down[n], "logincheck_delete")
    BY TakenMessage DEF Taken, limits
  <2>4. SessionsFit'
    <3>1. JobsFit'
      <4>1. \A j \in jobs' : j \in jobs \/ j.kind = "logout"
        BY <2>2, LogoutIs
      <4>2. JobsFit
        BY <2>1 DEF SessionsFit
      <4>3. QED
        BY <1>3, <4>1, <4>2 DEF JobsFit, Live
    <3>2. QED
      BY <1>3, <2>1, <2>3, <3>1
        DEF SessionsFit, SessTypes, Sessions, PhasesFit, OwnsChar, ListsOwn, TablesAgree, Live
  <2>5. BaseTypes'
    BY <2>1, <2>3 DEF BaseTypes
  <2>6. WiresOK'
    <3>1. jobs' \subseteq Queries
      BY <2>1, <2>2 DEF WiresOK, Queries
    <3>2. QED
      BY <1>3, <2>1, <2>3, <3>1 DEF WiresOK, Messages, Entries, Queries, Logout
  <2>7. QuietLinks
    BY <1>3, <2>3, QuieterSame DEF QuietLinks
  <2>8. \A c \in Conns : \A v : Live(c)' /\ sess'[c].user = v => Live(c) /\ sess[c].user = v
    BY <1>3 DEF Live
  <2>9. ASSUME NEW v \in Users, v # u PROVE Fits(v)'
    <3>1. Logout(v) \in jobs' => Logout(v) \in jobs
      BY <2>2, <2>9, LogoutIs
    <3>2. Fits(v) /\ row'[v] = row[v]
      BY <2>1, <2>3 DEF RowsFit
    <3>3. QED
      BY <2>7, <2>8, <3>1, <3>2, NoNewKeeper, QuietForAll
  <2>10. Fits(u)'
    <3>1. Fits(u) /\ row'[u] = row[u]
      BY <2>1, <2>3 DEF RowsFit
    <3>2. down \in [Maps -> Seq(Messages)] /\ down[m] # <<>> /\ down' = [down EXCEPT ![m] = Tail(@)]
      BY <2>1 DEF WiresOK, Taken
    <3>3. OneOf(down[m], "logincheck_delete", u) /\ down[m] \in Seq(Messages)
      BY <3>1, <3>2 DEF Fits
    <3>4. Told(Tail(down[m]), "logincheck_delete", u) = {} /\ Told(down[m], "logincheck_delete", u) # {}
      <4>1. FirstIs(down[m], "logincheck_delete", u)
        BY <1>1, <1>2, <3>2 DEF FirstIs
      <4>2. OnlyTaken(down[m], "logincheck_delete", u)
        BY <3>3, <4>1, TakenWasLast
      <4>3. QED
        BY <4>2 DEF OnlyTaken
    <3>5. <<"answer", m>> \in Keepers(u)
      BY <3>4, KeptBy
    <3>6. /\ \A n \in Maps : Told(up[n], "disconnected", u) # {} => <<"answer", m>> = <<"notice", n>>
          /\ \A n \in Maps : Told(down[n], "logincheck_delete", u) # {} => <<"answer", m>> = <<"answer", n>>
      BY <3>1, <3>5, OnlyKeeper
    <3>7. \A n \in Maps : Told(up'[n], "disconnected", u) = {}
      BY <1>3, <3>6
    <3>8. \A n \in Maps : Told(down'[n], "logincheck_delete", u) = {}
      BY <3>2, <3>4, <3>6
    <3>9. \A c \in Conns : ~(Live(c)' /\ sess'[c].user = u)
      BY <1>5, <2>8 DEF HasSession
    <3>10. \A r \in Keepers(u)' : r = <<"query", u>>
      BY <3>7, <3>8, <3>9, OnlyKeeperNext
    <3>11. \A n \in Maps : OneOf(up'[n], "disconnected", u) /\ OneOf(down'[n], "logincheck_delete", u)
      BY <3>7, <3>8 DEF OneOf
    <3>12. QED
      BY <3>1, <3>5, <3>10, <3>11, KeeperMoves
  <2>11. RowsFit'
    BY <2>9, <2>10 DEF RowsFit
  <2>12. QED
    BY <2>4, <2>5, <2>6, <2>11, InvPartsNext
<1>6. QED
  BY <1>4, <1>5

LEMMA KeepsFromMap == ASSUME Inv, NEW m \in Maps, FromMap(m) PROVE Inv'
<1>1. Taken(m)
  BY DEF FromMap, Taken
<1>2. \/ GameinAck(m, Head(down[m]))
      \/ GameinNack(m, Head(down[m]))
      \/ MapOut(m, Head(down[m]))
      \/ NpcMapOut(m, Head(down[m]))
      \/ MapOutWithMapNum(m, Head(down[m]))
      \/ BackToCharSelAck(m, Head(down[m]))
      \/ LoginCheckDelete(m, Head(down[m]))
      \/ ChannelInfoAck(Head(down[m]))
      \/ ChannelInfoNack(Head(down[m]))
  BY DEF FromMap
<1>3. QED
  BY <1>1, <1>2, KeepsGameinAck, KeepsGameinNack, KeepsLeftFor, KeepsBackToList, KeepsLoginCheckDelete,
     KeepsChannelAnswer

-----------------------------------------------------------------------------
(* The map servers. *)

(* What happens at a map server, and hands no row over. *)
LEMMA ElsewhereKeeps ==
  ASSUME Inv, UNCHANGED <<agent, row, jobs, keys, crossed>>,
         saved' \in [Chars -> Maps \cup {NoMap}], known' \subseteq Maps, alive' \subseteq Maps,
         up' \in [Maps -> Seq(Messages)], down' \in [Maps -> Seq(Messages)],
         world' \in [Maps -> SUBSET Entries], QuietLinks
  PROVE  Inv'
<1>1. SessionsFit /\ BaseTypes /\ WiresOK /\ RowsFit
  BY InvParts
<1>2. UNCHANGED <<sess, byChar, phase>>
  BY DEF agent
<1>3. SessionsFit'
  BY <1>1, <1>2, SessionsStay
<1>4. BaseTypes' /\ WiresOK'
  BY <1>1 DEF BaseTypes, WiresOK, Messages, Entries, Queries, Logout
<1>5. RowsFit'
  BY <1>1, <1>2, RowsStay DEF Live
<1>6. QED
  BY <1>3, <1>4, <1>5, InvPartsNext

LEMMA LinkTypes ==
  ASSUME Inv
  PROVE  /\ saved \in [Chars -> Maps \cup {NoMap}] /\ known \subseteq Maps /\ alive \subseteq Maps
         /\ up \in [Maps -> Seq(Messages)] /\ down \in [Maps -> Seq(Messages)]
         /\ world \in [Maps -> SUBSET Entries]
BY InvParts DEF BaseTypes, WiresOK

LEMMA KeepsLoads == ASSUME Inv, NEW m \in Maps, MapLoads(m) PROVE Inv'
<1>1. UNCHANGED <<agent, row, saved, jobs, up, known, alive, keys, crossed>>
  BY DEF MapLoads, base, limits
<1>2. PICK e \in world[m], ok \in BOOLEAN :
        /\ world' = [world EXCEPT ![m] = (@ \ {e}) \cup IF ok THEN {[e EXCEPT !.in = TRUE]} ELSE {}]
        /\ down' = [down EXCEPT ![m] = Append(@,
             [kind |-> IF ok THEN "gamein_ack" ELSE "gamein_nack",
              char |-> e.char, key |-> e.key, user |-> e.user, map |-> NoMap])]
  BY DEF MapLoads
<1>3. e \in Entries
  BY LinkTypes
<1>4. PICK msg \in Messages :
        /\ msg.kind # "logincheck_delete"
        /\ down' = [down EXCEPT ![m] = Append(@, msg)]
  <2> DEFINE msg == [kind |-> IF ok THEN "gamein_ack" ELSE "gamein_nack",
                     char |-> e.char, key |-> e.key, user |-> e.user, map |-> NoMap]
  <2>1. msg.kind \in PlayKinds /\ msg.kind # "logincheck_delete"
    BY DEF PlayKinds
  <2>2. msg \in Messages
    BY <1>3, <2>1 DEF Messages, Entries
  <2>3. QED
    BY <1>2, <2>1, <2>2
<1>5. [e EXCEPT !.in = TRUE] \in Entries
  BY <1>3 DEF Entries
<1>6. world' \in [Maps -> SUBSET Entries]
  BY <1>2, <1>3, <1>5, LinkTypes
<1>7. down' \in [Maps -> Seq(Messages)] /\ \A n \in Maps : Quieter(down'[n], down[n], "logincheck_delete")
  <2>1. Append(down[m], msg) \in Seq(Messages)
    BY LinkTypes, AppendProperties
  <2>2. ASSUME NEW n \in Maps PROVE Quieter(down'[n], down[n], "logincheck_delete")
    <3>1. CASE n = m
      BY <1>4, <3>1, LinkTypes, QuieterAppend
    <3>2. CASE n # m
      BY <1>4, <3>2, LinkTypes, QuieterSame
    <3>3. QED
      BY <3>1, <3>2
  <2>3. QED
    BY <1>4, <2>1, <2>2, LinkTypes
<1>8. QuietLinks
  BY <1>1, <1>7, QuieterSame DEF QuietLinks
<1>9. QED
  BY <1>1, <1>6, <1>7, <1>8, LinkTypes, ElsewhereKeeps

LEMMA KeepsCrash == ASSUME Inv, NEW m \in Maps, MapCrash(m) PROVE Inv'
<1>1. /\ UNCHANGED <<agent, row, saved, jobs, down, known, keys, crossed>>
      /\ alive' = alive \ {m} /\ world' = [world EXCEPT ![m] = {}] /\ up' = [up EXCEPT ![m] = <<>>]
  BY DEF MapCrash, base
<1>2. world' \in [Maps -> SUBSET Entries] /\ up' \in [Maps -> Seq(Messages)]
  <2>1. <<>> \in Seq(Messages)
    BY EmptySeq
  <2>2. QED
    BY <1>1, <2>1, LinkTypes
<1>3. ASSUME NEW n \in Maps PROVE Quieter(up'[n], up[n], "disconnected")
  <2>1. CASE n = m
    BY <1>1, <2>1, LinkTypes, QuieterEmpty
  <2>2. CASE n # m
    BY <1>1, <2>2, LinkTypes, QuieterSame
  <2>3. QED
    BY <2>1, <2>2
<1>4. QuietLinks
  BY <1>1, <1>3, QuieterSame DEF QuietLinks
<1>5. QED
  BY <1>1, <1>2, <1>4, LinkTypes, ElsewhereKeeps

LEMMA KeepsStart == ASSUME Inv, NEW m \in Maps, MapStart(m) PROVE Inv'
<1>1. /\ UNCHANGED <<agent, row, saved, jobs, up, down, world, keys, crossed>>
      /\ alive' = alive \cup {m} /\ known' = known \cup {m}
  BY DEF MapStart, AddServer, base, limits
<1>2. QuietLinks
  BY <1>1, QuieterSame DEF QuietLinks
<1>3. QED
  BY <1>1, <1>2, LinkTypes, ElsewhereKeeps

LEMMA UpTaken ==
  ASSUME up \in [Maps -> Seq(Messages)], NEW m \in Maps, up[m] # <<>>,
         up' = [up EXCEPT ![m] = Tail(@)]
  PROVE  /\ Head(up[m]) \in Messages
         /\ up' \in [Maps -> Seq(Messages)]
         /\ \A n \in Maps : Quieter(up'[n], up[n], "disconnected")
<1>1. Head(up[m]) \in Messages /\ Tail(up[m]) \in Seq(Messages)
  BY HeadTailProperties
<1>2. ASSUME NEW n \in Maps PROVE Quieter(up'[n], up[n], "disconnected")
  <2>1. CASE n = m
    BY <2>1, QuieterTail
  <2>2. CASE n # m
    BY <2>2, QuieterSame
  <2>3. QED
    BY <2>1, <2>2
<1>3. QED
  BY <1>1, <1>2

LEMMA PutDown ==
  ASSUME down \in [Maps -> Seq(Messages)], NEW m \in Maps, NEW x \in Messages,
         down' = [down EXCEPT ![m] = Append(@, x)]
  PROVE  /\ down' \in [Maps -> Seq(Messages)]
         /\ x.kind # "logincheck_delete" => \A n \in Maps : Quieter(down'[n], down[n], "logincheck_delete")
         /\ \A u : x.user # u => \A n \in Maps : QuietFor(down'[n], down[n], "logincheck_delete", u)
<1>1. Append(down[m], x) \in Seq(Messages)
  BY AppendProperties
<1>2. \A n \in Maps : down'[n] = IF n = m THEN Append(down[n], x) ELSE down[n]
  OBVIOUS
<1>3. ASSUME NEW u, x.kind # "logincheck_delete" \/ x.user # u, NEW n \in Maps
      PROVE  QuietFor(down'[n], down[n], "logincheck_delete", u)
  <2>1. CASE n = m
    BY <1>2, <1>3, <2>1, QuietForAppend
  <2>2. CASE n # m
    BY <1>2, <2>2 DEF QuietFor
  <2>3. QED
    BY <2>1, <2>2
<1>4. QED
  BY <1>1, <1>3 DEF Quieter

(* A notice is answered. *)
LEMMA NoticeAnswered ==
  ASSUME Inv, NEW m \in Maps, up[m] # <<>>, up' = [up EXCEPT ![m] = Tail(@)],
         Head(up[m]).kind = "disconnected",
         NEW x \in Messages, x.user = Head(up[m]).user, down' = [down EXCEPT ![m] = Append(@, x)],
         UNCHANGED <<agent, row, jobs>>
  PROVE  RowsFit'
<1>1. /\ up \in [Maps -> Seq(Messages)] /\ down \in [Maps -> Seq(Messages)] /\ RowsFit
  BY LinkTypes, InvParts
<1>2. Head(up[m]) \in Messages /\ \A n \in Maps : Quieter(up'[n], up[n], "disconnected")
  BY <1>1, UpTaken
<1>3. PICK u \in Users : u = x.user
  BY <1>2, MessageIs DEF PlayKinds
<1>4. \A c \in Conns : \A v : Live(c)' /\ sess'[c].user = v => Live(c) /\ sess[c].user = v
  BY DEF agent, Live
<1>5. ASSUME NEW v \in Users, v # u PROVE Fits(v)'
  <2>1. QuietLinksFor(v)
    BY <1>1, <1>2, <1>3, <1>5, PutDown DEF QuietLinksFor, Quieter
  <2>2. Fits(v) /\ row'[v] = row[v] /\ jobs' = jobs
    BY <1>1 DEF RowsFit
  <2>3. QED
    BY <1>4, <2>1, <2>2, NoNewKeeper
<1>6. Fits(u)'
  <2>1. Fits(u) /\ row'[u] = row[u]
    BY <1>1 DEF RowsFit
  <2>2. OneOf(up[m], "disconnected", u) /\ up[m] \in Seq(Messages)
    BY <1>1, <2>1 DEF Fits
  <2>3. Told(Tail(up[m]), "disconnected", u) = {} /\ Told(up[m], "disconnected", u) # {}
    <3>1. FirstIs(up[m], "disconnected", u)
      BY <1>3 DEF FirstIs
    <3>2. OnlyTaken(up[m], "disconnected", u)
      BY <2>2, <3>1, TakenWasLast
    <3>3. QED
      BY <3>2 DEF OnlyTaken
  <2>4. <<"notice", m>> \in Keepers(u)
    BY <2>3, KeptBy
  <2>5. /\ \A c \in Conns : Live(c) /\ sess[c].user = u => <<"notice", m>> = <<"session", c>>
        /\ Logout(u) \in jobs => <<"notice", m>> = <<"query", u>>
        /\ \A n \in Maps : Told(up[n], "disconnected", u) # {} => <<"notice", m>> = <<"notice", n>>
        /\ \A n \in Maps : Told(down[n], "logincheck_delete", u) # {} => <<"notice", m>> = <<"answer", n>>
    BY <2>1, <2>4, OnlyKeeper
  <2>6. /\ \A c \in Conns : ~(Live(c)' /\ sess'[c].user = u)
        /\ Logout(u) \notin jobs'
    BY <1>4, <2>5
  <2>7. \A n \in Maps : Told(up'[n], "disconnected", u) = {}
    BY <1>1, <2>3, <2>5
  <2>8. \A n \in Maps : Told(down[n], "logincheck_delete", u) = {}
    BY <2>5
  <2>9. \A n \in Maps : down'[n] = IF n = m THEN Append(down[n], x) ELSE down[n]
    BY <1>1
  <2>10. \A n \in Maps : Told(down'[n], "logincheck_delete", u) # {} => n = m
    BY <2>8, <2>9
  <2>11. \A r \in Keepers(u)' : r = <<"answer", m>>
    BY <2>6, <2>7, <2>10, OnlyKeeperNext
  <2>12. ASSUME NEW n \in Maps
         PROVE  OneOf(up'[n], "disconnected", u) /\ OneOf(down'[n], "logincheck_delete", u)
    <3>1. OneOf(up'[n], "disconnected", u)
      BY <2>7 DEF OneOf
    <3>2. CASE n = m
      BY <1>1, <2>8, <2>9, <3>1, <3>2, PutIsFirst
    <3>3. CASE n # m
      BY <2>8, <2>9, <3>1, <3>3 DEF OneOf
    <3>4. QED
      BY <3>2, <3>3
  <2>13. QED
    BY <2>1, <2>4, <2>11, <2>12, KeeperMoves
<1>7. QED
  BY <1>5, <1>6 DEF RowsFit

LEMMA KeepsServes == ASSUME Inv, NEW m \in Maps, MapServes(m) PROVE Inv'
<1>1. /\ up[m] # <<>> /\ up' = [up EXCEPT ![m] = Tail(@)]
      /\ UNCHANGED <<agent, row, jobs, known, alive, keys, crossed>>
  BY DEF MapServes, limits
<1>2. PICK msg \in Messages : msg = Head(up[m])
  BY <1>1, LinkTypes, UpTaken
<1>3. /\ up' \in [Maps -> Seq(Messages)]
      /\ \A n \in Maps : Quieter(up'[n], up[n], "disconnected")
  BY <1>1, LinkTypes, UpTaken
<1>4. \A x : Without(m, x) \subseteq Entries
  BY LinkTypes DEF Without
<1>5. CASE msg.kind = "disconnected"
  <2>1. /\ world' = [world EXCEPT ![m] = Without(m, msg.char)]
        /\ down' = [down EXCEPT ![m] = Append(@, [msg EXCEPT !.kind = "logincheck_delete"])]
        /\ saved' = saved
    BY <1>2, <1>5, EntryAssumption DEF MapServes
  <2>2. PICK x \in Messages : x = [msg EXCEPT !.kind = "logincheck_delete"] /\ x.user = msg.user
    BY <1>5, MessageIs DEF PlayKinds
  <2>3. world' \in [Maps -> SUBSET Entries]
    BY <1>4, <2>1, LinkTypes
  <2>4. down' \in [Maps -> Seq(Messages)]
    BY <2>1, <2>2, LinkTypes, PutDown
  <2>5. RowsFit'
    BY <1>1, <1>2, <1>5, <2>1, <2>2, NoticeAnswered
  <2>6. SessionsFit /\ BaseTypes /\ WiresOK
    BY InvParts
  <2>7. UNCHANGED <<sess, byChar, phase>>
    BY <1>1 DEF agent
  <2>8. SessionsFit'
    BY <1>1, <2>6, <2>7, SessionsStay
  <2>9. BaseTypes' /\ WiresOK'
    BY <1>1, <1>3, <2>1, <2>3, <2>4, <2>6 DEF BaseTypes, WiresOK, Messages, Entries, Queries, Logout
  <2>10. QED
    BY <2>5, <2>8, <2>9, InvPartsNext
<1>6. CASE msg.kind # "disconnected"
  <2>1. \/ UNCHANGED <<world, saved, down>>
        \/ \E x \in Messages : /\ x.kind # "logincheck_delete"
                               /\ down' = [down EXCEPT ![m] = Append(@, x)]
                               /\ UNCHANGED <<world, saved>>
        \/ \E ws \in SUBSET Entries : world' = [world EXCEPT ![m] = ws] /\ UNCHANGED <<saved, down>>
        \/ /\ world' = [world EXCEPT ![m] = Without(m, msg.char)]
           /\ \E to \in Maps : saved' = [saved EXCEPT ![msg.char] = to]
           /\ down' = [down EXCEPT ![m] = Append(@, msg)] /\ msg.kind # "logincheck_delete"
    <3>1. CASE msg.kind = "channel"
      <4>1. PICK kind \in {"channel_ack", "channel_nack"} :
              down' = [down EXCEPT ![m] = Append(@, [msg EXCEPT !.kind = kind])] /\ UNCHANGED <<world, saved>>
        BY <1>2, <3>1, EntryAssumption DEF MapServes
      <4>2. [msg EXCEPT !.kind = kind] \in Messages /\ [msg EXCEPT !.kind = kind].kind # "logincheck_delete"
        <5>1. msg \in [kind : {"channel", "channel_ack", "channel_nack"}, conn : Conns, key : 1..keys]
          BY <3>1 DEF Messages, PlayKinds, WayKinds
        <5>2. QED
          BY <5>1 DEF Messages
      <4>3. QED
        BY <4>1, <4>2
    <3>2. CASE msg.kind = "gamein"
      <4>1. /\ world' = [world EXCEPT ![m] = Without(m, msg.char) \cup {Entry(msg, FALSE)}]
            /\ UNCHANGED <<saved, down>>
        BY <1>2, <3>2, EntryAssumption DEF MapServes
      <4>2. Entry(msg, FALSE) \in Entries
        BY <3>2, MessageIs DEF Entry, Entries, PlayKinds
      <4>3. QED
        BY <1>4, <4>1, <4>2
    <3>3. CASE msg.kind \in {"gamein_nack", "othermap"}
      <4>1. world' = [world EXCEPT ![m] = Without(m, msg.char)] /\ UNCHANGED <<saved, down>>
        BY <1>2, <3>3, EntryAssumption DEF MapServes
      <4>2. QED
        BY <1>4, <4>1
    <3>4. CASE msg.kind \in Ways \cup {"back"}
      <4>1. \/ UNCHANGED <<world, saved, down>>
            \/ \E to \in {msg.map, m} :
                 /\ msg.kind \in Ways => to = msg.map
                 /\ msg.kind = "back" => to = m
                 /\ world' = [world EXCEPT ![m] = Without(m, msg.char)]
                 /\ saved' = [saved EXCEPT ![msg.char] = to]
                 /\ down' = [down EXCEPT ![m] = Append(@, msg)]
        BY <1>2, <3>4, EntryAssumption DEF MapServes
      <4>2. msg.kind \in Ways => msg.map \in Maps
        BY MessageIs, EntryAssumption DEF WayKinds
      <4>3. msg.kind # "logincheck_delete"
        BY <3>4, EntryAssumption
      <4>4. QED
        BY <3>4, <4>1, <4>2, <4>3
    <3>5. QED
      BY <1>2, <1>6, <3>1, <3>2, <3>3, <3>4 DEF MapServes
  <2>2. /\ world' \in [Maps -> SUBSET Entries] /\ saved' \in [Chars -> Maps \cup {NoMap}]
        /\ down' \in [Maps -> Seq(Messages)]
        /\ \A n \in Maps : Quieter(down'[n], down[n], "logincheck_delete")
    <3>1. CASE UNCHANGED down
      BY <1>4, <2>1, <3>1, LinkTypes, QuieterSame
    <3>2. CASE ~ UNCHANGED down
      <4>1. PICK x \in Messages : x.kind # "logincheck_delete" /\ down' = [down EXCEPT ![m] = Append(@, x)]
        BY <2>1, <3>2
      <4>2. down' \in [Maps -> Seq(Messages)] /\ \A n \in Maps : Quieter(down'[n], down[n], "logincheck_delete")
        BY <4>1, LinkTypes, PutDown
      <4>3. world' \in [Maps -> SUBSET Entries] /\ saved' \in [Chars -> Maps \cup {NoMap}]
        <5>1. \/ UNCHANGED <<world, saved>>
              \/ /\ world' = [world EXCEPT ![m] = Without(m, msg.char)]
                 /\ \E to \in Maps : saved' = [saved EXCEPT ![msg.char] = to]
          BY <2>1, <3>2
        <5>2. CASE UNCHANGED <<world, saved>>
          BY <5>2, LinkTypes
        <5>3. ASSUME NEW to \in Maps, world' = [world EXCEPT ![m] = Without(m, msg.char)],
                     saved' = [saved EXCEPT ![msg.char] = to]
              PROVE  world' \in [Maps -> SUBSET Entries] /\ saved' \in [Chars -> Maps \cup {NoMap}]
          BY <1>4, <5>3, LinkTypes
        <5>4. QED
          BY <5>1, <5>2, <5>3
      <4>4. QED
        BY <4>2, <4>3
    <3>3. QED
      BY <3>1, <3>2
  <2>3. QuietLinks
    BY <1>3, <2>2 DEF QuietLinks
  <2>4. QED
    BY <1>1, <1>3, <2>2, <2>3, LinkTypes, ElsewhereKeeps
<1>7. QED
  BY <1>5, <1>6

LEMMA InitHolds == Init => Inv
<1> SUFFICES ASSUME Init PROVE Inv
  OBVIOUS
<1>1. \A c \in Conns : ~Live(c)
  BY DEF Init, Live
<1>2. SessTypes /\ BaseTypes
  <2>1. SessTypes
    BY <1>1 DEF Init, SessTypes
  <2>2. BaseTypes
    BY DEF Init, BaseTypes
  <2>3. QED
    BY <2>1, <2>2
<1>3. WiresOK
  <2>1. \A m \in Maps : up[m] \in Seq(Messages) /\ down[m] \in Seq(Messages)
    BY EmptySeq DEF Init
  <2>2. QED
    BY <2>1 DEF Init, WiresOK
<1>4. PhasesFit /\ OwnsChar /\ ListsOwn
  BY <1>1 DEF PhasesFit, OwnsChar, ListsOwn
<1>5. JobsFit
  BY DEF Init, JobsFit
<1>6. TablesAgree
  BY <1>1, EntryAssumption DEF Init, TablesAgree
<1>7. RowsFit
  <2>1. ASSUME NEW u \in Users PROVE Fits(u)
    <3>1. \A m \in Maps : Told(up[m], "disconnected", u) = {} /\ Told(down[m], "logincheck_delete", u) = {}
      BY DEF Init, Told
    <3>2. Keepers(u) = {}
      BY <1>1, <3>1 DEF Init, Keepers
    <3>3. QED
      BY <3>1, <3>2 DEF Fits, OneOf
  <2>2. QED
    BY <2>1 DEF RowsFit
<1>8. QED
  BY <1>2, <1>3, <1>4, <1>5, <1>6, <1>7, InvParts DEF SessionsFit

-----------------------------------------------------------------------------
(* The theorems. *)

LEMMA ClientKeeps == ASSUME Inv, NEW c \in Conns, Client(c) PROVE Inv'
<1>1. CASE \E u \in Users : Connect(c, u)
  BY <1>1, KeepsConnect
<1>2. CASE OnDisconnectUser(c)
  BY <1>2, KeepsDisconnect
<1>3. CASE \E x \in Chars : CharacterMakeSyn(c, x) \/ CharacterRemoveSyn(c, x)
  BY <1>3, KeepsAskings
<1>4. CASE \E x \in Chars : CharacterSelectSyn(c, x)
  BY <1>4, KeepsSelect
<1>5. CASE CharacterNameCheckSyn(c)
  BY <1>5, KeepsAskings
<1>6. CASE \E x \in Chars : ChannelInfoSyn(c, x)
  BY <1>6, KeepsRequests
<1>7. CASE GameinSyn(c) \/ GameInPosSyn(c)
  BY <1>7, KeepsRequests DEF GameinSyn, GameInPosSyn
<1>8. CASE \E m \in Maps : \/ ChangeMapSyn(c, m) \/ ReturnSyn(c, m) \/ NpcChangeMapSyn(c, m)
                           \/ HouseEntranceSyn(c, m) \/ DungeonEntranceSyn(c, m)
  BY <1>8, KeepsRequests DEF ChangeMapSyn, ReturnSyn, NpcChangeMapSyn, HouseEntranceSyn, DungeonEntranceSyn
<1>9. CASE BackToCharSelSyn(c)
  BY <1>9, KeepsRequests
<1>10. QED
  BY <1>1, <1>2, <1>3, <1>4, <1>5, <1>6, <1>7, <1>8, <1>9 DEF Client

LEMMA StutterKeeps == Inv /\ UNCHANGED vars => Inv'
<1> SUFFICES ASSUME Inv, UNCHANGED vars PROVE Inv'
  OBVIOUS
<1>1. UNCHANGED <<agent, row, saved, jobs, up, down, known, alive, world, keys, crossed>>
  BY DEF vars, agent
<1>2. QuietLinks
  BY <1>1, QuieterSame DEF QuietLinks
<1>3. QED
  BY <1>1, <1>2, LinkTypes, ElsewhereKeeps

LEMMA NextKeeps == Inv /\ [Next]_vars => Inv'
<1> SUFFICES ASSUME Inv, Next PROVE Inv'
  BY StutterKeeps
<1>1. CASE \E c \in Conns : Client(c)
  BY <1>1, ClientKeeps
<1>2. CASE Result
  BY <1>2, KeepsResult
<1>3. CASE \E x \in Chars : RGMBanCharacter(x) \/ CheatServerBanCharacter(x)
  BY <1>3, KeepsBan
<1>4. CASE DisconnectAllUser
  BY <1>4, KeepsDisconnectAll
<1>5. CASE \E m \in Maps : FromMap(m) \/ OnDisconnectServer(m)
  BY <1>5, KeepsFromMap, KeepsServerDown
<1>6. CASE \E m \in Maps : MapServes(m) \/ MapLoads(m) \/ MapCrash(m) \/ MapStart(m)
  BY <1>6, KeepsServes, KeepsLoads, KeepsCrash, KeepsStart
<1>7. QED
  BY <1>1, <1>2, <1>3, <1>4, <1>5, <1>6 DEF Next

LEMMA InvAlways == Spec => []Inv
<1>1. QED
  BY InitHolds, NextKeeps, PTL DEF Spec

(* What the agent keeps about its clients is about these clients, always:  *)
(* the tables of accounts and of characters agree, and a list shows an     *)
(* account its own characters.                                             *)
THEOREM SessionsAlwaysAgree == Spec => []SessionsAgree
<1>1. Inv => SessionsAgree
  BY DEF Inv, SessionsAgree
<1>2. QED
  BY <1>1, InvAlways, PTL

(* A session has a login row as long as it lives, so that the account      *)
(* cannot log in a second time.                                            *)
THEOREM RowsAreKept == Spec => []RowsKept
<1>1. Inv => RowsKept
  <2>1. ASSUME Inv, NEW c \in Conns, Live(c) PROVE row[sess[c].user]
    <3>1. sess[c].user \in Users
      BY <2>1, LiveSession, InvParts DEF SessionsFit, Sessions
    <3>2. Fits(sess[c].user)
      BY <2>1, <3>1, InvParts DEF RowsFit
    <3>3. <<"session", c>> \in Keepers(sess[c].user)
      BY <2>1, KeptBy
    <3>4. QED
      BY <3>2, <3>3 DEF Fits
  <2>2. QED
    BY <2>1 DEF RowsKept
<1>2. QED
  BY <1>1, InvAlways, PTL

(* An account has one session at a time at an agent.                       *)
THEOREM OneSessionEach ==
  Spec => [](\A c, d \in Conns : Live(c) /\ Live(d) /\ sess[c].user = sess[d].user => c = d)
<1>1. Inv => \A c, d \in Conns : Live(c) /\ Live(d) /\ sess[c].user = sess[d].user => c = d
  BY OneSession
<1>2. QED
  BY <1>1, InvAlways, PTL

-----------------------------------------------------------------------------
(* The messages about a character. *)

AskKinds  == WayKinds \cup {"back"}
CharKinds == PlayKinds \cup WayKinds
Requests  == AskKinds \cup {"gamein"}
Replies   == AskKinds \cup {"gamein_ack", "gamein_nack"}
Sweeps    == {"gamein_nack", "othermap"}
Entering  == {"gamein"}
Entered   == {"gamein_ack"}
NotIn     == {"gamein_nack"}
Notices   == {"disconnected"}
Answers   == {"logincheck_delete"}

LEMMA KindsApart ==
  /\ "gamein" \in Requests /\ "gamein" \in Entering /\ "gamein" \notin Sweeps \cup Notices
  /\ "gamein_ack" \in Replies /\ "gamein_ack" \in Entered /\ "gamein_ack" \notin Answers
  /\ "gamein_nack" \in Replies /\ "gamein_nack" \in NotIn /\ "gamein_nack" \in Sweeps
  /\ "gamein_nack" \notin Requests \cup Entering \cup Notices \cup Answers
  /\ "othermap" \in Sweeps /\ "othermap" \notin Requests \cup Entering \cup Notices
  /\ "disconnected" \in Notices /\ "disconnected" \notin Requests \cup Entering \cup Sweeps
  /\ "logincheck_delete" \in Answers /\ "logincheck_delete" \notin Replies
  /\ \A k \in AskKinds : /\ k \in Requests /\ k \in Replies
                         /\ k \notin Entering \cup Sweeps \cup Notices \cup Answers \cup Entered \cup NotIn
  /\ Entered \cap AskKinds = {} /\ NotIn \cap AskKinds = {} /\ Entered \cap NotIn = {}
  /\ Entering \cap AskKinds = {}
BY DEF AskKinds, Requests, Replies, Sweeps, Entering, Entered, NotIn, Notices, Answers, WayKinds

Names(msg, x) == msg.kind \in CharKinds /\ msg.char = x

About(msg, K, x) == Names(msg, x) /\ msg.kind \in K

No(q, K, x) == \A i \in 1..Len(q) : ~About(q[i], K, x)

(* Of the messages of K about x there is one, it is of J, and has the key. *)
Only(q, K, J, x, key) ==
  \E i \in 1..Len(q) : /\ About(q[i], K, x) /\ q[i].kind \in J /\ q[i].key = key
                       /\ \A j \in 1..Len(q) : About(q[j], K, x) => j = i

Before(q, K, L, x) ==
  \A i, j \in 1..Len(q) : About(q[i], K, x) /\ About(q[j], L, x) => i < j

(* As far as x goes, new is as old. *)
Alike(new, old, x) ==
  \A K, J, L, key : /\ No(new, K, x) <=> No(old, K, x)
                    /\ Only(old, K, J, x, key) => Only(new, K, J, x, key)
                    /\ Before(old, K, L, x) => Before(new, K, L, x)

(* new is old, with a message about x put, or with the first one taken. *)
Put(new, old, msg, x) ==
  \A K, J, L, key :
    /\ msg.kind \in K => ~No(new, K, x)
    /\ msg.kind \notin K => (No(new, K, x) <=> No(old, K, x))
    /\ Only(old, K, J, x, key) /\ msg.kind \notin K => Only(new, K, J, x, key)
    /\ No(old, K, x) /\ msg.kind \in K /\ msg.kind \in J => Only(new, K, J, x, msg.key)
    /\ Before(old, K, L, x) /\ msg.kind \notin K => Before(new, K, L, x)
    /\ No(old, L, x) /\ msg.kind \in L /\ msg.kind \notin K => Before(new, K, L, x)
    /\ No(old, L, x) /\ msg.kind \notin L => Before(new, K, L, x)

Took(new, old, msg, x) ==
  \A K, J, L, key :
    /\ No(old, K, x) => No(new, K, x) /\ msg.kind \notin K
    /\ msg.kind \notin K => (No(new, K, x) <=> No(old, K, x))
    /\ msg.kind \notin K /\ Only(old, K, J, x, key) => Only(new, K, J, x, key)
    /\ msg.kind \in K /\ Only(old, K, J, x, key) => No(new, K, x) /\ msg.kind \in J /\ msg.key = key
    /\ Before(old, K, L, x) => Before(new, K, L, x)
    /\ Before(old, K, L, x) /\ msg.kind \in L => No(new, K, x) /\ No(old, K, x)

LEMMA Empties == \A K, L, x : No(<<>>, K, x) /\ Before(<<>>, K, L, x)
BY DEF No, Before

LEMMA AlikeSame == \A q, x : Alike(q, q, x)
BY DEF Alike

LEMMA Appended ==
  ASSUME NEW S, NEW q \in Seq(S), NEW msg \in S
  PROVE  /\ Len(q) \in Nat /\ Len(Append(q, msg)) = Len(q) + 1
         /\ \A i \in 1..Len(q) : i \in 1..(Len(q) + 1) /\ Append(q, msg)[i] = q[i] /\ i # Len(q) + 1
         /\ Append(q, msg)[Len(q) + 1] = msg /\ Len(q) + 1 \in 1..(Len(q) + 1)
         /\ \A i \in 1..(Len(q) + 1) : i \in 1..Len(q) \/ i = Len(q) + 1
         /\ \A i \in 1..Len(q) : i < Len(q) + 1 /\ ~(Len(q) + 1 < i)
BY AppendProperties

LEMMA Tailed ==
  ASSUME NEW S, NEW q \in Seq(S), q # <<>>
  PROVE  /\ Len(q) \in Nat /\ Len(Tail(q)) = Len(q) - 1 /\ Head(q) = q[1] /\ 1 \in 1..Len(q)
         /\ \A i \in 1..Len(Tail(q)) : i \in Nat /\ i + 1 \in 1..Len(q) /\ Tail(q)[i] = q[i + 1] /\ i + 1 # 1
         /\ \A i \in 1..Len(q) : i = 1 \/ (i - 1 \in 1..Len(Tail(q)) /\ Tail(q)[i - 1] = q[i] /\ (i - 1) + 1 = i)
         /\ \A i \in 1..Len(q) : i >= 1
         /\ \A i, j \in 1..Len(Tail(q)) : i + 1 < j + 1 <=> i < j
<1>1. /\ Len(Tail(q)) = Len(q) - 1 /\ Len(q) \in Nat /\ Len(q) > 0
      /\ \A i \in 1..Len(Tail(q)) : Tail(q)[i] = q[i + 1]
      /\ Head(q) = q[1]
  BY HeadTailProperties, EmptySeq, LenProperties
<1>2. QED
  BY <1>1

LEMMA AppendAlike ==
  ASSUME NEW S, NEW q \in Seq(S), NEW msg \in S, NEW x, ~Names(msg, x)
  PROVE  Alike(Append(q, msg), q, x)
<1> DEFINE p == Append(q, msg)
<1>1. \A K : ~About(p[Len(q) + 1], K, x)
  BY Appended DEF About
<1>2. ASSUME NEW K PROVE No(p, K, x) <=> No(q, K, x)
  BY <1>1, Appended DEF No
<1>3. ASSUME NEW K, NEW J, NEW key, Only(q, K, J, x, key) PROVE Only(p, K, J, x, key)
  <2>1. PICK i \in 1..Len(q) : /\ About(q[i], K, x) /\ q[i].kind \in J /\ q[i].key = key
                               /\ \A j \in 1..Len(q) : About(q[j], K, x) => j = i
    BY <1>3 DEF Only
  <2>2. i \in 1..Len(p) /\ p[i] = q[i] /\ \A j \in 1..Len(p) : About(p[j], K, x) => j = i
    BY <1>1, <2>1, Appended
  <2>3. QED
    BY <2>1, <2>2 DEF Only
<1>4. ASSUME NEW K, NEW L, Before(q, K, L, x) PROVE Before(p, K, L, x)
  BY <1>1, <1>4, Appended DEF Before
<1>5. QED
  BY <1>2, <1>3, <1>4 DEF Alike

LEMMA TailAlike ==
  ASSUME NEW S, NEW q \in Seq(S), q # <<>>, NEW x, ~Names(Head(q), x)
  PROVE  Alike(Tail(q), q, x)
<1> DEFINE p == Tail(q)
<1>1. \A K : ~About(q[1], K, x)
  BY Tailed DEF About
<1>2. ASSUME NEW K PROVE No(p, K, x) <=> No(q, K, x)
  <2>1. ASSUME No(p, K, x), NEW i \in 1..Len(q) PROVE ~About(q[i], K, x)
    BY <1>1, <2>1, Tailed DEF No
  <2>2. ASSUME No(q, K, x), NEW i \in 1..Len(p) PROVE ~About(p[i], K, x)
    BY <2>2, Tailed DEF No
  <2>3. QED
    BY <2>1, <2>2 DEF No
<1>3. ASSUME NEW K, NEW J, NEW key, Only(q, K, J, x, key) PROVE Only(p, K, J, x, key)
  <2>1. PICK i \in 1..Len(q) : /\ About(q[i], K, x) /\ q[i].kind \in J /\ q[i].key = key
                               /\ \A j \in 1..Len(q) : About(q[j], K, x) => j = i
    BY <1>3 DEF Only
  <2>2. i # 1
    BY <1>1, <2>1
  <2>3. PICK k \in 1..Len(p) : k = i - 1 /\ k + 1 = i /\ p[k] = q[i]
    BY <2>2, Tailed
  <2>4. ASSUME NEW j \in 1..Len(p), About(p[j], K, x) PROVE j = k
    <3>1. j + 1 = i /\ j \in Nat
      BY <2>1, <2>4, Tailed
    <3>2. k \in Nat
      BY Tailed
    <3>3. QED
      BY <2>3, <3>1, <3>2
  <2>5. QED
    BY <2>1, <2>3, <2>4 DEF Only
<1>4. ASSUME NEW K, NEW L, Before(q, K, L, x) PROVE Before(p, K, L, x)
  <2>1. ASSUME NEW i \in 1..Len(p), NEW j \in 1..Len(p), About(p[i], K, x), About(p[j], L, x)
        PROVE  i < j
    <3>1. i + 1 \in 1..Len(q) /\ j + 1 \in 1..Len(q) /\ About(q[i + 1], K, x) /\ About(q[j + 1], L, x)
      BY <2>1, Tailed
    <3>2. i + 1 < j + 1
      BY <1>4, <3>1 DEF Before
    <3>3. QED
      BY <3>2, Tailed
  <2>2. QED
    BY <2>1 DEF Before
<1>5. QED
  BY <1>2, <1>3, <1>4 DEF Alike

LEMMA AppendPuts ==
  ASSUME NEW S, NEW q \in Seq(S), NEW msg \in S, NEW x, Names(msg, x)
  PROVE  Put(Append(q, msg), q, msg, x)
<1> DEFINE p == Append(q, msg)
<1>1. \A K : About(p[Len(q) + 1], K, x) <=> msg.kind \in K
  BY Appended DEF About
<1>2. ASSUME NEW K PROVE /\ msg.kind \in K => ~No(p, K, x)
                         /\ msg.kind \notin K => (No(p, K, x) <=> No(q, K, x))
  BY <1>1, Appended DEF No
<1>3. ASSUME NEW K, NEW J, NEW key, Only(q, K, J, x, key), msg.kind \notin K PROVE Only(p, K, J, x, key)
  <2>1. PICK i \in 1..Len(q) : /\ About(q[i], K, x) /\ q[i].kind \in J /\ q[i].key = key
                               /\ \A j \in 1..Len(q) : About(q[j], K, x) => j = i
    BY <1>3 DEF Only
  <2>2. i \in 1..Len(p) /\ p[i] = q[i] /\ \A j \in 1..Len(p) : About(p[j], K, x) => j = i
    BY <1>1, <1>3, <2>1, Appended
  <2>3. QED
    BY <2>1, <2>2 DEF Only
<1>4. ASSUME NEW K, NEW J, No(q, K, x), msg.kind \in K, msg.kind \in J PROVE Only(p, K, J, x, msg.key)
  <2>1. PICK i \in 1..Len(p) : i = Len(q) + 1 /\ p[i] = msg
    BY Appended
  <2>2. About(p[i], K, x) /\ \A j \in 1..Len(p) : About(p[j], K, x) => j = i
    BY <1>1, <1>4, <2>1, Appended DEF No
  <2>3. QED
    BY <1>4, <2>1, <2>2 DEF Only
<1>5. ASSUME NEW K, NEW L, Before(q, K, L, x), msg.kind \notin K PROVE Before(p, K, L, x)
  BY <1>1, <1>5, Appended DEF Before
<1>6. ASSUME NEW K, NEW L, No(q, L, x), msg.kind \in L, msg.kind \notin K PROVE Before(p, K, L, x)
  BY <1>1, <1>6, Appended DEF Before, No
<1>7. ASSUME NEW K, NEW L, No(q, L, x), msg.kind \notin L PROVE Before(p, K, L, x)
  BY <1>1, <1>7, Appended DEF Before, No
<1>8. QED
  BY <1>2, <1>3, <1>4, <1>5, <1>6, <1>7 DEF Put

LEMMA TailTakes ==
  ASSUME NEW S, NEW q \in Seq(S), q # <<>>, NEW x, Names(Head(q), x)
  PROVE  Took(Tail(q), q, Head(q), x)
<1> DEFINE p == Tail(q)
           msg == Head(q)
<1>1. \A K : About(q[1], K, x) <=> msg.kind \in K
  BY Tailed DEF About
<1>2. ASSUME NEW K, No(q, K, x) PROVE No(p, K, x) /\ msg.kind \notin K
  BY <1>1, <1>2, Tailed DEF No
<1>3. ASSUME NEW K, No(p, K, x), msg.kind \notin K PROVE No(q, K, x)
  BY <1>1, <1>3, Tailed DEF No
<1>4. ASSUME NEW K, NEW J, NEW key, Only(q, K, J, x, key), msg.kind \notin K PROVE Only(p, K, J, x, key)
  <2>1. PICK i \in 1..Len(q) : /\ About(q[i], K, x) /\ q[i].kind \in J /\ q[i].key = key
                               /\ \A j \in 1..Len(q) : About(q[j], K, x) => j = i
    BY <1>4 DEF Only
  <2>2. i # 1
    BY <1>1, <1>4, <2>1
  <2>3. PICK k \in 1..Len(p) : k = i - 1 /\ k + 1 = i /\ p[k] = q[i]
    BY <2>2, Tailed
  <2>4. ASSUME NEW j \in 1..Len(p), About(p[j], K, x) PROVE j = k
    <3>1. j + 1 = i /\ j \in Nat
      BY <2>1, <2>4, Tailed
    <3>2. k \in Nat
      BY Tailed
    <3>3. QED
      BY <2>3, <3>1, <3>2
  <2>5. QED
    BY <2>1, <2>3, <2>4 DEF Only
<1>5. ASSUME NEW K, NEW J, NEW key, Only(q, K, J, x, key), msg.kind \in K
      PROVE  No(p, K, x) /\ msg.kind \in J /\ msg.key = key
  <2>1. PICK i \in 1..Len(q) : /\ About(q[i], K, x) /\ q[i].kind \in J /\ q[i].key = key
                               /\ \A j \in 1..Len(q) : About(q[j], K, x) => j = i
    BY <1>5 DEF Only
  <2>2. i = 1
    BY <1>1, <1>5, <2>1, Tailed
  <2>3. ASSUME NEW j \in 1..Len(p), About(p[j], K, x) PROVE FALSE
    BY <2>1, <2>2, <2>3, Tailed
  <2>4. QED
    BY <2>1, <2>2, <2>3, Tailed DEF No
<1>6. ASSUME NEW K, NEW L, Before(q, K, L, x) PROVE Before(p, K, L, x)
  <2>1. ASSUME NEW i \in 1..Len(p), NEW j \in 1..Len(p), About(p[i], K, x), About(p[j], L, x)
        PROVE  i < j
    <3>1. i + 1 \in 1..Len(q) /\ j + 1 \in 1..Len(q) /\ About(q[i + 1], K, x) /\ About(q[j + 1], L, x)
      BY <2>1, Tailed
    <3>2. i + 1 < j + 1
      BY <1>6, <3>1 DEF Before
    <3>3. QED
      BY <3>2, Tailed
  <2>2. QED
    BY <2>1 DEF Before
<1>7. ASSUME NEW K, NEW L, Before(q, K, L, x), msg.kind \in L PROVE No(q, K, x)
  <2>1. ASSUME NEW i \in 1..Len(q), About(q[i], K, x) PROVE FALSE
    <3>1. i < 1
      BY <1>1, <1>7, <2>1, Tailed DEF Before
    <3>2. QED
      BY <3>1, Tailed
  <2>2. QED
    BY <2>1 DEF No
<1>8. QED
  BY <1>2, <1>3, <1>4, <1>5, <1>6, <1>7 DEF Took

-----------------------------------------------------------------------------
(* Links. *)

LinkSame(new, old) == \A m \in Maps, x \in Chars : Alike(new[m], old[m], x)

LinkPut(new, old, n, msg) ==
  \A m \in Maps, x \in Chars : IF m = n /\ Names(msg, x) THEN Put(new[m], old[m], msg, x)
                                                         ELSE Alike(new[m], old[m], x)

LinkTook(new, old, n, msg) ==
  \A m \in Maps, x \in Chars : IF m = n /\ Names(msg, x) THEN Took(new[m], old[m], msg, x)
                                                         ELSE Alike(new[m], old[m], x)

LEMMA SameLink == \A q : LinkSame(q, q)
BY AlikeSame DEF LinkSame

LEMMA PutLink ==
  ASSUME NEW S, NEW old \in [Maps -> Seq(S)], NEW n \in Maps, NEW msg \in S,
         NEW new, new = [old EXCEPT ![n] = Append(@, msg)]
  PROVE  LinkPut(new, old, n, msg)
<1>1. ASSUME NEW m \in Maps, NEW x \in Chars, m = n, Names(msg, x) PROVE Put(new[m], old[m], msg, x)
  BY <1>1, AppendPuts
<1>2. ASSUME NEW m \in Maps, NEW x \in Chars, m = n, ~Names(msg, x) PROVE Alike(new[m], old[m], x)
  BY <1>2, AppendAlike
<1>3. ASSUME NEW m \in Maps, NEW x \in Chars, m # n PROVE Alike(new[m], old[m], x)
  BY <1>3, AlikeSame
<1>4. QED
  BY <1>1, <1>2, <1>3 DEF LinkPut

LEMMA TakeLink ==
  ASSUME NEW S, NEW old \in [Maps -> Seq(S)], NEW n \in Maps, old[n] # <<>>,
         NEW new, new = [old EXCEPT ![n] = Tail(@)]
  PROVE  LinkTook(new, old, n, Head(old[n]))
<1>1. new[n] = Tail(old[n]) /\ \A m \in Maps : m # n => new[m] = old[m]
  OBVIOUS
<1>2. ASSUME NEW x \in Chars, Names(Head(old[n]), x)
      PROVE  Took(new[n], old[n], Head(old[n]), x)
  BY <1>1, <1>2, TailTakes
<1>3. ASSUME NEW x \in Chars, ~Names(Head(old[n]), x) PROVE Alike(new[n], old[n], x)
  BY <1>1, <1>3, TailAlike
<1>4. ASSUME NEW m \in Maps, NEW x \in Chars, m # n PROVE Alike(new[m], old[m], x)
  BY <1>1, <1>4, AlikeSame
<1>5. QED
  BY <1>2, <1>3, <1>4 DEF LinkTook

(* A message about a character names its account. *)
NameFits(msg) == msg.kind \in CharKinds => Owner[msg.char] = msg.user

AllFit(q) == \A i \in 1..Len(q) : NameFits(q[i])

LEMMA EmptyFits == AllFit(<<>>)
BY DEF AllFit

LEMMA AppendFits ==
  ASSUME NEW S, NEW q \in Seq(S), NEW msg \in S, AllFit(q), NameFits(msg)
  PROVE  AllFit(Append(q, msg))
BY Appended DEF AllFit

LEMMA TailFits ==
  ASSUME NEW S, NEW q \in Seq(S), q # <<>>, AllFit(q)
  PROVE  AllFit(Tail(q)) /\ NameFits(Head(q))
BY Tailed DEF AllFit

NamesFit ==
  /\ \A m \in Maps : AllFit(up[m]) /\ AllFit(down[m])
  /\ \A m \in Maps : \A e \in world[m] : Owner[e.char] = e.user

ServersFit ==
  /\ alive \subseteq known
  /\ \A m \in Maps : m \notin alive => up[m] = <<>> /\ world[m] = {}
  /\ \A m \in Maps : m \notin known => down[m] = <<>>
  /\ \A c \in Conns : Live(c) => sess[c].map \in known \cup {NoMap}
  /\ crashes \in Nat
  /\ crashes = 0 => alive = Maps

EntriesFit == \A m \in Maps : \A e, f \in world[m] : e.char = f.char => e = f

-----------------------------------------------------------------------------
(* Where a character is. *)

Here(m, x) == {e \in world[m] : e.char = x}

(* m has nothing of x but what it is to drop. *)
Bare(m, x) == No(up[m], Requests, x) /\ Here(m, x) = {} /\ No(down[m], Replies, x)

(* x is at m with the session of c, and nothing will take it away. *)
Has(c, m, x, in) ==
  /\ No(up[m], Sweeps, x)
  /\ \E e \in world[m] : Here(m, x) = {e} /\ e.in = in /\ e.key = sess[c].key

Plays(c, m, x) == IF m \in alive THEN Has(c, m, x, TRUE) ELSE Here(m, x) = {}

(* How far a session is on its way into the map, on it or away from it. *)
Asked(c, m, x) ==
  /\ Only(up[m], Requests, Entering, x, sess[c].key) /\ Before(up[m], Sweeps, Entering, x)
  /\ Here(m, x) = {} /\ No(down[m], Replies, x)

Loading(c, m, x) ==
  No(up[m], Requests, x) /\ Has(c, m, x, FALSE) /\ No(down[m], Replies, x)

Loaded(c, m, x) ==
  /\ No(up[m], Requests, x) /\ Plays(c, m, x)
  /\ Only(down[m], Replies, Entered, x, sess[c].key)

Refused(c, m, x) ==
  /\ No(up[m], Requests, x) /\ Here(m, x) = {}
  /\ Only(down[m], Replies, NotIn, x, sess[c].key)

Playing(c, m, x) ==
  No(up[m], Requests, x) /\ Plays(c, m, x) /\ No(down[m], Replies, x)

Leaving(c, m, x) ==
  /\ Only(up[m], Requests, AskKinds, x, sess[c].key) /\ Has(c, m, x, TRUE)
  /\ No(down[m], Replies, x)

HasLeft(c, m, x) ==
  /\ No(up[m], Requests, x) /\ Here(m, x) = {}
  /\ Only(down[m], Replies, AskKinds, x, sess[c].key)

Stage(c, m, x) ==
  \/ phase[c] = "enter" /\ Bare(m, x)
  \/ phase[c] = "load" /\ \/ Asked(c, m, x) \/ Loading(c, m, x)
                          \/ Loaded(c, m, x) \/ Refused(c, m, x)
                          \/ m \notin alive /\ Bare(m, x)
  \/ phase[c] = "play" /\ Playing(c, m, x)
  \/ phase[c] \in {"leave", "back"} /\ \/ Leaving(c, m, x) \/ HasLeft(c, m, x)
                                       \/ crashes > 0 /\ Bare(m, x)

PlaysAs(c, m, x) == Live(c) /\ sess[c].char = x /\ sess[c].map = m

Settled(x) == \A c \in Conns, m \in Maps : PlaysAs(c, m, x) => Stage(c, m, x)

(* Who sees to what is left of x at m: its client, a notice that is behind *)
(* it, the answer to the notice, or nobody, and then nobody comes back.    *)
Noticed(m, x) == ~No(up[m], Notices, x) /\ Before(up[m], Requests, Notices, x)

Answered(m, x) ==
  /\ No(up[m], Requests, x) /\ Here(m, x) = {}
  /\ ~No(down[m], Answers, x) /\ Before(down[m], Replies, Answers, x)

Lost(u) == Keepers(u) = {} /\ row[u]

Follows(m, x) ==
  \/ \E c \in Conns : PlaysAs(c, m, x)
  \/ Noticed(m, x)
  \/ Answered(m, x)
  \/ Lost(Owner[x]) /\ m \notin alive

Followed(x) == \A m \in Maps : Bare(m, x) \/ Follows(m, x)

Placed(x) == Settled(x) /\ Followed(x)

(* A row outlives what keeps it only when a map server has crashed.        *)
Kept == crashes = 0 => \A u \in Users : ~Lost(u)

WorldFits == ServersFit /\ NamesFit /\ EntriesFit

PlaceInv == WorldFits /\ Kept /\ \A x \in Chars : Placed(x)

-----------------------------------------------------------------------------
(* What keeps a row, seen from a character. *)

LEMMA LinkMessage ==
  Inv => \A m \in Maps : /\ up[m] \in Seq(Messages) /\ down[m] \in Seq(Messages)
                         /\ \A i \in 1..Len(up[m]) : up[m][i] \in Messages
                         /\ \A i \in 1..Len(down[m]) : down[m][i] \in Messages
<1>1. Inv => up \in [Maps -> Seq(Messages)] /\ down \in [Maps -> Seq(Messages)]
  BY InvParts DEF WiresOK
<1>2. QED
  BY <1>1, ElementOfSeq

LEMMA ToldNo ==
  ASSUME NEW q \in Seq(Messages), AllFit(q), NEW kind \in PlayKinds, NEW K, K = {kind}, NEW u
  PROVE  Told(q, kind, u) # {} <=> \E x \in Chars : Owner[x] = u /\ ~No(q, K, x)
<1>0. \A i \in 1..Len(q) : q[i] \in Messages /\ NameFits(q[i])
  BY ElementOfSeq DEF AllFit
<1>1. ASSUME NEW i \in Told(q, kind, u) PROVE \E x \in Chars : Owner[x] = u /\ ~No(q, K, x)
  <2>1. i \in 1..Len(q) /\ q[i].kind = kind /\ q[i].user = u
    BY <1>1 DEF Told
  <2>2. q[i].kind \in CharKinds /\ q[i].char \in Chars /\ Owner[q[i].char] = u
    BY <1>0, <2>1, MessageIs DEF CharKinds, NameFits
  <2>3. ~No(q, K, q[i].char)
    BY <2>1, <2>2 DEF No, About, Names
  <2>4. QED
    BY <2>2, <2>3
<1>2. ASSUME NEW x \in Chars, Owner[x] = u, ~No(q, K, x) PROVE Told(q, kind, u) # {}
  <2>1. PICK i \in 1..Len(q) : About(q[i], K, x)
    BY <1>2 DEF No
  <2>2. q[i].kind = kind /\ q[i].user = u
    BY <1>0, <1>2, <2>1 DEF About, Names, NameFits
  <2>3. QED
    BY <2>2 DEF Told
<1>3. QED
  BY <1>1, <1>2

LEMMA ToldLinks ==
  Inv /\ NamesFit => \A m \in Maps, u \in Users :
    /\ Told(up[m], "disconnected", u) # {} <=> \E x \in Chars : Owner[x] = u /\ ~No(up[m], Notices, x)
    /\ Told(down[m], "logincheck_delete", u) # {} <=> \E x \in Chars : Owner[x] = u /\ ~No(down[m], Answers, x)
<1> SUFFICES ASSUME Inv, NamesFit, NEW m \in Maps, NEW u \in Users
             PROVE  /\ Told(up[m], "disconnected", u) # {}
                         <=> \E x \in Chars : Owner[x] = u /\ ~No(up[m], Notices, x)
                    /\ Told(down[m], "logincheck_delete", u) # {}
                         <=> \E x \in Chars : Owner[x] = u /\ ~No(down[m], Answers, x)
  OBVIOUS
<1>1. AllFit(up[m]) /\ AllFit(down[m]) /\ up[m] \in Seq(Messages) /\ down[m] \in Seq(Messages)
  BY LinkMessage DEF NamesFit
<1>2. /\ "disconnected" \in PlayKinds /\ Notices = {"disconnected"}
      /\ "logincheck_delete" \in PlayKinds /\ Answers = {"logincheck_delete"}
  BY DEF PlayKinds, Notices, Answers
<1>3. Told(up[m], "disconnected", u) # {} <=> \E x \in Chars : Owner[x] = u /\ ~No(up[m], Notices, x)
  BY <1>1, <1>2, ToldNo
<1>4. Told(down[m], "logincheck_delete", u) # {} <=> \E x \in Chars : Owner[x] = u /\ ~No(down[m], Answers, x)
  BY <1>1, <1>2, ToldNo
<1>5. QED
  BY <1>3, <1>4

(* Nothing keeps the row of u. *)
NoKeeper(u) ==
  /\ \A c \in Conns : ~(Live(c) /\ sess[c].user = u)
  /\ Logout(u) \notin jobs
  /\ \A m \in Maps, x \in Chars : Owner[x] = u => No(up[m], Notices, x) /\ No(down[m], Answers, x)

LEMMA KeptByNone == Inv /\ NamesFit => \A u \in Users : Keepers(u) = {} <=> NoKeeper(u)
<1> SUFFICES ASSUME Inv, NamesFit, NEW u \in Users PROVE Keepers(u) = {} <=> NoKeeper(u)
  OBVIOUS
<1>1. /\ \A m \in Maps : Told(up[m], "disconnected", u) # {} <=>
           \E x \in Chars : Owner[x] = u /\ ~No(up[m], Notices, x)
      /\ \A m \in Maps : Told(down[m], "logincheck_delete", u) # {} <=>
           \E x \in Chars : Owner[x] = u /\ ~No(down[m], Answers, x)
  BY ToldLinks
<1>2. ASSUME Keepers(u) = {} PROVE NoKeeper(u)
  <2>1. /\ \A c \in Conns : ~(Live(c) /\ sess[c].user = u)
        /\ Logout(u) \notin jobs
        /\ \A m \in Maps : Told(up[m], "disconnected", u) = {}
        /\ \A m \in Maps : Told(down[m], "logincheck_delete", u) = {}
    BY <1>2, KeptBy
  <2>2. QED
    BY <1>1, <2>1 DEF NoKeeper
<1>3. ASSUME NoKeeper(u) PROVE Keepers(u) = {}
  <2>1. /\ \A c \in Conns : ~(Live(c) /\ sess[c].user = u)
        /\ Logout(u) \notin jobs
        /\ \A m \in Maps : Told(up[m], "disconnected", u) = {}
        /\ \A m \in Maps : Told(down[m], "logincheck_delete", u) = {}
    BY <1>1, <1>3 DEF NoKeeper
  <2>2. QED
    BY <2>1 DEF Keepers
<1>4. QED
  BY <1>2, <1>3

LEMMA CharOf ==
  ASSUME NEW q \in Seq(Messages), AllFit(q), NEW kind, NEW K, K = {kind}, NEW u, OneOf(q, kind, u),
         NEW x, NEW y, Owner[x] = u, Owner[y] = u, ~No(q, K, x), ~No(q, K, y)
  PROVE  x = y
<1>1. PICK i \in 1..Len(q) : About(q[i], K, x)
  BY DEF No
<1>2. PICK j \in 1..Len(q) : About(q[j], K, y)
  BY DEF No
<1>3. NameFits(q[i]) /\ NameFits(q[j])
  BY DEF AllFit
<1>4. i \in Told(q, kind, u) /\ j \in Told(q, kind, u)
  BY <1>1, <1>2, <1>3 DEF Told, About, Names, NameFits
<1>5. i = j
  BY <1>4 DEF OneOf
<1>6. QED
  BY <1>1, <1>2, <1>5 DEF About, Names

LEMMA OnlyClient ==
  Inv /\ NamesFit => \A x \in Chars, c \in Conns : Live(c) /\ sess[c].user = Owner[x] =>
    /\ \A d \in Conns : Live(d) /\ sess[d].user = Owner[x] => d = c
    /\ Logout(Owner[x]) \notin jobs /\ ~Lost(Owner[x]) /\ row[Owner[x]]
    /\ \A m \in Maps : No(up[m], Notices, x) /\ No(down[m], Answers, x)
<1> SUFFICES ASSUME Inv, NamesFit, NEW x \in Chars, NEW c \in Conns, Live(c), sess[c].user = Owner[x]
             PROVE  /\ \A d \in Conns : Live(d) /\ sess[d].user = Owner[x] => d = c
                    /\ Logout(Owner[x]) \notin jobs /\ ~Lost(Owner[x]) /\ row[Owner[x]]
                    /\ \A m \in Maps : No(up[m], Notices, x) /\ No(down[m], Answers, x)
  OBVIOUS
<1>1. PICK u \in Users : u = Owner[x]
  BY EntryAssumption
<1>2. <<"session", c>> \in Keepers(u) /\ Fits(u)
  BY <1>1, KeptBy, InvParts DEF RowsFit
<1>3. /\ \A d \in Conns : Live(d) /\ sess[d].user = u => d = c
      /\ Logout(u) \notin jobs
      /\ \A m \in Maps : Told(up[m], "disconnected", u) = {} /\ Told(down[m], "logincheck_delete", u) = {}
  BY <1>2, OnlyKeeper
<1>4. \A m \in Maps : No(up[m], Notices, x) /\ No(down[m], Answers, x)
  BY <1>1, <1>3, ToldLinks
<1>5. row[u] /\ ~Lost(u)
  BY <1>2 DEF Fits, Lost
<1>6. QED
  BY <1>1, <1>3, <1>4, <1>5

LEMMA OnlyQuery ==
  Inv /\ NamesFit => \A x \in Chars : Logout(Owner[x]) \in jobs =>
    /\ \A c \in Conns : ~(Live(c) /\ sess[c].user = Owner[x])
    /\ ~Lost(Owner[x])
    /\ \A m \in Maps : No(up[m], Notices, x) /\ No(down[m], Answers, x)
<1> SUFFICES ASSUME Inv, NamesFit, NEW x \in Chars, Logout(Owner[x]) \in jobs
             PROVE  /\ \A c \in Conns : ~(Live(c) /\ sess[c].user = Owner[x])
                    /\ ~Lost(Owner[x])
                    /\ \A m \in Maps : No(up[m], Notices, x) /\ No(down[m], Answers, x)
  OBVIOUS
<1>1. PICK u \in Users : u = Owner[x]
  BY EntryAssumption
<1>2. <<"query", u>> \in Keepers(u) /\ Fits(u)
  BY <1>1, KeptBy, InvParts DEF RowsFit
<1>3. /\ \A c \in Conns : ~(Live(c) /\ sess[c].user = u)
      /\ \A m \in Maps : Told(up[m], "disconnected", u) = {} /\ Told(down[m], "logincheck_delete", u) = {}
  BY <1>2, OnlyKeeper
<1>4. \A m \in Maps : No(up[m], Notices, x) /\ No(down[m], Answers, x)
  BY <1>1, <1>3, ToldLinks
<1>5. QED
  BY <1>1, <1>2, <1>3, <1>4 DEF Lost

LEMMA OnlyNotice ==
  Inv /\ NamesFit => \A x \in Chars, m \in Maps : ~No(up[m], Notices, x) =>
    /\ \A c \in Conns : ~(Live(c) /\ sess[c].user = Owner[x])
    /\ Logout(Owner[x]) \notin jobs /\ ~Lost(Owner[x]) /\ row[Owner[x]]
    /\ \A n \in Maps, y \in Chars : Owner[y] = Owner[x] =>
         No(down[n], Answers, y) /\ (~No(up[n], Notices, y) => n = m /\ y = x)
<1> SUFFICES ASSUME Inv, NamesFit, NEW x \in Chars, NEW m \in Maps, ~No(up[m], Notices, x)
             PROVE  /\ \A c \in Conns : ~(Live(c) /\ sess[c].user = Owner[x])
                    /\ Logout(Owner[x]) \notin jobs /\ ~Lost(Owner[x]) /\ row[Owner[x]]
                    /\ \A n \in Maps, y \in Chars : Owner[y] = Owner[x] =>
                         No(down[n], Answers, y) /\ (~No(up[n], Notices, y) => n = m /\ y = x)
  OBVIOUS
<1>1. PICK u \in Users : u = Owner[x]
  BY EntryAssumption
<1>2. Told(up[m], "disconnected", u) # {} /\ Fits(u)
  BY <1>1, ToldLinks, InvParts DEF RowsFit
<1>3. <<"notice", m>> \in Keepers(u)
  BY <1>2, KeptBy
<1>4. /\ \A c \in Conns : ~(Live(c) /\ sess[c].user = u)
      /\ Logout(u) \notin jobs
      /\ \A n \in Maps : Told(up[n], "disconnected", u) # {} => n = m
      /\ \A n \in Maps : Told(down[n], "logincheck_delete", u) = {}
  BY <1>2, <1>3, OnlyKeeper
<1>5. row[u] /\ ~Lost(u) /\ OneOf(up[m], "disconnected", u)
  BY <1>2, <1>3 DEF Fits, Lost
<1>6. ASSUME NEW n \in Maps, NEW y \in Chars, Owner[y] = u PROVE No(down[n], Answers, y)
  BY <1>4, <1>6, ToldLinks
<1>7. ASSUME NEW n \in Maps, NEW y \in Chars, Owner[y] = u, ~No(up[n], Notices, y) PROVE n = m /\ y = x
  <2>1. n = m
    BY <1>4, <1>7, ToldLinks
  <2>2. up[m] \in Seq(Messages) /\ AllFit(up[m]) /\ Notices = {"disconnected"}
    BY LinkMessage DEF NamesFit, Notices
  <2>3. y = x
    BY <1>1, <1>5, <1>7, <2>1, <2>2, CharOf
  <2>4. QED
    BY <2>1, <2>3
<1>8. QED
  BY <1>1, <1>4, <1>5, <1>6, <1>7

LEMMA OnlyAnswer ==
  Inv /\ NamesFit => \A x \in Chars, m \in Maps : ~No(down[m], Answers, x) =>
    /\ \A c \in Conns : ~(Live(c) /\ sess[c].user = Owner[x])
    /\ Logout(Owner[x]) \notin jobs /\ ~Lost(Owner[x]) /\ row[Owner[x]]
    /\ \A n \in Maps, y \in Chars : Owner[y] = Owner[x] =>
         No(up[n], Notices, y) /\ (~No(down[n], Answers, y) => n = m /\ y = x)
<1> SUFFICES ASSUME Inv, NamesFit, NEW x \in Chars, NEW m \in Maps, ~No(down[m], Answers, x)
             PROVE  /\ \A c \in Conns : ~(Live(c) /\ sess[c].user = Owner[x])
                    /\ Logout(Owner[x]) \notin jobs /\ ~Lost(Owner[x]) /\ row[Owner[x]]
                    /\ \A n \in Maps, y \in Chars : Owner[y] = Owner[x] =>
                         No(up[n], Notices, y) /\ (~No(down[n], Answers, y) => n = m /\ y = x)
  OBVIOUS
<1>1. PICK u \in Users : u = Owner[x]
  BY EntryAssumption
<1>2. Told(down[m], "logincheck_delete", u) # {} /\ Fits(u)
  BY <1>1, ToldLinks, InvParts DEF RowsFit
<1>3. <<"answer", m>> \in Keepers(u)
  BY <1>2, KeptBy
<1>4. /\ \A c \in Conns : ~(Live(c) /\ sess[c].user = u)
      /\ Logout(u) \notin jobs
      /\ \A n \in Maps : Told(down[n], "logincheck_delete", u) # {} => n = m
      /\ \A n \in Maps : Told(up[n], "disconnected", u) = {}
  BY <1>2, <1>3, OnlyKeeper
<1>5. row[u] /\ ~Lost(u) /\ OneOf(down[m], "logincheck_delete", u)
  BY <1>2, <1>3 DEF Fits, Lost
<1>6. ASSUME NEW n \in Maps, NEW y \in Chars, Owner[y] = u PROVE No(up[n], Notices, y)
  BY <1>4, <1>6, ToldLinks
<1>7. ASSUME NEW n \in Maps, NEW y \in Chars, Owner[y] = u, ~No(down[n], Answers, y) PROVE n = m /\ y = x
  <2>1. n = m
    BY <1>4, <1>7, ToldLinks
  <2>2. down[m] \in Seq(Messages) /\ AllFit(down[m]) /\ Answers = {"logincheck_delete"}
    BY LinkMessage DEF NamesFit, Answers
  <2>3. y = x
    BY <1>1, <1>5, <1>7, <2>1, <2>2, CharOf
  <2>4. QED
    BY <2>1, <2>3
<1>8. QED
  BY <1>1, <1>4, <1>5, <1>6, <1>7

(* Where nothing of x is. *)
LEMMA BareWithClient ==
  ASSUME Inv, NamesFit, NEW x \in Chars, Followed(x), NEW c \in Conns, Live(c), sess[c].user = Owner[x],
         NEW m \in Maps, sess[c].char # x \/ sess[c].map # m
  PROVE  Bare(m, x)
<1>1. \A d \in Conns : PlaysAs(d, m, x) => sess[d].user = Owner[x]
  BY EntryAssumption DEF PlaysAs, Inv, OwnsChar
<1>2. ~Follows(m, x)
  BY <1>1, OnlyClient DEF Follows, PlaysAs, Noticed, Answered
<1>3. QED
  BY <1>2 DEF Followed

LEMMA BareWithoutRow ==
  ASSUME Inv, NamesFit, NEW x \in Chars, Followed(x), ~row[Owner[x]] \/ Logout(Owner[x]) \in jobs,
         NEW m \in Maps
  PROVE  Bare(m, x)
<1>1. \A d \in Conns : PlaysAs(d, m, x) => Live(d) /\ sess[d].user = Owner[x]
  BY EntryAssumption DEF PlaysAs, Inv, OwnsChar
<1>2. CASE ~row[Owner[x]]
  BY <1>1, <1>2, OnlyClient, OnlyNotice, OnlyAnswer DEF Follows, Noticed, Answered, Lost, Followed
<1>3. CASE Logout(Owner[x]) \in jobs
  BY <1>1, <1>3, OnlyQuery DEF Follows, Noticed, Answered, Followed
<1>4. QED
  BY <1>2, <1>3

LEMMA BareWithNotice ==
  ASSUME Inv, NamesFit, NEW x \in Chars, Followed(x), NEW y \in Chars, Owner[y] = Owner[x],
         NEW n \in Maps, ~No(up[n], Notices, y), NEW m \in Maps
  PROVE  Bare(m, x) \/ (m = n /\ x = y /\ Noticed(m, x))
<1>1. \A d \in Conns : ~PlaysAs(d, m, x)
  BY OnlyNotice, EntryAssumption DEF PlaysAs, Inv, OwnsChar
<1>2. QED
  BY <1>1, OnlyNotice DEF Follows, Noticed, Answered, Followed

LEMMA BareWithAnswer ==
  ASSUME Inv, NamesFit, NEW x \in Chars, Followed(x), NEW y \in Chars, Owner[y] = Owner[x],
         NEW n \in Maps, ~No(down[n], Answers, y), NEW m \in Maps
  PROVE  Bare(m, x) \/ (m = n /\ x = y /\ Answered(m, x))
<1>1. \A d \in Conns : ~PlaysAs(d, m, x)
  BY OnlyAnswer, EntryAssumption DEF PlaysAs, Inv, OwnsChar
<1>2. QED
  BY <1>1, OnlyAnswer DEF Follows, Noticed, Answered, Followed

-----------------------------------------------------------------------------
(* Steps. *)

(* The messages that are sent and taken. *)
LEMMA SentIs ==
  ASSUME Inv, NamesFit, NEW m \in Maps, NEW msg \in Messages, NameFits(msg), Sent(m, msg)
  PROVE  /\ m \in alive => LinkPut(up', up, m, msg)
         /\ m \notin alive => LinkSame(up', up)
         /\ \A n \in Maps : AllFit(up'[n]) /\ (n \notin alive => up'[n] = up[n])
<1>1. up \in [Maps -> Seq(Messages)] /\ \A n \in Maps : AllFit(up[n])
  BY InvParts DEF WiresOK, NamesFit
<1>2. CASE m \in alive
  <2>1. up' = [up EXCEPT ![m] = Append(@, msg)]
    BY <1>2 DEF Sent
  <2>2. LinkPut(up', up, m, msg)
    BY <1>1, <2>1, PutLink
  <2>3. AllFit(Append(up[m], msg))
    BY <1>1, AppendFits
  <2>4. QED
    BY <1>1, <1>2, <2>1, <2>2, <2>3
<1>3. CASE m \notin alive
  <2>1. up' = up
    BY <1>1, <1>3 DEF Sent
  <2>2. QED
    BY <1>1, <1>3, <2>1, SameLink
<1>4. QED
  BY <1>2, <1>3

LEMMA DownTakenIs ==
  ASSUME Inv, NamesFit, NEW m \in Maps, Taken(m)
  PROVE  /\ Head(down[m]) \in Messages /\ NameFits(Head(down[m]))
         /\ LinkTook(down', down, m, Head(down[m]))
         /\ \A n \in Maps : AllFit(down'[n]) /\ (down[n] = <<>> => down'[n] = down[n])
<1>1. down \in [Maps -> Seq(Messages)] /\ \A n \in Maps : AllFit(down[n])
  BY InvParts DEF WiresOK, NamesFit
<1>2. down[m] # <<>> /\ down' = [down EXCEPT ![m] = Tail(@)]
  BY DEF Taken
<1>3. LinkTook(down', down, m, Head(down[m]))
  BY <1>1, <1>2, TakeLink
<1>4. AllFit(Tail(down[m])) /\ NameFits(Head(down[m])) /\ Head(down[m]) \in Messages
  BY <1>1, <1>2, TailFits, TakenMessage
<1>5. QED
  BY <1>1, <1>2, <1>3, <1>4

LEMMA UpTakenIs ==
  ASSUME Inv, NamesFit, NEW m \in Maps, up[m] # <<>>, up' = [up EXCEPT ![m] = Tail(@)]
  PROVE  /\ Head(up[m]) \in Messages /\ NameFits(Head(up[m]))
         /\ LinkTook(up', up, m, Head(up[m]))
         /\ \A n \in Maps : AllFit(up'[n]) /\ (up[n] = <<>> => up'[n] = up[n])
<1>1. up \in [Maps -> Seq(Messages)] /\ \A n \in Maps : AllFit(up[n])
  BY InvParts DEF WiresOK, NamesFit
<1>3. LinkTook(up', up, m, Head(up[m]))
  BY <1>1, TakeLink
<1>4. AllFit(Tail(up[m])) /\ NameFits(Head(up[m])) /\ Head(up[m]) \in Messages
  BY <1>1, TailFits, UpTaken
<1>5. QED
  BY <1>1, <1>3, <1>4

LEMMA DownPutIs ==
  ASSUME Inv, NamesFit, NEW m \in Maps, NEW msg \in Messages, NameFits(msg),
         down' = [down EXCEPT ![m] = Append(@, msg)]
  PROVE  /\ LinkPut(down', down, m, msg)
         /\ \A n \in Maps : AllFit(down'[n]) /\ (n # m => down'[n] = down[n])
<1>1. down \in [Maps -> Seq(Messages)] /\ \A n \in Maps : AllFit(down[n])
  BY InvParts DEF WiresOK, NamesFit
<1>2. LinkPut(down', down, m, msg)
  BY <1>1, PutLink
<1>3. AllFit(Append(down[m], msg))
  BY <1>1, AppendFits
<1>4. QED
  BY <1>1, <1>2, <1>3

(* The map servers go on as they are. *)
LEMMA ServersGoOn ==
  ASSUME WorldFits, alive' = alive, known' = known, crashes' = crashes,
         \A m \in Maps : AllFit(up'[m]) /\ (m \notin alive => up'[m] = up[m]),
         \A m \in Maps : AllFit(down'[m]) /\ (m \notin known => down'[m] = down[m]),
         world' = world,
         \A c \in Conns : Live(c)' => sess'[c].map \in known \cup {NoMap}
  PROVE  WorldFits'
<1>1. ServersFit'
  BY DEF WorldFits, ServersFit
<1>2. NamesFit'
  BY DEF WorldFits, NamesFit
<1>3. EntriesFit'
  BY DEF WorldFits, EntriesFit
<1>4. QED
  BY <1>1, <1>2, <1>3 DEF WorldFits

(* Nothing changes for x. *)
SameSession(x) ==
  \A c \in Conns : /\ Live(c)' /\ sess'[c].char = x <=> Live(c) /\ sess[c].char = x
                   /\ Live(c) /\ sess[c].char = x =>
                        /\ sess'[c].map = sess[c].map /\ sess'[c].key = sess[c].key
                        /\ phase'[c] = phase[c]

SameAt(m, x) ==
  /\ Alike(up'[m], up[m], x) /\ Alike(down'[m], down[m], x)
  /\ Here(m, x)' = Here(m, x) /\ (m \in alive' <=> m \in alive)

LEMMA BareStays ==
  ASSUME NEW m, NEW x, SameAt(m, x), Bare(m, x)
  PROVE  Bare(m, x)'
BY DEF Bare, SameAt, Alike

LEMMA HasStays ==
  ASSUME NEW c, NEW m, NEW x, NEW in, SameAt(m, x), sess'[c].key = sess[c].key, Has(c, m, x, in)
  PROVE  Has(c, m, x, in)'
<1>1. No(up'[m], Sweeps, x)
  BY DEF Has, SameAt, Alike
<1>2. PICK e \in world[m] : Here(m, x) = {e} /\ e.in = in /\ e.key = sess[c].key
  BY DEF Has
<1>3. Here(m, x)' = {e} /\ e \in world'[m]
  BY <1>2 DEF SameAt, Here
<1>4. QED
  BY <1>1, <1>2, <1>3 DEF Has

LEMMA PlaysStays ==
  ASSUME NEW c, NEW m, NEW x, SameAt(m, x), sess'[c].key = sess[c].key, Plays(c, m, x)
  PROVE  Plays(c, m, x)'
<1>1. CASE m \in alive
  BY <1>1, HasStays DEF Plays, SameAt
<1>2. CASE m \notin alive
  BY <1>2 DEF Plays, SameAt
<1>3. QED
  BY <1>1, <1>2

LEMMA StageStays ==
  ASSUME NEW c, NEW m, NEW x, SameAt(m, x), crashes > 0 => crashes' > 0,
         sess'[c].key = sess[c].key, phase'[c] = phase[c], Stage(c, m, x)
  PROVE  Stage(c, m, x)'
<1>1. /\ \A K, J, key : Only(up[m], K, J, x, key) => Only(up'[m], K, J, x, key)
      /\ \A K, J, key : Only(down[m], K, J, x, key) => Only(down'[m], K, J, x, key)
      /\ \A K : No(up[m], K, x) => No(up'[m], K, x)
      /\ \A K : No(down[m], K, x) => No(down'[m], K, x)
      /\ \A K, L : Before(up[m], K, L, x) => Before(up'[m], K, L, x)
      /\ Here(m, x)' = Here(m, x)
  BY DEF SameAt, Alike
<1>2. Asked(c, m, x) => Asked(c, m, x)'
  BY <1>1 DEF Asked
<1>3. Loading(c, m, x) => Loading(c, m, x)'
  BY <1>1, HasStays DEF Loading
<1>4. Loaded(c, m, x) => Loaded(c, m, x)'
  BY <1>1, PlaysStays DEF Loaded
<1>5. Refused(c, m, x) => Refused(c, m, x)'
  BY <1>1 DEF Refused
<1>6. Playing(c, m, x) => Playing(c, m, x)'
  BY <1>1, PlaysStays DEF Playing
<1>7. Leaving(c, m, x) => Leaving(c, m, x)'
  BY <1>1, HasStays DEF Leaving
<1>8. HasLeft(c, m, x) => HasLeft(c, m, x)'
  BY <1>1 DEF HasLeft
<1>9. Bare(m, x) => Bare(m, x)'
  BY BareStays
<1>10. m \in alive' <=> m \in alive
  BY DEF SameAt
<1>11. QED
  BY <1>2, <1>3, <1>4, <1>5, <1>6, <1>7, <1>8, <1>9, <1>10 DEF Stage

LEMMA FollowsStays ==
  ASSUME NEW m, NEW x, SameAt(m, x), SameSession(x), Lost(Owner[x]) => Lost(Owner[x])', Follows(m, x)
  PROVE  Follows(m, x)'
<1>1. Noticed(m, x) => Noticed(m, x)'
  BY DEF Noticed, SameAt, Alike
<1>2. Answered(m, x) => Answered(m, x)'
  BY DEF Answered, SameAt, Alike
<1>3. ASSUME NEW c \in Conns, PlaysAs(c, m, x) PROVE PlaysAs(c, m, x)'
  BY <1>3 DEF PlaysAs, SameSession
<1>4. QED
  BY <1>1, <1>2, <1>3 DEF Follows, SameAt

LEMMA PlacedStays ==
  ASSUME NEW x, Placed(x), \A m \in Maps : SameAt(m, x), SameSession(x), crashes > 0 => crashes' > 0,
         Lost(Owner[x]) => Lost(Owner[x])'
  PROVE  Placed(x)'
<1>1. ASSUME NEW c \in Conns, NEW m \in Maps, PlaysAs(c, m, x)' PROVE Stage(c, m, x)'
  <2>1. PlaysAs(c, m, x) /\ sess'[c].key = sess[c].key /\ phase'[c] = phase[c]
    BY <1>1 DEF PlaysAs, SameSession
  <2>2. Stage(c, m, x)
    BY <2>1 DEF Placed, Settled
  <2>3. QED
    BY <2>1, <2>2, StageStays
<1>2. ASSUME NEW m \in Maps PROVE Bare(m, x)' \/ Follows(m, x)'
  BY BareStays, FollowsStays DEF Placed, Followed
<1>3. QED
  BY <1>1, <1>2 DEF Placed, Settled, Followed

(* Nothing changes for u. *)
SameKeepers(u) ==
  /\ (\E c \in Conns : Live(c)' /\ sess'[c].user = u) <=> (\E c \in Conns : Live(c) /\ sess[c].user = u)
  /\ Logout(u) \in jobs' <=> Logout(u) \in jobs
  /\ \A m \in Maps, x \in Chars : Owner[x] = u =>
       /\ No(up'[m], Notices, x) <=> No(up[m], Notices, x)
       /\ No(down'[m], Answers, x) <=> No(down[m], Answers, x)
  /\ row'[u] = row[u]

LEMMA KeptByNoneNext == Inv' /\ NamesFit' => \A u \in Users : Keepers(u)' = {} <=> NoKeeper(u)'
<1>1. (Inv /\ NamesFit)' => (\A u \in Users : Keepers(u) = {} <=> NoKeeper(u))'
  BY KeptByNone, PTL
<1>2. QED
  BY <1>1

LEMMA NoKeeperNext ==
  ASSUME NEW u
  PROVE  NoKeeper(u)' <=>
           /\ \A c \in Conns : ~(Live(c)' /\ sess'[c].user = u)
           /\ Logout(u) \notin jobs'
           /\ \A m \in Maps, x \in Chars : Owner[x] = u => No(up'[m], Notices, x) /\ No(down'[m], Answers, x)
BY DEF NoKeeper, Logout

LEMMA LostIs ==
  ASSUME Inv, NamesFit, NEW u \in Users
  PROVE  Lost(u) <=> NoKeeper(u) /\ row[u]
BY KeptByNone DEF Lost

LEMMA LostIsNext ==
  ASSUME Inv', NamesFit', NEW u \in Users
  PROVE  Lost(u)' <=> NoKeeper(u)' /\ row'[u]
BY KeptByNoneNext DEF Lost

LEMMA LostStays ==
  ASSUME Inv, Inv', NamesFit, NamesFit', NEW u \in Users, SameKeepers(u)
  PROVE  Lost(u)' <=> Lost(u)
<1>1. NoKeeper(u)' <=> NoKeeper(u)
  BY NoKeeperNext DEF SameKeepers, NoKeeper
<1>2. row'[u] <=> row[u]
  BY DEF SameKeepers
<1>3. QED
  BY <1>1, <1>2, LostIs, LostIsNext

LEMMA PlacesKept ==
  ASSUME Inv, Inv', PlaceInv, WorldFits', crashes' = crashes,
         \A x \in Chars : Placed(x)' \/ ((\A m \in Maps : SameAt(m, x)) /\ SameSession(x)),
         \A u \in Users : SameKeepers(u) \/ (~Lost(u) /\ (crashes = 0 => ~Lost(u)'))
  PROVE  PlaceInv'
<1>1. ASSUME NEW u \in Users PROVE Lost(u) => Lost(u)'
  BY LostStays DEF PlaceInv, WorldFits
<1>2. Kept'
  BY LostStays DEF Kept, PlaceInv, WorldFits
<1>3. ASSUME NEW x \in Chars PROVE Placed(x)'
  <2>1. CASE Placed(x)'
    BY <2>1
  <2>2. CASE (\A m \in Maps : SameAt(m, x)) /\ SameSession(x)
    <3>1. Owner[x] \in Users /\ Placed(x)
      BY EntryAssumption DEF PlaceInv
    <3>2. QED
      BY <1>1, <2>2, <3>1, PlacedStays
  <2>3. QED
    BY <2>1, <2>2
<1>4. QED
  BY <1>2, <1>3 DEF PlaceInv

(* Queues that have changed by a message of another kind or about others.  *)
LEMMA LinkNo ==
  ASSUME NEW new, NEW old, NEW n, NEW msg,
         LinkSame(new, old) \/ LinkPut(new, old, n, msg) \/ LinkTook(new, old, n, msg),
         NEW K, NEW m \in Maps, NEW x \in Chars, LinkSame(new, old) \/ ~About(msg, K, x) \/ m # n
  PROVE  No(new[m], K, x) <=> No(old[m], K, x)
<1>1. CASE Alike(new[m], old[m], x)
  BY <1>1 DEF Alike
<1>2. CASE Put(new[m], old[m], msg, x) /\ msg.kind \notin K
  BY <1>2 DEF Put
<1>3. CASE Took(new[m], old[m], msg, x) /\ msg.kind \notin K
  BY <1>3 DEF Took
<1>4. QED
  BY <1>1, <1>2, <1>3 DEF LinkSame, LinkPut, LinkTook, About

LEMMA SameLinks ==
  ASSUME NEW x \in Chars, NEW m \in Maps,
         Alike(up'[m], up[m], x), Alike(down'[m], down[m], x), Here(m, x)' = Here(m, x), alive' = alive
  PROVE  SameAt(m, x)
BY DEF SameAt

(* Nothing changes about characters or rows. *)
LEMMA NobodyMoves ==
  ASSUME Inv, Inv', PlaceInv, WorldFits', crashes' = crashes, alive' = alive, world' = world,
         \A m \in Maps, x \in Chars : Alike(up'[m], up[m], x) /\ Alike(down'[m], down[m], x),
         \A x \in Chars : SameSession(x),
         \A u \in Users : /\ (\E c \in Conns : Live(c)' /\ sess'[c].user = u)
                               <=> (\E c \in Conns : Live(c) /\ sess[c].user = u)
                          /\ Logout(u) \in jobs' <=> Logout(u) \in jobs,
         row' = row
  PROVE  PlaceInv'
<1>1. \A m \in Maps, x \in Chars : SameAt(m, x)
  BY SameLinks DEF Here
<1>2. \A m \in Maps, x \in Chars : /\ No(up'[m], Notices, x) <=> No(up[m], Notices, x)
                                   /\ No(down'[m], Answers, x) <=> No(down[m], Answers, x)
  BY DEF Alike
<1>3. \A u \in Users : SameKeepers(u)
  BY <1>2 DEF SameKeepers
<1>4. QED
  BY <1>1, <1>3, PlacesKept

-----------------------------------------------------------------------------
(* What clients do outside the game. *)

LEMMA NotLogout ==
  ASSUME NEW j, j.kind # "logout", NEW u
  PROVE  j # Logout(u)
BY DEF Logout

(* A client without a character asks for something. *)
LEMMA AskingPlaces ==
  ASSUME Inv, Inv', PlaceInv, NEW c \in Conns, Live(c), sess[c].char = NoChar,
         sess' = sess, NEW p, phase' = [phase EXCEPT ![c] = p],
         \A j \in jobs' : j \in jobs \/ j.kind # "logout", jobs \subseteq jobs',
         up' = up \/ (\E m \in Maps : \E msg \in Messages : msg.kind \notin CharKinds /\ Sent(m, msg)),
         UNCHANGED <<row, down, known, alive, world, crashes>>
  PROVE  PlaceInv'
<1>1. WorldFits /\ NamesFit
  BY DEF PlaceInv, WorldFits
<1>2. /\ \A m \in Maps, x \in Chars : Alike(up'[m], up[m], x)
      /\ \A m \in Maps : AllFit(up'[m]) /\ (m \notin alive => up'[m] = up[m])
  <2>1. CASE up' = up
    BY <1>1, <2>1, AlikeSame DEF NamesFit
  <2>2. ASSUME NEW m \in Maps, NEW msg \in Messages, msg.kind \notin CharKinds, Sent(m, msg)
        PROVE  /\ \A n \in Maps, x \in Chars : Alike(up'[n], up[n], x)
               /\ \A n \in Maps : AllFit(up'[n]) /\ (n \notin alive => up'[n] = up[n])
    <3>1. NameFits(msg) /\ \A x : ~Names(msg, x)
      BY <2>2 DEF NameFits, Names
    <3>2. QED
      BY <1>1, <2>2, <3>1, SentIs DEF LinkPut, LinkSame
  <2>3. QED
    BY <2>1, <2>2
<1>3. \A m \in Maps, x \in Chars : Alike(down'[m], down[m], x)
  BY AlikeSame
<1>4. \A x \in Chars : SameSession(x)
  BY EntryAssumption DEF SameSession, Live, Inv, TypeOK
<1>5. WorldFits'
  BY <1>1, <1>2, ServersGoOn DEF WorldFits, NamesFit, ServersFit, Live
<1>6. \A u \in Users : Logout(u) \in jobs' <=> Logout(u) \in jobs
  BY NotLogout
<1>7. QED
  BY <1>2, <1>3, <1>4, <1>5, <1>6, NobodyMoves DEF Live

LEMMA OutsidePlaces ==
  ASSUME Inv, Inv', PlaceInv, NEW c \in Conns, NEW x,
         \/ CharacterMakeSyn(c, x) \/ CharacterRemoveSyn(c, x) \/ CharacterNameCheckSyn(c)
         \/ x \in Chars /\ ChannelInfoSyn(c, x)
  PROVE  PlaceInv'
<1>1. Live(c) /\ phase[c] = "choose" /\ sess[c] \in Sessions
  BY LiveSession, InvParts DEF CharacterMakeSyn, CharacterRemoveSyn, CharacterNameCheckSyn, ChannelInfoSyn,
     SessionsFit
<1>2. sess[c].char = NoChar
  BY <1>1, PhaseOf DEF InGame
<1>3. CASE CharacterMakeSyn(c, x)
  <2>1. /\ UNCHANGED <<sess, row, up, down, known, alive, world, crashes>>
        /\ phase' = [phase EXCEPT ![c] = "make"] /\ jobs' = jobs \cup {Job("make", c, x)}
    BY <1>3 DEF CharacterMakeSyn, CreateCharacter, Phase, Moves, maps
  <2>2. Job("make", c, x).kind # "logout"
    BY DEF Job
  <2>3. QED
    BY <1>1, <1>2, <2>1, <2>2, AskingPlaces
<1>4. CASE CharacterRemoveSyn(c, x)
  <2>1. /\ UNCHANGED <<sess, row, up, down, known, alive, world, crashes>>
        /\ phase' = [phase EXCEPT ![c] = "make"] /\ jobs' = jobs \cup {Job("remove", c, x)}
    BY <1>4 DEF CharacterRemoveSyn, DeleteCharacter, Phase, Moves, maps
  <2>2. Job("remove", c, x).kind # "logout"
    BY DEF Job
  <2>3. QED
    BY <1>1, <1>2, <2>1, <2>2, AskingPlaces
<1>5. CASE CharacterNameCheckSyn(c)
  <2>1. /\ UNCHANGED <<sess, row, up, down, known, alive, world, crashes>>
        /\ phase' = [phase EXCEPT ![c] = "name"] /\ jobs' = jobs \cup {Job("name", c, NoChar)}
    BY <1>5 DEF CharacterNameCheckSyn, CharacterNameCheck, Phase, Moves, maps
  <2>2. Job("name", c, NoChar).kind # "logout"
    BY DEF Job
  <2>3. QED
    BY <1>1, <1>2, <2>1, <2>2, AskingPlaces
<1>6. CASE x \in Chars /\ ChannelInfoSyn(c, x)
  <2>1. /\ UNCHANGED <<sess, row, jobs, down, known, alive, world, crashes>>
        /\ phase' = [phase EXCEPT ![c] = "channel"] /\ Sent(sess[c].list[x], ChannelMsg("channel", c))
        /\ sess[c].list[x] # NoMap
    BY <1>6 DEF ChannelInfoSyn, Phase, Moves, base
  <2>2. ChannelMsg("channel", c) \in Messages /\ ChannelMsg("channel", c).kind \notin CharKinds
    BY <1>1 DEF ChannelMsg, Messages, Sessions, CharKinds, PlayKinds, WayKinds
  <2>3. sess[c].list[x] \in Maps
    BY <1>1, <1>6, <2>1 DEF Sessions
  <2>4. QED
    BY <1>1, <1>2, <2>1, <2>2, <2>3, AskingPlaces
<1>7. QED
  BY <1>3, <1>4, <1>5, <1>6

LEMMA ConnectPlaces ==
  ASSUME Inv, Inv', PlaceInv, NEW c \in Conns, NEW u \in Users, Connect(c, u)
  PROVE  PlaceInv'
<1>1. /\ ~Live(c) /\ ~row[u] /\ row' = [row EXCEPT ![u] = TRUE]
      /\ UNCHANGED <<up, down, known, alive, world, crashes>>
      /\ \A d \in Conns \ {c} : sess'[d] = sess[d] /\ phase'[d] = phase[d]
      /\ sess'[c].user = u /\ sess'[c].char = NoChar /\ sess'[c].map = NoMap
      /\ \A v : Logout(v) \in jobs' <=> Logout(v) \in jobs
  BY NotLogout DEF Connect, Phase, maps, Inv, TypeOK
<1>2. Live(c)'
  <2>1. phase'[c] = "list"
    BY DEF Connect, Phase, Inv, TypeOK
  <2>2. QED
    BY <2>1 DEF Inv, TypeOK
<1>3. WorldFits /\ NamesFit /\ ServersFit
  BY DEF PlaceInv, WorldFits
<1>4. \A x \in Chars : SameSession(x)
  BY <1>1, EntryAssumption DEF SameSession, Live
<1>5. \A m \in Maps, x \in Chars : SameAt(m, x)
  BY <1>1, AlikeSame DEF SameAt, Here
<1>6. WorldFits'
  BY <1>1, <1>3, ServersGoOn DEF NamesFit, ServersFit, Live
<1>7. ~Lost(u) /\ ~Lost(u)'
  BY <1>1, <1>2, <1>6, LostIsNext, NoKeeperNext DEF Lost, WorldFits
<1>8. ASSUME NEW v \in Users, v # u PROVE SameKeepers(v)
  BY <1>1, <1>8 DEF SameKeepers, Live, Inv, TypeOK
<1>9. QED
  BY <1>1, <1>4, <1>5, <1>6, <1>7, <1>8, PlacesKept

LEMMA SelectPlaces ==
  ASSUME Inv, Inv', PlaceInv, NEW c \in Conns, NEW x \in Chars, CharacterSelectSyn(c, x)
  PROVE  PlaceInv'
<1>1. /\ Live(c) /\ phase[c] = "choose" /\ ~crossed /\ sess[c] \in Sessions
      /\ sess[c].list[x] # NoMap /\ sess[c].list[x] \in known
      /\ UNCHANGED <<up, down, known, alive, world, crashes, row, jobs>>
  BY LiveSession, InvParts DEF CharacterSelectSyn, SessionsFit, FindMapServer, GetServerPort, maps, base, limits
<1>2. /\ \A d \in Conns \ {c} : sess'[d] = sess[d] /\ phase'[d] = phase[d]
      /\ sess'[c].user = sess[c].user /\ sess'[c].char = x /\ sess'[c].map = sess[c].list[x]
      /\ phase'[c] = "enter"
  <2>1. phase' = [phase EXCEPT ![c] = "enter"] /\ phase \in [Conns -> Waiting \cup {"none", "choose", "enter", "play"}]
    BY DEF CharacterSelectSyn, Phase, Inv, TypeOK
  <2>2. sess' = [sess EXCEPT ![c].char = x, ![c].map = sess[c].list[x]] /\ sess \in [Conns -> Sessions \cup {NoSess}]
    BY DEF CharacterSelectSyn, Inv, TypeOK, Sessions
  <2>3. sess'[c].user = sess[c].user /\ sess'[c].char = x /\ sess'[c].map = sess[c].list[x]
    BY <1>1, <2>2 DEF Sessions
  <2>4. QED
    BY <2>1, <2>2, <2>3
<1>3. Live(c)'
  BY <1>2 DEF Inv, TypeOK
<1>4. sess[c].char = NoChar /\ Owner[x] = sess[c].user /\ x # NoChar
  BY <1>1, PhaseOf, EntryAssumption DEF InGame, Inv, ListsOwn
<1>5. WorldFits /\ NamesFit /\ ServersFit
  BY DEF PlaceInv, WorldFits
<1>6. \A m \in Maps, y \in Chars : SameAt(m, y)
  BY <1>1, AlikeSame DEF SameAt, Here
<1>7. \A y \in Chars : y # x => SameSession(y)
  BY <1>1, <1>2, <1>4, EntryAssumption DEF SameSession, Live
<1>8. WorldFits'
  BY <1>1, <1>2, <1>5, ServersGoOn DEF NamesFit, ServersFit, Live
<1>9. \A m \in Maps : Bare(m, x)'
  <2>1. \A m \in Maps : Bare(m, x)
    BY <1>1, <1>4, <1>5, BareWithClient DEF PlaceInv, Placed
  <2>2. QED
    BY <1>6, <2>1, BareStays
<1>10. Placed(x)'
  <2>1. ASSUME NEW d \in Conns, NEW m \in Maps, PlaysAs(d, m, x)' PROVE Stage(d, m, x)'
    <3>1. d = c
      BY <1>2, <1>3, <2>1 DEF PlaysAs, Inv, TablesAgree
    <3>2. QED
      BY <1>2, <1>9, <3>1 DEF Stage
  <2>2. QED
    BY <1>9, <2>1 DEF Placed, Settled, Followed
<1>11. ASSUME NEW u \in Users PROVE SameKeepers(u)
  BY <1>1, <1>2, <1>3 DEF SameKeepers, Live
<1>12. QED
  BY <1>1, <1>6, <1>7, <1>8, <1>10, <1>11, PlacesKept

-----------------------------------------------------------------------------
(* A session and its character. *)

(* Queues that have changed by a message of m about x at most. *)
NamesOnly(msg, x) == \A y \in Chars : Names(msg, y) => y = x

AlikeElse(new, old, m, x) == \A n \in Maps, y \in Chars : n # m \/ y # x => Alike(new[n], old[n], y)

LEMMA Elsewhere ==
  ASSUME NEW new, NEW old, NEW m, NEW msg, NEW x, NamesOnly(msg, x)
  PROVE  /\ LinkSame(new, old) => AlikeElse(new, old, m, x)
         /\ LinkPut(new, old, m, msg) => AlikeElse(new, old, m, x)
         /\ LinkTook(new, old, m, msg) => AlikeElse(new, old, m, x)
BY DEF LinkSame, LinkPut, LinkTook, NamesOnly, AlikeElse

LEMMA OneChar ==
  ASSUME NEW msg
  PROVE  NamesOnly(msg, msg.char)
BY DEF Names, NamesOnly

(* The session of x goes on, at m. *)
LEMMA PlayerMoves ==
  ASSUME Inv, Inv', PlaceInv, WorldFits', UNCHANGED <<crashes, row>>,
         NEW c \in Conns, NEW x \in Chars, Live(c), sess[c].char = x,
         \A d \in Conns : d # c => sess'[d] = sess[d] /\ phase'[d] = phase[d],
         Live(c)', sess'[c].char = x, sess'[c].user = sess[c].user,
         NEW m \in Maps, sess'[c].map = m, Stage(c, m, x)',
         \A n \in Maps : n # m => Bare(n, x)',
         \A n \in Maps, y \in Chars : y # x => SameAt(n, y),
         \A u \in Users : Logout(u) \in jobs' <=> Logout(u) \in jobs,
         \A n \in Maps : No(up'[n], Notices, x) <=> No(up[n], Notices, x),
         \A n \in Maps : No(down'[n], Answers, x) <=> No(down[n], Answers, x)
  PROVE  PlaceInv'
<1>1. \A y \in Chars : y # x => SameSession(y)
  BY DEF SameSession, Live
<1>2. PlaysAs(c, m, x)'
  BY DEF PlaysAs
<1>3. Placed(x)'
  <2>1. ASSUME NEW d \in Conns, NEW n \in Maps, PlaysAs(d, n, x)' PROVE Stage(d, n, x)'
    <3>1. d = c /\ n = m
      BY <2>1 DEF PlaysAs, Inv, TablesAgree
    <3>2. QED
      BY <3>1
  <2>2. \A n \in Maps : Bare(n, x)' \/ Follows(n, x)'
    BY <1>2 DEF Follows
  <2>3. QED
    BY <2>1, <2>2 DEF Placed, Settled, Followed
<1>4. ASSUME NEW u \in Users PROVE SameKeepers(u)
  <2>1. \A d \in Conns : Live(d)' /\ sess'[d].user = u <=> Live(d) /\ sess[d].user = u
    BY DEF Live
  <2>2. \A n \in Maps, y \in Chars : /\ No(up'[n], Notices, y) <=> No(up[n], Notices, y)
                                     /\ No(down'[n], Answers, y) <=> No(down[n], Answers, y)
    BY DEF SameAt, Alike
  <2>3. QED
    BY <2>1, <2>2 DEF SameKeepers
<1>5. QED
  BY <1>1, <1>3, <1>4, PlacesKept

(* Where the session of x is not, nothing of x is. *)
LEMMA BareElsewhere ==
  ASSUME Inv, PlaceInv, NEW c \in Conns, NEW x \in Chars, Live(c), sess[c].char = x, NEW n \in Maps,
         n # sess[c].map
  PROVE  Bare(n, x) /\ Owner[x] = sess[c].user
<1>1. Owner[x] = sess[c].user /\ x # NoChar
  BY EntryAssumption DEF Inv, OwnsChar
<1>2. QED
  BY <1>1, BareWithClient DEF PlaceInv, Placed, WorldFits

(* A player asks its map server. *)
LEMMA AskPlaces ==
  ASSUME Inv, Inv', PlaceInv, NEW c \in Conns, NEW x \in Chars, Live(c), sess[c].char = x,
         NEW m \in Maps, sess[c].map = m, sess' = sess, NEW p, phase' = [phase EXCEPT ![c] = p],
         NEW kind \in Requests \ Notices, NEW k, Msg(kind, c, k) \in Messages, Sent(m, Msg(kind, c, k)),
         UNCHANGED <<row, jobs, down, known, alive, world, crashes>>,
         m \in alive /\ Put(up'[m], up[m], Msg(kind, c, k), x) => Stage(c, m, x)',
         m \notin alive /\ Alike(up'[m], up[m], x) => Stage(c, m, x)'
  PROVE  PlaceInv'
<1>1. PICK msg \in Messages : msg = Msg(kind, c, k)
  OBVIOUS
<1>2. msg.kind = kind /\ msg.char = x /\ msg.user = sess[c].user /\ msg.key = sess[c].key
  BY <1>1 DEF Msg
<1>3. Inv /\ WorldFits /\ NamesFit /\ ServersFit /\ Owner[x] = sess[c].user
  BY EntryAssumption DEF PlaceInv, WorldFits, Inv, OwnsChar
<1>4. NameFits(msg)
  BY <1>2, <1>3 DEF NameFits
<1>5. kind \in CharKinds
  BY DEF Requests, AskKinds, CharKinds, PlayKinds
<1>6. Names(msg, x) /\ NamesOnly(msg, x)
  BY <1>2, <1>5, OneChar DEF Names
<1>7. /\ m \in alive => LinkPut(up', up, m, msg)
      /\ m \notin alive => LinkSame(up', up)
      /\ \A n \in Maps : AllFit(up'[n]) /\ (n \notin alive => up'[n] = up[n])
  BY <1>1, <1>3, <1>4, SentIs
<1>8. \A n \in Maps, y \in Chars : n # m \/ y # x => Alike(up'[n], up[n], y)
  <2>1. AlikeElse(up', up, m, x)
    BY <1>6, <1>7, Elsewhere
  <2>2. QED
    BY <2>1 DEF AlikeElse
<1>9. WorldFits'
  <2>1. \A n \in Maps : AllFit(down'[n]) /\ (n \notin known => down'[n] = down[n])
    BY <1>3 DEF NamesFit
  <2>2. \A d \in Conns : Live(d)' => sess'[d].map \in known \cup {NoMap}
    BY <1>3 DEF ServersFit, Live
  <2>3. QED
    BY <1>3, <1>7, <2>1, <2>2, ServersGoOn
<1>10. Stage(c, m, x)'
  <2>1. m \in alive => Put(up'[m], up[m], msg, x)
    BY <1>6, <1>7 DEF LinkPut
  <2>2. m \notin alive => Alike(up'[m], up[m], x)
    BY <1>7 DEF LinkSame
  <2>3. QED
    BY <1>1, <2>1, <2>2
<1>11. \A n \in Maps, y \in Chars : n # m \/ y # x => SameAt(n, y)
  BY <1>8, AlikeSame, SameLinks DEF Here
<1>12. \A n \in Maps : n # m => Bare(n, x)'
  BY <1>11, BareElsewhere, BareStays
<1>13. \A n \in Maps : No(up'[n], Notices, x) <=> No(up[n], Notices, x)
  BY <1>2, <1>7, LinkNo DEF About
<1>14. \A d \in Conns : d # c => phase'[d] = phase[d]
  BY DEF Inv, TypeOK
<1>15. QED
  BY <1>9, <1>10, <1>11, <1>12, <1>13, <1>14, PlayerMoves DEF Live

LEMMA EnterPlaces ==
  ASSUME Inv, Inv', PlaceInv, NEW c \in Conns, EnterMap(c)
  PROVE  PlaceInv'
<1>1. /\ Live(c) /\ phase[c] = "enter" /\ Sent(sess[c].map, Msg("gamein", c, NoMap))
      /\ phase' = [phase EXCEPT ![c] = "load"] /\ sess' = sess
      /\ UNCHANGED <<row, jobs, down, known, alive, world, crashes>>
  BY DEF EnterMap, Phase, base, limits
<1>2. sess[c].char # NoChar
  BY <1>1, PhaseOf DEF InGame
<1>3. PICK x \in Chars : x = sess[c].char
  BY <1>1, <1>2, PlayerAt
<1>4. PICK m \in Maps : m = sess[c].map
  BY <1>1, <1>2, PlayerAt
<1>5. Stage(c, m, x)
  BY <1>1, <1>3, <1>4 DEF PlaceInv, Placed, Settled, PlaysAs
<1>6. Bare(m, x)
  BY <1>1, <1>5 DEF Stage
<1>7. phase'[c] = "load"
  BY <1>1 DEF Inv, TypeOK
<1>8. "gamein" \in Requests \ Notices /\ Msg("gamein", c, NoMap) \in Messages
  <2>1. "gamein" \in Requests \ Notices
    BY KindsApart
  <2>2. "gamein" \in PlayKinds
    BY DEF PlayKinds
  <2>3. QED
    BY <1>1, <1>2, <2>1, <2>2, PlayerMessage
<1>9. ASSUME m \in alive, Put(up'[m], up[m], Msg("gamein", c, NoMap), x) PROVE Stage(c, m, x)'
  <2>1. Msg("gamein", c, NoMap).kind = "gamein" /\ Msg("gamein", c, NoMap).key = sess[c].key
    BY DEF Msg
  <2>2. /\ No(up[m], Requests, x) /\ No(up[m], Entering, x)
        /\ Here(m, x)' = {} /\ No(down'[m], Replies, x)
    BY <1>1, <1>6 DEF Bare, Here, No, About, Requests, Entering
  <2>3. Only(up'[m], Requests, Entering, x, sess[c].key)
    BY <1>9, <2>1, <2>2, KindsApart DEF Put
  <2>4. Before(up'[m], Sweeps, Entering, x)
    BY <1>9, <2>1, <2>2, KindsApart DEF Put
  <2>5. QED
    BY <1>1, <1>7, <2>2, <2>3, <2>4 DEF Stage, Asked
<1>10. ASSUME m \notin alive, Alike(up'[m], up[m], x) PROVE Stage(c, m, x)'
  <2>1. SameAt(m, x)
    BY <1>1, <1>10, AlikeSame DEF SameAt, Here
  <2>2. Bare(m, x)' /\ m \notin alive'
    BY <1>1, <1>6, <1>10, <2>1, BareStays
  <2>3. QED
    BY <1>7, <2>2 DEF Stage
<1>11. QED
  BY <1>1, <1>3, <1>4, <1>8, <1>9, <1>10, AskPlaces

(* A player asks to leave. *)
LEMMA LeavePlaces ==
  ASSUME Inv, Inv', PlaceInv, NEW c \in Conns, Live(c), phase[c] = "play", NEW kind \in AskKinds,
         NEW k, Msg(kind, c, k) \in Messages, Sent(sess[c].map, Msg(kind, c, k)),
         NEW p \in {"leave", "back"}, phase' = [phase EXCEPT ![c] = p], sess' = sess,
         UNCHANGED <<row, jobs, down, known, alive, world, crashes>>
  PROVE  PlaceInv'
<1>2. sess[c].char # NoChar
  BY PhaseOf DEF InGame
<1>3. PICK x \in Chars : x = sess[c].char
  BY <1>2, PlayerAt
<1>4. PICK m \in Maps : m = sess[c].map
  BY <1>2, PlayerAt
<1>5. Stage(c, m, x)
  BY <1>3, <1>4 DEF PlaceInv, Placed, Settled, PlaysAs
<1>6. Playing(c, m, x)
  BY <1>5 DEF Stage
<1>7. phase'[c] = p
  BY DEF Inv, TypeOK
<1>8. kind \in Requests \ Notices
  BY KindsApart
<1>9. ASSUME m \in alive, Put(up'[m], up[m], Msg(kind, c, k), x) PROVE Stage(c, m, x)'
  <2>1. Msg(kind, c, k).kind = kind /\ Msg(kind, c, k).key = sess[c].key
    BY DEF Msg
  <2>2. No(up[m], Requests, x) /\ No(down'[m], Replies, x) /\ Has(c, m, x, TRUE)
    BY <1>6, <1>9 DEF Playing, Plays
  <2>3. Only(up'[m], Requests, AskKinds, x, sess[c].key)
    BY <1>8, <1>9, <2>1, <2>2 DEF Put
  <2>4. Has(c, m, x, TRUE)'
    <3>1. No(up'[m], Sweeps, x)
      BY <1>9, <2>1, <2>2, KindsApart DEF Put, Has
    <3>2. QED
      BY <2>2, <3>1 DEF Has, Here
  <2>5. Leaving(c, m, x)'
    BY <2>2, <2>3, <2>4 DEF Leaving
  <2>6. QED
    BY <1>7, <2>5 DEF Stage
<1>10. ASSUME m \notin alive, Alike(up'[m], up[m], x) PROVE Stage(c, m, x)'
  <2>1. SameAt(m, x)
    BY <1>10, AlikeSame DEF SameAt, Here
  <2>2. Bare(m, x)
    BY <1>6, <1>10 DEF Playing, Plays, Bare
  <2>3. crashes' > 0
    BY <1>10 DEF PlaceInv, WorldFits, ServersFit
  <2>4. QED
    BY <1>7, <2>1, <2>2, <2>3, BareStays DEF Stage
<1>11. QED
  BY <1>3, <1>4, <1>8, <1>9, <1>10, AskPlaces

LEMMA GoesPlaces ==
  ASSUME Inv, Inv', PlaceInv, NEW c \in Conns, NEW m \in Maps, NEW way, GoesTo(c, m, way)
  PROVE  PlaceInv'
<1>1. /\ way \in WayKinds /\ Live(c) /\ phase[c] = "play" /\ sess' = sess
      /\ UNCHANGED <<row, jobs, down, known, alive, world, crashes>>
  BY EntryAssumption DEF GoesTo, WayKinds, Moves, base
<1>2. sess[c].char # NoChar
  BY <1>1, PhaseOf DEF InGame
<1>3. CASE Sent(sess[c].map, Msg(way, c, m)) /\ phase' = [phase EXCEPT ![c] = "leave"]
  <2>1. way \in AskKinds /\ Msg(way, c, m) \in Messages
    BY <1>1, <1>2, PlayerMessage DEF AskKinds
  <2>2. QED
    BY <1>1, <1>3, <2>1, LeavePlaces
<1>4. CASE UNCHANGED <<up, phase>>
  <2>1. WorldFits' /\ \A x \in Chars : SameSession(x)
    BY <1>1, <1>4, ServersGoOn DEF PlaceInv, WorldFits, NamesFit, ServersFit, Live, SameSession
  <2>2. QED
    BY <1>1, <1>4, <2>1, AlikeSame, NobodyMoves DEF Live
<1>5. QED
  BY <1>3, <1>4 DEF GoesTo, Phase

LEMMA BackPlaces ==
  ASSUME Inv, Inv', PlaceInv, NEW c \in Conns, BackToCharSelSyn(c)
  PROVE  PlaceInv'
<1>1. /\ Live(c) /\ phase[c] = "play" /\ sess' = sess /\ Sent(sess[c].map, Msg("back", c, NoMap))
      /\ phase' = [phase EXCEPT ![c] = "back"]
      /\ UNCHANGED <<row, jobs, down, known, alive, world, crashes>>
  BY DEF BackToCharSelSyn, Moves, Phase, base
<1>2. sess[c].char # NoChar
  BY <1>1, PhaseOf DEF InGame
<1>3. "back" \in AskKinds /\ Msg("back", c, NoMap) \in Messages
  BY <1>1, <1>2, PlayerMessage DEF AskKinds, PlayKinds
<1>4. QED
  BY <1>1, <1>3, LeavePlaces

-----------------------------------------------------------------------------
(* Sessions end. *)

(* The map servers, after what the agent has done. *)
LEMMA AgentActs ==
  ASSUME WorldFits, UNCHANGED <<known, alive, world, crashes>>,
         \A n \in Maps : AllFit(up'[n]) /\ (n \notin alive => up'[n] = up[n]),
         \A n \in Maps : AllFit(down'[n]) /\ (n \notin known => down'[n] = down[n]),
         \A c \in Conns : Live(c)' => Live(c) /\ sess'[c] = sess[c]
  PROVE  WorldFits'
<1>1. \A c \in Conns : Live(c)' => sess'[c].map \in known \cup {NoMap}
  BY DEF WorldFits, ServersFit
<1>2. QED
  BY <1>1, ServersGoOn

(* The session of c ends; what it is told about may be its character.      *)
LEMMA EndPlaces ==
  ASSUME Inv, Inv', PlaceInv, NEW c \in Conns, Live(c), Gone({c}, {}),
         IF sess[c].char = NoChar THEN up' = up ELSE Sent(sess[c].map, Msg("disconnected", c, NoMap)),
         \A n \in Maps, y \in Chars : \/ Alike(down'[n], down[n], y)
                                      \/ /\ sess[c].char = y /\ sess[c].map = n
                                         /\ No(down[n], Answers, y) => No(down'[n], Answers, y),
         \A n \in Maps : AllFit(down'[n]) /\ (n \notin known => down'[n] = down[n]),
         UNCHANGED <<row, known, alive, world, crashes>>
  PROVE  PlaceInv'
<1>1. PICK u \in Users : u = sess[c].user
  BY LiveSession, InvParts DEF SessionsFit, Sessions
<1>2. Inv /\ WorldFits /\ NamesFit /\ ServersFit
  BY DEF PlaceInv, WorldFits
<1>3. /\ \A d \in Conns : d # c => sess'[d] = sess[d] /\ phase'[d] = phase[d]
      /\ ~Live(c)'
      /\ \A v : v # u => (Logout(v) \in jobs' <=> Logout(v) \in jobs)
      /\ sess[c].char = NoChar => Logout(u) \in jobs'
      /\ sess[c].char # NoChar => jobs' = jobs
  BY <1>1, LogoutIs DEF Gone, Live
<1>4. PICK msg : msg = Msg("disconnected", c, NoMap)
  OBVIOUS
<1>5. msg.kind = "disconnected" /\ msg.char = sess[c].char /\ msg.user = u
  BY <1>1, <1>4 DEF Msg
<1>6. /\ \A d \in Conns : Live(d)' => Live(d) /\ sess'[d] = sess[d]
      /\ \A d \in Conns : ~(Live(d)' /\ sess'[d].user = u)
      /\ \A v \in Users : v # u =>
           ((\E d \in Conns : Live(d)' /\ sess'[d].user = v) <=> (\E d \in Conns : Live(d) /\ sess[d].user = v))
  BY <1>1, <1>3, OneSession DEF Live
<1>7. ~Lost(u) /\ row[u]
  <2>1. <<"session", c>> \in Keepers(u) /\ Fits(u)
    BY <1>1, KeptBy, InvParts DEF RowsFit
  <2>2. QED
    BY <2>1 DEF Lost, Fits
<1>8. CASE sess[c].char = NoChar
  <2>1. up' = up /\ \A n \in Maps, y \in Chars : Alike(down'[n], down[n], y)
    BY <1>8, EntryAssumption
  <2>2. WorldFits'
    BY <1>2, <1>6, <2>1, AgentActs DEF NamesFit
  <2>3. \A y \in Chars : SameSession(y)
    BY <1>3, <1>8, EntryAssumption DEF SameSession, Live
  <2>4. \A n \in Maps, y \in Chars : SameAt(n, y)
    BY <2>1, AlikeSame DEF SameAt, Here
  <2>5. ~Lost(u)'
    BY <1>3, <1>8, <2>2, LostIsNext, NoKeeperNext DEF WorldFits
  <2>6. \A v \in Users : v # u => SameKeepers(v)
    BY <1>3, <1>6, <2>1 DEF SameKeepers, Alike
  <2>7. QED
    BY <1>7, <2>2, <2>3, <2>4, <2>5, <2>6, PlacesKept
<1>9. CASE sess[c].char # NoChar
  <2>1. PICK x \in Chars : x = sess[c].char
    BY <1>9, PlayerAt
  <2>2. PICK m \in Maps : m = sess[c].map
    BY <1>9, PlayerAt
  <2>3. Owner[x] = u /\ \A n \in Maps : n # m => Bare(n, x)
    BY <1>1, <2>1, <2>2, BareElsewhere, EntryAssumption DEF Inv, OwnsChar
  <2>4. "disconnected" \in CharKinds /\ msg \in Messages /\ Sent(m, msg)
    BY <1>4, <1>9, <2>2, PlayerMessage DEF CharKinds, PlayKinds
  <2>5. Names(msg, x) /\ NamesOnly(msg, x) /\ NameFits(msg)
    BY <1>5, <2>1, <2>3, <2>4, OneChar DEF Names, NameFits
  <2>6. /\ m \in alive => LinkPut(up', up, m, msg)
        /\ m \notin alive => LinkSame(up', up)
        /\ \A n \in Maps : AllFit(up'[n]) /\ (n \notin alive => up'[n] = up[n])
    BY <1>2, <2>4, <2>5, SentIs
  <2>7. AlikeElse(up', up, m, x)
    BY <2>5, <2>6, Elsewhere
  <2>8. AlikeElse(down', down, m, x)
    BY <2>1, <2>2 DEF AlikeElse
  <2>9. WorldFits'
    BY <1>2, <1>6, <2>6, AgentActs
  <2>10. \A n \in Maps, y \in Chars : n # m \/ y # x => SameAt(n, y)
    BY <2>7, <2>8 DEF SameAt, Here, AlikeElse
  <2>11. \A y \in Chars : y # x => SameSession(y)
    BY <1>3, <2>1 DEF SameSession, Live
  <2>12. \A n \in Maps, y \in Chars : Owner[y] = u => No(up[n], Notices, y) /\ No(down[n], Answers, y)
    BY <1>1, <1>2, OnlyClient
  <2>13. m \in alive => Noticed(m, x)'
    <3>1. m \in alive => Put(up'[m], up[m], msg, x)
      BY <2>5, <2>6 DEF LinkPut
    <3>2. No(up[m], Notices, x)
      BY <2>3, <2>12
    <3>3. QED
      BY <1>5, <3>1, <3>2, KindsApart DEF Noticed, Put
  <2>14. m \notin alive => Lost(u)' /\ m \notin alive'
    <3>1. ASSUME m \notin alive PROVE NoKeeper(u)'
      <4>1. Logout(u) \notin jobs'
        BY <1>1, <1>2, <1>3, <1>9, <2>3, OnlyClient
      <4>2. ASSUME NEW n \in Maps, NEW y \in Chars, Owner[y] = u
            PROVE  No(up'[n], Notices, y) /\ No(down'[n], Answers, y)
        <5>1. No(up'[n], Notices, y)
          BY <2>6, <2>12, <3>1, <4>2 DEF LinkSame, Alike
        <5>2. No(down'[n], Answers, y)
          BY <2>12, <4>2 DEF Alike
        <5>3. QED
          BY <5>1, <5>2
      <4>3. QED
        BY <1>6, <4>1, <4>2, NoKeeperNext
    <3>2. QED
      BY <1>7, <2>9, <3>1, LostIsNext DEF WorldFits
  <2>15. Placed(x)'
    <3>1. \A d \in Conns, n \in Maps : ~PlaysAs(d, n, x)'
      <4>1. byChar[x] = c /\ \A d \in Conns : Live(d) /\ sess[d].char = x => byChar[x] = d
        BY <2>1 DEF Inv, TablesAgree
      <4>2. QED
        BY <1>3, <1>6, <4>1 DEF PlaysAs
    <3>2. Follows(m, x)'
      BY <2>3, <2>13, <2>14 DEF Follows
    <3>3. \A n \in Maps : n # m => Bare(n, x)'
      BY <2>3, <2>10, BareStays
    <3>4. QED
      BY <3>1, <3>2, <3>3 DEF Placed, Settled, Followed
  <2>16. crashes = 0 => ~Lost(u)'
    <3>1. crashes = 0 => m \in alive
      BY <1>2 DEF ServersFit
    <3>2. m \in alive => ~NoKeeper(u)'
      BY <2>3, <2>13, NoKeeperNext DEF Noticed
    <3>3. QED
      BY <2>9, <3>1, <3>2, LostIsNext DEF WorldFits
  <2>17. ASSUME NEW v \in Users, v # u PROVE SameKeepers(v)
    <3>1. \A n \in Maps, y \in Chars : Owner[y] = v =>
            Alike(up'[n], up[n], y) /\ Alike(down'[n], down[n], y)
      BY <2>3, <2>10, <2>17 DEF SameAt
    <3>2. \A n \in Maps, y \in Chars : Owner[y] = v =>
            /\ No(up'[n], Notices, y) <=> No(up[n], Notices, y)
            /\ No(down'[n], Answers, y) <=> No(down[n], Answers, y)
      BY <3>1 DEF Alike
    <3>3. QED
      BY <1>3, <1>6, <2>17, <3>2 DEF SameKeepers
  <2>18. QED
    BY <1>7, <2>9, <2>10, <2>11, <2>15, <2>16, <2>17, PlacesKept
<1>10. QED
  BY <1>8, <1>9

LEMMA DisconnectPlaces ==
  ASSUME Inv, Inv', PlaceInv, NEW c \in Conns, OnDisconnectUser(c)
  PROVE  PlaceInv'
<1>1. /\ Live(c) /\ Gone({c}, {})
      /\ IF sess[c].char = NoChar THEN up' = up ELSE Sent(sess[c].map, Msg("disconnected", c, NoMap))
      /\ UNCHANGED <<row, down, known, alive, world, crashes>>
  BY DEF OnDisconnectUser, limits
<1>2. \A n \in Maps, y \in Chars : Alike(down'[n], down[n], y)
  BY <1>1, AlikeSame
<1>3. \A n \in Maps : AllFit(down'[n]) /\ (n \notin known => down'[n] = down[n])
  BY <1>1 DEF PlaceInv, WorldFits, NamesFit
<1>4. QED
  BY <1>1, <1>2, <1>3, EndPlaces

LEMMA BanPlaces ==
  ASSUME Inv, Inv', PlaceInv, NEW x \in Chars, RGMBanCharacter(x) \/ CheatServerBanCharacter(x)
  PROVE  PlaceInv'
<1>1. byChar[x] \in Conns /\ OnDisconnectUser(byChar[x])
  BY DEF RGMBanCharacter, CheatServerBanCharacter, Inv, TypeOK
<1>2. QED
  BY <1>1, DisconnectPlaces

(* The agent notices that a map server has crashed. *)
LEMMA ServerDownPlaces ==
  ASSUME Inv, Inv', PlaceInv, NEW m \in Maps, OnDisconnectServer(m)
  PROVE  PlaceInv'
<1> DEFINE there == {c \in Conns : Live(c) /\ sess[c].map = m}
<1>1. /\ m \notin alive /\ down[m] = <<>> /\ known' = known \ {m}
      /\ UNCHANGED <<row, up, down, alive, world, crashes>>
      /\ Gone(there, {Logout(sess[c].user) : c \in there})
  BY DEF OnDisconnectServer, RemoveServer, limits
<1>2. Inv /\ WorldFits /\ NamesFit /\ ServersFit
  BY DEF PlaceInv, WorldFits
<1>3. /\ \A d \in Conns \ there : sess'[d] = sess[d] /\ phase'[d] = phase[d]
      /\ \A d \in there : ~Live(d)'
      /\ \A j \in jobs' : j \in jobs \/ \E c \in there : j = Logout(sess[c].user)
      /\ \A c \in there : Logout(sess[c].user) \in jobs'
      /\ jobs \subseteq jobs'
  BY <1>1 DEF Gone, Live
<1>4. \A d \in Conns : Live(d)' => Live(d) /\ sess'[d] = sess[d] /\ sess'[d].map # m
  BY <1>3 DEF Live
<1>5. WorldFits'
  <2>1. ServersFit'
    BY <1>1, <1>2, <1>4 DEF ServersFit
  <2>2. NamesFit' /\ EntriesFit'
    BY <1>1, <1>2 DEF WorldFits, NamesFit, EntriesFit
  <2>3. QED
    BY <2>1, <2>2 DEF WorldFits
<1>6. \A n \in Maps, y \in Chars : SameAt(n, y)
  BY <1>1, AlikeSame DEF SameAt, Here
<1>7. \A y \in Chars : Bare(m, y)
  BY <1>1, <1>2, Empties DEF ServersFit, Bare, Here
<1>8. ASSUME NEW x \in Chars PROVE Placed(x)' \/ SameSession(x)
  <2>1. CASE \E c \in there : sess[c].char = x
    <3>1. PICK c \in there : sess[c].char = x
      BY <2>1
    <3>2. \A n \in Maps : Bare(n, x)
      BY <1>7, <3>1, BareElsewhere
    <3>3. \A n \in Maps : Bare(n, x)'
      BY <1>6, <3>2, BareStays
    <3>4. \A d \in Conns : ~(Live(d)' /\ sess'[d].char = x)
      BY <1>3, <1>4, <3>1 DEF Inv, TablesAgree
    <3>5. QED
      BY <3>3, <3>4 DEF Placed, Settled, Followed, PlaysAs
  <2>2. CASE ~ \E c \in there : sess[c].char = x
    BY <1>3, <2>2 DEF SameSession, Live
  <2>3. QED
    BY <2>1, <2>2
<1>9. ASSUME NEW u \in Users PROVE SameKeepers(u) \/ (~Lost(u) /\ ~Lost(u)')
  <2>1. CASE \E c \in there : sess[c].user = u
    <3>1. PICK c \in there : sess[c].user = u
      BY <2>1
    <3>2. <<"session", c>> \in Keepers(u)
      BY <3>1, KeptBy
    <3>3. Logout(u) \in jobs'
      BY <1>3, <3>1
    <3>4. QED
      BY <1>5, <3>2, <3>3, LostIsNext, NoKeeperNext DEF Lost, WorldFits
  <2>2. CASE ~ \E c \in there : sess[c].user = u
    <3>1. Logout(u) \in jobs' <=> Logout(u) \in jobs
      BY <1>3, <2>2, LogoutIs
    <3>2. \A d \in Conns : Live(d)' /\ sess'[d].user = u <=> Live(d) /\ sess[d].user = u
      BY <1>3, <2>2 DEF Live
    <3>3. QED
      BY <1>1, <3>1, <3>2 DEF SameKeepers
  <2>3. QED
    BY <2>1, <2>2
<1>10. QED
  BY <1>1, <1>5, <1>6, <1>8, <1>9, PlacesKept

LEMMA OneAtMost ==
  ASSUME NEW S \in SUBSET Conns, Cardinality(S) <= 1
  PROVE  \A c, d \in S : c = d
<1>1. IsFiniteSet(S)
  BY EntryAssumption, FS_Subset
<1>2. Cardinality(S) = 0 \/ Cardinality(S) = 1
  BY <1>1, FS_CardinalityType
<1>3. CASE Cardinality(S) = 0
  BY <1>1, <1>3, FS_EmptySet
<1>4. CASE Cardinality(S) = 1
  <2>1. \E c : S = {c}
    BY <1>1, <1>4, FS_Singleton
  <2>2. QED
    BY <2>1
<1>5. QED
  BY <1>2, <1>3, <1>4

(* Everybody is disconnected, each with a notice to the map server. *)
LEMMA AllGone ==
  ASSUME Inv, PlaceInv, DisconnectAllUser
  PROVE  /\ \A n \in Maps : AllFit(up'[n]) /\ (n \notin alive => up'[n] = up[n])
         /\ \A n \in Maps, y \in Chars : \/ Alike(up'[n], up[n], y)
                                         \/ n \in alive /\ \E c \in Conns : PlaysAs(c, n, y)
         /\ \A n \in alive, y \in Chars, c \in Conns :
              PlaysAs(c, n, y) => Put(up'[n], up[n], Msg("disconnected", c, NoMap), y)
<1> DEFINE on == {c \in Conns : Live(c)}
           At(m) == {c \in on : sess[c].map = m}
<1>1. /\ up' = [m \in Maps |-> IF m \in alive /\ At(m) # {}
                               THEN Append(up[m], Msg("disconnected", CHOOSE c \in At(m) : TRUE, NoMap))
                               ELSE up[m]]
      /\ \A m \in Maps : Cardinality(At(m)) <= 1
  BY DEF DisconnectAllUser
<1>2. up \in [Maps -> Seq(Messages)] /\ \A n \in Maps : AllFit(up[n])
  BY InvParts DEF WiresOK, PlaceInv, WorldFits, NamesFit
<1>3. ASSUME NEW n \in Maps, n \in alive, At(n) # {}
      PROVE  /\ AllFit(up'[n])
             /\ \A y \in Chars : Alike(up'[n], up[n], y) \/ \E c \in Conns : PlaysAs(c, n, y)
             /\ \A y \in Chars, c \in Conns :
                  PlaysAs(c, n, y) => Put(up'[n], up[n], Msg("disconnected", c, NoMap), y)
  <2>1. PICK c \in At(n) : c = CHOOSE d \in At(n) : TRUE
    BY <1>3
  <2>2. c \in Conns /\ Live(c) /\ sess[c].map = n /\ n # NoMap
    BY <2>1, EntryAssumption
  <2>3. \A d \in At(n) : d = c
    <3>1. At(n) \in SUBSET Conns /\ Cardinality(At(n)) <= 1
      BY <1>1
    <3>2. QED
      BY <2>1, <3>1, OneAtMost
  <2>4. sess[c].char # NoChar
    BY <2>2 DEF Inv, TypeOK
  <2>5. PICK msg \in Messages : msg = Msg("disconnected", c, NoMap)
    BY <2>2, <2>4, PlayerMessage DEF PlayKinds
  <2>6. sess[c].char \in Chars /\ Owner[sess[c].char] = sess[c].user
    BY <2>2, <2>4, PlayerAt DEF Inv, OwnsChar
  <2>7. msg.kind \in CharKinds /\ msg.char = sess[c].char /\ msg.user = sess[c].user
    BY <2>5 DEF Msg, CharKinds, PlayKinds
  <2>8. NameFits(msg) /\ \A y \in Chars : Names(msg, y) <=> y = sess[c].char
    BY <2>6, <2>7 DEF NameFits, Names
  <2>9. up'[n] = Append(up[n], msg)
    BY <1>1, <1>3, <2>1, <2>5
  <2>10. AllFit(up'[n])
    BY <1>2, <2>8, <2>9, AppendFits
  <2>11. ASSUME NEW y \in Chars, y = sess[c].char PROVE Put(up'[n], up[n], msg, y)
    BY <1>2, <2>8, <2>9, <2>11, AppendPuts
  <2>12. ASSUME NEW y \in Chars, y # sess[c].char PROVE Alike(up'[n], up[n], y)
    BY <1>2, <2>8, <2>9, <2>12, AppendAlike
  <2>13. \A y \in Chars : y = sess[c].char => PlaysAs(c, n, y)
    BY <2>2 DEF PlaysAs
  <2>14. \A y \in Chars, d \in Conns : PlaysAs(d, n, y) => d = c /\ y = sess[c].char
    BY <2>3 DEF PlaysAs
  <2>15. QED
    BY <2>2, <2>5, <2>10, <2>11, <2>12, <2>13, <2>14
<1>4. ASSUME NEW n \in Maps, ~(n \in alive /\ At(n) # {})
      PROVE  /\ up'[n] = up[n]
             /\ n \in alive => \A y \in Chars, c \in Conns : ~PlaysAs(c, n, y)
  BY <1>1, <1>4 DEF PlaysAs
<1>5. alive \subseteq Maps
  BY DEF Inv, TypeOK
<1>6. ASSUME NEW n \in Maps PROVE AllFit(up'[n]) /\ (n \notin alive => up'[n] = up[n])
  BY <1>2, <1>3, <1>4
<1>7. ASSUME NEW n \in Maps, NEW y \in Chars
      PROVE  Alike(up'[n], up[n], y) \/ (n \in alive /\ \E c \in Conns : PlaysAs(c, n, y))
  BY <1>3, <1>4, AlikeSame
<1>8. ASSUME NEW n \in alive, NEW y \in Chars, NEW c \in Conns, PlaysAs(c, n, y)
      PROVE  Put(up'[n], up[n], Msg("disconnected", c, NoMap), y)
  <2>1. n \in Maps
    BY <1>5
  <2>2. At(n) # {}
    BY <1>8 DEF PlaysAs
  <2>3. QED
    BY <1>3, <1>8, <2>1, <2>2
<1>9. QED
  BY <1>6, <1>7, <1>8

LEMMA DisconnectAllPlaces ==
  ASSUME Inv, Inv', PlaceInv, DisconnectAllUser
  PROVE  PlaceInv'
<1> DEFINE on == {c \in Conns : Live(c)}
           done == jobs \cup {Logout(sess[c].user) : c \in {d \in on : sess[d].char = NoChar}}
<1>1. /\ \A d \in Conns : ~Live(d)'
      /\ row' = [u \in Users |-> row[u] /\ Logout(u) \notin done]
      /\ \A u : Logout(u) \notin jobs'
      /\ UNCHANGED <<down, known, alive, world, crashes>>
  BY LogoutIs DEF DisconnectAllUser, limits, Live
<1>2. Inv /\ WorldFits /\ NamesFit /\ ServersFit /\ alive \subseteq Maps
  BY DEF PlaceInv, WorldFits, Inv, TypeOK
<1>3. /\ \A n \in Maps : AllFit(up'[n]) /\ (n \notin alive => up'[n] = up[n])
      /\ \A n \in Maps, y \in Chars : \/ Alike(up'[n], up[n], y)
                                      \/ n \in alive /\ \E c \in Conns : PlaysAs(c, n, y)
      /\ \A n \in alive, y \in Chars, c \in Conns :
           PlaysAs(c, n, y) => Put(up'[n], up[n], Msg("disconnected", c, NoMap), y)
  BY AllGone
<1>4. WorldFits'
  BY <1>1, <1>2, <1>3, AgentActs DEF NamesFit
<1>5. ASSUME NEW n \in Maps, NEW x \in Chars, \A c \in Conns : ~PlaysAs(c, n, x) PROVE SameAt(n, x)
  BY <1>1, <1>3, <1>5, AlikeSame DEF SameAt, Here
<1>6. ASSUME NEW x \in Chars, \A n \in Maps : Bare(n, x) /\ \A c \in Conns : ~PlaysAs(c, n, x)
      PROVE  Placed(x)'
  <2>1. \A n \in Maps : Bare(n, x)'
    BY <1>5, <1>6, BareStays
  <2>2. QED
    BY <1>1, <2>1 DEF Placed, Settled, Followed, PlaysAs
<1>7. ASSUME NEW c \in Conns, NEW x \in Chars, NEW m \in Maps, PlaysAs(c, m, x)
      PROVE  /\ m \in alive => Noticed(m, x)'
             /\ m \notin alive => Lost(Owner[x])' /\ m \notin alive'
             /\ \A n \in Maps : n # m => Bare(n, x)'
             /\ Owner[x] = sess[c].user /\ sess[c].char = x
  <2>1. Live(c) /\ sess[c].char = x /\ sess[c].map = m
    BY <1>7 DEF PlaysAs
  <2>2. PICK u \in Users : u = Owner[x]
    BY EntryAssumption
  <2>3. u = sess[c].user /\ x # NoChar
    BY <2>1, <2>2, EntryAssumption DEF Inv, OwnsChar
  <2>4. /\ \A d \in Conns : Live(d) /\ sess[d].user = u => d = c
        /\ Logout(u) \notin jobs /\ row[u]
        /\ \A n \in Maps, y \in Chars : Owner[y] = u => No(up[n], Notices, y) /\ No(down[n], Answers, y)
    BY <1>2, <2>1, <2>2, <2>3, OnlyClient
  <2>5. \A d \in Conns, n \in Maps : PlaysAs(d, n, x) => d = c /\ n = m
    BY <2>1 DEF PlaysAs, Inv, TablesAgree
  <2>6. \A n \in Maps : n # m => Bare(n, x)'
    BY <1>5, <2>1, <2>5, BareElsewhere, BareStays
  <2>7. ASSUME m \in alive PROVE Noticed(m, x)'
    <3>1. Put(up'[m], up[m], Msg("disconnected", c, NoMap), x)
      BY <1>3, <1>7, <2>7
    <3>2. Msg("disconnected", c, NoMap).kind = "disconnected"
      BY DEF Msg
    <3>3. No(up[m], Notices, x)
      BY <2>2, <2>4
    <3>4. QED
      BY <3>1, <3>2, <3>3, KindsApart DEF Noticed, Put
  <2>8. ASSUME m \notin alive PROVE Lost(u)' /\ m \notin alive'
    <3>1. ASSUME NEW n \in Maps, NEW y \in Chars, Owner[y] = u
          PROVE  No(up'[n], Notices, y) /\ No(down'[n], Answers, y)
      <4>1. \A d \in Conns : PlaysAs(d, n, y) => d = c
        BY <2>4, <3>1, EntryAssumption DEF PlaysAs, Inv, OwnsChar
      <4>2. ~(n \in alive /\ \E d \in Conns : PlaysAs(d, n, y))
        BY <2>1, <2>8, <4>1 DEF PlaysAs
      <4>3. QED
        BY <1>1, <1>3, <2>4, <3>1, <4>2 DEF Alike
    <3>2. NoKeeper(u)'
      BY <1>1, <3>1, NoKeeperNext
    <3>3. Logout(u) \notin done
      <4>1. ASSUME NEW d \in Conns, Live(d), sess[d].char = NoChar, Logout(u) = Logout(sess[d].user)
            PROVE  FALSE
        BY <2>1, <2>3, <2>4, <4>1, LogoutIs
      <4>2. QED
        BY <2>4, <4>1
    <3>4. row'[u]
      BY <1>1, <2>4, <3>3
    <3>5. QED
      BY <1>1, <1>4, <2>8, <3>2, <3>4, LostIsNext DEF WorldFits
  <2>9. QED
    BY <2>1, <2>2, <2>3, <2>6, <2>7, <2>8
<1>8. ASSUME NEW x \in Chars PROVE Placed(x)' \/ ((\A n \in Maps : SameAt(n, x)) /\ SameSession(x))
  <2>1. CASE \E c \in Conns, m \in Maps : PlaysAs(c, m, x)
    <3>1. PICK c \in Conns, m \in Maps : PlaysAs(c, m, x)
      BY <2>1
    <3>2. Follows(m, x)' /\ \A n \in Maps : n # m => Bare(n, x)'
      BY <1>7, <3>1 DEF Follows
    <3>3. QED
      BY <1>1, <3>2 DEF Placed, Settled, Followed, PlaysAs
  <2>2. CASE ~ \E c \in Conns, m \in Maps : PlaysAs(c, m, x)
    <3>1. \A c \in Conns : ~(Live(c) /\ sess[c].char = x)
      BY <2>2, PlayerAt, EntryAssumption DEF PlaysAs
    <3>2. CASE \E c \in Conns : Live(c) /\ sess[c].user = Owner[x]
      BY <1>2, <1>6, <2>2, <3>1, <3>2, BareWithClient DEF PlaceInv, Placed
    <3>3. QED
      BY <1>1, <1>5, <2>2, <3>1 DEF SameSession
  <2>3. QED
    BY <2>1, <2>2
<1>9. ASSUME NEW u \in Users PROVE SameKeepers(u) \/ (~Lost(u) /\ (crashes = 0 => ~Lost(u)'))
  <2>1. CASE Logout(u) \in done
    <3>1. ~row'[u]
      BY <1>1, <2>1
    <3>2. Keepers(u) # {}
      <4>1. CASE Logout(u) \in jobs
        BY <4>1, KeptBy
      <4>2. CASE Logout(u) \notin jobs
        <5>1. PICK c \in Conns : Live(c) /\ Logout(u) = Logout(sess[c].user)
          BY <2>1, <4>2
        <5>2. sess[c].user = u
          BY <5>1, LogoutIs
        <5>3. QED
          BY <5>1, <5>2, KeptBy
      <4>3. QED
        BY <4>1, <4>2
    <3>3. QED
      BY <3>1, <3>2 DEF Lost
  <2>2. CASE Logout(u) \notin done /\ \E c \in Conns : Live(c) /\ sess[c].user = u
    <3>1. PICK c \in Conns : Live(c) /\ sess[c].user = u
      BY <2>2
    <3>2. sess[c].char # NoChar
      BY <2>2, <3>1
    <3>3. PICK x \in Chars, m \in Maps : PlaysAs(c, m, x)
      BY <3>1, <3>2, PlayerAt DEF PlaysAs
    <3>4. ~Lost(u)
      BY <3>1, KeptBy DEF Lost
    <3>5. ASSUME crashes = 0 PROVE ~Lost(u)'
      <4>1. m \in alive
        BY <1>2, <3>5 DEF ServersFit
      <4>2. Noticed(m, x)' /\ Owner[x] = u
        BY <1>7, <3>1, <3>3, <4>1
      <4>3. ~NoKeeper(u)'
        BY <4>2, NoKeeperNext DEF Noticed
      <4>4. QED
        BY <1>4, <4>3, LostIsNext DEF WorldFits
    <3>6. QED
      BY <3>4, <3>5
  <2>3. CASE Logout(u) \notin done /\ ~ \E c \in Conns : Live(c) /\ sess[c].user = u
    <3>1. ASSUME NEW n \in Maps, NEW y \in Chars, Owner[y] = u
          PROVE  /\ No(up'[n], Notices, y) <=> No(up[n], Notices, y)
                 /\ No(down'[n], Answers, y) <=> No(down[n], Answers, y)
      <4>1. \A c \in Conns : ~PlaysAs(c, n, y)
        BY <2>3, <3>1, EntryAssumption DEF PlaysAs, Inv, OwnsChar
      <4>2. QED
        BY <1>1, <1>3, <4>1 DEF Alike
    <3>2. /\ Logout(u) \in jobs' <=> Logout(u) \in jobs
          /\ row'[u] = row[u]
      BY <1>1, <2>3 DEF Inv, TypeOK
    <3>3. (\E c \in Conns : Live(c)' /\ sess'[c].user = u) <=> (\E c \in Conns : Live(c) /\ sess[c].user = u)
      BY <1>1, <2>3
    <3>4. QED
      BY <3>1, <3>2, <3>3 DEF SameKeepers
  <2>4. QED
    BY <2>1, <2>2, <2>3
<1>10. QED
  BY <1>1, <1>4, <1>8, <1>9, PlacesKept

-----------------------------------------------------------------------------
(* Queries are answered. *)

LEMMA AnswerPlaces ==
  ASSUME Inv, Inv', PlaceInv, NEW j, j.kind # "logout", jobs' = jobs \ {j},
         \A d \in Conns :
           /\ Live(d)' <=> Live(d)
           /\ Live(d) => /\ sess'[d].key = sess[d].key /\ sess'[d].user = sess[d].user
                         /\ sess'[d].char = sess[d].char /\ sess'[d].map = sess[d].map
                         /\ phase'[d] = phase[d] \/ phase[d] \notin InGame,
         UNCHANGED <<row, up, down, known, alive, world, crashes>>
  PROVE  PlaceInv'
<1>1. WorldFits'
  BY ServersGoOn DEF PlaceInv, WorldFits, NamesFit, ServersFit
<1>2. \A d \in Conns : Live(d) /\ sess[d].char # NoChar => phase'[d] = phase[d]
  BY PhaseOf
<1>3. \A x \in Chars : SameSession(x)
  BY <1>2, EntryAssumption DEF SameSession
<1>4. \A u \in Users : Logout(u) \in jobs' <=> Logout(u) \in jobs
  BY LogoutIs
<1>5. QED
  BY <1>1, <1>3, <1>4, AlikeSame, NobodyMoves

LEMMA ResultPlaces ==
  ASSUME Inv, Inv', PlaceInv, Result
  PROVE  PlaceInv'
<1>1. PICK j \in jobs :
        /\ RCharacterList(j) \/ RCreateCharacter(j) \/ RCharacterNameCheck(j) \/ RDeleteCharacter(j) \/ RLogout(j)
        /\ jobs' = jobs \ {j}
  BY DEF Result
<1>2. UNCHANGED <<up, down, known, alive, world, crashes>>
  BY DEF Result, maps
<1>3. SessionsFit /\ WiresOK
  BY InvParts
<1>4. \A d \in Conns : Live(d) => sess[d] \in Sessions /\ sess[d] # NoSess
  BY <1>3, LiveSession DEF SessionsFit, Live
<1>5. /\ sess \in [Conns -> Sessions \cup {NoSess}]
      /\ phase \in [Conns -> Waiting \cup {"none", "choose", "enter", "play"}]
  BY <1>3 DEF SessionsFit, SessTypes
<1>6. ASSUME NEW c \in Conns, NEW l, Live(c), sess' = [sess EXCEPT ![c].list = l]
      PROVE  \A d \in Conns : Live(d) => /\ sess'[d].key = sess[d].key /\ sess'[d].user = sess[d].user
                                         /\ sess'[d].char = sess[d].char /\ sess'[d].map = sess[d].map
  <2>1. \A d \in Conns : d # c => sess'[d] = sess[d]
    BY <1>5, <1>6
  <2>2. sess'[c] = [sess[c] EXCEPT !.list = l]
    BY <1>5, <1>6
  <2>3. /\ sess'[c].key = sess[c].key /\ sess'[c].user = sess[c].user
        /\ sess'[c].char = sess[c].char /\ sess'[c].map = sess[c].map
    BY <1>4, <1>6, <2>2 DEF Sessions
  <2>4. QED
    BY <2>1, <2>3
<1>7. ASSUME \A d \in Conns : phase'[d] = phase[d] \/ (Live(d) /\ phase'[d] = "choose")
      PROVE  \A d \in Conns : Live(d)' <=> Live(d)
  BY <1>7 DEF Inv, TypeOK
<1>8. CASE RLogout(j)
  <2>1. PICK u : u = j.user
    OBVIOUS
  <2>2. UNCHANGED <<sess, phase>> /\ row' = [row EXCEPT ![u] = FALSE] /\ j.kind = "logout"
    BY <1>8, <2>1 DEF RLogout
  <2>3. u \in Users /\ j = Logout(u)
    BY <1>3, <2>1, <2>2 DEF WiresOK, Queries, Logout
  <2>4. WorldFits'
    BY <1>2, <2>2, ServersGoOn DEF PlaceInv, WorldFits, NamesFit, ServersFit, Live
  <2>5. \A x \in Chars : SameSession(x) /\ \A n \in Maps : SameAt(n, x)
    BY <1>2, <2>2, AlikeSame DEF SameSession, Live, SameAt, Here
  <2>6. ~Lost(u) /\ ~Lost(u)'
    <3>1. ~row'[u]
      BY <2>2, <2>3 DEF Inv, TypeOK
    <3>2. Keepers(u) # {}
      BY <2>3, KeptBy
    <3>3. QED
      BY <3>1, <3>2 DEF Lost
  <2>7. ASSUME NEW v \in Users, v # u PROVE SameKeepers(v)
    <3>1. Logout(v) \in jobs' <=> Logout(v) \in jobs
      BY <1>1, <2>3, <2>7, LogoutIs
    <3>2. row'[v] = row[v]
      BY <2>2, <2>7
    <3>3. QED
      BY <1>2, <2>2, <3>1, <3>2 DEF SameKeepers, Live
  <2>8. QED
    BY <1>2, <2>4, <2>5, <2>6, <2>7, PlacesKept
<1>9. CASE RCharacterList(j)
  <2>1. j.kind = "list" /\ row' = row /\ j.conn \in Conns
    BY <1>3, <1>9, QueryFields DEF RCharacterList
  <2>2. CASE Live(j.conn) /\ sess[j.conn].key = j.key
    <3>1. PICK c \in Conns : c = j.conn
      BY <2>1
    <3>2. PICK l : sess' = [sess EXCEPT ![c].list = l]
      BY <1>9, <2>2, <3>1 DEF RCharacterList
    <3>3. phase[c] = "list" /\ phase' = [phase EXCEPT ![c] = "choose"]
      BY <1>3, <1>9, <2>1, <2>2, <3>1 DEF RCharacterList, Phase, SessionsFit, JobsFit
    <3>4. \A d \in Conns : phase'[d] = phase[d] \/ (Live(d) /\ phase'[d] = "choose" /\ phase[d] \notin InGame)
      BY <1>5, <2>2, <3>1, <3>3 DEF InGame
    <3>5. QED
      BY <1>1, <1>2, <1>6, <1>7, <2>1, <2>2, <3>1, <3>2, <3>4, AnswerPlaces
  <2>3. CASE ~(Live(j.conn) /\ sess[j.conn].key = j.key)
    <3>1. UNCHANGED <<sess, phase>>
      BY <1>9, <2>3 DEF RCharacterList
    <3>2. QED
      BY <1>1, <1>2, <2>1, <3>1, AnswerPlaces DEF Live
  <2>4. QED
    BY <2>2, <2>3
<1>10. CASE RCreateCharacter(j) \/ RDeleteCharacter(j) \/ RCharacterNameCheck(j)
  <2>1. j.kind \in {"make", "remove", "name"} /\ row' = row
    BY <1>10 DEF RCreateCharacter, RDeleteCharacter, RCharacterNameCheck
  <2>2. PICK c \in Conns : c = j.conn
    BY <1>3, <2>1, QueryFields
  <2>3. PICK wait \in {"make", "name"} :
          phase' = IF Live(c) /\ phase[c] = wait THEN [phase EXCEPT ![c] = "choose"] ELSE phase
    BY <1>10, <2>2 DEF RCreateCharacter, RDeleteCharacter, RCharacterNameCheck
  <2>4. \A d \in Conns : phase'[d] = phase[d] \/ (Live(d) /\ phase'[d] = "choose" /\ phase[d] \notin InGame)
    BY <1>5, <2>3 DEF InGame
  <2>5. sess' = sess \/ \E l : Live(c) /\ sess' = [sess EXCEPT ![c].list = l]
    <3>1. CASE RCharacterNameCheck(j)
      BY <3>1 DEF RCharacterNameCheck
    <3>2. CASE RDeleteCharacter(j)
      <4>1. sess' = IF Live(c) THEN [sess EXCEPT ![c].list[j.char] = NoMap] ELSE sess
        BY <2>2, <3>2 DEF RDeleteCharacter
      <4>2. [sess EXCEPT ![c].list[j.char] = NoMap] = [sess EXCEPT ![c].list = [sess[c].list EXCEPT ![j.char] = NoMap]]
        BY <1>5
      <4>3. QED
        BY <4>1, <4>2
    <3>3. CASE RCreateCharacter(j)
      <4>1. PICK m \in Maps \cup {NoMap} : sess' = sess \/ (Live(c) /\ sess' = [sess EXCEPT ![c].list[j.char] = m])
        BY <2>2, <3>3 DEF RCreateCharacter
      <4>2. [sess EXCEPT ![c].list[j.char] = m] = [sess EXCEPT ![c].list = [sess[c].list EXCEPT ![j.char] = m]]
        BY <1>5
      <4>3. QED
        BY <4>1, <4>2
    <3>4. QED
      BY <1>10, <3>1, <3>2, <3>3
  <2>6. \A d \in Conns : Live(d) => /\ sess'[d].key = sess[d].key /\ sess'[d].user = sess[d].user
                                    /\ sess'[d].char = sess[d].char /\ sess'[d].map = sess[d].map
    BY <1>6, <2>5
  <2>7. \A d \in Conns : Live(d)' <=> Live(d)
    BY <1>7, <2>4
  <2>8. j.kind # "logout"
    BY <2>1
  <2>9. QED
    BY <1>1, <1>2, <2>1, <2>4, <2>6, <2>7, <2>8, AnswerPlaces
<1>11. QED
  BY <1>1, <1>8, <1>9, <1>10

-----------------------------------------------------------------------------
(* What map servers answer. *)

(* Whom a reply about x is for. *)
LEMMA ReplyFor ==
  ASSUME Inv, PlaceInv, NEW m \in Maps, NEW x \in Chars, ~No(down[m], Replies, x)
  PROVE  /\ byChar[x] = NoConn => /\ \A d \in Conns : ~(Live(d) /\ sess[d].char = x)
                                  /\ Noticed(m, x) \/ Answered(m, x) \/ (Lost(Owner[x]) /\ m \notin alive)
         /\ byChar[x] # NoConn => PlaysAs(byChar[x], m, x) /\ Stage(byChar[x], m, x)
<1>1. Inv /\ NamesFit /\ Followed(x) /\ Settled(x)
  BY DEF PlaceInv, WorldFits, Placed
<1>2. Follows(m, x)
  BY <1>1 DEF Followed, Bare
<1>3. CASE byChar[x] = NoConn
  <2>1. \A d \in Conns : ~(Live(d) /\ sess[d].char = x)
    BY <1>3, EntryAssumption DEF Inv, TablesAgree
  <2>2. QED
    BY <1>2, <1>3, <2>1 DEF Follows, PlaysAs
<1>4. CASE byChar[x] # NoConn
  <2>1. PICK c \in Conns : c = byChar[x]
    BY <1>4, Found
  <2>2. Live(c) /\ sess[c].char = x /\ sess[c].user = Owner[x]
    BY <1>4, <2>1, Found
  <2>3. ~Noticed(m, x) /\ ~Answered(m, x) /\ ~Lost(Owner[x])
    BY <1>1, <2>2, OnlyClient DEF Noticed, Answered
  <2>4. PICK d \in Conns : PlaysAs(d, m, x)
    BY <1>2, <2>3 DEF Follows
  <2>5. d = c
    BY <2>1, <2>4 DEF PlaysAs, Inv, TablesAgree
  <2>6. QED
    BY <1>1, <1>4, <2>1, <2>4, <2>5 DEF Settled
<1>5. QED
  BY <1>3, <1>4

(* What is taken of a message of m about x: the one reply there is. *)
LEMMA ReplyTaken ==
  ASSUME Inv, PlaceInv, NEW m \in Maps, Taken(m), Head(down[m]).kind \in CharKinds
  PROVE  /\ Head(down[m]).char \in Chars
         /\ Took(down'[m], down[m], Head(down[m]), Head(down[m]).char)
         /\ AlikeElse(down', down, m, Head(down[m]).char)
         /\ Head(down[m]).kind \in Replies => ~No(down[m], Replies, Head(down[m]).char)
         /\ Owner[Head(down[m]).char] = Head(down[m]).user
<1>1. PICK msg \in Messages : msg = Head(down[m])
  BY TakenMessage
<1>2. PICK x \in Chars : x = msg.char
  BY <1>1, MessageIs DEF CharKinds
<1>3. NamesFit
  BY DEF PlaceInv, WorldFits
<1>4. NameFits(msg) /\ LinkTook(down', down, m, msg)
  BY <1>1, <1>3, DownTakenIs
<1>5. Names(msg, x) /\ NamesOnly(msg, x)
  BY <1>1, <1>2, OneChar DEF Names
<1>6. Took(down'[m], down[m], msg, x)
  BY <1>4, <1>5 DEF LinkTook
<1>7. AlikeElse(down', down, m, x)
  BY <1>4, <1>5, Elsewhere
<1>8. msg.kind \in Replies => ~No(down[m], Replies, x)
  BY <1>6 DEF Took
<1>9. QED
  BY <1>1, <1>2, <1>4, <1>6, <1>7, <1>8 DEF NameFits

(* The map servers after a message of theirs, answered or not. *)
LEMMA AnsweredWorld ==
  ASSUME Inv, PlaceInv, NEW m \in Maps, Taken(m),
         \A n \in Maps : AllFit(up'[n]) /\ (n \notin alive => up'[n] = up[n]),
         \A d \in Conns : Live(d)' => sess'[d].map \in known \cup {NoMap}
  PROVE  WorldFits' /\ \A n \in Maps : AllFit(down'[n]) /\ (n \notin known => down'[n] = down[n])
<1>1. WorldFits /\ NamesFit /\ ServersFit
  BY DEF PlaceInv, WorldFits
<1>2. UNCHANGED <<known, alive, world, crashes>>
  BY DEF Taken, limits
<1>3. \A n \in Maps : AllFit(down'[n]) /\ (down[n] = <<>> => down'[n] = down[n])
  BY <1>1, DownTakenIs
<1>4. \A n \in Maps : n \notin known => down[n] = <<>>
  BY <1>1 DEF ServersFit
<1>5. QED
  BY <1>1, <1>2, <1>3, <1>4, ServersGoOn

(* A reply about a character that nobody plays: only the map server may    *)
(* hear of it.                                                             *)
LEMMA DropPlaces ==
  ASSUME Inv, Inv', PlaceInv, NEW m \in Maps, Taken(m), NEW msg, msg = Head(down[m]),
         msg.kind \in Replies, msg.kind \in CharKinds, NEW x, x = msg.char, byChar[x] = NoConn,
         UNCHANGED <<sess, phase, jobs>>,
         up' = up \/ (\E back \in Messages : /\ back.kind = "gamein_nack" /\ back.char = x /\ back.user = msg.user
                                             /\ Sent(m, back))
  PROVE  PlaceInv'
<1>1. /\ x \in Chars /\ Took(down'[m], down[m], msg, x) /\ AlikeElse(down', down, m, x)
      /\ ~No(down[m], Replies, x) /\ Owner[x] = msg.user
  BY ReplyTaken
<1>2. /\ \A d \in Conns : ~(Live(d) /\ sess[d].char = x)
      /\ Noticed(m, x) \/ Answered(m, x) \/ (Lost(Owner[x]) /\ m \notin alive)
  BY <1>1, ReplyFor
<1>3. WorldFits /\ NamesFit /\ ServersFit
  BY DEF PlaceInv, WorldFits
<1>4. UNCHANGED <<row, known, alive, world, crashes>>
  BY DEF Taken, limits
<1>5. msg.kind \notin Answers
  BY KindsApart DEF Answers
<1>6. /\ \A n \in Maps : AllFit(up'[n]) /\ (n \notin alive => up'[n] = up[n])
      /\ AlikeElse(up', up, m, x)
      /\ \A n \in Maps, y \in Chars : No(up'[n], Notices, y) <=> No(up[n], Notices, y)
      /\ No(up[m], Requests, x) => No(up'[m], Requests, x)
      /\ Before(up[m], Requests, Notices, x) => Before(up'[m], Requests, Notices, x)
  <2>1. CASE up' = up
    BY <1>3, <2>1, AlikeSame DEF NamesFit, AlikeElse
  <2>2. ASSUME NEW back \in Messages, back.kind = "gamein_nack", back.char = x, back.user = msg.user, Sent(m, back)
        PROVE  /\ \A n \in Maps : AllFit(up'[n]) /\ (n \notin alive => up'[n] = up[n])
               /\ AlikeElse(up', up, m, x)
               /\ \A n \in Maps, y \in Chars : No(up'[n], Notices, y) <=> No(up[n], Notices, y)
               /\ No(up[m], Requests, x) => No(up'[m], Requests, x)
               /\ Before(up[m], Requests, Notices, x) => Before(up'[m], Requests, Notices, x)
    <3>1. NameFits(back)
      BY <1>1, <2>2 DEF NameFits
    <3>2. /\ m \in alive => LinkPut(up', up, m, back)
          /\ m \notin alive => LinkSame(up', up)
          /\ \A n \in Maps : AllFit(up'[n]) /\ (n \notin alive => up'[n] = up[n])
      BY <1>3, <2>2, <3>1, SentIs
    <3>3. back.kind \notin Requests /\ back.kind \notin Notices /\ back.kind \in CharKinds
      BY <2>2, KindsApart DEF CharKinds, PlayKinds
    <3>4. AlikeElse(up', up, m, x) /\ Names(back, x)
      BY <2>2, <3>2, <3>3, OneChar, Elsewhere DEF Names
    <3>5. \A n \in Maps, y \in Chars : No(up'[n], Notices, y) <=> No(up[n], Notices, y)
      BY <3>2, <3>3, LinkNo DEF About
    <3>6. Put(up'[m], up[m], back, x) \/ Alike(up'[m], up[m], x)
      BY <1>1, <3>2, <3>4 DEF LinkPut, LinkSame
    <3>7. /\ No(up[m], Requests, x) => No(up'[m], Requests, x)
          /\ Before(up[m], Requests, Notices, x) => Before(up'[m], Requests, Notices, x)
      BY <3>3, <3>6 DEF Put, Alike
    <3>8. QED
      BY <3>2, <3>4, <3>5, <3>7
  <2>3. QED
    BY <2>1, <2>2
<1>7. WorldFits'
  <2>1. \A d \in Conns : Live(d)' => sess'[d].map \in known \cup {NoMap}
    BY <1>3 DEF ServersFit, Live
  <2>2. QED
    BY <1>6, <2>1, AnsweredWorld
<1>8. \A n \in Maps, y \in Chars : n # m \/ y # x => SameAt(n, y)
  BY <1>1, <1>4, <1>6 DEF AlikeElse, SameAt, Here
<1>9. \A y \in Chars : SameSession(y)
  BY DEF SameSession, Live
<1>10. ASSUME NEW u \in Users PROVE SameKeepers(u)
  <2>1. \A n \in Maps, y \in Chars : No(down'[n], Answers, y) <=> No(down[n], Answers, y)
    BY <1>1, <1>5 DEF AlikeElse, Alike, Took
  <2>2. QED
    BY <1>4, <1>6, <2>1 DEF SameKeepers, Live
<1>11. Placed(x)'
  <2>1. Lost(Owner[x]) => Lost(Owner[x])'
    BY <1>1, <1>3, <1>7, <1>10, LostStays, EntryAssumption DEF WorldFits
  <2>2. Noticed(m, x) => Noticed(m, x)'
    BY <1>1, <1>6 DEF Noticed
  <2>3. Answered(m, x) => Answered(m, x)'
    BY <1>1, <1>4, <1>5, <1>6 DEF Answered, Took, Here
  <2>4. Follows(m, x)'
    BY <1>2, <1>4, <2>1, <2>2, <2>3 DEF Follows
  <2>5. ASSUME NEW n \in Maps, n # m PROVE Bare(n, x)' \/ Follows(n, x)'
    BY <1>1, <1>8, <1>9, <2>1, <2>5, BareStays, FollowsStays DEF PlaceInv, Placed, Followed
  <2>6. QED
    BY <1>2, <2>4, <2>5 DEF Placed, Settled, Followed, PlaysAs, Live
<1>12. QED
  BY <1>4, <1>7, <1>8, <1>9, <1>10, <1>11, PlacesKept

(* The stage of the session a reply is for. *)
LEMMA StageOfReply ==
  ASSUME NEW c, NEW m, NEW x, NEW msg, Stage(c, m, x), NEW new, Took(new, down[m], msg, x),
         msg.kind \in Replies
  PROVE  /\ msg.kind = "gamein_ack" => Loaded(c, m, x)
         /\ msg.kind = "gamein_nack" => Refused(c, m, x)
         /\ msg.kind \in AskKinds => HasLeft(c, m, x) /\ phase[c] \in {"leave", "back"}
         /\ No(new, Replies, x) /\ msg.key = sess[c].key
<1>1. ~No(down[m], Replies, x)
  BY DEF Took
<1>0. \A J, key : Only(down[m], Replies, J, x, key) => No(new, Replies, x) /\ msg.kind \in J /\ msg.key = key
  BY DEF Took
<1>2. \/ Loaded(c, m, x) \/ Refused(c, m, x)
      \/ HasLeft(c, m, x) /\ phase[c] \in {"leave", "back"}
  BY <1>1 DEF Stage, Bare, Asked, Loading, Playing, Leaving
<1>3. CASE Loaded(c, m, x)
  <2>1. msg.kind \in Entered /\ No(new, Replies, x) /\ msg.key = sess[c].key
    BY <1>0, <1>3 DEF Loaded
  <2>2. msg.kind = "gamein_ack"
    BY <2>1 DEF Entered
  <2>3. msg.kind \notin AskKinds /\ "gamein_ack" # "gamein_nack"
    BY <2>1, KindsApart
  <2>4. QED
    BY <1>3, <2>1, <2>2, <2>3
<1>4. CASE Refused(c, m, x)
  <2>1. msg.kind \in NotIn /\ No(new, Replies, x) /\ msg.key = sess[c].key
    BY <1>0, <1>4 DEF Refused
  <2>2. msg.kind = "gamein_nack"
    BY <2>1 DEF NotIn
  <2>3. msg.kind \notin AskKinds /\ "gamein_ack" # "gamein_nack"
    BY <2>1, KindsApart
  <2>4. QED
    BY <1>4, <2>1, <2>2, <2>3
<1>5. CASE HasLeft(c, m, x) /\ phase[c] \in {"leave", "back"}
  <2>1. msg.kind \in AskKinds /\ No(new, Replies, x) /\ msg.key = sess[c].key
    BY <1>0, <1>5 DEF HasLeft
  <2>2. QED
    BY <1>5, <2>1, KindsApart
<1>6. QED
  BY <1>2, <1>3, <1>4, <1>5

(* Every other map server is told, if it is there. *)
LEMMA BroadcastIs ==
  ASSUME Inv, PlaceInv, NEW m \in Maps, NEW msg \in Messages, msg.kind \in Sweeps, NEW x \in Chars, msg.char = x,
         NameFits(msg), Broadcast(m, msg)
  PROVE  /\ \A n \in Maps : AllFit(up'[n]) /\ (n \notin alive => up'[n] = up[n])
         /\ \A n \in Maps, y \in Chars : n = m \/ y # x => Alike(up'[n], up[n], y)
         /\ \A n \in Maps : /\ No(up'[n], Requests, x) <=> No(up[n], Requests, x)
                            /\ No(up'[n], Notices, x) <=> No(up[n], Notices, x)
<1>1. up \in [Maps -> Seq(Messages)] /\ \A n \in Maps : AllFit(up[n])
  BY InvParts DEF WiresOK, PlaceInv, WorldFits, NamesFit
<1>2. msg.kind \notin Requests /\ msg.kind \notin Notices
  <2>1. msg.kind = "gamein_nack" \/ msg.kind = "othermap"
    BY DEF Sweeps
  <2>2. QED
    BY <2>1, KindsApart
<1>3. ASSUME NEW n \in Maps, n # m /\ n \in known \cap alive
      PROVE  /\ up'[n] = Append(up[n], msg) /\ AllFit(up'[n])
             /\ \A y \in Chars : y # x => Alike(up'[n], up[n], y)
             /\ Alike(up'[n], up[n], x) \/ Put(up'[n], up[n], msg, x)
  <2>1. up'[n] = Append(up[n], msg)
    BY <1>3 DEF Broadcast
  <2>2. AllFit(up'[n])
    BY <1>1, <2>1, AppendFits
  <2>3. ASSUME NEW y \in Chars, y # x PROVE Alike(up'[n], up[n], y)
    <3>1. ~Names(msg, y)
      BY <2>3 DEF Names
    <3>2. QED
      BY <1>1, <2>1, <3>1, AppendAlike
  <2>4. Alike(up'[n], up[n], x) \/ Put(up'[n], up[n], msg, x)
    BY <1>1, <2>1, AppendAlike, AppendPuts
  <2>5. QED
    BY <2>1, <2>2, <2>3, <2>4
<1>4. ASSUME NEW n \in Maps, ~(n # m /\ n \in known \cap alive) PROVE up'[n] = up[n]
  BY <1>4 DEF Broadcast
<1>5. ASSUME NEW n \in Maps PROVE AllFit(up'[n]) /\ (n \notin alive => up'[n] = up[n])
  BY <1>1, <1>3, <1>4
<1>6. ASSUME NEW n \in Maps, NEW y \in Chars, n = m \/ y # x PROVE Alike(up'[n], up[n], y)
  BY <1>3, <1>4, <1>6, AlikeSame
<1>7. ASSUME NEW n \in Maps
      PROVE  /\ No(up'[n], Requests, x) <=> No(up[n], Requests, x)
             /\ No(up'[n], Notices, x) <=> No(up[n], Notices, x)
  <2>1. up'[n] = up[n] \/ Alike(up'[n], up[n], x) \/ Put(up'[n], up[n], msg, x)
    BY <1>3, <1>4
  <2>2. QED
    BY <1>2, <2>1 DEF Alike, Put
<1>8. QED
  BY <1>5, <1>6, <1>7

LEMMA GameinAckPlaces ==
  ASSUME Inv, Inv', PlaceInv, NEW m \in Maps, Taken(m), GameinAck(m, Head(down[m]))
  PROVE  PlaceInv'
<1>1. PICK msg \in Messages : msg = Head(down[m]) /\ msg.kind = "gamein_ack"
  BY TakenMessage DEF GameinAck
<1>2. msg.kind \in Replies /\ msg.kind \in CharKinds /\ msg.kind \in PlayKinds /\ msg.kind \notin Answers
  BY <1>1, KindsApart DEF CharKinds, PlayKinds
<1>3. PICK x : x = msg.char
  OBVIOUS
<1>4. /\ x \in Chars /\ Took(down'[m], down[m], msg, x) /\ AlikeElse(down', down, m, x)
      /\ ~No(down[m], Replies, x) /\ Owner[x] = msg.user
  BY <1>1, <1>2, <1>3, ReplyTaken
<1>5. PICK c : c = byChar[x]
  OBVIOUS
<1>6. WorldFits /\ NamesFit /\ ServersFit
  BY DEF PlaceInv, WorldFits
<1>7. UNCHANGED <<row, known, alive, world, crashes>> /\ UNCHANGED jobs
  BY DEF Taken, limits, GameinAck
<1>8. CASE c = NoConn
  <2>1. PICK back : back = [msg EXCEPT !.kind = "gamein_nack"]
    OBVIOUS
  <2>2. UNCHANGED <<sess, phase>> /\ Sent(m, back)
    BY <1>1, <1>3, <1>5, <1>8, <2>1 DEF GameinAck
  <2>3. back \in Messages /\ back.kind = "gamein_nack" /\ back.user = msg.user
    BY <1>1, <1>2, <2>1, MessageIs DEF PlayKinds
  <2>4. back.char = x
    BY <1>3, <2>1
  <2>5. QED
    BY <1>1, <1>2, <1>3, <1>5, <1>7, <1>8, <2>2, <2>3, <2>4, DropPlaces
<1>9. CASE c # NoConn
  <2>1. PlaysAs(c, m, x) /\ Stage(c, m, x) /\ c \in Conns
    BY <1>4, <1>5, <1>9, ReplyFor, Found
  <2>2. Loaded(c, m, x) /\ No(down'[m], Replies, x) /\ msg.key = sess[c].key
    BY <1>1, <1>2, <1>4, <2>1, StageOfReply
  <2>3. PICK other : other = [msg EXCEPT !.kind = "othermap"]
    OBVIOUS
  <2>4. /\ sess' = [sess EXCEPT ![c].list[x] = sess[c].map] /\ phase' = [phase EXCEPT ![c] = "play"]
        /\ Broadcast(m, other)
    BY <1>1, <1>3, <1>5, <1>9, <2>2, <2>3 DEF GameinAck, Phase
  <2>5. other \in Messages /\ other.kind = "othermap" /\ other.user = msg.user
    BY <1>1, <1>2, <2>3, MessageIs DEF PlayKinds
  <2>6. other.char = x /\ other.kind \in Sweeps /\ NameFits(other)
    BY <1>3, <1>4, <2>3, <2>5, KindsApart DEF NameFits
  <2>7. /\ \A n \in Maps : AllFit(up'[n]) /\ (n \notin alive => up'[n] = up[n])
        /\ \A n \in Maps, y \in Chars : n = m \/ y # x => Alike(up'[n], up[n], y)
        /\ \A n \in Maps : /\ No(up'[n], Requests, x) <=> No(up[n], Requests, x)
                           /\ No(up'[n], Notices, x) <=> No(up[n], Notices, x)
    BY <1>4, <2>4, <2>5, <2>6, BroadcastIs
  <2>8. /\ Live(c) /\ sess[c].char = x /\ sess[c].map = m
        /\ sess[c] \in Sessions
    BY <2>1, LiveSession, InvParts DEF PlaysAs, SessionsFit
  <2>9. /\ \A d \in Conns : d # c => sess'[d] = sess[d] /\ phase'[d] = phase[d]
        /\ phase'[c] = "play" /\ sess'[c] = [sess[c] EXCEPT !.list = [sess[c].list EXCEPT ![x] = m]]
    <3>1. sess \in [Conns -> Sessions \cup {NoSess}]
      BY InvParts DEF SessionsFit, SessTypes
    <3>2. phase \in [Conns -> Waiting \cup {"none", "choose", "enter", "play"}]
      BY InvParts DEF SessionsFit, SessTypes
    <3>3. QED
      BY <2>1, <2>4, <2>8, <3>1, <3>2
  <2>10. /\ sess'[c].char = x /\ sess'[c].map = m /\ sess'[c].user = sess[c].user /\ sess'[c].key = sess[c].key
    BY <2>8, <2>9 DEF Sessions
  <2>11. Live(c)'
    BY <2>1, <2>9 DEF Inv, TypeOK
  <2>12. WorldFits'
    <3>1. \A d \in Conns : Live(d)' => sess'[d].map \in known \cup {NoMap}
      BY <1>6, <2>8, <2>9, <2>10 DEF ServersFit, Live
    <3>2. QED
      BY <2>7, <3>1, AnsweredWorld
  <2>13. Stage(c, m, x)'
    <3>1. Alike(up'[m], up[m], x)
      BY <1>4, <2>7
    <3>2. No(up'[m], Requests, x) /\ Plays(c, m, x)
      BY <2>2, <3>1 DEF Loaded, Alike
    <3>3. Plays(c, m, x)'
      <4>1. CASE m \in alive
        <5>1. Has(c, m, x, TRUE)
          BY <3>2, <4>1 DEF Plays
        <5>2. Has(c, m, x, TRUE)'
          BY <1>7, <2>10, <3>1, <5>1 DEF Has, Here, Alike
        <5>3. QED
          BY <1>7, <4>1, <5>2 DEF Plays
      <4>2. CASE m \notin alive
        BY <1>7, <3>2, <4>2 DEF Plays, Here
      <4>3. QED
        BY <4>1, <4>2
    <3>4. QED
      BY <2>2, <2>9, <3>2, <3>3 DEF Stage, Playing
  <2>14. ASSUME NEW n \in Maps, n # m PROVE Bare(n, x)'
    <3>1. Bare(n, x)
      BY <1>4, <2>1, <2>8, <2>14, BareElsewhere
    <3>2. No(down'[n], Replies, x)
      BY <1>4, <2>14, <3>1 DEF AlikeElse, Alike, Bare
    <3>3. QED
      BY <1>7, <2>7, <3>1, <3>2 DEF Bare, Here
  <2>15. \A n \in Maps, y \in Chars : y # x => SameAt(n, y)
    BY <1>4, <1>7, <2>7 DEF AlikeElse, SameAt, Here
  <2>16. \A n \in Maps : No(down'[n], Answers, x) <=> No(down[n], Answers, x)
    BY <1>2, <1>4 DEF AlikeElse, Alike, Took
  <2>17. QED
    BY <1>4, <1>7, <2>1, <2>7, <2>8, <2>9, <2>10, <2>11, <2>12, <2>13, <2>14, <2>15, <2>16, PlayerMoves
<1>10. QED
  BY <1>8, <1>9

LEMMA GameinNackPlaces ==
  ASSUME Inv, Inv', PlaceInv, NEW m \in Maps, Taken(m), GameinNack(m, Head(down[m]))
  PROVE  PlaceInv'
<1>1. PICK msg \in Messages : msg = Head(down[m]) /\ msg.kind = "gamein_nack"
  BY TakenMessage DEF GameinNack
<1>2. msg.kind \in Replies /\ msg.kind \in CharKinds /\ msg.kind \notin Answers
  BY <1>1, KindsApart DEF CharKinds, PlayKinds
<1>3. PICK x : x = msg.char
  OBVIOUS
<1>4. /\ x \in Chars /\ Took(down'[m], down[m], msg, x) /\ AlikeElse(down', down, m, x)
      /\ ~No(down[m], Replies, x)
  BY <1>1, <1>2, <1>3, ReplyTaken
<1>5. PICK c : c = byChar[x]
  OBVIOUS
<1>6. UNCHANGED <<row, known, alive, world, crashes>>
  BY DEF Taken, limits
<1>7. CASE c = NoConn
  <2>1. UNCHANGED <<sess, phase, jobs>> /\ up' = up
    BY <1>1, <1>3, <1>5, <1>7 DEF GameinNack, agent
  <2>2. QED
    BY <1>1, <1>2, <1>3, <1>5, <1>7, <2>1, DropPlaces
<1>8. CASE c # NoConn
  <2>1. PlaysAs(c, m, x) /\ c \in Conns
    BY <1>4, <1>5, <1>8, ReplyFor, Found
  <2>2. Live(c) /\ sess[c].char = x /\ sess[c].map = m /\ x # NoChar
    BY <1>4, <2>1, EntryAssumption DEF PlaysAs
  <2>3. Gone({c}, {}) /\ Sent(sess[c].map, Msg("disconnected", c, NoMap))
    BY <1>1, <1>3, <1>5, <1>8 DEF GameinNack
  <2>4. \A n \in Maps, y \in Chars : \/ Alike(down'[n], down[n], y)
                                     \/ /\ sess[c].char = y /\ sess[c].map = n
                                        /\ No(down[n], Answers, y) => No(down'[n], Answers, y)
    BY <1>4, <2>2 DEF AlikeElse, Took
  <2>5. \A n \in Maps : AllFit(down'[n]) /\ (n \notin known => down'[n] = down[n])
    <3>1. \A n \in Maps : AllFit(down'[n]) /\ (down[n] = <<>> => down'[n] = down[n])
      BY DownTakenIs DEF PlaceInv, WorldFits
    <3>2. QED
      BY <3>1 DEF PlaceInv, WorldFits, ServersFit
  <2>6. QED
    BY <1>6, <2>1, <2>2, <2>3, <2>4, <2>5, EndPlaces
<1>9. QED
  BY <1>7, <1>8

(* The player whose character has left. *)
LEMMA LeftIs ==
  ASSUME Inv, PlaceInv, NEW m \in Maps, Taken(m), NEW msg, msg = Head(down[m]), msg.kind \in AskKinds,
         NEW x, x = msg.char, byChar[x] # NoConn, up' = up
  PROVE  /\ byChar[x] \in Conns /\ PlaysAs(byChar[x], m, x) /\ phase[byChar[x]] \in {"leave", "back"}
         /\ \A n \in Maps : Bare(n, x)'
         /\ \A n \in Maps, y \in Chars : y # x => SameAt(n, y)
         /\ \A n \in Maps : No(down'[n], Answers, x) <=> No(down[n], Answers, x)
<1>1. msg.kind \in Replies /\ msg.kind \notin Answers /\ msg.kind \in CharKinds
  BY KindsApart DEF AskKinds, CharKinds, PlayKinds
<1>2. /\ x \in Chars /\ Took(down'[m], down[m], msg, x) /\ AlikeElse(down', down, m, x)
      /\ ~No(down[m], Replies, x)
  BY <1>1, ReplyTaken
<1>3. PICK c \in Conns : c = byChar[x]
  BY <1>2, Found
<1>4. PlaysAs(c, m, x) /\ Stage(c, m, x)
  BY <1>2, <1>3, ReplyFor
<1>5. HasLeft(c, m, x) /\ phase[c] \in {"leave", "back"} /\ No(down'[m], Replies, x)
  BY <1>1, <1>2, <1>4, StageOfReply
<1>6. alive' = alive /\ world' = world
  BY DEF Taken
<1>7. ASSUME NEW n \in Maps PROVE Bare(n, x)'
  <2>1. CASE n = m
    BY <1>5, <1>6, <2>1 DEF HasLeft, Bare, Here
  <2>2. CASE n # m
    <3>1. Bare(n, x)
      BY <1>2, <1>4, <2>2, BareElsewhere DEF PlaysAs
    <3>2. SameAt(n, x)
      BY <1>2, <1>6, <2>2, AlikeSame DEF AlikeElse, SameAt, Here
    <3>3. QED
      BY <3>1, <3>2, BareStays
  <2>3. QED
    BY <2>1, <2>2
<1>8. ASSUME NEW n \in Maps, NEW y \in Chars, y # x PROVE SameAt(n, y)
  BY <1>2, <1>6, <1>8, AlikeSame DEF AlikeElse, SameAt, Here
<1>9. \A n \in Maps : No(down'[n], Answers, x) <=> No(down[n], Answers, x)
  BY <1>1, <1>2 DEF AlikeElse, Alike, Took
<1>10. QED
  BY <1>3, <1>4, <1>5, <1>7, <1>8, <1>9

LEMMA LeftForPlaces ==
  ASSUME Inv, Inv', PlaceInv, NEW m \in Maps, Taken(m), NEW msg, msg = Head(down[m]),
         msg.kind \in WayKinds, LeftFor(msg)
  PROVE  PlaceInv'
<1>1. /\ msg.kind \in AskKinds /\ msg.kind \in Replies /\ msg.kind \in CharKinds
  BY KindsApart DEF AskKinds, CharKinds
<1>2. PICK x : x = msg.char
  OBVIOUS
<1>3. UNCHANGED <<up, jobs, byChar>> /\ UNCHANGED <<row, known, alive, world, crashes>>
  BY DEF LeftFor, Taken, limits
<1>4. x \in Chars /\ msg.map \in Maps
  <2>1. msg \in Messages
    BY TakenMessage
  <2>2. msg.kind \in WayKinds \ {"back"}
    BY DEF WayKinds
  <2>3. QED
    BY <1>1, <1>2, <2>1, <2>2, MessageIs DEF CharKinds
<1>5. WorldFits /\ NamesFit /\ ServersFit
  BY DEF PlaceInv, WorldFits
<1>6. CASE byChar[x] = NoConn
  <2>1. UNCHANGED <<sess, phase>>
    BY <1>2, <1>6 DEF LeftFor
  <2>2. QED
    BY <1>1, <1>2, <1>3, <1>6, <2>1, DropPlaces
<1>7. CASE byChar[x] # NoConn
  <2>1. PICK c : c = byChar[x]
    OBVIOUS
  <2>2. /\ c \in Conns /\ PlaysAs(c, m, x) /\ phase[c] \in {"leave", "back"}
        /\ \A n \in Maps : Bare(n, x)'
        /\ \A n \in Maps, y \in Chars : y # x => SameAt(n, y)
        /\ \A n \in Maps : No(down'[n], Answers, x) <=> No(down[n], Answers, x)
    BY <1>1, <1>2, <1>3, <1>7, <2>1, LeftIs
  <2>3. Live(c) /\ sess[c].char = x /\ sess[c].map = m /\ sess[c] \in Sessions
    BY <2>2, LiveSession, InvParts DEF PlaysAs, SessionsFit
  <2>4. /\ sess \in [Conns -> Sessions \cup {NoSess}]
        /\ phase \in [Conns -> Waiting \cup {"none", "choose", "enter", "play"}]
    BY InvParts DEF SessionsFit, SessTypes
  <2>5. PICK k \in Maps : k = msg.map
    BY <1>4
  <2>6. CASE FindMapServer(k)
    <3>1. sess' = [sess EXCEPT ![c].map = k] /\ phase' = [phase EXCEPT ![c] = "enter"]
      BY <1>2, <1>7, <2>1, <2>5, <2>6 DEF LeftFor, Phase
    <3>2. /\ \A d \in Conns : d # c => sess'[d] = sess[d] /\ phase'[d] = phase[d]
          /\ phase'[c] = "enter" /\ sess'[c] = [sess[c] EXCEPT !.map = k]
      BY <2>2, <2>4, <3>1
    <3>3. sess'[c].char = x /\ sess'[c].map = k /\ sess'[c].user = sess[c].user
      BY <2>3, <3>2 DEF Sessions
    <3>4. Live(c)'
      BY <2>2, <3>2 DEF Inv, TypeOK
    <3>5. k \in known
      BY <2>5, <2>6, EntryAssumption DEF FindMapServer, GetServerPort
    <3>6. WorldFits'
      <4>1. \A n \in Maps : AllFit(up'[n]) /\ (n \notin alive => up'[n] = up[n])
        BY <1>3, <1>5 DEF NamesFit
      <4>2. \A d \in Conns : Live(d)' => sess'[d].map \in known \cup {NoMap}
        BY <1>5, <3>2, <3>3, <3>5 DEF ServersFit, Live
      <4>3. QED
        BY <4>1, <4>2, AnsweredWorld
    <3>7. Stage(c, k, x)'
      BY <2>2, <3>2 DEF Stage
    <3>8. QED
      BY <1>3, <1>4, <2>2, <2>3, <3>2, <3>3, <3>4, <3>6, <3>7, PlayerMoves
  <2>7. CASE ~FindMapServer(k)
    <3>1. sess' = sess /\ phase' = phase
      BY <1>2, <2>5, <2>7 DEF LeftFor
    <3>2. crashes > 0
      BY <1>5, <2>7, EntryAssumption DEF FindMapServer, GetServerPort, ServersFit
    <3>3. WorldFits'
      <4>1. \A n \in Maps : AllFit(up'[n]) /\ (n \notin alive => up'[n] = up[n])
        BY <1>3, <1>5 DEF NamesFit
      <4>2. \A d \in Conns : Live(d)' => sess'[d].map \in known \cup {NoMap}
        BY <1>5, <3>1 DEF ServersFit, Live
      <4>3. QED
        BY <4>1, <4>2, AnsweredWorld
    <3>4. Stage(c, m, x)'
      BY <1>3, <2>2, <3>1, <3>2 DEF Stage
    <3>5. Live(c)' /\ sess'[c].char = x /\ sess'[c].user = sess[c].user /\ sess'[c].map = m
      BY <2>3, <3>1 DEF Live
    <3>6. QED
      BY <1>3, <1>4, <2>2, <2>3, <3>1, <3>3, <3>4, <3>5, PlayerMoves
  <2>8. QED
    BY <2>6, <2>7
<1>8. QED
  BY <1>6, <1>7

LEMMA BackAckPlaces ==
  ASSUME Inv, Inv', PlaceInv, NEW m \in Maps, Taken(m), BackToCharSelAck(m, Head(down[m]))
  PROVE  PlaceInv'
<1>1. PICK msg : msg = Head(down[m]) /\ msg.kind = "back"
  BY DEF BackToCharSelAck
<1>2. /\ msg.kind \in AskKinds /\ msg.kind \in Replies /\ msg.kind \in CharKinds
  BY <1>1, KindsApart DEF AskKinds, CharKinds, PlayKinds
<1>3. PICK x \in Chars : x = msg.char
  BY <1>1, <1>2, ReplyTaken
<1>4. UNCHANGED <<row, known, alive, world, crashes, up>>
  BY DEF BackToCharSelAck, Taken, limits
<1>5. WorldFits /\ NamesFit /\ ServersFit
  BY DEF PlaceInv, WorldFits
<1>6. CASE byChar[x] = NoConn
  <2>1. UNCHANGED <<sess, phase, jobs>>
    BY <1>1, <1>3, <1>6 DEF BackToCharSelAck
  <2>2. QED
    BY <1>1, <1>2, <1>3, <1>4, <1>6, <2>1, DropPlaces
<1>7. CASE byChar[x] # NoConn
  <2>1. PICK c : c = byChar[x]
    OBVIOUS
  <2>2. /\ c \in Conns /\ PlaysAs(c, m, x) /\ phase[c] \in {"leave", "back"}
        /\ \A n \in Maps : Bare(n, x)'
        /\ \A n \in Maps, y \in Chars : y # x => SameAt(n, y)
        /\ \A n \in Maps : No(down'[n], Answers, x) <=> No(down[n], Answers, x)
    BY <1>1, <1>2, <1>3, <1>4, <1>7, <2>1, LeftIs
  <2>3. Live(c) /\ sess[c].char = x /\ sess[c].map = m /\ sess[c] \in Sessions /\ x # NoChar
    BY <1>3, <2>2, LiveSession, InvParts, EntryAssumption DEF PlaysAs, SessionsFit
  <2>4. /\ sess \in [Conns -> Sessions \cup {NoSess}]
        /\ phase \in [Conns -> Waiting \cup {"none", "choose", "enter", "play"}]
    BY InvParts DEF SessionsFit, SessTypes
  <2>5. /\ sess' = [sess EXCEPT ![c].char = NoChar, ![c].map = NoMap]
        /\ phase' = [phase EXCEPT ![c] = "list"]
        /\ jobs' = jobs \cup {Job("list", c, NoChar)}
    BY <1>1, <1>3, <1>7, <2>1 DEF BackToCharSelAck, Phase
  <2>6. /\ \A d \in Conns : d # c => sess'[d] = sess[d] /\ phase'[d] = phase[d]
        /\ phase'[c] = "list"
    BY <2>2, <2>4, <2>5
  <2>7. sess'[c].char = NoChar /\ sess'[c].map = NoMap /\ sess'[c].user = sess[c].user
    BY <2>2, <2>3, <2>4, <2>5 DEF Sessions
  <2>8. Live(c)'
    BY <2>2, <2>6 DEF Inv, TypeOK
  <2>9. WorldFits'
    <3>1. \A n \in Maps : AllFit(up'[n]) /\ (n \notin alive => up'[n] = up[n])
      BY <1>4, <1>5 DEF NamesFit
    <3>2. \A d \in Conns : Live(d)' => sess'[d].map \in known \cup {NoMap}
      BY <1>5, <2>6, <2>7 DEF ServersFit, Live
    <3>3. QED
      BY <3>1, <3>2, AnsweredWorld
  <2>10. Placed(x)'
    <3>1. ASSUME NEW d \in Conns, Live(d), sess[d].char = x PROVE d = c
      <4>1. byChar[x] = d
        BY <3>1 DEF Inv, TablesAgree
      <4>2. QED
        BY <2>1, <4>1
    <3>2. \A d \in Conns, n \in Maps : ~PlaysAs(d, n, x)'
      BY <2>3, <2>6, <2>7, <3>1 DEF PlaysAs, Live
    <3>3. QED
      BY <2>2, <3>2 DEF Placed, Settled, Followed
  <2>11. \A y \in Chars : y # x => SameSession(y)
    BY <2>3, <2>6, <2>7, EntryAssumption DEF SameSession, Live
  <2>12. ASSUME NEW u \in Users PROVE SameKeepers(u)
    <3>1. Logout(u) \in jobs' <=> Logout(u) \in jobs
      BY <2>5, NotLogout DEF Job
    <3>2. \A d \in Conns : Live(d)' /\ sess'[d].user = u <=> Live(d) /\ sess[d].user = u
      BY <2>3, <2>6, <2>7, <2>8 DEF Live
    <3>3. \A n \in Maps, y \in Chars : No(down'[n], Answers, y) <=> No(down[n], Answers, y)
      BY <2>2 DEF SameAt, Alike
    <3>4. QED
      BY <1>4, <3>1, <3>2, <3>3 DEF SameKeepers
  <2>13. QED
    BY <1>4, <2>2, <2>9, <2>10, <2>11, <2>12, PlacesKept
<1>8. QED
  BY <1>6, <1>7

(* The map server has answered the notice: the row goes. *)
LEMMA LoginDeletePlaces ==
  ASSUME Inv, Inv', PlaceInv, NEW m \in Maps, Taken(m), LoginCheckDelete(m, Head(down[m]))
  PROVE  PlaceInv'
<1>1. PICK msg : msg = Head(down[m]) /\ msg.kind = "logincheck_delete"
  BY DEF LoginCheckDelete
<1>2. msg.kind \in CharKinds /\ msg.kind \in Answers
  BY <1>1 DEF CharKinds, PlayKinds, Answers
<1>3. PICK x \in Chars : x = msg.char
  BY <1>1, <1>2, ReplyTaken
<1>4. Took(down'[m], down[m], msg, x) /\ AlikeElse(down', down, m, x) /\ Owner[x] = msg.user
  BY <1>1, <1>2, <1>3, ReplyTaken
<1>5. UNCHANGED <<row, known, alive, world, crashes, up>> /\ UNCHANGED <<sess, byChar, phase>>
  BY DEF LoginCheckDelete, Taken, limits, agent
<1>6. Inv /\ WorldFits /\ NamesFit /\ ServersFit
  BY DEF PlaceInv, WorldFits
<1>7. ~No(down[m], Answers, x)
  BY <1>2, <1>4 DEF Took
<1>8. PICK u \in Users : u = Owner[x]
  BY EntryAssumption
<1>9. /\ \A d \in Conns : ~(Live(d) /\ sess[d].user = u)
      /\ ~Lost(u)
  BY <1>6, <1>7, <1>8, OnlyAnswer
<1>10. jobs' = jobs \cup {Logout(u)}
  BY <1>1, <1>4, <1>8, <1>9 DEF LoginCheckDelete, HasSession
<1>11. \A n \in Maps, y \in Chars : n # m \/ y # x => SameAt(n, y)
  BY <1>4, <1>5, AlikeSame DEF AlikeElse, SameAt, Here
<1>12. WorldFits'
  <2>1. \A n \in Maps : AllFit(up'[n]) /\ (n \notin alive => up'[n] = up[n])
    BY <1>5, <1>6 DEF NamesFit
  <2>2. \A d \in Conns : Live(d)' => sess'[d].map \in known \cup {NoMap}
    BY <1>5, <1>6 DEF ServersFit, Live
  <2>3. QED
    BY <2>1, <2>2, AnsweredWorld
<1>13. \A y \in Chars : SameSession(y)
  BY <1>5 DEF SameSession, Live
<1>14. Placed(x)'
  <2>1. ASSUME NEW n \in Maps PROVE Bare(n, x)'
    <3>1. Bare(n, x) \/ (n = m /\ Answered(n, x))
      BY <1>6, <1>7, BareWithAnswer DEF PlaceInv, Placed
    <3>2. CASE n # m
      BY <1>11, <3>1, <3>2, BareStays
    <3>3. CASE n = m
      <4>1. No(up[m], Requests, x) /\ Here(m, x) = {}
        BY <3>1, <3>3 DEF Bare, Answered
      <4>2. No(down'[m], Replies, x)
        BY <1>2, <1>4, <3>1, <3>3 DEF Bare, Answered, Took
      <4>3. QED
        BY <1>5, <3>3, <4>1, <4>2 DEF Bare, Here
    <3>4. QED
      BY <3>2, <3>3
  <2>2. \A d \in Conns, n \in Maps : ~PlaysAs(d, n, x)'
    BY <1>5, <1>8, <1>9, EntryAssumption DEF PlaysAs, Inv, OwnsChar, Live
  <2>3. QED
    BY <2>1, <2>2 DEF Placed, Settled, Followed
<1>15. ~Lost(u)'
  <2>1. Logout(u) \in jobs'
    BY <1>10
  <2>2. QED
    BY <1>12, <2>1, LostIsNext, NoKeeperNext DEF WorldFits
<1>16. ASSUME NEW v \in Users, v # u PROVE SameKeepers(v)
  <2>1. Logout(v) \in jobs' <=> Logout(v) \in jobs
    BY <1>10, <1>16, LogoutIs
  <2>2. \A n \in Maps, y \in Chars : Owner[y] = v => (No(down'[n], Answers, y) <=> No(down[n], Answers, y))
    BY <1>8, <1>11, <1>16 DEF SameAt, Alike
  <2>3. QED
    BY <1>5, <2>1, <2>2 DEF SameKeepers, Live
<1>17. QED
  BY <1>5, <1>9, <1>11, <1>12, <1>13, <1>14, <1>15, <1>16, PlacesKept

LEMMA ChannelPlaces ==
  ASSUME Inv, Inv', PlaceInv, NEW m \in Maps, Taken(m),
         ChannelInfoAck(Head(down[m])) \/ ChannelInfoNack(Head(down[m]))
  PROVE  PlaceInv'
<1>1. PICK msg : msg = Head(down[m]) /\ msg.kind \in {"channel_ack", "channel_nack"}
  BY DEF ChannelInfoAck, ChannelInfoNack
<1>2. UNCHANGED <<sess, jobs, up>> /\ UNCHANGED <<row, known, alive, world, crashes>>
  BY DEF ChannelInfoAck, ChannelInfoNack, Taken, limits
<1>3. \A d \in Conns : phase'[d] = phase[d] \/ (Live(d) /\ phase[d] = "channel")
  BY DEF ChannelInfoAck, ChannelInfoNack, Inv, TypeOK
<1>4. WorldFits /\ NamesFit /\ ServersFit
  BY DEF PlaceInv, WorldFits
<1>5. \A x \in Chars : SameSession(x)
  <2>1. \A d \in Conns : Live(d) /\ sess[d].char # NoChar => phase'[d] = phase[d]
    BY <1>3, PhaseOf DEF InGame
  <2>2. QED
    BY <1>2, <2>1, EntryAssumption DEF SameSession, Live
<1>6. WorldFits'
  <2>1. \A n \in Maps : AllFit(up'[n]) /\ (n \notin alive => up'[n] = up[n])
    BY <1>2, <1>4 DEF NamesFit
  <2>2. \A d \in Conns : Live(d)' => sess'[d].map \in known \cup {NoMap}
    BY <1>2, <1>4 DEF ServersFit, Live
  <2>3. QED
    BY <2>1, <2>2, AnsweredWorld
<1>7. \A n \in Maps, x \in Chars : Alike(down'[n], down[n], x)
  <2>1. LinkTook(down', down, m, msg)
    BY <1>1, <1>4, DownTakenIs
  <2>2. \A x \in Chars : ~Names(msg, x)
    BY <1>1 DEF Names, CharKinds, PlayKinds, WayKinds
  <2>3. QED
    BY <2>1, <2>2 DEF LinkTook
<1>8. QED
  BY <1>2, <1>5, <1>6, <1>7, AlikeSame, NobodyMoves DEF Live

LEMMA FromMapPlaces ==
  ASSUME Inv, Inv', PlaceInv, NEW m \in Maps, FromMap(m)
  PROVE  PlaceInv'
<1>1. Taken(m)
  BY DEF FromMap, Taken
<1>2. PICK msg : msg = Head(down[m])
  OBVIOUS
<1>3. CASE GameinAck(m, msg)
  BY <1>1, <1>2, <1>3, GameinAckPlaces
<1>4. CASE GameinNack(m, msg)
  BY <1>1, <1>2, <1>4, GameinNackPlaces
<1>5. CASE MapOut(m, msg) \/ NpcMapOut(m, msg) \/ MapOutWithMapNum(m, msg)
  <2>1. msg.kind \in WayKinds /\ LeftFor(msg)
    BY <1>5 DEF MapOut, NpcMapOut, MapOutWithMapNum, WayKinds
  <2>2. QED
    BY <1>1, <1>2, <2>1, LeftForPlaces
<1>6. CASE BackToCharSelAck(m, msg)
  BY <1>1, <1>2, <1>6, BackAckPlaces
<1>7. CASE LoginCheckDelete(m, msg)
  BY <1>1, <1>2, <1>7, LoginDeletePlaces
<1>8. CASE ChannelInfoAck(msg) \/ ChannelInfoNack(msg)
  BY <1>1, <1>2, <1>8, ChannelPlaces
<1>9. QED
  BY <1>2, <1>3, <1>4, <1>5, <1>6, <1>7, <1>8 DEF FromMap

-----------------------------------------------------------------------------
(* The map servers. *)

(* The map servers, after one of them has done something. *)
LEMMA MapActs ==
  ASSUME Inv, PlaceInv, NEW m \in alive, UNCHANGED <<known, alive, crashes>>, sess' = sess, phase' = phase,
         \A n \in Maps : AllFit(up'[n]) /\ (n # m => up'[n] = up[n]),
         \A n \in Maps : AllFit(down'[n]) /\ (n # m => down'[n] = down[n]),
         \A n \in Maps : n # m => world'[n] = world[n],
         \A e \in world'[m] : Owner[e.char] = e.user,
         \A e, f \in world'[m] : e.char = f.char => e = f
  PROVE  WorldFits'
<1>1. WorldFits /\ NamesFit /\ ServersFit /\ EntriesFit /\ m \in known
  BY DEF PlaceInv, WorldFits, ServersFit
<1>2. ServersFit'
  BY <1>1 DEF ServersFit, Live
<1>3. NamesFit'
  BY <1>1 DEF NamesFit
<1>4. EntriesFit'
  BY <1>1 DEF EntriesFit
<1>5. QED
  BY <1>2, <1>3, <1>4 DEF WorldFits

(* m does something about x, and sends no word of clients that are gone.   *)
LEMMA MapMoves ==
  ASSUME Inv, Inv', PlaceInv, WorldFits', NEW m \in alive, NEW x \in Chars,
         UNCHANGED <<sess, phase, row, jobs, alive, crashes>>,
         AlikeElse(up', up, m, x), AlikeElse(down', down, m, x),
         \A n \in Maps, y \in Chars : n # m \/ y # x => Here(n, y)' = Here(n, y),
         No(up'[m], Notices, x) <=> No(up[m], Notices, x),
         No(down'[m], Answers, x) <=> No(down[m], Answers, x),
         \A c \in Conns : PlaysAs(c, m, x) => Stage(c, m, x)',
         Noticed(m, x) => Noticed(m, x)',
         Answered(m, x) => Answered(m, x)' \/ Bare(m, x)' \/ Noticed(m, x),
         Bare(m, x) => Bare(m, x)'
  PROVE  PlaceInv'
<1>1. /\ \A n \in Maps, y \in Chars : n # m \/ y # x => SameAt(n, y)
      /\ m \in Maps
  BY DEF AlikeElse, SameAt, Inv, TypeOK
<1>2. \A y \in Chars : SameSession(y)
  BY DEF SameSession, Live
<1>3. \A n \in Maps, y \in Chars : /\ No(up'[n], Notices, y) <=> No(up[n], Notices, y)
                                   /\ No(down'[n], Answers, y) <=> No(down[n], Answers, y)
  BY <1>1 DEF SameAt, Alike
<1>4. \A u \in Users : SameKeepers(u)
  BY <1>3 DEF SameKeepers, Live
<1>5. Lost(Owner[x]) => Lost(Owner[x])'
  BY <1>4, LostStays, EntryAssumption DEF PlaceInv, WorldFits
<1>6. ASSUME NEW c \in Conns, NEW n \in Maps, PlaysAs(c, n, x)' PROVE Stage(c, n, x)'
  <2>1. PlaysAs(c, n, x)
    BY <1>6 DEF PlaysAs, Live
  <2>2. CASE n = m
    BY <2>1, <2>2
  <2>3. CASE n # m
    <3>1. Stage(c, n, x) /\ SameAt(n, x)
      BY <1>1, <2>1, <2>3 DEF PlaceInv, Placed, Settled
    <3>2. QED
      BY <3>1, StageStays
  <2>4. QED
    BY <2>2, <2>3
<1>7. ASSUME NEW n \in Maps PROVE Bare(n, x)' \/ Follows(n, x)'
  <2>1. Bare(n, x) \/ Follows(n, x)
    BY DEF PlaceInv, Placed, Followed
  <2>2. CASE n = m
    <3>1. ASSUME Follows(m, x) PROVE Bare(m, x)' \/ Follows(m, x)'
      <4>1. CASE \E c \in Conns : PlaysAs(c, m, x)
        BY <4>1 DEF Follows, PlaysAs, Live
      <4>2. CASE Noticed(m, x) \/ Answered(m, x)
        BY <4>2 DEF Follows
      <4>3. QED
        BY <3>1, <4>1, <4>2 DEF Follows
    <3>2. QED
      BY <2>1, <2>2, <3>1
  <2>3. CASE n # m
    BY <1>1, <1>2, <1>5, <2>1, <2>3, BareStays, FollowsStays
  <2>4. QED
    BY <2>2, <2>3
<1>8. Placed(x)'
  BY <1>6, <1>7 DEF Placed, Settled, Followed
<1>9. QED
  BY <1>1, <1>2, <1>4, <1>8, PlacesKept

(* The entries of x at m are replaced. *)
Replaced(m, x, new) ==
  /\ world' = [world EXCEPT ![m] = Without(m, x) \cup new]
  /\ \A e \in new : e.char = x /\ e.user = Owner[x]
  /\ \A e, f \in new : e = f

LEMMA EntriesOf ==
  ASSUME Inv, PlaceInv, NEW m \in Maps, NEW x \in Chars, NEW new, Replaced(m, x, new)
  PROVE  /\ Here(m, x)' = new
         /\ \A n \in Maps, y \in Chars : n # m \/ y # x => Here(n, y)' = Here(n, y)
         /\ \A n \in Maps : n # m => world'[n] = world[n]
         /\ \A e \in world'[m] : Owner[e.char] = e.user
         /\ \A e, f \in world'[m] : e.char = f.char => e = f
<1>1. world \in [Maps -> SUBSET Entries] /\ NamesFit /\ EntriesFit
  BY LinkTypes DEF PlaceInv, WorldFits
<1>2. world'[m] = Without(m, x) \cup new /\ \A n \in Maps : n # m => world'[n] = world[n]
  BY <1>1 DEF Replaced
<1>3. \A e \in Without(m, x) : e \in world[m] /\ e.char # x
  BY DEF Without
<1>4. Here(m, x)' = new
  BY <1>2, <1>3 DEF Here, Replaced
<1>5. ASSUME NEW n \in Maps, NEW y \in Chars, n # m \/ y # x PROVE Here(n, y)' = Here(n, y)
  BY <1>2, <1>5 DEF Here, Without, Replaced
<1>6. \A e \in world'[m] : Owner[e.char] = e.user
  BY <1>1, <1>2, <1>3 DEF NamesFit, Replaced
<1>7. \A e, f \in world'[m] : e.char = f.char => e = f
  BY <1>1, <1>2, <1>3 DEF EntriesFit, Replaced
<1>8. QED
  BY <1>2, <1>4, <1>5, <1>6, <1>7

LEMMA EntriesGone ==
  ASSUME Inv, PlaceInv, NEW m \in Maps, NEW x \in Chars, world' = [world EXCEPT ![m] = Without(m, x)]
  PROVE  /\ Here(m, x)' = {}
         /\ \A n \in Maps, y \in Chars : n # m \/ y # x => Here(n, y)' = Here(n, y)
         /\ \A n \in Maps : n # m => world'[n] = world[n]
         /\ \A e \in world'[m] : Owner[e.char] = e.user
         /\ \A e, f \in world'[m] : e.char = f.char => e = f
<1>1. PICK none : none = {}
  OBVIOUS
<1>2. Replaced(m, x, none)
  BY <1>1 DEF Replaced
<1>3. /\ Here(m, x)' = none
      /\ \A n \in Maps, y \in Chars : n # m \/ y # x => Here(n, y)' = Here(n, y)
      /\ \A n \in Maps : n # m => world'[n] = world[n]
      /\ \A e \in world'[m] : Owner[e.char] = e.user
      /\ \A e, f \in world'[m] : e.char = f.char => e = f
  BY <1>2, EntriesOf
<1>4. QED
  BY <1>1, <1>3

(* A map server takes a message about a character. *)
LEMMA RequestTaken ==
  ASSUME Inv, PlaceInv, NEW m \in Maps, up[m] # <<>>, up' = [up EXCEPT ![m] = Tail(@)],
         NEW msg, msg = Head(up[m]), msg.kind \in CharKinds
  PROVE  /\ msg \in Messages /\ msg.char \in Chars /\ msg.key \in 1..keys /\ msg.user = Owner[msg.char]
         /\ Took(up'[m], up[m], msg, msg.char) /\ AlikeElse(up', up, m, msg.char)
         /\ \A n \in Maps : AllFit(up'[n]) /\ (n # m => up'[n] = up[n])
<1>1. NamesFit /\ up \in [Maps -> Seq(Messages)]
  BY LinkTypes DEF PlaceInv, WorldFits
<1>2. /\ msg \in Messages /\ NameFits(msg) /\ LinkTook(up', up, m, msg)
      /\ \A n \in Maps : AllFit(up'[n])
  BY <1>1, UpTakenIs
<1>3. msg.char \in Chars /\ msg.key \in 1..keys
  BY <1>2, MessageIs DEF CharKinds
<1>4. Names(msg, msg.char) /\ NamesOnly(msg, msg.char)
  BY OneChar DEF Names
<1>5. Took(up'[m], up[m], msg, msg.char)
  BY <1>2, <1>3, <1>4 DEF LinkTook
<1>6. AlikeElse(up', up, m, msg.char)
  BY <1>2, <1>4, Elsewhere
<1>7. QED
  BY <1>1, <1>2, <1>3, <1>5, <1>6 DEF NameFits

(* It says something about it. *)
LEMMA ReplyPut ==
  ASSUME Inv, PlaceInv, NEW m \in Maps, NEW msg \in Messages, msg.kind \in CharKinds, NEW x \in Chars, msg.char = x,
         msg.user = Owner[x], down' = [down EXCEPT ![m] = Append(@, msg)]
  PROVE  /\ Put(down'[m], down[m], msg, x) /\ AlikeElse(down', down, m, x)
         /\ \A n \in Maps : AllFit(down'[n]) /\ (n # m => down'[n] = down[n])
<1>1. NamesFit /\ NameFits(msg)
  BY DEF PlaceInv, WorldFits, NameFits
<1>2. /\ LinkPut(down', down, m, msg)
      /\ \A n \in Maps : AllFit(down'[n]) /\ (n # m => down'[n] = down[n])
  BY <1>1, DownPutIs
<1>3. Names(msg, x) /\ NamesOnly(msg, x)
  BY OneChar DEF Names
<1>4. Put(down'[m], down[m], msg, x)
  BY <1>2, <1>3 DEF LinkPut
<1>5. AlikeElse(down', down, m, x)
  BY <1>2, <1>3, Elsewhere
<1>6. QED
  BY <1>2, <1>4, <1>5

(* It says nothing. *)
LEMMA NothingPut ==
  ASSUME Inv, PlaceInv, down' = down
  PROVE  /\ \A m \in Maps, x \in Chars : AlikeElse(down', down, m, x) /\ Alike(down'[m], down[m], x)
         /\ \A n \in Maps : AllFit(down'[n])
BY AlikeSame DEF PlaceInv, WorldFits, NamesFit, AlikeElse

(* A player comes to be loaded. *)
LEMMA GameinServed ==
  ASSUME Inv, Inv', PlaceInv, NEW m \in Maps, m \in alive, up[m] # <<>>, up' = [up EXCEPT ![m] = Tail(@)],
         NEW msg, msg = Head(up[m]), msg.kind = "gamein",
         world' = [world EXCEPT ![m] = Without(m, msg.char) \cup {Entry(msg, FALSE)}],
         UNCHANGED <<sess, phase, row, jobs, down, known, alive, crashes>>
  PROVE  PlaceInv'
<1>1. msg.kind \in CharKinds /\ msg.kind \in Requests /\ msg.kind \in Entering /\ msg.kind \notin Notices
  BY KindsApart DEF CharKinds, PlayKinds
<1>2. PICK x \in Chars : x = msg.char
  BY <1>1, RequestTaken
<1>3. /\ msg.user = Owner[x] /\ Took(up'[m], up[m], msg, x) /\ AlikeElse(up', up, m, x)
      /\ \A n \in Maps : AllFit(up'[n]) /\ (n # m => up'[n] = up[n])
  BY <1>1, <1>2, RequestTaken
<1>4. PICK e : e = Entry(msg, FALSE)
  OBVIOUS
<1>5. e.char = x /\ e.user = Owner[x] /\ e.key = msg.key /\ e.in = FALSE
  BY <1>2, <1>3, <1>4 DEF Entry
<1>6. /\ Here(m, x)' = {e}
      /\ \A n \in Maps, y \in Chars : n # m \/ y # x => Here(n, y)' = Here(n, y)
      /\ \A n \in Maps : n # m => world'[n] = world[n]
      /\ \A f \in world'[m] : Owner[f.char] = f.user
      /\ \A f, g \in world'[m] : f.char = g.char => f = g
  <2>0. PICK new : new = {e}
    OBVIOUS
  <2>1. Replaced(m, x, new)
    BY <1>2, <1>4, <1>5, <2>0 DEF Replaced
  <2>2. /\ Here(m, x)' = new
        /\ \A n \in Maps, y \in Chars : n # m \/ y # x => Here(n, y)' = Here(n, y)
        /\ \A n \in Maps : n # m => world'[n] = world[n]
        /\ \A f \in world'[m] : Owner[f.char] = f.user
        /\ \A f, g \in world'[m] : f.char = g.char => f = g
    BY <2>1, EntriesOf
  <2>3. QED
    BY <2>0, <2>2
<1>7. /\ AlikeElse(down', down, m, x) /\ Alike(down'[m], down[m], x)
      /\ \A n \in Maps : AllFit(down'[n]) /\ (n # m => down'[n] = down[n])
  BY NothingPut
<1>8. WorldFits'
  BY <1>3, <1>6, <1>7, MapActs
<1>9. ~No(up[m], Requests, x)
  BY <1>1, <1>3 DEF Took
<1>10. ASSUME NEW c \in Conns, PlaysAs(c, m, x) PROVE Stage(c, m, x)'
  <2>0. \A J, key : Only(up[m], Requests, J, x, key) => No(up'[m], Requests, x) /\ msg.kind \in J /\ msg.key = key
    BY <1>1, <1>3 DEF Took
  <2>1. Stage(c, m, x)
    BY <1>10 DEF PlaceInv, Placed, Settled
  <2>2. Asked(c, m, x) /\ phase[c] = "load"
    <3>1. ~Leaving(c, m, x)
      BY <1>1, <2>0, KindsApart DEF Leaving
    <3>2. QED
      BY <1>9, <2>1, <3>1 DEF Stage, Bare, Loading, Loaded, Refused, Playing, HasLeft
  <2>3. No(up'[m], Requests, x) /\ msg.key = sess[c].key
    BY <2>0, <2>2 DEF Asked
  <2>4. No(up'[m], Sweeps, x)
    BY <1>1, <1>3, <2>2 DEF Asked, Took
  <2>5. e \in world'[m]
    BY <1>6 DEF Here
  <2>6. Has(c, m, x, FALSE)'
    BY <1>5, <1>6, <2>3, <2>4, <2>5 DEF Has
  <2>7. No(down'[m], Replies, x)
    BY <2>2 DEF Asked
  <2>8. QED
    BY <2>2, <2>3, <2>6, <2>7 DEF Stage, Loading
<1>11. Noticed(m, x) => Noticed(m, x)'
  BY <1>1, <1>3 DEF Noticed, Took
<1>12. ~Answered(m, x) /\ ~Bare(m, x)
  BY <1>9 DEF Answered, Bare
<1>13. /\ No(up'[m], Notices, x) <=> No(up[m], Notices, x)
       /\ No(down'[m], Answers, x) <=> No(down[m], Answers, x)
  BY <1>1, <1>3, <1>7 DEF Took, Alike
<1>14. QED
  BY <1>3, <1>6, <1>7, <1>8, <1>10, <1>11, <1>12, <1>13, MapMoves

(* A player goes, if it is there. *)
LEMMA LeaveServed ==
  ASSUME Inv, Inv', PlaceInv, NEW m \in Maps, m \in alive, up[m] # <<>>, up' = [up EXCEPT ![m] = Tail(@)],
         NEW msg, msg = Head(up[m]), msg.kind \in AskKinds,
         IF \E e \in world[m] : e.char = msg.char /\ e.in
         THEN /\ world' = [world EXCEPT ![m] = Without(m, msg.char)]
              /\ down' = [down EXCEPT ![m] = Append(@, msg)]
         ELSE UNCHANGED <<world, down>>,
         UNCHANGED <<sess, phase, row, jobs, known, alive, crashes>>
  PROVE  PlaceInv'
<1>1. /\ msg.kind \in Requests /\ msg.kind \in Replies
      /\ msg.kind \notin Notices /\ msg.kind \notin Answers /\ msg.kind \notin Entering
  BY KindsApart
<1>0. msg.kind \in CharKinds
  BY DEF AskKinds, CharKinds, PlayKinds
<1>2. PICK x \in Chars : x = msg.char
  BY <1>0, RequestTaken
<1>3. /\ msg \in Messages /\ msg.user = Owner[x] /\ Took(up'[m], up[m], msg, x) /\ AlikeElse(up', up, m, x)
      /\ \A n \in Maps : AllFit(up'[n]) /\ (n # m => up'[n] = up[n])
  BY <1>0, <1>2, RequestTaken
<1>4. PICK in \in BOOLEAN : in <=> \E e \in world[m] : e.char = x /\ e.in
  OBVIOUS
<1>5. /\ in => world' = [world EXCEPT ![m] = Without(m, x)] /\ down' = [down EXCEPT ![m] = Append(@, msg)]
      /\ ~in => UNCHANGED <<world, down>>
  BY <1>2, <1>4
<1>6. /\ in => Here(m, x)' = {}
      /\ \A n \in Maps, y \in Chars : n # m \/ y # x => Here(n, y)' = Here(n, y)
      /\ \A n \in Maps : n # m => world'[n] = world[n]
      /\ \A f \in world'[m] : Owner[f.char] = f.user
      /\ \A f, g \in world'[m] : f.char = g.char => f = g
  <2>1. CASE in
    BY <1>5, <2>1, EntriesGone
  <2>2. CASE ~in
    BY <1>5, <2>2 DEF PlaceInv, WorldFits, NamesFit, EntriesFit, Here
  <2>3. QED
    BY <2>1, <2>2
<1>7. /\ AlikeElse(down', down, m, x)
      /\ in => Put(down'[m], down[m], msg, x)
      /\ ~in => Alike(down'[m], down[m], x)
      /\ \A n \in Maps : AllFit(down'[n]) /\ (n # m => down'[n] = down[n])
  <2>1. CASE in
    BY <1>0, <1>2, <1>3, <1>5, <2>1, ReplyPut
  <2>2. CASE ~in
    BY <1>5, <2>2, NothingPut
  <2>3. QED
    BY <2>1, <2>2
<1>8. WorldFits'
  BY <1>3, <1>6, <1>7, MapActs
<1>9. ~No(up[m], Requests, x)
  BY <1>1, <1>3 DEF Took
<1>10. ASSUME NEW c \in Conns, PlaysAs(c, m, x) PROVE Stage(c, m, x)'
  <2>0. \A J, key : Only(up[m], Requests, J, x, key) => No(up'[m], Requests, x) /\ msg.kind \in J /\ msg.key = key
    BY <1>1, <1>3 DEF Took
  <2>1. Stage(c, m, x)
    BY <1>10 DEF PlaceInv, Placed, Settled
  <2>2. Leaving(c, m, x) /\ phase[c] \in {"leave", "back"}
    <3>1. ~Asked(c, m, x)
      BY <1>1, <2>0 DEF Asked
    <3>2. QED
      BY <1>9, <2>1, <3>1 DEF Stage, Bare, Loading, Loaded, Refused, Playing, HasLeft
  <2>3. No(up'[m], Requests, x) /\ msg.key = sess[c].key
    BY <2>0, <2>2 DEF Leaving
  <2>4. in
    <3>1. PICK e \in world[m] : Here(m, x) = {e} /\ e.in = TRUE
      BY <2>2 DEF Leaving, Has
    <3>2. e.char = x
      BY <3>1 DEF Here
    <3>3. QED
      BY <1>4, <3>1, <3>2
  <2>5. No(down[m], Replies, x)
    BY <2>2 DEF Leaving
  <2>6. Only(down'[m], Replies, AskKinds, x, msg.key)
    BY <1>1, <1>7, <2>4, <2>5 DEF Put
  <2>7. Here(m, x)' = {}
    BY <1>6, <2>4
  <2>8. QED
    BY <2>2, <2>3, <2>6, <2>7 DEF Stage, HasLeft
<1>11. Noticed(m, x) => Noticed(m, x)'
  BY <1>1, <1>3 DEF Noticed, Took
<1>12. ~Answered(m, x) /\ ~Bare(m, x)
  BY <1>9 DEF Answered, Bare
<1>13. /\ No(up'[m], Notices, x) <=> No(up[m], Notices, x)
       /\ No(down'[m], Answers, x) <=> No(down[m], Answers, x)
  BY <1>1, <1>3, <1>7 DEF Took, Alike, Put
<1>14. QED
  BY <1>3, <1>6, <1>7, <1>8, <1>10, <1>11, <1>12, <1>13, MapMoves

(* What is left of a player is dropped. *)
LEMMA SweepServed ==
  ASSUME Inv, Inv', PlaceInv, NEW m \in Maps, m \in alive, up[m] # <<>>, up' = [up EXCEPT ![m] = Tail(@)],
         NEW msg, msg = Head(up[m]), msg.kind \in Sweeps,
         world' = [world EXCEPT ![m] = Without(m, msg.char)],
         UNCHANGED <<sess, phase, row, jobs, down, known, alive, crashes>>
  PROVE  PlaceInv'
<1>0. msg.kind \in CharKinds
  BY DEF Sweeps, CharKinds, PlayKinds
<1>1. msg.kind \notin Requests /\ msg.kind \notin Notices /\ msg.kind \notin Entering
  <2>1. msg.kind = "gamein_nack" \/ msg.kind = "othermap"
    BY DEF Sweeps
  <2>2. QED
    BY <2>1, KindsApart
<1>2. PICK x \in Chars : x = msg.char
  BY <1>0, RequestTaken
<1>3. /\ Took(up'[m], up[m], msg, x) /\ AlikeElse(up', up, m, x)
      /\ \A n \in Maps : AllFit(up'[n]) /\ (n # m => up'[n] = up[n])
  BY <1>0, <1>2, RequestTaken
<1>4. /\ Here(m, x)' = {}
      /\ \A n \in Maps, y \in Chars : n # m \/ y # x => Here(n, y)' = Here(n, y)
      /\ \A n \in Maps : n # m => world'[n] = world[n]
      /\ \A f \in world'[m] : Owner[f.char] = f.user
      /\ \A f, g \in world'[m] : f.char = g.char => f = g
  BY <1>2, EntriesGone
<1>5. /\ AlikeElse(down', down, m, x) /\ Alike(down'[m], down[m], x)
      /\ \A n \in Maps : AllFit(down'[n]) /\ (n # m => down'[n] = down[n])
  BY NothingPut
<1>6. WorldFits'
  BY <1>3, <1>4, <1>5, MapActs
<1>7. ~No(up[m], Sweeps, x)
  BY <1>3 DEF Took
<1>8. /\ No(up'[m], Requests, x) <=> No(up[m], Requests, x)
      /\ No(up'[m], Notices, x) <=> No(up[m], Notices, x)
      /\ \A J, key : Only(up[m], Requests, J, x, key) => Only(up'[m], Requests, J, x, key)
      /\ \A K, L : Before(up[m], K, L, x) => Before(up'[m], K, L, x)
  BY <1>1, <1>3 DEF Took
<1>9. ASSUME NEW c \in Conns, PlaysAs(c, m, x) PROVE Stage(c, m, x)'
  <2>1. Stage(c, m, x)
    BY <1>9 DEF PlaceInv, Placed, Settled
  <2>2. ~Loading(c, m, x) /\ ~Loaded(c, m, x) /\ ~Playing(c, m, x) /\ ~Leaving(c, m, x)
    BY <1>7 DEF Loading, Loaded, Playing, Leaving, Plays, Has
  <2>3. Bare(m, x) => Bare(m, x)'
    BY <1>4, <1>8 DEF Bare
  <2>4. Asked(c, m, x) => Asked(c, m, x)'
    BY <1>4, <1>8 DEF Asked
  <2>5. Refused(c, m, x) => Refused(c, m, x)'
    BY <1>4, <1>8 DEF Refused
  <2>6. HasLeft(c, m, x) => HasLeft(c, m, x)'
    BY <1>4, <1>8 DEF HasLeft
  <2>7. QED
    BY <2>1, <2>2, <2>3, <2>4, <2>5, <2>6 DEF Stage
<1>10. Noticed(m, x) => Noticed(m, x)'
  BY <1>8 DEF Noticed
<1>11. Answered(m, x) => Answered(m, x)'
  BY <1>4, <1>8 DEF Answered
<1>12. Bare(m, x) => Bare(m, x)'
  BY <1>4, <1>8 DEF Bare
<1>13. No(down'[m], Answers, x) <=> No(down[m], Answers, x)
  OBVIOUS
<1>14. QED
  BY <1>3, <1>4, <1>5, <1>6, <1>8, <1>9, <1>10, <1>11, <1>12, <1>13, MapMoves

(* A player's client is gone. *)
LEMMA NoticeServed ==
  ASSUME Inv, Inv', PlaceInv, NEW m \in Maps, m \in alive, up[m] # <<>>, up' = [up EXCEPT ![m] = Tail(@)],
         NEW msg, msg = Head(up[m]), msg.kind = "disconnected",
         world' = [world EXCEPT ![m] = Without(m, msg.char)],
         NEW back, back = [msg EXCEPT !.kind = "logincheck_delete"],
         down' = [down EXCEPT ![m] = Append(@, back)],
         UNCHANGED <<sess, phase, row, jobs, known, alive, crashes>>
  PROVE  PlaceInv'
<1>1. msg.kind \in CharKinds /\ msg.kind \in PlayKinds /\ msg.kind \in Notices /\ msg.kind \notin Requests
  BY KindsApart DEF CharKinds, PlayKinds
<1>2. PICK x \in Chars : x = msg.char
  BY <1>1, RequestTaken
<1>3. /\ msg \in Messages /\ msg.user = Owner[x] /\ Took(up'[m], up[m], msg, x) /\ AlikeElse(up', up, m, x)
      /\ \A n \in Maps : AllFit(up'[n]) /\ (n # m => up'[n] = up[n])
  BY <1>1, <1>2, RequestTaken
<1>4. /\ Here(m, x)' = {}
      /\ \A n \in Maps, y \in Chars : n # m \/ y # x => Here(n, y)' = Here(n, y)
      /\ \A n \in Maps : n # m => world'[n] = world[n]
      /\ \A f \in world'[m] : Owner[f.char] = f.user
      /\ \A f, g \in world'[m] : f.char = g.char => f = g
  BY <1>2, EntriesGone
<1>5. back \in Messages /\ back.kind = "logincheck_delete" /\ back.user = Owner[x]
  BY <1>1, <1>3, MessageIs DEF PlayKinds
<1>6. back.char = x
  BY <1>2
<1>7. back.kind \in CharKinds /\ back.kind \in Answers /\ back.kind \notin Replies
  BY <1>5, KindsApart DEF CharKinds, PlayKinds
<1>8. /\ Put(down'[m], down[m], back, x) /\ AlikeElse(down', down, m, x)
      /\ \A n \in Maps : AllFit(down'[n]) /\ (n # m => down'[n] = down[n])
  BY <1>5, <1>6, <1>7, ReplyPut
<1>9. WorldFits'
  BY <1>3, <1>4, <1>8, MapActs
<1>10. NamesFit /\ NamesFit'
  BY <1>9 DEF PlaceInv, WorldFits
<1>11. ~No(up[m], Notices, x)
  BY <1>1, <1>3 DEF Took
<1>12. PICK u \in Users : u = Owner[x]
  BY EntryAssumption
<1>13. /\ \A c \in Conns : ~(Live(c) /\ sess[c].user = u)
       /\ ~Lost(u) /\ No(down[m], Answers, x)
  BY <1>10, <1>11, <1>12, OnlyNotice
<1>14. \A n \in Maps, y \in Chars : n # m \/ y # x => SameAt(n, y)
  BY <1>3, <1>4, <1>8 DEF AlikeElse, SameAt
<1>15. ~No(down'[m], Answers, x) /\ Before(down'[m], Replies, Answers, x)
  BY <1>7, <1>8, <1>13 DEF Put
<1>16. Answered(m, x)'
  <2>1. Bare(m, x) \/ Noticed(m, x)
    BY <1>10, <1>11, BareWithNotice DEF PlaceInv, Placed
  <2>2. No(up'[m], Requests, x)
    BY <1>1, <1>3, <2>1 DEF Bare, Noticed, Took
  <2>3. QED
    BY <1>4, <1>15, <2>2 DEF Answered
<1>17. Placed(x)'
  <2>1. \A c \in Conns, n \in Maps : ~PlaysAs(c, n, x)'
    BY <1>12, <1>13, EntryAssumption DEF PlaysAs, Inv, OwnsChar, Live
  <2>2. ASSUME NEW n \in Maps, n # m PROVE Bare(n, x)'
    <3>1. Bare(n, x)
      BY <1>10, <1>11, <2>2, BareWithNotice DEF PlaceInv, Placed
    <3>2. QED
      BY <1>14, <2>2, <3>1, BareStays
  <2>3. QED
    BY <1>16, <2>1, <2>2 DEF Placed, Settled, Followed, Follows
<1>18. ~Lost(u)'
  BY <1>10, <1>12, <1>15, LostIsNext, NoKeeperNext
<1>19. ASSUME NEW v \in Users, v # u PROVE SameKeepers(v)
  <2>1. \A n \in Maps, y \in Chars : Owner[y] = v => /\ No(up'[n], Notices, y) <=> No(up[n], Notices, y)
                                                     /\ No(down'[n], Answers, y) <=> No(down[n], Answers, y)
    BY <1>12, <1>14, <1>19 DEF SameAt, Alike
  <2>2. QED
    BY <2>1 DEF SameKeepers, Live
<1>20. \A y \in Chars : SameSession(y)
  BY DEF SameSession, Live
<1>21. QED
  BY <1>9, <1>13, <1>14, <1>17, <1>18, <1>19, <1>20, PlacesKept

(* The channels are asked for. *)
LEMMA ChannelServed ==
  ASSUME Inv, Inv', PlaceInv, NEW m \in Maps, m \in alive, up[m] # <<>>, up' = [up EXCEPT ![m] = Tail(@)],
         NEW msg, msg = Head(up[m]), msg.kind = "channel",
         NEW kind \in {"channel_ack", "channel_nack"}, NEW back, back = [msg EXCEPT !.kind = kind],
         down' = [down EXCEPT ![m] = Append(@, back)],
         UNCHANGED <<sess, phase, row, jobs, known, alive, crashes, world>>
  PROVE  PlaceInv'
<1>1. NamesFit /\ WorldFits /\ up \in [Maps -> Seq(Messages)]
  BY LinkTypes DEF PlaceInv, WorldFits
<1>2. msg \in Messages /\ LinkTook(up', up, m, msg) /\ \A n \in Maps : AllFit(up'[n])
  BY <1>1, UpTakenIs
<1>3. back \in Messages /\ back.kind = kind
  BY <1>2 DEF Messages, PlayKinds, WayKinds
<1>4. kind \notin CharKinds /\ msg.kind \notin CharKinds
  BY DEF CharKinds, PlayKinds, WayKinds
<1>5. /\ LinkPut(down', down, m, back)
      /\ \A n \in Maps : AllFit(down'[n]) /\ (n # m => down'[n] = down[n])
  BY <1>1, <1>3, <1>4, DownPutIs DEF NameFits
<1>6. \A n \in Maps, x \in Chars : Alike(up'[n], up[n], x) /\ Alike(down'[n], down[n], x)
  BY <1>2, <1>3, <1>4, <1>5 DEF LinkTook, LinkPut, Names
<1>7. WorldFits'
  <2>1. \A n \in Maps : AllFit(up'[n]) /\ (n # m => up'[n] = up[n])
    BY <1>1, <1>2
  <2>2. \A e \in world'[m] : Owner[e.char] = e.user
    BY <1>1 DEF NamesFit
  <2>3. \A e, f \in world'[m] : e.char = f.char => e = f
    BY <1>1 DEF EntriesFit, WorldFits
  <2>4. QED
    BY <1>5, <2>1, <2>2, <2>3, MapActs
<1>8. QED
  BY <1>6, <1>7, NobodyMoves DEF SameSession, Live

LEMMA ServesPlaces ==
  ASSUME Inv, Inv', PlaceInv, NEW m \in Maps, MapServes(m)
  PROVE  PlaceInv'
<1>1. /\ m \in alive /\ up[m] # <<>> /\ up' = [up EXCEPT ![m] = Tail(@)]
      /\ UNCHANGED <<sess, phase, row, jobs, known, alive, crashes>>
  BY DEF MapServes, agent, limits
<1>2. PICK msg : msg = Head(up[m])
  OBVIOUS
<1>3. PICK here \in BOOLEAN : here <=> \E e \in world[m] : e.char = msg.char /\ e.in
  OBVIOUS
<1>4. \/ /\ msg.kind = "channel"
         /\ \E kind \in {"channel_ack", "channel_nack"} :
              down' = [down EXCEPT ![m] = Append(@, [msg EXCEPT !.kind = kind])]
         /\ UNCHANGED world
      \/ /\ msg.kind = "gamein"
         /\ world' = [world EXCEPT ![m] = Without(m, msg.char) \cup {Entry(msg, FALSE)}]
         /\ UNCHANGED down
      \/ /\ msg.kind \in Ways \cup {"back"}
         /\ IF here THEN /\ world' = [world EXCEPT ![m] = Without(m, msg.char)]
                         /\ down' = [down EXCEPT ![m] = Append(@, msg)]
                    ELSE UNCHANGED <<world, down>>
      \/ /\ msg.kind \in {"gamein_nack", "othermap"}
         /\ world' = [world EXCEPT ![m] = Without(m, msg.char)]
         /\ UNCHANGED down
      \/ /\ msg.kind = "disconnected"
         /\ world' = [world EXCEPT ![m] = Without(m, msg.char)]
         /\ down' = [down EXCEPT ![m] = Append(@, [msg EXCEPT !.kind = "logincheck_delete"])]
  BY <1>2, <1>3 DEF MapServes
<1>5. CASE msg.kind = "channel"
  <2>1. PICK kind \in {"channel_ack", "channel_nack"} :
          down' = [down EXCEPT ![m] = Append(@, [msg EXCEPT !.kind = kind])]
    BY <1>4, <1>5, EntryAssumption
  <2>2. UNCHANGED world
    BY <1>4, <1>5, EntryAssumption
  <2>3. PICK back : back = [msg EXCEPT !.kind = kind]
    OBVIOUS
  <2>4. QED
    BY <1>1, <1>2, <1>5, <2>1, <2>2, <2>3, ChannelServed
<1>6. CASE msg.kind = "gamein"
  <2>1. /\ world' = [world EXCEPT ![m] = Without(m, msg.char) \cup {Entry(msg, FALSE)}]
        /\ UNCHANGED down
    BY <1>4, <1>6, EntryAssumption
  <2>2. QED
    BY <1>1, <1>2, <1>6, <2>1, GameinServed
<1>7. CASE msg.kind \in Ways \cup {"back"}
  <2>1. msg.kind \in AskKinds
    BY <1>7, EntryAssumption DEF AskKinds, WayKinds
  <2>2. IF here THEN /\ world' = [world EXCEPT ![m] = Without(m, msg.char)]
                     /\ down' = [down EXCEPT ![m] = Append(@, msg)]
                ELSE UNCHANGED <<world, down>>
    BY <1>4, <1>7, EntryAssumption
  <2>3. QED
    BY <1>1, <1>2, <1>3, <2>1, <2>2, LeaveServed
<1>8. CASE msg.kind \in {"gamein_nack", "othermap"}
  <2>1. world' = [world EXCEPT ![m] = Without(m, msg.char)] /\ UNCHANGED down
    BY <1>4, <1>8, EntryAssumption
  <2>2. msg.kind \in Sweeps
    BY <1>8 DEF Sweeps
  <2>3. QED
    BY <1>1, <1>2, <2>1, <2>2, SweepServed
<1>9. CASE msg.kind = "disconnected"
  <2>1. PICK back : back = [msg EXCEPT !.kind = "logincheck_delete"]
    OBVIOUS
  <2>2. world' = [world EXCEPT ![m] = Without(m, msg.char)] /\ down' = [down EXCEPT ![m] = Append(@, back)]
    BY <1>4, <1>9, <2>1, EntryAssumption
  <2>3. QED
    BY <1>1, <1>2, <1>9, <2>1, <2>2, NoticeServed
<1>10. QED
  BY <1>4, <1>5, <1>6, <1>7, <1>8, <1>9

(* A player has been read, or could not be. *)
LEMMA LoadsPlaces ==
  ASSUME Inv, Inv', PlaceInv, NEW m \in Maps, MapLoads(m)
  PROVE  PlaceInv'
<1>1. /\ m \in alive
      /\ UNCHANGED <<sess, phase, row, jobs, up, known, alive, crashes>>
  BY DEF MapLoads, agent, limits, base
<1>2. PICK e \in world[m], ok \in BOOLEAN :
        /\ ~e.in
        /\ world' = [world EXCEPT ![m] = (@ \ {e}) \cup IF ok THEN {[e EXCEPT !.in = TRUE]} ELSE {}]
        /\ down' = [down EXCEPT ![m] = Append(@, [kind |-> IF ok THEN "gamein_ack" ELSE "gamein_nack",
                      char |-> e.char, key |-> e.key, user |-> e.user, map |-> NoMap])]
  BY DEF MapLoads
<1>3. PICK msg : msg = [kind |-> IF ok THEN "gamein_ack" ELSE "gamein_nack",
                        char |-> e.char, key |-> e.key, user |-> e.user, map |-> NoMap]
  OBVIOUS
<1>4. PICK new : new = IF ok THEN {[e EXCEPT !.in = TRUE]} ELSE {}
  OBVIOUS
<1>5. /\ world' = [world EXCEPT ![m] = (@ \ {e}) \cup new]
      /\ down' = [down EXCEPT ![m] = Append(@, msg)]
  BY <1>2, <1>3, <1>4
<1>6. NamesFit /\ EntriesFit /\ world \in [Maps -> SUBSET Entries]
  BY LinkTypes DEF PlaceInv, WorldFits
<1>7. e \in Entries /\ Owner[e.char] = e.user
  BY <1>6 DEF NamesFit
<1>8. PICK x \in Chars : x = e.char
  BY <1>7 DEF Entries
<1>9. Here(m, x) = {e} /\ world[m] \ {e} = Without(m, x)
  BY <1>6, <1>8 DEF Here, Without, EntriesFit
<1>10. \A f \in new : f.char = x /\ f.user = Owner[x] /\ f.in = TRUE /\ f.key = e.key
  BY <1>4, <1>7, <1>8 DEF Entries
<1>11. \A f, g \in new : f = g
  BY <1>4
<1>12. world' = [world EXCEPT ![m] = Without(m, x) \cup new]
  BY <1>5, <1>6, <1>9
<1>13. /\ Here(m, x)' = new
       /\ \A n \in Maps, y \in Chars : n # m \/ y # x => Here(n, y)' = Here(n, y)
       /\ \A n \in Maps : n # m => world'[n] = world[n]
       /\ \A f \in world'[m] : Owner[f.char] = f.user
       /\ \A f, g \in world'[m] : f.char = g.char => f = g
  <2>1. Replaced(m, x, new)
    BY <1>10, <1>11, <1>12 DEF Replaced
  <2>2. QED
    BY <2>1, EntriesOf
<1>14. /\ msg.char = x /\ msg.user = Owner[x] /\ msg.key = e.key
       /\ ok => msg.kind = "gamein_ack"
       /\ ~ok => msg.kind = "gamein_nack"
  BY <1>3, <1>7, <1>8
<1>15. msg \in Messages
  BY <1>3, <1>7 DEF Messages, PlayKinds, Entries
<1>16. /\ msg.kind \in CharKinds /\ msg.kind \in Replies /\ msg.kind \notin Answers
       /\ ok => msg.kind \in Entered
       /\ ~ok => msg.kind \in NotIn
  BY <1>14, KindsApart DEF CharKinds, PlayKinds
<1>17. /\ Put(down'[m], down[m], msg, x) /\ AlikeElse(down', down, m, x)
       /\ \A n \in Maps : AllFit(down'[n]) /\ (n # m => down'[n] = down[n])
  BY <1>5, <1>14, <1>15, <1>16, ReplyPut
<1>18. /\ AlikeElse(up', up, m, x) /\ Alike(up'[m], up[m], x)
       /\ \A n \in Maps : AllFit(up'[n]) /\ (n # m => up'[n] = up[n])
  BY <1>1, <1>6, AlikeSame DEF NamesFit, AlikeElse
<1>19. WorldFits'
  BY <1>1, <1>13, <1>17, <1>18, MapActs
<1>20. ASSUME NEW c \in Conns, PlaysAs(c, m, x) PROVE Stage(c, m, x)'
  <2>1. Stage(c, m, x)
    BY <1>20 DEF PlaceInv, Placed, Settled
  <2>2. ASSUME NEW in, Has(c, m, x, in) PROVE in = FALSE /\ e.key = sess[c].key
    BY <1>2, <1>6, <1>7, <1>9, <2>2 DEF Has, Entries
  <2>3. Loading(c, m, x) /\ phase[c] = "load"
    BY <1>1, <1>9, <2>1, <2>2
       DEF Stage, Bare, Asked, Loaded, Refused, Playing, Leaving, HasLeft, Plays
  <2>4. No(up'[m], Requests, x) /\ No(up'[m], Sweeps, x) /\ No(down[m], Replies, x) /\ e.key = sess[c].key
    BY <1>1, <2>2, <2>3 DEF Loading, Has
  <2>5. \A J : msg.kind \in J => Only(down'[m], Replies, J, x, sess[c].key)
    BY <1>14, <1>16, <1>17, <2>4 DEF Put
  <2>6. CASE ok
    <3>1. PICK f \in new : new = {f}
      BY <1>4, <2>6
    <3>2. f \in world'[m] /\ Here(m, x)' = {f} /\ f.in = TRUE /\ f.key = sess[c].key
      BY <1>10, <1>13, <2>4, <3>1 DEF Here
    <3>3. Has(c, m, x, TRUE)'
      BY <1>1, <2>4, <3>2 DEF Has
    <3>4. QED
      BY <1>1, <1>16, <2>3, <2>4, <2>5, <2>6, <3>3 DEF Stage, Loaded, Plays
  <2>7. CASE ~ok
    <3>1. Here(m, x)' = {}
      BY <1>4, <1>13, <2>7
    <3>2. QED
      BY <1>1, <1>16, <2>3, <2>4, <2>5, <2>7, <3>1 DEF Stage, Refused
  <2>8. QED
    BY <2>6, <2>7
<1>21. Noticed(m, x) => Noticed(m, x)'
  BY <1>1 DEF Noticed
<1>22. ~Answered(m, x) /\ ~Bare(m, x)
  BY <1>9 DEF Answered, Bare
<1>23. /\ No(up'[m], Notices, x) <=> No(up[m], Notices, x)
       /\ No(down'[m], Answers, x) <=> No(down[m], Answers, x)
  BY <1>1, <1>16, <1>17 DEF Put
<1>24. QED
  BY <1>1, <1>13, <1>17, <1>18, <1>19, <1>20, <1>21, <1>22, <1>23, MapMoves

(* A map server dies, with what it has and what was on its way to it.      *)
LEMMA CrashPlaces ==
  ASSUME Inv, Inv', PlaceInv, NEW m \in Maps, MapCrash(m)
  PROVE  PlaceInv'
<1>1. /\ m \in alive /\ crashes' = crashes + 1 /\ alive' = alive \ {m}
      /\ world' = [world EXCEPT ![m] = {}] /\ up' = [up EXCEPT ![m] = <<>>]
      /\ UNCHANGED <<sess, phase, row, jobs, down, known>>
  BY DEF MapCrash, agent, base
<1>2. WorldFits /\ NamesFit /\ ServersFit /\ EntriesFit
  BY DEF PlaceInv, WorldFits
<1>3. /\ world'[m] = {} /\ \A n \in Maps : n # m => world'[n] = world[n]
      /\ up'[m] = <<>> /\ \A n \in Maps : n # m => up'[n] = up[n]
  BY <1>1, LinkTypes
<1>4. crashes' \in Nat /\ crashes' > 0 /\ crashes' # 0
  BY <1>1, <1>2 DEF ServersFit
<1>5. WorldFits'
  <2>1. ServersFit'
    BY <1>1, <1>2, <1>3, <1>4 DEF ServersFit, Live
  <2>2. NamesFit'
    BY <1>1, <1>2, <1>3, EmptyFits DEF NamesFit
  <2>3. EntriesFit'
    BY <1>2, <1>3 DEF EntriesFit
  <2>4. QED
    BY <2>1, <2>2, <2>3 DEF WorldFits
<1>6. NamesFit'
  BY <1>5 DEF WorldFits
<1>7. \A n \in Maps, x \in Chars : n # m => SameAt(n, x)
  BY <1>1, <1>3, AlikeSame DEF SameAt, Here
<1>8. \A x \in Chars : SameSession(x)
  BY <1>1 DEF SameSession, Live
<1>9. /\ \A K, L, x : No(up'[m], K, x) /\ Before(up'[m], K, L, x)
      /\ \A x \in Chars : Here(m, x)' = {}
      /\ m \notin alive'
  BY <1>1, <1>3, Empties DEF Here
<1>10. ASSUME NEW u \in Users, NoKeeper(u) PROVE NoKeeper(u)'
  <2>1. \A n \in Maps, x \in Chars : Owner[x] = u => No(up'[n], Notices, x) /\ No(down'[n], Answers, x)
    BY <1>1, <1>3, <1>9, <1>10 DEF NoKeeper
  <2>2. QED
    BY <1>1, <1>10, <2>1, NoKeeperNext DEF NoKeeper, Live
<1>11. ASSUME NEW u \in Users, Lost(u) PROVE Lost(u)'
  BY <1>1, <1>2, <1>6, <1>10, <1>11, LostIs, LostIsNext
<1>12. ASSUME NEW x \in Chars PROVE Placed(x)'
  <2>1. Bare(m, x) => Bare(m, x)'
    BY <1>1, <1>9 DEF Bare
  <2>2. ASSUME NEW c \in Conns, PlaysAs(c, m, x) PROVE Stage(c, m, x)'
    <3>1. Stage(c, m, x)
      BY <2>2 DEF PlaceInv, Placed, Settled
    <3>2. Asked(c, m, x) \/ Loading(c, m, x) \/ Leaving(c, m, x) => Bare(m, x)'
      BY <1>1, <1>9 DEF Asked, Loading, Leaving, Bare
    <3>3. Loaded(c, m, x) => Loaded(c, m, x)'
      BY <1>1, <1>9 DEF Loaded, Plays
    <3>4. Refused(c, m, x) => Refused(c, m, x)'
      BY <1>1, <1>9 DEF Refused
    <3>5. Playing(c, m, x) => Playing(c, m, x)'
      BY <1>1, <1>9 DEF Playing, Plays
    <3>6. HasLeft(c, m, x) => HasLeft(c, m, x)'
      BY <1>1, <1>9 DEF HasLeft
    <3>7. QED
      BY <1>1, <1>4, <1>9, <2>1, <3>1, <3>2, <3>3, <3>4, <3>5, <3>6 DEF Stage
  <2>3. ASSUME NEW c \in Conns, NEW n \in Maps, PlaysAs(c, n, x)' PROVE Stage(c, n, x)'
    <3>1. PlaysAs(c, n, x)
      BY <1>1, <2>3 DEF PlaysAs, Live
    <3>2. CASE n = m
      BY <2>2, <3>1, <3>2
    <3>3. CASE n # m
      <4>1. Stage(c, n, x) /\ SameAt(n, x) /\ sess'[c].key = sess[c].key /\ phase'[c] = phase[c]
        BY <1>1, <1>7, <3>1, <3>3 DEF PlaceInv, Placed, Settled
      <4>2. QED
        BY <1>4, <4>1, StageStays
    <3>4. QED
      BY <3>2, <3>3
  <2>4. PICK u \in Users : u = Owner[x]
    BY EntryAssumption
  <2>5. Noticed(m, x) => Lost(u)'
    <3>1. SUFFICES ASSUME Noticed(m, x) PROVE Lost(u)'
      OBVIOUS
    <3>2. ~No(up[m], Notices, x)
      BY <3>1 DEF Noticed
    <3>3. /\ \A c \in Conns : ~(Live(c) /\ sess[c].user = u)
          /\ Logout(u) \notin jobs /\ row[u]
          /\ \A n \in Maps, y \in Chars : Owner[y] = u =>
               No(down[n], Answers, y) /\ (~No(up[n], Notices, y) => n = m /\ y = x)
      BY <1>2, <2>4, <3>2, OnlyNotice
    <3>4. \A n \in Maps, y \in Chars : Owner[y] = u => No(up'[n], Notices, y) /\ No(down'[n], Answers, y)
      BY <1>1, <1>3, <1>9, <3>3
    <3>5. NoKeeper(u)' /\ row'[u]
      BY <1>1, <3>3, <3>4, NoKeeperNext DEF Live
    <3>6. QED
      BY <1>6, <3>5, LostIsNext
  <2>6. Follows(m, x) => Bare(m, x)' \/ Follows(m, x)'
    <3>1. Answered(m, x) => Answered(m, x)'
      BY <1>1, <1>9 DEF Answered
    <3>2. \A c \in Conns : PlaysAs(c, m, x) => PlaysAs(c, m, x)'
      BY <1>1 DEF PlaysAs, Live
    <3>3. QED
      BY <1>1, <1>9, <2>4, <2>5, <3>1, <3>2 DEF Follows
  <2>7. ASSUME NEW n \in Maps PROVE Bare(n, x)' \/ Follows(n, x)'
    <3>1. Bare(n, x) \/ Follows(n, x)
      BY DEF PlaceInv, Placed, Followed
    <3>2. CASE n = m
      BY <2>1, <2>6, <3>1, <3>2
    <3>3. CASE n # m
      <4>1. SameAt(n, x) /\ SameSession(x) /\ (Lost(Owner[x]) => Lost(Owner[x])')
        BY <1>7, <1>8, <1>11, <2>4, <3>3
      <4>2. QED
        BY <3>1, <4>1, BareStays, FollowsStays
    <3>4. QED
      BY <3>2, <3>3
  <2>8. QED
    BY <2>3, <2>7 DEF Placed, Settled, Followed
<1>13. Kept'
  BY <1>4 DEF Kept
<1>14. QED
  BY <1>5, <1>12, <1>13 DEF PlaceInv

(* A map server is started again. *)
LEMMA StartPlaces ==
  ASSUME Inv, Inv', PlaceInv, NEW m \in Maps, MapStart(m)
  PROVE  PlaceInv'
<1>1. /\ m \notin alive /\ m \notin known /\ alive' = alive \cup {m} /\ known' = known \cup {m}
      /\ UNCHANGED <<sess, phase, row, jobs, up, down, world, crashes>>
  BY DEF MapStart, AddServer, agent, base, limits
<1>2. WorldFits /\ NamesFit /\ ServersFit /\ EntriesFit
  BY DEF PlaceInv, WorldFits
<1>3. WorldFits'
  <2>1. ServersFit'
    BY <1>1, <1>2 DEF ServersFit, Live
  <2>2. NamesFit' /\ EntriesFit'
    BY <1>1, <1>2 DEF NamesFit, EntriesFit
  <2>3. QED
    BY <2>1, <2>2 DEF WorldFits
<1>4. \A n \in Maps, x \in Chars : n # m => SameAt(n, x)
  BY <1>1, AlikeSame DEF SameAt, Here
<1>5. \A x \in Chars : SameSession(x)
  BY <1>1 DEF SameSession, Live
<1>6. \A u \in Users : SameKeepers(u)
  BY <1>1 DEF SameKeepers, Live
<1>7. \A u \in Users : Lost(u)' <=> Lost(u)
  BY <1>2, <1>3, <1>6, LostStays DEF WorldFits
<1>8. ASSUME NEW x \in Chars PROVE Placed(x)'
  <2>1. Bare(m, x)'
    BY <1>1, <1>2, Empties DEF Bare, Here, ServersFit
  <2>2. Owner[x] \in Users
    BY EntryAssumption
  <2>3. ASSUME NEW n \in Maps, n # m PROVE Bare(n, x)' \/ Follows(n, x)'
    BY <1>4, <1>5, <1>7, <2>2, <2>3, BareStays, FollowsStays DEF PlaceInv, Placed, Followed
  <2>4. ASSUME NEW c \in Conns, NEW n \in Maps, PlaysAs(c, n, x)' PROVE Stage(c, n, x)'
    <3>1. PlaysAs(c, n, x)
      BY <1>1, <2>4 DEF PlaysAs, Live
    <3>2. n # m
      BY <1>1, <1>2, <3>1, EntryAssumption DEF PlaysAs, ServersFit
    <3>3. Stage(c, n, x) /\ SameAt(n, x)
      BY <1>4, <3>1, <3>2 DEF PlaceInv, Placed, Settled
    <3>4. QED
      BY <1>1, <3>3, StageStays
  <2>5. QED
    BY <2>1, <2>3, <2>4 DEF Placed, Settled, Followed
<1>9. QED
  BY <1>1, <1>3, <1>6, <1>8, PlacesKept

LEMMA InitPlaces == Init => PlaceInv
<1> SUFFICES ASSUME Init PROVE PlaceInv
  OBVIOUS
<1>1. /\ \A c \in Conns : ~Live(c)
      /\ \A m \in Maps : up[m] = <<>> /\ down[m] = <<>> /\ world[m] = {}
      /\ \A u \in Users : ~row[u]
      /\ known = Maps /\ alive = Maps /\ crashes = 0
  BY DEF Init, Live
<1>2. ServersFit
  BY <1>1 DEF ServersFit
<1>3. NamesFit /\ EntriesFit
  BY <1>1, EmptyFits DEF NamesFit, EntriesFit
<1>4. Kept
  BY <1>1 DEF Kept, Lost
<1>5. \A m \in Maps, x \in Chars : Bare(m, x)
  BY <1>1, Empties DEF Bare, Here
<1>6. \A c \in Conns, m \in Maps, x \in Chars : ~PlaysAs(c, m, x)
  BY <1>1 DEF PlaysAs
<1>7. QED
  BY <1>2, <1>3, <1>4, <1>5, <1>6 DEF PlaceInv, WorldFits, Placed, Settled, Followed

LEMMA StutterPlaces ==
  ASSUME Inv, Inv', PlaceInv, UNCHANGED vars
  PROVE  PlaceInv'
<1>1. /\ UNCHANGED <<sess, phase, row, jobs, up, down, known, alive, world, crashes>>
      /\ WorldFits /\ NamesFit /\ ServersFit
  BY DEF vars, PlaceInv, WorldFits
<1>2. /\ \A m \in Maps : AllFit(up'[m]) /\ (m \notin alive => up'[m] = up[m])
      /\ \A m \in Maps : AllFit(down'[m]) /\ (m \notin known => down'[m] = down[m])
      /\ \A c \in Conns : Live(c)' => sess'[c].map \in known \cup {NoMap}
  BY <1>1 DEF NamesFit, ServersFit, Live
<1>3. WorldFits'
  BY <1>1, <1>2, ServersGoOn
<1>4. \A m \in Maps, x \in Chars : Alike(up'[m], up[m], x) /\ Alike(down'[m], down[m], x)
  BY <1>1, AlikeSame
<1>5. \A x \in Chars : SameSession(x)
  BY <1>1 DEF SameSession, Live
<1>6. QED
  BY <1>1, <1>3, <1>4, <1>5, NobodyMoves DEF Live

LEMMA ClientPlaces == ASSUME Inv, Inv', PlaceInv, NEW c \in Conns, Client(c) PROVE PlaceInv'
<1>1. CASE \E u \in Users : Connect(c, u)
  BY <1>1, ConnectPlaces
<1>2. CASE OnDisconnectUser(c)
  BY <1>2, DisconnectPlaces
<1>3. CASE \E x \in Chars : \/ CharacterMakeSyn(c, x) \/ CharacterRemoveSyn(c, x)
                            \/ ChannelInfoSyn(c, x)
  BY <1>3, OutsidePlaces
<1>4. CASE \E x \in Chars : CharacterSelectSyn(c, x)
  BY <1>4, SelectPlaces
<1>5. CASE CharacterNameCheckSyn(c)
  BY <1>5, OutsidePlaces
<1>6. CASE GameinSyn(c) \/ GameInPosSyn(c)
  BY <1>6, EnterPlaces DEF GameinSyn, GameInPosSyn
<1>7. CASE \E m \in Maps : \/ ChangeMapSyn(c, m) \/ ReturnSyn(c, m) \/ NpcChangeMapSyn(c, m)
                           \/ HouseEntranceSyn(c, m) \/ DungeonEntranceSyn(c, m)
  BY <1>7, GoesPlaces DEF ChangeMapSyn, ReturnSyn, NpcChangeMapSyn, HouseEntranceSyn, DungeonEntranceSyn
<1>8. CASE BackToCharSelSyn(c)
  BY <1>8, BackPlaces
<1>9. QED
  BY <1>1, <1>2, <1>3, <1>4, <1>5, <1>6, <1>7, <1>8 DEF Client

LEMMA NextPlaces == Inv /\ PlaceInv /\ [Next]_vars => PlaceInv'
<1> SUFFICES ASSUME Inv, PlaceInv, Next, Inv' PROVE PlaceInv'
  BY NextKeeps, StutterPlaces
<1>1. CASE \E c \in Conns : Client(c)
  BY <1>1, ClientPlaces
<1>2. CASE Result
  BY <1>2, ResultPlaces
<1>3. CASE \E x \in Chars : RGMBanCharacter(x) \/ CheatServerBanCharacter(x)
  BY <1>3, BanPlaces
<1>4. CASE DisconnectAllUser
  BY <1>4, DisconnectAllPlaces
<1>5. CASE \E m \in Maps : FromMap(m) \/ OnDisconnectServer(m)
  BY <1>5, FromMapPlaces, ServerDownPlaces
<1>6. CASE \E m \in Maps : MapServes(m) \/ MapLoads(m) \/ MapCrash(m) \/ MapStart(m)
  BY <1>6, ServesPlaces, LoadsPlaces, CrashPlaces, StartPlaces
<1>7. QED
  BY <1>1, <1>2, <1>3, <1>4, <1>5, <1>6 DEF Next

LEMMA PlacesAlways == Spec => [](Inv /\ PlaceInv)
<1>1. QED
  BY InitHolds, NextKeeps, InitPlaces, NextPlaces, PTL DEF Spec

-----------------------------------------------------------------------------
(* What follows. *)

LEMMA WhoIsThere ==
  Inv /\ PlaceInv => \A m \in Maps, x \in Chars : Here(m, x) # {} =>
    (\E c \in Conns : PlaysAs(c, m, x)) \/ ~No(up[m], Notices, x)
<1> SUFFICES ASSUME Inv, PlaceInv, NEW m \in Maps, NEW x \in Chars, Here(m, x) # {}
             PROVE  (\E c \in Conns : PlaysAs(c, m, x)) \/ ~No(up[m], Notices, x)
  OBVIOUS
<1>1. Followed(x) /\ ServersFit
  BY DEF PlaceInv, Placed, WorldFits
<1>2. ~Bare(m, x) /\ ~Answered(m, x)
  BY DEF Bare, Answered
<1>3. m \in alive
  BY <1>1 DEF ServersFit, Here
<1>4. QED
  BY <1>1, <1>2, <1>3 DEF Followed, Follows, Noticed

LEMMA ThereIsOne ==
  Inv /\ PlaceInv => \A m, n \in Maps : \A e \in world[m], f \in world[n] : e.char = f.char => m = n /\ e = f
<1> SUFFICES ASSUME Inv, PlaceInv, NEW m \in Maps, NEW n \in Maps, NEW e \in world[m], NEW f \in world[n],
                    e.char = f.char
             PROVE  m = n /\ e = f
  OBVIOUS
<1>1. NamesFit /\ EntriesFit
  BY DEF PlaceInv, WorldFits
<1>2. PICK x \in Chars : x = e.char
  BY LinkTypes DEF Entries
<1>3. e \in Here(m, x) /\ f \in Here(n, x)
  BY <1>2 DEF Here
<1>4. /\ (\E c \in Conns : PlaysAs(c, m, x)) \/ ~No(up[m], Notices, x)
      /\ (\E c \in Conns : PlaysAs(c, n, x)) \/ ~No(up[n], Notices, x)
  BY <1>3, WhoIsThere
<1>5. ASSUME NEW c \in Conns, NEW k \in Maps, PlaysAs(c, k, x)
      PROVE  /\ Live(c) /\ sess[c].user = Owner[x] /\ sess[c].map = k /\ byChar[x] = c
             /\ \A l \in Maps : No(up[l], Notices, x)
  <2>1. Live(c) /\ sess[c].user = Owner[x] /\ sess[c].map = k /\ byChar[x] = c
    BY <1>5, EntryAssumption DEF PlaysAs, Inv, OwnsChar, TablesAgree
  <2>2. QED
    BY <1>1, <2>1, OnlyClient
<1>6. m = n
  <2>1. CASE \E c \in Conns : PlaysAs(c, m, x)
    BY <1>4, <1>5, <2>1
  <2>2. CASE ~No(up[m], Notices, x)
    <3>1. ~No(up[n], Notices, x)
      BY <1>4, <1>5, <2>2
    <3>2. QED
      BY <1>1, <2>2, <3>1, OnlyNotice
  <2>3. QED
    BY <1>4, <2>1, <2>2
<1>7. QED
  BY <1>1, <1>6 DEF EntriesFit

LEMMA OnePlaceEach == Inv /\ PlaceInv => OnePlace
<1> SUFFICES ASSUME Inv, PlaceInv, NEW x \in Chars
             PROVE  Cardinality({e \in UNION {{<<m, e>> : e \in world[m]} : m \in Maps} : e[2].char = x}) <= 1
  BY DEF OnePlace
<1>1. PICK S : S = {e \in UNION {{<<m, e>> : e \in world[m]} : m \in Maps} : e[2].char = x}
  OBVIOUS
<1>2. ASSUME NEW s \in S, NEW t \in S PROVE s = t
  <2>1. PICK m \in Maps : \E e \in world[m] : s = <<m, e>> /\ e.char = x
    BY <1>1
  <2>2. PICK n \in Maps : \E f \in world[n] : t = <<n, f>> /\ f.char = x
    BY <1>1
  <2>3. PICK e \in world[m] : s = <<m, e>> /\ e.char = x
    BY <2>1
  <2>4. PICK f \in world[n] : t = <<n, f>> /\ f.char = x
    BY <2>2
  <2>5. m = n /\ e = f
    BY <2>3, <2>4, ThereIsOne
  <2>6. QED
    BY <2>3, <2>4, <2>5
<1>3. CASE S = {}
  BY <1>1, <1>3, FS_EmptySet
<1>4. CASE S # {}
  <2>1. PICK s : S = {s}
    BY <1>2, <1>4
  <2>2. Cardinality(S) = 1
    BY <2>1, FS_Singleton
  <2>3. QED
    BY <1>1, <2>2
<1>5. QED
  BY <1>3, <1>4

LEMMA QuietLinksEmpty ==
  Quiet => \A m \in Maps : \A K, J, x, key :
             /\ No(up[m], K, x) /\ No(down[m], K, x)
             /\ ~Only(up[m], K, J, x, key) /\ ~Only(down[m], K, J, x, key)
BY DEF Quiet, No, Only

LEMMA NobodyLeftBehind == Inv /\ PlaceInv => NoGhosts
<1> SUFFICES ASSUME Inv, PlaceInv, Quiet, NEW m \in Maps, NEW e \in world[m]
             PROVE  \E c \in Conns : Live(c) /\ sess[c].key = e.key /\ sess[c].char = e.char /\ sess[c].map = m
  BY DEF NoGhosts
<1>1. PICK x \in Chars : x = e.char
  BY LinkTypes DEF Entries
<1>2. e \in Here(m, x) /\ m \in alive
  BY <1>1 DEF Here, PlaceInv, WorldFits, ServersFit
<1>3. PICK c \in Conns : PlaysAs(c, m, x)
  BY <1>2, WhoIsThere, QuietLinksEmpty
<1>4. Stage(c, m, x)
  BY <1>3 DEF PlaceInv, Placed, Settled
<1>5. Has(c, m, x, TRUE) \/ Has(c, m, x, FALSE)
  BY <1>2, <1>4, QuietLinksEmpty
     DEF Stage, Bare, Asked, Loading, Loaded, Refused, Playing, Leaving, HasLeft, Plays
<1>6. e.key = sess[c].key
  BY <1>2, <1>5 DEF Has
<1>7. QED
  BY <1>1, <1>3, <1>6 DEF PlaysAs

(* A character in the game is in one place, whoever moved, left, came back *)
(* or was disconnected; and when nothing is under way, it is the place the *)
(* agent knows, of a session that lives.                                   *)
THEOREM PlacesAlwaysAgree == Spec => []PlacesAgree
<1>1. Inv /\ PlaceInv => PlacesAgree
  BY OnePlaceEach, NobodyLeftBehind DEF PlacesAgree
<1>2. QED
  BY <1>1, PlacesAlways, PTL

(* A row is there when its account has a session, and, while no map server *)
(* has crashed, goes with it: the account is not locked out.               *)
THEOREM RowsAlwaysAgree == Spec => []RowsAgree
<1>1. Inv /\ PlaceInv => RowsEnd
  <2> SUFFICES ASSUME Inv, PlaceInv, Quiet, crashes = 0, NEW u \in Users, row[u] PROVE HasSession(u)
    BY DEF RowsEnd
  <2>1. ~Lost(u) /\ NamesFit
    BY DEF PlaceInv, Kept, WorldFits
  <2>2. ~NoKeeper(u)
    BY <2>1, LostIs
  <2>3. QED
    BY <2>2, QuietLinksEmpty DEF NoKeeper, HasSession, Quiet
<1>2. QED
  BY <1>1, RowsAreKept, PlacesAlways, PTL DEF RowsAgree

-----------------------------------------------------------------------------
(* Whom a message changes. *)

LEMMA TailIsShorter ==
  ASSUME NEW S, NEW q \in Seq(S), q # <<>>
  PROVE  Tail(q) # q
<1>1. PICK t : t = Tail(q)
  OBVIOUS
<1>2. Len(t) = Len(q) - 1 /\ Len(q) \in Nat
  BY <1>1, HeadTailProperties, LenProperties
<1>3. Len(t) # Len(q)
  BY <1>2
<1>4. t # q
  BY <1>3
<1>5. QED
  BY <1>1, <1>4

(* A reply names the session of its character. *)
LEMMA ReplyKey ==
  ASSUME Inv, PlaceInv, NEW m \in Maps, Taken(m), NEW msg, msg = Head(down[m]),
         msg.kind \in Replies, msg.kind \in CharKinds, byChar[msg.char] # NoConn
  PROVE  sess[byChar[msg.char]].key = msg.key
<1>1. PICK x \in Chars : x = msg.char
  BY ReplyTaken
<1>2. Took(down'[m], down[m], msg, x) /\ ~No(down[m], Replies, x)
  BY <1>1, ReplyTaken
<1>3. PICK c : c = byChar[x]
  OBVIOUS
<1>4. Stage(c, m, x)
  BY <1>1, <1>2, <1>3, ReplyFor
<1>5. msg.key = sess[c].key
  BY <1>2, <1>4, StageOfReply
<1>6. QED
  BY <1>1, <1>3, <1>5

LEMMA MessageChanges ==
  ASSUME Inv, PlaceInv, NEW m \in Maps, FromMap(m), NEW c \in Conns, Head(down[m]).kind # "channel_nack",
         <<sess'[c], phase'[c]>> # <<sess[c], phase[c]>>
  PROVE  sess[c].key = Head(down[m]).key
<1>1. PICK msg : msg = Head(down[m])
  OBVIOUS
<1>2. Taken(m)
  BY DEF FromMap, Taken
<1>3. /\ sess \in [Conns -> Sessions \cup {NoSess}]
      /\ phase \in [Conns -> Waiting \cup {"none", "choose", "enter", "play"}]
  BY InvParts DEF SessionsFit, SessTypes
<1>4. CASE GameinAck(m, msg)
  <2>1. PICK d : d = byChar[msg.char]
    OBVIOUS
  <2>2. c = d /\ sess[d].key = msg.key
    BY <1>1, <1>3, <1>4, <2>1 DEF GameinAck, Phase
  <2>3. QED
    BY <1>1, <2>2
<1>5. CASE GameinNack(m, msg)
  <2>1. msg.kind \in Replies /\ msg.kind \in CharKinds
    BY <1>5, KindsApart DEF GameinNack, CharKinds, PlayKinds
  <2>2. c = byChar[msg.char] /\ byChar[msg.char] # NoConn
    BY <1>1, <1>3, <1>5 DEF GameinNack, Gone, agent
  <2>3. QED
    BY <1>1, <1>2, <2>1, <2>2, ReplyKey
<1>6. CASE MapOut(m, msg) \/ NpcMapOut(m, msg) \/ MapOutWithMapNum(m, msg)
  <2>1. msg.kind \in WayKinds /\ LeftFor(msg)
    BY <1>6 DEF MapOut, NpcMapOut, MapOutWithMapNum, WayKinds
  <2>2. msg.kind \in Replies /\ msg.kind \in CharKinds
    BY <2>1, KindsApart DEF CharKinds, AskKinds
  <2>3. c = byChar[msg.char] /\ byChar[msg.char] # NoConn
    BY <1>1, <1>3, <2>1 DEF LeftFor, Phase
  <2>4. QED
    BY <1>1, <1>2, <2>2, <2>3, ReplyKey
<1>7. CASE BackToCharSelAck(m, msg)
  <2>1. msg.kind \in Replies /\ msg.kind \in CharKinds
    BY <1>7, KindsApart DEF BackToCharSelAck, CharKinds, PlayKinds, AskKinds
  <2>2. c = byChar[msg.char] /\ byChar[msg.char] # NoConn
    BY <1>1, <1>3, <1>7 DEF BackToCharSelAck, Phase
  <2>3. QED
    BY <1>1, <1>2, <2>1, <2>2, ReplyKey
<1>8. CASE LoginCheckDelete(m, msg)
  BY <1>8 DEF LoginCheckDelete, agent
<1>9. CASE ChannelInfoAck(msg)
  BY <1>1, <1>3, <1>9 DEF ChannelInfoAck
<1>10. CASE ChannelInfoNack(msg)
  BY <1>1, <1>10 DEF ChannelInfoNack
<1>11. QED
  BY <1>1, <1>4, <1>5, <1>6, <1>7, <1>8, <1>9, <1>10 DEF FromMap

LEMMA OthersTakeNothing ==
  ASSUME Inv, NEW m \in Maps, Next, ~FromMap(m), down[m] # <<>>, down'[m] = Tail(down[m])
  PROVE  UNCHANGED <<sess, phase>>
<1>0. down \in [Maps -> Seq(Messages)] /\ down[m] \in Seq(Messages)
  BY LinkTypes
<1>1. down'[m] # down[m]
  BY <1>0, TailIsShorter
<1>2. CASE \E c \in Conns : Client(c)
  <2>1. PICK c \in Conns : Client(c)
    BY <1>2
  <2>2. ASSUME \E u \in Users : Connect(c, u) PROVE FALSE
    BY <1>1, <2>2 DEF Connect, maps
  <2>3. ASSUME OnDisconnectUser(c) PROVE FALSE
    BY <1>1, <2>3 DEF OnDisconnectUser
  <2>4. ASSUME \E x \in Chars : CharacterMakeSyn(c, x) \/ CharacterRemoveSyn(c, x) PROVE FALSE
    BY <1>1, <2>4 DEF CharacterMakeSyn, CharacterRemoveSyn, maps
  <2>5. ASSUME \E x \in Chars : CharacterSelectSyn(c, x) \/ ChannelInfoSyn(c, x) PROVE FALSE
    BY <1>1, <2>5 DEF CharacterSelectSyn, ChannelInfoSyn, maps
  <2>6. ASSUME CharacterNameCheckSyn(c) \/ BackToCharSelSyn(c) PROVE FALSE
    BY <1>1, <2>6 DEF CharacterNameCheckSyn, BackToCharSelSyn, maps
  <2>7. ASSUME GameinSyn(c) \/ GameInPosSyn(c) PROVE FALSE
    BY <1>1, <2>7 DEF GameinSyn, GameInPosSyn, EnterMap
  <2>8. ASSUME \E n \in Maps : \/ ChangeMapSyn(c, n) \/ ReturnSyn(c, n) \/ NpcChangeMapSyn(c, n)
                               \/ HouseEntranceSyn(c, n) \/ DungeonEntranceSyn(c, n)
        PROVE  FALSE
    BY <1>1, <2>8 DEF ChangeMapSyn, ReturnSyn, NpcChangeMapSyn, HouseEntranceSyn, DungeonEntranceSyn, GoesTo
  <2>9. QED
    BY <2>1, <2>2, <2>3, <2>4, <2>5, <2>6, <2>7, <2>8 DEF Client
<1>3. CASE Result
  BY <1>1, <1>3 DEF Result, maps
<1>4. CASE \E x \in Chars : RGMBanCharacter(x) \/ CheatServerBanCharacter(x)
  BY <1>1, <1>4 DEF RGMBanCharacter, CheatServerBanCharacter, OnDisconnectUser
<1>5. CASE DisconnectAllUser
  BY <1>1, <1>5 DEF DisconnectAllUser
<1>6. ASSUME NEW n \in Maps, FromMap(n) PROVE FALSE
  BY <1>0, <1>1, <1>6 DEF FromMap
<1>7. ASSUME NEW n \in Maps, OnDisconnectServer(n) PROVE FALSE
  BY <1>1, <1>7 DEF OnDisconnectServer
<1>8. CASE \E n \in Maps : MapServes(n) \/ MapLoads(n) \/ MapCrash(n) \/ MapStart(n)
  BY <1>8 DEF MapServes, MapLoads, MapCrash, MapStart, agent
<1>9. QED
  BY <1>2, <1>3, <1>4, <1>5, <1>6, <1>7, <1>8 DEF Next

(* What a map server sends about a character changes no session but the    *)
(* one it was playing in, although most messages name the character alone: *)
(* one reply at most is under way about a character, and it names the      *)
(* session that is waiting for it.                                         *)
THEOREM MessagesAlwaysFit == Spec => MessagesFit
<1>1. Inv /\ PlaceInv /\ [Next]_vars =>
        [\A m \in Maps, c \in Conns :
           (/\ down[m] # <<>> /\ down'[m] = Tail(down[m])
            /\ <<sess'[c], phase'[c]>> # <<sess[c], phase[c]>>
            /\ Head(down[m]).kind # "channel_nack") => sess[c].key = Head(down[m]).key]_vars
  <2>1. ASSUME Inv, PlaceInv, Next, NEW m \in Maps, NEW c \in Conns,
               down[m] # <<>>, down'[m] = Tail(down[m]),
               <<sess'[c], phase'[c]>> # <<sess[c], phase[c]>>, Head(down[m]).kind # "channel_nack"
        PROVE  sess[c].key = Head(down[m]).key
    <3>1. FromMap(m)
      BY <2>1, OthersTakeNothing
    <3>2. QED
      BY <2>1, <3>1, MessageChanges
  <2>2. QED
    BY <2>1
<1>2. QED
  BY <1>1, PlacesAlways, PTL DEF Spec, MessagesFit

-----------------------------------------------------------------------------
(* What clients wait for is under way. *)

ChannelAnswers == {"channel_ack", "channel_nack"}

Carries(q, K, c, key) == \E i \in 1..Len(q) : q[i].kind \in K /\ q[i].conn = c /\ q[i].key = key

Queried(K, c) == \E j \in jobs : j.kind \in K /\ j.conn = c

Listing(c, key) == \E j \in jobs : j.kind = "list" /\ j.conn = c /\ j.key = key

Asking(c, key) == \E m \in Maps : Carries(up[m], {"channel"}, c, key) \/ Carries(down[m], ChannelAnswers, c, key)

(* The client of c will have an answer. *)
HasAnswer(c) ==
  /\ phase[c] = "list" => Listing(c, sess[c].key)
  /\ phase[c] = "make" => Queried({"make", "remove"}, c)
  /\ phase[c] = "name" => Queried({"name"}, c)
  /\ phase[c] = "channel" /\ crashes = 0 => Asking(c, sess[c].key)

Answerable == \A c \in Conns : Live(c) => HasAnswer(c)

Longer(new, old) == new = old \/ \E x \in Messages : new = Append(old, x)

Shorter(new, old, msg) == old # <<>> /\ msg = Head(old) /\ new = Tail(old)

LEMMA LongerCarries ==
  ASSUME NEW q \in Seq(Messages), NEW r, Longer(r, q), NEW K, NEW c, NEW key, Carries(q, K, c, key)
  PROVE  Carries(r, K, c, key)
<1>1. CASE r = q
  BY <1>1
<1>2. CASE \E x \in Messages : r = Append(q, x)
  <2>1. PICK x \in Messages : r = Append(q, x)
    BY <1>2
  <2>2. PICK i \in 1..Len(q) : q[i].kind \in K /\ q[i].conn = c /\ q[i].key = key
    BY DEF Carries
  <2>3. Len(r) = Len(q) + 1 /\ r[i] = q[i] /\ Len(q) \in Nat
    BY <2>1, AppendProperties, LenProperties
  <2>4. i \in 1..Len(r)
    BY <2>3
  <2>5. QED
    BY <2>2, <2>3, <2>4 DEF Carries
<1>3. QED
  BY <1>1, <1>2 DEF Longer

LEMMA PutCarries ==
  ASSUME NEW q \in Seq(Messages), NEW x \in Messages, NEW K, x.kind \in K
  PROVE  Carries(Append(q, x), K, x.conn, x.key)
<1>1. PICK r : r = Append(q, x)
  OBVIOUS
<1>2. PICK i : i = Len(q) + 1
  OBVIOUS
<1>3. Len(r) = i /\ r[i] = x /\ i \in 1..Len(r)
  BY <1>1, <1>2, AppendProperties, LenProperties
<1>4. QED
  BY <1>1, <1>3 DEF Carries

LEMMA ShorterCarries ==
  ASSUME NEW q \in Seq(Messages), NEW r, NEW msg, Shorter(r, q, msg), NEW K, NEW c, NEW key,
         Carries(q, K, c, key)
  PROVE  Carries(r, K, c, key) \/ (msg.kind \in K /\ msg.conn = c /\ msg.key = key)
<1>1. PICK i \in 1..Len(q) : q[i].kind \in K /\ q[i].conn = c /\ q[i].key = key
  BY DEF Carries
<1>2. r = Tail(q) /\ msg = q[1] /\ Len(r) = Len(q) - 1 /\ Len(q) \in Nat
      /\ \A k \in 1..Len(r) : r[k] = q[k+1]
  BY HeadTailProperties, LenProperties DEF Shorter
<1>3. CASE i = 1
  BY <1>1, <1>2, <1>3
<1>4. CASE i # 1
  <2>1. i - 1 \in 1..Len(r) /\ (i - 1) + 1 = i
    BY <1>2, <1>4
  <2>2. r[i - 1] = q[i]
    BY <1>2, <2>1
  <2>3. QED
    BY <1>1, <2>1, <2>2 DEF Carries
<1>5. QED
  BY <1>3, <1>4

(* What is asked for on behalf of others than d stays asked for. *)
AskingKept(d) == \A c \in Conns : \A key : c # d /\ Asking(c, key) => Asking(c, key)'

LEMMA GrownKeeps ==
  ASSUME Inv, \A m \in Maps : Longer(up'[m], up[m]), \A m \in Maps : Longer(down'[m], down[m])
  PROVE  \A d, c, key : Asking(c, key) => Asking(c, key)'
<1> SUFFICES ASSUME NEW c, NEW key, Asking(c, key) PROVE Asking(c, key)'
  OBVIOUS
<1>1. \A m \in Maps : up[m] \in Seq(Messages) /\ down[m] \in Seq(Messages)
  BY LinkTypes
<1>2. PICK m \in Maps : Carries(up[m], {"channel"}, c, key) \/ Carries(down[m], ChannelAnswers, c, key)
  BY DEF Asking
<1>3. Carries(up'[m], {"channel"}, c, key) \/ Carries(down'[m], ChannelAnswers, c, key)
  BY <1>1, <1>2, LongerCarries
<1>4. QED
  BY <1>3 DEF Asking

(* A message of m is handled. *)
LEMMA TakenKeeps ==
  ASSUME Inv, NEW m \in Maps, Taken(m), \A n \in Maps : Longer(up'[n], up[n]), NEW msg, msg = Head(down[m]),
         NEW c, NEW key, Asking(c, key), ~(msg.kind \in ChannelAnswers /\ msg.conn = c /\ msg.key = key)
  PROVE  Asking(c, key)'
<1>1. up \in [Maps -> Seq(Messages)] /\ down \in [Maps -> Seq(Messages)]
  BY LinkTypes
<1>2. PICK n \in Maps : Carries(up[n], {"channel"}, c, key) \/ Carries(down[n], ChannelAnswers, c, key)
  BY DEF Asking
<1>3. CASE Carries(up[n], {"channel"}, c, key)
  <2>1. Carries(up'[n], {"channel"}, c, key)
    BY <1>1, <1>3, LongerCarries
  <2>2. QED
    BY <2>1 DEF Asking
<1>4. CASE Carries(down[n], ChannelAnswers, c, key)
  <2>1. down'[n] = down[n] \/ Shorter(down'[n], down[n], msg)
    BY <1>1 DEF Taken, Shorter
  <2>2. Carries(down'[n], ChannelAnswers, c, key)
    BY <1>1, <1>4, <2>1, ShorterCarries
  <2>3. QED
    BY <2>2 DEF Asking
<1>5. QED
  BY <1>2, <1>3, <1>4

LEMMA StillAwaited ==
  ASSUME NEW c \in Conns, HasAnswer(c), NEW key, key = sess[c].key, sess'[c].key = key, phase'[c] = phase[c],
         \A j \in jobs : j.conn = c => j \in jobs',
         crashes' = 0 => crashes = 0,
         phase[c] = "channel" /\ crashes' = 0 /\ Asking(c, key) => Asking(c, key)'
  PROVE  HasAnswer(c)'
<1>1. Listing(c, key) => Listing(c, key)'
  BY DEF Listing
<1>2. \A K : Queried(K, c) => Queried(K, c)'
  BY DEF Queried
<1>3. /\ phase[c] = "list" => Listing(c, key)
      /\ phase[c] = "make" => Queried({"make", "remove"}, c)
      /\ phase[c] = "name" => Queried({"name"}, c)
      /\ phase[c] = "channel" /\ crashes = 0 => Asking(c, key)
  BY DEF HasAnswer
<1>4. /\ phase'[c] = "list" => Listing(c, sess[c].key)'
      /\ phase'[c] = "make" => Queried({"make", "remove"}, c)'
      /\ phase'[c] = "name" => Queried({"name"}, c)'
  BY <1>1, <1>2, <1>3 DEF Listing
<1>5. phase'[c] = "channel" /\ crashes' = 0 => Asking(c, sess[c].key)'
  BY <1>3 DEF Asking
<1>6. QED
  BY <1>4, <1>5 DEF HasAnswer

LEMMA NothingAwaited ==
  ASSUME NEW c, phase'[c] \notin {"list", "make", "name", "channel"}
  PROVE  HasAnswer(c)'
BY DEF HasAnswer

(* Only the client of d has come to wait for something else. *)
LEMMA OthersWait ==
  ASSUME Answerable, NEW d,
         \A c \in Conns : c # d /\ Live(c)' => Live(c) /\ sess'[c].key = sess[c].key /\ phase'[c] = phase[c],
         \A j \in jobs : j.conn \in Conns /\ j.conn # d => j \in jobs',
         crashes' = 0 => crashes = 0,
         crashes' = 0 => AskingKept(d),
         d \in Conns /\ Live(d)' => HasAnswer(d)'
  PROVE  Answerable'
<1>1. ASSUME NEW c \in Conns, Live(c)', c # d PROVE HasAnswer(c)'
  <2>1. PICK key : key = sess[c].key
    OBVIOUS
  <2>2. HasAnswer(c) /\ sess'[c].key = key /\ phase'[c] = phase[c]
    BY <1>1, <2>1 DEF Answerable
  <2>3. crashes' = 0 /\ Asking(c, key) => Asking(c, key)'
    BY <1>1 DEF AskingKept
  <2>4. \A j \in jobs : j.conn = c => j \in jobs'
    BY <1>1
  <2>5. QED
    BY <2>1, <2>2, <2>3, <2>4, StillAwaited
<1>2. QED
  BY <1>1 DEF Answerable

LEMMA SentLonger ==
  ASSUME Inv, NEW m \in Maps, NEW x \in Messages, Sent(m, x)
  PROVE  \A n \in Maps : Longer(up'[n], up[n])
BY LinkTypes, SentOne DEF Longer

LEMMA SameLonger == \A q : Longer(q, q)
BY DEF Longer

LEMMA LinksGrow ==
  ASSUME Inv, \A n \in Maps : Longer(up'[n], up[n]), \A n \in Maps : Longer(down'[n], down[n])
  PROVE  \A d : AskingKept(d)
BY GrownKeeps DEF AskingKept

LEMMA JobCounts ==
  ASSUME NEW j, j \in jobs', NEW K, j.kind \in K, NEW c, j.conn = c
  PROVE  Queried(K, c)'
BY DEF Queried

LEMMA ListCounts ==
  ASSUME NEW j, j \in jobs', j.kind = "list", NEW c, j.conn = c, NEW key, j.key = key
  PROVE  Listing(c, key)'
BY DEF Listing

LEMMA ConnectAnswers ==
  ASSUME Inv, Answerable, NEW c \in Conns, NEW u \in Users, Connect(c, u)
  PROVE  Answerable'
<1>1. /\ ~Live(c)
      /\ sess' = [sess EXCEPT ![c] = [key |-> keys + 1, user |-> u, char |-> NoChar, map |-> NoMap,
                                      list |-> [x \in Chars |-> NoMap]]]
      /\ jobs' = jobs \cup {[kind |-> "list", conn |-> c, key |-> keys + 1, user |-> u, char |-> NoChar]}
      /\ phase' = [phase EXCEPT ![c] = "list"]
      /\ UNCHANGED <<up, down, crashes>>
  BY DEF Connect, Phase, maps
<1>2. sess \in [Conns -> Sessions \cup {NoSess}]
      /\ phase \in [Conns -> Waiting \cup {"none", "choose", "enter", "play"}]
  BY InvParts DEF SessionsFit, SessTypes
<1>3. sess'[c].key = keys + 1 /\ phase'[c] = "list"
  BY <1>1, <1>2
<1>4. HasAnswer(c)'
  <2>1. PICK j : j = [kind |-> "list", conn |-> c, key |-> keys + 1, user |-> u, char |-> NoChar]
    OBVIOUS
  <2>2. j \in jobs' /\ j.kind = "list" /\ j.conn = c /\ j.key = keys + 1
    BY <1>1, <2>1
  <2>3. PICK key : key = keys + 1
    OBVIOUS
  <2>4. Listing(c, key)'
    BY <2>2, <2>3, ListCounts
  <2>5. Listing(c, sess[c].key)'
    BY <1>3, <2>3, <2>4 DEF Listing
  <2>6. QED
    BY <1>3, <2>5 DEF HasAnswer
<1>5. \A d \in Conns : c # d /\ Live(d)' => Live(d) /\ sess'[d].key = sess[d].key /\ phase'[d] = phase[d]
  BY <1>1, <1>2 DEF Live
<1>6. AskingKept(c)
  BY <1>1, LinksGrow, SameLonger
<1>7. QED
  BY <1>1, <1>4, <1>5, <1>6, OthersWait

(* The client of c asks for something. *)
LEMMA OneAsks ==
  ASSUME Inv, Answerable, NEW c \in Conns, NEW p, phase' = [phase EXCEPT ![c] = p] \/ phase' = phase,
         \A d \in Conns : d # c => sess'[d] = sess[d],
         jobs \subseteq jobs', UNCHANGED <<down, crashes>>, \A n \in Maps : Longer(up'[n], up[n]),
         HasAnswer(c)'
  PROVE  Answerable'
<1>1. phase \in [Conns -> Waiting \cup {"none", "choose", "enter", "play"}]
  BY InvParts DEF SessionsFit, SessTypes
<1>2. \A d \in Conns : c # d /\ Live(d)' => Live(d) /\ sess'[d].key = sess[d].key /\ phase'[d] = phase[d]
  BY <1>1 DEF Live
<1>3. AskingKept(c)
  BY LinksGrow, SameLonger
<1>4. QED
  BY <1>2, <1>3, OthersWait

LEMMA OutsideAnswers ==
  ASSUME Inv, Answerable, NEW c \in Conns, NEW x,
         CharacterMakeSyn(c, x) \/ CharacterRemoveSyn(c, x) \/ CharacterNameCheckSyn(c)
  PROVE  Answerable'
<1>1. /\ UNCHANGED <<sess, up, down, crashes>>
      /\ \/ /\ phase' = [phase EXCEPT ![c] = "make"]
            /\ jobs' = jobs \cup {Job("make", c, x)} \/ jobs' = jobs \cup {Job("remove", c, x)}
         \/ phase' = [phase EXCEPT ![c] = "name"] /\ jobs' = jobs \cup {Job("name", c, NoChar)}
  BY DEF CharacterMakeSyn, CharacterRemoveSyn, CharacterNameCheckSyn, CreateCharacter, DeleteCharacter,
         CharacterNameCheck, Phase, Moves, maps
<1>2. phase \in [Conns -> Waiting \cup {"none", "choose", "enter", "play"}]
  BY InvParts DEF SessionsFit, SessTypes
<1>3. HasAnswer(c)'
  <2>0. \A kind, y : Job(kind, c, y).kind = kind /\ Job(kind, c, y).conn = c
    BY DEF Job
  <2>1. CASE phase' = [phase EXCEPT ![c] = "make"] /\ jobs' = jobs \cup {Job("make", c, x)}
    <3>1. phase'[c] = "make" /\ Queried({"make", "remove"}, c)'
      BY <1>2, <2>0, <2>1, JobCounts
    <3>2. QED
      BY <3>1 DEF HasAnswer
  <2>2. CASE phase' = [phase EXCEPT ![c] = "make"] /\ jobs' = jobs \cup {Job("remove", c, x)}
    <3>1. phase'[c] = "make" /\ Queried({"make", "remove"}, c)'
      BY <1>2, <2>0, <2>2, JobCounts
    <3>2. QED
      BY <3>1 DEF HasAnswer
  <2>3. CASE phase' = [phase EXCEPT ![c] = "name"] /\ jobs' = jobs \cup {Job("name", c, NoChar)}
    <3>1. phase'[c] = "name" /\ Queried({"name"}, c)'
      BY <1>2, <2>0, <2>3, JobCounts
    <3>2. QED
      BY <3>1 DEF HasAnswer
  <2>4. QED
    BY <1>1, <2>1, <2>2, <2>3
<1>4. \A n \in Maps : Longer(up'[n], up[n])
  BY <1>1, SameLonger
<1>5. QED
  BY <1>1, <1>3, <1>4, OneAsks

LEMMA ChannelAnswersCome ==
  ASSUME Inv, PlaceInv, Answerable, NEW c \in Conns, NEW x \in Chars, ChannelInfoSyn(c, x)
  PROVE  Answerable'
<1>1. /\ Live(c) /\ sess[c].list[x] # NoMap
      /\ UNCHANGED <<sess, jobs, down, crashes>> /\ phase' = [phase EXCEPT ![c] = "channel"]
      /\ Sent(sess[c].list[x], ChannelMsg("channel", c))
  BY DEF ChannelInfoSyn, Phase, Moves, base
<1>2. sess[c] \in Sessions /\ up \in [Maps -> Seq(Messages)]
      /\ phase \in [Conns -> Waiting \cup {"none", "choose", "enter", "play"}]
  BY <1>1, LiveSession, InvParts, LinkTypes DEF SessionsFit, SessTypes
<1>3. PICK m \in Maps : m = sess[c].list[x]
  BY <1>1, <1>2 DEF Sessions
<1>4. PICK msg \in Messages : msg = ChannelMsg("channel", c)
  BY <1>2 DEF ChannelMsg, Messages, Sessions
<1>5. msg.kind = "channel" /\ msg.conn = c /\ msg.key = sess[c].key
  BY <1>4 DEF ChannelMsg
<1>6. Sent(m, msg)
  BY <1>1, <1>3, <1>4
<1>7. crashes = 0 => m \in alive
  BY DEF PlaceInv, WorldFits, ServersFit
<1>8. crashes = 0 => Carries(up'[m], {"channel"}, c, sess[c].key)
  <2>1. ASSUME crashes = 0 PROVE up'[m] = Append(up[m], msg)
    BY <1>2, <1>6, <1>7, <2>1 DEF Sent
  <2>2. QED
    BY <1>2, <1>5, <2>1, PutCarries
<1>9. HasAnswer(c)'
  <2>1. crashes' = 0 => Asking(c, sess[c].key)'
    BY <1>1, <1>8 DEF Asking
  <2>2. phase'[c] = "channel"
    BY <1>1, <1>2
  <2>3. QED
    BY <2>1, <2>2 DEF HasAnswer
<1>10. \A n \in Maps : Longer(up'[n], up[n])
  BY <1>6, SentLonger
<1>11. QED
  BY <1>1, <1>9, <1>10, OneAsks

LEMMA PlayerAnswers ==
  ASSUME Inv, Answerable, NEW c \in Conns, NEW x, NEW m \in Maps, NEW way \in WayKinds,
         \/ x \in Chars /\ CharacterSelectSyn(c, x)
         \/ EnterMap(c) \/ GoesTo(c, m, way) \/ BackToCharSelSyn(c)
  PROVE  Answerable'
<1>1. /\ sess \in [Conns -> Sessions \cup {NoSess}]
      /\ phase \in [Conns -> Waiting \cup {"none", "choose", "enter", "play"}]
  BY InvParts DEF SessionsFit, SessTypes
<1>2. CASE x \in Chars /\ CharacterSelectSyn(c, x)
  <2>1. /\ phase' = [phase EXCEPT ![c] = "enter"] /\ UNCHANGED <<jobs, up, down, crashes>>
        /\ \A d \in Conns : d # c => sess'[d] = sess[d]
    BY <1>1, <1>2 DEF CharacterSelectSyn, Phase, base, maps, limits
  <2>2. HasAnswer(c)'
    BY <1>1, <2>1, NothingAwaited
  <2>3. QED
    BY <2>1, <2>2, SameLonger, OneAsks
<1>3. ASSUME EnterMap(c) \/ GoesTo(c, m, way) \/ BackToCharSelSyn(c)
      PROVE  Answerable'
  <2>1. Live(c) /\ sess[c].char # NoChar
    BY <1>3, PhaseOf DEF EnterMap, GoesTo, BackToCharSelSyn, InGame
  <2>2. PICK n \in Maps : n = sess[c].map
    BY <2>1, PlayerAt
  <2>3. /\ Msg("gamein", c, NoMap) \in Messages /\ Msg("back", c, NoMap) \in Messages
        /\ Msg(way, c, m) \in Messages
    BY <2>1, PlayerMessage DEF PlayKinds
  <2>4. /\ UNCHANGED <<sess, jobs, down, crashes>>
        /\ \/ phase' = [phase EXCEPT ![c] = "load"] /\ Sent(n, Msg("gamein", c, NoMap))
           \/ phase' = [phase EXCEPT ![c] = "leave"] /\ Sent(n, Msg(way, c, m))
           \/ phase' = [phase EXCEPT ![c] = "back"] /\ Sent(n, Msg("back", c, NoMap))
           \/ phase' = phase /\ up' = up /\ phase[c] = "play"
    BY <1>3, <2>2 DEF EnterMap, GoesTo, BackToCharSelSyn, Phase, Moves, base, limits
  <2>5. \A k \in Maps : Longer(up'[k], up[k])
    BY <2>3, <2>4, SentLonger, SameLonger
  <2>6. HasAnswer(c)'
    BY <1>1, <2>4, NothingAwaited
  <2>7. \E p : phase' = [phase EXCEPT ![c] = p] \/ phase' = phase
    BY <2>4
  <2>8. QED
    BY <2>4, <2>5, <2>6, <2>7, OneAsks
<1>4. QED
  BY <1>2, <1>3

(* Sessions end. *)
LEMMA EndAnswers ==
  ASSUME Answerable, NEW cs \in SUBSET Conns, NEW more, Gone(cs, more), AskingKept(NoConn), crashes' = crashes
  PROVE  Answerable'
<1>1. \A c \in Conns : c # NoConn /\ Live(c)' => Live(c) /\ sess'[c].key = sess[c].key /\ phase'[c] = phase[c]
  BY DEF Gone, Live
<1>2. jobs \subseteq jobs'
  BY DEF Gone
<1>3. NoConn \notin Conns
  BY EntryAssumption
<1>4. QED
  BY <1>1, <1>2, <1>3, OthersWait

LEMMA DisconnectAnswers ==
  ASSUME Inv, Answerable, NEW c \in Conns, OnDisconnectUser(c)
  PROVE  Answerable'
<1>1. /\ Live(c) /\ Gone({c}, {}) /\ UNCHANGED <<down, crashes>>
      /\ sess[c].char = NoChar => up' = up
      /\ sess[c].char # NoChar => Sent(sess[c].map, Msg("disconnected", c, NoMap))
  BY DEF OnDisconnectUser, limits
<1>2. \A m \in Maps : Longer(up'[m], up[m])
  <2>1. CASE sess[c].char = NoChar
    BY <1>1, <2>1, SameLonger
  <2>2. CASE sess[c].char # NoChar
    <3>1. sess[c].map \in Maps /\ Msg("disconnected", c, NoMap) \in Messages
      BY <1>1, <2>2, PlayerAt, PlayerMessage DEF PlayKinds
    <3>2. QED
      BY <1>1, <2>2, <3>1, SentLonger
  <2>3. QED
    BY <2>1, <2>2
<1>3. {c} \in SUBSET Conns
  OBVIOUS
<1>4. AskingKept(NoConn)
  BY <1>1, <1>2, SameLonger, LinksGrow
<1>5. QED
  BY <1>1, <1>3, <1>4, EndAnswers

LEMMA BanAnswers ==
  ASSUME Inv, Answerable, NEW x \in Chars, RGMBanCharacter(x) \/ CheatServerBanCharacter(x)
  PROVE  Answerable'
<1>1. byChar[x] \in Conns /\ OnDisconnectUser(byChar[x])
  BY DEF RGMBanCharacter, CheatServerBanCharacter, Inv, TypeOK
<1>2. QED
  BY <1>1, DisconnectAnswers

LEMMA ServerDownAnswers ==
  ASSUME Inv, Answerable, NEW m \in Maps, OnDisconnectServer(m)
  PROVE  Answerable'
<1>1. PICK cs : cs = {c \in Conns : Live(c) /\ sess[c].map = m}
  OBVIOUS
<1>2. Gone(cs, {Logout(sess[c].user) : c \in cs}) /\ UNCHANGED <<up, down, crashes>>
  BY <1>1 DEF OnDisconnectServer, limits
<1>3. cs \in SUBSET Conns
  BY <1>1
<1>4. AskingKept(NoConn)
  BY <1>2, SameLonger, LinksGrow
<1>5. QED
  BY <1>2, <1>3, <1>4, EndAnswers

LEMMA DisconnectAllAnswers == ASSUME DisconnectAllUser PROVE Answerable'
<1>1. \A c \in Conns : ~Live(c)'
  BY DEF DisconnectAllUser, Live
<1>2. QED
  BY <1>1 DEF Answerable

(* The answer to j is not what the client of c waits for. *)
LEMMA OtherAnswered ==
  ASSUME NEW c \in Conns, HasAnswer(c), NEW key, key = sess[c].key, sess'[c].key = key, phase'[c] = phase[c],
         NEW j, jobs' = jobs \ {j}, UNCHANGED <<up, down, crashes>>,
         phase[c] = "list" => ~(j.kind = "list" /\ j.key = key),
         phase[c] = "make" => j.kind \notin {"make", "remove"},
         phase[c] = "name" => j.kind # "name"
  PROVE  HasAnswer(c)'
<1>1. CASE phase[c] = "list"
  <2>1. PICK i \in jobs : i.kind = "list" /\ i.conn = c /\ i.key = key
    BY <1>1 DEF HasAnswer, Listing
  <2>2. i \in jobs'
    BY <1>1, <2>1
  <2>3. Listing(c, key)'
    BY <2>1, <2>2, ListCounts
  <2>4. Listing(c, sess[c].key)'
    BY <2>3 DEF Listing
  <2>5. QED
    BY <1>1, <2>4 DEF HasAnswer
<1>2. CASE phase[c] = "make"
  <2>1. PICK i \in jobs : i.kind \in {"make", "remove"} /\ i.conn = c
    BY <1>2 DEF HasAnswer, Queried
  <2>2. i \in jobs'
    BY <1>2, <2>1
  <2>3. Queried({"make", "remove"}, c)'
    BY <2>1, <2>2, JobCounts
  <2>4. QED
    BY <1>2, <2>3 DEF HasAnswer
<1>3. CASE phase[c] = "name"
  <2>1. PICK i \in jobs : i.kind \in {"name"} /\ i.conn = c
    BY <1>3 DEF HasAnswer, Queried
  <2>2. i \in jobs'
    BY <1>3, <2>1
  <2>3. Queried({"name"}, c)'
    BY <2>1, <2>2, JobCounts
  <2>4. QED
    BY <1>3, <2>3 DEF HasAnswer
<1>4. CASE phase[c] = "channel"
  BY <1>4 DEF HasAnswer, Asking
<1>5. CASE phase[c] \notin {"list", "make", "name", "channel"}
  BY <1>5, NothingAwaited
<1>6. QED
  BY <1>1, <1>2, <1>3, <1>4, <1>5

LEMMA ResultSessions ==
  ASSUME Inv, NEW j \in jobs, j.kind # "logout",
         RCharacterList(j) \/ RCreateCharacter(j) \/ RCharacterNameCheck(j) \/ RDeleteCharacter(j)
  PROVE  /\ \A d \in Conns : (Live(d)' => Live(d)) /\ (Live(d) => sess'[d].key = sess[d].key)
         /\ \A d \in Conns : d # j.conn => phase'[d] = phase[d]
<1>1. /\ sess \in [Conns -> Sessions \cup {NoSess}]
      /\ phase \in [Conns -> Waiting \cup {"none", "choose", "enter", "play"}]
      /\ \A d \in Conns : Live(d) => sess[d] \in Sessions
  BY InvParts, LiveSession DEF SessionsFit, SessTypes
<1>2. PICK c \in Conns : c = j.conn
  BY InvParts, QueryFields
<1>3. \A d \in Conns : d # j.conn => phase'[d] = phase[d]
  BY <1>1, <1>2 DEF RCharacterList, RCreateCharacter, RCharacterNameCheck, RDeleteCharacter, Phase
<1>4. sess' = sess \/ \E l : Live(c) /\ sess' = [sess EXCEPT ![c].list = l]
  <2>1. CASE RCharacterNameCheck(j)
    BY <2>1 DEF RCharacterNameCheck
  <2>2. CASE RDeleteCharacter(j)
    <3>1. sess' = IF Live(c) THEN [sess EXCEPT ![c].list[j.char] = NoMap] ELSE sess
      BY <1>2, <2>2 DEF RDeleteCharacter
    <3>2. [sess EXCEPT ![c].list[j.char] = NoMap] = [sess EXCEPT ![c].list = [sess[c].list EXCEPT ![j.char] = NoMap]]
      BY <1>1
    <3>3. QED
      BY <3>1, <3>2
  <2>3. CASE RCreateCharacter(j)
    <3>1. PICK m \in Maps \cup {NoMap} : sess' = sess \/ (Live(c) /\ sess' = [sess EXCEPT ![c].list[j.char] = m])
      BY <1>2, <2>3 DEF RCreateCharacter
    <3>2. [sess EXCEPT ![c].list[j.char] = m] = [sess EXCEPT ![c].list = [sess[c].list EXCEPT ![j.char] = m]]
      BY <1>1
    <3>3. QED
      BY <3>1, <3>2
  <2>4. CASE RCharacterList(j)
    BY <1>2, <2>4 DEF RCharacterList
  <2>5. QED
    BY <2>1, <2>2, <2>3, <2>4
<1>5. CASE sess' = sess
  BY <1>3, <1>5 DEF Live
<1>6. ASSUME NEW l, Live(c), sess' = [sess EXCEPT ![c].list = l]
      PROVE  \A d \in Conns : (Live(d)' => Live(d)) /\ (Live(d) => sess'[d].key = sess[d].key)
  <2>1. \A d \in Conns : d # c => sess'[d] = sess[d]
    BY <1>1, <1>6
  <2>2. sess'[c] = [sess[c] EXCEPT !.list = l]
    BY <1>1, <1>6
  <2>3. sess'[c].key = sess[c].key
    BY <1>1, <1>6, <2>2 DEF Sessions
  <2>4. QED
    BY <1>6, <2>1, <2>3 DEF Live
<1>7. QED
  BY <1>3, <1>4, <1>5, <1>6

LEMMA ResultAnswers ==
  ASSUME Inv, Answerable, Result
  PROVE  Answerable'
<1>1. PICK j \in jobs :
        /\ RCharacterList(j) \/ RCreateCharacter(j) \/ RCharacterNameCheck(j) \/ RDeleteCharacter(j) \/ RLogout(j)
        /\ jobs' = jobs \ {j}
  BY DEF Result
<1>2. UNCHANGED <<up, down, crashes>>
  BY DEF Result, maps
<1>3. \A d : AskingKept(d)
  BY <1>2, SameLonger, LinksGrow
<1>4. CASE RLogout(j)
  <2>1. UNCHANGED <<sess, phase>> /\ j.kind = "logout"
    BY <1>4 DEF RLogout
  <2>2. j.conn = NoConn /\ NoConn \notin Conns
    BY <2>1, EntryAssumption, InvParts DEF WiresOK, Queries, Logout
  <2>3. QED
    BY <1>1, <1>2, <1>3, <2>1, <2>2, OthersWait DEF Live
<1>5. CASE RCharacterList(j) \/ RCreateCharacter(j) \/ RCharacterNameCheck(j) \/ RDeleteCharacter(j)
  <2>1. j.kind \in {"list", "name", "make", "remove"} /\ j.kind # "logout"
    BY <1>5 DEF RCharacterList, RCreateCharacter, RCharacterNameCheck, RDeleteCharacter
  <2>2. PICK c \in Conns : c = j.conn
    BY <2>1, InvParts, QueryFields
  <2>3. /\ \A d \in Conns : (Live(d)' => Live(d)) /\ (Live(d) => sess'[d].key = sess[d].key)
        /\ \A d \in Conns : d # c => phase'[d] = phase[d]
    BY <1>5, <2>1, <2>2, ResultSessions
  <2>4. ASSUME Live(c)' PROVE HasAnswer(c)'
    <3>1. PICK key : key = sess[c].key
      OBVIOUS
    <3>2. Live(c) /\ HasAnswer(c) /\ sess'[c].key = key
      BY <2>3, <2>4, <3>1 DEF Answerable
    <3>3. CASE phase'[c] = "choose"
      BY <3>3, NothingAwaited
    <3>4. CASE phase'[c] # "choose"
      <4>1. phase \in [Conns -> Waiting \cup {"none", "choose", "enter", "play"}]
        BY InvParts DEF SessionsFit, SessTypes
      <4>2. /\ RCharacterList(j) => phase' = phase /\ sess[c].key # j.key
            /\ RCreateCharacter(j) \/ RDeleteCharacter(j) => phase' = phase /\ phase[c] # "make"
            /\ RCharacterNameCheck(j) => phase' = phase /\ phase[c] # "name"
        BY <2>2, <3>2, <3>4, <4>1 DEF RCharacterList, RCreateCharacter, RCharacterNameCheck, RDeleteCharacter, Phase
      <4>3. /\ phase'[c] = phase[c]
            /\ phase[c] = "list" => ~(j.kind = "list" /\ j.key = key)
            /\ phase[c] = "make" => j.kind \notin {"make", "remove"}
            /\ phase[c] = "name" => j.kind # "name"
        BY <1>5, <3>1, <4>2 DEF RCharacterList, RCreateCharacter, RCharacterNameCheck, RDeleteCharacter
      <4>4. QED
        BY <1>1, <1>2, <3>1, <3>2, <4>3, OtherAnswered
    <3>5. QED
      BY <3>3, <3>4
  <2>5. \A i \in jobs : i.conn \in Conns /\ i.conn # c => i \in jobs'
    BY <1>1, <2>2
  <2>6. QED
    BY <1>2, <1>3, <2>3, <2>4, <2>5, OthersWait
<1>6. QED
  BY <1>1, <1>4, <1>5

(* A message of m is handled, and only the client of d is told something.  *)
LEMMA MessageAnswers ==
  ASSUME Inv, Answerable, NEW m \in Maps, Taken(m), \A n \in Maps : Longer(up'[n], up[n]),
         NEW msg, msg = Head(down[m]), NEW d, msg.kind \in ChannelAnswers => msg.conn = d,
         \A c \in Conns : c # d => sess'[c] = sess[c] /\ phase'[c] = phase[c],
         jobs \subseteq jobs',
         d \in Conns /\ Live(d)' => HasAnswer(d)'
  PROVE  Answerable'
<1>1. AskingKept(d)
  BY TakenKeeps DEF AskingKept
<1>2. crashes' = crashes
  BY DEF Taken, limits
<1>3. QED
  BY <1>1, <1>2, OthersWait DEF Live

LEMMA ChannelTold ==
  ASSUME Inv, Answerable, NEW m \in Maps, Taken(m), NEW msg, msg = Head(down[m]),
         ChannelInfoAck(msg) \/ ChannelInfoNack(msg)
  PROVE  Answerable'
<1>1. UNCHANGED <<sess, jobs, up>> /\ msg.kind \in ChannelAnswers /\ crashes' = crashes
  BY DEF ChannelInfoAck, ChannelInfoNack, ChannelAnswers, Taken, limits
<1>2. PICK d : d = msg.conn
  OBVIOUS
<1>3. phase \in [Conns -> Waiting \cup {"none", "choose", "enter", "play"}]
  BY InvParts DEF SessionsFit, SessTypes
<1>4. \A c \in Conns : c # d => phase'[c] = phase[c]
  BY <1>2, <1>3 DEF ChannelInfoAck, ChannelInfoNack
<1>5. \A n \in Maps : Longer(up'[n], up[n])
  BY <1>1, SameLonger
<1>6. ASSUME d \in Conns, Live(d)' PROVE HasAnswer(d)'
  <2>1. Live(d) /\ HasAnswer(d)
    BY <1>1, <1>6 DEF Answerable, Live
  <2>2. CASE phase'[d] = "choose"
    BY <2>2, NothingAwaited
  <2>3. CASE phase'[d] # "choose"
    <3>1. phase' = phase /\ (phase[d] = "channel" => sess[d].key # msg.key)
      BY <1>2, <1>3, <1>6, <2>1, <2>3 DEF ChannelInfoAck, ChannelInfoNack
    <3>2. PICK key : key = sess[d].key
      OBVIOUS
    <3>3. phase[d] = "channel" /\ Asking(d, key) => Asking(d, key)'
      BY <1>5, <3>1, <3>2, TakenKeeps
    <3>4. QED
      BY <1>1, <1>6, <2>1, <3>1, <3>2, <3>3, StillAwaited
  <2>4. QED
    BY <2>2, <2>3
<1>7. QED
  BY <1>1, <1>2, <1>4, <1>5, <1>6, MessageAnswers

LEMMA GameinAckAnswers ==
  ASSUME Inv, Answerable, NEW m \in Maps, Taken(m), NEW msg, msg = Head(down[m]), GameinAck(m, msg)
  PROVE  Answerable'
<1>1. msg \in Messages /\ msg.kind = "gamein_ack" /\ jobs' = jobs
  BY TakenMessage DEF GameinAck
<1>2. msg.kind \in PlayKinds /\ msg.kind \notin ChannelAnswers
  BY <1>1 DEF PlayKinds, ChannelAnswers
<1>3. /\ [msg EXCEPT !.kind = "gamein_nack"] \in Messages
      /\ [msg EXCEPT !.kind = "othermap"] \in Messages
      /\ msg.char \in Chars
  BY <1>1, <1>2, MessageIs DEF PlayKinds
<1>4. PICK d : d = byChar[msg.char]
  OBVIOUS
<1>5. /\ sess \in [Conns -> Sessions \cup {NoSess}]
      /\ phase \in [Conns -> Waiting \cup {"none", "choose", "enter", "play"}]
      /\ d \in Conns \cup {NoConn} /\ NoConn \notin Conns
  BY <1>3, <1>4, InvParts, EntryAssumption DEF SessionsFit, SessTypes
<1>6. CASE d = NoConn \/ sess[d].key # msg.key
  <2>1. Sent(m, [msg EXCEPT !.kind = "gamein_nack"]) /\ UNCHANGED <<sess, phase>>
    BY <1>4, <1>6 DEF GameinAck
  <2>2. \A n \in Maps : Longer(up'[n], up[n])
    BY <1>3, <2>1, SentLonger
  <2>3. QED
    BY <1>1, <1>2, <1>5, <2>1, <2>2, MessageAnswers
<1>7. CASE ~(d = NoConn \/ sess[d].key # msg.key)
  <2>1. /\ sess' = [sess EXCEPT ![d].list[msg.char] = sess[d].map] /\ phase' = [phase EXCEPT ![d] = "play"]
        /\ Broadcast(m, [msg EXCEPT !.kind = "othermap"])
    BY <1>4, <1>7 DEF GameinAck, Phase
  <2>2. \A n \in Maps : Longer(up'[n], up[n])
    BY <1>3, <2>1 DEF Broadcast, Longer
  <2>3. HasAnswer(d)'
    BY <1>5, <1>7, <2>1, NothingAwaited
  <2>4. \A c \in Conns : c # d => sess'[c] = sess[c] /\ phase'[c] = phase[c]
    BY <1>5, <2>1
  <2>5. QED
    BY <1>1, <1>2, <2>2, <2>3, <2>4, MessageAnswers
<1>8. QED
  BY <1>6, <1>7

LEMMA GameinNackAnswers ==
  ASSUME Inv, Answerable, NEW m \in Maps, Taken(m), NEW msg, msg = Head(down[m]), GameinNack(m, msg)
  PROVE  Answerable'
<1>1. msg \in Messages /\ msg.kind = "gamein_nack"
  BY TakenMessage DEF GameinNack
<1>2. msg.kind \in PlayKinds /\ msg.kind \notin ChannelAnswers
  BY <1>1 DEF PlayKinds, ChannelAnswers
<1>3. msg.char \in Chars
  BY <1>1, <1>2, MessageIs
<1>4. PICK d : d = byChar[msg.char]
  OBVIOUS
<1>5. CASE d = NoConn
  <2>1. UNCHANGED <<sess, phase, jobs, up>>
    BY <1>4, <1>5 DEF GameinNack, agent
  <2>2. \A n \in Maps : Longer(up'[n], up[n])
    BY <2>1, SameLonger
  <2>3. QED
    BY <1>2, <1>5, <2>1, <2>2, EntryAssumption, MessageAnswers
<1>6. CASE d # NoConn
  <2>1. Gone({d}, {}) /\ Sent(sess[d].map, Msg("disconnected", d, NoMap))
    BY <1>4, <1>6 DEF GameinNack
  <2>2. d \in Conns /\ Live(d) /\ sess[d].char # NoChar /\ sess[d].map \in Maps
    BY <1>3, <1>4, <1>6, Found, EntryAssumption
  <2>3. Msg("disconnected", d, NoMap) \in Messages
    BY <2>2, PlayerMessage DEF PlayKinds
  <2>4. \A n \in Maps : Longer(up'[n], up[n])
    BY <2>1, <2>2, <2>3, SentLonger
  <2>5. AskingKept(NoConn)
    BY <1>2, <2>4, TakenKeeps DEF AskingKept
  <2>6. crashes' = crashes /\ {d} \in SUBSET Conns
    BY <2>2 DEF Taken, limits
  <2>7. QED
    BY <2>1, <2>5, <2>6, EndAnswers
<1>7. QED
  BY <1>5, <1>6

LEMMA LeftForAnswers ==
  ASSUME Inv, Answerable, NEW m \in Maps, Taken(m), NEW msg, msg = Head(down[m]),
         msg.kind \in WayKinds, LeftFor(msg)
  PROVE  Answerable'
<1>1. msg \in Messages /\ msg.kind \notin ChannelAnswers
  BY TakenMessage DEF ChannelAnswers, WayKinds
<1>2. msg.char \in Chars
  BY <1>1, MessageIs
<1>3. PICK d : d = byChar[msg.char]
  OBVIOUS
<1>4. /\ sess \in [Conns -> Sessions \cup {NoSess}]
      /\ phase \in [Conns -> Waiting \cup {"none", "choose", "enter", "play"}]
      /\ d \in Conns \cup {NoConn} /\ NoConn \notin Conns
  BY <1>2, <1>3, InvParts, EntryAssumption DEF SessionsFit, SessTypes
<1>5. jobs' = jobs /\ \A n \in Maps : Longer(up'[n], up[n])
  BY SameLonger DEF LeftFor
<1>6. CASE UNCHANGED <<sess, phase>>
  BY <1>1, <1>4, <1>5, <1>6, MessageAnswers
<1>7. CASE /\ d # NoConn /\ sess' = [sess EXCEPT ![d].map = msg.map]
           /\ phase' = [phase EXCEPT ![d] = "enter"]
  <2>1. \A c \in Conns : c # d => sess'[c] = sess[c] /\ phase'[c] = phase[c]
    BY <1>4, <1>7
  <2>2. HasAnswer(d)'
    BY <1>4, <1>7, NothingAwaited
  <2>3. QED
    BY <1>1, <1>5, <2>1, <2>2, MessageAnswers
<1>8. QED
  BY <1>3, <1>6, <1>7 DEF LeftFor, Phase

LEMMA BackAckAnswers ==
  ASSUME Inv, Answerable, NEW m \in Maps, Taken(m), NEW msg, msg = Head(down[m]), BackToCharSelAck(m, msg)
  PROVE  Answerable'
<1>1. msg \in Messages /\ msg.kind = "back"
  BY TakenMessage DEF BackToCharSelAck
<1>2. msg.kind \in PlayKinds /\ msg.kind \notin ChannelAnswers
  BY <1>1 DEF PlayKinds, ChannelAnswers
<1>3. msg.char \in Chars
  BY <1>1, <1>2, MessageIs
<1>4. PICK d : d = byChar[msg.char]
  OBVIOUS
<1>5. /\ sess \in [Conns -> Sessions \cup {NoSess}]
      /\ phase \in [Conns -> Waiting \cup {"none", "choose", "enter", "play"}]
      /\ NoConn \notin Conns
  BY InvParts, EntryAssumption DEF SessionsFit, SessTypes
<1>6. \A n \in Maps : Longer(up'[n], up[n])
  BY SameLonger DEF BackToCharSelAck
<1>7. CASE d = NoConn
  <2>1. UNCHANGED <<sess, phase, jobs>>
    BY <1>4, <1>7 DEF BackToCharSelAck
  <2>2. QED
    BY <1>2, <1>5, <1>6, <2>1, MessageAnswers
<1>8. CASE d # NoConn
  <2>1. /\ jobs' = jobs \cup {Job("list", d, NoChar)}
        /\ sess' = [sess EXCEPT ![d].char = NoChar, ![d].map = NoMap]
        /\ phase' = [phase EXCEPT ![d] = "list"]
    BY <1>4, <1>8 DEF BackToCharSelAck, Phase
  <2>2. d \in Conns /\ sess[d] \in Sessions
    BY <1>3, <1>4, <1>8, Found
  <2>3. \A c \in Conns : c # d => sess'[c] = sess[c] /\ phase'[c] = phase[c]
    BY <1>5, <2>1
  <2>4. PICK key : key = sess[d].key
    OBVIOUS
  <2>5. sess'[d].key = key /\ phase'[d] = "list"
    BY <1>5, <2>1, <2>2, <2>4 DEF Sessions
  <2>6. PICK j : j = Job("list", d, NoChar)
    OBVIOUS
  <2>7. j \in jobs' /\ j.kind = "list" /\ j.conn = d /\ j.key = key
    BY <2>1, <2>4, <2>6 DEF Job
  <2>8. Listing(d, key)'
    BY <2>7, ListCounts
  <2>9. Listing(d, sess[d].key)'
    BY <2>5, <2>8 DEF Listing
  <2>10. HasAnswer(d)'
    BY <2>5, <2>9 DEF HasAnswer
  <2>11. QED
    BY <1>2, <1>6, <2>1, <2>3, <2>10, MessageAnswers
<1>9. QED
  BY <1>7, <1>8

LEMMA FromMapAnswers ==
  ASSUME Inv, Answerable, NEW m \in Maps, FromMap(m)
  PROVE  Answerable'
<1>1. Taken(m)
  BY DEF FromMap, Taken
<1>2. PICK msg : msg = Head(down[m])
  OBVIOUS
<1>3. CASE GameinAck(m, msg)
  BY <1>1, <1>2, <1>3, GameinAckAnswers
<1>4. CASE GameinNack(m, msg)
  BY <1>1, <1>2, <1>4, GameinNackAnswers
<1>5. CASE MapOut(m, msg) \/ NpcMapOut(m, msg) \/ MapOutWithMapNum(m, msg)
  <2>1. msg.kind \in WayKinds /\ LeftFor(msg)
    BY <1>5 DEF MapOut, NpcMapOut, MapOutWithMapNum, WayKinds
  <2>2. QED
    BY <1>1, <1>2, <2>1, LeftForAnswers
<1>6. CASE BackToCharSelAck(m, msg)
  BY <1>1, <1>2, <1>6, BackAckAnswers
<1>7. CASE LoginCheckDelete(m, msg)
  <2>1. /\ UNCHANGED <<sess, phase, up>> /\ jobs \subseteq jobs' /\ msg.kind \notin ChannelAnswers
        /\ NoConn \notin Conns
    BY <1>7, EntryAssumption DEF LoginCheckDelete, agent, ChannelAnswers
  <2>2. \A n \in Maps : Longer(up'[n], up[n])
    BY <2>1, SameLonger
  <2>3. QED
    BY <1>1, <1>2, <2>1, <2>2, MessageAnswers
<1>8. CASE ChannelInfoAck(msg) \/ ChannelInfoNack(msg)
  BY <1>1, <1>2, <1>8, ChannelTold
<1>9. QED
  BY <1>2, <1>3, <1>4, <1>5, <1>6, <1>7, <1>8 DEF FromMap

(* The agent does nothing. *)
LEMMA AgentIdle ==
  ASSUME Answerable, UNCHANGED <<sess, phase, jobs>>, crashes' = 0 => crashes = 0 /\ AskingKept(NoConn)
  PROVE  Answerable'
<1>1. NoConn \notin Conns
  BY EntryAssumption
<1>2. QED
  BY <1>1, OthersWait DEF Live

(* A map server takes what it was sent, and answers at once for the        *)
(* channels.                                                               *)
LEMMA ServesAnswers ==
  ASSUME Inv, Answerable, NEW m \in Maps, MapServes(m)
  PROVE  Answerable'
<1>1. /\ m \in alive /\ up[m] # <<>> /\ up' = [up EXCEPT ![m] = Tail(@)]
      /\ UNCHANGED <<sess, phase, jobs, crashes>>
  BY DEF MapServes, agent, limits
<1>2. up \in [Maps -> Seq(Messages)] /\ down \in [Maps -> Seq(Messages)]
  BY LinkTypes
<1>3. PICK msg \in Messages : msg = Head(up[m])
  BY <1>1, <1>2, UpTaken
<1>4. \A n \in Maps : up'[n] = up[n] \/ (n = m /\ Shorter(up'[n], up[n], msg))
  BY <1>1, <1>2, <1>3 DEF Shorter
<1>5. PICK put : /\ down' = down \/ (put \in Messages /\ down' = [down EXCEPT ![m] = Append(@, put)])
                 /\ msg.kind = "channel" =>
                      /\ put \in Messages /\ down' = [down EXCEPT ![m] = Append(@, put)]
                      /\ put.kind \in ChannelAnswers /\ put.conn = msg.conn /\ put.key = msg.key
  <2>1. CASE msg.kind = "channel"
    <3>1. PICK kind \in ChannelAnswers : down' = [down EXCEPT ![m] = Append(@, [msg EXCEPT !.kind = kind])]
      BY <1>3, <2>1, EntryAssumption DEF MapServes, ChannelAnswers
    <3>2. PICK put : put = [msg EXCEPT !.kind = kind]
      OBVIOUS
    <3>3. msg \in [kind : {"channel", "channel_ack", "channel_nack"}, conn : Conns, key : 1..keys]
      BY <2>1 DEF Messages, PlayKinds, WayKinds
    <3>4. put \in Messages /\ put.kind \in ChannelAnswers /\ put.conn = msg.conn /\ put.key = msg.key
      BY <3>2, <3>3 DEF Messages, ChannelAnswers
    <3>5. QED
      BY <3>1, <3>2, <3>4
  <2>2. CASE msg.kind # "channel"
    <3>1. \/ UNCHANGED down
          \/ down' = [down EXCEPT ![m] = Append(@, msg)]
          \/ /\ msg.kind = "disconnected"
             /\ down' = [down EXCEPT ![m] = Append(@, [msg EXCEPT !.kind = "logincheck_delete"])]
      BY <1>3, <2>2 DEF MapServes
    <3>2. msg.kind = "disconnected" => [msg EXCEPT !.kind = "logincheck_delete"] \in Messages
      BY MessageIs DEF PlayKinds
    <3>3. QED
      BY <2>2, <3>1, <3>2
  <2>3. QED
    BY <2>1, <2>2
<1>6. \A n \in Maps : Longer(down'[n], down[n])
  BY <1>2, <1>5 DEF Longer
<1>7. ASSUME NEW c \in Conns, NEW key, Asking(c, key) PROVE Asking(c, key)'
  <2>1. PICK n \in Maps : Carries(up[n], {"channel"}, c, key) \/ Carries(down[n], ChannelAnswers, c, key)
    BY <1>7 DEF Asking
  <2>2. CASE Carries(down[n], ChannelAnswers, c, key)
    <3>1. Carries(down'[n], ChannelAnswers, c, key)
      BY <1>2, <1>6, <2>2, LongerCarries
    <3>2. QED
      BY <3>1 DEF Asking
  <2>3. CASE Carries(up[n], {"channel"}, c, key)
    <3>1. CASE Carries(up'[n], {"channel"}, c, key)
      BY <3>1 DEF Asking
    <3>2. CASE ~Carries(up'[n], {"channel"}, c, key)
      <4>1. n = m /\ Shorter(up'[m], up[m], msg)
        BY <1>4, <2>3, <3>2
      <4>2. msg.kind = "channel" /\ msg.conn = c /\ msg.key = key
        BY <1>2, <2>3, <3>2, <4>1, ShorterCarries
      <4>3. down'[m] = Append(down[m], put) /\ put \in Messages /\ put.kind \in ChannelAnswers
            /\ put.conn = c /\ put.key = key
        BY <1>2, <1>5, <4>2
      <4>4. Carries(down'[m], ChannelAnswers, c, key)
        BY <1>2, <4>3, PutCarries
      <4>5. QED
        BY <4>4 DEF Asking
    <3>3. QED
      BY <3>1, <3>2
  <2>4. QED
    BY <2>1, <2>2, <2>3
<1>8. AskingKept(NoConn)
  BY <1>7 DEF AskingKept
<1>9. QED
  BY <1>1, <1>8, AgentIdle

LEMMA MapAnswers ==
  ASSUME Inv, PlaceInv, Answerable, NEW m \in Maps, MapLoads(m) \/ MapCrash(m) \/ MapStart(m)
  PROVE  Answerable'
<1>1. CASE MapLoads(m)
  <2>1. PICK e \in world[m], ok \in BOOLEAN :
          down' = [down EXCEPT ![m] = Append(@, [kind |-> IF ok THEN "gamein_ack" ELSE "gamein_nack",
                      char |-> e.char, key |-> e.key, user |-> e.user, map |-> NoMap])]
    BY <1>1 DEF MapLoads
  <2>2. PICK msg : msg = [kind |-> IF ok THEN "gamein_ack" ELSE "gamein_nack",
                          char |-> e.char, key |-> e.key, user |-> e.user, map |-> NoMap]
    OBVIOUS
  <2>3. e \in Entries /\ (IF ok THEN "gamein_ack" ELSE "gamein_nack") \in PlayKinds
    BY LinkTypes DEF PlayKinds
  <2>4. msg \in Messages
    BY <2>2, <2>3 DEF Messages, Entries
  <2>5. \A n \in Maps : Longer(down'[n], down[n])
    BY <2>1, <2>2, <2>4, LinkTypes DEF Longer
  <2>6. UNCHANGED <<sess, phase, jobs, up, crashes>>
    BY <1>1 DEF MapLoads, agent, base, limits
  <2>7. AskingKept(NoConn)
    BY <2>5, <2>6, SameLonger, LinksGrow
  <2>8. QED
    BY <2>6, <2>7, AgentIdle
<1>2. CASE MapCrash(m)
  <2>1. UNCHANGED <<sess, phase, jobs>> /\ crashes' = crashes + 1
    BY <1>2 DEF MapCrash, agent, base
  <2>2. crashes' # 0
    BY <2>1 DEF PlaceInv, WorldFits, ServersFit
  <2>3. QED
    BY <2>1, <2>2, AgentIdle
<1>3. CASE MapStart(m)
  <2>1. UNCHANGED <<sess, phase, jobs, up, down, crashes>>
    BY <1>3 DEF MapStart, agent, base, limits
  <2>2. AskingKept(NoConn)
    BY <2>1, SameLonger, LinksGrow
  <2>3. QED
    BY <2>1, <2>2, AgentIdle
<1>4. QED
  BY <1>1, <1>2, <1>3

LEMMA ClientAnswers == ASSUME Inv, PlaceInv, Answerable, NEW c \in Conns, Client(c) PROVE Answerable'
<1>1. CASE \E u \in Users : Connect(c, u)
  BY <1>1, ConnectAnswers
<1>2. CASE OnDisconnectUser(c)
  BY <1>2, DisconnectAnswers
<1>3. CASE \E x \in Chars : CharacterMakeSyn(c, x) \/ CharacterRemoveSyn(c, x)
  BY <1>3, OutsideAnswers
<1>4. CASE \E x \in Chars : ChannelInfoSyn(c, x)
  BY <1>4, ChannelAnswersCome
<1>5. CASE \E x \in Chars : CharacterSelectSyn(c, x)
  <2>1. PICK x \in Chars : CharacterSelectSyn(c, x)
    BY <1>5
  <2>2. Maps # {}
    <3>1. sess[c] \in Sessions /\ sess[c].list[x] # NoMap
      BY <2>1, LiveSession, InvParts DEF CharacterSelectSyn, SessionsFit
    <3>2. QED
      BY <3>1 DEF Sessions
  <2>3. QED
    BY <2>1, <2>2, PlayerAnswers DEF WayKinds
<1>6. CASE CharacterNameCheckSyn(c)
  BY <1>6, OutsideAnswers
<1>7. CASE GameinSyn(c) \/ GameInPosSyn(c) \/ BackToCharSelSyn(c)
  <2>1. EnterMap(c) \/ BackToCharSelSyn(c)
    BY <1>7 DEF GameinSyn, GameInPosSyn
  <2>2. sess[c].map \in Maps
    <3>1. Live(c) /\ phase[c] \in InGame
      BY <2>1 DEF EnterMap, BackToCharSelSyn, InGame
    <3>2. QED
      BY <3>1, PhaseOf, PlayerAt
  <2>3. QED
    BY <2>1, <2>2, PlayerAnswers DEF WayKinds
<1>8. CASE \E m \in Maps : \/ ChangeMapSyn(c, m) \/ ReturnSyn(c, m) \/ NpcChangeMapSyn(c, m)
                           \/ HouseEntranceSyn(c, m) \/ DungeonEntranceSyn(c, m)
  <2>1. PICK m \in Maps, way \in WayKinds : GoesTo(c, m, way)
    BY <1>8 DEF ChangeMapSyn, ReturnSyn, NpcChangeMapSyn, HouseEntranceSyn, DungeonEntranceSyn, WayKinds
  <2>2. QED
    BY <2>1, PlayerAnswers
<1>9. QED
  BY <1>1, <1>2, <1>3, <1>4, <1>5, <1>6, <1>7, <1>8 DEF Client

LEMMA NextAnswers == Inv /\ PlaceInv /\ Answerable /\ [Next]_vars => Answerable'
<1> SUFFICES ASSUME Inv, PlaceInv, Answerable, [Next]_vars PROVE Answerable'
  OBVIOUS
<1>1. CASE \E c \in Conns : Client(c)
  BY <1>1, ClientAnswers
<1>2. CASE Result
  BY <1>2, ResultAnswers
<1>3. CASE \E x \in Chars : RGMBanCharacter(x) \/ CheatServerBanCharacter(x)
  BY <1>3, BanAnswers
<1>4. CASE DisconnectAllUser
  BY <1>4, DisconnectAllAnswers
<1>5. CASE \E m \in Maps : FromMap(m) \/ OnDisconnectServer(m)
  BY <1>5, FromMapAnswers, ServerDownAnswers
<1>6. CASE \E m \in Maps : MapServes(m) \/ MapLoads(m) \/ MapCrash(m) \/ MapStart(m)
  BY <1>6, ServesAnswers, MapAnswers
<1>7. CASE UNCHANGED vars
  BY <1>7 DEF vars, Answerable, HasAnswer, Listing, Queried, Asking, Live
<1>8. QED
  BY <1>1, <1>2, <1>3, <1>4, <1>5, <1>6, <1>7 DEF Next

(* A client that is in the game does not wait for long, either.            *)
LEMMA PlayersHaveAnswers ==
  ASSUME Inv, PlaceInv, Quiet, crashes = 0, NEW c \in Conns, Live(c)
  PROVE  phase[c] \notin {"load", "leave", "back"}
<1> SUFFICES ASSUME phase[c] \in {"load", "leave", "back"} PROVE FALSE
  OBVIOUS
<1>1. sess[c].char # NoChar
  BY PhaseOf DEF InGame
<1>2. PICK x \in Chars, m \in Maps : PlaysAs(c, m, x)
  BY <1>1, PlayerAt DEF PlaysAs
<1>3. Stage(c, m, x)
  BY <1>2 DEF PlaceInv, Placed, Settled
<1>4. m \in alive
  BY DEF PlaceInv, WorldFits, ServersFit
<1>5. ~Has(c, m, x, FALSE)
  BY DEF Has, Quiet
<1>6. /\ ~Asked(c, m, x) /\ ~Loading(c, m, x) /\ ~Loaded(c, m, x) /\ ~Refused(c, m, x)
      /\ ~Leaving(c, m, x) /\ ~HasLeft(c, m, x)
  BY <1>5, QuietLinksEmpty DEF Asked, Loading, Loaded, Refused, Leaving, HasLeft
<1>7. QED
  BY <1>3, <1>4, <1>6 DEF Stage

(* No client is forgotten while no map server has crashed: as long as one  *)
(* waits, the query, the request or the answer that will end it is under   *)
(* way, or its character is being loaded.                                  *)
THEOREM NobodyIsForgotten == Spec => []NobodyWaits
<1>1. Init => Answerable
  BY DEF Init, Answerable, Live
<1>2. Inv /\ PlaceInv /\ Answerable => NobodyWaits
  <2> SUFFICES ASSUME Inv, PlaceInv, Answerable, Quiet, crashes = 0, NEW c \in Conns, phase[c] \in Waiting
               PROVE  FALSE
    BY DEF NobodyWaits
  <2>1. Live(c)
    BY DEF Inv, TypeOK, Waiting
  <2>2. phase[c] \notin {"load", "leave", "back"}
    BY <2>1, PlayersHaveAnswers
  <2>3. HasAnswer(c)
    BY <2>1 DEF Answerable
  <2>4. \A key : ~Asking(c, key)
    BY DEF Asking, Carries, Quiet
  <2>5. \A K, key : ~Queried(K, c) /\ ~Listing(c, key)
    BY DEF Queried, Listing, Quiet
  <2>6. QED
    BY <2>2, <2>3, <2>4, <2>5 DEF HasAnswer, Waiting
<1>3. QED
  BY <1>1, <1>2, NextAnswers, PlacesAlways, PTL DEF Spec
=============================================================================
