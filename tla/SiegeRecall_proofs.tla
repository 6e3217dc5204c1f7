-------------------------- MODULE SiegeRecall_proofs --------------------------
(***************************************************************************)
(* What holds of siege recall for every script the agents start with, any  *)
(* number of agents, map servers and requests, and any number of rows of   *)
(* the database.                                                           *)
(*                                                                         *)
(* The tree and the messages are made with FlattenSeq and FoldLeft, which  *)
(* are recursive functions.  The first parts say what these return, by     *)
(* going to the least length at which it fails (AllReached, AllBuilt): for *)
(* FlattenSeq, what is flattened when one part is added, and where each    *)
(* element of a part ends up; for FoldLeft, that there is a tree after     *)
(* each of the lines (ReadLines).                                          *)
(*                                                                         *)
(* MessagesFollow: every list of messages an agent makes is Sound, in it   *)
(* the terms and commands of an object are led by its addobj.  What a map  *)
(* server was sent is a series of such lists without the messages for      *)
(* others (IInv); an addobj is left out only for a row of another map, and *)
(* the property asks nothing there.                                        *)
(*                                                                         *)
(* ScriptKept: Tracks says of the tree after n lines what these lines are, *)
(* whether its last theme and its last map are there, which numbers are    *)
(* taken, and whether the last map has a step.  Each line keeps that, and  *)
(* adds to the objects of the tree what KeptAt says of it (LineTracks).    *)
(***************************************************************************)
EXTENDS SiegeRecall, FiniteSetTheorems, SequenceTheorems, WellFoundedInduction, TLAPS

(* A set of naturals that is not empty has a least element. *)
LEMMA LeastOf ==
  ASSUME NEW T, T \subseteq Nat, T # {}
  PROVE  \E n \in T : \A x \in T : n <= x
<1> DEFINE Less == {p \in Nat \X Nat : p[1] < p[2]}
<1>1. IsWellFoundedOn(Less, Nat)
  BY NatLessThanWellFounded, Zenon DEF OpToRel
<1>2. PICK n \in T : \A y \in T : <<y, n>> \notin Less
  BY <1>1, WFMin
<1>3. ASSUME NEW y \in T PROVE n <= y
  <2>1. n \in Nat /\ y \in Nat /\ ~(y < n)
    BY <1>2
  <2> QED BY <2>1
<1> QED BY <1>3

(* Induction, for a set of naturals. *)
LEMMA AllReached ==
  ASSUME NEW P, NEW n \in Nat, 0 \in P, \A i \in 0..(n - 1) : i \in P => i + 1 \in P
  PROVE  \A i \in 0..n : i \in P
<1> DEFINE Missed == {i \in 0..n : i \notin P}
<1>1. SUFFICES ASSUME Missed # {} PROVE FALSE
  OBVIOUS
<1>2. PICK k \in Missed : \A x \in Missed : k <= x
  <2>1. Missed \subseteq Nat
    OBVIOUS
  <2> QED BY <1>1, <2>1, LeastOf
<1>3. k # 0 /\ k \in Nat /\ k <= n
  BY <1>2
<1>4. k - 1 \in 0..(n - 1) /\ k - 1 \notin Missed
  BY <1>2, <1>3
<1>5. k - 1 \in P
  BY <1>4
<1> QED BY <1>4, <1>5, <1>2, <1>3

-----------------------------------------------------------------------------
(* FlattenSeq is given by a recursive function: there is one for every     *)
(* length.                                                                 *)
FlatStep(s, f, i) == IF i = 1 THEN s[i] ELSE f[i - 1] \o s[i]

(* The parts of s, one after the other. *)
Joined(S, s, f, n) ==
  /\ f \in [1..n -> Seq(S)]
  /\ \A i \in 1..n : f[i] = FlatStep(s, f, i)

LEMMA FlatExists ==
  ASSUME NEW S, NEW s \in Seq(Seq(S))
  PROVE  \E f : Joined(S, s, f, Len(s))
<1> DEFINE P == {n \in 0..Len(s) : \E f : Joined(S, s, f, n)}
<1>0. Len(s) \in Nat /\ \A i \in 1..Len(s) : s[i] \in Seq(S)
  OBVIOUS
<1>1. 0 \in P
  <2>1. Joined(S, s, [i \in 1..0 |-> <<>>], 0)
    BY DEF Joined
  <2> QED BY <2>1, <1>0
<1>2. ASSUME NEW n \in 0..(Len(s) - 1), n \in P PROVE n + 1 \in P
  <2>1. PICK f : Joined(S, s, f, n)
    BY <1>2
  <2> DEFINE g == [i \in 1..(n + 1) |-> IF i <= n THEN f[i] ELSE FlatStep(s, f, i)]
  <2>2. s[n + 1] \in Seq(S) /\ n + 1 \in 0..Len(s)
    BY <1>0
  <2>3. ASSUME NEW i \in 1..(n + 1) PROVE g[i] \in Seq(S) /\ g[i] = FlatStep(s, g, i)
    <3>1. CASE i <= n
      <4>1. i \in 1..n /\ g[i] = f[i]
        BY <3>1
      <4>2. i # 1 => i - 1 \in 1..n /\ g[i - 1] = f[i - 1]
        BY <4>1
      <4>3. f[i] = FlatStep(s, f, i) /\ f[i] \in Seq(S)
        BY <4>1, <2>1 DEF Joined
      <4> HIDE DEF g
      <4> QED BY <4>1, <4>2, <4>3 DEF FlatStep
    <3>2. CASE i = n + 1
      <4>1. g[i] = FlatStep(s, f, i)
        BY <3>2
      <4>2. i # 1 => i - 1 \in 1..n /\ g[i - 1] = f[i - 1] /\ f[i - 1] \in Seq(S)
        BY <3>2, <2>1 DEF Joined
      <4> HIDE DEF g
      <4>3. g[i] = FlatStep(s, g, i)
        BY <4>1, <4>2 DEF FlatStep
      <4>4. CASE i = 1
        BY <4>4, <4>1, <2>2, <3>2 DEF FlatStep
      <4>5. CASE i # 1
        <5>1. g[i] = f[i - 1] \o s[n + 1]
          BY <4>1, <4>5, <3>2 DEF FlatStep
        <5>2. \A x, y \in Seq(S) : x \o y \in Seq(S)
          OBVIOUS
        <5>3. f[i - 1] \in Seq(S) /\ s[n + 1] \in Seq(S)
          BY <4>5, <4>2, <2>2
        <5> QED BY <5>1, <5>2, <5>3, <4>3
      <4> QED BY <4>3, <4>4, <4>5
    <3> QED BY <3>1, <3>2
  <2>4. g \in [1..(n + 1) -> Seq(S)]
    BY <2>3
  <2>5. Joined(S, s, g, n + 1)
    BY <2>3, <2>4 DEF Joined
  <2> QED BY <2>5, <2>2
<1>3. \A i \in 0..Len(s) : i \in P
  <2> HIDE DEF P
  <2> QED BY <1>0, <1>1, <1>2, AllReached
<1> QED BY <1>3, <1>0

LEMMA JoinedOnce ==
  ASSUME NEW S, NEW s \in Seq(Seq(S)), NEW f, NEW g,
         Joined(S, s, f, Len(s)), DOMAIN g = 1..Len(s),
         \A i \in 1..Len(s) : g[i] = FlatStep(s, g, i)
  PROVE  \A i \in 1..Len(s) : f[i] = g[i]
<1> DEFINE n == Len(s)
           P == {i \in 0..n : i = 0 \/ f[i] = g[i]}
<1>1. 0 \in P
  OBVIOUS
<1>2. ASSUME NEW i \in 0..(n - 1), i \in P PROVE i + 1 \in P
  <2>1. i + 1 \in 1..n
    OBVIOUS
  <2>2. f[i + 1] = FlatStep(s, f, i + 1) /\ g[i + 1] = FlatStep(s, g, i + 1)
    BY <2>1 DEF Joined
  <2>3. FlatStep(s, f, i + 1) = FlatStep(s, g, i + 1)
    BY <1>2 DEF FlatStep
  <2> QED BY <2>1, <2>2, <2>3
<1>3. \A i \in 0..n : i \in P
  <2>1. n \in Nat
    OBVIOUS
  <2> HIDE DEF P
  <2> QED BY <2>1, <1>1, <1>2, AllReached
<1>4. \A i \in 1..n : i # 0 /\ i \in 0..n
  OBVIOUS
<1> QED BY <1>3, <1>4

LEMMA FlatIsJoined ==
  ASSUME NEW S, NEW s \in Seq(Seq(S))
  PROVE  /\ Len(s) = 0 => FlattenSeq(s) = <<>>
         /\ \A f : Joined(S, s, f, Len(s)) /\ Len(s) # 0 => FlattenSeq(s) = f[Len(s)]
<1> DEFINE F == CHOOSE f : f = [i \in 1..Len(s) |-> IF i = 1 THEN s[i] ELSE f[i - 1] \o s[i]]
<1>1. Len(s) # 0 => FlattenSeq(s) = F[Len(s)]
  BY DEF FlattenSeq
<1>2. Len(s) = 0 => FlattenSeq(s) = s
  BY DEF FlattenSeq
<1>3. ASSUME NEW f, Joined(S, s, f, Len(s)), Len(s) # 0 PROVE FlattenSeq(s) = f[Len(s)]
  <2>1. f = [i \in 1..Len(s) |-> IF i = 1 THEN s[i] ELSE f[i - 1] \o s[i]]
    BY <1>3 DEF Joined, FlatStep
  <2>2. F = [i \in 1..Len(s) |-> IF i = 1 THEN s[i] ELSE F[i - 1] \o s[i]]
    BY <2>1
  <2> HIDE DEF F
  <2>3. DOMAIN F = 1..Len(s) /\ \A i \in 1..Len(s) : F[i] = FlatStep(s, F, i)
    BY <2>2 DEF FlatStep
  <2>4. Len(s) \in 0..Len(s) /\ Len(s) \in 1..Len(s)
    BY <1>3
  <2>5. \A i \in 1..Len(s) : f[i] = F[i]
    BY <2>3, <1>3, JoinedOnce
  <2> QED BY <2>5, <2>4, <1>1, <1>3
<1> QED BY <1>2, <1>3

(* What it returns. *)
LEMMA FlatEmpty == FlattenSeq(<<>>) = <<>>
BY DEF FlattenSeq

LEMMA FlatAppend ==
  ASSUME NEW S, NEW s \in Seq(Seq(S)), NEW e \in Seq(S)
  PROVE  /\ FlattenSeq(s) \in Seq(S)
         /\ FlattenSeq(Append(s, e)) = FlattenSeq(s) \o e
<1> DEFINE u == Append(s, e)
           n == Len(s)
<1>1. /\ u \in Seq(Seq(S)) /\ Len(u) = n + 1 /\ u[n + 1] = e /\ n \in Nat
      /\ \A i \in 1..n : u[i] = s[i]
  OBVIOUS
<1> HIDE DEF u
<1>2. PICK g : Joined(S, u, g, n + 1)
  BY <1>1, FlatExists
<1>3. FlattenSeq(u) = g[n + 1] /\ g[n + 1] = FlatStep(u, g, n + 1)
  BY <1>1, <1>2, FlatIsJoined DEF Joined
<1>4. CASE n = 0
  <2>1. FlattenSeq(s) = <<>>
    BY <1>4, FlatIsJoined
  <2>2. FlattenSeq(u) = e
    BY <1>3, <1>1, <1>4 DEF FlatStep
  <2> QED BY <2>1, <2>2 DEF u
<1>5. CASE n # 0
  <2> DEFINE f == [i \in 1..n |-> g[i]]
  <2>1. ASSUME NEW i \in 1..n PROVE f[i] \in Seq(S) /\ f[i] = FlatStep(s, f, i)
    <3>1. i \in 1..(n + 1) /\ f[i] = g[i]
      BY <1>1
    <3>2. g[i] \in Seq(S) /\ g[i] = FlatStep(u, g, i)
      BY <3>1, <1>2 DEF Joined
    <3>3. i # 1 => f[i - 1] = g[i - 1]
      BY <1>1
    <3> HIDE DEF f
    <3> QED BY <3>1, <3>2, <3>3, <1>1 DEF FlatStep
  <2>2. f \in [1..n -> Seq(S)]
    BY <2>1
  <2>3. Joined(S, s, f, n)
    BY <2>1, <2>2 DEF Joined
  <2>4. FlattenSeq(s) = f[n]
    BY <2>3, <1>5, FlatIsJoined
  <2>5. n \in 1..n
    BY <1>1, <1>5
  <2>6. FlattenSeq(s) = g[n] /\ FlattenSeq(s) \in Seq(S)
    BY <2>4, <2>5, <2>2
  <2>7. FlattenSeq(u) = g[n] \o e
    BY <1>3, <1>1, <1>5 DEF FlatStep
  <2> QED BY <2>6, <2>7 DEF u
<1> QED BY <1>4, <1>5

(* Induction, for a set of sequences. *)
LEMMA AllBuilt ==
  ASSUME NEW S, NEW P, <<>> \in P,
         \A s \in Seq(S) : \A e \in S : s \in P => Append(s, e) \in P
  PROVE  \A s \in Seq(S) : s \in P
<1> TAKE s \in Seq(S)
<1> DEFINE Q == {n \in 0..Len(s) : SubSeq(s, 1, n) \in P}
<1>0. Len(s) \in Nat
  OBVIOUS
<1>1. 0 \in Q
  <2>1. SubSeq(s, 1, 0) = <<>>
    OBVIOUS
  <2>2. 0 \in 0..Len(s)
    BY <1>0
  <2> QED BY <2>1, <2>2
<1>2. ASSUME NEW n \in 0..(Len(s) - 1), n \in Q PROVE n + 1 \in Q
  <2>1. SubSeq(s, 1, n) \in Seq(S) /\ s[n + 1] \in S
    BY <1>0
  <2>2. SubSeq(s, 1, n + 1) = Append(SubSeq(s, 1, n), s[n + 1])
    BY <1>0
  <2>3. SubSeq(s, 1, n + 1) \in P
    BY <1>2, <2>1, <2>2
  <2>4. n + 1 \in 0..Len(s)
    BY <1>0
  <2> QED BY <2>3, <2>4
<1>3. \A i \in 0..Len(s) : i \in Q
  <2> HIDE DEF Q
  <2> QED BY <1>0, <1>1, <1>2, AllReached
<1>4. SubSeq(s, 1, Len(s)) = s /\ Len(s) \in 0..Len(s)
  OBVIOUS
<1>5. Len(s) \in Q
  BY <1>3, <1>4
<1> QED BY <1>4, <1>5

(* Part i of s begins in f after off[i - 1] elements. *)
Laid(s, f, off) ==
  /\ off \in [0..Len(s) -> Nat]
  /\ off[0] = 0 /\ off[Len(s)] = Len(f)
  /\ \A i \in 1..Len(s) : off[i] = off[i - 1] + Len(s[i])
  /\ \A i, k \in 0..Len(s) : i <= k => off[i] <= off[k]
  /\ \A i \in 1..Len(s) : \A o \in 1..Len(s[i]) : f[off[i - 1] + o] = s[i][o]
  /\ \A j \in 1..Len(f) : \E i \in 1..Len(s) : \E o \in 1..Len(s[i]) : j = off[i - 1] + o

LEMMA LaidAppend ==
  ASSUME NEW S, NEW s \in Seq(Seq(S)), NEW e \in Seq(S), NEW f \in Seq(S), NEW off,
         Laid(s, f, off)
  PROVE  \E p : Laid(Append(s, e), f \o e, p)
<1> DEFINE n == Len(s)
           u == Append(s, e)
           g == f \o e
           p == [i \in 0..(n + 1) |-> IF i <= n THEN off[i] ELSE Len(f) + Len(e)]
<1>1. n \in Nat /\ Len(u) = n + 1 /\ u[n + 1] = e /\ Len(f) \in Nat /\ Len(e) \in Nat
  OBVIOUS
<1>2. ASSUME NEW i \in 1..n PROVE u[i] = s[i] /\ Len(s[i]) \in Nat
  <2>1. s[i] \in Seq(S)
    OBVIOUS
  <2> QED BY <2>1
<1>3. /\ Len(g) = Len(f) + Len(e)
      /\ \A j \in 1..Len(f) : g[j] = f[j]
      /\ \A o \in 1..Len(e) : g[Len(f) + o] = e[o]
  OBVIOUS
<1> HIDE DEF u, g, n
<1>4. /\ off \in [0..n -> Nat] /\ off[0] = 0 /\ off[n] = Len(f)
      /\ \A i \in 1..n : off[i] = off[i - 1] + Len(s[i])
      /\ \A i, k \in 0..n : i <= k => off[i] <= off[k]
      /\ \A i \in 1..n : \A o \in 1..Len(s[i]) : f[off[i - 1] + o] = s[i][o]
      /\ \A j \in 1..Len(f) : \E i \in 1..n : \E o \in 1..Len(s[i]) : j = off[i - 1] + o
  BY DEF Laid, n
<1>5. /\ p \in [0..(n + 1) -> Nat] /\ p[n + 1] = Len(f) + Len(e)
      /\ \A i \in 0..n : p[i] = off[i]
  BY <1>1, <1>4
<1> HIDE DEF p
<1>6. p[0] = 0 /\ p[Len(u)] = Len(g)
  <2>1. 0 \in 0..n
    BY <1>1
  <2> QED BY <2>1, <1>1, <1>3, <1>4, <1>5
<1>7. \A i \in 1..Len(u) : i \in 1..n \/ i = n + 1
  BY <1>1
<1>8. ASSUME NEW i \in 1..Len(u) PROVE p[i] = p[i - 1] + Len(u[i])
  <2>1. CASE i = n + 1
    <3>1. p[i - 1] = Len(f)
      <4>1. i - 1 = n /\ n \in 0..n
        BY <2>1, <1>1
      <4> QED BY <4>1, <1>4, <1>5
    <3> QED BY <2>1, <3>1, <1>1, <1>5
  <2>2. CASE i \in 1..n
    <3>1. i \in 0..n /\ i - 1 \in 0..n
      BY <2>2, <1>1
    <3>2. p[i] = off[i] /\ p[i - 1] = off[i - 1]
      BY <3>1, <1>5
    <3> QED BY <3>2, <2>2, <1>2, <1>4
  <2> QED BY <1>7, <2>1, <2>2
<1>9. ASSUME NEW i \in 0..Len(u), NEW k \in 0..Len(u), i <= k PROVE p[i] <= p[k]
  <2>1. CASE k \in 0..n
    <3>1. i \in 0..n
      BY <2>1, <1>9, <1>1
    <3> QED BY <2>1, <3>1, <1>9, <1>4, <1>5
  <2>2. CASE k = n + 1 /\ i \in 0..n
    <3>1. n \in 0..n /\ i <= n
      BY <2>2, <1>1
    <3>2. off[i] <= off[n] /\ off[i] \in Nat /\ p[i] = off[i]
      BY <3>1, <2>2, <1>4, <1>5
    <3> QED BY <2>2, <3>2, <1>1, <1>4, <1>5
  <2>3. CASE k = n + 1 /\ i = n + 1
    BY <2>3, <1>1, <1>5
  <2>4. (k \in 0..n \/ k = n + 1) /\ (i \in 0..n \/ i = n + 1)
    BY <1>1
  <2> QED BY <1>9, <1>1, <2>1, <2>2, <2>3, <2>4
<1>10. ASSUME NEW i \in 1..Len(u), NEW o \in 1..Len(u[i]) PROVE g[p[i - 1] + o] = u[i][o]
  <2>1. CASE i = n + 1
    <3>1. i - 1 = n /\ n \in 0..n
      BY <2>1, <1>1
    <3>2. p[i - 1] = Len(f)
      BY <3>1, <1>4, <1>5
    <3> QED BY <2>1, <3>2, <1>1, <1>3
  <2>2. CASE i \in 1..n
    <3>1. u[i] = s[i] /\ Len(s[i]) \in Nat
      BY <2>2, <1>2
    <3>2. f[off[i - 1] + o] = s[i][o]
      BY <3>1, <2>2, <1>4
    <3>3. i \in 0..n /\ i - 1 \in 0..n /\ n \in 0..n /\ i <= n
      BY <2>2, <1>1
    <3>4. off[i] <= off[n] /\ off[i] = off[i - 1] + Len(s[i]) /\ off[i - 1] \in Nat
      BY <2>2, <3>3, <1>4
    <3>5. off[i - 1] + o \in 1..Len(f)
      <4>1. o \in Nat /\ 1 <= o /\ o <= Len(s[i])
        BY <3>1
      <4>2. off[i] <= Len(f)
        BY <3>4, <1>4
      <4>3. Len(f) \in Nat
        OBVIOUS
      <4>4. \A x, y, l, m \in Nat : 1 <= y /\ y <= l /\ x + l <= m => x + y \in 1..m
        OBVIOUS
      <4>5. off[i - 1] + Len(s[i]) <= Len(f)
        BY <4>2, <3>4
      <4> QED BY <4>1, <4>3, <4>4, <4>5, <3>4, <3>1
    <3>6. p[i - 1] = off[i - 1]
      BY <3>3, <1>5
    <3> QED BY <3>1, <3>2, <3>5, <3>6, <1>3
  <2> QED BY <1>7, <2>1, <2>2
<1>11. ASSUME NEW j \in 1..Len(g)
      PROVE  \E i \in 1..Len(u) : \E o \in 1..Len(u[i]) : j = p[i - 1] + o
  <2>1. CASE j \in 1..Len(f)
    <3>1. PICK i \in 1..n : \E o \in 1..Len(s[i]) : j = off[i - 1] + o
      BY <2>1, <1>4
    <3>2. u[i] = s[i]
      BY <1>2
    <3>3. i \in 1..Len(u) /\ i - 1 \in 0..n
      BY <1>1
    <3>4. p[i - 1] = off[i - 1]
      BY <3>3, <1>5
    <3> QED BY <3>1, <3>2, <3>3, <3>4
  <2>2. CASE ~(j \in 1..Len(f))
    <3>1. j - Len(f) \in 1..Len(u[n + 1]) /\ n + 1 \in 1..Len(u)
      BY <2>2, <1>1, <1>3
    <3>2. (n + 1) - 1 = n /\ n \in 0..n /\ j = Len(f) + (j - Len(f))
      BY <1>1, <1>3
    <3>3. p[(n + 1) - 1] = Len(f)
      BY <3>2, <1>4, <1>5
    <3> QED BY <3>1, <3>2, <3>3
  <2> QED BY <2>1, <2>2
<1>12. Laid(u, g, p)
  BY <1>1, <1>5, <1>6, <1>8, <1>9, <1>10, <1>11 DEF Laid
<1> QED BY <1>12 DEF u, g

LEMMA FlatLaid ==
  ASSUME NEW S, NEW s \in Seq(Seq(S))
  PROVE  FlattenSeq(s) \in Seq(S) /\ \E off : Laid(s, FlattenSeq(s), off)
<1> DEFINE P == {t \in Seq(Seq(S)) : \E off : Laid(t, FlattenSeq(t), off)}
<1>1. <<>> \in P
  <2> DEFINE z == [i \in 0..0 |-> 0]
  <2>1. Laid(<<>>, <<>>, z)
    BY DEF Laid
  <2> QED BY <2>1, FlatEmpty
<1>2. ASSUME NEW t \in Seq(Seq(S)), NEW e \in Seq(S), t \in P PROVE Append(t, e) \in P
  <2>1. PICK off : Laid(t, FlattenSeq(t), off)
    BY <1>2
  <2>2. FlattenSeq(t) \in Seq(S) /\ FlattenSeq(Append(t, e)) = FlattenSeq(t) \o e
    BY FlatAppend
  <2>3. \E p : Laid(Append(t, e), FlattenSeq(t) \o e, p)
    BY <2>1, <2>2, LaidAppend
  <2>4. Append(t, e) \in Seq(Seq(S))
    OBVIOUS
  <2> QED BY <2>2, <2>3, <2>4
<1>3. s \in P
  <2> HIDE DEF P
  <2> QED BY <1>1, <1>2, AllBuilt
<1>4. FlattenSeq(s) \in Seq(S)
  <2>1. <<>> \in Seq(S)
    OBVIOUS
  <2> QED BY <2>1, FlatAppend
<1> QED BY <1>3, <1>4

-----------------------------------------------------------------------------
(* The script is read line by line. *)
Lines == [k : Commands, n : Nat, id : Nat]

(* The trees after each of the lines. *)
Read(lines, h) ==
  /\ h[0] = <<>>
  /\ \A i \in 1..Len(lines) : h[i] = CommandProcess(h[i - 1], lines[i])

Latest(e) == CHOOSE x \in e : \A y \in e : x >= y

FoldStep(lines, g, e) ==
  IF e = {} THEN <<>> ELSE CommandProcess(g[e \ {Latest(e)}], lines[Latest(e)])

LEMMA LatestOfAll ==
  ASSUME NEW n \in Nat, NEW e, e \subseteq 1..(n + 1), n + 1 \in e
  PROVE  Latest(e) = n + 1
<1>1. \A y \in e : n + 1 >= y
  OBVIOUS
<1>2. \A x \in e : (\A y \in e : x >= y) => x = n + 1
  OBVIOUS
<1> QED BY <1>1, <1>2 DEF Latest

LEMMA FoldExists ==
  ASSUME NEW lines, NEW N \in Nat
  PROVE  \E g : g = [e \in SUBSET (1..N) |-> FoldStep(lines, g, e)]
<1> DEFINE Good(n) == \E g : g = [e \in SUBSET (1..n) |-> FoldStep(lines, g, e)]
           P == {n \in 0..N : Good(n)}
<1>1. 0 \in P
  <2> DEFINE g == [e \in SUBSET (1..0) |-> <<>>]
  <2>1. \A e \in SUBSET (1..0) : e = {}
    OBVIOUS
  <2>2. g = [e \in SUBSET (1..0) |-> FoldStep(lines, g, e)]
    BY <2>1 DEF FoldStep
  <2>3. Good(0)
    <3> HIDE DEF g
    <3> QED BY <2>2
  <2> QED BY <2>3
<1>2. ASSUME NEW n \in 0..(N - 1), n \in P PROVE n + 1 \in P
  <2>1. PICK g : g = [e \in SUBSET (1..n) |-> FoldStep(lines, g, e)]
    BY <1>2
  <2> DEFINE In(e) == IF n + 1 \in e THEN CommandProcess(g[e \ {n + 1}], lines[n + 1]) ELSE g[e]
             f == [e \in SUBSET (1..(n + 1)) |-> In(e)]
  <2>2. ASSUME NEW e \in SUBSET (1..(n + 1)) PROVE In(e) = FoldStep(lines, f, e)
    <3>1. CASE n + 1 \in e
      <4>0. n \in Nat
        OBVIOUS
      <4>1. Latest(e) = n + 1
        BY <4>0, <3>1, LatestOfAll
      <4>2. e \ {n + 1} \in SUBSET (1..(n + 1)) /\ n + 1 \notin e \ {n + 1}
        OBVIOUS
      <4>3. f[e \ {n + 1}] = g[e \ {n + 1}]
        BY <4>2
      <4> HIDE DEF f
      <4> QED BY <4>1, <4>3, <3>1 DEF FoldStep
    <3>2. CASE n + 1 \notin e
      <4>1. e \in SUBSET (1..n)
        BY <3>2
      <4>2. g[e] = FoldStep(lines, g, e)
        BY <2>1, <4>1
      <4>3. e \ {Latest(e)} \in SUBSET (1..(n + 1)) /\ n + 1 \notin e \ {Latest(e)}
        BY <3>2
      <4>4. f[e \ {Latest(e)}] = g[e \ {Latest(e)}]
        BY <4>3
      <4> HIDE DEF f
      <4> QED BY <4>2, <4>4, <3>2 DEF FoldStep
    <3> QED BY <3>1, <3>2
  <2>3. f = [e \in SUBSET (1..(n + 1)) |-> FoldStep(lines, f, e)]
    BY <2>2
  <2>4. Good(n + 1)
    <3> HIDE DEF f
    <3> QED BY <2>3
  <2>5. n + 1 \in 0..N
    OBVIOUS
  <2> QED BY <2>4, <2>5
<1>3. \A i \in 0..N : i \in P
  <2> HIDE DEF P
  <2> QED BY <1>1, <1>2, AllReached
<1>4. N \in P
  <2> HIDE DEF P
  <2> QED BY <1>3
<1> QED BY <1>4

LEMMA ReadLines ==
  ASSUME NEW lines \in Seq(Lines)
  PROVE  \E h : Read(lines, h) /\ LoadRecallInfo(lines) = h[Len(lines)]
<1> DEFINE N == Len(lines)
           F == CHOOSE g : g = [e \in SUBSET (1..N) |-> FoldStep(lines, g, e)]
           h == [i \in 0..N |-> F[1..i]]
<1>1. DOMAIN lines = 1..N /\ N \in Nat
  OBVIOUS
<1>0. N \in Nat
  OBVIOUS
<1>2. LoadRecallInfo(lines) =
        (CHOOSE g : g = [e \in SUBSET DOMAIN lines |->
           IF e = {} THEN <<>>
           ELSE CommandProcess(g[e \ {CHOOSE x \in e : \A y \in e : x >= y}],
                               lines[CHOOSE x \in e : \A y \in e : x >= y])])[DOMAIN lines]
  BY DEF LoadRecallInfo, FoldLeft, MapThenFoldSet, Max
<1>3. LoadRecallInfo(lines) = F[1..N]
  BY <1>1, <1>2 DEF FoldStep, Latest
<1>4. F = [e \in SUBSET (1..N) |-> FoldStep(lines, F, e)]
  BY <1>1, FoldExists
<1> HIDE DEF F
<1>5. h[0] = <<>>
  <2>1. 1..0 = {} /\ 0 \in 0..N /\ {} \in SUBSET (1..N)
    <3> HIDE DEF N
    <3> QED BY <1>0
  <2> QED BY <2>1, <1>4 DEF FoldStep
<1>6. ASSUME NEW i \in 1..N PROVE h[i] = CommandProcess(h[i - 1], lines[i])
  <2> HIDE DEF N
  <2>1. i - 1 \in Nat /\ i - 1 \in 0..N /\ i \in 0..N /\ (i - 1) + 1 = i
    BY <1>0
  <2>2. 1..i \in SUBSET (1..N) /\ 1..i # {} /\ i \in 1..i /\ (1..i) \ {i} = 1..(i - 1)
    <3>1. i \in Nat /\ 1 <= i /\ i <= N
      BY <1>0
    <3>2. \A x : x \in 1..i => x \in 1..N
      BY <3>1, <1>0
    <3>3. \A x : x \in (1..i) \ {i} <=> x \in 1..(i - 1)
      BY <3>1, <1>0
    <3>4. i \in 1..i
      BY <3>1
    <3> QED BY <3>2, <3>3, <3>4
  <2>3. Latest(1..i) = i
    BY <2>1, <2>2, LatestOfAll
  <2>4. F[1..i] = FoldStep(lines, F, 1..i)
    BY <2>2, <1>4
  <2> QED BY <2>1, <2>2, <2>3, <2>4 DEF FoldStep
<1>7. h[N] = F[1..N]
  <2>1. N \in 0..N
    <3> HIDE DEF N
    <3> QED BY <1>0
  <2> QED BY <2>1
<1> HIDE DEF h
<1>8. Read(lines, h)
  BY <1>5, <1>6 DEF Read
<1> QED BY <1>3, <1>7, <1>8

-----------------------------------------------------------------------------
(* The trees that a script can make. *)
Leaves    == [kind : Commands, map : Nat, id : Nat]
KidRecs   == [kind : Kids, kids : Seq(Leaves)]
Objs      == [map : Nat, id : Nat, kids : Seq(KidRecs)]
MapRecs   == [num : Nat, steps : Seq(Seq(Objs))]
ThemeRecs == [idx : Nat, maps : Seq(MapRecs)]
Trees     == Seq(ThemeRecs)

NewTheme    == [idx |-> 0, maps |-> <<>>]
NewMap(num) == [num |-> num, steps |-> <<>>]
NewObj(map, id) == [map |-> map, id |-> id, kids |-> <<>>]

PutLast(s, e)  == [s EXCEPT ![Len(s)] = e]
WithMap(t, m)  == [t EXCEPT !.maps = PutLast(t.maps, m)]
WithStep(m, s) == [m EXCEPT !.steps = PutLast(m.steps, s)]

LastMap(ts) == Last(Last(ts).maps)

LEMMA LastPut ==
  ASSUME NEW S, NEW s \in Seq(S), s # <<>>, NEW e \in S
  PROVE  /\ PutLast(s, e) \in Seq(S) /\ PutLast(s, e) # <<>>
         /\ Len(PutLast(s, e)) = Len(s) /\ Last(PutLast(s, e)) = e
         /\ Last(s) \in S /\ Len(s) \in Nat \ {0}
         /\ \A i \in 1..Len(s) : i # Len(s) => PutLast(s, e)[i] = s[i]
BY DEF PutLast, Last

LEMMA LastAppended ==
  ASSUME NEW S, NEW s \in Seq(S), NEW e \in S
  PROVE  /\ Append(s, e) \in Seq(S) /\ Append(s, e) # <<>>
         /\ Len(Append(s, e)) = Len(s) + 1 /\ Last(Append(s, e)) = e
         /\ \A i \in 1..Len(s) : Append(s, e)[i] = s[i]
BY DEF Last

LEMMA LastParts ==
  ASSUME NEW ts \in Trees
  PROVE  /\ ts # <<>> => Last(ts) \in ThemeRecs
         /\ HasMap(ts) => ts # <<>> /\ LastMap(ts) \in MapRecs /\ Last(ts).maps # <<>>
                          /\ Last(ts).maps \in Seq(MapRecs)
         /\ HasStep(ts) => /\ HasMap(ts) /\ LastMap(ts).steps # <<>>
                           /\ LastMap(ts).steps \in Seq(Seq(Objs))
                           /\ LastObjs(ts) = Last(LastMap(ts).steps)
                           /\ LastObjs(ts) \in Seq(Objs)
         /\ HasObj(ts) => /\ HasStep(ts) /\ LastObjs(ts) # <<>>
                          /\ Last(LastObjs(ts)) \in Objs
<1>1. \A S : \A s \in Seq(S) : s # <<>> => Last(s) \in S
  BY DEF Last
<1>2. ts # <<>> => Last(ts) \in ThemeRecs
  BY <1>1 DEF Trees
<1>3. HasMap(ts) => ts # <<>> /\ LastMap(ts) \in MapRecs /\ Last(ts).maps # <<>>
                    /\ Last(ts).maps \in Seq(MapRecs)
  <2>1. ts # <<>> => Last(ts).maps \in Seq(MapRecs)
    BY <1>2 DEF ThemeRecs
  <2> QED BY <2>1, <1>1 DEF HasMap, LastMap
<1>4. HasStep(ts) => /\ HasMap(ts) /\ LastMap(ts).steps # <<>>
                     /\ LastMap(ts).steps \in Seq(Seq(Objs))
                     /\ LastObjs(ts) = Last(LastMap(ts).steps)
                     /\ LastObjs(ts) \in Seq(Objs)
  <2>1. HasMap(ts) => LastMap(ts).steps \in Seq(Seq(Objs))
    BY <1>3 DEF MapRecs
  <2> QED BY <2>1, <1>1 DEF HasStep, LastObjs, LastMap
<1>5. HasObj(ts) => /\ HasStep(ts) /\ LastObjs(ts) # <<>>
                    /\ Last(LastObjs(ts)) \in Objs
  BY <1>1, <1>4 DEF HasObj
<1> QED BY <1>2, <1>3, <1>4, <1>5

(* What is changed is the last theme, map, step or object. *)
ThemePut(ts, t) == PutLast(ts, t)
MapPut(ts, m)   == PutLast(ts, WithMap(Last(ts), m))
StepPut(ts, s)  == MapPut(ts, WithStep(LastMap(ts), s))
ObjPut(ts, o)   == StepPut(ts, PutLast(LastObjs(ts), o))

LEMMA ThemeFits ==
  ASSUME NEW ts \in Trees, ts # <<>>, NEW t \in ThemeRecs
  PROVE  ThemePut(ts, t) \in Trees /\ Last(ThemePut(ts, t)) = t
BY LastPut DEF ThemePut, Trees

LEMMA MapFits ==
  ASSUME NEW ts \in Trees, HasMap(ts), NEW m \in MapRecs
  PROVE  /\ WithMap(Last(ts), m) \in ThemeRecs
         /\ MapPut(ts, m) = ThemePut(ts, WithMap(Last(ts), m))
         /\ MapPut(ts, m) \in Trees
<1>1. /\ ts # <<>> /\ Last(ts) \in ThemeRecs
      /\ Last(ts).maps # <<>> /\ Last(ts).maps \in Seq(MapRecs)
  BY LastParts
<1>2. PutLast(Last(ts).maps, m) \in Seq(MapRecs)
  BY <1>1, LastPut
<1>3. WithMap(Last(ts), m) \in ThemeRecs
  BY <1>1, <1>2 DEF WithMap, ThemeRecs
<1> QED BY <1>1, <1>3, ThemeFits DEF MapPut, ThemePut

LEMMA StepFits ==
  ASSUME NEW ts \in Trees, HasStep(ts), NEW s \in Seq(Objs)
  PROVE  WithStep(LastMap(ts), s) \in MapRecs /\ StepPut(ts, s) \in Trees
<1>1. /\ HasMap(ts) /\ LastMap(ts) \in MapRecs
      /\ LastMap(ts).steps # <<>> /\ LastMap(ts).steps \in Seq(Seq(Objs))
  BY LastParts
<1>2. PutLast(LastMap(ts).steps, s) \in Seq(Seq(Objs))
  BY <1>1, LastPut
<1>3. WithStep(LastMap(ts), s) \in MapRecs
  BY <1>1, <1>2 DEF WithStep, MapRecs
<1> QED BY <1>1, <1>3, MapFits DEF StepPut

LEMMA ObjFits ==
  ASSUME NEW ts \in Trees, HasObj(ts), NEW o \in Objs
  PROVE  PutLast(LastObjs(ts), o) \in Seq(Objs) /\ ObjPut(ts, o) \in Trees
<1>1. HasStep(ts) /\ LastObjs(ts) # <<>> /\ LastObjs(ts) \in Seq(Objs)
  BY LastParts
<1>2. PutLast(LastObjs(ts), o) \in Seq(Objs)
  BY <1>1, LastPut
<1> QED BY <1>1, <1>2, StepFits DEF ObjPut

(* What the lines do to the tree. *)
LEMMA IdxPuts ==
  ASSUME NEW ts \in Trees, NEW w \in Nat, ts # <<>>
  PROVE  /\ AddThemeIdx(ts, w) = ThemePut(ts, [Last(ts) EXCEPT !.idx = w])
         /\ [Last(ts) EXCEPT !.idx = w] \in ThemeRecs
<1>1. ts \in Seq(ThemeRecs) /\ Last(ts) \in ThemeRecs
  BY LastParts DEF Trees
<1> QED
  BY <1>1 DEF AddThemeIdx, InLastTheme, ThemePut, PutLast, Last, ThemeRecs

LEMMA MapPuts ==
  ASSUME NEW ts \in Trees, NEW num \in Nat, ts # <<>>, num # 0,
         \A i \in DOMAIN Last(ts).maps : Last(ts).maps[i].num # num
  PROVE  /\ AddMap(ts, num) = ThemePut(ts, [Last(ts) EXCEPT !.maps = Append(@, NewMap(num))])
         /\ [Last(ts) EXCEPT !.maps = Append(@, NewMap(num))] \in ThemeRecs
<1>1. ts \in Seq(ThemeRecs) /\ Last(ts) \in ThemeRecs
  BY LastParts DEF Trees
<1>2. NewMap(num) \in MapRecs
  BY DEF NewMap, MapRecs
<1>3. Append(Last(ts).maps, NewMap(num)) \in Seq(MapRecs)
  BY <1>1, <1>2, LastAppended DEF ThemeRecs
<1>4. [Last(ts) EXCEPT !.maps = Append(@, NewMap(num))] \in ThemeRecs
  BY <1>1, <1>3 DEF ThemeRecs
<1>5. AddMap(ts, num) = ThemePut(ts, [Last(ts) EXCEPT !.maps = Append(@, NewMap(num))])
  BY <1>1 DEF AddMap, InLastTheme, ThemePut, PutLast, Last, NewMap
<1> QED BY <1>4, <1>5

LEMMA StepPuts ==
  ASSUME NEW ts \in Trees, HasMap(ts)
  PROVE  /\ AddStep(ts) = MapPut(ts, [LastMap(ts) EXCEPT !.steps = Append(@, <<>>)])
         /\ [LastMap(ts) EXCEPT !.steps = Append(@, <<>>)] \in MapRecs
<1>1. ts \in Seq(ThemeRecs) /\ ts # <<>> /\ Last(ts) \in ThemeRecs
  BY LastParts DEF Trees
<1>2. Last(ts).maps \in Seq(MapRecs) /\ Last(ts).maps # <<>> /\ LastMap(ts) \in MapRecs
  BY LastParts
<1>3. Append(LastMap(ts).steps, <<>>) \in Seq(Seq(Objs))
  BY <1>2, <<>> \in Seq(Objs), LastAppended DEF MapRecs
<1>4. [LastMap(ts) EXCEPT !.steps = Append(@, <<>>)] \in MapRecs
  BY <1>2, <1>3 DEF MapRecs
<1>5. AddStep(ts) = MapPut(ts, [LastMap(ts) EXCEPT !.steps = Append(@, <<>>)])
  BY <1>1, <1>2 DEF AddStep, InLastMap, InLastTheme, MapPut, WithMap, PutLast, LastMap, Last, ThemeRecs
<1> QED BY <1>4, <1>5

LEMMA ObjPuts ==
  ASSUME NEW ts \in Trees, NEW map \in Nat, NEW id \in Nat, HasStep(ts)
  PROVE  /\ AddObj(ts, map, id) = StepPut(ts, Append(LastObjs(ts), NewObj(map, id)))
         /\ Append(LastObjs(ts), NewObj(map, id)) \in Seq(Objs)
<1>1. ts \in Seq(ThemeRecs) /\ ts # <<>> /\ Last(ts) \in ThemeRecs
  BY LastParts DEF Trees
<1>2. Last(ts).maps \in Seq(MapRecs) /\ Last(ts).maps # <<>> /\ LastMap(ts) \in MapRecs
  BY LastParts
<1>3. /\ LastMap(ts).steps \in Seq(Seq(Objs)) /\ LastMap(ts).steps # <<>>
      /\ LastObjs(ts) \in Seq(Objs) /\ LastObjs(ts) = Last(LastMap(ts).steps)
  BY LastParts
<1>4. NewObj(map, id) \in Objs
  BY <<>> \in Seq(KidRecs) DEF NewObj, Objs
<1>5. AddObj(ts, map, id) = StepPut(ts, Append(LastObjs(ts), NewObj(map, id)))
  BY <1>1, <1>2, <1>3
     DEF AddObj, InLastStep, InLastMap, InLastTheme, StepPut, MapPut, WithStep, WithMap,
         PutLast, LastMap, Last, LastObjs, NewObj, ThemeRecs, MapRecs
<1> QED BY <1>3, <1>4, <1>5, LastAppended

(* Terms, commands and their children change an object only. *)
LEMMA KidPuts ==
  ASSUME NEW ts \in Trees, NEW kind \in Kids, HasObj(ts)
  PROVE  \E o \in Objs : o.id = Last(LastObjs(ts)).id /\ AddKid(ts, kind) = ObjPut(ts, o)
<1>1. ts \in Seq(ThemeRecs) /\ ts # <<>> /\ Last(ts) \in ThemeRecs
  BY LastParts DEF Trees
<1>2. Last(ts).maps \in Seq(MapRecs) /\ Last(ts).maps # <<>> /\ LastMap(ts) \in MapRecs
  BY LastParts
<1>3. /\ LastMap(ts).steps \in Seq(Seq(Objs)) /\ LastMap(ts).steps # <<>>
      /\ LastObjs(ts) \in Seq(Objs) /\ LastObjs(ts) = Last(LastMap(ts).steps)
      /\ LastObjs(ts) # <<>> /\ Last(LastObjs(ts)) \in Objs
  BY LastParts
<1> DEFINE o == [Last(LastObjs(ts)) EXCEPT !.kids = Append(@, [kind |-> kind, kids |-> <<>>])]
<1>4. [kind |-> kind, kids |-> <<>>] \in KidRecs
  BY <<>> \in Seq(Leaves) DEF KidRecs
<1>5. o \in Objs /\ o.id = Last(LastObjs(ts)).id
  BY <1>3, <1>4, LastAppended DEF Objs
<1>6. AddKid(ts, kind) = ObjPut(ts, o)
  BY <1>1, <1>2, <1>3
     DEF AddKid, InLastObj, InLastStep, InLastMap, InLastTheme, ObjPut, StepPut, MapPut,
         WithStep, WithMap, PutLast, LastMap, Last, LastObjs, ThemeRecs, MapRecs
<1> QED BY <1>5, <1>6

LEMMA LeafPuts ==
  ASSUME NEW ts \in Trees, NEW what \in Commands, NEW map \in Nat, NEW id \in Nat, HasObj(ts)
  PROVE  \E o \in Objs : /\ o.id = Last(LastObjs(ts)).id
                         /\ AddToKid(ts, what, map, id) = ObjPut(ts, o)
<1>1. ts \in Seq(ThemeRecs) /\ ts # <<>> /\ Last(ts) \in ThemeRecs
  BY LastParts DEF Trees
<1>2. Last(ts).maps \in Seq(MapRecs) /\ Last(ts).maps # <<>> /\ LastMap(ts) \in MapRecs
  BY LastParts
<1>3. /\ LastMap(ts).steps \in Seq(Seq(Objs)) /\ LastMap(ts).steps # <<>>
      /\ LastObjs(ts) \in Seq(Objs) /\ LastObjs(ts) = Last(LastMap(ts).steps)
      /\ LastObjs(ts) # <<>> /\ Last(LastObjs(ts)) \in Objs
  BY LastParts
<1> DEFINE leaf == [kind |-> what, map |-> map, id |-> id]
           was == Last(LastObjs(ts))
           o == [was EXCEPT !.kids[Len(was.kids)].kids = Append(@, leaf)]
<1>4. leaf \in Leaves
  BY DEF Leaves
<1>5. [was.kids EXCEPT ![Len(was.kids)].kids = Append(@, leaf)] \in Seq(KidRecs)
  <2>1. was.kids \in Seq(KidRecs)
    BY <1>3 DEF Objs
  <2>2. CASE was.kids = <<>>
    <3>1. [was.kids EXCEPT ![Len(was.kids)].kids = Append(@, leaf)] = <<>>
      BY <2>2
    <3> QED BY <3>1, <2>1, <2>2
  <2>3. CASE was.kids # <<>>
    <3> DEFINE e == [was.kids[Len(was.kids)] EXCEPT !.kids = Append(@, leaf)]
    <3>1. was.kids[Len(was.kids)] \in KidRecs
      BY <2>1, <2>3
    <3>2. Append(was.kids[Len(was.kids)].kids, leaf) \in Seq(Leaves)
      BY <3>1, <1>4, LastAppended DEF KidRecs
    <3>3. e \in KidRecs
      BY <3>1, <3>2 DEF KidRecs
    <3>4. PutLast(was.kids, e) \in Seq(KidRecs)
      BY <2>1, <2>3, <3>3, LastPut
    <3> QED BY <3>4 DEF PutLast
  <2> QED BY <2>2, <2>3
<1>6. o \in Objs /\ o.id = was.id
  BY <1>3, <1>5 DEF Objs
<1>7. AddToKid(ts, what, map, id) = ObjPut(ts, o)
  BY <1>1, <1>2, <1>3
     DEF AddToKid, InLastObj, InLastStep, InLastMap, InLastTheme, ObjPut, StepPut, MapPut,
         WithStep, WithMap, PutLast, LastMap, Last, LastObjs, ThemeRecs, MapRecs
<1> QED BY <1>6, <1>7

Below == Kids \cup Checks \cup {"die_recall"}

LEMMA BelowPuts ==
  ASSUME NEW ts \in Trees, NEW line \in Lines, line.k \in Below
  PROVE  \/ CommandProcess(ts, line) = ts
         \/ HasObj(ts) /\ \E o \in Objs : /\ o.id = Last(LastObjs(ts)).id
                                          /\ CommandProcess(ts, line) = ObjPut(ts, o)
<1>1. CASE line.k \in Kids
  <2>1. CommandProcess(ts, line) = AddKid(ts, line.k)
    BY <1>1 DEF CommandProcess, Kids, AddStartTerm, AddEndTerm, AddCommand
  <2>2. ~HasObj(ts) => AddKid(ts, line.k) = ts
    BY DEF AddKid
  <2> QED BY <2>1, <2>2, <1>1, KidPuts
<1>2. CASE line.k \in Checks \cup {"die_recall"}
  <2>1. \/ CommandProcess(ts, line) = ts
        \/ HasObj(ts) /\ CommandProcess(ts, line) = AddToKid(ts, line.k, line.n, line.id)
    BY <1>2 DEF CommandProcess, Checks, DieRecallObj, CheckDieObj, CheckUseItem, HasKid
  <2>2. line.k \in Commands /\ line.n \in Nat /\ line.id \in Nat
    BY DEF Lines
  <2> QED BY <2>1, <2>2, LeafPuts
<1> QED BY <1>1, <1>2 DEF Below

LEMMA TreeKept ==
  ASSUME NEW ts \in Trees, NEW line \in Lines
  PROVE  CommandProcess(ts, line) \in Trees
<1>0. line.n \in Nat /\ line.id \in Nat /\ line.k \in Commands
  BY DEF Lines
<1>1. CASE line.k = "theme"
  <2>1. CommandProcess(ts, line) = AddTheme(ts)
    BY <1>1 DEF CommandProcess
  <2>2. NewTheme \in ThemeRecs
    BY <<>> \in Seq(MapRecs) DEF NewTheme, ThemeRecs
  <2>3. Append(ts, NewTheme) \in Trees
    BY <2>2, LastAppended DEF Trees
  <2> QED BY <2>1, <2>3 DEF AddTheme, NewTheme
<1>2. CASE line.k = "idx"
  <2>1. CommandProcess(ts, line) = AddThemeIdx(ts, line.n)
    BY <1>2 DEF CommandProcess
  <2>2. ts = <<>> => AddThemeIdx(ts, line.n) = ts
    BY DEF AddThemeIdx
  <2>3. ASSUME ts # <<>> PROVE AddThemeIdx(ts, line.n) \in Trees
    <3> DEFINE t == [Last(ts) EXCEPT !.idx = line.n]
    <3>1. AddThemeIdx(ts, line.n) = ThemePut(ts, t) /\ t \in ThemeRecs
      BY <1>0, <2>3, IdxPuts
    <3> HIDE DEF t
    <3>2. ThemePut(ts, t) \in Trees
      BY <2>3, <3>1, ThemeFits
    <3> QED BY <3>1, <3>2
  <2> QED BY <2>1, <2>2, <2>3
<1>3. CASE line.k = "map"
  <2>1. CommandProcess(ts, line) = AddMap(ts, line.n)
    BY <1>3 DEF CommandProcess
  <2>2. CASE \/ line.n = 0 \/ ts = <<>>
             \/ \E i \in DOMAIN Last(ts).maps : Last(ts).maps[i].num = line.n
    BY <2>1, <2>2 DEF AddMap
  <2>3. CASE ~(\/ line.n = 0 \/ ts = <<>>
               \/ \E i \in DOMAIN Last(ts).maps : Last(ts).maps[i].num = line.n)
    <3>1. /\ ts # <<>> /\ line.n # 0
          /\ \A i \in DOMAIN Last(ts).maps : Last(ts).maps[i].num # line.n
      BY <2>3
    <3> DEFINE t == [Last(ts) EXCEPT !.maps = Append(@, NewMap(line.n))]
    <3>2. AddMap(ts, line.n) = ThemePut(ts, t) /\ t \in ThemeRecs
      BY <3>1, <1>0, MapPuts
    <3> HIDE DEF t
    <3> QED BY <2>1, <3>1, <3>2, ThemeFits
  <2> QED BY <2>2, <2>3
<1>4. CASE line.k = "step"
  <2>1. CommandProcess(ts, line) = AddStep(ts)
    BY <1>4 DEF CommandProcess
  <2>2. ~HasMap(ts) => AddStep(ts) = ts
    BY DEF AddStep
  <2> QED BY <2>1, <2>2, StepPuts, MapFits
<1>5. CASE line.k = "object"
  <2>1. CommandProcess(ts, line) = AddObj(ts, line.n, line.id)
    BY <1>5 DEF CommandProcess
  <2>2. ~HasStep(ts) => AddObj(ts, line.n, line.id) = ts
    BY DEF AddObj
  <2>3. HasStep(ts) => AddObj(ts, line.n, line.id) \in Trees
    <3> DEFINE s == Append(LastObjs(ts), NewObj(line.n, line.id))
    <3>1. HasStep(ts) => AddObj(ts, line.n, line.id) = StepPut(ts, s) /\ s \in Seq(Objs)
      BY <1>0, ObjPuts
    <3> HIDE DEF s
    <3> QED BY <3>1, StepFits
  <2> QED BY <2>1, <2>2, <2>3
<1>6. CASE line.k \in Below
  BY <1>6, BelowPuts, ObjFits
<1> QED BY <1>0, <1>1, <1>2, <1>3, <1>4, <1>5, <1>6 DEF Commands, Below

LEMMA ReadTrees ==
  ASSUME NEW lines \in Seq(Lines), NEW h, Read(lines, h)
  PROVE  \A i \in 0..Len(lines) : h[i] \in Trees
<1> DEFINE P == {i \in 0..Len(lines) : h[i] \in Trees}
           N == Len(lines)
<1>0. N \in Nat
  OBVIOUS
<1>1. 0 \in P
  <2>1. 0 \in 0..N
    <3> HIDE DEF N
    <3> QED BY <1>0
  <2>2. <<>> \in Seq(ThemeRecs)
    OBVIOUS
  <2>3. h[0] = <<>>
    BY DEF Read
  <2> QED BY <2>1, <2>2, <2>3 DEF Trees
<1>2. ASSUME NEW i \in 0..(N - 1), i \in P PROVE i + 1 \in P
  <2>1. i + 1 \in 1..N /\ i + 1 \in 0..N /\ (i + 1) - 1 = i
    <3> HIDE DEF N
    <3> QED BY <1>0
  <2>2. lines[i + 1] \in Lines
    BY <2>1
  <2>3. h[i + 1] = CommandProcess(h[i], lines[i + 1])
    BY <2>1 DEF Read
  <2> QED BY <1>2, <2>1, <2>2, <2>3, TreeKept
<1>3. \A i \in 0..N : i \in P
  <2> HIDE DEF P, N
  <2> QED BY <1>0, <1>1, <1>2, AllReached
<1> QED BY <1>3

LEMMA LoadedTree ==
  ASSUME NEW lines \in Seq(Lines)
  PROVE  LoadRecallInfo(lines) \in Trees
<1>1. Len(lines) \in 0..Len(lines)
  OBVIOUS
<1> QED BY <1>1, ReadLines, ReadTrees

-----------------------------------------------------------------------------
(* Messages.  Terms and commands of an object are led by its addobj.       *)
Mails == [to : Nat, what : Kinds, path : Seq(Nat), n : Nat]
Terms == {"check", "command"}

Led(msgs) ==
  \A j \in DOMAIN msgs :
    msgs[j].what \in Terms =>
      \E i \in 1..(j - 1) :
        /\ msgs[i].what = "addobj" /\ msgs[i].path = SubSeq(msgs[j].path, 1, 4)
        /\ msgs[i].to \in {0, ObjAt(themes, msgs[i].path).map}

Sound(msgs) == msgs \in Seq(Mails) /\ Led(msgs)

Quiet == {x \in Mails : x.what \notin Terms}

LEMMA QuietSound ==
  ASSUME NEW q \in Seq(Quiet)
  PROVE  Sound(q)
<1>1. q \in Seq(Mails) /\ \A j \in DOMAIN q : q[j] \in Quiet
  BY DEF Quiet
<1> QED BY <1>1 DEF Sound, Led, Quiet

LEMMA SoundJoin ==
  ASSUME NEW q, NEW r, Sound(q), Sound(r)
  PROVE  Sound(q \o r)
<1> DEFINE u == q \o r
<1>1. q \in Seq(Mails) /\ r \in Seq(Mails) /\ Led(q) /\ Led(r)
  BY DEF Sound
<1>2. /\ u \in Seq(Mails) /\ Len(u) = Len(q) + Len(r) /\ Len(q) \in Nat /\ Len(r) \in Nat
      /\ DOMAIN u = 1..Len(u) /\ DOMAIN q = 1..Len(q) /\ DOMAIN r = 1..Len(r)
      /\ \A j \in 1..Len(q) : u[j] = q[j]
      /\ \A j \in 1..Len(r) : u[Len(q) + j] = r[j]
  BY <1>1
<1> HIDE DEF u
<1>3. ASSUME NEW j \in DOMAIN u, u[j].what \in Terms
      PROVE  \E i \in 1..(j - 1) :
               /\ u[i].what = "addobj" /\ u[i].path = SubSeq(u[j].path, 1, 4)
               /\ u[i].to \in {0, ObjAt(themes, u[i].path).map}
  <2>1. CASE j \in 1..Len(q)
    <3>1. u[j] = q[j] /\ j \in DOMAIN q
      BY <2>1, <1>2
    <3>2. PICK i \in 1..(j - 1) :
               /\ q[i].what = "addobj" /\ q[i].path = SubSeq(q[j].path, 1, 4)
               /\ q[i].to \in {0, ObjAt(themes, q[i].path).map}
      BY <3>1, <1>1, <1>3 DEF Led
    <3>3. i \in 1..Len(q)
      BY <2>1, <1>2
    <3> QED BY <3>1, <3>2, <3>3, <1>2
  <2>2. CASE ~(j \in 1..Len(q))
    <3> DEFINE k == j - Len(q)
    <3>1. k \in 1..Len(r) /\ j = Len(q) + k
      BY <2>2, <1>2
    <3>2. u[j] = r[k] /\ k \in DOMAIN r
      BY <3>1, <1>2
    <3> HIDE DEF k
    <3>3. PICK i \in 1..(k - 1) :
               /\ r[i].what = "addobj" /\ r[i].path = SubSeq(r[k].path, 1, 4)
               /\ r[i].to \in {0, ObjAt(themes, r[i].path).map}
      BY <3>2, <1>1, <1>3 DEF Led
    <3>4. i \in 1..Len(r) /\ Len(q) + i \in 1..(j - 1)
      BY <3>1, <1>2
    <3> QED BY <3>2, <3>3, <3>4, <1>2
  <2> QED BY <2>1, <2>2
<1> QED BY <1>2, <1>3 DEF Sound, Led, u

LEMMA SoundFlat ==
  ASSUME NEW s \in Seq(Seq(Mails)), \A i \in 1..Len(s) : Led(s[i])
  PROVE  Sound(FlattenSeq(s))
<1> DEFINE f == FlattenSeq(s)
<1>0. Len(s) \in Nat /\ \A i \in 1..Len(s) : s[i] \in Seq(Mails) /\ Len(s[i]) \in Nat /\ DOMAIN s[i] = 1..Len(s[i])
  <2>1. \A i \in 1..Len(s) : s[i] \in Seq(Mails)
    OBVIOUS
  <2> QED BY <2>1
<1>1. f \in Seq(Mails) /\ \E off : Laid(s, f, off)
  BY FlatLaid
<1>2. PICK off : Laid(s, f, off)
  BY <1>1
<1> HIDE DEF f
<1>3. ASSUME NEW j \in DOMAIN f, f[j].what \in Terms
      PROVE  \E i \in 1..(j - 1) :
               /\ f[i].what = "addobj" /\ f[i].path = SubSeq(f[j].path, 1, 4)
               /\ f[i].to \in {0, ObjAt(themes, f[i].path).map}
  <2>0. DOMAIN f = 1..Len(f) /\ Len(f) \in Nat
    BY <1>1
  <2>1. PICK i \in 1..Len(s) : \E o \in 1..Len(s[i]) : j = off[i - 1] + o
    BY <2>0, <1>2 DEF Laid
  <2>2. PICK o \in 1..Len(s[i]) : j = off[i - 1] + o
    BY <2>1
  <2>3. \A x \in 1..Len(s[i]) : f[off[i - 1] + x] = s[i][x]
    BY <1>2 DEF Laid
  <2>4. off[i - 1] \in Nat
    <3>1. i - 1 \in 0..Len(s)
      BY <1>0
    <3> QED BY <3>1, <1>2 DEF Laid
  <2>5. f[j] = s[i][o] /\ o \in DOMAIN s[i]
    BY <2>2, <2>3, <1>0
  <2>6. PICK x \in 1..(o - 1) :
               /\ s[i][x].what = "addobj" /\ s[i][x].path = SubSeq(s[i][o].path, 1, 4)
               /\ s[i][x].to \in {0, ObjAt(themes, s[i][x].path).map}
    BY <2>5, <1>3 DEF Led
  <2>7. x \in 1..Len(s[i]) /\ off[i - 1] + x \in 1..(j - 1)
    BY <2>2, <2>4, <1>0
  <2> QED BY <2>3, <2>5, <2>6, <2>7
<1> QED BY <1>1, <1>3 DEF Sound, Led, f

LEMMA ListOf ==
  ASSUME NEW S, NEW n \in Nat, NEW F, F = [i \in 1..n |-> F[i]], \A i \in 1..n : F[i] \in S
  PROVE  F \in Seq(S) /\ Len(F) = n
OBVIOUS

LEMMA SoundList ==
  ASSUME NEW n \in Nat, NEW F, F = [i \in 1..n |-> F[i]], \A i \in 1..n : Sound(F[i])
  PROVE  Sound(FlattenSeq(F))
<1>1. \A i \in 1..n : F[i] \in Seq(Mails) /\ Led(F[i])
  BY DEF Sound
<1>2. F \in Seq(Seq(Mails)) /\ Len(F) = n
  BY <1>1, ListOf
<1> QED BY <1>1, <1>2, SoundFlat

LEMMA FlatList ==
  ASSUME NEW S, NEW n \in Nat, NEW F, F = [i \in 1..n |-> F[i]], \A i \in 1..n : F[i] \in Seq(S)
  PROVE  FlattenSeq(F) \in Seq(S)
<1>1. F \in Seq(Seq(S))
  BY ListOf
<1> QED BY <1>1, FlatLaid

(* What a map server has been sent: addobj comes before the terms. *)
Queue(m, q) == \E S : q \in Seq(S) /\ \A x \in S : x.what \in Kinds /\ x.to \in {0, m}

Known(ts, m, q) ==
  \A j \in DOMAIN q :
    q[j].what \in Terms =>
      (ObjAt(ts, SubSeq(q[j].path, 1, 4)).map = m =>
        \E i \in 1..(j - 1) : q[i].what = "addobj" /\ q[i].path = SubSeq(q[j].path, 1, 4))

LEMMA SentKnown ==
  ASSUME NEW S, NEW msgs \in Seq(S), \A x \in S : x.what \in Kinds, Led(msgs), NEW m
  PROVE  /\ SentTo(m, msgs) \in Seq({x \in S : x.to \in {0, m}})
         /\ Known(themes, m, SentTo(m, msgs))
<1> DEFINE T == {x \in S : x.to \in {0, m}}
           s == [i \in 1..Len(msgs) |-> IF msgs[i].to \in {0, m} THEN <<msgs[i]>> ELSE <<>>]
           f == FlattenSeq(s)
           n == Len(msgs)
<1>0. n \in Nat /\ DOMAIN msgs = 1..n /\ \A i \in 1..n : msgs[i] \in S
  OBVIOUS
<1>1. /\ SentTo(m, msgs) = f
      /\ s = [i \in 1..n |-> s[i]]
      /\ \A i \in 1..n : s[i] = IF msgs[i].to \in {0, m} THEN <<msgs[i]>> ELSE <<>>
  BY DEF SentTo
<1> HIDE DEF n, s
<1>2. ASSUME NEW i \in 1..n PROVE s[i] \in Seq(T)
  <2>1. CASE msgs[i].to \in {0, m}
    <3>1. msgs[i] \in T
      BY <2>1, <1>0
    <3>2. s[i] = <<msgs[i]>>
      BY <2>1, <1>1
    <3> HIDE DEF T
    <3>3. <<msgs[i]>> \in Seq(T)
      BY <3>1
    <3> QED BY <3>2, <3>3
  <2>2. CASE msgs[i].to \notin {0, m}
    <3>1. s[i] = <<>>
      BY <2>2, <1>1
    <3> QED BY <3>1
  <2> QED BY <2>1, <2>2
<1>3. s \in Seq(Seq(T)) /\ Len(s) = n
  <2> HIDE DEF T
  <2> QED BY <1>0, <1>1, <1>2, ListOf
<1>4. f \in Seq(T) /\ \E off : Laid(s, f, off)
  BY <1>3, FlatLaid
<1>5. PICK off : Laid(s, f, off)
  BY <1>4
<1> HIDE DEF f, T
<1>6. /\ off \in [0..n -> Nat]
      /\ \A i \in 1..n : off[i] = off[i - 1] + Len(s[i])
      /\ \A i, k \in 0..n : i <= k => off[i] <= off[k]
      /\ \A i \in 1..n : \A o \in 1..Len(s[i]) : f[off[i - 1] + o] = s[i][o]
      /\ \A j \in 1..Len(f) : \E i \in 1..n : \E o \in 1..Len(s[i]) : j = off[i - 1] + o
  BY <1>3, <1>5 DEF Laid
<1>7. ASSUME NEW i \in 1..n, NEW o \in 1..Len(s[i])
      PROVE  /\ msgs[i].to \in {0, m} /\ o = 1 /\ off[i] = off[i - 1] + 1
             /\ f[off[i - 1] + 1] = msgs[i] /\ off[i - 1] \in Nat
  <2>1. msgs[i].to \in {0, m} /\ s[i] = <<msgs[i]>>
    <3>1. CASE msgs[i].to \notin {0, m}
      <4>1. s[i] = <<>>
        BY <3>1, <1>1
      <4> QED BY <4>1
    <3> QED BY <3>1, <1>1
  <2>2. Len(s[i]) = 1 /\ s[i][1] = msgs[i] /\ o = 1
    BY <2>1
  <2>3. off[i - 1] \in Nat
    <3>1. i - 1 \in 0..n
      BY <1>0
    <3> QED BY <3>1, <1>6
  <2>4. off[i] = off[i - 1] + 1 /\ f[off[i - 1] + 1] = msgs[i]
    BY <2>2, <1>6
  <2> QED BY <2>1, <2>2, <2>3, <2>4
<1>8. ASSUME NEW j \in DOMAIN f, f[j].what \in Terms,
             ObjAt(themes, SubSeq(f[j].path, 1, 4)).map = m
      PROVE  \E k \in 1..(j - 1) : f[k].what = "addobj" /\ f[k].path = SubSeq(f[j].path, 1, 4)
  <2>0. DOMAIN f = 1..Len(f) /\ Len(f) \in Nat
    BY <1>4
  <2>1. PICK i \in 1..n : \E o \in 1..Len(s[i]) : j = off[i - 1] + o
    BY <2>0, <1>6
  <2>2. f[j] = msgs[i] /\ j = off[i - 1] + 1
    BY <2>1, <1>7
  <2>3. PICK i0 \in 1..(i - 1) :
            /\ msgs[i0].what = "addobj" /\ msgs[i0].path = SubSeq(msgs[i].path, 1, 4)
            /\ msgs[i0].to \in {0, ObjAt(themes, msgs[i0].path).map}
    BY <2>2, <1>0, <1>8 DEF Led
  <2>4. msgs[i0].to \in {0, m}
    BY <2>2, <2>3, <1>8
  <2>5. i0 \in 1..n
    BY <1>0
  <2>6. s[i0] = <<msgs[i0]>>
    BY <2>4, <2>5, <1>1
  <2>7. 1 \in 1..Len(s[i0])
    BY <2>6
  <2>8. off[i0] = off[i0 - 1] + 1 /\ f[off[i0 - 1] + 1] = msgs[i0] /\ off[i0 - 1] \in Nat
    BY <2>5, <2>7, <1>7
  <2>9. off[i0] <= off[i - 1] /\ off[i - 1] \in Nat
    <3>1. i0 \in 0..n /\ i - 1 \in 0..n /\ i0 <= i - 1
      BY <1>0
    <3> QED BY <3>1, <1>6
  <2>10. off[i0 - 1] + 1 \in 1..(j - 1)
    BY <2>2, <2>8, <2>9
  <2> QED BY <2>2, <2>3, <2>8, <2>10
<1> QED BY <1>1, <1>4, <1>8 DEF Known, T

LEMMA KnownJoin ==
  ASSUME NEW ts, NEW m, NEW S, NEW q \in Seq(S), NEW r \in Seq(S), Known(ts, m, q), Known(ts, m, r)
  PROVE  Known(ts, m, q \o r)
<1> DEFINE u == q \o r
<1>2. /\ Len(u) = Len(q) + Len(r) /\ Len(q) \in Nat /\ Len(r) \in Nat
      /\ DOMAIN u = 1..Len(u) /\ DOMAIN q = 1..Len(q) /\ DOMAIN r = 1..Len(r)
      /\ \A j \in 1..Len(q) : u[j] = q[j]
      /\ \A j \in 1..Len(r) : u[Len(q) + j] = r[j]
  OBVIOUS
<1> HIDE DEF u
<1>3. ASSUME NEW j \in DOMAIN u, u[j].what \in Terms,
             ObjAt(ts, SubSeq(u[j].path, 1, 4)).map = m
      PROVE  \E i \in 1..(j - 1) :
               u[i].what = "addobj" /\ u[i].path = SubSeq(u[j].path, 1, 4)
  <2>1. CASE j \in 1..Len(q)
    <3>1. u[j] = q[j] /\ j \in DOMAIN q
      BY <2>1, <1>2
    <3>2. PICK i \in 1..(j - 1) : q[i].what = "addobj" /\ q[i].path = SubSeq(q[j].path, 1, 4)
      BY <3>1, <1>3 DEF Known
    <3>3. i \in 1..Len(q)
      BY <2>1, <1>2
    <3> QED BY <3>1, <3>2, <3>3, <1>2
  <2>2. CASE ~(j \in 1..Len(q))
    <3> DEFINE k == j - Len(q)
    <3>1. k \in 1..Len(r) /\ j = Len(q) + k
      BY <2>2, <1>2
    <3>2. u[j] = r[k] /\ k \in DOMAIN r
      BY <3>1, <1>2
    <3> HIDE DEF k
    <3>3. PICK i \in 1..(k - 1) : r[i].what = "addobj" /\ r[i].path = SubSeq(r[k].path, 1, 4)
      BY <3>2, <1>3 DEF Known
    <3>4. i \in 1..Len(r) /\ Len(q) + i \in 1..(j - 1)
      BY <3>1, <1>2
    <3> QED BY <3>2, <3>3, <3>4, <1>2
  <2> QED BY <2>1, <2>2
<1> QED BY <1>3 DEF Known, u

Boxes(ts, box) ==
  /\ DOMAIN box = Maps
  /\ \A m \in Maps : Queue(m, box[m]) /\ Known(ts, m, box[m])

LEMMA DeliverKeeps ==
  ASSUME NEW a, NEW S, NEW msgs \in Seq(S), \A x \in S : x.what \in Kinds, Led(msgs),
         Boxes(themes, inbox), Deliver(a, msgs)
  PROVE  Boxes(themes, inbox')
<1>1. ASSUME NEW m \in Maps PROVE Queue(m, inbox'[m]) /\ Known(themes, m, inbox'[m])
  <2>1. Queue(m, inbox[m]) /\ Known(themes, m, inbox[m])
    BY DEF Boxes
  <2>2. CASE ~Reaches(a, m)
    <3>1. inbox'[m] = inbox[m]
      BY <2>2 DEF Deliver
    <3> QED BY <2>1, <3>1
  <2>3. CASE Reaches(a, m)
    <3> DEFINE r == SentTo(m, msgs)
               T == {x \in S : x.to \in {0, m}}
    <3>1. inbox'[m] = inbox[m] \o r
      BY <2>3 DEF Deliver
    <3>2. r \in Seq(T) /\ Known(themes, m, r)
      BY SentKnown
    <3>3. PICK U : inbox[m] \in Seq(U) /\ \A x \in U : x.what \in Kinds /\ x.to \in {0, m}
      BY <2>1 DEF Queue
    <3>4. \A x \in T : x.what \in Kinds /\ x.to \in {0, m}
      OBVIOUS
    <3> HIDE DEF r, T
    <3>5. inbox[m] \in Seq(U \cup T) /\ r \in Seq(U \cup T)
      BY <3>2, <3>3
    <3>6. inbox[m] \o r \in Seq(U \cup T)
      BY <3>5
    <3>7. Known(themes, m, inbox[m] \o r)
      BY <2>1, <3>2, <3>5, KnownJoin
    <3>8. \A x \in U \cup T : x.what \in Kinds /\ x.to \in {0, m}
      BY <3>3, <3>4
    <3>9. Queue(m, inbox[m] \o r)
      BY <3>6, <3>8 DEF Queue
    <3> QED BY <3>1, <3>7, <3>9
  <2> QED BY <2>2, <2>3
<1>2. DOMAIN inbox' = Maps
  BY DEF Deliver
<1> QED BY <1>1, <1>2 DEF Boxes

LEMMA SoundKeeps ==
  ASSUME NEW a, NEW msgs, Sound(msgs), Boxes(themes, inbox), Deliver(a, msgs)
  PROVE  Boxes(themes, inbox')
<1>1. msgs \in Seq(Mails) /\ Led(msgs)
  BY DEF Sound
<1>2. \A x \in Mails : x.what \in Kinds
  BY DEF Mails
<1> QED BY <1>1, <1>2, DeliverKeeps

-----------------------------------------------------------------------------
(* What the agents say is sound. *)
LEMMA PathParts ==
  ASSUME NEW ts \in Trees, NEW p \in Paths(ts)
  PROVE  /\ p = <<p[1], p[2], p[3], p[4]>> /\ p \in Seq(Nat) /\ Len(p) = 4
         /\ p[1] \in DOMAIN ts /\ p[2] \in DOMAIN ts[p[1]].maps
         /\ ts[p[1]].maps[p[2]].num \in Nat
         /\ ObjAt(ts, p) \in Objs
<1>1. PICK t \in DOMAIN ts :
        p \in UNION {UNION {{<<t, m, s, o>> : o \in DOMAIN ts[t].maps[m].steps[s]} :
                            s \in DOMAIN ts[t].maps[m].steps} : m \in DOMAIN ts[t].maps}
  BY DEF Paths
<1>2. PICK m \in DOMAIN ts[t].maps :
        p \in UNION {{<<t, m, s, o>> : o \in DOMAIN ts[t].maps[m].steps[s]} :
                     s \in DOMAIN ts[t].maps[m].steps}
  BY <1>1
<1>3. PICK s \in DOMAIN ts[t].maps[m].steps :
        p \in {<<t, m, s, o>> : o \in DOMAIN ts[t].maps[m].steps[s]}
  BY <1>2
<1>4. PICK o \in DOMAIN ts[t].maps[m].steps[s] : p = <<t, m, s, o>>
  BY <1>3
<1>5. ts[t] \in ThemeRecs /\ t \in Nat
  BY DEF Trees
<1>6. ts[t].maps[m] \in MapRecs /\ m \in Nat
  <2>1. ts[t].maps \in Seq(MapRecs)
    BY <1>5 DEF ThemeRecs
  <2> QED BY <2>1
<1>7. ts[t].maps[m].steps[s] \in Seq(Objs) /\ s \in Nat
  <2>1. ts[t].maps[m].steps \in Seq(Seq(Objs))
    BY <1>6 DEF MapRecs
  <2> QED BY <2>1
<1>8. ts[t].maps[m].steps[s][o] \in Objs /\ o \in Nat
  BY <1>7
<1>9. p[1] = t /\ p[2] = m /\ p[3] = s /\ p[4] = o /\ Len(p) = 4
  BY <1>4
<1>10. p \in Seq(Nat)
  BY <1>4, <1>5, <1>6, <1>7, <1>8
<1>11. ts[t].maps[m].num \in Nat
  BY <1>6 DEF MapRecs
<1> QED BY <1>1, <1>2, <1>4, <1>8, <1>9, <1>10, <1>11 DEF ObjAt

LEMMA OnPath ==
  ASSUME NEW ts, NEW t \in DOMAIN ts, NEW m \in DOMAIN ts[t].maps,
         NEW s \in DOMAIN ts[t].maps[m].steps, NEW o \in DOMAIN ts[t].maps[m].steps[s]
  PROVE  <<t, m, s, o>> \in Paths(ts)
BY DEF Paths

LEMMA ObjParts ==
  ASSUME NEW ts \in Trees, NEW p \in Paths(ts)
  PROVE  /\ ObjAt(ts, p).map \in Nat /\ ObjAt(ts, p).kids \in Seq(KidRecs)
         /\ \A kind : KidCount(ts, p, kind) \in Nat
         /\ \A k \in DOMAIN ObjAt(ts, p).kids :
              /\ k \in Nat /\ ObjAt(ts, p).kids[k].kids \in Seq(Leaves)
              /\ \A j \in DOMAIN ObjAt(ts, p).kids[k].kids :
                   j \in Nat /\ ObjAt(ts, p).kids[k].kids[j].map \in Nat
<1>1. ObjAt(ts, p).map \in Nat /\ ObjAt(ts, p).kids \in Seq(KidRecs)
  BY PathParts DEF Objs
<1> DEFINE kids == ObjAt(ts, p).kids
<1>2. ASSUME NEW kind PROVE KidCount(ts, p, kind) \in Nat
  <2> DEFINE I == {i \in DOMAIN kids : kids[i].kind = kind}
  <2>1. DOMAIN kids = 1..Len(kids) /\ Len(kids) \in Nat
    BY <1>1
  <2>2. IsFiniteSet(1..Len(kids))
    BY <2>1, FS_Interval
  <2>3. I \subseteq 1..Len(kids)
    BY <2>1
  <2>4. IsFiniteSet(I)
    <3> HIDE DEF I
    <3> QED BY <2>2, <2>3, FS_Subset
  <2>5. Cardinality(I) \in Nat
    <3> HIDE DEF I
    <3> QED BY <2>4, FS_CardinalityType
  <2> QED BY <2>5 DEF KidCount
<1>3. ASSUME NEW k \in DOMAIN kids
      PROVE  /\ k \in Nat /\ kids[k].kids \in Seq(Leaves)
             /\ \A j \in DOMAIN kids[k].kids : j \in Nat /\ kids[k].kids[j].map \in Nat
  <2>1. k \in Nat /\ kids[k] \in KidRecs
    BY <1>1
  <2>2. kids[k].kids \in Seq(Leaves)
    BY <2>1 DEF KidRecs
  <2>3. \A j \in DOMAIN kids[k].kids : j \in Nat /\ kids[k].kids[j] \in Leaves
    BY <2>2
  <2> QED BY <2>1, <2>2, <2>3 DEF Leaves
<1> QED BY <1>1, <1>2, <1>3

LEMMA PathOf ==
  ASSUME NEW S, NEW p \in Seq(S), NEW e \in Seq(S), Len(e) >= 2
  PROVE  /\ p \o e \in Seq(S) /\ SubSeq(p \o e, 1, Len(p)) = p
         /\ (p \o e)[Len(p) + 1] = e[1] /\ (p \o e)[Len(p) + 2] = e[2]
<1>1. p \o e \in Seq(S)
  OBVIOUS
<1>2. Len(p \o e) = Len(p) + Len(e)
  OBVIOUS
<1>3. \A i \in 1..Len(p) : (p \o e)[i] = p[i]
  OBVIOUS
<1>4. \A i \in 1..Len(e) : (p \o e)[Len(p) + i] = e[i]
  OBVIOUS
<1>5. ASSUME NEW q \in Seq(S), Len(q) >= Len(p), \A i \in 1..Len(p) : q[i] = p[i]
      PROVE  SubSeq(q, 1, Len(p)) = p
  <2>1. SubSeq(q, 1, Len(p)) \in Seq(S)
    BY <1>5
  <2>2. Len(SubSeq(q, 1, Len(p))) = Len(p)
    BY <1>5
  <2>3. \A i \in 1..Len(p) : SubSeq(q, 1, Len(p))[i] = p[i]
    BY <1>5
  <2> QED BY <2>1, <2>2, <2>3
<1>6. (p \o e)[Len(p) + 1] = e[1] /\ (p \o e)[Len(p) + 2] = e[2]
  <2>1. 1 \in 1..Len(e) /\ 2 \in 1..Len(e)
    OBVIOUS
  <2> QED BY <1>4, <2>1
<1>7. Len(p \o e) >= Len(p)
  BY <1>2
<1>8. SubSeq(p \o e, 1, Len(p)) = p
  BY <1>1, <1>3, <1>5, <1>7
<1> QED BY <1>1, <1>6, <1>8

LEMMA KidPath ==
  ASSUME NEW p \in Seq(Nat), Len(p) = 4, NEW k \in Nat, NEW j \in Nat
  PROVE  /\ p \o <<k, j>> \in Seq(Nat) /\ SubSeq(p \o <<k, j>>, 1, 4) = p
         /\ (p \o <<k, j>>)[5] = k /\ (p \o <<k, j>>)[6] = j
<1> DEFINE e == <<k, j>>
<1>1. e \in Seq(Nat) /\ Len(e) = 2 /\ e[1] = k /\ e[2] = j
  OBVIOUS
<1> HIDE DEF e
<1>2. Len(e) >= 2
  BY <1>1
<1>3. /\ p \o e \in Seq(Nat) /\ SubSeq(p \o e, 1, Len(p)) = p
      /\ (p \o e)[Len(p) + 1] = e[1] /\ (p \o e)[Len(p) + 2] = e[2]
  BY <1>1, <1>2, PathOf, Zenon
<1>4. 4 + 1 = 5 /\ 4 + 2 = 6
  OBVIOUS
<1> QED BY <1>1, <1>3, <1>4 DEF e

TermsOf(p) == {x \in Mails : SubSeq(x.path, 1, 4) = p}

LEMMA AnnouncedTerms ==
  ASSUME themes \in Trees, NEW p \in Paths(themes), NEW kind, NEW what \in Terms
  PROVE  Announced(p, kind, what) \in Seq(TermsOf(p))
<1> DEFINE n == KidCount(themes, p, kind)
           F == [k \in 1..n |->
                  IF HasKidAt(themes, p, k, kind) /\ k \in DOMAIN ObjAt(themes, p).kids[k].kids
                  THEN <<Msg(0, what, p \o <<k, k>>, 0)>> ELSE <<>>]
<1>1. n \in Nat /\ p \in Seq(Nat) /\ Len(p) = 4
  BY PathParts, ObjParts
<1>2. ASSUME NEW k \in 1..n PROVE F[k] \in Seq(TermsOf(p))
  <2>1. k \in Nat
    BY <1>1
  <2>2. p \o <<k, k>> \in Seq(Nat) /\ SubSeq(p \o <<k, k>>, 1, 4) = p
    BY <1>1, <2>1, KidPath
  <2>3. what \in Kinds
    BY DEF Terms, Kinds
  <2>4. Msg(0, what, p \o <<k, k>>, 0) \in TermsOf(p)
    BY <2>2, <2>3 DEF Msg, TermsOf, Mails
  <2>5. <<Msg(0, what, p \o <<k, k>>, 0)>> \in Seq(TermsOf(p)) /\ <<>> \in Seq(TermsOf(p))
    BY <2>4
  <2> QED BY <2>5
<1>3. F = [k \in 1..n |-> F[k]]
  OBVIOUS
<1>4. FlattenSeq(F) \in Seq(TermsOf(p))
  <2> HIDE DEF n, F
  <2> QED BY <1>1, <1>2, <1>3, FlatList
<1> QED BY <1>4 DEF Announced

LEMMA TermsSound ==
  ASSUME themes \in Trees, NEW p \in Paths(themes),
         NEW x \in Mails, x.what = "addobj", x.path = p, x.to \in {0, ObjAt(themes, p).map}
  PROVE  Sound(<<x>> \o ExecuteTermsAndCommand(p))
<1> DEFINE q == ExecuteTermsAndCommand(p)
           u == <<x>> \o q
<1>1. q \in Seq(TermsOf(p))
  <2>1. /\ Announced(p, "start", "check") \in Seq(TermsOf(p))
        /\ Announced(p, "end", "check") \in Seq(TermsOf(p))
        /\ Announced(p, "command", "command") \in Seq(TermsOf(p))
    BY AnnouncedTerms DEF Terms
  <2>2. \A a, b \in Seq(TermsOf(p)) : a \o b \in Seq(TermsOf(p))
    OBVIOUS
  <2> QED BY <2>1, <2>2 DEF ExecuteTermsAndCommand
<1> HIDE DEF q
<1>2. q \in Seq(Mails) /\ \A i \in 1..Len(q) : SubSeq(q[i].path, 1, 4) = p
  <2>1. \A i \in 1..Len(q) : q[i] \in TermsOf(p)
    BY <1>1
  <2>2. TermsOf(p) \subseteq Mails
    BY DEF TermsOf
  <2> QED BY <1>1, <2>1, <2>2 DEF TermsOf
<1>3. /\ u \in Seq(Mails) /\ DOMAIN u = 1..(Len(q) + 1) /\ u[1] = x /\ Len(q) \in Nat
      /\ \A i \in 1..Len(q) : u[i + 1] = q[i]
  BY <1>2
<1> HIDE DEF u
<1>4. ASSUME NEW j \in DOMAIN u, u[j].what \in Terms
      PROVE  1 \in 1..(j - 1) /\ SubSeq(u[j].path, 1, 4) = p
  <2>1. j # 1
    BY <1>3, <1>4 DEF Terms
  <2>2. j - 1 \in 1..Len(q) /\ (j - 1) + 1 = j
    BY <2>1, <1>3
  <2> QED BY <2>2, <1>2, <1>3
<1>5. Led(u)
  BY <1>3, <1>4 DEF Led
<1> QED BY <1>3, <1>5 DEF Sound, u, q

LEMMA AddObjSound ==
  ASSUME themes \in Trees, NEW p \in Paths(themes)
  PROVE  Sound(ExecuteAddObj(p))
<1>1. p \in Seq(Nat)
  BY PathParts
<1>2. Msg(0, "addobj", p, 0) \in Mails
  BY <1>1 DEF Mails, Msg, Kinds
<1> QED BY <1>2, TermsSound DEF ExecuteAddObj, Msg

LEMMA ThemeParts ==
  ASSUME NEW ts \in Trees, NEW t \in DOMAIN ts
  PROVE  /\ ts[t].maps \in Seq(MapRecs)
         /\ \A m \in DOMAIN ts[t].maps :
              /\ m \in Nat /\ ts[t].maps[m].num \in Nat
              /\ ts[t].maps[m].steps \in Seq(Seq(Objs))
              /\ \A s \in DOMAIN ts[t].maps[m].steps : ts[t].maps[m].steps[s] \in Seq(Objs)
<1>0. ts[t] \in ThemeRecs
  BY DEF Trees
<1>1. ts[t].maps \in Seq(MapRecs)
  BY <1>0 DEF ThemeRecs
<1>2. \A m \in DOMAIN ts[t].maps : m \in Nat /\ ts[t].maps[m] \in MapRecs
  BY <1>1
<1>3. \A m \in DOMAIN ts[t].maps : ts[t].maps[m].num \in Nat /\ ts[t].maps[m].steps \in Seq(Seq(Objs))
  BY <1>2 DEF MapRecs
<1> QED BY <1>1, <1>2, <1>3

LEMMA StepSound ==
  ASSUME themes \in Trees, NEW t \in DOMAIN themes, NEW m \in DOMAIN themes[t].maps,
         NEW s \in DOMAIN themes[t].maps[m].steps
  PROVE  Sound(EachOfStep(themes, t, m, s, ExecuteAddObj))
<1> DEFINE n == Len(themes[t].maps[m].steps[s])
           F == [o \in 1..n |-> ExecuteAddObj(<<t, m, s, o>>)]
<1>1. n \in Nat /\ DOMAIN themes[t].maps[m].steps[s] = 1..n
  BY ThemeParts
<1>2. \A o \in 1..n : Sound(F[o])
  BY <1>1, OnPath, AddObjSound
<1>3. F = [o \in 1..n |-> F[o]]
  OBVIOUS
<1>4. Sound(FlattenSeq(F))
  <2> HIDE DEF n, F
  <2> QED BY <1>1, <1>2, <1>3, SoundList
<1> QED BY <1>4 DEF EachOfStep

LEMMA MapSound ==
  ASSUME themes \in Trees, NEW t \in DOMAIN themes, NEW m \in DOMAIN themes[t].maps
  PROVE  Sound(EachOfMap(themes, t, m, ExecuteAddObj))
<1> DEFINE n == Len(themes[t].maps[m].steps)
           F == [s \in 1..n |-> EachOfStep(themes, t, m, s, ExecuteAddObj)]
<1>1. n \in Nat /\ DOMAIN themes[t].maps[m].steps = 1..n
  BY ThemeParts
<1>2. \A s \in 1..n : Sound(F[s])
  BY <1>1, StepSound
<1>3. F = [s \in 1..n |-> F[s]]
  OBVIOUS
<1>4. Sound(FlattenSeq(F))
  <2> HIDE DEF n, F
  <2> QED BY <1>1, <1>2, <1>3, SoundList
<1> QED BY <1>4 DEF EachOfMap

LEMMA OneQuiet ==
  ASSUME NEW to \in Nat, NEW what \in Kinds \ Terms, NEW path \in Seq(Nat), NEW n \in Nat
  PROVE  Msg(to, what, path, n) \in Quiet /\ Sound(<<Msg(to, what, path, n)>>)
<1>1. Msg(to, what, path, n) \in Quiet
  BY DEF Msg, Quiet, Mails
<1>2. <<Msg(to, what, path, n)>> \in Seq(Quiet)
  BY <1>1
<1> QED BY <1>1, <1>2, QuietSound

LEMMA ThemeSound ==
  ASSUME themes \in Trees, NEW t \in DOMAIN themes
  PROVE  Sound(ExecuteStep(t))
<1> DEFINE n == Len(themes[t].maps)
           F == [m \in 1..n |->
                  EachOfMap(themes, t, m, ExecuteAddObj)
                    \o <<Msg(0, "loaded", <<>>, themes[t].maps[m].num)>>]
<1>1. n \in Nat /\ DOMAIN themes[t].maps = 1..n
  BY ThemeParts
<1>2. ASSUME NEW m \in 1..n PROVE Sound(F[m])
  <2>1. Sound(EachOfMap(themes, t, m, ExecuteAddObj))
    BY <1>1, MapSound
  <2>2. themes[t].maps[m].num \in Nat
    BY <1>1, ThemeParts
  <2>3. Sound(<<Msg(0, "loaded", <<>>, themes[t].maps[m].num)>>)
    <3>1. <<>> \in Seq(Nat) /\ "loaded" \in Kinds \ Terms
      BY DEF Kinds, Terms
    <3> QED BY <3>1, <2>2, OneQuiet
  <2> QED BY <2>1, <2>3, SoundJoin
<1>3. F = [m \in 1..n |-> F[m]]
  OBVIOUS
<1>4. Sound(FlattenSeq(F))
  <2> HIDE DEF n, F
  <2> QED BY <1>1, <1>2, <1>3, SoundList
<1> QED BY <1>4 DEF ExecuteStep

(* Deaths and next steps name no term. *)
LEMMA DeathQuiet ==
  ASSUME themes \in Trees, NEW p \in Paths(themes)
  PROVE  Sound(DeathRecalls(p))
<1> DEFINE n == KidCount(themes, p, "command")
           kids == ObjAt(themes, p).kids
           F == [k \in 1..n |->
                  IF HasKidAt(themes, p, k, "command")
                  THEN [j \in 1..Len(kids[k].kids) |->
                          Msg(0, "addobj", p \o <<k, j>>, ObjAt(themes, p).map)]
                  ELSE <<>>]
<1>1. n \in Nat /\ p \in Seq(Nat) /\ Len(p) = 4 /\ ObjAt(themes, p).map \in Nat
  BY PathParts, ObjParts
<1>2. ASSUME NEW k \in 1..n PROVE F[k] \in Seq(Quiet)
  <2>1. CASE HasKidAt(themes, p, k, "command")
    <3> DEFINE G == [j \in 1..Len(kids[k].kids) |->
                      Msg(0, "addobj", p \o <<k, j>>, ObjAt(themes, p).map)]
    <3>1. k \in DOMAIN kids
      BY <2>1 DEF HasKidAt
    <3>2. Len(kids[k].kids) \in Nat /\ k \in Nat
      BY <3>1, ObjParts
    <3>3. ASSUME NEW j \in 1..Len(kids[k].kids) PROVE G[j] \in Quiet
      <4>1. p \o <<k, j>> \in Seq(Nat)
        BY <1>1, <3>2, KidPath
      <4>2. "addobj" \in Kinds \ Terms
        BY DEF Kinds, Terms
      <4> QED BY <4>1, <4>2, <1>1, OneQuiet
    <3>4. G \in Seq(Quiet)
      <4> DEFINE c == Len(kids[k].kids)
      <4>1. c \in Nat /\ G = [j \in 1..c |-> G[j]] /\ \A j \in 1..c : G[j] \in Quiet
        BY <3>2, <3>3
      <4> HIDE DEF c, G
      <4> QED BY <4>1, ListOf
    <3> QED BY <2>1, <3>4
  <2>2. CASE ~HasKidAt(themes, p, k, "command")
    BY <2>2
  <2> QED BY <2>1, <2>2
<1>3. F = [k \in 1..n |-> F[k]]
  OBVIOUS
<1>4. FlattenSeq(F) \in Seq(Quiet)
  <2> HIDE DEF n, F
  <2> QED BY <1>1, <1>2, <1>3, FlatList
<1> QED BY <1>4, QuietSound DEF DeathRecalls

LEMMA NextQuiet ==
  ASSUME themes \in Trees, NEW p \in Paths(themes)
  PROVE  NextOf(p) \in Seq(Quiet) /\ <<Msg(0, "next", p, 0)>> \in Seq(Quiet)
<1> DEFINE n == KidCount(themes, p, "command")
           F == [k \in 1..n |->
                  IF HasKidAt(themes, p, k, "command") /\ k \in DOMAIN ObjAt(themes, p).kids[k].kids
                  THEN <<Msg(0, "next", p \o <<k, k>>, ObjAt(themes, p).map)>> ELSE <<>>]
<1>1. n \in Nat /\ p \in Seq(Nat) /\ Len(p) = 4 /\ ObjAt(themes, p).map \in Nat
  BY PathParts, ObjParts
<1>0. "next" \in Kinds \ Terms
  BY DEF Kinds, Terms
<1>2. ASSUME NEW k \in 1..n PROVE F[k] \in Seq(Quiet)
  <2>1. p \o <<k, k>> \in Seq(Nat)
    BY <1>1, KidPath
  <2>2. Msg(0, "next", p \o <<k, k>>, ObjAt(themes, p).map) \in Quiet
    BY <1>0, <1>1, <2>1, OneQuiet
  <2> HIDE DEF n
  <2>3. <<Msg(0, "next", p \o <<k, k>>, ObjAt(themes, p).map)>> \in Seq(Quiet) /\ <<>> \in Seq(Quiet)
    BY <2>2
  <2> QED BY <2>3
<1>3. F = [k \in 1..n |-> F[k]]
  OBVIOUS
<1>4. FlattenSeq(F) \in Seq(Quiet)
  <2> HIDE DEF n, F
  <2> QED BY <1>1, <1>2, <1>3, FlatList
<1>5. Msg(0, "next", p, 0) \in Quiet
  BY <1>0, <1>1, OneQuiet
<1>6. <<Msg(0, "next", p, 0)>> \in Seq(Quiet)
  BY <1>5
<1>7. \A a, b \in Seq(Quiet) : a \o b \in Seq(Quiet)
  OBVIOUS
<1> QED BY <1>4, <1>6, <1>7 DEF NextOf

LEMMA EndQuiet ==
  ASSUME themes \in Trees, NEW t \in DOMAIN themes, NEW m \in DOMAIN themes[t].maps
  PROVE  Sound(EachOfMap(themes, t, m, NextOf))
<1> DEFINE n == Len(themes[t].maps[m].steps)
           F == [s \in 1..n |-> EachOfStep(themes, t, m, s, NextOf)]
<1>1. n \in Nat /\ DOMAIN themes[t].maps[m].steps = 1..n
  BY ThemeParts
<1>2. ASSUME NEW s \in 1..n PROVE F[s] \in Seq(Quiet)
  <2> DEFINE c == Len(themes[t].maps[m].steps[s])
             G == [o \in 1..c |-> NextOf(<<t, m, s, o>>)]
  <2>1. c \in Nat /\ DOMAIN themes[t].maps[m].steps[s] = 1..c
    BY <1>1, ThemeParts
  <2>2. \A o \in 1..c : G[o] \in Seq(Quiet)
    BY <1>1, <2>1, OnPath, NextQuiet
  <2>3. G = [o \in 1..c |-> G[o]]
    OBVIOUS
  <2>4. FlattenSeq(G) \in Seq(Quiet)
    <3> HIDE DEF c, G
    <3> QED BY <2>1, <2>2, <2>3, FlatList
  <2> QED BY <2>4 DEF EachOfStep
<1>3. F = [s \in 1..n |-> F[s]]
  OBVIOUS
<1>4. FlattenSeq(F) \in Seq(Quiet)
  <2> HIDE DEF n, F
  <2> QED BY <1>1, <1>2, <1>3, FlatList
<1> QED BY <1>4, QuietSound DEF EachOfMap

LEMMA MapFound ==
  ASSUME NEW ts, NEW t, NEW num, HasMapNum(ts, t, num)
  PROVE  MapByNum(ts, t, num) \in DOMAIN ts[t].maps
BY DEF HasMapNum, MapByNum

LEMMA ThemeFound ==
  ASSUME NEW ts \in Trees, NEW w, ThemesByIdx(ts, w) # {}
  PROVE  ThemeByIdx(ts, w) \in DOMAIN ts
<1> DEFINE T == ThemesByIdx(ts, w)
<1>1. T \subseteq Nat /\ T \subseteq DOMAIN ts
  BY DEF ThemesByIdx, Trees
<1> HIDE DEF T
<1>2. \E t \in T : \A x \in T : t <= x
  <2>1. T # {}
    BY DEF T
  <2> QED BY <1>1, <2>1, LeastOf
<1>3. (CHOOSE t \in T : \A x \in T : t <= x) \in T
  BY <1>2
<1> QED BY <1>1, <1>3 DEF ThemeByIdx, T

(* The answer to a load. *)
RowKinds == {r \in [path : Seq(Nat), com : Nat, stage : Nat, recall : Nat, request : Nat] :
               r.path \in Paths(themes) /\ r.recall = ObjAt(themes, r.path).map}

LEMMA RowParts ==
  ASSUME themes \in Trees, NEW m \in Nat
  PROVE  RowsFor(m) \subseteq RowKinds
<1>1. ASSUME NEW p \in Paths(themes), NEW com \in {1, 2}, NEW stage \in 0..4
      PROVE  Row(p, com, stage, m % 256) \in RowKinds
  <2>1. p \in Seq(Nat) /\ ObjAt(themes, p).map \in Nat
    BY PathParts, ObjParts
  <2>2. m % 256 \in Nat
    OBVIOUS
  <2> QED BY <2>1, <2>2 DEF Row, RowKinds
<1> QED BY <1>1 DEF RowsFor

LEMMA RowSound ==
  ASSUME themes \in Trees, NEW a, NEW r \in RowKinds
  PROVE  Sound(FromRow(a, r))
<1> DEFINE p == r.path
           obj == ObjAt(themes, p)
           first == <<Msg(r.recall, "addobj", p, themes[p[1]].maps[p[2]].num)>>
           F == [j \in 1..Len(obj.kids[r.com].kids) |-> FromChild(r, p \o <<r.com, j>>)]
<1>0. /\ p \in Paths(themes) /\ r.recall = obj.map
      /\ r.com \in Nat /\ r.stage \in Nat /\ r.request \in Nat
  BY DEF RowKinds
<1>1. /\ p \in Seq(Nat) /\ Len(p) = 4 /\ themes[p[1]].maps[p[2]].num \in Nat
      /\ obj.map \in Nat /\ p = <<p[1], p[2], p[3], p[4]>>
  BY <1>0, PathParts, ObjParts
<1>2. "addobj" \in Kinds \ Terms /\ "addobj" \in Kinds
  BY DEF Kinds, Terms
<1>3. Sound(<<>>)
  <2>1. <<>> \in Seq(Quiet)
    OBVIOUS
  <2> QED BY <2>1, QuietSound
<1>4. Sound(first \o ExecuteTermsAndCommand(p))
  <2>1. Msg(r.recall, "addobj", p, themes[p[1]].maps[p[2]].num) \in Mails
    BY <1>0, <1>1, <1>2 DEF Msg, Mails
  <2> QED BY <2>1, <1>0, TermsSound DEF Msg
<1>5. ASSUME HasKidAt(themes, p, r.com, "command") PROVE Sound(FlattenSeq(F))
  <2>1. r.com \in DOMAIN obj.kids
    BY <1>5 DEF HasKidAt
  <2>2. /\ Len(obj.kids[r.com].kids) \in Nat
        /\ DOMAIN obj.kids[r.com].kids = 1..Len(obj.kids[r.com].kids)
        /\ \A j \in DOMAIN obj.kids[r.com].kids : obj.kids[r.com].kids[j].map \in Nat
    BY <1>0, <2>1, ObjParts
  <2>3. ASSUME NEW j \in 1..Len(obj.kids[r.com].kids) PROVE F[j] \in Seq(Quiet)
    <3> DEFINE sub == p \o <<r.com, j>>
    <3>1. sub \in Seq(Nat) /\ SubSeq(sub, 1, 4) = p /\ sub[5] = r.com /\ sub[6] = j
      <4>1. j \in Nat /\ r.com \in Nat
        BY <1>0, <2>2
      <4>2. \A c, d \in Nat :
              /\ p \o <<c, d>> \in Seq(Nat) /\ SubSeq(p \o <<c, d>>, 1, 4) = p
              /\ (p \o <<c, d>>)[5] = c /\ (p \o <<c, d>>)[6] = d
        <5> HIDE DEF p
        <5> QED BY <1>1, KidPath
      <4> QED BY <4>1, <4>2, Zenon
    <3> HIDE DEF sub
    <3>2. ObjAt(themes, sub) = obj
      <4>1. \A i \in 1..4 : sub[i] = p[i]
        <5>1. \A i \in 1..4 : SubSeq(sub, 1, 4)[i] = sub[i]
          <6>1. Len(sub) >= 4
            BY <1>1, <2>2, <1>0 DEF sub
          <6> QED BY <3>1, <6>1
        <5> QED BY <3>1, <5>1
      <4>2. sub[1] = p[1] /\ sub[2] = p[2] /\ sub[3] = p[3] /\ sub[4] = p[4]
        BY <4>1
      <4> QED BY <4>2 DEF ObjAt
    <3>3. SubAt(themes, sub) = obj.kids[r.com].kids[j]
      BY <3>1, <3>2 DEF SubAt, KidAt
    <3>4. SubAt(themes, sub).map \in Nat
      BY <3>3, <2>2
    <3> DEFINE to == IF r.stage = 2 THEN SubAt(themes, sub).map ELSE r.recall
    <3>5. to \in Nat
      BY <1>0, <1>1, <3>4
    <3>6. Msg(to, "addobj", sub, obj.map) \in Quiet
      <4> HIDE DEF to
      <4> QED BY <1>1, <1>2, <3>1, <3>5, OneQuiet
    <3>7. <<Msg(to, "addobj", sub, obj.map)>> \in Seq(Quiet) /\ <<>> \in Seq(Quiet)
      <4> HIDE DEF to
      <4> QED BY <3>6
    <3>8. FromChild(r, sub) \in {<<>>, <<Msg(to, "addobj", sub, obj.map)>>}
      BY DEF FromChild
    <3>9. FromChild(r, sub) \in Seq(Quiet)
      BY <3>7, <3>8
    <3> QED BY <3>9 DEF sub
  <2>4. F = [j \in 1..Len(obj.kids[r.com].kids) |-> F[j]]
    OBVIOUS
  <2>5. FlattenSeq(F) \in Seq(Quiet)
    <3> HIDE DEF F
    <3> QED BY <2>2, <2>3, <2>4, FlatList
  <2> QED BY <2>5, QuietSound
<1>6. \/ FromRow(a, r) = <<>>
      \/ FromRow(a, r) = first \o ExecuteTermsAndCommand(p)
      \/ HasKidAt(themes, p, r.com, "command") /\ FromRow(a, r) = FlattenSeq(F)
  <2>1. CASE ~Reaches(a, r.recall)
    BY <2>1 DEF FromRow
  <2>2. CASE Reaches(a, r.recall)
    <3> DEFINE A == r.stage = 1 /\ r.request = r.recall
               B == r.stage \in {2, 3} /\ HasKidAt(themes, p, r.com, "command")
    <3>1. FromRow(a, r) = CASE A -> first \o ExecuteTermsAndCommand(p)
                            [] B -> FlattenSeq(F)
                            [] OTHER -> <<>>
      BY <2>2, Zenon DEF FromRow
    <3>2. A => ~B
      OBVIOUS
    <3>3. B => HasKidAt(themes, p, r.com, "command")
      OBVIOUS
    <3> HIDE DEF A, B, first, F, p, obj
    <3> QED BY <3>1, <3>2, <3>3
  <2> QED BY <2>1, <2>2
<1> QED BY <1>3, <1>4, <1>5, <1>6

LEMMA AnswerSound ==
  ASSUME NEW m \in Nat, NEW rows \in Seq(RowKinds)
  PROVE  Sound(Answer(m, rows))
<1> DEFINE to == IF rows = <<>> THEN m ELSE Last(rows).request
           K == {i \in DOMAIN rows : rows[i].recall = m /\ rows[i].stage = 4}
<1>1. to \in Nat
  <2>1. rows # <<>> => Last(rows) \in RowKinds
    BY DEF Last
  <2> QED BY <2>1 DEF RowKinds
<1>2. Killed(m, rows) \in Nat
  <2>1. IsFiniteSet(1..Len(rows)) /\ K \subseteq 1..Len(rows)
    BY FS_Interval
  <2>2. Cardinality(K) \in Nat
    <3> HIDE DEF K
    <3> QED BY <2>1, FS_Subset, FS_CardinalityType
  <2> QED BY <2>2 DEF Killed
<1>3. "loaded" \in Kinds \ Terms /\ "killed" \in Kinds \ Terms /\ <<>> \in Seq(Nat)
  BY DEF Kinds, Terms
<1>4. Sound(<<Msg(to, "loaded", <<>>, to)>>) /\ Sound(<<Msg(to, "killed", <<>>, Killed(m, rows))>>)
  <2> HIDE DEF to
  <2> QED BY <1>1, <1>2, <1>3, OneQuiet
<1>5. Sound(<<>>)
  <2>1. <<>> \in Seq(Quiet)
    OBVIOUS
  <2> QED BY <2>1, QuietSound
<1>6. Answer(m, rows) =
        <<Msg(to, "loaded", <<>>, to)>>
          \o IF Killed(m, rows) = 0 THEN <<>> ELSE <<Msg(to, "killed", <<>>, Killed(m, rows))>>
  BY DEF Answer
<1> QED BY <1>4, <1>5, <1>6, SoundJoin

LEMMA LoadedSound ==
  ASSUME themes \in Trees, NEW a, NEW m \in Nat, NEW rows \in Seq(RowKinds)
  PROVE  Sound(Loaded(a, m, rows))
<1>1. CASE rows # <<>>
  <2> DEFINE n == Len(rows)
             F == [i \in 1..n |-> FromRow(a, rows[i])]
  <2>1. n \in Nat /\ \A i \in 1..n : rows[i] \in RowKinds
    OBVIOUS
  <2>2. \A i \in 1..n : Sound(F[i])
    BY <2>1, RowSound
  <2>3. F = [i \in 1..n |-> F[i]]
    OBVIOUS
  <2>4. Sound(FlattenSeq(F))
    <3> HIDE DEF n, F
    <3> QED BY <2>1, <2>2, <2>3, SoundList
  <2>5. Loaded(a, m, rows) = FlattenSeq(F) \o Answer(m, rows)
    BY <1>1 DEF Loaded
  <2> QED BY <2>4, <2>5, AnswerSound, SoundJoin
<1>2. CASE rows = <<>>
  <2>1. Sound(<<>>)
    <3>1. <<>> \in Seq(Quiet)
      OBVIOUS
    <3> QED BY <3>1, QuietSound
  <2>2. Sound(WholeTheme(0))
    BY <2>1, ThemeFound, ThemeSound DEF WholeTheme
  <2>3. \/ Loaded(a, m, rows) = <<>>
        \/ Loaded(a, m, rows) = WholeTheme(0) \o Answer(m, rows)
    BY <1>2 DEF Loaded
  <2> QED BY <2>1, <2>2, <2>3, AnswerSound, SoundJoin
<1> QED BY <1>1, <1>2

-----------------------------------------------------------------------------
LEMMA NoMail ==
  ASSUME NEW m
  PROVE  Queue(m, <<>>) /\ Known(themes, m, <<>>)
<1>1. \E S : <<>> \in Seq(S) /\ \A x \in S : x.what \in Kinds /\ x.to \in {0, m}
  <2> DEFINE E == {}
  <2>1. <<>> \in Seq(E) /\ \A x \in E : x.what \in Kinds /\ x.to \in {0, m}
    OBVIOUS
  <2> HIDE DEF E
  <2> QED BY <2>1, Zenon
<1> QED BY <1>1 DEF Queue, Known

(* The inductive invariant. *)
IInv ==
  /\ script \in Scripts /\ themes = LoadRecallInfo(script)
  /\ up \subseteq Maps
  /\ Boxes(themes, inbox)
  /\ queries \in [Agents -> [Maps -> Nat]]
  /\ \A a \in Agents : \A m \in Maps : queries[a][m] <= events
  /\ DOMAIN relays = Agents
  /\ events \in 0..MaxEvents

LEMMA ThemesAreTrees ==
  ASSUME IInv
  PROVE  themes \in Trees
<1>1. script \in Seq(Lines)
  BY SiegeAssumption DEF IInv, Lines
<1> QED BY <1>1, LoadedTree DEF IInv

LEMMA InitHolds == Init => IInv
<1> SUFFICES ASSUME Init PROVE IInv
  OBVIOUS
<1>2. Boxes(themes, inbox)
  BY NoMail DEF Init, Boxes
<1> QED BY <1>2, SiegeAssumption DEF Init, IInv

LEMMA StepHolds == IInv /\ [Next]_vars => IInv'
<1> SUFFICES ASSUME IInv, [Next]_vars PROVE IInv'
  OBVIOUS
<1>0. themes \in Trees
  BY ThemesAreTrees
<1>t. /\ script \in Scripts /\ themes = LoadRecallInfo(script)
      /\ up \subseteq Maps /\ Boxes(themes, inbox)
      /\ queries \in [Agents -> [Maps -> Nat]]
      /\ \A a \in Agents : \A m \in Maps : queries[a][m] <= events
      /\ DOMAIN relays = Agents
      /\ events \in 0..MaxEvents /\ MaxEvents \in Nat /\ Maps \subseteq Nat
  BY SiegeAssumption DEF IInv
<1>k. "addobj" \in Kinds \ Terms /\ "count" \in Kinds \ Terms /\ "remove" \in Kinds \ Terms
      /\ "remove_map" \in Kinds \ Terms /\ <<>> \in Seq(Nat)
  BY DEF Kinds, Terms
(* A step that sends messages and takes a request or a result. *)
<1>s. ASSUME NEW a \in Agents, NEW msgs, Sound(msgs), Deliver(a, msgs), Event,
             UNCHANGED <<script, themes, up, queries>>, DOMAIN relays' = Agents
      PROVE  IInv'
  <2>1. Boxes(themes, inbox')
    BY <1>s, <1>t, SoundKeeps
  <2>2. events' \in 0..MaxEvents /\ events' = events + 1
    BY <1>s, <1>t DEF Event
  <2>3. \A x \in Agents : \A m \in Maps : queries[x][m] <= events'
    BY <1>t, <2>2
  <2> QED BY <1>s, <1>t, <2>1, <2>2, <2>3 DEF IInv
<1>1. ASSUME NEW a \in Agents, NEW m \in Maps, MapMsg(a, m) PROVE IInv'
  <2>1. ASSUME NEW w, StepSyn(a, m, w) PROVE IInv'
    <3>1. Sound(ExecuteStep(ThemeByIdx(themes, w)))
      BY <1>0, <2>1, ThemeFound, ThemeSound DEF StepSyn
    <3> QED BY <1>s, <1>t, <2>1, <3>1 DEF StepSyn
  <2>2. ASSUME NEW num, NEW s, NEW o, ReadyExecuteCommand(a, m, num, s, o) PROVE IInv'
    <3>1. PICK p \in DeadObject(num, s, o) : Deliver(a, DeathRecalls(p))
      BY <2>2 DEF ReadyExecuteCommand
    <3>2. p \in Paths(themes)
      <4> DEFINE t == Len(themes)
                 k == MapByNum(themes, t, num)
      <4>1. /\ themes # <<>> /\ \A x \in DOMAIN themes : HasMapNum(themes, x, num)
            /\ s \in DOMAIN themes[t].maps[k].steps /\ o \in DOMAIN themes[t].maps[k].steps[s]
            /\ p = <<t, k, s, o>>
        BY <3>1 DEF DeadObject
      <4>2. t \in DOMAIN themes
        BY <1>0, <4>1 DEF Trees
      <4>3. k \in DOMAIN themes[t].maps
        BY <4>1, <4>2, MapFound
      <4> HIDE DEF t, k
      <4> QED BY <4>1, <4>2, <4>3, OnPath
    <3>3. Sound(DeathRecalls(p))
      BY <1>0, <3>2, DeathQuiet
    <3> QED BY <1>s, <1>t, <2>2, <3>1, <3>3 DEF ReadyExecuteCommand
  <2>3. CASE RequestRecallCountSyn(a, m)
    <3> DEFINE x == Msg(m, "count", <<>>, RecallCount(m))
    <3>1. x.what = "count" /\ Deliver(a, <<x>>) /\ Event
          /\ UNCHANGED <<script, themes, up, queries, relays>>
      BY <2>3 DEF RequestRecallCountSyn, Msg
    <3> HIDE DEF x
    <3>2. <<x>> \in Seq({x}) /\ \A y \in {x} : y.what \in Kinds
      BY <3>1, <1>k
    <3>3. Led(<<x>>)
      BY <3>1, <1>k DEF Led
    <3>4. Boxes(themes, inbox')
      <4> DEFINE S == {x}
                 one == <<x>>
      <4>1. one \in Seq(S) /\ (\A y \in S : y.what \in Kinds) /\ Led(one) /\ Deliver(a, one)
        BY <3>1, <3>2, <3>3
      <4> HIDE DEF S, one
      <4> QED BY <1>t, <4>1, DeliverKeeps
    <3>5. events' \in 0..MaxEvents /\ events' = events + 1
      BY <3>1, <1>t DEF Event
    <3>6. \A y \in Agents : \A z \in Maps : queries[y][z] <= events'
      BY <1>t, <3>5
    <3> QED BY <1>t, <3>1, <3>4, <3>5, <3>6 DEF IInv
  <2>4. CASE RequestObjInfoSyn(a, m)
    <3>1. /\ queries' = [queries EXCEPT ![a][m] = @ + 1] /\ events' = events + 1
          /\ events < MaxEvents /\ UNCHANGED <<script, themes, up, inbox, relays>>
      BY <2>4 DEF RequestObjInfoSyn, Event
    <3>2. /\ queries' \in [Agents -> [Maps -> Nat]]
          /\ \A x \in Agents : \A y \in Maps : queries'[x][y] <= events'
      BY <1>t, <3>1
    <3> QED BY <1>t, <3>1, <3>2 DEF IInv
  <2> QED BY <1>1, <2>1, <2>2, <2>3, <2>4 DEF MapMsg
<1>2. ASSUME NEW a \in Agents, NEW m \in Maps, ResultObjInfoSyn(a, m) PROVE IInv'
  <2>1. /\ queries[a][m] > 0 /\ queries' = [queries EXCEPT ![a][m] = @ - 1]
        /\ UNCHANGED <<script, themes, up, relays, events>>
    BY <1>2 DEF ResultObjInfoSyn, ResultComes
  <2>2. PICK rows \in Seq(RowKinds) : Deliver(a, Loaded(a, m, rows))
    <3>1. RowsFor(m) \subseteq RowKinds
      BY <1>0, <1>t, RowParts
    <3>2. PICK n \in 0..MaxRows : \E rows \in [1..n -> RowsFor(m)] : Deliver(a, Loaded(a, m, rows))
      BY <1>2 DEF ResultObjInfoSyn
    <3>3. n \in Nat
      BY SiegeAssumption
    <3>4. [1..n -> RowsFor(m)] \subseteq Seq(RowKinds)
      BY <3>1, <3>3
    <3> QED BY <3>2, <3>4
  <2>3. Sound(Loaded(a, m, rows))
    BY <1>0, <1>t, LoadedSound
  <2>4. Boxes(themes, inbox')
    BY <1>t, <2>2, <2>3, SoundKeeps
  <2>5. /\ queries' \in [Agents -> [Maps -> Nat]]
        /\ \A x \in Agents : \A y \in Maps : queries'[x][y] <= events
    BY <1>t, <2>1
  <2> QED BY <1>t, <2>1, <2>4, <2>5 DEF IInv
<1>3. ASSUME NEW a \in Agents, OrderOf(a) PROVE IInv'
  <2>1. ASSUME NEW p \in Paths(themes), NEW stage, CheatExecuteNextStep(a, p, stage) PROVE IInv'
    <3>1. Sound(NextStepMsgs(p, stage))
      <4>1. NextStepMsgs(p, stage) \in Seq(Quiet)
        BY <1>0, NextQuiet DEF NextStepMsgs
      <4> QED BY <4>1, QuietSound
    <3>2. DOMAIN relays' = Agents
      BY <2>1 DEF CheatExecuteNextStep, Relay
    <3> QED BY <1>s, <2>1, <3>1, <3>2 DEF CheatExecuteNextStep
  <2>2. ASSUME NEW w, NEW num, CheatExecuteEndStep(a, w, num) PROVE IInv'
    <3> DEFINE t == ThemeByIdx(themes, w)
    <3>1. t \in DOMAIN themes
      BY <1>0, <2>2, ThemeFound DEF CheatExecuteEndStep
    <3> HIDE DEF t
    <3>2. Sound(EndStepMsgs(t, num))
      <4>1. <<>> \in Seq(Quiet)
        OBVIOUS
      <4>2. HasMapNum(themes, t, num) => Sound(EachOfMap(themes, t, MapByNum(themes, t, num), NextOf))
        BY <1>0, <3>1, MapFound, EndQuiet
      <4> QED BY <4>1, <4>2, QuietSound DEF EndStepMsgs
    <3>3. DOMAIN relays' = Agents
      BY <2>2 DEF CheatExecuteEndStep, Relay
    <3> QED BY <1>s, <2>2, <3>2, <3>3 DEF CheatExecuteEndStep, t
  <2>3. ASSUME NEW w, NEW num, CheatExecuteStep(a, w, num, 1) PROVE IInv'
    <3> DEFINE t == ThemeByIdx(themes, w)
               k == MapByNum(themes, t, num)
    <3>1. t \in DOMAIN themes
      BY <1>0, <2>3, ThemeFound DEF CheatExecuteStep
    <3>2. /\ HasMapNum(themes, t, num) /\ 1 \in DOMAIN themes[t].maps[k].steps
          /\ Deliver(a, EachOfStep(themes, t, k, 1, ExecuteAddObj))
      BY <2>3 DEF CheatExecuteStep
    <3>3. k \in DOMAIN themes[t].maps
      BY <3>2, MapFound
    <3> HIDE DEF t, k
    <3>4. Sound(EachOfStep(themes, t, k, 1, ExecuteAddObj))
      BY <1>0, <3>1, <3>2, <3>3, StepSound
    <3> QED BY <1>s, <1>t, <2>3, <3>2, <3>4 DEF CheatExecuteStep
  <2> QED BY <1>3, <2>1, <2>2, <2>3 DEF OrderOf
<1>4. ASSUME NEW a \in Agents, ServerMsgPaser(a) PROVE IInv'
  BY <1>4, <1>t DEF ServerMsgPaser, IInv
<1>5. ASSUME NEW a \in Agents, NEW id \in {0, 1}, RemoveObject(a, id) PROVE IInv'
  <2>1. Sound(<<Msg(0, "remove", <<>>, id)>>)
    BY <1>k, OneQuiet
  <2> QED BY <1>s, <1>t, <1>5, <2>1 DEF RemoveObject
<1>6. ASSUME NEW a \in Agents, NEW m \in Maps, RemoveObjectSpecifyMap(a, m) PROVE IInv'
  <2>1. Sound(<<Msg(0, "remove_map", <<>>, m)>>)
    BY <1>k, <1>t, OneQuiet
  <2> QED BY <1>s, <1>t, <1>6, <2>1 DEF RemoveObjectSpecifyMap
<1>7. ASSUME NEW m \in Maps, MapDown(m) PROVE IInv'
  <2>1. Queue(m, <<>>) /\ Known(themes, m, <<>>)
    BY NoMail
  <2>2. inbox' = [inbox EXCEPT ![m] = <<>>] /\ UNCHANGED <<script, themes, queries, relays, events>>
        /\ up' = up \ {m}
    BY <1>7 DEF MapDown
  <2>3. Boxes(themes, inbox')
    <3>1. DOMAIN inbox' = Maps
      BY <1>t, <2>2 DEF Boxes
    <3>2. \A x \in Maps : inbox'[x] = IF x = m THEN <<>> ELSE inbox[x]
      BY <1>t, <2>2 DEF Boxes
    <3> QED BY <1>t, <2>1, <3>1, <3>2 DEF Boxes
  <2> QED BY <1>t, <2>2, <2>3 DEF IInv
<1>8. ASSUME NEW m \in Maps, MapUp(m) PROVE IInv'
  <2>1. events' \in 0..MaxEvents /\ events' = events + 1
    BY <1>8, <1>t DEF MapUp, Event
  <2>2. \A x \in Agents : \A y \in Maps : queries[x][y] <= events'
    BY <1>t, <2>1
  <2> QED BY <1>8, <1>t, <2>1, <2>2 DEF MapUp, IInv
<1>9. CASE UNCHANGED vars
  BY <1>9, <1>t DEF vars, IInv
<1> QED BY <1>1, <1>2, <1>3, <1>4, <1>5, <1>6, <1>7, <1>8, <1>9 DEF Next

LEMMA InvFollows == IInv => MessagesFollow
<1> SUFFICES ASSUME IInv PROVE MessagesFollow
  OBVIOUS
<1>t. /\ up \subseteq Maps /\ Boxes(themes, inbox)
      /\ queries \in [Agents -> [Maps -> Nat]]
      /\ \A a \in Agents : \A m \in Maps : queries[a][m] <= events
      /\ DOMAIN relays = Agents
      /\ events \in 0..MaxEvents /\ MaxEvents \in Nat
  BY SiegeAssumption DEF IInv
<1>1. queries \in [Agents -> [Maps -> 0..MaxEvents]]
  <2>1. \A a \in Agents : \A m \in Maps : queries[a][m] \in 0..MaxEvents
    BY <1>t
  <2> QED BY <1>t, <2>1
<1>2. ASSUME NEW m \in Maps
      PROVE  \A i \in DOMAIN inbox[m] : inbox[m][i].what \in Kinds /\ inbox[m][i].to \in {0, m}
  <2>1. Queue(m, inbox[m])
    BY <1>t DEF Boxes
  <2> QED BY <2>1 DEF Queue
<1>3. TypeOK
  BY <1>t, <1>1, <1>2 DEF TypeOK
<1>4. TermsFollowObject
  BY <1>t DEF Boxes, Known, TermsFollowObject, Terms
<1> QED BY <1>3, <1>4 DEF MessagesFollow

(* Whichever agents tell it, and whatever they read, a map server hears of *)
(* the terms and the command of an object of its map only after it was     *)
(* told to recall the object (SiegeRecallMgr.cpp:1711-1731).               *)
THEOREM MessagesAlwaysFollow == Spec => []MessagesFollow
<1>1. Spec => []IInv
  BY InitHolds, StepHolds, PTL DEF Spec
<1> QED BY <1>1, InvFollows, PTL

-----------------------------------------------------------------------------
(* The objects of a tree, with the number of the map they are under.       *)
Pairs == Nat \X Nat

StepObjs(num, s) == FlattenSeq([o \in 1..Len(s) |-> <<<<num, s[o].id>>>>])
MapObjs(m)   == FlattenSeq([s \in 1..Len(m.steps) |-> StepObjs(m.num, m.steps[s])])
ThemeObjs(t) == FlattenSeq([m \in 1..Len(t.maps) |-> MapObjs(t.maps[m])])
TreeObjs(ts) == FlattenSeq([t \in 1..Len(ts) |-> ThemeObjs(ts[t])])

LEMMA EachIsTree ==
  EachOf(themes, LAMBDA p : <<<<themes[p[1]].maps[p[2]].num, ObjAt(themes, p).id>>>>)
    = TreeObjs(themes)
<1> DEFINE f(p) == <<<<themes[p[1]].maps[p[2]].num, ObjAt(themes, p).id>>>>
           OfStep(t, m, s) ==
             FlattenSeq([o \in 1..Len(themes[t].maps[m].steps[s]) |-> f(<<t, m, s, o>>)])
           OfMap(t, m) ==
             FlattenSeq([s \in 1..Len(themes[t].maps[m].steps) |-> OfStep(t, m, s)])
           OfTheme(t) == FlattenSeq([m \in 1..Len(themes[t].maps) |-> OfMap(t, m)])
<1>1. ASSUME NEW t, NEW m, NEW s
      PROVE  OfStep(t, m, s) = StepObjs(themes[t].maps[m].num, themes[t].maps[m].steps[s])
  <2>1. \A o : f(<<t, m, s, o>>) = <<<<themes[t].maps[m].num, themes[t].maps[m].steps[s][o].id>>>>
    BY DEF ObjAt
  <2> HIDE DEF f
  <2> QED BY <2>1 DEF StepObjs
<1> HIDE DEF OfStep
<1>2. \A t, m : OfMap(t, m) = MapObjs(themes[t].maps[m])
  BY <1>1 DEF MapObjs
<1> HIDE DEF OfMap
<1>3. \A t : OfTheme(t) = ThemeObjs(themes[t])
  BY <1>2 DEF ThemeObjs
<1> HIDE DEF OfTheme
<1>4. FlattenSeq([t \in 1..Len(themes) |-> OfTheme(t)]) = TreeObjs(themes)
  BY <1>3 DEF TreeObjs
<1> QED BY <1>4 DEF OfTheme, OfMap, OfStep, EachOf, EachOfMap, EachOfStep

LEMMA FrontLast ==
  ASSUME NEW S, NEW n \in Nat, n # 0, NEW G \in Seq(S), Len(G) = n,
         NEW F \in Seq(S), Len(F) = n - 1, \A i \in 1..(n - 1) : G[i] = F[i]
  PROVE  G = Append(F, G[n])
<1>1. G[n] \in S
  OBVIOUS
<1> DEFINE A == Append(F, G[n])
<1>2. A \in Seq(S) /\ Len(A) = n /\ A[n] = G[n] /\ \A i \in 1..(n - 1) : A[i] = F[i]
  BY <1>1
<1> HIDE DEF A
<1>3. \A i \in 1..n : i = n \/ i \in 1..(n - 1)
  OBVIOUS
<1>4. \A i \in 1..Len(A) : A[i] = G[i]
  BY <1>2, <1>3
<1>5. A = G
  BY <1>2, <1>4, SeqEqual
<1> QED BY <1>5 DEF A

Joins(t, a, b) == t = a \o b

LEMMA Grouped ==
  ASSUME NEW S, NEW a \in Seq(S), NEW b \in Seq(S), NEW e \in Seq(S),
         NEW x, Joins(x, a, b), NEW y, Joins(y, b, e), NEW z, Joins(z, a, y)
  PROVE  Joins(z, x, e)
<1>1. (a \o b) \o e = a \o (b \o e)
  BY ConcatAssociative
<1> QED BY <1>1 DEF Joins

(* When the last part grows, the whole grows. *)
LEMMA LastGrows ==
  ASSUME NEW S, NEW n \in Nat, n # 0, NEW G \in Seq(Seq(S)), NEW H \in Seq(Seq(S)),
         Len(G) = n, Len(H) = n, \A i \in 1..(n - 1) : H[i] = G[i],
         NEW e \in Seq(S), H[n] = G[n] \o e
  PROVE  FlattenSeq(H) = FlattenSeq(G) \o e
<1> DEFINE F == SubSeq(G, 1, n - 1)
<1>1. F \in Seq(Seq(S)) /\ Len(F) = n - 1 /\ \A i \in 1..(n - 1) : F[i] = G[i]
  OBVIOUS
<1> HIDE DEF F
<1>2. G[n] \in Seq(S) /\ H[n] \in Seq(S)
  OBVIOUS
<1>3. G = Append(F, G[n])
  BY <1>1, FrontLast
<1>4. H = Append(F, H[n])
  BY <1>1, FrontLast
<1>5. /\ FlattenSeq(F) \in Seq(S)
      /\ FlattenSeq(G) = FlattenSeq(F) \o G[n]
      /\ FlattenSeq(H) = FlattenSeq(F) \o H[n]
  BY <1>1, <1>2, <1>3, <1>4, FlatAppend
<1>6. /\ Joins(FlattenSeq(G), FlattenSeq(F), G[n]) /\ Joins(H[n], G[n], e)
      /\ Joins(FlattenSeq(H), FlattenSeq(F), H[n])
  BY <1>5 DEF Joins
<1>7. Joins(FlattenSeq(H), FlattenSeq(G), e)
  BY <1>2, <1>5, <1>6, Grouped
<1> QED BY <1>7 DEF Joins

LEMMA OneMore ==
  ASSUME NEW S, NEW n \in Nat, NEW G \in Seq(Seq(S)), NEW H \in Seq(Seq(S)),
         Len(G) = n, Len(H) = n + 1, \A i \in 1..n : H[i] = G[i]
  PROVE  FlattenSeq(H) = FlattenSeq(G) \o H[n + 1]
<1>1. H[n + 1] \in Seq(S)
  OBVIOUS
<1>2. H = Append(G, H[n + 1])
  <2>1. n + 1 \in Nat /\ n + 1 # 0 /\ (n + 1) - 1 = n
    OBVIOUS
  <2>2. Len(G) = (n + 1) - 1 /\ \A i \in 1..((n + 1) - 1) : H[i] = G[i]
    BY <2>1
  <2> QED BY <2>1, <2>2, FrontLast
<1> QED BY <1>1, <1>2, FlatAppend

LEMMA PutAt ==
  ASSUME NEW S, NEW s \in Seq(S), s # <<>>, NEW e \in S
  PROVE  /\ PutLast(s, e) \in Seq(S) /\ Len(PutLast(s, e)) = Len(s)
         /\ Len(s) \in Nat /\ Len(s) # 0 /\ s[Len(s)] = Last(s)
         /\ PutLast(s, e)[Len(s)] = e
         /\ \A i \in 1..(Len(s) - 1) : PutLast(s, e)[i] = s[i]
<1>1. PutLast(s, e) \in Seq(S) /\ Len(PutLast(s, e)) = Len(s) /\ Len(s) \in Nat \ {0}
      /\ \A i \in 1..Len(s) : i # Len(s) => PutLast(s, e)[i] = s[i]
  BY LastPut
<1>2. s[Len(s)] = Last(s)
  BY DEF Last
<1>3. PutLast(s, e)[Len(s)] = e
  BY DEF PutLast
<1>4. \A i \in 1..(Len(s) - 1) : i \in 1..Len(s) /\ i # Len(s)
  BY <1>1
<1> QED BY <1>1, <1>2, <1>3, <1>4

LEMMA ObjsTyped ==
  /\ \A num \in Nat : \A s \in Seq(Objs) :
       /\ [o \in 1..Len(s) |-> <<<<num, s[o].id>>>>] \in Seq(Seq(Pairs))
       /\ StepObjs(num, s) \in Seq(Pairs)
  /\ \A m \in MapRecs :
       /\ [s \in 1..Len(m.steps) |-> StepObjs(m.num, m.steps[s])] \in Seq(Seq(Pairs))
       /\ MapObjs(m) \in Seq(Pairs)
  /\ \A t \in ThemeRecs :
       /\ [m \in 1..Len(t.maps) |-> MapObjs(t.maps[m])] \in Seq(Seq(Pairs))
       /\ ThemeObjs(t) \in Seq(Pairs)
  /\ \A ts \in Trees :
       /\ [t \in 1..Len(ts) |-> ThemeObjs(ts[t])] \in Seq(Seq(Pairs))
       /\ TreeObjs(ts) \in Seq(Pairs)
<1>1. ASSUME NEW num \in Nat, NEW s \in Seq(Objs)
      PROVE  /\ [o \in 1..Len(s) |-> <<<<num, s[o].id>>>>] \in Seq(Seq(Pairs))
             /\ StepObjs(num, s) \in Seq(Pairs)
  <2> DEFINE F == [o \in 1..Len(s) |-> <<<<num, s[o].id>>>>]
  <2>1. ASSUME NEW o \in 1..Len(s) PROVE F[o] \in Seq(Pairs)
    <3>1. s[o] \in Objs
      OBVIOUS
    <3>2. <<num, s[o].id>> \in Pairs
      BY <3>1 DEF Objs, Pairs
    <3>3. <<<<num, s[o].id>>>> \in Seq(Pairs)
      BY <3>2
    <3> QED BY <3>3
  <2>2. Len(s) \in Nat /\ F = [o \in 1..Len(s) |-> F[o]]
    OBVIOUS
  <2>3. F \in Seq(Seq(Pairs))
    <3> HIDE DEF F
    <3> QED BY <2>1, <2>2, ListOf
  <2>4. FlattenSeq(F) \in Seq(Pairs)
    <3> HIDE DEF F
    <3> QED BY <2>3, FlatLaid
  <2> QED BY <2>3, <2>4 DEF StepObjs
<1>2. ASSUME NEW m \in MapRecs
      PROVE  /\ [s \in 1..Len(m.steps) |-> StepObjs(m.num, m.steps[s])] \in Seq(Seq(Pairs))
             /\ MapObjs(m) \in Seq(Pairs)
  <2> DEFINE n == Len(m.steps)
             F == [s \in 1..n |-> StepObjs(m.num, m.steps[s])]
  <2>1. m.num \in Nat /\ m.steps \in Seq(Seq(Objs))
    BY DEF MapRecs
  <2>2. n \in Nat /\ \A s \in 1..n : m.steps[s] \in Seq(Objs)
    BY <2>1
  <2>3. \A s \in 1..n : F[s] \in Seq(Pairs)
    BY <2>1, <2>2, <1>1
  <2>4. F = [s \in 1..n |-> F[s]]
    OBVIOUS
  <2>5. F \in Seq(Seq(Pairs))
    <3> HIDE DEF F, n
    <3> QED BY <2>2, <2>3, <2>4, ListOf
  <2>6. FlattenSeq(F) \in Seq(Pairs)
    <3> HIDE DEF F
    <3> QED BY <2>5, FlatLaid
  <2> QED BY <2>5, <2>6 DEF MapObjs
<1>3. ASSUME NEW t \in ThemeRecs
      PROVE  /\ [m \in 1..Len(t.maps) |-> MapObjs(t.maps[m])] \in Seq(Seq(Pairs))
             /\ ThemeObjs(t) \in Seq(Pairs)
  <2> DEFINE n == Len(t.maps)
             F == [m \in 1..n |-> MapObjs(t.maps[m])]
  <2>1. t.maps \in Seq(MapRecs)
    BY DEF ThemeRecs
  <2>2. n \in Nat /\ \A m \in 1..n : t.maps[m] \in MapRecs
    BY <2>1
  <2>3. \A m \in 1..n : F[m] \in Seq(Pairs)
    BY <2>2, <1>2
  <2>4. F = [m \in 1..n |-> F[m]]
    OBVIOUS
  <2>5. F \in Seq(Seq(Pairs))
    <3> HIDE DEF F, n
    <3> QED BY <2>2, <2>3, <2>4, ListOf
  <2>6. FlattenSeq(F) \in Seq(Pairs)
    <3> HIDE DEF F
    <3> QED BY <2>5, FlatLaid
  <2> QED BY <2>5, <2>6 DEF ThemeObjs
<1>4. ASSUME NEW ts \in Trees
      PROVE  /\ [t \in 1..Len(ts) |-> ThemeObjs(ts[t])] \in Seq(Seq(Pairs))
             /\ TreeObjs(ts) \in Seq(Pairs)
  <2> DEFINE n == Len(ts)
             F == [t \in 1..n |-> ThemeObjs(ts[t])]
  <2>2. n \in Nat /\ \A t \in 1..n : ts[t] \in ThemeRecs
    BY DEF Trees
  <2>3. \A t \in 1..n : F[t] \in Seq(Pairs)
    BY <2>2, <1>3
  <2>4. F = [t \in 1..n |-> F[t]]
    OBVIOUS
  <2>5. F \in Seq(Seq(Pairs))
    <3> HIDE DEF F, n
    <3> QED BY <2>2, <2>3, <2>4, ListOf
  <2>6. FlattenSeq(F) \in Seq(Pairs)
    <3> HIDE DEF F
    <3> QED BY <2>5, FlatLaid
  <2> QED BY <2>5, <2>6 DEF TreeObjs
<1> QED BY <1>1, <1>2, <1>3, <1>4

LEMMA ThemeGrows ==
  ASSUME NEW ts \in Trees, ts # <<>>, NEW t \in ThemeRecs, NEW e \in Seq(Pairs),
         ThemeObjs(t) = ThemeObjs(Last(ts)) \o e
  PROVE  TreeObjs(ThemePut(ts, t)) = TreeObjs(ts) \o e
<1> DEFINE parts == ts
           us == PutLast(parts, t)
           n == Len(parts)
           G == [i \in 1..n |-> ThemeObjs(parts[i])]
           H == [i \in 1..n |-> ThemeObjs(us[i])]
<1>1. parts \in Seq(ThemeRecs) /\ parts # <<>> /\ Last(ts) = Last(parts)
  BY DEF Trees
<1> HIDE DEF parts
<1>2. us \in Seq(ThemeRecs) /\ Len(us) = n /\ n \in Nat /\ n # 0 /\ parts[n] = Last(parts)
  BY <1>1, PutAt
<1>3. us[n] = t /\ \A i \in 1..(n - 1) : us[i] = parts[i]
  BY <1>1, PutAt
<1> HIDE DEF us, n
<1>4. \A i \in 1..n : parts[i] \in ThemeRecs /\ us[i] \in ThemeRecs
  BY <1>1, <1>2 DEF n
<1>5. /\ \A i \in 1..n : G[i] = ThemeObjs(parts[i]) /\ G[i] \in Seq(Pairs)
      /\ \A i \in 1..n : H[i] = ThemeObjs(us[i]) /\ H[i] \in Seq(Pairs)
  BY <1>1, <1>4, ObjsTyped
<1>6. G = [i \in 1..n |-> G[i]] /\ H = [i \in 1..n |-> H[i]]
  OBVIOUS
<1> HIDE DEF G, H
<1>7. n \in 1..n /\ \A i \in 1..(n - 1) : i \in 1..n
  BY <1>2
<1>8. H[n] = G[n] \o e
  <2>1. H[n] = ThemeObjs(t) /\ G[n] = ThemeObjs(Last(ts))
    BY <1>1, <1>2, <1>3, <1>5, <1>7
  <2> QED BY <2>1
<1>9. \A i \in 1..(n - 1) : H[i] = G[i]
  BY <1>3, <1>5, <1>7
<1>10. FlattenSeq(H) = FlattenSeq(G) \o e
  <2>1. G \in Seq(Seq(Pairs)) /\ Len(G) = n /\ H \in Seq(Seq(Pairs)) /\ Len(H) = n
    BY <1>2, <1>5, <1>6, ListOf
  <2> QED BY <1>2, <1>8, <1>9, <2>1, LastGrows
<1>11. TreeObjs(us) = FlattenSeq(H)
  BY <1>2 DEF TreeObjs, H
<1>12. TreeObjs(ts) = FlattenSeq(G)
  BY DEF TreeObjs, G, n, parts
<1> QED BY <1>10, <1>11, <1>12 DEF us, parts, ThemePut

LEMMA MapGrows ==
  ASSUME NEW ts \in Trees, HasMap(ts), NEW m \in MapRecs, NEW e \in Seq(Pairs),
         MapObjs(m) = MapObjs(LastMap(ts)) \o e
  PROVE  TreeObjs(MapPut(ts, m)) = TreeObjs(ts) \o e
<1> DEFINE parts == Last(ts).maps
           us == PutLast(parts, m)
           n == Len(parts)
           G == [i \in 1..n |-> MapObjs(parts[i])]
           H == [i \in 1..n |-> MapObjs(us[i])]
           t == WithMap(Last(ts), m)
<1>1. /\ parts \in Seq(MapRecs) /\ parts # <<>> /\ LastMap(ts) = Last(parts)
      /\ ts # <<>> /\ Last(ts) \in ThemeRecs
      /\ t \in ThemeRecs /\ MapPut(ts, m) = ThemePut(ts, t)
  BY LastParts, MapFits DEF LastMap
<1>0. t.maps = us
  BY <1>1 DEF WithMap, ThemeRecs
<1> HIDE DEF parts, t
<1>2. us \in Seq(MapRecs) /\ Len(us) = n /\ n \in Nat /\ n # 0 /\ parts[n] = Last(parts)
  BY <1>1, PutAt
<1>3. us[n] = m /\ \A i \in 1..(n - 1) : us[i] = parts[i]
  BY <1>1, PutAt
<1> HIDE DEF us, n
<1>4. \A i \in 1..n : parts[i] \in MapRecs /\ us[i] \in MapRecs
  BY <1>1, <1>2 DEF n
<1>5. /\ \A i \in 1..n : G[i] = MapObjs(parts[i]) /\ G[i] \in Seq(Pairs)
      /\ \A i \in 1..n : H[i] = MapObjs(us[i]) /\ H[i] \in Seq(Pairs)
  BY <1>1, <1>4, ObjsTyped
<1>6. G = [i \in 1..n |-> G[i]] /\ H = [i \in 1..n |-> H[i]]
  OBVIOUS
<1> HIDE DEF G, H
<1>7. n \in 1..n /\ \A i \in 1..(n - 1) : i \in 1..n
  BY <1>2
<1>8. H[n] = G[n] \o e
  <2>1. H[n] = MapObjs(m) /\ G[n] = MapObjs(LastMap(ts))
    BY <1>1, <1>2, <1>3, <1>5, <1>7
  <2> QED BY <2>1
<1>9. \A i \in 1..(n - 1) : H[i] = G[i]
  BY <1>3, <1>5, <1>7
<1>10. FlattenSeq(H) = FlattenSeq(G) \o e
  <2>1. G \in Seq(Seq(Pairs)) /\ Len(G) = n /\ H \in Seq(Seq(Pairs)) /\ Len(H) = n
    BY <1>2, <1>5, <1>6, ListOf
  <2> QED BY <1>2, <1>8, <1>9, <2>1, LastGrows
<1>11. ThemeObjs(t) = FlattenSeq(H)
  BY <1>0, <1>2 DEF ThemeObjs, H
<1>12. ThemeObjs(Last(ts)) = FlattenSeq(G)
  BY DEF ThemeObjs, G, n, parts
<1> QED BY <1>1, <1>10, <1>11, <1>12, ThemeGrows

LEMMA StepGrows ==
  ASSUME NEW ts \in Trees, HasStep(ts), NEW s \in Seq(Objs), NEW e \in Seq(Pairs),
         StepObjs(LastMap(ts).num, s) = StepObjs(LastMap(ts).num, LastObjs(ts)) \o e
  PROVE  TreeObjs(StepPut(ts, s)) = TreeObjs(ts) \o e
<1> DEFINE parts == LastMap(ts).steps
           us == PutLast(parts, s)
           n == Len(parts)
           G == [i \in 1..n |-> StepObjs(LastMap(ts).num, parts[i])]
           H == [i \in 1..n |-> StepObjs(LastMap(ts).num, us[i])]
           was == LastMap(ts)
           m == WithStep(was, s)
<1>1. /\ parts \in Seq(Seq(Objs)) /\ parts # <<>> /\ LastObjs(ts) = Last(parts)
      /\ HasMap(ts) /\ was \in MapRecs /\ was.num \in Nat
      /\ m \in MapRecs /\ StepPut(ts, s) = MapPut(ts, m)
  BY LastParts, StepFits DEF MapRecs, StepPut
<1>0. m.steps = us /\ m.num = was.num
  BY <1>1 DEF WithStep, MapRecs
<1> HIDE DEF parts, m
<1>2. us \in Seq(Seq(Objs)) /\ Len(us) = n /\ n \in Nat /\ n # 0 /\ parts[n] = Last(parts)
  BY <1>1, PutAt
<1>3. us[n] = s /\ \A i \in 1..(n - 1) : us[i] = parts[i]
  BY <1>1, PutAt
<1> HIDE DEF us, n
<1>4. \A i \in 1..n : parts[i] \in Seq(Objs) /\ us[i] \in Seq(Objs)
  BY <1>1, <1>2 DEF n
<1>5. /\ \A i \in 1..n : G[i] = StepObjs(LastMap(ts).num, parts[i]) /\ G[i] \in Seq(Pairs)
      /\ \A i \in 1..n : H[i] = StepObjs(LastMap(ts).num, us[i]) /\ H[i] \in Seq(Pairs)
  BY <1>1, <1>4, ObjsTyped
<1>6. G = [i \in 1..n |-> G[i]] /\ H = [i \in 1..n |-> H[i]]
  OBVIOUS
<1> HIDE DEF G, H
<1>7. n \in 1..n /\ \A i \in 1..(n - 1) : i \in 1..n
  BY <1>2
<1>8. H[n] = G[n] \o e
  <2>1. H[n] = StepObjs(LastMap(ts).num, s) /\ G[n] = StepObjs(LastMap(ts).num, LastObjs(ts))
    BY <1>1, <1>2, <1>3, <1>5, <1>7
  <2> QED BY <2>1
<1>9. \A i \in 1..(n - 1) : H[i] = G[i]
  BY <1>3, <1>5, <1>7
<1>10. FlattenSeq(H) = FlattenSeq(G) \o e
  <2>1. G \in Seq(Seq(Pairs)) /\ Len(G) = n /\ H \in Seq(Seq(Pairs)) /\ Len(H) = n
    BY <1>2, <1>5, <1>6, ListOf
  <2> QED BY <1>2, <1>8, <1>9, <2>1, LastGrows
<1>11. MapObjs(m) = FlattenSeq(H)
  BY <1>0, <1>2 DEF MapObjs, H
<1>12. MapObjs(was) = FlattenSeq(G)
  BY DEF MapObjs, G, n, parts
<1> QED BY <1>1, <1>10, <1>11, <1>12, MapGrows

(* What a line does to the last theme, its last map, and the objects.      *)
HasNum(ts, num) == \E i \in DOMAIN Last(ts).maps : Last(ts).maps[i].num = num

Alike(ts, us) ==
  /\ Len(us) = Len(ts)
  /\ ts # <<>> => \A num : HasNum(us, num) <=> HasNum(ts, num)
  /\ HasMap(us) <=> HasMap(ts)
  /\ HasMap(ts) => LastMap(us).num = LastMap(ts).num

LEMMA PutAlike ==
  ASSUME NEW ts \in Trees, HasMap(ts), NEW m \in MapRecs, m.num = LastMap(ts).num
  PROVE  /\ Alike(ts, MapPut(ts, m)) /\ MapPut(ts, m) \in Trees
         /\ HasStep(MapPut(ts, m)) <=> m.steps # <<>>
<1> DEFINE parts == Last(ts).maps
           t == WithMap(Last(ts), m)
           us == MapPut(ts, m)
           ps == PutLast(parts, m)
           n == Len(parts)
<1>1. /\ ts # <<>> /\ ts \in Seq(ThemeRecs) /\ Last(ts) \in ThemeRecs
      /\ parts # <<>> /\ parts \in Seq(MapRecs) /\ LastMap(ts) = Last(parts)
      /\ t \in ThemeRecs /\ us = ThemePut(ts, t)
  BY LastParts, MapFits DEF LastMap, Trees
<1>2. t.maps = ps
  BY <1>1 DEF WithMap, ThemeRecs
<1> HIDE DEF parts, t, us
<1>3. us \in Trees /\ us # <<>> /\ Len(us) = Len(ts) /\ Last(us) = t
  BY <1>1, LastPut DEF ThemePut, Trees
<1>4. /\ ps \in Seq(MapRecs) /\ ps # <<>> /\ Last(ps) = m
  BY <1>1, LastPut
<1>5. /\ Len(ps) = n /\ n \in Nat /\ n # 0 /\ parts[n] = Last(parts)
  BY <1>1, PutAt
<1>6. /\ ps[n] = m /\ \A i \in 1..(n - 1) : ps[i] = parts[i]
  BY <1>1, PutAt
<1> HIDE DEF ps
<1>7. DOMAIN ps = 1..n /\ DOMAIN parts = 1..n
  BY <1>1, <1>4, <1>5
<1>8. \A i \in 1..n : ps[i].num = parts[i].num
  <2>1. \A i \in 1..n : i = n \/ i \in 1..(n - 1)
    BY <1>5
  <2>2. ps[n].num = parts[n].num
    BY <1>1, <1>5, <1>6
  <2> HIDE DEF n
  <2> QED BY <1>6, <2>1, <2>2
<1>9. \A num : HasNum(us, num) <=> HasNum(ts, num)
  BY <1>2, <1>3, <1>7, <1>8 DEF HasNum, parts
<1>10. HasMap(us) /\ LastMap(us) = m
  BY <1>2, <1>3, <1>4 DEF HasMap, LastMap
<1>11. HasStep(us) <=> m.steps # <<>>
  BY <1>10 DEF HasStep, LastMap
<1>12. Alike(ts, us)
  BY <1>3, <1>9, <1>10 DEF Alike
<1> QED BY <1>3, <1>11, <1>12 DEF us

LEMMA AlikeSelf == ASSUME NEW ts PROVE Alike(ts, ts)
BY DEF Alike

LEMMA Nothing ==
  ASSUME NEW q \in Seq(Pairs)
  PROVE  q \o <<>> = q /\ <<>> \in Seq(Pairs)
OBVIOUS

LEMMA IdxEffect ==
  ASSUME NEW ts \in Trees, NEW w \in Nat, ts # <<>>
  PROVE  /\ Alike(ts, AddThemeIdx(ts, w)) /\ (HasStep(AddThemeIdx(ts, w)) <=> HasStep(ts))
         /\ TreeObjs(AddThemeIdx(ts, w)) = TreeObjs(ts)
<1> DEFINE t == [Last(ts) EXCEPT !.idx = w]
           us == ThemePut(ts, t)
<1>1. AddThemeIdx(ts, w) = us /\ t \in ThemeRecs
  BY IdxPuts
<1>2. t.maps = Last(ts).maps
  BY LastParts DEF ThemeRecs
<1> HIDE DEF t
<1>3. us # <<>> /\ Len(us) = Len(ts) /\ Last(us) = t
  BY <1>1, LastPut DEF ThemePut, Trees
<1> HIDE DEF us
<1>4. Alike(ts, us) /\ (HasStep(us) <=> HasStep(ts))
  BY <1>2, <1>3 DEF Alike, HasNum, HasMap, HasStep, LastMap
<1>5. ThemeObjs(t) = ThemeObjs(Last(ts)) /\ ThemeObjs(Last(ts)) \in Seq(Pairs)
  BY <1>2, LastParts, ObjsTyped DEF ThemeObjs
<1>6. TreeObjs(us) = TreeObjs(ts) \o <<>>
  BY <1>1, <1>5, Nothing, ThemeGrows DEF us
<1> QED BY <1>1, <1>4, <1>6, Nothing, ObjsTyped

LEMMA MapEffect ==
  ASSUME NEW ts \in Trees, NEW num \in Nat, ts # <<>>, num # 0, ~HasNum(ts, num)
  PROVE  LET us == AddMap(ts, num) IN
         /\ us \in Trees /\ Len(us) = Len(ts) /\ us # <<>>
         /\ \A x : HasNum(us, x) <=> HasNum(ts, x) \/ x = num
         /\ HasMap(us) /\ LastMap(us).num = num /\ ~HasStep(us)
         /\ TreeObjs(us) = TreeObjs(ts)
<1> DEFINE parts == Last(ts).maps
           ps == Append(parts, NewMap(num))
           t == [Last(ts) EXCEPT !.maps = Append(@, NewMap(num))]
           us == ThemePut(ts, t)
           n == Len(parts)
<1>1. AddMap(ts, num) = us /\ t \in ThemeRecs
  BY MapPuts DEF HasNum
<1>2. /\ t.maps = ps /\ parts \in Seq(MapRecs) /\ Last(ts) \in ThemeRecs
  BY LastParts DEF ThemeRecs
<1>0. NewMap(num) \in MapRecs /\ NewMap(num).num = num /\ NewMap(num).steps = <<>>
  BY <<>> \in Seq(Seq(Objs)) DEF NewMap, MapRecs
<1> HIDE DEF t, parts
<1>3. us \in Trees /\ us # <<>> /\ Len(us) = Len(ts) /\ Last(us) = t
  BY <1>1, LastPut DEF ThemePut, Trees
<1>4. /\ ps \in Seq(MapRecs) /\ ps # <<>> /\ Len(ps) = n + 1 /\ Last(ps) = NewMap(num)
      /\ n \in Nat /\ \A i \in 1..n : ps[i] = parts[i]
  BY <1>0, <1>2, LastAppended
<1>5. ps[n + 1] = NewMap(num) /\ DOMAIN ps = 1..(n + 1) /\ DOMAIN parts = 1..n
  BY <1>2, <1>4 DEF Last
<1> HIDE DEF us, ps
<1>6. ASSUME NEW x PROVE HasNum(us, x) <=> HasNum(ts, x) \/ x = num
  <2>1. \A i \in 1..(n + 1) : i = n + 1 \/ i \in 1..n
    BY <1>4
  <2>2. n + 1 \in 1..(n + 1) /\ \A i \in 1..n : i \in 1..(n + 1)
    BY <1>4
  <2>3. HasNum(us, x) <=> \E i \in 1..(n + 1) : ps[i].num = x
    BY <1>2, <1>3, <1>5 DEF HasNum
  <2>4. HasNum(ts, x) <=> \E i \in 1..n : parts[i].num = x
    BY <1>5 DEF HasNum, parts
  <2> HIDE DEF n
  <2> QED BY <2>1, <2>2, <2>3, <2>4, <1>0, <1>4, <1>5
<1>7. HasMap(us) /\ LastMap(us).num = num /\ ~HasStep(us)
  BY <1>0, <1>2, <1>3, <1>4 DEF HasMap, HasStep, LastMap
<1>8. ThemeObjs(t) = ThemeObjs(Last(ts)) /\ ThemeObjs(Last(ts)) \in Seq(Pairs)
  <2> DEFINE G == [i \in 1..n |-> MapObjs(parts[i])]
             H == [i \in 1..(n + 1) |-> MapObjs(ps[i])]
  <2>1. G \in Seq(Seq(Pairs)) /\ ThemeObjs(Last(ts)) = FlattenSeq(G)
    BY <1>2, ObjsTyped DEF ThemeObjs, parts
  <2>2. H \in Seq(Seq(Pairs)) /\ ThemeObjs(t) = FlattenSeq(H)
    BY <1>1, <1>2, <1>4, ObjsTyped DEF ThemeObjs
  <2>3. Len(G) = n /\ Len(H) = n + 1 /\ \A i \in 1..n : H[i] = G[i]
    BY <1>4
  <2>4. H[n + 1] = <<>>
    <3>1. MapObjs(NewMap(num)) = <<>>
      <4>1. [s \in 1..Len(NewMap(num).steps) |-> StepObjs(NewMap(num).num, NewMap(num).steps[s])] = <<>>
        BY <1>0
      <4> QED BY <4>1, FlatEmpty DEF MapObjs
    <3>2. n + 1 \in 1..(n + 1)
      BY <1>4
    <3> QED BY <3>1, <3>2, <1>5
  <2> HIDE DEF G, H
  <2>n. n \in Nat
    BY <1>4
  <2> HIDE DEF n
  <2>o. FlattenSeq(H) = FlattenSeq(G) \o H[n + 1]
    BY <2>n, <2>1, <2>2, <2>3, OneMore
  <2>5. FlattenSeq(H) = FlattenSeq(G) \o <<>>
    BY <2>o, <2>4
  <2>6. ThemeObjs(Last(ts)) \in Seq(Pairs)
    BY <1>2, ObjsTyped
  <2> QED BY <2>1, <2>2, <2>5, <2>6, Nothing
<1>9. TreeObjs(us) = TreeObjs(ts) \o <<>>
  BY <1>1, <1>8, Nothing, ThemeGrows DEF us
<1>10. TreeObjs(us) = TreeObjs(ts)
  BY <1>9, Nothing, ObjsTyped
<1> QED BY <1>1, <1>3, <1>6, <1>7, <1>10

LEMMA ThemeEffect ==
  ASSUME NEW ts \in Trees
  PROVE  LET us == Append(ts, NewTheme) IN
         /\ us # <<>> /\ Len(us) = Len(ts) + 1 /\ (\A x : ~HasNum(us, x)) /\ ~HasMap(us)
         /\ TreeObjs(us) = TreeObjs(ts)
<1> DEFINE us == Append(ts, NewTheme)
           n == Len(ts)
           G == [i \in 1..Len(ts) |-> ThemeObjs(ts[i])]
           H == [i \in 1..Len(us) |-> ThemeObjs(us[i])]
<1>0. NewTheme \in ThemeRecs /\ NewTheme.maps = <<>>
  BY <<>> \in Seq(MapRecs) DEF NewTheme, ThemeRecs
<1>1. /\ us \in Trees /\ us # <<>> /\ Len(us) = n + 1 /\ Last(us) = NewTheme /\ n \in Nat
      /\ \A i \in 1..n : us[i] = ts[i]
  BY <1>0, LastAppended DEF Trees
<1>2. us[n + 1] = NewTheme
  BY <1>1 DEF Last
<1> HIDE DEF us
<1>3. (\A x : ~HasNum(us, x)) /\ ~HasMap(us)
  BY <1>0, <1>1 DEF HasNum, HasMap
<1>4. G \in Seq(Seq(Pairs)) /\ H \in Seq(Seq(Pairs))
  BY <1>1, ObjsTyped
<1>5. Len(G) = n /\ Len(H) = n + 1 /\ \A i \in 1..n : H[i] = G[i]
  BY <1>1
<1>6. H[n + 1] = <<>>
  <2>1. ThemeObjs(NewTheme) = <<>>
    <3>1. [m \in 1..Len(NewTheme.maps) |-> MapObjs(NewTheme.maps[m])] = <<>>
      BY <1>0
    <3> QED BY <3>1, FlatEmpty DEF ThemeObjs
  <2>2. n + 1 \in 1..(n + 1)
    BY <1>1
  <2> QED BY <2>1, <2>2, <1>1, <1>2
<1>7. FlattenSeq(H) = FlattenSeq(G) \o <<>>
  <2>1. n \in Nat
    BY <1>1
  <2> HIDE DEF G, H, n
  <2>2. FlattenSeq(H) = FlattenSeq(G) \o H[n + 1]
    BY <2>1, <1>4, <1>5, OneMore
  <2> QED BY <2>2, <1>6
<1>8. TreeObjs(us) = TreeObjs(ts)
  <2>1. TreeObjs(ts) \in Seq(Pairs) /\ TreeObjs(ts) = FlattenSeq(G) /\ TreeObjs(us) = FlattenSeq(H)
    BY ObjsTyped DEF TreeObjs
  <2> QED BY <2>1, <1>7, Nothing
<1> QED BY <1>1, <1>3, <1>8 DEF us

LEMMA StepEffect ==
  ASSUME NEW ts \in Trees, HasMap(ts)
  PROVE  /\ Alike(ts, AddStep(ts)) /\ HasStep(AddStep(ts))
         /\ TreeObjs(AddStep(ts)) = TreeObjs(ts)
<1> DEFINE was == LastMap(ts)
           m == [was EXCEPT !.steps = Append(@, <<>>)]
           steps == was.steps
           ps == Append(steps, <<>>)
           n == Len(steps)
           G == [s \in 1..Len(steps) |-> StepObjs(was.num, steps[s])]
           H == [s \in 1..Len(ps) |-> StepObjs(was.num, ps[s])]
<1>1. AddStep(ts) = MapPut(ts, m) /\ m \in MapRecs /\ was \in MapRecs
  BY StepPuts, LastParts
<1>2. m.num = was.num /\ m.steps = ps /\ steps \in Seq(Seq(Objs)) /\ was.num \in Nat
  BY <1>1 DEF MapRecs
<1> HIDE DEF m, was
<1>3. /\ ps \in Seq(Seq(Objs)) /\ ps # <<>> /\ Len(ps) = n + 1 /\ Last(ps) = <<>>
      /\ n \in Nat /\ \A i \in 1..n : ps[i] = steps[i]
  <2> DEFINE e == <<>>
             T == Seq(Objs)
  <2>1. e \in T /\ steps \in Seq(T) /\ Len(steps) \in Nat
    BY <1>2
  <2> HIDE DEF steps, e, T
  <2>2. /\ Append(steps, e) \in Seq(T) /\ Append(steps, e) # <<>>
        /\ Len(Append(steps, e)) = Len(steps) + 1 /\ Last(Append(steps, e)) = e
        /\ \A i \in 1..Len(steps) : Append(steps, e)[i] = steps[i]
    BY <2>1, LastAppended
  <2> QED BY <2>1, <2>2 DEF T, e
<1>4. ps[n + 1] = <<>>
  BY <1>3 DEF Last
<1> HIDE DEF ps
<1>5. Alike(ts, MapPut(ts, m)) /\ HasStep(MapPut(ts, m))
  BY <1>1, <1>2, <1>3, PutAlike DEF was
<1>6. MapObjs(m) = MapObjs(was) \o <<>>
  <2>1. G \in Seq(Seq(Pairs)) /\ FlattenSeq(G) = MapObjs(was)
    BY <1>1, ObjsTyped DEF MapObjs
  <2>2. H \in Seq(Seq(Pairs)) /\ FlattenSeq(H) = MapObjs(m)
    BY <1>1, <1>2, ObjsTyped DEF MapObjs
  <2>3. Len(G) = n /\ Len(H) = n + 1 /\ \A i \in 1..n : H[i] = G[i]
    BY <1>3
  <2>4. H[n + 1] = <<>>
    <3>1. StepObjs(was.num, <<>>) = <<>>
      <4>1. [o \in 1..Len(<<>>) |-> <<<<was.num, <<>>[o].id>>>>] = <<>>
        OBVIOUS
      <4> QED BY <4>1, FlatEmpty DEF StepObjs
    <3>2. n + 1 \in 1..(n + 1)
      BY <1>3
    <3> QED BY <3>1, <3>2, <1>3, <1>4
  <2>5. n \in Nat
    BY <1>3
  <2> HIDE DEF G, H, n
  <2>6. FlattenSeq(H) = FlattenSeq(G) \o H[n + 1]
    BY <2>1, <2>2, <2>3, <2>5, OneMore
  <2> QED BY <2>1, <2>2, <2>4, <2>6
<1>7. TreeObjs(MapPut(ts, m)) = TreeObjs(ts) \o <<>>
  <2> DEFINE e == <<>>
  <2>1. e \in Seq(Pairs) /\ MapObjs(m) = MapObjs(was) \o e
    BY <1>6
  <2> HIDE DEF e
  <2>2. TreeObjs(MapPut(ts, m)) = TreeObjs(ts) \o e
    BY <1>1, <2>1, MapGrows DEF was
  <2> QED BY <2>2 DEF e
<1> QED BY <1>1, <1>5, <1>7, Nothing, ObjsTyped

LEMMA StepPutAlike ==
  ASSUME NEW ts \in Trees, HasStep(ts), NEW s \in Seq(Objs)
  PROVE  Alike(ts, StepPut(ts, s)) /\ HasStep(StepPut(ts, s))
<1> DEFINE was == LastMap(ts)
           m == WithStep(was, s)
<1>1. /\ HasMap(ts) /\ was \in MapRecs /\ was.steps # <<>> /\ was.steps \in Seq(Seq(Objs))
      /\ m \in MapRecs /\ StepPut(ts, s) = MapPut(ts, m)
  BY LastParts, StepFits DEF StepPut
<1>2. m.num = was.num /\ m.steps = PutLast(was.steps, s)
  BY <1>1 DEF WithStep, MapRecs
<1>3. m.steps # <<>>
  <2> HIDE DEF was
  <2> QED BY <1>1, <1>2, LastPut
<1> HIDE DEF m
<1> QED BY <1>1, <1>2, <1>3, PutAlike

LEMMA ObjEffect ==
  ASSUME NEW ts \in Trees, NEW map \in Nat, NEW id \in Nat, HasStep(ts)
  PROVE  /\ Alike(ts, AddObj(ts, map, id)) /\ HasStep(AddObj(ts, map, id))
         /\ TreeObjs(AddObj(ts, map, id)) = TreeObjs(ts) \o <<<<LastMap(ts).num, id>>>>
<1> DEFINE was == LastObjs(ts)
           s == Append(was, NewObj(map, id))
           num == LastMap(ts).num
           n == Len(was)
           G == [o \in 1..Len(was) |-> <<<<num, was[o].id>>>>]
           H == [o \in 1..Len(s) |-> <<<<num, s[o].id>>>>]
<1>1. AddObj(ts, map, id) = StepPut(ts, s) /\ s \in Seq(Objs)
  BY ObjPuts
<1>2. was \in Seq(Objs) /\ num \in Nat
  BY LastParts DEF MapRecs
<1> HIDE DEF was, num
<1>3. /\ Len(s) = n + 1 /\ n \in Nat /\ s[n + 1] = NewObj(map, id)
      /\ \A i \in 1..n : s[i] = was[i]
  BY <1>2
<1> HIDE DEF s
<1>4. Alike(ts, StepPut(ts, s)) /\ HasStep(StepPut(ts, s))
  BY <1>1, StepPutAlike
<1>5. StepObjs(num, s) = StepObjs(num, was) \o <<<<num, id>>>>
  <2>1. G \in Seq(Seq(Pairs)) /\ FlattenSeq(G) = StepObjs(num, was)
    BY <1>2, ObjsTyped DEF StepObjs
  <2>2. H \in Seq(Seq(Pairs)) /\ FlattenSeq(H) = StepObjs(num, s)
    BY <1>1, <1>2, ObjsTyped DEF StepObjs
  <2>3. Len(G) = n /\ Len(H) = n + 1 /\ \A i \in 1..n : H[i] = G[i]
    BY <1>3
  <2>4. H[n + 1] = <<<<num, id>>>>
    <3>1. n + 1 \in 1..Len(s)
      BY <1>3
    <3> QED BY <3>1, <1>3 DEF NewObj
  <2>5. n \in Nat
    BY <1>3
  <2> HIDE DEF G, H, n
  <2>6. FlattenSeq(H) = FlattenSeq(G) \o H[n + 1]
    BY <2>1, <2>2, <2>3, <2>5, OneMore
  <2> QED BY <2>1, <2>2, <2>4, <2>6
<1>6. <<<<num, id>>>> \in Seq(Pairs)
  <2>1. <<num, id>> \in Pairs
    BY <1>2 DEF Pairs
  <2> QED BY <2>1
<1>7. TreeObjs(StepPut(ts, s)) = TreeObjs(ts) \o <<<<num, id>>>>
  BY <1>1, <1>5, <1>6, StepGrows DEF num, was
<1> QED BY <1>1, <1>4, <1>7 DEF num

LEMMA BelowEffect ==
  ASSUME NEW ts \in Trees, HasObj(ts), NEW o \in Objs, o.id = Last(LastObjs(ts)).id
  PROVE  /\ Alike(ts, ObjPut(ts, o)) /\ (HasStep(ObjPut(ts, o)) <=> HasStep(ts))
         /\ TreeObjs(ObjPut(ts, o)) = TreeObjs(ts)
<1> DEFINE was == LastObjs(ts)
           s == PutLast(was, o)
           num == LastMap(ts).num
           n == Len(was)
           G == [i \in 1..n |-> <<<<num, was[i].id>>>>]
           H == [i \in 1..Len(s) |-> <<<<num, s[i].id>>>>]
<1>1. /\ HasStep(ts) /\ was # <<>> /\ was \in Seq(Objs) /\ num \in Nat
      /\ s \in Seq(Objs) /\ ObjPut(ts, o) = StepPut(ts, s)
  BY LastParts, ObjFits DEF MapRecs, ObjPut
<1> HIDE DEF was, num
<1>2. /\ Len(s) = n /\ n \in Nat /\ n # 0 /\ was[n] = Last(was)
  BY <1>1, PutAt
<1>3. s[n] = o /\ \A i \in 1..(n - 1) : s[i] = was[i]
  BY <1>1, PutAt
<1> HIDE DEF s
<1>4. G = H
  <2>1. \A i \in 1..n : i = n \/ i \in 1..(n - 1)
    BY <1>2
  <2>2. s[n].id = was[n].id
    BY <1>2, <1>3 DEF was
  <2>3. \A i \in 1..n : s[i].id = was[i].id
    <3> HIDE DEF n
    <3> QED BY <1>3, <2>1, <2>2
  <2> QED BY <1>2, <2>3
<1>5. StepObjs(num, s) = StepObjs(num, was) /\ StepObjs(num, was) \in Seq(Pairs)
  BY <1>1, <1>4, ObjsTyped DEF StepObjs
<1>6. TreeObjs(StepPut(ts, s)) = TreeObjs(ts) \o <<>>
  BY <1>1, <1>5, Nothing, StepGrows DEF num, was
<1>7. Alike(ts, StepPut(ts, s)) /\ HasStep(StepPut(ts, s))
  BY <1>1, StepPutAlike
<1> QED BY <1>1, <1>6, <1>7, Nothing, ObjsTyped

-----------------------------------------------------------------------------
(* What the lines so far say of the tree they made.                        *)
ThemeLines(ls, n) == {x \in 1..n : ls[x].k = "theme"}

LastTheme(ls, t, n) == t \in 1..n /\ Opens(ls, t) /\ \A x \in (t + 1)..n : ~Opens(ls, x)

Under(ls, j, n) ==
  /\ j \in 1..n /\ Taken(ls, j)
  /\ \A x \in (j + 1)..n : ~Opens(ls, x) /\ ~Taken(ls, x)

NumSince(ls, t, n, num) == \E x \in (t + 1)..n : ls[x].k = "map" /\ ls[x].n = num
StepSince(ls, j, n)     == \E s \in (j + 1)..n : ls[s].k = "step"

Tracks(ls, n, ts) ==
  /\ ts \in Trees
  /\ Len(ts) = IF Cardinality(ThemeLines(ls, n)) < 256 THEN Cardinality(ThemeLines(ls, n)) ELSE 256
  /\ ts # <<>> <=> \E t : LastTheme(ls, t, n)
  /\ \A t : LastTheme(ls, t, n) =>
       \A num \in Nat \ {0} : HasNum(ts, num) <=> NumSince(ls, t, n, num)
  /\ HasMap(ts) <=> \E j : Under(ls, j, n)
  /\ \A j : Under(ls, j, n) =>
       LastMap(ts).num = ls[j].n /\ (HasStep(ts) <=> StepSince(ls, j, n))

(* One line more. *)
LEMMA NextTheme ==
  ASSUME NEW ls, NEW n \in Nat, NEW t
  PROVE  LastTheme(ls, t, n + 1) <=> \/ t = n + 1 /\ Opens(ls, n + 1)
                                     \/ LastTheme(ls, t, n) /\ ~Opens(ls, n + 1)
<1>1. CASE t = n + 1
  <2>1. t \in 1..(n + 1) /\ ~(t \in 1..n) /\ (t + 1)..(n + 1) = {}
    BY <1>1
  <2> QED BY <1>1, <2>1 DEF LastTheme
<1>2. CASE t \in 1..n
  <2>1. t \in 1..(n + 1) /\ t # n + 1
    BY <1>2
  <2>2. \A x : x \in (t + 1)..(n + 1) <=> x \in (t + 1)..n \/ x = n + 1
    BY <1>2
  <2> QED BY <1>2, <2>1, <2>2 DEF LastTheme
<1>3. CASE ~(t \in 1..(n + 1))
  <2>1. ~(t \in 1..n) /\ t # n + 1
    BY <1>3
  <2> QED BY <1>3, <2>1 DEF LastTheme
<1>4. t \in 1..(n + 1) => t = n + 1 \/ t \in 1..n
  OBVIOUS
<1> QED BY <1>1, <1>2, <1>3, <1>4

LEMMA NextUnder ==
  ASSUME NEW ls, NEW n \in Nat, NEW j
  PROVE  Under(ls, j, n + 1) <=> \/ j = n + 1 /\ Taken(ls, n + 1)
                                 \/ Under(ls, j, n) /\ ~Opens(ls, n + 1) /\ ~Taken(ls, n + 1)
<1>1. CASE j = n + 1
  <2>1. j \in 1..(n + 1) /\ ~(j \in 1..n) /\ (j + 1)..(n + 1) = {}
    BY <1>1
  <2> QED BY <1>1, <2>1 DEF Under
<1>2. CASE j \in 1..n
  <2>1. j \in 1..(n + 1) /\ j # n + 1
    BY <1>2
  <2>2. \A x : x \in (j + 1)..(n + 1) <=> x \in (j + 1)..n \/ x = n + 1
    BY <1>2
  <2> QED BY <1>2, <2>1, <2>2 DEF Under
<1>3. CASE ~(j \in 1..(n + 1))
  <2>1. ~(j \in 1..n) /\ j # n + 1
    BY <1>3
  <2> QED BY <1>3, <2>1 DEF Under
<1>4. j \in 1..(n + 1) => j = n + 1 \/ j \in 1..n
  OBVIOUS
<1> QED BY <1>1, <1>2, <1>3, <1>4

LEMMA NextSince ==
  ASSUME NEW ls, NEW n \in Nat
  PROVE  /\ \A t \in 1..n : \A num :
              NumSince(ls, t, n + 1, num) <=>
                NumSince(ls, t, n, num) \/ (ls[n + 1].k = "map" /\ ls[n + 1].n = num)
         /\ \A j \in 1..n : StepSince(ls, j, n + 1) <=> StepSince(ls, j, n) \/ ls[n + 1].k = "step"
         /\ \A num : ~NumSince(ls, n + 1, n + 1, num)
         /\ ~StepSince(ls, n + 1, n + 1)
<1>1. \A t \in 1..n : \A x : x \in (t + 1)..(n + 1) <=> x \in (t + 1)..n \/ x = n + 1
  OBVIOUS
<1>2. ((n + 1) + 1)..(n + 1) = {}
  OBVIOUS
<1> QED BY <1>1, <1>2 DEF NumSince, StepSince

LEMMA NextCount ==
  ASSUME NEW ls, NEW n \in Nat
  PROVE  /\ Cardinality(ThemeLines(ls, n)) \in Nat
         /\ Cardinality(ThemeLines(ls, n + 1)) =
              Cardinality(ThemeLines(ls, n)) + IF ls[n + 1].k = "theme" THEN 1 ELSE 0
<1> DEFINE A == ThemeLines(ls, n)
           B == ThemeLines(ls, n + 1)
<1>1. IsFiniteSet(A)
  <2>1. A \subseteq 1..n /\ IsFiniteSet(1..n)
    BY FS_Interval DEF ThemeLines
  <2> HIDE DEF A
  <2> QED BY <2>1, FS_Subset
<1>2. Cardinality(A) \in Nat
  BY <1>1, FS_CardinalityType
<1>3. \A x : x \in 1..(n + 1) <=> x \in 1..n \/ x = n + 1
  OBVIOUS
<1>4. n + 1 \notin A
  BY DEF ThemeLines
<1>5. CASE ls[n + 1].k = "theme"
  <2>1. B = A \cup {n + 1}
    BY <1>3, <1>5 DEF ThemeLines
  <2>2. Cardinality(A \cup {n + 1}) = Cardinality(A) + 1
    <3> HIDE DEF A
    <3> QED BY <1>1, <1>4, FS_AddElement
  <2> QED BY <1>2, <1>5, <2>1, <2>2
<1>6. CASE ls[n + 1].k # "theme"
  <2>1. B = A
    BY <1>3, <1>6 DEF ThemeLines
  <2> QED BY <1>2, <1>6, <2>1
<1> QED BY <1>2, <1>5, <1>6

LEMMA NextOpens ==
  ASSUME NEW ls, NEW n \in Nat
  PROVE  Opens(ls, n + 1) <=> ls[n + 1].k = "theme" /\ Cardinality(ThemeLines(ls, n)) < 256
<1>1. (n + 1) - 1 = n
  OBVIOUS
<1> QED BY <1>1 DEF Opens, ThemeLines

LEMMA NextTaken ==
  ASSUME NEW ls, NEW n \in Nat
  PROVE  Taken(ls, n + 1) <=>
           /\ ls[n + 1].k = "map" /\ ls[n + 1].n # 0
           /\ \E t : LastTheme(ls, t, n) /\ ~NumSince(ls, t, n, ls[n + 1].n)
<1>1. (n + 1) - 1 = n
  OBVIOUS
<1> QED BY <1>1 DEF Taken, LastTheme, NumSince

(* A theme and a map of the script are taken as the tree takes them. *)
LEMMA TakenAlike ==
  ASSUME NEW ls \in Seq(Lines), NEW n \in 0..(Len(ls) - 1), NEW ts, Tracks(ls, n, ts)
  PROVE  /\ Opens(ls, n + 1) <=> ls[n + 1].k = "theme" /\ Len(ts) < 256
         /\ Taken(ls, n + 1) <=>
              /\ ls[n + 1].k = "map" /\ ls[n + 1].n # 0
              /\ ts # <<>> /\ ~HasNum(ts, ls[n + 1].n)
         /\ ls[n + 1] \in Lines /\ ls[n + 1].n \in Nat /\ ls[n + 1].id \in Nat
         /\ ls[n + 1].k \in Commands
<1>0. n \in Nat /\ n + 1 \in 1..Len(ls)
  OBVIOUS
<1>1. ls[n + 1] \in Lines
  BY <1>0
<1>2. ls[n + 1].n \in Nat /\ ls[n + 1].id \in Nat /\ ls[n + 1].k \in Commands
  BY <1>1 DEF Lines
<1>3. Opens(ls, n + 1) <=> ls[n + 1].k = "theme" /\ Len(ts) < 256
  <2>1. Cardinality(ThemeLines(ls, n)) \in Nat
    BY <1>0, NextCount
  <2>2. Len(ts) < 256 <=> Cardinality(ThemeLines(ls, n)) < 256
    BY <2>1 DEF Tracks
  <2> QED BY <1>0, <2>2, NextOpens
<1>4. ASSUME ls[n + 1].n # 0
      PROVE  (\E t : LastTheme(ls, t, n) /\ ~NumSince(ls, t, n, ls[n + 1].n))
               <=> ts # <<>> /\ ~HasNum(ts, ls[n + 1].n)
  <2>1. ls[n + 1].n \in Nat \ {0}
    BY <1>2, <1>4
  <2>2. \A t : LastTheme(ls, t, n) => (HasNum(ts, ls[n + 1].n) <=> NumSince(ls, t, n, ls[n + 1].n))
    BY <2>1 DEF Tracks
  <2>3. ts # <<>> <=> \E t : LastTheme(ls, t, n)
    BY DEF Tracks
  <2> QED BY <2>2, <2>3
<1>5. Taken(ls, n + 1) <=>
        /\ ls[n + 1].k = "map" /\ ls[n + 1].n # 0
        /\ ts # <<>> /\ ~HasNum(ts, ls[n + 1].n)
  BY <1>0, <1>4, NextTaken
<1> QED BY <1>1, <1>2, <1>3, <1>5

(* A line that opens no theme and adds no map. *)
LEMMA PlainTracks ==
  ASSUME NEW ls \in Seq(Lines), NEW n \in 0..(Len(ls) - 1), NEW ts, Tracks(ls, n, ts),
         ~Opens(ls, n + 1), ~Taken(ls, n + 1), NEW us \in Trees, Alike(ts, us),
         HasMap(ts) => (HasStep(us) <=> HasStep(ts) \/ ls[n + 1].k = "step")
  PROVE  Tracks(ls, n + 1, us)
<1>0. n \in Nat
  OBVIOUS
<1>1. /\ ts \in Trees
      /\ Len(ts) = IF Cardinality(ThemeLines(ls, n)) < 256 THEN Cardinality(ThemeLines(ls, n)) ELSE 256
      /\ ts # <<>> <=> \E t : LastTheme(ls, t, n)
      /\ \A t : LastTheme(ls, t, n) =>
           \A num \in Nat \ {0} : HasNum(ts, num) <=> NumSince(ls, t, n, num)
      /\ HasMap(ts) <=> \E j : Under(ls, j, n)
      /\ \A j : Under(ls, j, n) =>
           LastMap(ts).num = ls[j].n /\ (HasStep(ts) <=> StepSince(ls, j, n))
  BY DEF Tracks
<1>2. /\ ls[n + 1].n \in Nat
      /\ ls[n + 1].k = "theme" => Len(ts) >= 256
      /\ ls[n + 1].k = "map" => ls[n + 1].n = 0 \/ ts = <<>> \/ HasNum(ts, ls[n + 1].n)
  <2>1. /\ ls[n + 1].n \in Nat
        /\ ~(ls[n + 1].k = "theme" /\ Len(ts) < 256)
        /\ ~(/\ ls[n + 1].k = "map" /\ ls[n + 1].n # 0
             /\ ts # <<>> /\ ~HasNum(ts, ls[n + 1].n))
    BY TakenAlike, Zenon
  <2>2. Len(ts) \in Nat
    BY <1>1 DEF Trees
  <2> QED BY <2>1, <2>2
<1>3. Len(us) = Len(ts) /\ (us # <<>> <=> ts # <<>>)
  BY <1>1 DEF Alike, Trees
<1>4. Len(us) = IF Cardinality(ThemeLines(ls, n + 1)) < 256
                THEN Cardinality(ThemeLines(ls, n + 1)) ELSE 256
  <2> DEFINE c == Cardinality(ThemeLines(ls, n))
             d == Cardinality(ThemeLines(ls, n + 1))
  <2>1. c \in Nat /\ d = c + IF ls[n + 1].k = "theme" THEN 1 ELSE 0
    BY <1>0, NextCount
  <2>2. Len(us) = IF c < 256 THEN c ELSE 256
    BY <1>1, <1>3
  <2>3. ls[n + 1].k = "theme" => Len(us) >= 256
    BY <1>2, <1>3
  <2> HIDE DEF c, d
  <2>4. Len(us) = IF d < 256 THEN d ELSE 256
    BY <2>1, <2>2, <2>3
  <2> QED BY <2>4 DEF d
<1>5. \A t : LastTheme(ls, t, n + 1) <=> LastTheme(ls, t, n)
  <2>1. \A t : LastTheme(ls, t, n + 1) <=> \/ t = n + 1 /\ Opens(ls, n + 1)
                                           \/ LastTheme(ls, t, n) /\ ~Opens(ls, n + 1)
    BY <1>0, NextTheme
  <2> QED BY <2>1
<1>6. \A j : Under(ls, j, n + 1) <=> Under(ls, j, n)
  <2>1. \A j : Under(ls, j, n + 1) <=> \/ j = n + 1 /\ Taken(ls, n + 1)
                                       \/ Under(ls, j, n) /\ ~Opens(ls, n + 1) /\ ~Taken(ls, n + 1)
    BY <1>0, NextUnder
  <2> QED BY <2>1
<1>7. ASSUME NEW t, LastTheme(ls, t, n + 1), NEW num \in Nat \ {0}
      PROVE  HasNum(us, num) <=> NumSince(ls, t, n + 1, num)
  <2>1. LastTheme(ls, t, n) /\ ts # <<>> /\ t \in 1..n
    BY <1>1, <1>5, <1>7 DEF LastTheme
  <2>2. HasNum(us, num) <=> HasNum(ts, num)
    BY <2>1 DEF Alike
  <2>3. HasNum(ts, num) <=> NumSince(ls, t, n, num)
    BY <1>1, <2>1
  <2>4. NumSince(ls, t, n + 1, num) <=>
          NumSince(ls, t, n, num) \/ (ls[n + 1].k = "map" /\ ls[n + 1].n = num)
    BY <1>0, <2>1, NextSince
  <2>5. ls[n + 1].k = "map" /\ ls[n + 1].n = num => HasNum(ts, num)
    BY <1>2, <2>1
  <2> QED BY <2>2, <2>3, <2>4, <2>5
<1>8. ASSUME NEW j, Under(ls, j, n + 1)
      PROVE  LastMap(us).num = ls[j].n /\ (HasStep(us) <=> StepSince(ls, j, n + 1))
  <2>1. Under(ls, j, n) /\ HasMap(ts) /\ j \in 1..n
    BY <1>1, <1>6, <1>8 DEF Under
  <2>2. StepSince(ls, j, n + 1) <=> StepSince(ls, j, n) \/ ls[n + 1].k = "step"
    BY <1>0, <2>1, NextSince
  <2> QED BY <1>1, <2>1, <2>2 DEF Alike
<1>9. HasMap(us) <=> \E j : Under(ls, j, n + 1)
  BY <1>1, <1>6 DEF Alike
<1>10. us # <<>> <=> \E t : LastTheme(ls, t, n + 1)
  BY <1>1, <1>3, <1>5
<1> QED BY <1>4, <1>7, <1>8, <1>9, <1>10 DEF Tracks

LEMMA ThemeTracks ==
  ASSUME NEW ls \in Seq(Lines), NEW n \in 0..(Len(ls) - 1), NEW ts, Tracks(ls, n, ts),
         Opens(ls, n + 1), NEW us \in Trees, us # <<>>, Len(us) = Len(ts) + 1,
         \A x : ~HasNum(us, x), ~HasMap(us)
  PROVE  Tracks(ls, n + 1, us)
<1>0. n \in Nat
  OBVIOUS
<1>1. ls[n + 1].k = "theme" /\ Len(ts) < 256 /\ ~Taken(ls, n + 1)
  BY TakenAlike
<1>2. Len(us) = IF Cardinality(ThemeLines(ls, n + 1)) < 256
                THEN Cardinality(ThemeLines(ls, n + 1)) ELSE 256
  <2> DEFINE c == Cardinality(ThemeLines(ls, n))
             d == Cardinality(ThemeLines(ls, n + 1))
  <2>1. c \in Nat /\ d = c + 1
    BY <1>0, <1>1, NextCount
  <2>2. Len(ts) = IF c < 256 THEN c ELSE 256
    BY DEF Tracks
  <2> HIDE DEF c, d
  <2>3. Len(us) = IF d < 256 THEN d ELSE 256
    BY <1>1, <2>1, <2>2
  <2> QED BY <2>3 DEF d
<1>3. \A t : LastTheme(ls, t, n + 1) <=> t = n + 1
  <2>1. \A t : LastTheme(ls, t, n + 1) <=> \/ t = n + 1 /\ Opens(ls, n + 1)
                                           \/ LastTheme(ls, t, n) /\ ~Opens(ls, n + 1)
    BY <1>0, NextTheme
  <2> QED BY <2>1
<1>4. \A j : ~Under(ls, j, n + 1)
  <2>1. \A j : Under(ls, j, n + 1) <=> \/ j = n + 1 /\ Taken(ls, n + 1)
                                       \/ Under(ls, j, n) /\ ~Opens(ls, n + 1) /\ ~Taken(ls, n + 1)
    BY <1>0, NextUnder
  <2> QED BY <1>1, <2>1
<1>5. \A num : ~NumSince(ls, n + 1, n + 1, num)
  BY <1>0, NextSince
<1>6. us # <<>> <=> \E t : LastTheme(ls, t, n + 1)
  BY <1>3
<1>7. HasMap(us) <=> \E j : Under(ls, j, n + 1)
  BY <1>4
<1>8. ASSUME NEW t, LastTheme(ls, t, n + 1), NEW num \in Nat \ {0}
      PROVE  HasNum(us, num) <=> NumSince(ls, t, n + 1, num)
  BY <1>3, <1>5, <1>8
<1> QED BY <1>2, <1>4, <1>6, <1>7, <1>8 DEF Tracks

LEMMA MapTracks ==
  ASSUME NEW ls \in Seq(Lines), NEW n \in 0..(Len(ls) - 1), NEW ts, Tracks(ls, n, ts),
         Taken(ls, n + 1), NEW us \in Trees, Len(us) = Len(ts), us # <<>>,
         \A x : HasNum(us, x) <=> HasNum(ts, x) \/ x = ls[n + 1].n,
         HasMap(us), LastMap(us).num = ls[n + 1].n, ~HasStep(us)
  PROVE  Tracks(ls, n + 1, us)
<1>0. n \in Nat
  OBVIOUS
<1>1. ls[n + 1].k = "map" /\ ts # <<>> /\ ~Opens(ls, n + 1)
  BY TakenAlike
<1>2. Len(us) = IF Cardinality(ThemeLines(ls, n + 1)) < 256
                THEN Cardinality(ThemeLines(ls, n + 1)) ELSE 256
  <2> DEFINE c == Cardinality(ThemeLines(ls, n))
             d == Cardinality(ThemeLines(ls, n + 1))
  <2>1. c \in Nat /\ d = c + IF ls[n + 1].k = "theme" THEN 1 ELSE 0
    BY <1>0, NextCount
  <2>2. ls[n + 1].k # "theme"
    BY <1>1
  <2>3. Len(us) = IF c < 256 THEN c ELSE 256
    BY DEF Tracks
  <2> HIDE DEF c, d
  <2>4. c = d
    BY <2>1, <2>2
  <2> QED BY <2>3, <2>4 DEF d
<1>3. \A t : LastTheme(ls, t, n + 1) <=> LastTheme(ls, t, n)
  <2>1. \A t : LastTheme(ls, t, n + 1) <=> \/ t = n + 1 /\ Opens(ls, n + 1)
                                           \/ LastTheme(ls, t, n) /\ ~Opens(ls, n + 1)
    BY <1>0, NextTheme
  <2> QED BY <1>1, <2>1
<1>4. \A j : Under(ls, j, n + 1) <=> j = n + 1
  <2>1. \A j : Under(ls, j, n + 1) <=> \/ j = n + 1 /\ Taken(ls, n + 1)
                                       \/ Under(ls, j, n) /\ ~Opens(ls, n + 1) /\ ~Taken(ls, n + 1)
    BY <1>0, NextUnder
  <2> QED BY <2>1
<1>5. ASSUME NEW t, LastTheme(ls, t, n + 1), NEW num \in Nat \ {0}
      PROVE  HasNum(us, num) <=> NumSince(ls, t, n + 1, num)
  <2>1. LastTheme(ls, t, n) /\ t \in 1..n
    BY <1>3, <1>5 DEF LastTheme
  <2>2. HasNum(ts, num) <=> NumSince(ls, t, n, num)
    BY <2>1 DEF Tracks
  <2>3. NumSince(ls, t, n + 1, num) <=>
          NumSince(ls, t, n, num) \/ (ls[n + 1].k = "map" /\ ls[n + 1].n = num)
    BY <1>0, <2>1, NextSince
  <2> QED BY <1>1, <2>2, <2>3
<1>6. \E t : LastTheme(ls, t, n + 1)
  BY <1>1, <1>3 DEF Tracks
<1>7. ~StepSince(ls, n + 1, n + 1)
  BY <1>0, NextSince
<1>8. us # <<>> <=> \E t : LastTheme(ls, t, n + 1)
  BY <1>6
<1>9. HasMap(us) <=> \E j : Under(ls, j, n + 1)
  BY <1>4
<1>10. ASSUME NEW j, Under(ls, j, n + 1)
       PROVE  LastMap(us).num = ls[j].n /\ (HasStep(us) <=> StepSince(ls, j, n + 1))
  BY <1>4, <1>7, <1>10
<1> QED BY <1>2, <1>5, <1>8, <1>9, <1>10 DEF Tracks

(* The objects that are kept. *)
LEMMA ParentsAre ==
  ASSUME NEW ls, NEW n \in Nat
  PROVE  ParentOf(ls, n + 1) = {j \in 1..n : Under(ls, j, n) /\ StepSince(ls, j, n)}
<1>1. (n + 1) - 1 = n
  OBVIOUS
<1> QED BY <1>1 DEF ParentOf, Under, StepSince

LEMMA KeptThere ==
  ASSUME NEW ls \in Seq(Lines), NEW n \in 0..(Len(ls) - 1), NEW ts, Tracks(ls, n, ts)
  PROVE  KeptAt(ls, n + 1) =
           IF ls[n + 1].k = "object" /\ HasStep(ts)
           THEN <<<<LastMap(ts).num, ls[n + 1].id>>>> ELSE <<>>
<1>0. n \in Nat
  OBVIOUS
<1>1. ParentOf(ls, n + 1) = {j \in 1..n : Under(ls, j, n) /\ StepSince(ls, j, n)}
  BY <1>0, ParentsAre
<1>2. ASSUME NEW j \in ParentOf(ls, n + 1) PROVE HasStep(ts) /\ ls[j].n = LastMap(ts).num
  BY <1>1 DEF Tracks
<1>3. HasStep(ts) => ParentOf(ls, n + 1) # {}
  <2>1. HasStep(ts) => \E j : Under(ls, j, n)
    BY DEF Tracks, HasStep
  <2> QED BY <1>1, <2>1 DEF Tracks, Under
<1>4. ParentOf(ls, n + 1) # {} =>
        (CHOOSE j \in ParentOf(ls, n + 1) : TRUE) \in ParentOf(ls, n + 1)
  OBVIOUS
<1> QED BY <1>2, <1>3, <1>4 DEF KeptAt

LEMMA LineTracks ==
  ASSUME NEW ls \in Seq(Lines), NEW n \in 0..(Len(ls) - 1), NEW ts, Tracks(ls, n, ts)
  PROVE  /\ Tracks(ls, n + 1, CommandProcess(ts, ls[n + 1]))
         /\ TreeObjs(CommandProcess(ts, ls[n + 1])) = TreeObjs(ts) \o KeptAt(ls, n + 1)
<1> DEFINE line == ls[n + 1]
           us == CommandProcess(ts, line)
<1>1. /\ Opens(ls, n + 1) <=> line.k = "theme" /\ Len(ts) < 256
      /\ Taken(ls, n + 1) <=>
           line.k = "map" /\ line.n # 0 /\ ts # <<>> /\ ~HasNum(ts, line.n)
      /\ line \in Lines /\ line.n \in Nat /\ line.id \in Nat
      /\ line.k \in Commands
  BY TakenAlike
<1>2. ts \in Trees /\ us \in Trees
  BY <1>1, TreeKept DEF Tracks
<1>3. TreeObjs(ts) \in Seq(Pairs)
  BY <1>2, ObjsTyped
<1>4. line.k # "object" => KeptAt(ls, n + 1) = <<>>
  BY KeptThere
<1>5. \A q \in Seq(Pairs) : q \o <<>> = q
  OBVIOUS
<1>A. us = CommandProcess(ts, line)
  OBVIOUS
<1> SUFFICES /\ Tracks(ls, n + 1, us)
             /\ TreeObjs(us) = TreeObjs(ts) \o KeptAt(ls, n + 1)
  OBVIOUS
<1> HIDE DEF line, us
(* Lines that change nothing the script's objects depend on. *)
<1>6. ASSUME ~Opens(ls, n + 1), ~Taken(ls, n + 1), line.k # "object", Alike(ts, us),
             TreeObjs(us) = TreeObjs(ts),
             HasMap(ts) => (HasStep(us) <=> HasStep(ts) \/ line.k = "step")
      PROVE  /\ Tracks(ls, n + 1, us)
             /\ TreeObjs(us) = TreeObjs(ts) \o KeptAt(ls, n + 1)
  <2>1. TreeObjs(us) = TreeObjs(ts) \o KeptAt(ls, n + 1)
    BY <1>3, <1>4, <1>5, <1>6
  <2>2. Tracks(ls, n + 1, us)
    BY <1>2, <1>6, PlainTracks DEF line
  <2> QED BY <2>1, <2>2
<1>7. CASE line.k = "theme"
  <2>1. us = IF Len(ts) >= 256 THEN ts ELSE Append(ts, NewTheme)
    BY <1>A, <1>7 DEF CommandProcess, AddTheme, NewTheme
  <2>2. CASE Len(ts) >= 256
    <3>1. us = ts /\ ~Opens(ls, n + 1) /\ ~Taken(ls, n + 1)
      BY <1>1, <1>2, <1>7, <2>1, <2>2 DEF Trees
    <3> QED BY <1>6, <1>7, <3>1, AlikeSelf
  <2>3. CASE ~(Len(ts) >= 256)
    <3>1. us = Append(ts, NewTheme) /\ Opens(ls, n + 1)
      BY <1>1, <1>2, <1>7, <2>1, <2>3 DEF Trees
    <3>2. /\ us # <<>> /\ Len(us) = Len(ts) + 1 /\ (\A x : ~HasNum(us, x)) /\ ~HasMap(us)
          /\ TreeObjs(us) = TreeObjs(ts)
      BY <1>2, <3>1, ThemeEffect
    <3>3. Tracks(ls, n + 1, us)
      BY <1>2, <3>1, <3>2, ThemeTracks
    <3>4. TreeObjs(us) = TreeObjs(ts) \o KeptAt(ls, n + 1)
      BY <1>3, <1>4, <1>5, <1>7, <3>2
    <3> QED BY <3>3, <3>4
  <2> QED BY <2>2, <2>3
<1>8. CASE line.k = "idx"
  <2>1. us = AddThemeIdx(ts, line.n)
    BY <1>A, <1>8 DEF CommandProcess
  <2>2. ts = <<>> => AddThemeIdx(ts, line.n) = ts
    BY DEF AddThemeIdx
  <2>3. Alike(ts, us) /\ (HasStep(us) <=> HasStep(ts)) /\ TreeObjs(us) = TreeObjs(ts)
    BY <1>1, <1>2, <2>1, <2>2, IdxEffect, AlikeSelf
  <2> QED BY <1>1, <1>6, <1>8, <2>3
<1>9. CASE line.k = "map"
  <2>1. us = AddMap(ts, line.n)
    BY <1>A, <1>9 DEF CommandProcess
  <2>2. CASE ~Taken(ls, n + 1)
    <3>1. AddMap(ts, line.n) = ts
      BY <1>1, <1>9, <2>2 DEF AddMap, HasNum
    <3> QED BY <1>1, <1>6, <1>9, <2>1, <2>2, <3>1, AlikeSelf
  <2>3. CASE Taken(ls, n + 1)
    <3>1. line.n # 0 /\ ts # <<>> /\ ~HasNum(ts, line.n)
      BY <1>1, <2>3
    <3>2. /\ Len(us) = Len(ts) /\ us # <<>>
          /\ \A x : HasNum(us, x) <=> HasNum(ts, x) \/ x = line.n
          /\ HasMap(us) /\ LastMap(us).num = line.n /\ ~HasStep(us)
          /\ TreeObjs(us) = TreeObjs(ts)
      BY <1>1, <1>2, <2>1, <3>1, MapEffect
    <3>3. Tracks(ls, n + 1, us)
      BY <1>2, <2>3, <3>2, MapTracks DEF line
    <3>4. TreeObjs(us) = TreeObjs(ts) \o KeptAt(ls, n + 1)
      BY <1>3, <1>4, <1>5, <1>9, <3>2
    <3> QED BY <3>3, <3>4
  <2> QED BY <2>2, <2>3
<1>10. CASE line.k = "step"
  <2>1. us = AddStep(ts)
    BY <1>A, <1>10 DEF CommandProcess
  <2>2. ~HasMap(ts) => AddStep(ts) = ts
    BY DEF AddStep
  <2>3. Alike(ts, us) /\ (HasMap(ts) => HasStep(us)) /\ TreeObjs(us) = TreeObjs(ts)
    BY <1>2, <2>1, <2>2, StepEffect, AlikeSelf
  <2> QED BY <1>1, <1>6, <1>10, <2>3
<1>11. CASE line.k = "object"
  <2>1. us = AddObj(ts, line.n, line.id)
    BY <1>A, <1>11 DEF CommandProcess
  <2>2. ~HasStep(ts) => AddObj(ts, line.n, line.id) = ts
    BY DEF AddObj
  <2>3. KeptAt(ls, n + 1) = IF HasStep(ts) THEN <<<<LastMap(ts).num, line.id>>>> ELSE <<>>
    BY <1>11, KeptThere DEF line
  <2>4. ~Opens(ls, n + 1) /\ ~Taken(ls, n + 1)
    BY <1>1, <1>11
  <2>5. Alike(ts, us) /\ (HasStep(us) <=> HasStep(ts))
    BY <1>1, <1>2, <2>1, <2>2, ObjEffect, AlikeSelf
  <2>6. Tracks(ls, n + 1, us)
    BY <1>2, <1>11, <2>4, <2>5, PlainTracks DEF line
  <2>7. TreeObjs(us) = TreeObjs(ts) \o KeptAt(ls, n + 1)
    <3>1. CASE HasStep(ts)
      BY <1>1, <1>2, <2>1, <2>3, <3>1, ObjEffect
    <3>2. CASE ~HasStep(ts)
      BY <1>3, <1>5, <2>1, <2>2, <2>3, <3>2
    <3> QED BY <3>1, <3>2
  <2> QED BY <2>6, <2>7
<1>12. CASE line.k \in Below
  <2>1. \/ us = ts
        \/ HasObj(ts) /\ \E o \in Objs : o.id = Last(LastObjs(ts)).id /\ us = ObjPut(ts, o)
    BY <1>A, <1>1, <1>2, <1>12, BelowPuts
  <2>2. Alike(ts, us) /\ (HasStep(us) <=> HasStep(ts)) /\ TreeObjs(us) = TreeObjs(ts)
    BY <1>2, <2>1, BelowEffect, AlikeSelf
  <2>3. line.k # "object" /\ line.k # "step" /\ ~Opens(ls, n + 1) /\ ~Taken(ls, n + 1)
    BY <1>1, <1>12 DEF Below, Kids, Checks
  <2> QED BY <1>6, <2>2, <2>3
<1>13. line.k \in {"theme", "idx", "map", "step", "object"} \/ line.k \in Below
  BY <1>1 DEF Commands, Below
<1> QED BY <1>7, <1>8, <1>9, <1>10, <1>11, <1>12, <1>13

LEMMA NoLineTracks ==
  ASSUME NEW ls
  PROVE  Tracks(ls, 0, <<>>) /\ TreeObjs(<<>>) = <<>>
<1>1. Cardinality(ThemeLines(ls, 0)) = 0
  <2>1. ThemeLines(ls, 0) = {}
    BY DEF ThemeLines
  <2> QED BY <2>1, FS_EmptySet
<1>2. <<>> \in Trees
  BY DEF Trees
<1>3. (\A t : ~LastTheme(ls, t, 0)) /\ (\A j : ~Under(ls, j, 0)) /\ ~HasMap(<<>>)
  BY DEF LastTheme, Under, HasMap
<1>4. [t \in 1..Len(<<>>) |-> ThemeObjs(<<>>[t])] = <<>>
  OBVIOUS
<1>5. TreeObjs(<<>>) = <<>>
  BY <1>4, FlatEmpty DEF TreeObjs
<1> QED BY <1>1, <1>2, <1>3, <1>5 DEF Tracks

LEMMA LinesKept ==
  ASSUME NEW ls \in Seq(Lines)
  PROVE  Kept(ls) = TreeObjs(LoadRecallInfo(ls))
<1>1. PICK h : Read(ls, h) /\ LoadRecallInfo(ls) = h[Len(ls)]
  BY ReadLines
<1> DEFINE N == Len(ls)
           K(n) == [i \in 1..n |-> KeptAt(ls, i)]
           P == {n \in 0..N : /\ Tracks(ls, n, h[n]) /\ K(n) \in Seq(Seq(Pairs))
                              /\ FlattenSeq(K(n)) = TreeObjs(h[n])}
<1>0. N \in Nat
  OBVIOUS
<1>2. 0 \in P
  <2>1. h[0] = <<>>
    BY <1>1 DEF Read
  <2>2. K(0) = <<>> /\ <<>> \in Seq(Seq(Pairs))
    OBVIOUS
  <2>3. 0 \in 0..N
    <3> HIDE DEF N
    <3> QED BY <1>0
  <2> HIDE DEF N, K
  <2> QED BY <2>1, <2>2, <2>3, NoLineTracks, FlatEmpty
<1>3. ASSUME NEW n \in 0..(N - 1), n \in P PROVE n + 1 \in P
  <2>1. n \in Nat /\ n + 1 \in 1..N /\ n + 1 \in 0..N /\ (n + 1) - 1 = n
    <3> HIDE DEF N
    <3> QED BY <1>0
  <2>2. h[n + 1] = CommandProcess(h[n], ls[n + 1])
    BY <1>1, <2>1 DEF Read
  <2>3. /\ Tracks(ls, n + 1, h[n + 1])
        /\ TreeObjs(h[n + 1]) = TreeObjs(h[n]) \o KeptAt(ls, n + 1)
    BY <1>3, <2>2, LineTracks
  <2> DEFINE G == K(n)
             H == K(n + 1)
  <2>4. G \in Seq(Seq(Pairs)) /\ FlattenSeq(G) = TreeObjs(h[n]) /\ Tracks(ls, n, h[n])
    BY <1>3
  <2>5. KeptAt(ls, n + 1) \in Seq(Pairs)
    <3>1. ls[n + 1] \in Lines
      BY <2>1
    <3>2. HasStep(h[n]) => LastMap(h[n]).num \in Nat
      BY <2>4, LastParts DEF Tracks, MapRecs
    <3>3. HasStep(h[n]) => <<LastMap(h[n]).num, ls[n + 1].id>> \in Pairs
      BY <3>1, <3>2 DEF Lines, Pairs
    <3>4. \A x \in Pairs : <<x>> \in Seq(Pairs)
      OBVIOUS
    <3>5. <<>> \in Seq(Pairs)
      OBVIOUS
    <3> QED BY <2>4, <3>3, <3>4, <3>5, KeptThere
  <2>6. Len(G) = n /\ Len(H) = n + 1 /\ \A i \in 1..n : H[i] = G[i]
    BY <2>1
  <2>7. H[n + 1] = KeptAt(ls, n + 1)
    BY <2>1
  <2>8. H \in Seq(Seq(Pairs))
    <3>1. \A i \in 1..n : G[i] \in Seq(Pairs)
      <4>1. n = Len(G)
        BY <2>6
      <4> HIDE DEF G
      <4> QED BY <2>4, <4>1
    <3>2. \A i \in 1..(n + 1) : i = n + 1 \/ i \in 1..n
      BY <2>1
    <3>3. \A i \in 1..(n + 1) : H[i] \in Seq(Pairs)
      BY <2>5, <2>6, <2>7, <3>1, <3>2
    <3>4. H = [i \in 1..(n + 1) |-> H[i]] /\ n + 1 \in Nat
      BY <2>1
    <3> HIDE DEF H
    <3> QED BY <3>3, <3>4, ListOf
  <2>9. FlattenSeq(H) = FlattenSeq(G) \o KeptAt(ls, n + 1)
    <3>1. FlattenSeq(H) = FlattenSeq(G) \o H[n + 1]
      <4> HIDE DEF G, H
      <4> QED BY <2>1, <2>4, <2>6, <2>8, OneMore
    <3> QED BY <2>7, <3>1
  <2>10. FlattenSeq(H) = TreeObjs(h[n + 1])
    BY <2>3, <2>4, <2>9
  <2> HIDE DEF K, N
  <2> QED BY <2>1, <2>3, <2>8, <2>10
<1>4. \A n \in 0..N : n \in P
  <2> HIDE DEF N, P
  <2> QED BY <1>0, <1>2, <1>3, AllReached
<1>5. N \in P
  <2>1. N \in 0..N
    <3> HIDE DEF N
    <3> QED BY <1>0
  <2> QED BY <1>4, <2>1
<1>6. FlattenSeq(K(N)) = TreeObjs(h[N])
  BY <1>5
<1> QED BY <1>1, <1>6 DEF Kept

(* The inductive invariant says which lines the tree was made of.          *)
LEMMA KeptFollows == IInv => ScriptKept
<1> SUFFICES ASSUME IInv PROVE ScriptKept
  OBVIOUS
<1>1. script \in Seq(Lines) /\ themes = LoadRecallInfo(script)
  BY SiegeAssumption DEF IInv, Lines
<1>2. Kept(script) = TreeObjs(themes)
  BY <1>1, LinesKept
<1> QED BY <1>2, EachIsTree DEF ScriptKept

(* The tree holds the objects of the script that have a map and a step, in *)
(* their order and under the map they were written under, whatever lines   *)
(* the script has (Command_Process and the functions it calls).            *)
THEOREM ScriptAlwaysKept == Spec => []ScriptKept
<1>1. Spec => []IInv
  BY InitHolds, StepHolds, PTL DEF Spec
<1> QED BY <1>1, KeptFollows, PTL
===============================================================================
