--------------------------- MODULE Forwarding_proofs ---------------------------
(***************************************************************************)
(* The forwarding of a connection, and the backends it may go to.          *)
(*                                                                         *)
(* First, what a forwarded connection keeps, for any number of packets and *)
(* any size of the socket buffers: nothing is lost between two ends that   *)
(* stay, an end reads a beginning of what the other has sent, and the      *)
(* handler leaves nothing open behind it.                                  *)
(*                                                                         *)
(* The packets of one direction are numbered, so they are in order if each *)
(* place they are at holds a run of numbers that begins where the place    *)
(* before it ends.  This stays so until the far socket is closed or its    *)
(* peer goes; from then on nothing is written there any more, and what has *)
(* been written is still a beginning.                                      *)
(*                                                                         *)
(* Then, that traffic alone never takes a backend out of rotation, for any *)
(* number of backends and connections and any strategy.  BackendAlive is   *)
(* cleared two steps after the dial that failed, and the backend may be up *)
(* again by then.  The invariant therefore follows the connection: one     *)
(* that is about to mark a backend down has found it down.                 *)
(***************************************************************************)
EXTENDS ForwardConnection, BackendHealth, SequenceTheorems, WellFoundedInduction, TLAPS

(* q holds the numbers after a. *)
Run(q, a) == \A i \in 1 .. Len(q) : q[i] = a + i

(* A direction: read by the far end, in its socket, sniffed, in a goroutine, *)
(* unread, of m packets that were sent.                                     *)
Pipe(g, o, f, k, n, m) ==
  /\ Run(g, 0)
  /\ Run(o, Len(g))
  /\ Run(f, Len(g) + Len(o))
  /\ Run(k, Len(g) + Len(o) + Len(f))
  /\ Run(n, Len(g) + Len(o) + Len(f) + Len(k))
  /\ Len(g) + Len(o) + Len(f) + Len(k) + Len(n) = m

Begins(g, o, m) == Run(g, 0) /\ Run(o, Len(g)) /\ Len(g) + Len(o) <= m

FirstOf(s) == IF s = "c" THEN first ELSE <<>>

Whole(s) == Pipe(got[Far(s)], outbuf[Far(s)], FirstOf(s), copier[s].buf, inbuf[s], sent[s])

Direction(s) ==
  /\ Begins(got[Far(s)], outbuf[Far(s)], sent[s])
  /\ peer[Far(s)] = "gone" \/ closed[Far(s)] \/ Whole(s)

Directions == \A s \in Sides : Direction(s)

(* The stages of the handler and the sockets. *)
Stages ==
  /\ stage = "sniff" => first = <<>>
  /\ stage = "copy" => first = <<>>
  /\ stage \in {"sniff", "filter"} => peer["b"] = "idle"
  /\ peer["b"] = "idle" => /\ stage \in {"sniff", "filter", "done"}
                           /\ inbuf["b"] = <<>> /\ sent["b"] = 0
  /\ peer["c"] # "idle"
  /\ \A s \in Sides :
       /\ copier[s].at # "write" => copier[s].buf = <<>>
       /\ copier[s].at = "write" => copier[s].buf # <<>>
       /\ stage \in {"sniff", "filter", "first"} => copier[s].at = "none" /\ ~closed[s]
       /\ stage = "copy" => copier[s].at # "none"
       /\ reset[s] => peer[s] = "gone"
       /\ stage = "copy" /\ (closed[s] \/ copier[s].at = "ended") =>
            \E p \in Sides : peer[p] \in {"shut", "gone"}

FInv == TypeOK /\ Stages /\ NoLeak /\ Directions

-----------------------------------------------------------------------------
(* Runs of packets. *)

LEMMA RunEmpty == \A a : Run(<<>>, a)
BY DEF Run

LEMMA RunAppend ==
  ASSUME NEW q \in Packets, NEW a \in Nat, NEW p \in 1 .. MaxPackets,
         Run(q, a), p = a + Len(q) + 1
  PROVE  /\ Append(q, p) \in Packets /\ Len(Append(q, p)) = Len(q) + 1
         /\ Run(Append(q, p), a)
BY AppendProperties DEF Run, Packets

LEMMA OneMore ==
  ASSUME NEW q \in Packets, NEW p \in 1 .. MaxPackets
  PROVE  Append(q, p) \in Packets /\ Len(Append(q, p)) = Len(q) + 1
BY AppendProperties DEF Packets

LEMMA RunHeadTail ==
  ASSUME NEW q \in Packets, NEW a \in Nat, Run(q, a), q # <<>>
  PROVE  /\ Head(q) \in 1 .. MaxPackets /\ Head(q) = a + 1
         /\ Tail(q) \in Packets /\ Len(Tail(q)) = Len(q) - 1 /\ Len(q) > 0
         /\ Run(Tail(q), a + 1)
<1>1. Len(q) \in Nat \ {0} /\ Head(q) = q[1]
  BY EmptySeq DEF Packets
<1>2. /\ Head(q) \in 1 .. MaxPackets /\ Tail(q) \in Packets /\ Len(Tail(q)) = Len(q) - 1
      /\ \A i \in 1 .. Len(Tail(q)) : Tail(q)[i] = q[i + 1]
  BY HeadTailProperties DEF Packets
<1> QED
  BY <1>1, <1>2 DEF Run

LEMMA Parts ==
  ASSUME NEW q \in Packets, NEW j \in 0 .. Len(q)
  PROVE  /\ SubSeq(q, 1, j) \in Packets /\ Len(SubSeq(q, 1, j)) = j
         /\ SubSeq(q, j + 1, Len(q)) \in Packets /\ Len(SubSeq(q, j + 1, Len(q))) = Len(q) - j
<1>1. Len(q) \in Nat /\ \A i \in 1 .. Len(q) : q[i] \in 1 .. MaxPackets
  BY LenProperties DEF Packets
<1>2. SubSeq(q, 1, j) \in Packets /\ Len(SubSeq(q, 1, j)) = j
  BY <1>1, SubSeqProperties DEF Packets
<1>3. SubSeq(q, j + 1, Len(q)) \in Packets /\ Len(SubSeq(q, j + 1, Len(q))) = Len(q) - j
  BY <1>1, SubSeqProperties DEF Packets
<1> QED
  BY <1>2, <1>3

LEMMA RunSplit ==
  ASSUME NEW q \in Packets, NEW a \in Nat, NEW j \in 0 .. Len(q), Run(q, a)
  PROVE  /\ SubSeq(q, 1, j) \in Packets /\ Len(SubSeq(q, 1, j)) = j
         /\ SubSeq(q, j + 1, Len(q)) \in Packets /\ Len(SubSeq(q, j + 1, Len(q))) = Len(q) - j
         /\ Run(SubSeq(q, 1, j), a) /\ Run(SubSeq(q, j + 1, Len(q)), a + j)
<1>1. Len(q) \in Nat /\ \A i \in 1 .. Len(q) : q[i] \in 1 .. MaxPackets
  BY LenProperties DEF Packets
<1>2. /\ SubSeq(q, 1, j) \in Packets /\ Len(SubSeq(q, 1, j)) = j
      /\ \A i \in 1 .. j : SubSeq(q, 1, j)[i] = q[i]
  BY <1>1, SubSeqProperties DEF Packets
<1>3. /\ SubSeq(q, j + 1, Len(q)) \in Packets /\ Len(SubSeq(q, j + 1, Len(q))) = Len(q) - j
      /\ \A i \in 1 .. (Len(q) - j) : SubSeq(q, j + 1, Len(q))[i] = q[j + i]
  BY <1>1, SubSeqProperties DEF Packets
<1> QED
  BY <1>1, <1>2, <1>3 DEF Run

LEMMA RunConcat ==
  ASSUME NEW q \in Packets, NEW r \in Packets, Run(q, 0), Run(r, Len(q))
  PROVE  q \o r \in Packets /\ Run(q \o r, 0) /\ Len(q \o r) = Len(q) + Len(r)
<1>1. /\ q \o r \in Packets /\ Len(q \o r) = Len(q) + Len(r)
      /\ \A i \in 1 .. Len(q) + Len(r) : (q \o r)[i] = IF i <= Len(q) THEN q[i] ELSE r[i - Len(q)]
  BY ConcatProperties DEF Packets
<1>2. Len(q) \in Nat /\ Len(r) \in Nat
  BY LenProperties DEF Packets
<1> QED
  BY <1>1, <1>2 DEF Run

LEMMA RunUpTo ==
  ASSUME NEW q \in Packets, Run(q, 0)
  PROVE  q = UpTo(Len(q))
<1>1. q \in [1 .. Len(q) -> 1 .. MaxPackets] /\ Len(q) \in Nat
  BY LenProperties DEF Packets
<1>2. \A i \in 1 .. Len(q) : q[i] = i
  BY <1>1 DEF Run
<1> QED
  BY <1>1, <1>2 DEF UpTo

-----------------------------------------------------------------------------
(* A direction, one packet further. *)

LEMMA PipeBegins ==
  ASSUME NEW g \in Packets, NEW o \in Packets, NEW f \in Packets, NEW k \in Packets,
         NEW n \in Packets, NEW m \in Nat, Pipe(g, o, f, k, n, m)
  PROVE  Begins(g, o, m)
<1>1. Len(g) \in Nat /\ Len(o) \in Nat /\ Len(f) \in Nat /\ Len(k) \in Nat /\ Len(n) \in Nat
  BY LenProperties DEF Packets
<1> QED
  BY <1>1 DEF Pipe, Begins

LEMMA PipeSent ==
  ASSUME NEW g \in Packets, NEW o \in Packets, NEW f \in Packets, NEW k \in Packets,
         NEW n \in Packets, NEW m \in Nat, Pipe(g, o, f, k, n, m), m + 1 \in 1 .. MaxPackets
  PROVE  Pipe(g, o, f, k, Append(n, m + 1), m + 1)
<1>1. Len(g) \in Nat /\ Len(o) \in Nat /\ Len(f) \in Nat /\ Len(k) \in Nat /\ Len(n) \in Nat
  BY LenProperties DEF Packets
<1> DEFINE a == Len(g) + Len(o) + Len(f) + Len(k)
<1>2. a \in Nat /\ Run(n, a) /\ m + 1 = a + Len(n) + 1
  BY <1>1 DEF Pipe
<1>3. Len(Append(n, m + 1)) = Len(n) + 1 /\ Run(Append(n, m + 1), a)
  BY <1>2, RunAppend
<1> QED
  BY <1>1, <1>3 DEF Pipe

LEMMA PipeArrived ==
  ASSUME NEW g \in Packets, NEW o \in Packets, NEW f \in Packets, NEW k \in Packets,
         NEW n \in Packets, NEW m \in Nat, Pipe(g, o, f, k, n, m), o # <<>>
  PROVE  Pipe(Append(g, Head(o)), Tail(o), f, k, n, m)
<1>1. Len(g) \in Nat /\ Len(o) \in Nat /\ Len(f) \in Nat /\ Len(k) \in Nat /\ Len(n) \in Nat
  BY LenProperties DEF Packets
<1>2. Run(g, 0) /\ Run(o, Len(g))
  BY DEF Pipe
<1>3. /\ Head(o) \in 1 .. MaxPackets /\ Head(o) = Len(g) + 1
      /\ Len(Tail(o)) = Len(o) - 1 /\ Run(Tail(o), Len(g) + 1)
  BY <1>1, <1>2, RunHeadTail
<1>4. Len(Append(g, Head(o))) = Len(g) + 1 /\ Run(Append(g, Head(o)), 0)
  BY <1>1, <1>2, <1>3, RunAppend
<1>5. Len(Append(g, Head(o))) + Len(Tail(o)) = Len(g) + Len(o)
  BY <1>1, <1>3, <1>4
<1> QED
  BY <1>3, <1>4, <1>5 DEF Pipe

LEMMA BeginsArrived ==
  ASSUME NEW g \in Packets, NEW o \in Packets, NEW m \in Nat, Begins(g, o, m), o # <<>>
  PROVE  Begins(Append(g, Head(o)), Tail(o), m)
<1>1. Len(g) \in Nat /\ Len(o) \in Nat
  BY LenProperties DEF Packets
<1>2. Run(g, 0) /\ Run(o, Len(g))
  BY DEF Begins
<1>3. /\ Head(o) \in 1 .. MaxPackets /\ Head(o) = Len(g) + 1
      /\ Len(Tail(o)) = Len(o) - 1 /\ Run(Tail(o), Len(g) + 1)
  BY <1>1, <1>2, RunHeadTail
<1>4. Len(Append(g, Head(o))) = Len(g) + 1 /\ Run(Append(g, Head(o)), 0)
  BY <1>1, <1>2, <1>3, RunAppend
<1> QED
  BY <1>1, <1>3, <1>4 DEF Begins

LEMMA BeginsMore ==
  ASSUME NEW g \in Packets, NEW o \in Packets, NEW m \in Nat, Begins(g, o, m)
  PROVE  Begins(g, <<>>, m) /\ Begins(g, o, m + 1)
<1>1. Len(g) \in Nat /\ Len(o) \in Nat /\ Len(<<>>) = 0
  BY LenProperties DEF Packets
<1>2. Run(<<>>, Len(g))
  BY RunEmpty
<1> QED
  BY <1>1, <1>2 DEF Begins

LEMMA BeginsIs ==
  ASSUME NEW g \in Packets, NEW o \in Packets, NEW m \in Nat, Begins(g, o, m)
  PROVE  g = UpTo(Len(g)) /\ Len(g) <= m
<1>1. Len(g) \in Nat /\ Len(o) \in Nat
  BY LenProperties DEF Packets
<1>2. Run(g, 0) /\ Len(g) + Len(o) <= m
  BY DEF Begins
<1> QED
  BY <1>1, <1>2, RunUpTo

(* A write of the first sniffed packet, and of the first in a goroutine. *)
LEMMA PipeMoved ==
  ASSUME NEW g \in Packets, NEW o \in Packets, NEW f \in Packets, NEW k \in Packets,
         NEW n \in Packets, NEW m \in Nat, Pipe(g, o, f, k, n, m),
         NEW p, NEW t, Len(p) = Len(o) + 1, Run(p, Len(g)), Run(t, Len(g) + Len(o) + 1)
  PROVE  /\ Len(t) = Len(f) - 1 => Pipe(g, p, t, k, n, m)
         /\ f = <<>> /\ Len(t) = Len(k) - 1 => Pipe(g, p, f, t, n, m)
<1>1. Len(g) \in Nat /\ Len(o) \in Nat /\ Len(f) \in Nat /\ Len(k) \in Nat /\ Len(n) \in Nat
  BY LenProperties DEF Packets
<1>2. ASSUME Len(t) = Len(f) - 1 PROVE Pipe(g, p, t, k, n, m)
  <2>1. Len(g) + Len(p) = Len(g) + Len(o) + 1 /\ Len(g) + Len(p) + Len(t) = Len(g) + Len(o) + Len(f)
    BY <1>1, <1>2
  <2> QED
    BY <1>1, <2>1 DEF Pipe
<1>3. ASSUME f = <<>>, Len(t) = Len(k) - 1 PROVE Pipe(g, p, f, t, n, m)
  <2>1. Len(f) = 0 /\ Run(f, Len(g) + Len(p))
    BY <1>3, RunEmpty
  <2>2. /\ Len(g) + Len(p) + Len(f) = Len(g) + Len(o) + 1
        /\ Len(g) + Len(p) + Len(f) + Len(t) = Len(g) + Len(o) + Len(f) + Len(k)
    BY <1>1, <1>3, <2>1
  <2> QED
    BY <1>1, <2>1, <2>2 DEF Pipe
<1> QED
  BY <1>2, <1>3

LEMMA PipeWritten ==
  ASSUME NEW g \in Packets, NEW o \in Packets, NEW f \in Packets, NEW k \in Packets,
         NEW n \in Packets, NEW m \in Nat, Pipe(g, o, f, k, n, m)
  PROVE  /\ f # <<>> => Pipe(g, Append(o, Head(f)), Tail(f), k, n, m)
         /\ f = <<>> /\ k # <<>> => Pipe(g, Append(o, Head(k)), f, Tail(k), n, m)
<1>1. Len(g) \in Nat /\ Len(o) \in Nat /\ Len(f) \in Nat /\ Len(k) \in Nat /\ Len(n) \in Nat
  BY LenProperties DEF Packets
<1>2. ASSUME NEW q \in Packets, Run(q, Len(g) + Len(o)), q # <<>>
      PROVE  /\ Len(Tail(q)) = Len(q) - 1 /\ Run(Tail(q), Len(g) + Len(o) + 1)
             /\ Len(Append(o, Head(q))) = Len(o) + 1 /\ Run(Append(o, Head(q)), Len(g))
  <2>1. /\ Head(q) \in 1 .. MaxPackets /\ Head(q) = Len(g) + Len(o) + 1
        /\ Len(Tail(q)) = Len(q) - 1 /\ Run(Tail(q), Len(g) + Len(o) + 1)
    BY <1>1, <1>2, RunHeadTail
  <2>2. Run(o, Len(g))
    BY DEF Pipe
  <2> QED
    BY <1>1, <2>1, <2>2, RunAppend
<1>3. ASSUME f # <<>> PROVE Pipe(g, Append(o, Head(f)), Tail(f), k, n, m)
  <2>1. Run(f, Len(g) + Len(o))
    BY DEF Pipe
  <2> QED
    BY <1>2, <1>3, <2>1, PipeMoved
<1>4. ASSUME f = <<>>, k # <<>> PROVE Pipe(g, Append(o, Head(k)), f, Tail(k), n, m)
  <2>1. Run(k, Len(g) + Len(o))
    BY <1>1, <1>4 DEF Pipe
  <2> QED
    BY <1>2, <1>4, <2>1, PipeMoved
<1> QED
  BY <1>3, <1>4

(* A read, for the sniffing and for a goroutine. *)
LEMMA PipeParted ==
  ASSUME NEW g \in Packets, NEW o \in Packets, NEW f \in Packets, NEW k \in Packets,
         NEW n \in Packets, NEW m \in Nat, Pipe(g, o, f, k, n, m), k = <<>>,
         NEW x \in Packets, NEW y \in Packets, Len(x) + Len(y) = Len(n),
         Run(x, m - Len(n)), Run(y, m - Len(n) + Len(x))
  PROVE  /\ f = <<>> => Pipe(g, o, x, k, y, m)
         /\ Pipe(g, o, f, x, y, m)
<1>1. /\ Len(g) \in Nat /\ Len(o) \in Nat /\ Len(f) \in Nat /\ Len(n) \in Nat
      /\ Len(x) \in Nat /\ Len(y) \in Nat /\ Len(k) = 0
  BY LenProperties DEF Packets
<1>2. m - Len(n) = Len(g) + Len(o) + Len(f)
  BY <1>1 DEF Pipe
<1>3. Pipe(g, o, f, x, y, m)
  BY <1>1, <1>2 DEF Pipe
<1>4. ASSUME f = <<>> PROVE Pipe(g, o, x, k, y, m)
  <2>1. Len(f) = 0 /\ m - Len(n) = Len(g) + Len(o)
    BY <1>1, <1>2, <1>4
  <2>2. Run(k, Len(g) + Len(o) + Len(x))
    BY RunEmpty
  <2>3. m - Len(n) + Len(x) = Len(g) + Len(o) + Len(x) + Len(k)
    BY <1>1, <2>1
  <2> QED
    BY <1>1, <2>1, <2>2, <2>3 DEF Pipe
<1> QED
  BY <1>3, <1>4

LEMMA PipeTaken ==
  ASSUME NEW g \in Packets, NEW o \in Packets, NEW f \in Packets, NEW k \in Packets,
         NEW n \in Packets, NEW m \in Nat, Pipe(g, o, f, k, n, m), k = <<>>,
         NEW j \in 0 .. Len(n)
  PROVE  /\ f = <<>> => Pipe(g, o, SubSeq(n, 1, j), k, SubSeq(n, j + 1, Len(n)), m)
         /\ Pipe(g, o, f, SubSeq(n, 1, j), SubSeq(n, j + 1, Len(n)), m)
<1>1. /\ Len(g) \in Nat /\ Len(o) \in Nat /\ Len(f) \in Nat /\ Len(n) \in Nat /\ Len(k) = 0
  BY LenProperties DEF Packets
<1>2. m - Len(n) \in Nat /\ Run(n, m - Len(n))
  <2>1. m - Len(n) = Len(g) + Len(o) + Len(f) + Len(k)
    BY <1>1 DEF Pipe
  <2> QED
    BY <1>1, <2>1 DEF Pipe
<1>3. PICK x \in Packets, y \in Packets :
        /\ x = SubSeq(n, 1, j) /\ y = SubSeq(n, j + 1, Len(n))
        /\ Len(x) = j /\ Len(y) = Len(n) - j
        /\ Run(x, m - Len(n)) /\ Run(y, m - Len(n) + j)
  BY <1>2, RunSplit
<1>4. Len(x) = j /\ Len(y) = Len(n) - j
  BY <1>3
<1>5. Len(x) + Len(y) = Len(n)
  BY <1>1, <1>4
<1>6. Run(x, m - Len(n)) /\ Run(y, m - Len(n) + Len(x))
  BY <1>3, <1>4
<1>7. (f = <<>> => Pipe(g, o, x, k, y, m)) /\ Pipe(g, o, f, x, y, m)
  BY <1>5, <1>6, PipeParted
<1> QED
  BY <1>3, <1>7

(* What the places hold, one after the other, is what was sent. *)
LEMMA PipeAll ==
  ASSUME NEW g \in Packets, NEW o \in Packets, NEW f \in Packets, NEW k \in Packets,
         NEW n \in Packets, NEW m \in Nat, Pipe(g, o, f, k, n, m)
  PROVE  g \o o \o f \o k \o n = UpTo(m)
<1>1. Len(g) \in Nat /\ Len(o) \in Nat /\ Len(f) \in Nat /\ Len(k) \in Nat /\ Len(n) \in Nat
  BY LenProperties DEF Packets
<1>2. PICK q \in Packets : q = g \o o /\ Run(q, 0) /\ Len(q) = Len(g) + Len(o)
  <2>1. Run(g, 0) /\ Run(o, Len(g))
    BY DEF Pipe
  <2>2. g \o o \in Packets /\ Run(g \o o, 0) /\ Len(g \o o) = Len(g) + Len(o)
    BY <2>1, RunConcat
  <2> QED
    BY <2>2 DEF Pipe
<1>3. PICK r \in Packets : r = q \o f /\ Run(r, 0) /\ Len(r) = Len(g) + Len(o) + Len(f)
  <2>1. Run(q, 0) /\ Run(f, Len(q))
    BY <1>2 DEF Pipe
  <2>2. q \o f \in Packets /\ Run(q \o f, 0) /\ Len(q \o f) = Len(q) + Len(f)
    BY <2>1, RunConcat
  <2> QED
    BY <1>2, <2>2 DEF Pipe
<1>4. PICK t \in Packets : t = r \o k /\ Run(t, 0) /\ Len(t) = Len(g) + Len(o) + Len(f) + Len(k)
  <2>1. Run(r, 0) /\ Run(k, Len(r))
    BY <1>3 DEF Pipe
  <2>2. r \o k \in Packets /\ Run(r \o k, 0) /\ Len(r \o k) = Len(r) + Len(k)
    BY <2>1, RunConcat
  <2> QED
    BY <1>3, <2>2 DEF Pipe
<1>5. PICK v \in Packets : v = t \o n /\ Run(v, 0) /\ Len(v) = m
  <2>1. Run(t, 0) /\ Run(n, Len(t))
    BY <1>4 DEF Pipe
  <2>2. t \o n \in Packets /\ Run(t \o n, 0) /\ Len(t \o n) = Len(t) + Len(n)
    BY <2>1, RunConcat
  <2> QED
    BY <1>4, <2>2 DEF Pipe
<1>6. v = UpTo(m)
  BY <1>5, RunUpTo
<1> QED
  BY <1>2, <1>3, <1>4, <1>5, <1>6

-----------------------------------------------------------------------------
(* The two directions of a connection. *)

LEMMA TwoSides ==
  ASSUME NEW s \in Sides
  PROVE  Far(s) \in Sides /\ Far(Far(s)) = s /\ Far(s) # s /\ \A x \in Sides : x = s \/ x = Far(s)
BY DEF Sides, Far

LEMMA Places ==
  ASSUME TypeOK, NEW s \in Sides
  PROVE  /\ got[Far(s)] \in Packets /\ outbuf[Far(s)] \in Packets /\ FirstOf(s) \in Packets
         /\ copier[s].buf \in Packets /\ inbuf[s] \in Packets /\ sent[s] \in 0 .. MaxPackets
         /\ sent[s] \in Nat
<1>1. /\ got[Far(s)] \in Packets /\ outbuf[Far(s)] \in Packets /\ first \in Packets
      /\ copier[s].buf \in Packets /\ inbuf[s] \in Packets /\ sent[s] \in 0 .. MaxPackets
  BY TwoSides DEF TypeOK
<1>2. <<>> \in Packets
  BY EmptySeq DEF Packets
<1>3. sent[s] \in Nat
  BY <1>1, ForwardAssumption
<1> QED
  BY <1>1, <1>2, <1>3 DEF FirstOf

(* A direction in which nothing moves. *)
LEMMA DirSame ==
  ASSUME NEW s \in Sides, Direction(s),
         got'[Far(s)] = got[Far(s)], outbuf'[Far(s)] = outbuf[Far(s)], FirstOf(s)' = FirstOf(s),
         copier'[s].buf = copier[s].buf, inbuf'[s] = inbuf[s], sent'[s] = sent[s],
         peer[Far(s)] = "gone" => peer'[Far(s)] = "gone", closed[Far(s)] => closed'[Far(s)]
  PROVE  Direction(s)'
<1>1. Whole(s) => Whole(s)'
  BY DEF Whole
<1> QED
  BY <1>1 DEF Direction

(* A direction that is over: what arrives can only be less. *)
LEMMA DirOver ==
  ASSUME TypeOK, NEW s \in Sides, Direction(s), got'[Far(s)] = got[Far(s)],
         outbuf'[Far(s)] = outbuf[Far(s)] \/ outbuf'[Far(s)] = <<>>, sent'[s] = sent[s],
         peer'[Far(s)] = "gone" \/ closed'[Far(s)]
  PROVE  Direction(s)'
<1>1. Begins(got[Far(s)], outbuf[Far(s)], sent[s]) /\ got[Far(s)] \in Packets
      /\ outbuf[Far(s)] \in Packets /\ sent[s] \in Nat
  BY Places DEF Direction
<1>3. Begins(got[Far(s)], <<>>, sent[s])
  BY <1>1, BeginsMore
<1> QED
  BY <1>1, <1>3 DEF Direction

LEMMA DirSent ==
  ASSUME TypeOK, NEW s \in Sides, Direction(s), sent[s] < MaxPackets,
         inbuf'[s] = Append(inbuf[s], sent[s] + 1), sent'[s] = sent[s] + 1,
         got'[Far(s)] = got[Far(s)], outbuf'[Far(s)] = outbuf[Far(s)], FirstOf(s)' = FirstOf(s),
         copier'[s].buf = copier[s].buf,
         UNCHANGED <<peer[Far(s)], closed[Far(s)]>>
  PROVE  Direction(s)'
<1>1. /\ got[Far(s)] \in Packets /\ outbuf[Far(s)] \in Packets /\ FirstOf(s) \in Packets
      /\ copier[s].buf \in Packets /\ inbuf[s] \in Packets /\ sent[s] \in Nat
  BY Places
<1>2. sent[s] + 1 \in 1 .. MaxPackets
  BY <1>1, ForwardAssumption
<1>3. Whole(s) => Whole(s)'
  BY <1>1, <1>2, PipeSent DEF Whole
<1>4. Begins(got[Far(s)], outbuf[Far(s)], sent[s] + 1)
  BY <1>1, BeginsMore DEF Direction
<1> QED
  BY <1>3, <1>4 DEF Direction

LEMMA DirArrived ==
  ASSUME TypeOK, NEW s \in Sides, Direction(s), outbuf[Far(s)] # <<>>,
         got'[Far(s)] = Append(got[Far(s)], Head(outbuf[Far(s)])),
         outbuf'[Far(s)] = Tail(outbuf[Far(s)]), FirstOf(s)' = FirstOf(s),
         copier'[s].buf = copier[s].buf, inbuf'[s] = inbuf[s], sent'[s] = sent[s],
         UNCHANGED <<peer[Far(s)], closed[Far(s)]>>
  PROVE  Direction(s)'
<1>1. /\ got[Far(s)] \in Packets /\ outbuf[Far(s)] \in Packets /\ FirstOf(s) \in Packets
      /\ copier[s].buf \in Packets /\ inbuf[s] \in Packets /\ sent[s] \in Nat
  BY Places
<1>2. Whole(s) => Whole(s)'
  BY <1>1, PipeArrived DEF Whole
<1>3. Begins(got[Far(s)], outbuf[Far(s)], sent[s])'
  BY <1>1, BeginsArrived DEF Direction
<1> QED
  BY <1>2, <1>3 DEF Direction

(* What Whole becomes; its beginning follows. *)
LEMMA DirWhole ==
  ASSUME TypeOK', NEW s \in Sides, Whole(s)'
  PROVE  Direction(s)'
<1>1. /\ (got[Far(s)])' \in Packets /\ (outbuf[Far(s)])' \in Packets /\ FirstOf(s)' \in Packets
      /\ (copier[s].buf)' \in Packets /\ (inbuf[s])' \in Packets /\ (sent[s])' \in Nat
  <2>1. /\ (got[Far(s)])' \in Packets /\ (outbuf[Far(s)])' \in Packets /\ first' \in Packets
        /\ (copier[s].buf)' \in Packets /\ (inbuf[s])' \in Packets
        /\ (sent[s])' \in 0 .. MaxPackets
    BY TwoSides DEF TypeOK
  <2>2. <<>> \in Packets
    BY EmptySeq DEF Packets
  <2> QED
    BY <2>1, <2>2, ForwardAssumption DEF FirstOf
<1> QED
  BY <1>1, PipeBegins DEF Whole, Direction

-----------------------------------------------------------------------------
(* The steps of the two ends. *)

LEMMA FwdPeerSends ==
  ASSUME FInv, NEW x \in Sides, PeerSends(x)
  PROVE  FInv'
<1>1. /\ peer[x] = "open" /\ sent[x] < MaxPackets /\ Len(inbuf[x]) < Room
      /\ sent' = [sent EXCEPT ![x] = sent[x] + 1]
      /\ inbuf' = [inbuf EXCEPT ![x] = Append(inbuf[x], sent[x] + 1)]
      /\ UNCHANGED <<peer, got, outbuf, closed, reset, stage, first, copier, stats>>
  BY DEF PeerSends, gateVars
<1>2. TypeOK /\ Stages /\ NoLeak /\ Directions
  BY DEF FInv
<1>3. TypeOK'
  <2>1. inbuf[x] \in Packets /\ sent[x] \in 0 .. MaxPackets
    BY <1>2 DEF TypeOK
  <2>2. sent[x] + 1 \in 1 .. MaxPackets
    BY <1>1, <2>1, ForwardAssumption
  <2>3. Append(inbuf[x], sent[x] + 1) \in Packets
        /\ Len(Append(inbuf[x], sent[x] + 1)) = Len(inbuf[x]) + 1
    BY <2>1, <2>2, AppendProperties DEF Packets
  <2>4. Len(inbuf[x]) \in Nat
    BY <2>1, LenProperties DEF Packets
  <2>5. Len(Append(inbuf[x], sent[x] + 1)) <= Room
    BY <1>1, <2>3, <2>4, ForwardAssumption
  <2> QED
    BY <1>1, <1>2, <2>2, <2>3, <2>5 DEF TypeOK
<1>4. Stages'
  BY <1>1, <1>2 DEF Stages, TypeOK, Sides
<1>5. NoLeak'
  BY <1>1, <1>2 DEF NoLeak
<1>6. ASSUME NEW s \in Sides PROVE Direction(s)'
  <2>1. CASE s = x
    BY <1>1, <1>2, <2>1, DirSent DEF Directions, FirstOf, TypeOK
  <2>2. CASE s # x
    BY <1>1, <1>2, <2>2, DirSame DEF Directions, FirstOf
  <2> QED
    BY <2>1, <2>2
<1> QED
  BY <1>3, <1>4, <1>5, <1>6 DEF FInv, Directions

LEMMA FwdPeerReads ==
  ASSUME FInv, NEW x \in Sides, PeerReads(x)
  PROVE  FInv'
<1>1. /\ outbuf[x] # <<>>
      /\ got' = [got EXCEPT ![x] = Append(got[x], Head(outbuf[x]))]
      /\ outbuf' = [outbuf EXCEPT ![x] = Tail(outbuf[x])]
      /\ UNCHANGED <<peer, sent, inbuf, closed, reset, stage, first, copier, stats>>
  BY DEF PeerReads, gateVars
<1>2. TypeOK /\ Stages /\ NoLeak /\ Directions
  BY DEF FInv
<1>3. TypeOK'
  <2>1. outbuf[x] \in Packets /\ got[x] \in Packets /\ Len(outbuf[x]) <= Room
    BY <1>2 DEF TypeOK
  <2>2. Head(outbuf[x]) \in 1 .. MaxPackets /\ Tail(outbuf[x]) \in Packets
        /\ Len(Tail(outbuf[x])) = Len(outbuf[x]) - 1
    BY <1>1, <2>1, HeadTailProperties DEF Packets
  <2>3. Append(got[x], Head(outbuf[x])) \in Packets
    BY <2>1, <2>2, AppendProperties DEF Packets
  <2>4. Len(outbuf[x]) \in Nat
    BY <2>1, LenProperties DEF Packets
  <2>5. Len(Tail(outbuf[x])) <= Room
    BY <2>1, <2>2, <2>4, ForwardAssumption
  <2> QED
    BY <1>1, <1>2, <2>2, <2>3, <2>5 DEF TypeOK
<1>4. Stages'
  BY <1>1, <1>2 DEF Stages
<1>5. NoLeak'
  BY <1>1, <1>2 DEF NoLeak
<1>6. ASSUME NEW s \in Sides PROVE Direction(s)'
  <2>1. CASE Far(s) = x
    BY <1>1, <1>2, <2>1, DirArrived DEF Directions, FirstOf, TypeOK
  <2>2. CASE Far(s) # x
    BY <1>1, <1>2, <2>2, DirSame DEF Directions, FirstOf
  <2> QED
    BY <2>1, <2>2
<1> QED
  BY <1>3, <1>4, <1>5, <1>6 DEF FInv, Directions

LEMMA FwdClientShuts ==
  ASSUME FInv, ClientShuts
  PROVE  FInv'
<1>1. /\ peer["c"] = "open" /\ peer' = [peer EXCEPT !["c"] = "shut"]
      /\ UNCHANGED <<sent, got, inbuf, outbuf, closed, reset, stage, first, copier, stats>>
  BY DEF ClientShuts, sockVars, gateVars
<1>2. TypeOK /\ Stages /\ NoLeak /\ Directions
  BY DEF FInv
<1>3. TypeOK'
  BY <1>1, <1>2 DEF TypeOK, Sides
<1>4. peer'["c"] = "shut" /\ peer'["b"] = peer["b"]
  BY <1>1, <1>2 DEF TypeOK, Sides
<1>5. Stages'
  BY <1>1, <1>2, <1>4 DEF Stages, Sides
<1>6. NoLeak'
  BY <1>1, <1>2, <1>4 DEF NoLeak
<1>7. ASSUME NEW s \in Sides PROVE Direction(s)'
  <2>1. peer[Far(s)] = "gone" => peer'[Far(s)] = "gone"
    BY <1>1, <1>4, TwoSides DEF Sides
  <2> QED
    BY <1>1, <1>2, <2>1, DirSame DEF Directions, FirstOf
<1> QED
  BY <1>3, <1>5, <1>6, <1>7 DEF FInv, Directions

LEMMA FwdPeerCloses ==
  ASSUME FInv, NEW x \in Sides, PeerCloses(x)
  PROVE  FInv'
<1>1. /\ peer[x] \in {"open", "shut"} /\ peer' = [peer EXCEPT ![x] = "gone"]
      /\ outbuf' = [outbuf EXCEPT ![x] = <<>>]
      /\ UNCHANGED <<sent, got, inbuf, closed, reset, stage, first, copier, stats>>
  BY DEF PeerCloses, gateVars
<1>2. TypeOK /\ Stages /\ NoLeak /\ Directions
  BY DEF FInv
<1>3. TypeOK'
  <2>1. <<>> \in Packets /\ Len(<<>>) = 0
    BY EmptySeq DEF Packets
  <2>2. Len(<<>>) <= Room
    BY <2>1, ForwardAssumption
  <2> QED
    BY <1>1, <1>2, <2>1, <2>2 DEF TypeOK, Sides
<1>4. /\ peer'[x] = "gone" /\ outbuf'[x] = <<>>
      /\ \A s \in Sides : s # x => peer'[s] = peer[s] /\ outbuf'[s] = outbuf[s]
  BY <1>1, <1>2 DEF TypeOK
<1>5. Stages'
  <2>1. \A s \in Sides : peer'[s] = "idle" <=> peer[s] = "idle"
    BY <1>1, <1>4
  <2>2. \A s \in Sides : peer[s] \in {"shut", "gone"} => peer'[s] \in {"shut", "gone"}
    BY <1>1, <1>4
  <2>3. \A s \in Sides : peer[s] = "gone" => peer'[s] = "gone"
    BY <1>1, <1>4
  <2>4. peer'["b"] = "idle" <=> peer["b"] = "idle"
    BY <2>1 DEF Sides
  <2>5. peer'["c"] # "idle"
    BY <1>2, <2>1 DEF Sides, Stages
  <2> QED
    BY <1>1, <1>2, <2>2, <2>3, <2>4, <2>5 DEF Stages
<1>6. NoLeak'
  <2>1. peer'["b"] # "idle" => peer["b"] # "idle"
    BY <1>1, <1>4 DEF Sides
  <2> QED
    BY <1>1, <1>2, <2>1 DEF NoLeak
<1>7. ASSUME NEW s \in Sides PROVE Direction(s)'
  <2>1. CASE Far(s) = x
    BY <1>1, <1>2, <1>4, <2>1, DirOver DEF Directions
  <2>2. CASE Far(s) # x
    BY <1>1, <1>2, <1>4, <2>2, TwoSides, DirSame DEF Directions, FirstOf
  <2> QED
    BY <2>1, <2>2
<1> QED
  BY <1>3, <1>5, <1>6, <1>7 DEF FInv, Directions

-----------------------------------------------------------------------------
(* The steps of the handler. *)

LEMMA TakeType ==
  ASSUME TypeOK, NEW s \in Sides, NEW j \in 0 .. Len(inbuf[s]), Take(s, j)
  PROVE  /\ inbuf' \in [Sides -> Packets] /\ \A x \in Sides : Len(inbuf'[x]) <= Room
         /\ inbuf'[s] = SubSeq(inbuf[s], j + 1, Len(inbuf[s]))
         /\ \A x \in Sides : x # s => inbuf'[x] = inbuf[x]
         /\ SubSeq(inbuf[s], 1, j) \in Packets /\ Len(SubSeq(inbuf[s], 1, j)) = j
<1>1. inbuf \in [Sides -> Packets] /\ inbuf[s] \in Packets /\ Len(inbuf[s]) <= Room
  BY DEF TypeOK
<1>2. Len(inbuf[s]) \in Nat
  BY <1>1, LenProperties DEF Packets
<1>3. SubSeq(inbuf[s], 1, j) \in Packets /\ Len(SubSeq(inbuf[s], 1, j)) = j
  BY <1>1, Parts
<1>4. PICK q \in Packets : q = SubSeq(inbuf[s], j + 1, Len(inbuf[s])) /\ Len(q) = Len(inbuf[s]) - j
  BY <1>1, Parts
<1>5. inbuf' = [inbuf EXCEPT ![s] = q]
  BY <1>4 DEF Take
<1>6. Len(q) <= Room
  <2>1. Len(q) = Len(inbuf[s]) - j
    BY <1>4
  <2> QED
    BY <1>1, <1>2, <2>1, ForwardAssumption
<1>7. \A x \in Sides : Len(inbuf[x]) <= Room
  BY DEF TypeOK
<1> QED
  BY <1>1, <1>3, <1>4, <1>5, <1>6, <1>7

LEMMA FwdSniff ==
  ASSUME FInv, NEW n \in 0 .. Room, Sniff(n)
  PROVE  FInv'
<1>1. /\ stage = "sniff" /\ stage' = "filter" /\ n <= Len(inbuf["c"])
      /\ first' = SubSeq(inbuf["c"], 1, n) /\ Take("c", n)
      /\ UNCHANGED <<peer, sent, got, outbuf, closed, reset, copier, stats>>
  BY DEF Sniff, peerVars
<1>2. TypeOK /\ Stages /\ NoLeak /\ Directions
  BY DEF FInv
<1>3. "c" \in Sides /\ Far("c") = "b" /\ inbuf["c"] \in Packets /\ n \in 0 .. Len(inbuf["c"])
  <2>1. "c" \in Sides /\ Far("c") = "b" /\ inbuf["c"] \in Packets
    BY <1>2 DEF Sides, Far, TypeOK
  <2>2. Len(inbuf["c"]) \in Nat
    BY <2>1, LenProperties DEF Packets
  <2> QED
    BY <1>1, <2>1, <2>2
<1>4. /\ inbuf' \in [Sides -> Packets] /\ \A x \in Sides : Len(inbuf'[x]) <= Room
      /\ inbuf'["c"] = SubSeq(inbuf["c"], n + 1, Len(inbuf["c"]))
      /\ \A x \in Sides : x # "c" => inbuf'[x] = inbuf[x]
      /\ first' \in Packets
  BY <1>1, <1>2, <1>3, TakeType
<1>5. TypeOK'
  BY <1>1, <1>2, <1>4 DEF TypeOK
<1>6. Stages'
  <2>1. inbuf'["b"] = inbuf["b"]
    BY <1>4 DEF Sides
  <2> QED
    BY <1>1, <1>2, <2>1 DEF Stages
<1>7. NoLeak'
  BY <1>1 DEF NoLeak
<1>8. Direction("c")'
  <2>1. peer["b"] = "idle" /\ ~closed["b"] /\ first = <<>> /\ copier["c"].buf = <<>>
    BY <1>1, <1>2 DEF Stages, Sides
  <2>2. Whole("c")
    BY <1>2, <1>3, <2>1 DEF Directions, Direction
  <2>3. /\ got["b"] \in Packets /\ outbuf["b"] \in Packets /\ first \in Packets
        /\ copier["c"].buf \in Packets /\ sent["c"] \in Nat
    BY <1>2, <1>3, Places DEF FirstOf
  <2>4. Pipe(got["b"], outbuf["b"], first, copier["c"].buf, inbuf["c"], sent["c"])
    BY <1>3, <2>2 DEF Whole, FirstOf
  <2>5. Pipe(got["b"], outbuf["b"], SubSeq(inbuf["c"], 1, n), copier["c"].buf,
             SubSeq(inbuf["c"], n + 1, Len(inbuf["c"])), sent["c"])
    BY <1>3, <2>1, <2>3, <2>4, PipeTaken
  <2>6. Pipe(got["b"], outbuf["b"], first', copier["c"].buf, inbuf'["c"], sent["c"])
    BY <1>1, <1>4, <2>5
  <2>7. Whole("c")'
    BY <1>1, <1>3, <2>6 DEF Whole, FirstOf
  <2> QED
    BY <1>3, <1>5, <2>7, DirWhole
<1>9. Direction("b")'
  BY <1>1, <1>2, <1>4, DirSame DEF Directions, FirstOf, Sides
<1> QED
  BY <1>5, <1>6, <1>7, <1>8, <1>9 DEF FInv, Directions, Sides

LEMMA FwdTurnAway ==
  ASSUME FInv, TurnAway
  PROVE  FInv'
<1>1. /\ stage = "filter" /\ stage' = "done" /\ Close({"c"})
      /\ UNCHANGED <<peer, sent, got, inbuf, outbuf, reset, first, copier, stats>>
  BY DEF TurnAway, peerVars
<1>2. TypeOK /\ Stages /\ NoLeak /\ Directions
  BY DEF FInv
<1>3. closed' \in [Sides -> BOOLEAN] /\ closed'["c"] /\ \A x \in Sides : closed[x] => closed'[x]
  BY <1>1, <1>2 DEF Close, TypeOK, Sides
<1>4. TypeOK'
  BY <1>1, <1>2, <1>3 DEF TypeOK
<1>5. Stages' /\ NoLeak'
  BY <1>1, <1>2, <1>3 DEF Stages, NoLeak
<1>6. ASSUME NEW s \in Sides PROVE Direction(s)'
  BY <1>1, <1>2, <1>3, TwoSides, DirSame DEF Directions, FirstOf
<1> QED
  BY <1>4, <1>5, <1>6 DEF FInv, Directions

LEMMA FwdDial ==
  ASSUME FInv, Dial
  PROVE  FInv'
<1>1. /\ stage = "filter" /\ stage' = "first" /\ peer' = [peer EXCEPT !["b"] = "open"]
      /\ UNCHANGED <<sent, got, inbuf, outbuf, closed, reset, first, copier, stats>>
  BY DEF Dial, sockVars
<1>2. TypeOK /\ Stages /\ NoLeak /\ Directions
  BY DEF FInv
<1>3. peer["b"] = "idle" /\ peer'["b"] = "open" /\ peer'["c"] = peer["c"]
  BY <1>1, <1>2 DEF TypeOK, Sides, Stages
<1>4. TypeOK'
  BY <1>1, <1>2 DEF TypeOK, Sides
<1>5. Stages'
  <2>1. \A s \in Sides : copier[s].at = "none" /\ ~closed[s] /\ (reset[s] => peer[s] = "gone")
    BY <1>1, <1>2 DEF Stages
  <2>2. \A s \in Sides : reset[s] => peer'[s] = "gone"
    BY <1>3, <2>1 DEF Sides
  <2> QED
    BY <1>1, <1>2, <1>3, <2>1, <2>2 DEF Stages
<1>6. NoLeak'
  BY <1>1 DEF NoLeak
<1>7. ASSUME NEW s \in Sides PROVE Direction(s)'
  <2>1. peer[Far(s)] = "gone" => peer'[Far(s)] = "gone"
    BY <1>3, TwoSides DEF Sides
  <2> QED
    BY <1>1, <1>2, <2>1, DirSame DEF Directions, FirstOf
<1> QED
  BY <1>4, <1>5, <1>6, <1>7 DEF FInv, Directions

(* The handler starts the goroutines. *)
LEMMA FwdStartCopying ==
  ASSUME FInv, StartCopying
  PROVE  FInv'
<1>1. /\ stage = "first" /\ stage' = "copy" /\ first = <<>>
      /\ copier' = [s \in Sides |-> [at |-> "read", buf |-> <<>>]]
      /\ UNCHANGED <<peer, sent, got, inbuf, outbuf, closed, reset, first, stats>>
  BY DEF StartCopying, peerVars, sockVars
<1>2. TypeOK /\ Stages /\ NoLeak /\ Directions
  BY DEF FInv
<1>3. \A s \in Sides : copier'[s].at = "read" /\ copier'[s].buf = <<>>
  BY <1>1
<1>4. TypeOK'
  <2>1. <<>> \in Packets
    BY EmptySeq DEF Packets
  <2> QED
    BY <1>1, <1>2, <2>1 DEF TypeOK
<1>5. Stages' /\ NoLeak'
  BY <1>1, <1>2, <1>3 DEF Stages, NoLeak
<1>6. ASSUME NEW s \in Sides PROVE Direction(s)'
  <2>1. copier[s].buf = <<>>
    BY <1>1, <1>2 DEF Stages
  <2> QED
    BY <1>1, <1>2, <1>3, <2>1, DirSame DEF Directions, FirstOf
<1> QED
  BY <1>4, <1>5, <1>6 DEF FInv, Directions

(* The handler closes both sockets and returns. *)
LEMMA FwdReturns ==
  ASSUME FInv, WriteFirstFails \/ Finish
  PROVE  FInv'
<1>1. /\ stage' = "done" /\ Close(Sides)
      /\ \A s \in Sides : copier[s].at \in {"none", "ended"}
      /\ peer["b"] # "idle"
      /\ UNCHANGED <<peer, sent, got, inbuf, outbuf, reset, first, copier, stats>>
  BY DEF WriteFirstFails, Finish, peerVars, FInv, Stages
<1>2. TypeOK /\ Stages /\ NoLeak /\ Directions
  BY DEF FInv
<1>3. closed' \in [Sides -> BOOLEAN] /\ \A x \in Sides : closed'[x]
  BY <1>1, <1>2 DEF Close, TypeOK
<1>4. TypeOK'
  BY <1>1, <1>2, <1>3 DEF TypeOK
<1>5. Stages'
  BY <1>1, <1>2 DEF Stages
<1>6. NoLeak'
  BY <1>1, <1>3 DEF NoLeak, Sides
<1>7. ASSUME NEW s \in Sides PROVE Direction(s)'
  BY <1>1, <1>2, <1>3, TwoSides, DirOver DEF Directions
<1> QED
  BY <1>4, <1>5, <1>6, <1>7 DEF FInv, Directions

-----------------------------------------------------------------------------
(* Reads and writes. *)

LEMMA WriteType ==
  ASSUME TypeOK, NEW x \in Sides, NEW p \in 1 .. MaxPackets, Write(x, p)
  PROVE  /\ outbuf' \in [Sides -> Packets] /\ \A y \in Sides : Len(outbuf'[y]) <= Room
         /\ reset' \in [Sides -> BOOLEAN] /\ ~closed[x]
         /\ \A y \in Sides : y # x => outbuf'[y] = outbuf[y]
         /\ peer[x] = "gone" => outbuf' = outbuf
         /\ peer[x] # "gone" => outbuf'[x] = Append(outbuf[x], p)
         /\ \A y \in Sides : reset'[y] => reset[y] \/ peer[y] = "gone"
<1>1. /\ outbuf \in [Sides -> Packets] /\ reset \in [Sides -> BOOLEAN]
      /\ \A y \in Sides : Len(outbuf[y]) <= Room
  BY DEF TypeOK
<1>2. ~closed[x]
  BY DEF Write, Accepts
<1>3. CASE peer[x] = "gone"
  BY <1>1, <1>2, <1>3 DEF Write
<1>4. CASE peer[x] # "gone"
  <2>1. Len(outbuf[x]) < Room /\ UNCHANGED reset
    BY <1>4 DEF Write, Accepts
  <2>2. PICK q \in Packets : q = Append(outbuf[x], p) /\ Len(q) = Len(outbuf[x]) + 1
    BY <1>1, OneMore
  <2>3. Len(outbuf[x]) \in Nat
    BY <1>1, LenProperties DEF Packets
  <2>4. Len(q) = Len(outbuf[x]) + 1
    BY <2>2
  <2>5. Len(q) <= Room
    BY <2>1, <2>3, <2>4, ForwardAssumption
  <2>6. outbuf' = [outbuf EXCEPT ![x] = q]
    BY <1>4, <2>2 DEF Write
  <2> QED
    BY <1>1, <1>2, <1>4, <2>1, <2>2, <2>5, <2>6
<1> QED
  BY <1>3, <1>4

LEMMA FwdWriteFirst ==
  ASSUME FInv, WriteFirst
  PROVE  FInv'
<1>1. /\ stage = "first" /\ first # <<>> /\ Write("b", Head(first)) /\ first' = Tail(first)
      /\ UNCHANGED <<peer, sent, got, inbuf, closed, stage, copier, stats>>
  BY DEF WriteFirst, peerVars
<1>2. TypeOK /\ Stages /\ NoLeak /\ Directions
  BY DEF FInv
<1>3. "b" \in Sides /\ "c" \in Sides /\ Far("c") = "b" /\ Far("b") = "c" /\ first \in Packets
  BY <1>2 DEF Sides, Far, TypeOK
<1>4. Head(first) \in 1 .. MaxPackets /\ Tail(first) \in Packets
  BY <1>1, <1>3, HeadTailProperties DEF Packets
<1>5. /\ outbuf' \in [Sides -> Packets] /\ \A y \in Sides : Len(outbuf'[y]) <= Room
      /\ reset' \in [Sides -> BOOLEAN] /\ ~closed["b"] /\ outbuf'["c"] = outbuf["c"]
      /\ peer["b"] = "gone" => outbuf' = outbuf
      /\ peer["b"] # "gone" => outbuf'["b"] = Append(outbuf["b"], Head(first))
      /\ \A y \in Sides : reset'[y] => reset[y] \/ peer[y] = "gone"
  BY <1>1, <1>2, <1>3, <1>4, WriteType
<1>6. TypeOK'
  BY <1>1, <1>2, <1>4, <1>5 DEF TypeOK
<1>7. Stages'
  BY <1>1, <1>2, <1>5 DEF Stages
<1>8. NoLeak'
  BY <1>1 DEF NoLeak
<1>9. Direction("b")'
  BY <1>1, <1>2, <1>3, <1>5, DirSame DEF Directions, FirstOf
<1>10. Direction("c")'
  <2>1. CASE peer["b"] = "gone"
    BY <1>1, <1>2, <1>3, <1>5, <2>1, DirOver DEF Directions
  <2>2. CASE peer["b"] # "gone"
    <3>1. Pipe(got["b"], outbuf["b"], first, copier["c"].buf, inbuf["c"], sent["c"])
      BY <1>2, <1>3, <1>5, <2>2 DEF Directions, Direction, Whole, FirstOf
    <3>2. /\ got["b"] \in Packets /\ outbuf["b"] \in Packets /\ inbuf["c"] \in Packets
          /\ copier["c"].buf \in Packets /\ sent["c"] \in Nat
      BY <1>2, <1>3, Places
    <3>3. Pipe(got["b"], Append(outbuf["b"], Head(first)), Tail(first), copier["c"].buf,
               inbuf["c"], sent["c"])
      BY <1>1, <1>3, <3>1, <3>2, PipeWritten
    <3>4. Whole("c")'
      BY <1>1, <1>3, <1>5, <2>2, <3>3 DEF Whole, FirstOf
    <3> QED
      BY <1>3, <1>6, <3>4, DirWhole
  <2> QED
    BY <2>1, <2>2
<1> QED
  BY <1>6, <1>7, <1>8, <1>9, <1>10 DEF FInv, Directions, Sides

LEMMA FwdCopyRead ==
  ASSUME FInv, NEW x \in Sides, NEW n \in 1 .. Room, CopyRead(x, n)
  PROVE  FInv'
<1>1. /\ copier[x].at = "read" /\ n \in 1 .. Len(inbuf[x]) /\ Take(x, n)
      /\ copier' = [copier EXCEPT ![x] = [at |-> "write", buf |-> SubSeq(inbuf[x], 1, n)]]
      /\ stats' = [stats EXCEPT !.nacks = @ + NacksSeen(x, Head(inbuf[x]))]
      /\ UNCHANGED <<peer, sent, got, outbuf, closed, reset, stage, first>>
  BY DEF CopyRead, peerVars
<1>2. TypeOK /\ Stages /\ NoLeak /\ Directions
  BY DEF FInv
<1>3. inbuf[x] \in Packets /\ Len(inbuf[x]) \in Nat /\ n \in 0 .. Len(inbuf[x])
  <2>1. inbuf[x] \in Packets
    BY <1>2 DEF TypeOK
  <2>2. Len(inbuf[x]) \in Nat
    BY <2>1, LenProperties DEF Packets
  <2> QED
    BY <1>1, <2>1, <2>2
<1>4. PICK q \in Packets : q = SubSeq(inbuf[x], 1, n) /\ Len(q) = n
  BY <1>3, Parts
<1>5. /\ inbuf' \in [Sides -> Packets] /\ \A y \in Sides : Len(inbuf'[y]) <= Room
      /\ inbuf'[x] = SubSeq(inbuf[x], n + 1, Len(inbuf[x]))
      /\ \A y \in Sides : y # x => inbuf'[y] = inbuf[y]
  BY <1>1, <1>2, <1>3, TakeType
<1>6. /\ copier' \in [Sides -> [at : {"none", "read", "write", "ended"}, buf : Packets]]
      /\ copier'[x] = [at |-> "write", buf |-> q]
      /\ \A y \in Sides : y # x => copier'[y] = copier[y]
  BY <1>1, <1>2, <1>4 DEF TypeOK
<1>7. q # <<>>
  BY <1>1, <1>3, <1>4
<1>8. TypeOK'
  <2>1. stats \in [timeouts : Nat, nacks : Nat]
    BY <1>2 DEF TypeOK
  <2>2. PICK d \in {0, 1} : stats' = [stats EXCEPT !.nacks = stats.nacks + d]
    BY <1>1 DEF NacksSeen
  <2>3. stats' \in [timeouts : Nat, nacks : Nat]
    BY <2>1, <2>2
  <2> QED
    BY <1>1, <1>2, <1>5, <1>6, <2>3 DEF TypeOK
<1>9. stage = "copy" /\ first = <<>>
  BY <1>1, <1>2 DEF Stages, NoLeak, TypeOK
<1>10. Stages'
  <2>1. peer["b"] # "idle"
    BY <1>2, <1>9 DEF Stages
  <2>2. \A s \in Sides : copier'[s].at = "ended" => copier[s].at = "ended"
    BY <1>6
  <2>3. \A s \in Sides : /\ copier'[s].at # "write" => copier'[s].buf = <<>>
                         /\ copier'[s].at = "write" => copier'[s].buf # <<>>
                         /\ copier'[s].at # "none"
    BY <1>2, <1>6, <1>7, <1>9 DEF Stages
  <2> QED
    BY <1>1, <1>2, <1>9, <2>1, <2>2, <2>3 DEF Stages
<1>11. NoLeak'
  BY <1>1, <1>9 DEF NoLeak
<1>12. ASSUME NEW s \in Sides PROVE Direction(s)'
  <2>1. CASE s # x
    BY <1>1, <1>2, <1>5, <1>6, <2>1, DirSame DEF Directions, FirstOf
  <2>2. CASE s = x /\ (peer[Far(x)] = "gone" \/ closed[Far(x)])
    BY <1>1, <1>2, <2>2, DirOver DEF Directions
  <2>3. CASE s = x /\ ~(peer[Far(x)] = "gone" \/ closed[Far(x)])
    <3>1. Pipe(got[Far(x)], outbuf[Far(x)], FirstOf(x), copier[x].buf, inbuf[x], sent[x])
      BY <1>2, <2>3 DEF Directions, Direction, Whole
    <3>2. /\ got[Far(x)] \in Packets /\ outbuf[Far(x)] \in Packets /\ FirstOf(x) \in Packets
          /\ copier[x].buf \in Packets /\ sent[x] \in Nat /\ copier[x].buf = <<>>
      BY <1>1, <1>2, Places DEF Stages
    <3>3. Pipe(got[Far(x)], outbuf[Far(x)], FirstOf(x), SubSeq(inbuf[x], 1, n),
               SubSeq(inbuf[x], n + 1, Len(inbuf[x])), sent[x])
      BY <1>3, <3>1, <3>2, PipeTaken
    <3>4. Pipe(got[Far(x)], outbuf[Far(x)], FirstOf(x), copier'[x].buf, inbuf'[x], sent[x])
      BY <1>4, <1>5, <1>6, <3>3
    <3>5. Whole(x)'
      BY <1>1, <3>4 DEF Whole, FirstOf
    <3> QED
      BY <1>8, <2>3, <3>5, DirWhole
  <2> QED
    BY <2>1, <2>2, <2>3
<1> QED
  BY <1>8, <1>10, <1>11, <1>12 DEF FInv, Directions

LEMMA FwdCopyWrite ==
  ASSUME FInv, NEW x \in Sides, CopyWrite(x)
  PROVE  FInv'
<1> DEFINE k == copier[x].buf
           r == Tail(copier[x].buf)
           at == IF r = <<>> THEN "read" ELSE "write"
<1>1. /\ copier[x].at = "write" /\ Write(Far(x), Head(k))
      /\ copier' = [copier EXCEPT ![x] = [at |-> at, buf |-> r]]
      /\ UNCHANGED <<peer, sent, got, inbuf, closed, stage, first, stats>>
  BY DEF CopyWrite, peerVars
<1>2. TypeOK /\ Stages /\ NoLeak /\ Directions
  BY DEF FInv
<1>3. /\ Far(x) \in Sides /\ Far(x) # x /\ Far(Far(x)) = x
      /\ k \in Packets /\ k # <<>>
  BY <1>1, <1>2, TwoSides DEF TypeOK, Stages
<1>4. Head(k) \in 1 .. MaxPackets /\ r \in Packets
  BY <1>3, HeadTailProperties DEF Packets
<1>5. /\ outbuf' \in [Sides -> Packets] /\ \A y \in Sides : Len(outbuf'[y]) <= Room
      /\ reset' \in [Sides -> BOOLEAN] /\ ~closed[Far(x)]
      /\ \A y \in Sides : y # Far(x) => outbuf'[y] = outbuf[y]
      /\ peer[Far(x)] = "gone" => outbuf' = outbuf
      /\ peer[Far(x)] # "gone" => outbuf'[Far(x)] = Append(outbuf[Far(x)], Head(k))
      /\ \A y \in Sides : reset'[y] => reset[y] \/ peer[y] = "gone"
  BY <1>1, <1>2, <1>3, <1>4, WriteType
<1> HIDE DEF k, r
<1>6. /\ copier' \in [Sides -> [at : {"none", "read", "write", "ended"}, buf : Packets]]
      /\ copier'[x] = [at |-> at, buf |-> r]
      /\ \A y \in Sides : y # x => copier'[y] = copier[y]
  BY <1>1, <1>2, <1>4 DEF TypeOK
<1>7. TypeOK'
  BY <1>1, <1>2, <1>5, <1>6 DEF TypeOK
<1>8. stage = "copy" /\ first = <<>>
  BY <1>1, <1>2 DEF Stages, NoLeak, TypeOK
<1>9. Stages'
  <2>1. peer["b"] # "idle"
    BY <1>2, <1>8 DEF Stages
  <2>2. \A s \in Sides : copier'[s].at = "ended" => copier[s].at = "ended"
    BY <1>6
  <2>3. \A s \in Sides : /\ copier'[s].at # "write" => copier'[s].buf = <<>>
                         /\ copier'[s].at = "write" => copier'[s].buf # <<>>
                         /\ copier'[s].at # "none"
    BY <1>2, <1>6, <1>8 DEF Stages
  <2>4. \A s \in Sides : reset'[s] => peer[s] = "gone"
    BY <1>2, <1>5 DEF Stages
  <2> QED
    BY <1>1, <1>2, <1>8, <2>1, <2>2, <2>3, <2>4 DEF Stages
<1>10. NoLeak'
  BY <1>1, <1>8 DEF NoLeak
<1>11. Direction(Far(x))'
  BY <1>1, <1>2, <1>3, <1>5, <1>6, DirSame DEF Directions, FirstOf
<1>12. Direction(x)'
  <2>1. CASE peer[Far(x)] = "gone"
    BY <1>1, <1>2, <1>5, <2>1, DirOver DEF Directions
  <2>2. CASE peer[Far(x)] # "gone"
    <3>1. Pipe(got[Far(x)], outbuf[Far(x)], FirstOf(x), copier[x].buf, inbuf[x], sent[x])
      BY <1>2, <1>5, <2>2 DEF Directions, Direction, Whole
    <3>2. /\ got[Far(x)] \in Packets /\ outbuf[Far(x)] \in Packets /\ inbuf[x] \in Packets
          /\ FirstOf(x) \in Packets /\ sent[x] \in Nat /\ FirstOf(x) = <<>>
      BY <1>2, <1>8, Places DEF FirstOf
    <3>3. Pipe(got[Far(x)], outbuf[Far(x)], FirstOf(x), k, inbuf[x], sent[x])
      BY <3>1 DEF k
    <3>4. Pipe(got[Far(x)], Append(outbuf[Far(x)], Head(k)), FirstOf(x), Tail(k), inbuf[x], sent[x])
      BY <1>3, <3>2, <3>3, PipeWritten
    <3>5. Tail(k) = copier'[x].buf
      BY <1>6 DEF k, r
    <3>6. Pipe(got[Far(x)], outbuf'[Far(x)], FirstOf(x), copier'[x].buf, inbuf[x], sent[x])
      BY <1>5, <2>2, <3>4, <3>5
    <3>7. Whole(x)'
      BY <1>1, <3>6 DEF Whole, FirstOf
    <3> QED
      BY <1>7, <3>7, DirWhole
  <2> QED
    BY <2>1, <2>2
<1> QED
  BY <1>7, <1>9, <1>10, <1>11, <1>12, TwoSides DEF FInv, Directions

(* A goroutine returns and closes the far socket. *)
LEMMA FwdCopyEnds ==
  ASSUME FInv, NEW x \in Sides, CopyReadFails(x) \/ CopyWriteFails(x)
  PROVE  FInv'
<1>1. /\ copier[x].at \in {"read", "write"}
      /\ AtEof(x) \/ ReadFails(x) \/ WriteFails(Far(x))
      /\ copier' = [copier EXCEPT ![x] = [at |-> "ended", buf |-> <<>>]]
      /\ Close({Far(x)})
      /\ UNCHANGED <<peer, sent, got, inbuf, outbuf, reset, stage, first>>
  BY DEF CopyReadFails, CopyWriteFails, Return, peerVars
<1>2. TypeOK /\ Stages /\ NoLeak /\ Directions
  BY DEF FInv
<1>3. Far(x) \in Sides /\ Far(x) # x /\ Far(Far(x)) = x
  BY TwoSides
<1>4. stats' \in [timeouts : Nat, nacks : Nat]
  <2>1. stats \in [timeouts : Nat, nacks : Nat]
    BY <1>2 DEF TypeOK
  <2>2. PICK d \in {0, 1} : stats' = [stats EXCEPT !.timeouts = stats.timeouts + d] \/ stats' = stats
    BY DEF CopyReadFails, CopyWriteFails
  <2> QED
    BY <2>1, <2>2
<1>5. /\ closed' \in [Sides -> BOOLEAN] /\ closed'[Far(x)]
      /\ \A y \in Sides : closed[y] => closed'[y]
  BY <1>1, <1>2, <1>3 DEF Close, TypeOK
<1>6. /\ copier' \in [Sides -> [at : {"none", "read", "write", "ended"}, buf : Packets]]
      /\ copier'[x] = [at |-> "ended", buf |-> <<>>]
      /\ \A y \in Sides : y # x => copier'[y] = copier[y]
  <2>1. <<>> \in Packets
    BY EmptySeq DEF Packets
  <2> QED
    BY <1>1, <1>2, <2>1 DEF TypeOK
<1>7. TypeOK'
  BY <1>1, <1>2, <1>4, <1>5, <1>6 DEF TypeOK
<1>8. stage = "copy"
  BY <1>1, <1>2 DEF Stages, NoLeak, TypeOK
<1>9. Stages'
  <2>1. \E p \in Sides : peer[p] \in {"shut", "gone"}
    <3>1. CASE AtEof(x)
      BY <3>1 DEF AtEof
    <3>2. CASE closed[x] \/ closed[Far(x)]
      BY <1>2, <1>3, <1>8, <3>2 DEF Stages
    <3>3. CASE reset[x] \/ reset[Far(x)]
      BY <1>2, <1>3, <3>3 DEF Stages
    <3> QED
      BY <1>1, <3>1, <3>2, <3>3 DEF ReadFails, WriteFails
  <2>2. \A s \in Sides : /\ copier'[s].at # "write" => copier'[s].buf = <<>>
                         /\ copier'[s].at = "write" => copier'[s].buf # <<>>
                         /\ copier'[s].at # "none"
    BY <1>2, <1>6, <1>8 DEF Stages
  <2> QED
    BY <1>1, <1>2, <1>8, <2>1, <2>2 DEF Stages
<1>10. NoLeak'
  BY <1>1, <1>8 DEF NoLeak
<1>11. Direction(Far(x))'
  BY <1>1, <1>2, <1>3, <1>5, <1>6, DirSame DEF Directions, FirstOf
<1>12. Direction(x)'
  BY <1>1, <1>2, <1>5, DirOver DEF Directions
<1> QED
  BY <1>7, <1>9, <1>10, <1>11, <1>12, TwoSides DEF FInv, Directions

-----------------------------------------------------------------------------
(* The invariant, and what follows from it. *)

LEMMA FwdInit == Init => FInv
<1> SUFFICES ASSUME Init PROVE FInv
  OBVIOUS
<1>1. <<>> \in Packets /\ Len(<<>>) = 0 /\ 0 <= Room /\ 0 \in 0 .. MaxPackets
  BY EmptySeq, ForwardAssumption DEF Packets
<1>2. TypeOK
  BY <1>1 DEF Init, TypeOK, Sides
<1>3. Stages /\ NoLeak
  BY DEF Init, Stages, NoLeak, Sides
<1>4. \A a : Run(<<>>, a)
  BY RunEmpty
<1>5. \A s \in Sides : Whole(s)
  BY <1>1, <1>4, TwoSides DEF Init, Whole, Pipe, FirstOf
<1>6. Directions
  <2> SUFFICES ASSUME NEW s \in Sides PROVE Begins(got[Far(s)], outbuf[Far(s)], sent[s])
    BY <1>5 DEF Directions, Direction
  <2> QED
    BY <1>2, <1>5, Places, PipeBegins DEF Whole
<1> QED
  BY <1>2, <1>3, <1>6 DEF FInv

LEMMA FwdStutter == FInv /\ UNCHANGED vars => FInv'
<1> SUFFICES ASSUME FInv, UNCHANGED vars PROVE FInv'
  OBVIOUS
<1>1. UNCHANGED <<peer, sent, got, inbuf, outbuf, closed, reset, stage, first, copier, stats>>
  BY DEF vars, peerVars, sockVars, gateVars
<1>2. TypeOK' /\ Stages' /\ NoLeak'
  BY <1>1 DEF FInv, TypeOK, Stages, NoLeak
<1>3. ASSUME NEW s \in Sides PROVE Direction(s)'
  BY <1>1, DirSame DEF FInv, Directions, FirstOf
<1> QED
  BY <1>2, <1>3 DEF FInv, Directions

LEMMA FwdNext == FInv /\ [Next]_vars => FInv'
<1> SUFFICES ASSUME FInv, [Next]_vars PROVE FInv'
  OBVIOUS
<1>1. CASE HandlerStep
  BY <1>1, FwdSniff, FwdTurnAway, FwdDial, FwdWriteFirst, FwdReturns, FwdStartCopying
  DEF HandlerStep
<1>2. ASSUME NEW s \in Sides, CopyStep(s) PROVE FInv'
  BY <1>2, FwdCopyRead, FwdCopyWrite, FwdCopyEnds DEF CopyStep
<1>3. ASSUME NEW s \in Sides, PeerStep(s) PROVE FInv'
  BY <1>3, FwdPeerSends, FwdPeerReads, FwdPeerCloses DEF PeerStep
<1>4. CASE ClientShuts
  BY <1>4, FwdClientShuts
<1>5. CASE UNCHANGED vars
  BY <1>5, FwdStutter
<1> QED
  BY <1>1, <1>2, <1>3, <1>4, <1>5 DEF Next

LEMMA FwdInvariant == Spec => []FInv
BY FwdInit, FwdNext, PTL DEF Spec

(* The sockets, the goroutines and the counters keep their types, and no   *)
(* socket buffer holds more than it has room for.                          *)
THEOREM ForwardTypes == Spec => []TypeOK
<1>1. FInv => TypeOK
  BY DEF FInv
<1> QED
  BY <1>1, FwdInvariant, PTL

(* When handleConnection has returned, both sockets are closed and neither *)
(* of its goroutines is left running.                                      *)
THEOREM NothingLeaks == Spec => []NoLeak
<1>1. FInv => NoLeak
  BY DEF FInv
<1> QED
  BY <1>1, FwdInvariant, PTL

(* As long as both ends stay, what each has sent is, in order and once     *)
(* each, read by the other or on its way: the sniffing takes nothing out   *)
(* of the stream, whatever the sizes of reads and buffers.                 *)
THEOREM ForwardingIsLossless == Spec => []Lossless
<1>1. FInv => Lossless
  <2> SUFFICES ASSUME FInv, Talking, NEW s \in Sides PROVE OnTheWay(s) = UpTo(sent[s])
    BY DEF Lossless
  <2>1. TypeOK /\ Stages /\ Directions
    BY DEF FInv
  <2>2. peer[Far(s)] # "gone" /\ ~closed[Far(s)]
    BY <2>1, TwoSides DEF Talking, Stages
  <2>3. Whole(s)
    BY <2>1, <2>2 DEF Directions, Direction
  <2>4. /\ got[Far(s)] \in Packets /\ outbuf[Far(s)] \in Packets /\ FirstOf(s) \in Packets
        /\ copier[s].buf \in Packets /\ inbuf[s] \in Packets /\ sent[s] \in Nat
    BY <2>1, Places
  <2>5. got[Far(s)] \o outbuf[Far(s)] \o FirstOf(s) \o copier[s].buf \o inbuf[s] = UpTo(sent[s])
    BY <2>3, <2>4, PipeAll DEF Whole
  <2> QED
    BY <2>5 DEF OnTheWay, FirstOf
<1> QED
  BY <1>1, FwdInvariant, PTL

(* Whichever end goes and whenever, the other has read a beginning of what *)
(* was sent to it.                                                         *)
THEOREM EndsReadPrefixes == Spec => []OnlyPrefixes
<1>1. FInv => OnlyPrefixes
  <2> SUFFICES ASSUME FInv, NEW s \in Sides
               PROVE  got[Far(s)] = UpTo(Len(got[Far(s)])) /\ Len(got[Far(s)]) <= sent[s]
    BY DEF OnlyPrefixes
  <2>1. TypeOK /\ Begins(got[Far(s)], outbuf[Far(s)], sent[s])
    BY DEF FInv, Directions, Direction
  <2>2. got[Far(s)] \in Packets /\ outbuf[Far(s)] \in Packets /\ sent[s] \in Nat
    BY <2>1, Places
  <2> QED
    BY <2>1, <2>2, BeginsIs
<1> QED
  BY <1>1, FwdInvariant, PTL

-----------------------------------------------------------------------------
(* The backends of a rule. *)

ConnRecords ==
  [at : {"none", "accepted"}, b : {0}] \cup [at : {"chosen", "failed", "open"}, b : Backends]

CheckerStates == [at : {"rest", "look", "revive", "clear", "revived", "cleared"}, b : Backends]

RotationTypeOK ==
  /\ up \in [Backends -> BOOLEAN]
  /\ alive \in [Backends -> BOOLEAN]
  /\ conns \in [Backends -> Nat]
  /\ conn \in [Conns -> ConnRecords]
  /\ checker \in CheckerStates

DownWasSeen ==
  /\ \A b \in Backends : ~up[b] => b \in trouble
  /\ \A c \in Conns : conn[c].at = "failed" => conn[c].b \in trouble

IInv == RotationTypeOK /\ DownWasSeen /\ DeadWasDown

-----------------------------------------------------------------------------
(* A set of naturals that is not empty has a least element. *)
LEMMA LeastExists ==
  ASSUME NEW S, S \subseteq Nat, S # {}
  PROVE  Min(S) \in S /\ \A y \in S : Min(S) <= y
<1> DEFINE Less == {p \in Nat \X Nat : p[1] < p[2]}
<1>1. IsWellFoundedOn(Less, Nat)
  BY NatLessThanWellFounded, Zenon DEF OpToRel
<1>2. PICK x \in S : \A y \in S : <<y, x>> \notin Less
  BY <1>1, WFMin
<1>3. ASSUME NEW y \in S PROVE x <= y
  <2>1. x \in Nat /\ y \in Nat /\ ~(y < x)
    BY <1>2
  <2> QED BY <2>1
<1> QED
  BY <1>3 DEF Min

(* Whatever the strategy, the backend selected is one of the available. *)
LEMMA SelectedIsBackend ==
  ASSUME conns \in [Backends -> Nat], Available # {}
  PROVE  Selected \subseteq Backends
<1>1. Available \subseteq Backends /\ Backends \subseteq Nat
  BY DEF Available, Alive, Backends
<1>2. Min(Available) \in Available
  BY <1>1, LeastExists
<1> DEFINE Loads   == {conns[b] : b \in Available}
           Freest == {b \in Available : \A x \in Available : conns[b] <= conns[x]}
<1>3. Min(Freest) \in Freest
  <2>1. Loads \subseteq Nat /\ Loads # {}
    BY <1>1
  <2>2. PICK b \in Available : conns[b] = Min(Loads)
    BY <2>1, LeastExists
  <2>3. b \in Freest
    BY <2>1, <2>2, LeastExists
  <2>4. Freest \subseteq Nat
    BY <1>1
  <2> HIDE DEF Freest
  <2> QED BY <2>3, <2>4, LeastExists
<1> QED
  BY <1>1, <1>2, <1>3 DEF Selected

-----------------------------------------------------------------------------
(* The steps of a connection. *)

LEMMA AcceptKeeps ==
  ASSUME IInv, NEW c \in Conns, Accept(c)
  PROVE  IInv'
<1>1. /\ conn[c].at = "none" /\ conn' = [conn EXCEPT ![c].at = "accepted"]
      /\ UNCHANGED <<up, trouble, alive, conns, checker>>
  BY DEF Accept, worldVars
<1>2. conn[c] \in [at : {"none", "accepted"}, b : {0}]
  BY <1>1 DEF IInv, RotationTypeOK, ConnRecords
<1>3. conn'[c].at = "accepted" /\ conn' \in [Conns -> ConnRecords]
      /\ \A d \in Conns : d # c => conn'[d] = conn[d]
  BY <1>1, <1>2 DEF IInv, RotationTypeOK, ConnRecords
<1> QED
  BY <1>1, <1>3 DEF IInv, RotationTypeOK, DownWasSeen, DeadWasDown

LEMMA SelectKeeps ==
  ASSUME IInv, NEW c \in Conns, SelectBackend(c)
  PROVE  IInv'
<1>1. UNCHANGED <<up, trouble, alive, conns, checker>>
  BY DEF SelectBackend, worldVars
<1>2. PICK r \in ConnRecords : conn' = [conn EXCEPT ![c] = r] /\ r.at # "failed"
  <2>1. CASE conn' = [conn EXCEPT ![c] = NoConn]
    <3>1. NoConn \in ConnRecords /\ NoConn.at # "failed"
      BY DEF NoConn, ConnRecords
    <3> QED BY <2>1, <3>1
  <2>2. CASE Available # {} /\ \E b \in Selected :
               conn' = [conn EXCEPT ![c] = [at |-> "chosen", b |-> b]]
    <3>1. PICK b \in Selected : conn' = [conn EXCEPT ![c] = [at |-> "chosen", b |-> b]]
      BY <2>2
    <3>2. b \in Backends
      BY <2>2, SelectedIsBackend DEF IInv, RotationTypeOK
    <3>3. PICK r : r = [at |-> "chosen", b |-> b]
      OBVIOUS
    <3>4. r \in ConnRecords /\ r.at # "failed"
      BY <3>2, <3>3 DEF ConnRecords
    <3> QED BY <3>1, <3>3, <3>4
  <2> QED BY <2>1, <2>2 DEF SelectBackend
<1> QED
  BY <1>1, <1>2 DEF IInv, RotationTypeOK, DownWasSeen, DeadWasDown

LEMMA DialledKeeps ==
  ASSUME IInv, NEW c \in Conns, Dialled(c)
  PROVE  IInv'
<1>1. /\ conn[c].at = "chosen" /\ conn' = [conn EXCEPT ![c].at = "open"]
      /\ conns' = [conns EXCEPT ![conn[c].b] = @ + 1]
      /\ UNCHANGED <<up, trouble, alive, checker>>
  BY DEF Dialled, worldVars
<1>2. conn[c] \in [at : {"chosen", "failed", "open"}, b : Backends]
  BY <1>1 DEF IInv, RotationTypeOK, ConnRecords
<1>3. /\ conn' \in [Conns -> ConnRecords] /\ conn'[c].at = "open"
      /\ \A d \in Conns : d # c => conn'[d] = conn[d]
  BY <1>1, <1>2 DEF IInv, RotationTypeOK, ConnRecords
<1>4. conns' \in [Backends -> Nat]
  BY <1>1, <1>2 DEF IInv, RotationTypeOK
<1> QED
  BY <1>1, <1>3, <1>4 DEF IInv, RotationTypeOK, DownWasSeen, DeadWasDown

(* The dial finds the backend down. *)
LEMMA DialFailsKeeps ==
  ASSUME IInv, NEW c \in Conns, DialFails(c)
  PROVE  IInv'
<1>1. /\ conn[c].at = "chosen" /\ ~up[conn[c].b]
      /\ conn' = [conn EXCEPT ![c].at = "failed"]
      /\ UNCHANGED <<up, trouble, alive, conns, checker>>
  BY DEF DialFails, worldVars
<1>2. conn[c] \in [at : {"chosen", "failed", "open"}, b : Backends]
  BY <1>1 DEF IInv, RotationTypeOK, ConnRecords
<1>3. /\ conn' \in [Conns -> ConnRecords] /\ conn'[c].b = conn[c].b
      /\ \A d \in Conns : d # c => conn'[d] = conn[d]
  BY <1>1, <1>2 DEF IInv, RotationTypeOK, ConnRecords
<1>4. conn[c].b \in trouble
  BY <1>1, <1>2 DEF IInv, DownWasSeen
<1> QED
  BY <1>1, <1>3, <1>4 DEF IInv, RotationTypeOK, DownWasSeen, DeadWasDown

(* It is marked down later, whatever has become of it. *)
LEMMA MarkKeeps ==
  ASSUME IInv, NEW c \in Conns, MarkBackendDown(c)
  PROVE  IInv'
<1>1. /\ conn[c].at = "failed" /\ conn' = [conn EXCEPT ![c] = NoConn]
      /\ alive' = [alive EXCEPT ![conn[c].b] = FALSE]
      /\ UNCHANGED <<up, trouble, conns, checker>>
  BY DEF MarkBackendDown, worldVars
<1>2. conn[c].b \in trouble
  BY <1>1 DEF IInv, DownWasSeen
<1>3. /\ conn' \in [Conns -> ConnRecords] /\ conn'[c].at = "none"
      /\ \A d \in Conns : d # c => conn'[d] = conn[d]
  BY <1>1 DEF IInv, RotationTypeOK, ConnRecords, NoConn
<1>4. DeadWasDown'
  BY <1>1, <1>2 DEF IInv, RotationTypeOK, DeadWasDown
<1>5. RotationTypeOK'
  BY <1>1, <1>3 DEF IInv, RotationTypeOK
<1> QED
  BY <1>1, <1>3, <1>4, <1>5 DEF IInv, DownWasSeen

(* Traffic: counters go up, and a connection may end. *)
LEMMA TrafficKeeps ==
  ASSUME IInv, UNCHANGED <<up, trouble, alive, conns>>,
         checker' \in CheckerStates,
         conn' = conn \/ \E c \in Conns : conn' = [conn EXCEPT ![c] = NoConn]
  PROVE  IInv'
<1>1. conn' \in [Conns -> ConnRecords]
  BY DEF IInv, RotationTypeOK, ConnRecords, NoConn
<1>2. \A c \in Conns : conn'[c] = conn[c] \/ conn'[c] = NoConn
  BY DEF IInv, RotationTypeOK
<1>3. DownWasSeen' /\ DeadWasDown'
  BY <1>2 DEF IInv, DownWasSeen, DeadWasDown, NoConn
<1> QED
  BY <1>1, <1>3 DEF IInv, RotationTypeOK

LEMMA ConnStepKeeps ==
  ASSUME IInv, NEW c \in Conns, ConnStep(c)
  PROVE  IInv'
<1>1. CASE Accept(c)
  BY <1>1, AcceptKeeps
<1>2. CASE EndsWithError(c)
  BY <1>2, TrafficKeeps DEF EndsWithError, worldVars, IInv, RotationTypeOK
<1>3. CASE EndsWithEof(c)
  BY <1>3, TrafficKeeps DEF EndsWithEof, worldVars, IInv, RotationTypeOK
<1>4. ASSUME NEW f \in Counters, PacketSniffed(c, f) PROVE IInv'
  BY <1>4, TrafficKeeps DEF PacketSniffed, worldVars, IInv, RotationTypeOK
<1> QED
  BY <1>1, <1>2, <1>3, <1>4 DEF ConnStep

-----------------------------------------------------------------------------
(* The steps of the checker. *)

LEMMA RacedEnds ==
  ASSUME NEW b, NEW s, NEW rounds, Raced(b, s, rounds)
  PROVE  conn' = conn \/ \E c \in Conns : conn' = [conn EXCEPT ![c] = NoConn]
BY DEF Raced

LEMMA NextIsBackend ==
  ASSUME checker \in CheckerStates, NextBackend
  PROVE  checker' \in CheckerStates
<1>1. checker.b \in Backends
  BY DEF CheckerStates
<1> QED
  BY <1>1, HealthAssumption DEF NextBackend, CheckerStates, Backends, Resting

(* The checker goes on with the backend it is at. *)
LEMMA SameBackend ==
  ASSUME checker \in CheckerStates, NEW w \in {"revive", "clear", "revived", "cleared"},
         checker' = [checker EXCEPT !.at = w]
  PROVE  checker' \in CheckerStates
BY DEF CheckerStates

LEMMA CheckerKeeps ==
  ASSUME IInv, CheckerStep
  PROVE  IInv'
<1> checker \in CheckerStates
  BY DEF IInv, RotationTypeOK
<1>1. CASE StartRound
  <2>1. 1 \in Backends
    BY HealthAssumption DEF Backends
  <2>2. checker' \in CheckerStates
    BY <1>1, <2>1 DEF StartRound, CheckerStates
  <2> QED BY <1>1, <2>2, TrafficKeeps DEF StartRound, worldVars
<1>2. CASE LookWell
  BY <1>2, NextIsBackend, TrafficKeeps DEF LookWell, worldVars
<1>3. CASE LookDead
  BY <1>3, SameBackend, TrafficKeeps DEF LookDead, worldVars
<1>4. CASE LookBad
  <2>1. UNCHANGED <<up, trouble, alive, conns>>
    BY <1>4 DEF LookBad, worldVars
  <2>2. conn' = conn \/ \E c \in Conns : conn' = [conn EXCEPT ![c] = NoConn]
    BY <1>4, RacedEnds DEF LookBad, Decay
  <2>3. NextBackend \/ checker' = [checker EXCEPT !.at = "clear"]
    BY <1>4 DEF LookBad
  <2>4. checker' \in CheckerStates
    BY <2>3, NextIsBackend, SameBackend
  <2> QED BY <2>1, <2>2, <2>4, TrafficKeeps
<1>5. CASE ProbeSucceeds
  <2>1. PICK w \in {"revived", "cleared"} : checker' = [checker EXCEPT !.at = w]
    BY <1>5 DEF ProbeSucceeds
  <2> QED BY <1>5, <2>1, SameBackend, TrafficKeeps DEF ProbeSucceeds, worldVars
<1>6. CASE ProbeFails
  BY <1>6, NextIsBackend, TrafficKeeps DEF ProbeFails, worldVars
<1>7. CASE Reset
  <2>1. UNCHANGED <<up, trouble, conns>>
    BY <1>7 DEF Reset, worldVars
  <2>2. conn' = conn \/ \E c \in Conns : conn' = [conn EXCEPT ![c] = NoConn]
    BY <1>7, RacedEnds DEF Reset
  <2>3. checker' \in CheckerStates
    BY <1>7, NextIsBackend DEF Reset
  <2>4. alive' \in [Backends -> BOOLEAN] /\ \A b \in Backends : alive[b] => alive'[b]
    BY <1>7 DEF Reset, IInv, RotationTypeOK
  <2>5. conn' \in [Conns -> ConnRecords] /\ \A c \in Conns : conn'[c] = conn[c] \/ conn'[c] = NoConn
    BY <2>2 DEF IInv, RotationTypeOK, ConnRecords, NoConn
  <2>6. RotationTypeOK'
    BY <2>1, <2>3, <2>4, <2>5 DEF IInv, RotationTypeOK
  <2>7. DownWasSeen' /\ DeadWasDown'
    BY <2>1, <2>4, <2>5 DEF IInv, DownWasSeen, DeadWasDown, NoConn
  <2> QED BY <2>6, <2>7 DEF IInv
<1> QED
  BY <1>1, <1>2, <1>3, <1>4, <1>5, <1>6, <1>7 DEF CheckerStep

-----------------------------------------------------------------------------
LEMMA WorldKeeps ==
  ASSUME IInv, NEW b \in Backends, QuietRound(b) \/ GoesDown(b) \/ ComesUp(b)
  PROVE  IInv'
<1>1. CASE QuietRound(b)
  BY <1>1, TrafficKeeps DEF QuietRound, worldVars, IInv, RotationTypeOK
<1>2. CASE GoesDown(b)
  BY <1>2 DEF GoesDown, IInv, RotationTypeOK, DownWasSeen, DeadWasDown
<1>3. CASE ComesUp(b)
  BY <1>3 DEF ComesUp, IInv, RotationTypeOK, DownWasSeen, DeadWasDown
<1> QED
  BY <1>1, <1>2, <1>3

LEMMA HealthInitHolds == HealthInit => IInv
<1>1. Resting \in CheckerStates
  BY HealthAssumption DEF Resting, CheckerStates, Backends
<1>2. NoConn \in ConnRecords /\ NoConn.at # "failed"
  BY DEF NoConn, ConnRecords
<1> QED
  BY <1>1, <1>2 DEF HealthInit, IInv, RotationTypeOK, DownWasSeen, DeadWasDown

LEMMA HealthStepHolds == IInv /\ [HealthNext]_healthVars => IInv'
<1> SUFFICES ASSUME IInv, [HealthNext]_healthVars PROVE IInv'
  OBVIOUS
<1>1. CASE CheckerStep
  BY <1>1, CheckerKeeps
<1>2. ASSUME NEW c \in Conns, ConnStep(c) PROVE IInv'
  BY <1>2, ConnStepKeeps
<1>3. ASSUME NEW c \in Conns, DialStep(c) PROVE IInv'
  BY <1>3, SelectKeeps, DialledKeeps, DialFailsKeeps, MarkKeeps DEF DialStep
<1>4. ASSUME NEW b \in Backends, QuietRound(b) \/ GoesDown(b) \/ ComesUp(b) PROVE IInv'
  BY <1>4, WorldKeeps
<1>5. CASE UNCHANGED healthVars
  BY <1>5, TrafficKeeps DEF healthVars, worldVars, IInv, RotationTypeOK
<1> QED
  BY <1>1, <1>2, <1>3, <1>4, <1>5 DEF HealthNext

(* A backend that is out of rotation has been unreachable at some time: no *)
(* traffic, no race of the checker with the connections and no strategy    *)
(* makes BackendAlive false by itself.                                     *)
THEOREM DeadBackendsWereDown == HealthSpec => []DeadWasDown
<1>1. IInv => DeadWasDown
  BY DEF IInv
<1>2. HealthSpec => []IInv
  BY HealthInitHolds, HealthStepHolds, PTL DEF HealthSpec
<1> QED BY <1>1, <1>2, PTL
=============================================================================
