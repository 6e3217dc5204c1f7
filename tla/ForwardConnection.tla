--------------------------- MODULE ForwardConnection ---------------------------
(***************************************************************************)
(* One connection through the gateway: handleConnection from the first     *)
(* read to the end, with its two copying goroutines, between a client and  *)
(* a backend that send, shut down and close when they like.                *)
(*                                                                         *)
(* "c" is the client's side of the gateway and "b" the backend's.  Bytes   *)
(* travel in packets, numbered per sender; a read returns some packets of  *)
(* the socket's buffer, a write hands them on one by one as there is room. *)
(* A read that times out after 100 ms changes nothing and is no step.      *)
(*                                                                         *)
(* TCP is external.  A peer that closes is seen as EOF behind what it has  *)
(* sent; the first write to it is accepted and answered by a reset; later  *)
(* writes fail, and so does a read, which may lose what it had not read.   *)
(***************************************************************************)
EXTENDS Integers, Sequences, SequencesExt, FiniteSets

CONSTANTS
  MaxPackets,      \* bound: packets each end sends
  Room,            \* bound: packets a socket buffer holds
  Nacks,           \* which packets of the backend are LOGIN_NACKs
  BackendReads     \* whether the backend reads all it is sent, as far as it is alive

ASSUME ForwardAssumption ==
  /\ MaxPackets \in Nat
  /\ Room \in Nat \ {0}
  /\ Nacks \subseteq 1 .. MaxPackets
  /\ BackendReads \in BOOLEAN

Sides == {"c", "b"}
Far(s) == IF s = "c" THEN "b" ELSE "c"

VARIABLES
  peer,      \* per side: the other end of the socket
  sent,      \* per side: how many packets the peer has sent
  inbuf,     \* per side: packets the gateway has not read yet
  outbuf,    \* per side: packets written, not read by the peer yet
  got,       \* per side: packets the peer has read
  closed,    \* per side: the gateway has closed the socket
  reset,     \* per side: the socket was reset by the peer
  stage,     \* of handleConnection
  first,     \* firstBuf: what the sniffing read returned
  copier,    \* per side: the goroutine that reads there and writes to the far side
  stats      \* what was recorded in ProtoStats: timeouts and LOGIN_NACKs

peerVars == <<peer, sent, got>>
sockVars == <<inbuf, outbuf, closed, reset>>
gateVars == <<stage, first, copier, stats>>
vars     == <<peerVars, sockVars, gateVars>>

Packets == Seq(1 .. MaxPackets)

TypeOK ==
  /\ peer \in [Sides -> {"idle", "open", "shut", "gone"}]
  /\ sent \in [Sides -> 0 .. MaxPackets]
  /\ inbuf \in [Sides -> Packets]
  /\ outbuf \in [Sides -> Packets]
  /\ \A s \in Sides : Len(inbuf[s]) <= Room /\ Len(outbuf[s]) <= Room
  /\ got \in [Sides -> Packets]
  /\ closed \in [Sides -> BOOLEAN]
  /\ reset \in [Sides -> BOOLEAN]
  /\ stage \in {"sniff", "filter", "first", "copy", "done"}
  /\ first \in Packets
  /\ copier \in [Sides -> [at : {"none", "read", "write", "ended"}, buf : Packets]]
  /\ stats \in [timeouts : Nat, nacks : Nat]

Init ==
  /\ peer   = [c |-> "open", b |-> "idle"]
  /\ sent   = [s \in Sides |-> 0]
  /\ inbuf  = [s \in Sides |-> <<>>]
  /\ outbuf = [s \in Sides |-> <<>>]
  /\ got    = [s \in Sides |-> <<>>]
  /\ closed = [s \in Sides |-> FALSE]
  /\ reset  = [s \in Sides |-> FALSE]
  /\ stage  = "sniff"
  /\ first  = <<>>
  /\ copier = [s \in Sides |-> [at |-> "none", buf |-> <<>>]]
  /\ stats  = [timeouts |-> 0, nacks |-> 0]

-----------------------------------------------------------------------------
(* The ends of the connection. *)

PeerSends(s) ==
  /\ peer[s] = "open" /\ ~closed[s]
  /\ sent[s] < MaxPackets /\ Len(inbuf[s]) < Room
  /\ sent'  = [sent EXCEPT ![s] = @ + 1]
  /\ inbuf' = [inbuf EXCEPT ![s] = Append(@, sent[s] + 1)]
  /\ UNCHANGED <<peer, got, outbuf, closed, reset, gateVars>>

PeerReads(s) ==
  /\ peer[s] \in {"open", "shut"}
  /\ outbuf[s] # <<>>
  /\ got'    = [got EXCEPT ![s] = Append(@, Head(outbuf[s]))]
  /\ outbuf' = [outbuf EXCEPT ![s] = Tail(@)]
  /\ UNCHANGED <<peer, sent, inbuf, closed, reset, gateVars>>

(* The client has no more to say and still listens. *)
ClientShuts ==
  /\ peer["c"] = "open"
  /\ peer' = [peer EXCEPT !["c"] = "shut"]
  /\ UNCHANGED <<sent, got, sockVars, gateVars>>

PeerCloses(s) ==
  /\ peer[s] \in {"open", "shut"}
  /\ peer'   = [peer EXCEPT ![s] = "gone"]
  /\ outbuf' = [outbuf EXCEPT ![s] = <<>>]
  /\ UNCHANGED <<sent, got, inbuf, closed, reset, gateVars>>

-----------------------------------------------------------------------------
(* A read takes n packets, of one or more messages: TCP keeps no borders. *)
Take(s, n) == inbuf' = [inbuf EXCEPT ![s] = SubSeq(@, n + 1, Len(@))]

AtEof(s)    == inbuf[s] = <<>> /\ peer[s] \in {"shut", "gone"} /\ ~reset[s]
ReadFails(s) == closed[s] \/ reset[s]

(* One packet written to side s: there is room, or nobody left to read it. *)
Accepts(s) ==
  /\ ~closed[s] /\ ~reset[s]
  /\ peer[s] = "gone" \/ Len(outbuf[s]) < Room

Write(s, p) ==
  /\ Accepts(s)
  /\ IF peer[s] = "gone"
     THEN reset' = [reset EXCEPT ![s] = TRUE] /\ UNCHANGED outbuf
     ELSE outbuf' = [outbuf EXCEPT ![s] = Append(@, p)] /\ UNCHANGED reset

WriteFails(s) == closed[s] \/ reset[s]

Close(ss) == closed' = [s \in Sides |-> closed[s] \/ s \in ss]

-----------------------------------------------------------------------------
(* handleConnection up to the copying. *)

(* Step 1: at most 200 ms for the first read; no error of it is looked at. *)
Sniff(n) ==
  /\ stage = "sniff"
  /\ n <= Len(inbuf["c"])
  /\ n = 0 => inbuf["c"] = <<>>
  /\ first' = SubSeq(inbuf["c"], 1, n)
  /\ Take("c", n)
  /\ stage' = "filter"
  /\ UNCHANGED <<peerVars, outbuf, closed, reset, copier, stats>>

(* Step 2, and the failures of step 3: the connection ends here. *)
TurnAway ==
  /\ stage = "filter"
  /\ stage' = "done"
  /\ Close({"c"})
  /\ UNCHANGED <<peerVars, inbuf, outbuf, reset, first, copier, stats>>

(* Dial, dropping what was sniffed. *)
DialForgetting ==
  /\ stage = "filter"
  /\ stage' = "first"
  /\ first' = <<>>
  /\ peer'  = [peer EXCEPT !["b"] = "open"]
  /\ UNCHANGED <<sent, got, sockVars, copier, stats>>

Dial ==
  /\ stage = "filter"
  /\ stage' = "first"
  /\ peer'  = [peer EXCEPT !["b"] = "open"]
  /\ UNCHANGED <<sent, got, sockVars, first, copier, stats>>

(* Step 4: what was sniffed goes to the backend before anything else. *)
WriteFirst ==
  /\ stage = "first"
  /\ first # <<>>
  /\ Write("b", Head(first))
  /\ first' = Tail(first)
  /\ UNCHANGED <<peerVars, inbuf, closed, stage, copier, stats>>

WriteFirstFails ==
  /\ stage = "first"
  /\ first # <<>>
  /\ WriteFails("b")
  /\ stage' = "done"
  /\ Close(Sides)
  /\ UNCHANGED <<peerVars, inbuf, outbuf, reset, first, copier, stats>>

(* StartCopying, before the sniffed bytes are out. *)
StartCopyingEarly ==
  /\ stage = "first"
  /\ stage'  = "copy"
  /\ copier' = [s \in Sides |-> [at |-> "read", buf |-> <<>>]]
  /\ UNCHANGED <<peerVars, sockVars, first, stats>>

(* StartCopying, from the client to the backend only. *)
StartCopyingOneWay ==
  /\ stage = "first"
  /\ first = <<>>
  /\ stage'  = "copy"
  /\ copier' = [copier EXCEPT !["c"].at = "read"]
  /\ UNCHANGED <<peerVars, sockVars, first, stats>>

(* Step 5: the two goroutines. *)
StartCopying ==
  /\ stage = "first"
  /\ first = <<>>
  /\ stage'  = "copy"
  /\ copier' = [s \in Sides |-> [at |-> "read", buf |-> <<>>]]
  /\ UNCHANGED <<peerVars, sockVars, first, stats>>

(* Finish, waiting for one of the goroutines. *)
FinishEarly ==
  /\ stage = "copy"
  /\ \E s \in Sides : copier[s].at = "ended"
  /\ stage' = "done"
  /\ Close(Sides)
  /\ UNCHANGED <<peerVars, inbuf, outbuf, reset, first, copier, stats>>

Finish ==
  /\ stage = "copy"
  /\ \A s \in Sides : copier[s].at = "ended"
  /\ stage' = "done"
  /\ Close(Sides)
  /\ UNCHANGED <<peerVars, inbuf, outbuf, reset, first, copier, stats>>

-----------------------------------------------------------------------------
(* copyAndSniffClient (s = "c") and copyAndSniffBackend (s = "b"). *)

(* sniffBackendResponse looks at the first packet of a read only. *)
NacksSeen(s, p) == IF s = "b" /\ p \in Nacks THEN 1 ELSE 0

CopyRead(s, n) ==
  /\ copier[s].at = "read"
  /\ ~closed[s]
  /\ n \in 1 .. Len(inbuf[s])
  /\ copier' = [copier EXCEPT ![s] = [at |-> "write", buf |-> SubSeq(inbuf[s], 1, n)]]
  /\ Take(s, n)
  /\ stats' = [stats EXCEPT !.nacks = @ + NacksSeen(s, Head(inbuf[s]))]
  /\ UNCHANGED <<peerVars, outbuf, closed, reset, stage, first>>

CopyWrite(s) ==
  /\ copier[s].at = "write"
  /\ Write(Far(s), Head(copier[s].buf))
  /\ copier' = [copier EXCEPT ![s] =
                  LET rest == Tail(@.buf) IN
                  [at |-> IF rest = <<>> THEN "read" ELSE "write", buf |-> rest]]
  /\ UNCHANGED <<peerVars, inbuf, closed, stage, first, stats>>

(* Return, without the defer. *)
ReturnQuietly(s) ==
  /\ copier' = [copier EXCEPT ![s] = [at |-> "ended", buf |-> <<>>]]
  /\ UNCHANGED closed

(* The goroutine returns and, by its defer, closes the far socket. *)
Return(s) ==
  /\ copier' = [copier EXCEPT ![s] = [at |-> "ended", buf |-> <<>>]]
  /\ Close({Far(s)})

(* The read fails: EOF ends the goroutine quietly, any other error is      *)
(* recorded as a timeout when it comes from the backend's socket.          *)
CopyReadFails(s) ==
  /\ copier[s].at = "read"
  /\ AtEof(s) \/ ReadFails(s)
  /\ Return(s)
  /\ stats' = [stats EXCEPT !.timeouts = @ + IF s = "b" /\ ReadFails(s) THEN 1 ELSE 0]
  /\ UNCHANGED <<peerVars, inbuf, outbuf, reset, stage, first>>

CopyWriteFails(s) ==
  /\ copier[s].at = "write"
  /\ WriteFails(Far(s))
  /\ Return(s)
  /\ UNCHANGED <<peerVars, inbuf, outbuf, reset, stage, first, stats>>

-----------------------------------------------------------------------------
CopyStep(s) ==
  \/ \E n \in 1 .. Room : CopyRead(s, n)
  \/ CopyWrite(s) \/ CopyReadFails(s) \/ CopyWriteFails(s)

HandlerStep ==
  \/ \E n \in 0 .. Room : Sniff(n)
  \/ TurnAway \/ Dial \/ WriteFirst \/ WriteFirstFails \/ StartCopying \/ Finish

PeerStep(s) == PeerSends(s) \/ PeerReads(s) \/ PeerCloses(s)

Next ==
  \/ HandlerStep
  \/ \E s \in Sides : CopyStep(s) \/ PeerStep(s)
  \/ ClientShuts

(* The goroutines are scheduled, and a connected end reads what it is sent *)
(* for as long as it is there.                                             *)
Fairness ==
  /\ WF_vars(HandlerStep)
  /\ \A s \in Sides : WF_vars(CopyStep(s))
  /\ WF_vars(PeerReads("c"))
  /\ BackendReads => WF_vars(PeerReads("b"))

Spec == Init /\ [][Next]_vars /\ Fairness

-----------------------------------------------------------------------------
(* Properties. *)

UpTo(n) == [i \in 1 .. n |-> i]

Talking == stage \in {"first", "copy"} /\ \A s \in Sides : peer[s] = "open"

(* The packets of side s's peer that are somewhere on their way, oldest    *)
(* first: read by the other end, in its socket, in the gateway, unread.    *)
OnTheWay(s) ==
  got[Far(s)] \o outbuf[Far(s)] \o (IF s = "c" THEN first ELSE <<>>)
    \o copier[s].buf \o inbuf[s]

(* README.md:19-20: forwarding loses nothing, repeats nothing and keeps the *)
(* order, in both directions, for as long as both ends are connected; the  *)
(* bytes that were sniffed before the backend was known are no exception.  *)
Lossless == Talking => \A s \in Sides : OnTheWay(s) = UpTo(sent[s])

(* Whatever happens to the connection, an end only ever reads a beginning  *)
(* of what the other has sent: no hole, no reordering, no repetition.      *)
OnlyPrefixes ==
  \A s \in Sides : got[Far(s)] = UpTo(Len(got[Far(s)])) /\ Len(got[Far(s)]) <= sent[s]

(* When the handler has returned both sockets are closed, and while one of *)
(* its goroutines runs on it has not returned.                             *)
NoLeak ==
  stage = "done" =>
    /\ closed["c"]
    /\ peer["b"] # "idle" => closed["b"]
    /\ \A s \in Sides : copier[s].at \in {"none", "ended"}

(* proxy.go:282-298: when either end goes, the handler returns, its other  *)
(* goroutine included.                                                     *)
HandlerEnds == (\E s \in Sides : peer[s] = "gone") ~> (stage = "done")

(* Between two ends that stay, all that is sent arrives. *)
AllArrives ==
  \A s \in Sides, n \in 1 .. MaxPackets :
    (sent[s] >= n) ~> (Len(got[Far(s)]) >= n \/ stage = "done" \/ \E p \in Sides : peer[p] # "open")

(* README.md:19-20: what the backend said before it closed reaches a      *)
(* client that is still there.                                             *)
LastWords ==
  stage = "done" /\ peer["c"] = "open" /\ peer["b"] = "gone" =>
    got["c"] \o outbuf["c"] = UpTo(sent["b"])

(* README.md:19-20: duplex and transparent: a client that has finished     *)
(* sending still gets the backend's answer.                                *)
HalfCloseServed == closed["b"] => peer["c"] = "gone" \/ peer["b"] = "gone"

(* proxy.go:350-352, protocol.go:TotalBackendTimeouts: a timeout is        *)
(* recorded for a failure of the backend, not for a connection that ended. *)
TimeoutMeansTrouble == stats.timeouts > 0 => reset["b"]

(* README.md:395: every LOGIN_NACK of the backend is detected. *)
NacksCounted ==
  LET passed == Head(inbuf["b"] \o <<sent["b"] + 1>>) - 1 IN
  stats.nacks = Cardinality(Nacks \cap 1 .. passed)

(* config.go:19: reads and writes of a connection have a time limit, so a  *)
(* backend that has stopped reading does not keep it for ever.             *)
HungBackendLetsGo == (peer["c"] = "gone") ~> (stage = "done")
=============================================================================
