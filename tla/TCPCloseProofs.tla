--------------------------- MODULE TCPCloseProofs ---------------------------
(***************************************************************************)
(* Theorems about TCPClose, for any number of bytes, retransmissions,      *)
(* callbacks, losses and resets: type correctness, that FIN_WAIT_2 means   *)
(* the FIN was taken in, and that the end of the stream is the end of the  *)
(* data of a sequential application.                                       *)
(***************************************************************************)
EXTENDS TCPClose, SequenceTheorems, WellFoundedInduction, TLAPS

-----------------------------------------------------------------------------
(* The inductive invariant *)

Entry == [seq : Nat, len : {0, 1}, numRetransmits : Nat]
SocketEntry ==
    [state : States, una : Nat, nxt : Nat, lbw : Nat, isProbing : BOOLEAN, queue : Seq(Entry),
     rto : BOOLEAN, callbacks : Nat, rcvNxt : Nat, fin : Nat, early : [Seqs -> Nat],
     timeWait : BOOLEAN, torn : BOOLEAN, panicked : BOOLEAN]
CloserSteps == {"idle", "drain", "send", "queue", "advance", "state", "FIN_WAIT_1", "LAST_ACK", "done"}

Typed ==
    /\ sock \in [Hosts -> SocketEntry]
    /\ closer \in [Hosts -> CloserSteps]
    /\ ip \in [Hosts -> {"idle", "fin", "CLOSE_WAIT"}]
    /\ net \in [Hosts -> SUBSET Packets]
    /\ losses \in 0..MaxLoss /\ rsts \in 0..MaxRst
    /\ consumed \in [Hosts -> BOOLEAN]

\* No byte has a sequence number of Limit or more.
Limit == ISN + MaxData

\* sendFin has sent the FIN, and has moved nxt over it.
FinSent(h) == closer[h] \notin {"idle", "drain", "send"}
FinCounted(h) == closer[h] \in {"state", "FIN_WAIT_1", "LAST_ACK", "done"}

\* A segment of the queue is retransmitted while the connection is up, and once more.
QueueInv(s) ==
    ~s.panicked => \A i \in 1..Len(s.queue) :
        /\ s.queue[i].numRetransmits <= MaxRetrans + 1
        /\ ~s.torn => s.queue[i].numRetransmits <= MaxRetrans
SocketInv(h) ==
    /\ sock[h].una <= sock[h].nxt /\ sock[h].callbacks <= MaxCallbacks /\ sock[h].lbw < Limit
    /\ sock[h].isProbing => ProbedBefore
    /\ QueueInv(sock[h])
    /\ sock[h].state = "FIN_WAIT_1" => closer[h] = "done"
    /\ sock[h].state = "FIN_WAIT_2" => consumed[Peer(h)]

\* Byte k, or a FIN with the number k, has left h: it is in the queue, under way, or
\* waits at the peer for the bytes before it.
Queued(q, len, k) == \E i \in 1..Len(q) : q[i].len = len /\ q[i].seq = k
UnderWay(h, type, k) == \E m \in net[Peer(h)] : m.type = type /\ m.seq = k
ByteOut(h, k) ==
    \/ Queued(sock[h].queue, 1, k)
    \/ UnderWay(h, "DATA", k)
    \/ k \in Seqs /\ sock[Peer(h)].early[k] > 0
FinOut(h, k) ==
    \/ Queued(sock[h].queue, 0, k)
    \/ UnderWay(h, "FIN", k)
    \/ k # 0 /\ sock[Peer(h)].fin = k

\* A byte is out only after it has been written and counted.
DataInv(h) == \A k \in Nat : ByteOut(h, k) => k < sock[h].nxt /\ k <= sock[h].lbw

\* What acknowledges data of h acknowledges no more than the peer has taken in.
AcksInv(h) == \A m \in net[h] : m.type \in {"ACK", "FIN"} => m.ack <= sock[Peer(h)].rcvNxt

\* As long as the FIN has not been taken in, the peer is not beyond the number that
\* the FIN has used up of nxt: no byte is in its place.
GapInv(h) ==
    ~consumed[Peer(h)] =>
      IF FinCounted(h)
      THEN \E g \in Nat : g < sock[h].nxt /\ sock[Peer(h)].rcvNxt <= g /\ ~ByteOut(h, g)
      ELSE sock[Peer(h)].rcvNxt <= sock[h].nxt

\* The number of the FIN is at most one beyond the last byte's.
FinLimit(h) == IF closer[h] = "queue" THEN Limit ELSE Limit + 1
FinInv(h) ==
    /\ ~FinSent(h) => ~consumed[Peer(h)] /\ sock[h].nxt <= Limit /\ \A n \in Nat : ~FinOut(h, n)
    /\ closer[h] = "queue" => sock[h].nxt <= Limit + 1
    /\ \A n \in Nat : FinOut(h, n) => n <= FinLimit(h)
    /\ sock[Peer(h)].rcvNxt <= FinLimit(h) + 1

\* An application that does not call VWrite during VClose, and no probe before it: the
\* FIN has the number after the last byte.
Sequential == ~ConcurrentWriter /\ ~ProbedBefore
Draining(h) == closer[h] \in {"idle", "drain"}
StreamInv(h) ==
    /\ IF FinCounted(h) THEN sock[h].nxt = sock[h].lbw + 2
       ELSE IF Draining(h) THEN sock[h].nxt <= sock[h].lbw + 1
       ELSE sock[h].nxt = sock[h].lbw + 1
    /\ \A n \in Nat : FinOut(h, n) => n = sock[h].lbw + 1
    /\ consumed[Peer(h)] => sock[Peer(h)].rcvNxt = sock[h].lbw + 2
OrderInv(h) == Sequential => StreamInv(h)

\* What holds of the bytes and of the FIN that h sends to its peer.
DirectionInv(h) == DataInv(h) /\ AcksInv(h) /\ GapInv(h) /\ FinInv(h) /\ OrderInv(h)

CloseInv == Typed /\ \A h \in Hosts : SocketInv(h) /\ DirectionInv(h)

-----------------------------------------------------------------------------
(* Hosts, packets and the types *)

LEMMA PeerFacts ==
    ASSUME NEW h \in Hosts
    PROVE  /\ Peer(h) \in Hosts /\ Peer(h) # h /\ Peer(Peer(h)) = h
           /\ \A g \in Hosts : g = h \/ g = Peer(h)
BY DEF Hosts, Peer

LEMMA Bounds == /\ MaxRetrans \in Nat /\ MaxData \in Nat /\ MaxCallbacks \in Nat
                /\ MaxLoss \in Nat /\ MaxRst \in Nat /\ Limit \in Nat
                /\ Limit = MaxData + 1 /\ Seqs = 1..Limit
BY CloseAssumption DEF Limit, ISN, Seqs

\* A packet that is under way and the numbers in it.
LEMMA PacketFacts ==
    ASSUME NEW m \in Packets
    PROVE  /\ m.type \in {"DATA", "FIN", "ACK", "RST"}
           /\ m.type \in {"DATA", "FIN"} => m.seq \in Nat /\ m.seq <= Limit + 2
           /\ m.type \in {"ACK", "FIN"} => m.ack \in Nat /\ m.ack <= Limit + 2
           /\ m.type = "RST" => m = RstSeg
BY Bounds DEF Packets, DataSeg, AckSeg, RstSeg, Limit

LEMMA PacketTypes ==
    ASSUME NEW i \in Nat, i <= Limit + 2, NEW s \in SocketEntry, s.rcvNxt <= Limit + 2
    PROVE  /\ DataSeg(i) \in Packets /\ AckSeg(i) \in Packets
           /\ FinSeg(s, i) \in Packets /\ RstSeg \in Packets
BY Bounds DEF Packets, DataSeg, AckSeg, RstSeg, FinSeg, Limit, SocketEntry

\* The least member of a set of numbers.
LEMMA Least ==
    ASSUME NEW T \in SUBSET Nat, NEW n \in T
    PROVE  \E x \in T : \A y \in T : x <= y
<1> DEFINE R == OpToRel(<, Nat)
<1>1. \A x, y \in Nat : x < y => <<x, y>> \in R
  BY DEF OpToRel
<1>2. IsWellFoundedOn(R, Nat)
  BY NatLessThanWellFounded
<1> HIDE DEF R
<1>3. PICK x \in T : \A y \in T : ~(<<y, x>> \in R)
  <2>1. T \subseteq Nat /\ T # {}
    OBVIOUS
  <2> QED BY <1>2, <2>1, WFMin
<1>4. \A y \in T : x \in Nat /\ y \in Nat
  OBVIOUS
<1>5. \A y \in T : ~(y < x)
  <2> TAKE y \in T
  <2>1. ~(<<y, x>> \in R)
    BY <1>3
  <2> QED BY <1>1, <1>4, <2>1
<1> QED BY <1>4, <1>5

LEMMA InvariantTypes == CloseInv => TypeOK
<1> SUFFICES ASSUME CloseInv PROVE TypeOK
  OBVIOUS
<1>1. ASSUME NEW h \in Hosts
      PROVE  LET s == sock[h] IN
             /\ s.state \in States
             /\ s.una \in Nat /\ s.nxt \in Nat /\ s.lbw \in Nat /\ s.rcvNxt \in Nat
             /\ s.una <= s.nxt
             /\ s.callbacks \in 0..MaxCallbacks
             /\ s.panicked \/ \A i \in 1..Len(s.queue) : s.queue[i].numRetransmits \in 0..(MaxRetrans + 1)
  <2>1. sock[h] \in SocketEntry /\ SocketInv(h)
    BY DEF CloseInv, Typed
  <2>2. \A i \in 1..Len(sock[h].queue) : sock[h].queue[i].numRetransmits \in Nat
    <3>1. sock[h].queue \in Seq(Entry)
      BY <2>1 DEF SocketEntry
    <3>2. \A i \in 1..Len(sock[h].queue) : sock[h].queue[i] \in Entry
      BY <3>1
    <3> QED BY <3>2 DEF Entry
  <2>3. ~sock[h].panicked => \A i \in 1..Len(sock[h].queue) : sock[h].queue[i].numRetransmits <= MaxRetrans + 1
    BY <2>1 DEF SocketInv, QueueInv
  <2>4. sock[h].callbacks \in Nat /\ sock[h].callbacks <= MaxCallbacks
    BY <2>1 DEF SocketInv, SocketEntry
  <2> QED BY <2>1, <2>2, <2>3, <2>4, Bounds DEF SocketInv, SocketEntry
<1> QED BY <1>1 DEF TypeOK, CloseInv, Typed, CloserSteps

-----------------------------------------------------------------------------
(* What a step that leaves a part alone keeps of the invariant *)

LEMMA DirectionKept ==
    ASSUME CloseInv, NEW h \in Hosts,
           sock'[h].nxt = sock[h].nxt, sock'[h].lbw \in Nat, sock[h].lbw <= sock'[h].lbw,
           FinSent(h)' <=> FinSent(h), FinCounted(h)' <=> FinCounted(h),
           (closer'[h] = "queue") <=> (closer[h] = "queue"),
           \/ OrderInv(h)'
           \/ sock'[h].lbw = sock[h].lbw /\ (Draining(h)' <=> Draining(h)),
           sock'[Peer(h)].rcvNxt = sock[Peer(h)].rcvNxt, consumed'[Peer(h)] = consumed[Peer(h)],
           \A k \in Nat : (ByteOut(h, k)' => ByteOut(h, k)) /\ (FinOut(h, k)' => FinOut(h, k)),
           \A m \in net'[h] : m \in net[h] \/ (m.type \in {"ACK", "FIN"} => m.ack <= sock[Peer(h)].rcvNxt)
    PROVE  DirectionInv(h)'
<1>1. DataInv(h) /\ AcksInv(h) /\ GapInv(h) /\ FinInv(h) /\ OrderInv(h)
  BY DEF CloseInv, DirectionInv
<1>2. sock[h].lbw \in Nat /\ sock[h].nxt \in Nat
  BY DEF CloseInv, Typed, SocketEntry
<1>3. DataInv(h)'
  BY <1>1, <1>2 DEF DataInv
<1>4. AcksInv(h)'
  BY <1>1 DEF AcksInv
<1>5. GapInv(h)'
  BY <1>1 DEF GapInv
<1>6. FinInv(h)'
  BY <1>1 DEF FinInv, FinLimit
<1>7. OrderInv(h)'
  BY <1>1 DEF OrderInv, StreamInv
<1> QED BY <1>3, <1>4, <1>5, <1>6, <1>7 DEF DirectionInv

\* What is out of h depends on its queue, what is under way to the peer, and what the
\* peer remembers.
LEMMA OutKept ==
    ASSUME NEW h \in Hosts, sock'[h].queue = sock[h].queue,
           sock'[Peer(h)].early = sock[Peer(h)].early, sock'[Peer(h)].fin = sock[Peer(h)].fin,
           \A m \in net'[Peer(h)] : m \in net[Peer(h)] \/ m.type \notin {"DATA", "FIN"}
    PROVE  \A k \in Nat : (ByteOut(h, k)' => ByteOut(h, k)) /\ (FinOut(h, k)' => FinOut(h, k))
BY DEF ByteOut, FinOut, UnderWay, Queued

\* A step of h that sends at most a reset and takes in nothing.
QuietStep(h) ==
    /\ sock'[Peer(h)] = sock[Peer(h)] /\ closer'[Peer(h)] = closer[Peer(h)]
    /\ sock'[h].nxt = sock[h].nxt /\ sock'[h].lbw \in Nat /\ sock[h].lbw <= sock'[h].lbw
    /\ sock'[h].queue = sock[h].queue /\ sock'[h].early = sock[h].early
    /\ sock'[h].fin = sock[h].fin /\ sock'[h].rcvNxt = sock[h].rcvNxt
    /\ FinSent(h)' <=> FinSent(h)
    /\ FinCounted(h)' <=> FinCounted(h)
    /\ (closer'[h] = "queue") <=> (closer[h] = "queue")
    /\ \/ OrderInv(h)'
       \/ sock'[h].lbw = sock[h].lbw /\ (Draining(h)' <=> Draining(h))
    /\ consumed' = consumed
    /\ \A g \in Hosts : net'[g] \subseteq net[g] \cup {RstSeg}

LEMMA QuietKeeps ==
    ASSUME CloseInv, NEW h \in Hosts, QuietStep(h)
    PROVE  DirectionInv(h)' /\ DirectionInv(Peer(h))'
<1>1. Peer(h) \in Hosts /\ Peer(Peer(h)) = h
  BY PeerFacts
<1>2. \A g \in Hosts : \A m \in net'[g] : m \in net[g] \/ m.type = "RST"
  BY DEF QuietStep, RstSeg
<1>3. sock[Peer(h)].lbw \in Nat
  BY <1>1 DEF CloseInv, Typed, SocketEntry
<1>4. \A k \in Nat : (ByteOut(h, k)' => ByteOut(h, k)) /\ (FinOut(h, k)' => FinOut(h, k))
  BY <1>1, <1>2, OutKept DEF QuietStep
<1>5. \A k \in Nat : /\ ByteOut(Peer(h), k)' => ByteOut(Peer(h), k)
                     /\ FinOut(Peer(h), k)' => FinOut(Peer(h), k)
  BY <1>1, <1>2, OutKept DEF QuietStep
<1>6. DirectionInv(h)'
  BY <1>1, <1>2, <1>4, DirectionKept DEF QuietStep
<1>7. DirectionInv(Peer(h))'
  <2>1. /\ FinSent(Peer(h))' <=> FinSent(Peer(h))
        /\ FinCounted(Peer(h))' <=> FinCounted(Peer(h))
        /\ (closer'[Peer(h)] = "queue") <=> (closer[Peer(h)] = "queue")
        /\ Draining(Peer(h))' <=> Draining(Peer(h))
    BY DEF QuietStep, FinSent, FinCounted, Draining
  <2> QED BY <1>1, <1>2, <1>3, <1>5, <2>1, DirectionKept DEF QuietStep
<1> QED BY <1>6, <1>7

\* A step in which h takes in nothing of the peer's keeps what holds of the peer's
\* direction, if it acknowledges no more than h has taken in.
LEMMA PeerDirectionKept ==
    ASSUME CloseInv, NEW h \in Hosts,
           sock'[Peer(h)] = sock[Peer(h)], closer'[Peer(h)] = closer[Peer(h)],
           sock'[h].early = sock[h].early, sock'[h].fin = sock[h].fin,
           sock'[h].rcvNxt = sock[h].rcvNxt, consumed' = consumed, net'[h] \subseteq net[h],
           \A m \in net'[Peer(h)] : \/ m \in net[Peer(h)]
                                    \/ m.type \in {"ACK", "FIN"} => m.ack <= sock[h].rcvNxt
    PROVE  DirectionInv(Peer(h))'
<1>1. Peer(h) \in Hosts /\ Peer(Peer(h)) = h
  BY PeerFacts
<1>2. sock[Peer(h)].lbw \in Nat
  BY <1>1 DEF CloseInv, Typed, SocketEntry
<1>3. \A k \in Nat : /\ ByteOut(Peer(h), k)' => ByteOut(Peer(h), k)
                     /\ FinOut(Peer(h), k)' => FinOut(Peer(h), k)
  BY <1>1, OutKept
<1>4. /\ FinSent(Peer(h))' <=> FinSent(Peer(h))
      /\ FinCounted(Peer(h))' <=> FinCounted(Peer(h))
      /\ (closer'[Peer(h)] = "queue") <=> (closer[Peer(h)] = "queue")
      /\ Draining(Peer(h))' <=> Draining(Peer(h))
  BY DEF FinSent, FinCounted, Draining
<1> QED BY <1>1, <1>2, <1>3, <1>4, DirectionKept

LEMMA PeerSocketKept ==
    ASSUME CloseInv, NEW h \in Hosts,
           sock'[Peer(h)] = sock[Peer(h)], closer'[Peer(h)] = closer[Peer(h)],
           consumed[h] => consumed'[h]
    PROVE  SocketInv(Peer(h))'
<1>1. Peer(h) \in Hosts /\ Peer(Peer(h)) = h
  BY PeerFacts
<1>2. SocketInv(Peer(h))
  BY <1>1 DEF CloseInv
<1> QED BY <1>1, <1>2 DEF SocketInv, QueueInv

\* What holds of both hosts holds of a host and of its peer.
LEMMA BothHosts ==
    ASSUME NEW h \in Hosts, Typed', SocketInv(h)', SocketInv(Peer(h))',
           DirectionInv(h)', DirectionInv(Peer(h))'
    PROVE  CloseInv'
<1>1. \A g \in Hosts : g = h \/ g = Peer(h)
  BY PeerFacts
<1>2. ASSUME NEW g \in Hosts PROVE SocketInv(g)' /\ DirectionInv(g)'
  BY <1>1, <1>2
<1> QED BY <1>2 DEF CloseInv

-----------------------------------------------------------------------------
(* Steps that send at most a reset and take in nothing *)

LEMMA QuietEnds ==
    ASSUME CloseInv, NEW h \in Hosts, QuietStep(h), Typed', SocketInv(h)'
    PROVE  CloseInv'
<1>1. SocketInv(Peer(h))'
  BY PeerSocketKept DEF QuietStep
<1>2. DirectionInv(h)' /\ DirectionInv(Peer(h))'
  BY QuietKeeps
<1> QED BY <1>1, <1>2, BothHosts

\* What teardown and closed change of a socket.
LEMMA ClosedFacts ==
    ASSUME NEW s \in SocketEntry
    PROVE  /\ closed(s) \in SocketEntry /\ closed(s).state = "CLOSED"
           /\ closed(s).una = s.una /\ closed(s).nxt = s.nxt /\ closed(s).lbw = s.lbw
           /\ closed(s).isProbing = s.isProbing /\ closed(s).queue = s.queue
           /\ closed(s).callbacks = s.callbacks /\ closed(s).rcvNxt = s.rcvNxt
           /\ closed(s).fin = s.fin /\ closed(s).early = s.early
           /\ closed(s).panicked \/ (closed(s).torn /\ ~s.torn)
BY DEF closed, teardown, SocketEntry, States

\* Host h and its peer's entry in a state of the types.
LEMMA HostFacts ==
    ASSUME CloseInv, NEW h \in Hosts
    PROVE  /\ sock[h] \in SocketEntry /\ closer[h] \in CloserSteps /\ consumed[h] \in BOOLEAN
           /\ net[h] \subseteq Packets /\ SocketInv(h) /\ DirectionInv(h)
           /\ sock[h].nxt \in Nat /\ sock[h].lbw \in Nat /\ sock[h].una \in Nat
           /\ sock[h].callbacks \in Nat /\ sock[h].rcvNxt \in Nat /\ sock[h].fin \in Nat
           /\ sock[h].queue \in Seq(Entry)
BY DEF CloseInv, Typed, SocketEntry

LEMMA LoseKeeps == ASSUME CloseInv, NEW h \in Hosts, Lose(h) PROVE CloseInv'
<1>1. sock[h] \in SocketEntry /\ SocketInv(h)
  BY HostFacts
<1>2. QuietStep(h)
  BY <1>1 DEF Lose, QuietStep, CloseInv, Typed, SocketEntry, FinSent, FinCounted, Draining
<1>3. Typed'
  BY Bounds DEF Lose, CloseInv, Typed
<1>4. SocketInv(h)'
  BY <1>1 DEF Lose, SocketInv, QueueInv
<1> QED BY <1>2, <1>3, <1>4, QuietEnds

LEMMA DiscardKeeps == ASSUME CloseInv, NEW h \in Hosts, Discard(h) PROVE CloseInv'
<1>1. sock[h] \in SocketEntry /\ SocketInv(h)
  BY HostFacts
<1>2. QuietStep(h)
  BY <1>1 DEF Discard, QuietStep, CloseInv, Typed, SocketEntry, FinSent, FinCounted, Draining
<1>3. Typed'
  BY DEF Discard, CloseInv, Typed
<1>4. SocketInv(h)'
  BY <1>1 DEF Discard, SocketInv, QueueInv
<1> QED BY <1>2, <1>3, <1>4, QuietEnds

LEMMA VWriteKeeps == ASSUME CloseInv, NEW h \in Hosts, VWrite(h) PROVE CloseInv'
<1>1. sock[h] \in SocketEntry /\ SocketInv(h) /\ Peer(h) # h
  BY HostFacts, PeerFacts
<1>2. sock' = [sock EXCEPT ![h].lbw = sock[h].lbw + 1] /\ sock[h].lbw + 1 < Limit
  BY <1>1, Bounds, SMTT(30) DEF VWrite, Limit, ISN, SocketEntry
<1>3. QuietStep(h)
  <2>1. /\ sock'[Peer(h)] = sock[Peer(h)]
        /\ sock'[h].nxt = sock[h].nxt /\ sock'[h].lbw = sock[h].lbw + 1
        /\ sock'[h].queue = sock[h].queue /\ sock'[h].early = sock[h].early
        /\ sock'[h].fin = sock[h].fin /\ sock'[h].rcvNxt = sock[h].rcvNxt
    BY <1>1, <1>2, PeerFacts DEF CloseInv, Typed, SocketEntry
  <2>2. sock[h].nxt \in Nat /\ sock[h].lbw \in Nat /\ UNCHANGED <<closer, net, consumed>>
    BY HostFacts DEF VWrite
  \* A sequential application writes before it closes.
  <2>3. OrderInv(h)'
    <3> SUFFICES ASSUME Sequential PROVE StreamInv(h)'
      BY DEF OrderInv, Sequential
    <3>1. closer[h] = "idle"
      BY DEF VWrite, Sequential
    <3>2. FinInv(h) /\ StreamInv(h)
      BY HostFacts DEF DirectionInv, OrderInv
    <3>3. ~consumed[Peer(h)] /\ \A n \in Nat : ~FinOut(h, n)
      BY <3>1, <3>2 DEF FinInv, FinSent
    <3>4. \A n \in Nat : FinOut(h, n)' => FinOut(h, n)
      BY <2>1, <2>2 DEF FinOut, UnderWay
    <3>5. sock'[h].nxt <= sock'[h].lbw + 1
      BY <2>1, <2>2, <3>1, <3>2 DEF StreamInv, FinCounted, Draining
    <3> QED BY <2>2, <3>1, <3>3, <3>4, <3>5 DEF StreamInv, FinCounted, Draining
  <2> QED BY <2>1, <2>2, <2>3 DEF QuietStep, FinSent, FinCounted
<1>4. Typed'
  <2>1. [sock[h] EXCEPT !.lbw = sock[h].lbw + 1] \in SocketEntry
    <3>1. sock[h].lbw + 1 \in Nat
      BY <1>1 DEF SocketEntry
    <3> QED BY <1>1, <3>1 DEF SocketEntry
  <2>2. sock' = [sock EXCEPT ![h] = [sock[h] EXCEPT !.lbw = sock[h].lbw + 1]]
    BY <1>2 DEF CloseInv, Typed
  <2> QED BY <2>1, <2>2 DEF VWrite, CloseInv, Typed
<1>5. SocketInv(h)'
  <2>1. sock'[h] = [sock[h] EXCEPT !.lbw = sock[h].lbw + 1]
    BY <1>1, <1>2 DEF CloseInv, Typed
  <2>2. closer' = closer /\ consumed' = consumed
    BY DEF VWrite
  <2> QED BY <1>1, <1>2, <2>1, <2>2 DEF SocketInv, QueueInv, SocketEntry
<1> QED BY <1>3, <1>4, <1>5, QuietEnds

\* The steps of VClose and sendFin that only choose what comes next.
LEMMA CloserKeeps ==
    ASSUME CloseInv, NEW h \in Hosts, VClose(h) \/ VCloseDrained(h) \/ ChooseFinState(h)
    PROVE  CloseInv'
<1>1. sock[h] \in SocketEntry /\ SocketInv(h) /\ Peer(h) # h /\ closer[h] \in CloserSteps
  BY HostFacts, PeerFacts
<1>2. UNCHANGED <<sock, ip, net, losses, rsts, consumed>>
  BY DEF VClose, VCloseDrained, ChooseFinState
<1>3. PICK c \in CloserSteps :
         /\ closer' = [closer EXCEPT ![h] = c] /\ closer[h] # "done"
         /\ \/ closer[h] = "idle" /\ c = "drain"
            \/ closer[h] = "drain" /\ c = "send"
            \/ closer[h] = "state" /\ c \in {"FIN_WAIT_1", "LAST_ACK"}
         /\ c = "send" => drained(sock[h])
  <2>1. CASE VClose(h)
    <3>1. closer' = [closer EXCEPT ![h] = "drain"] /\ closer[h] = "idle"
      BY <2>1 DEF VClose
    <3>2. "drain" \in CloserSteps
      BY DEF CloserSteps
    <3> QED BY <3>1, <3>2
  <2>2. CASE VCloseDrained(h)
    <3>1. closer' = [closer EXCEPT ![h] = "send"] /\ closer[h] = "drain" /\ drained(sock[h])
      BY <2>2 DEF VCloseDrained
    <3>2. "send" \in CloserSteps
      BY DEF CloserSteps
    <3> QED BY <3>1, <3>2
  <2>3. CASE ChooseFinState(h)
    <3> DEFINE c == IF sock[h].state = "ESTABLISHED" THEN "FIN_WAIT_1" ELSE "LAST_ACK"
    <3>1. closer' = [closer EXCEPT ![h] = c] /\ closer[h] = "state" /\ c \in {"FIN_WAIT_1", "LAST_ACK"}
      BY <2>3 DEF ChooseFinState
    <3> HIDE DEF c
    <3>2. c \in CloserSteps /\ closer[h] # "done"
      BY <3>1 DEF CloserSteps
    <3> QED BY <3>1, <3>2
  <2> QED BY <2>1, <2>2, <2>3
<1>4. closer'[h] = c /\ closer'[Peer(h)] = closer[Peer(h)]
  BY <1>1, <1>3 DEF CloseInv, Typed
<1>5. QuietStep(h)
  <2>1. sock[h].nxt \in Nat /\ sock[h].lbw \in Nat
    BY HostFacts
  <2>2. OrderInv(h)' \/ (Draining(h)' <=> Draining(h))
    <3>1. CASE closer[h] = "drain" /\ c = "send"
      \* Nothing is left to send.
      <4>1. sock[h].lbw < sock[h].nxt
        BY <1>3, <3>1 DEF drained
      <4>2. OrderInv(h)
        BY HostFacts DEF DirectionInv
      <4>3. Sequential => sock[h].nxt = sock[h].lbw + 1
        BY <2>1, <3>1, <4>1, <4>2 DEF OrderInv, StreamInv, FinCounted, Draining
      <4>4. \A n \in Nat : FinOut(h, n)' => FinOut(h, n)
        BY <1>2 DEF FinOut, UnderWay
      <4> QED BY <1>2, <1>4, <3>1, <4>2, <4>3, <4>4
              DEF OrderInv, StreamInv, FinCounted, Draining, Sequential
    <3>2. CASE ~(closer[h] = "drain" /\ c = "send")
      BY <1>3, <1>4, <3>2 DEF Draining
    <3> QED BY <3>1, <3>2
  <2>3. /\ FinSent(h)' <=> FinSent(h)
        /\ FinCounted(h)' <=> FinCounted(h)
        /\ (closer'[h] = "queue") <=> (closer[h] = "queue")
    BY <1>3, <1>4 DEF FinSent, FinCounted
  <2> QED BY <1>1, <1>2, <1>4, <2>1, <2>2, <2>3 DEF QuietStep
<1>6. Typed'
  BY <1>2, <1>3 DEF CloseInv, Typed
<1>7. SocketInv(h)'
  BY <1>1, <1>2, <1>3 DEF SocketInv, QueueInv
<1> QED BY <1>5, <1>6, <1>7, QuietEnds

LEMMA StoreFinStateKeeps == ASSUME CloseInv, NEW h \in Hosts, StoreFinState(h) PROVE CloseInv'
<1>1. sock[h] \in SocketEntry /\ SocketInv(h) /\ Peer(h) # h
  BY HostFacts, PeerFacts
<1>2. /\ closer[h] \in {"FIN_WAIT_1", "LAST_ACK"}
      /\ sock' = [sock EXCEPT ![h] = [sock[h] EXCEPT !.state = closer[h]]]
      /\ closer' = [closer EXCEPT ![h] = "done"] /\ UNCHANGED <<ip, net, losses, rsts, consumed>>
  BY DEF StoreFinState, CloseInv, Typed, SocketEntry
<1>3. /\ sock'[h] = [sock[h] EXCEPT !.state = closer[h]] /\ sock'[Peer(h)] = sock[Peer(h)]
      /\ closer'[h] = "done" /\ closer'[Peer(h)] = closer[Peer(h)]
  BY <1>1, <1>2, PeerFacts DEF CloseInv, Typed
<1>4. QuietStep(h)
  BY <1>1, <1>2, <1>3 DEF QuietStep, SocketEntry, FinSent, FinCounted, Draining
<1>5. Typed'
  BY <1>1, <1>2 DEF CloseInv, Typed, SocketEntry, CloserSteps, States
<1>6. SocketInv(h)'
  BY <1>1, <1>2, <1>3 DEF SocketInv, QueueInv, SocketEntry
<1> QED BY <1>4, <1>5, <1>6, QuietEnds

\* A step that changes no more than a state, a timer or the number of callbacks of a
\* socket, and sends no more than a reset.
LEMMA StateKeeps ==
    ASSUME CloseInv, NEW h \in Hosts, NEW s \in SocketEntry,
           sock' = [sock EXCEPT ![h] = s],
           s.una = sock[h].una, s.nxt = sock[h].nxt, s.lbw = sock[h].lbw,
           s.isProbing = sock[h].isProbing, s.queue = sock[h].queue,
           s.rcvNxt = sock[h].rcvNxt, s.fin = sock[h].fin, s.early = sock[h].early,
           s.callbacks <= MaxCallbacks,
           s.state = sock[h].state \/ s.state \notin {"FIN_WAIT_1", "FIN_WAIT_2"},
           s.panicked \/ ((sock[h].torn => s.torn) /\ ~sock[h].panicked),
           ip' \in [Hosts -> {"idle", "fin", "CLOSE_WAIT"}], UNCHANGED <<closer, consumed>>,
           losses' \in 0..MaxLoss, rsts' \in 0..MaxRst, net' \in [Hosts -> SUBSET Packets],
           \A g \in Hosts : net'[g] \subseteq net[g] \cup {RstSeg}
    PROVE  CloseInv'
<1>1. sock[h] \in SocketEntry /\ SocketInv(h) /\ Peer(h) # h
  BY HostFacts, PeerFacts
<1>2. sock'[h] = s /\ sock'[Peer(h)] = sock[Peer(h)]
  BY <1>1, PeerFacts DEF CloseInv, Typed
<1>3. QuietStep(h)
  BY <1>1, <1>2 DEF QuietStep, SocketEntry, FinSent, FinCounted, Draining
<1>4. Typed'
  BY <1>1 DEF CloseInv, Typed
<1>5. SocketInv(h)'
  <2>1. QueueInv(s)
    BY <1>1 DEF SocketInv, QueueInv
  <2> QED BY <1>1, <1>2, <2>1 DEF SocketInv
<1> QED BY <1>3, <1>4, <1>5, QuietEnds

\* A reset, sent or received, closes the connection.
LEMMA ResetKeeps ==
    ASSUME CloseInv, NEW h \in Hosts, rstCommand(h) \/ HandleRst(h)
    PROVE  CloseInv'
<1> DEFINE s == closed(sock[h])
<1>1. sock[h] \in SocketEntry /\ SocketInv(h)
  BY HostFacts
<1>2. /\ s \in SocketEntry /\ s.state = "CLOSED"
      /\ s.una = sock[h].una /\ s.nxt = sock[h].nxt /\ s.lbw = sock[h].lbw
      /\ s.isProbing = sock[h].isProbing /\ s.queue = sock[h].queue
      /\ s.callbacks = sock[h].callbacks /\ s.rcvNxt = sock[h].rcvNxt
      /\ s.fin = sock[h].fin /\ s.early = sock[h].early
      /\ s.panicked \/ (s.torn /\ ~sock[h].torn)
  BY <1>1, ClosedFacts
<1>3. /\ sock' = [sock EXCEPT ![h] = s]
      /\ UNCHANGED <<closer, ip, losses, consumed>> /\ ~sock[h].panicked
  BY DEF rstCommand, HandleRst, Receives, Running
<1>4. /\ rsts' \in 0..MaxRst
      /\ \A g \in Hosts : net'[g] \subseteq net[g] \cup {RstSeg}
      /\ net' \in [Hosts -> SUBSET Packets]
  <2>1. RstSeg \in Packets
    BY DEF Packets
  <2> QED BY <2>1, Bounds DEF rstCommand, HandleRst, Sent, CloseInv, Typed
<1>5. ip' \in [Hosts -> {"idle", "fin", "CLOSE_WAIT"}] /\ losses' \in 0..MaxLoss
  BY <1>3 DEF CloseInv, Typed
<1>6. s.callbacks <= MaxCallbacks
  BY <1>1, <1>2 DEF SocketInv
<1> HIDE DEF s
<1> QED BY <1>2, <1>3, <1>4, <1>5, <1>6, StateKeeps

LEMMA FinSwitchKeeps == ASSUME CloseInv, NEW h \in Hosts, FinSwitch(h) PROVE CloseInv'
<1>1. sock[h] \in SocketEntry /\ SocketInv(h)
  BY HostFacts
<1>2. PICK s : s \in {sock[h], [sock[h] EXCEPT !.state = "TIME_WAIT", !.timeWait = TRUE]}
               /\ sock' = [sock EXCEPT ![h] = s]
  BY DEF FinSwitch, CloseInv, Typed
<1>3. s \in SocketEntry
  BY <1>1, <1>2, ZenonT(30) DEF SocketEntry, States
<1>4. ip' \in [Hosts -> {"idle", "fin", "CLOSE_WAIT"}]
  BY DEF FinSwitch, CloseInv, Typed
<1>5. /\ s.state = sock[h].state \/ s.state \notin {"FIN_WAIT_1", "FIN_WAIT_2"}
      /\ s.una = sock[h].una /\ s.nxt = sock[h].nxt /\ s.lbw = sock[h].lbw
      /\ s.isProbing = sock[h].isProbing /\ s.queue = sock[h].queue
      /\ s.rcvNxt = sock[h].rcvNxt /\ s.fin = sock[h].fin /\ s.early = sock[h].early
      /\ s.callbacks <= MaxCallbacks /\ s.torn = sock[h].torn
  BY <1>1, <1>2 DEF SocketEntry, SocketInv
<1>6. ~sock[h].panicked /\ UNCHANGED <<closer, net, losses, rsts, consumed>>
  BY DEF FinSwitch, Running
<1> QED BY <1>2, <1>3, <1>4, <1>5, <1>6, StateKeeps DEF CloseInv, Typed

LEMMA EnterCloseWaitKeeps == ASSUME CloseInv, NEW h \in Hosts, EnterCloseWait(h) PROVE CloseInv'
<1> DEFINE s == [sock[h] EXCEPT !.state = "CLOSE_WAIT", !.panicked = sock[h].torn]
<1>1. sock[h] \in SocketEntry /\ SocketInv(h)
  BY HostFacts
<1>2. s \in SocketEntry
  BY <1>1 DEF SocketEntry, States
<1>3. sock' = [sock EXCEPT ![h] = s]
  BY DEF EnterCloseWait, CloseInv, Typed
<1>4. ip' \in [Hosts -> {"idle", "fin", "CLOSE_WAIT"}]
  BY DEF EnterCloseWait, CloseInv, Typed
<1>5. /\ s.state = "CLOSE_WAIT"
      /\ s.una = sock[h].una /\ s.nxt = sock[h].nxt /\ s.lbw = sock[h].lbw
      /\ s.isProbing = sock[h].isProbing /\ s.queue = sock[h].queue
      /\ s.rcvNxt = sock[h].rcvNxt /\ s.fin = sock[h].fin /\ s.early = sock[h].early
      /\ s.callbacks <= MaxCallbacks /\ s.torn = sock[h].torn
  BY <1>1 DEF SocketEntry, SocketInv
<1>6. ~sock[h].panicked /\ UNCHANGED <<closer, net, losses, rsts, consumed>>
  BY DEF EnterCloseWait, Running
<1> HIDE DEF s
<1> QED BY <1>2, <1>3, <1>4, <1>5, <1>6, StateKeeps DEF CloseInv, Typed

LEMMA RtoFiresKeeps == ASSUME CloseInv, NEW h \in Hosts, RtoFires(h) PROVE CloseInv'
<1> DEFINE n == sock[h].callbacks + 1
           s == [sock[h] EXCEPT !.rto = FALSE, !.callbacks = n]
<1>1. sock[h] \in SocketEntry /\ SocketInv(h)
  BY HostFacts
<1>2. n \in Nat /\ n <= MaxCallbacks
  BY <1>1, Bounds, SMTT(30) DEF RtoFires, SocketEntry
<1>3. sock' = [sock EXCEPT ![h] = s]
  BY DEF RtoFires, CloseInv, Typed
<1>4. ~sock[h].panicked /\ UNCHANGED <<closer, ip, net, losses, rsts, consumed>>
  BY DEF RtoFires, Running
<1> HIDE DEF n
<1>5. s \in SocketEntry
  BY <1>1, <1>2 DEF SocketEntry
<1>6. /\ s.state = sock[h].state
      /\ s.una = sock[h].una /\ s.nxt = sock[h].nxt /\ s.lbw = sock[h].lbw
      /\ s.isProbing = sock[h].isProbing /\ s.queue = sock[h].queue
      /\ s.rcvNxt = sock[h].rcvNxt /\ s.fin = sock[h].fin /\ s.early = sock[h].early
      /\ s.callbacks <= MaxCallbacks /\ s.torn = sock[h].torn
  BY <1>1, <1>2 DEF SocketEntry
<1> HIDE DEF s
<1> QED BY <1>3, <1>4, <1>5, <1>6, StateKeeps DEF CloseInv, Typed

LEMMA TimeWaitOverKeeps == ASSUME CloseInv, NEW h \in Hosts, TimeWaitOver(h) PROVE CloseInv'
<1> DEFINE r == [sock[h] EXCEPT !.timeWait = FALSE]
           s == closed(r)
<1>1. sock[h] \in SocketEntry /\ SocketInv(h)
  BY HostFacts
<1>2. r \in SocketEntry
  BY <1>1 DEF SocketEntry
<1>3. sock' = [sock EXCEPT ![h] = s]
  BY DEF TimeWaitOver
<1>4. /\ s \in SocketEntry /\ s.state = "CLOSED"
      /\ s.una = sock[h].una /\ s.nxt = sock[h].nxt /\ s.lbw = sock[h].lbw
      /\ s.isProbing = sock[h].isProbing /\ s.queue = sock[h].queue
      /\ s.callbacks = sock[h].callbacks /\ s.rcvNxt = sock[h].rcvNxt
      /\ s.fin = sock[h].fin /\ s.early = sock[h].early
      /\ s.panicked \/ (s.torn /\ ~sock[h].torn)
  <2>1. /\ r.una = sock[h].una /\ r.nxt = sock[h].nxt /\ r.lbw = sock[h].lbw
        /\ r.isProbing = sock[h].isProbing /\ r.queue = sock[h].queue
        /\ r.callbacks = sock[h].callbacks /\ r.rcvNxt = sock[h].rcvNxt
        /\ r.fin = sock[h].fin /\ r.early = sock[h].early /\ r.torn = sock[h].torn
    BY <1>1 DEF SocketEntry
  <2> HIDE DEF r
  <2> QED BY <1>2, <2>1, ClosedFacts
<1>5. s.callbacks <= MaxCallbacks
  BY <1>1, <1>4 DEF SocketInv
<1>6. ~sock[h].panicked /\ UNCHANGED <<closer, ip, net, losses, rsts, consumed>>
  BY DEF TimeWaitOver, Running
<1> HIDE DEF s
<1> QED BY <1>3, <1>4, <1>5, <1>6, StateKeeps DEF CloseInv, Typed

-----------------------------------------------------------------------------
(* sendLoop and sendFin *)

LEMMA AppendFacts ==
    ASSUME NEW q \in Seq(Entry), NEW e \in Entry
    PROVE  /\ Append(q, e) \in Seq(Entry)
           /\ \A i \in 1..Len(Append(q, e)) : (i \in 1..Len(q) /\ Append(q, e)[i] = q[i]) \/ Append(q, e)[i] = e
           /\ \A len, k : Queued(Append(q, e), len, k) => Queued(q, len, k) \/ (e.len = len /\ e.seq = k)
<1>1. /\ Append(q, e) \in Seq(Entry) /\ Len(Append(q, e)) = Len(q) + 1 /\ Len(q) \in Nat
      /\ \A i \in 1..Len(q) : Append(q, e)[i] = q[i]
      /\ Append(q, e)[Len(q) + 1] = e
  BY AppendProperties
<1>2. \A i \in 1..Len(Append(q, e)) : i \in 1..Len(q) \/ i = Len(q) + 1
  BY <1>1
<1>3. \A i \in 1..Len(Append(q, e)) : (i \in 1..Len(q) /\ Append(q, e)[i] = q[i]) \/ Append(q, e)[i] = e
  BY <1>1, <1>2
<1>4. \A len, k : Queued(Append(q, e), len, k) => Queued(q, len, k) \/ (e.len = len /\ e.seq = k)
  BY <1>3 DEF Queued
<1> QED BY <1>1, <1>3, <1>4

\* A new entry has not been retransmitted.
LEMMA AppendKeepsQueue ==
    ASSUME NEW s \in SocketEntry, NEW e \in Entry, QueueInv(s), e.numRetransmits = 0,
           NEW t \in SocketEntry, t.queue = Append(s.queue, e),
           t.torn = s.torn, t.panicked = s.panicked
    PROVE  QueueInv(t)
<1>1. s.queue \in Seq(Entry)
  BY DEF SocketEntry
<1>2. \A i \in 1..Len(t.queue) : (i \in 1..Len(s.queue) /\ t.queue[i] = s.queue[i]) \/ t.queue[i] = e
  BY <1>1, AppendFacts
<1> QED BY <1>2, Bounds DEF QueueInv

LEMMA sendLoopKeeps == ASSUME CloseInv, NEW h \in Hosts, sendLoop(h) PROVE CloseInv'
<1> DEFINE s == sock[h]
           e == [seq |-> s.nxt, len |-> 1, numRetransmits |-> 0]
           t == [s EXCEPT !.queue = Append(s.queue, e), !.rto = s.rto \/ s.queue = <<>>,
                          !.nxt = s.nxt + 1, !.isProbing = FALSE]
<1>1. /\ s \in SocketEntry /\ SocketInv(h) /\ DirectionInv(h) /\ s.nxt \in Nat /\ s.lbw \in Nat
      /\ s.queue \in Seq(Entry) /\ s.una \in Nat /\ s.rcvNxt \in Nat
  BY HostFacts
<1>2. Peer(h) \in Hosts /\ Peer(h) # h /\ Peer(Peer(h)) = h
  BY PeerFacts
<1>3. sock' = [sock EXCEPT ![h] = t] /\ s.nxt <= s.lbw /\ ~s.panicked
  <2>1. sock' = [sock EXCEPT ![h] = t]
    BY DEF sendLoop
  <2> QED BY <1>1, <2>1 DEF sendLoop, Running
<1>4. /\ net' = [net EXCEPT ![Peer(h)] = net[Peer(h)] \cup {DataSeg(s.nxt)}]
      /\ UNCHANGED <<closer, ip, losses, rsts, consumed>>
  BY DEF sendLoop, Sent, CloseInv, Typed
<1>5. s.nxt < Limit
  BY <1>1, <1>3, Bounds, SMTT(30) DEF SocketInv
<1>6. e \in Entry /\ e.seq = s.nxt /\ e.len = 1 /\ e.numRetransmits = 0
  BY <1>1 DEF Entry
<1> HIDE DEF e
<1>7. Append(s.queue, e) \in Seq(Entry)
  BY <1>1, <1>6, AppendFacts
<1>8. /\ t \in SocketEntry /\ t.queue = Append(s.queue, e) /\ t.nxt = s.nxt + 1 /\ ~t.isProbing
      /\ t.state = s.state /\ t.una = s.una /\ t.lbw = s.lbw /\ t.callbacks = s.callbacks
      /\ t.rcvNxt = s.rcvNxt /\ t.fin = s.fin /\ t.early = s.early /\ t.torn = s.torn
      /\ t.panicked = s.panicked
  <2>1. s.nxt + 1 \in Nat /\ (s.rto \/ s.queue = <<>>) \in BOOLEAN
    BY <1>1
  <2> QED BY <1>1, <1>7, <2>1 DEF SocketEntry
<1> HIDE DEF t
<1>9. sock'[h] = t /\ sock'[Peer(h)] = sock[Peer(h)]
  BY <1>2, <1>3 DEF CloseInv, Typed
<1>10. /\ net'[Peer(h)] = net[Peer(h)] \cup {DataSeg(s.nxt)} /\ net'[h] = net[h]
       /\ DataSeg(s.nxt).type = "DATA" /\ DataSeg(s.nxt).seq = s.nxt
  BY <1>2, <1>4 DEF CloseInv, Typed, DataSeg
<1>11. Typed'
  <2>1. DataSeg(s.nxt) \in Packets
    <3>1. s.nxt \in 0..(ISN + MaxData + 2)
      BY <1>1, <1>5, Bounds DEF Limit
    <3> QED BY <3>1 DEF Packets
  <2> QED BY <1>3, <1>4, <1>8, <2>1 DEF CloseInv, Typed
<1>12. SocketInv(h)'
  <2>1. QueueInv(t)
    BY <1>1, <1>6, <1>8, AppendKeepsQueue DEF SocketInv
  <2> QED BY <1>1, <1>4, <1>8, <1>9, <2>1 DEF SocketInv
<1>13. SocketInv(Peer(h))' /\ DirectionInv(Peer(h))'
  <2>1. SocketInv(Peer(h))'
    BY <1>4, <1>9, PeerSocketKept
  <2>2. \A m \in net'[Peer(h)] : \/ m \in net[Peer(h)]
                                 \/ m.type \in {"ACK", "FIN"} => m.ack <= sock[h].rcvNxt
    BY <1>10
  <2> QED BY <1>4, <1>8, <1>9, <1>10, <2>1, <2>2, PeerDirectionKept
<1>14. ASSUME NEW k \in Nat
       PROVE  (ByteOut(h, k)' => ByteOut(h, k) \/ k = s.nxt) /\ (FinOut(h, k)' => FinOut(h, k))
  <2>1. /\ Queued(t.queue, 1, k) => Queued(s.queue, 1, k) \/ k = s.nxt
        /\ Queued(t.queue, 0, k) => Queued(s.queue, 0, k)
    BY <1>1, <1>6, <1>8, AppendFacts
  <2> QED BY <1>9, <1>10, <2>1 DEF ByteOut, FinOut, UnderWay
<1>15. DirectionInv(h)'
  <2>1. DataInv(h)'
    BY <1>1, <1>3, <1>8, <1>9, <1>14 DEF DirectionInv, DataInv
  <2>2. AcksInv(h)'
    BY <1>1, <1>9, <1>10 DEF DirectionInv, AcksInv
  <2>3. GapInv(h)'
    <3>1. GapInv(h) /\ sock[Peer(h)].rcvNxt \in Nat
      BY <1>1, <1>2, HostFacts DEF DirectionInv
    <3>2. CASE FinCounted(h) /\ ~consumed[Peer(h)]
      <4>1. PICK g \in Nat : g < s.nxt /\ sock[Peer(h)].rcvNxt <= g /\ ~ByteOut(h, g)
        BY <3>1, <3>2 DEF GapInv
      <4>2. g < t.nxt /\ ~ByteOut(h, g)'
        BY <1>1, <1>8, <1>14, <4>1
      <4> QED BY <1>4, <1>9, <3>2, <4>1, <4>2 DEF GapInv, FinCounted
    <3>3. CASE ~FinCounted(h) \/ consumed[Peer(h)]
      BY <1>1, <1>4, <1>8, <1>9, <3>1, <3>3 DEF GapInv, FinCounted
    <3> QED BY <3>2, <3>3
  <2>4. FinInv(h)'
    <3>1. t.nxt <= Limit
      BY <1>1, <1>5, <1>8, Bounds
    <3>2. t.nxt <= Limit + 1
      BY <1>1, <1>8, <3>1, Bounds
    <3> QED BY <1>1, <1>4, <1>9, <1>14, <3>1, <3>2 DEF DirectionInv, FinInv, FinSent, FinLimit
  <2>5. OrderInv(h)'
    <3> SUFFICES ASSUME Sequential PROVE StreamInv(h)'
      BY DEF OrderInv, Sequential
    <3>1. StreamInv(h)
      BY <1>1 DEF DirectionInv, OrderInv
    <3>2. Draining(h) /\ ~FinCounted(h)
      BY <1>1, <1>3, <3>1 DEF StreamInv
    <3>3. Draining(h)' /\ ~FinCounted(h)'
      BY <1>4, <3>2 DEF Draining, FinCounted
    <3>4. t.nxt <= t.lbw + 1
      BY <1>1, <1>3, <1>8
    <3> QED BY <1>4, <1>8, <1>9, <1>14, <3>1, <3>3, <3>4 DEF StreamInv
  <2> QED BY <2>1, <2>2, <2>3, <2>4, <2>5 DEF DirectionInv
<1> QED BY <1>11, <1>12, <1>13, <1>15, BothHosts

LEMMA sendFinKeeps == ASSUME CloseInv, NEW h \in Hosts, sendFin(h) PROVE CloseInv'
<1> DEFINE s == sock[h]
           f == FinSeg(s, s.nxt)
<1>1. /\ s \in SocketEntry /\ SocketInv(h) /\ DirectionInv(h) /\ s.nxt \in Nat /\ s.rcvNxt \in Nat
  BY HostFacts
<1>2. Peer(h) \in Hosts /\ Peer(h) # h /\ Peer(Peer(h)) = h
  BY PeerFacts
<1>3. /\ closer[h] = "send" /\ closer' = [closer EXCEPT ![h] = "queue"]
      /\ net' = [net EXCEPT ![Peer(h)] = net[Peer(h)] \cup {f}]
      /\ UNCHANGED <<sock, ip, losses, rsts, consumed>>
  BY DEF sendFin, Sent
<1>4. /\ ~consumed[Peer(h)] /\ s.nxt <= Limit /\ \A n \in Nat : ~FinOut(h, n)
      /\ sock[Peer(h)].rcvNxt <= s.nxt
  BY <1>1, <1>3 DEF DirectionInv, FinInv, FinSent, GapInv, FinCounted
<1>5. f.type = "FIN" /\ f.seq = s.nxt /\ f.ack = s.rcvNxt
  BY DEF FinSeg
<1>6. f \in Packets
  <2>1. s.rcvNxt <= Limit + 2
    <3>1. sock[h].rcvNxt <= FinLimit(Peer(h)) + 1
      BY <1>2, HostFacts DEF DirectionInv, FinInv
    <3> QED BY <3>1, <1>1, Bounds DEF FinLimit
  <2>2. s.nxt \in 0..(ISN + MaxData + 2) /\ s.rcvNxt \in 0..(ISN + MaxData + 2)
    BY <1>1, <1>4, <2>1, Bounds DEF Limit
  <2> QED BY <2>2 DEF Packets, FinSeg
<1> HIDE DEF f
<1>7. closer'[h] = "queue" /\ closer'[Peer(h)] = closer[Peer(h)]
  BY <1>2, <1>3 DEF CloseInv, Typed
<1>8. net'[Peer(h)] = net[Peer(h)] \cup {f} /\ net'[h] = net[h]
  BY <1>2, <1>3 DEF CloseInv, Typed
<1>9. Typed'
  BY <1>3, <1>6 DEF CloseInv, Typed, CloserSteps
<1>10. SocketInv(h)'
  BY <1>1, <1>3, <1>7 DEF SocketInv, QueueInv
<1>11. SocketInv(Peer(h))' /\ DirectionInv(Peer(h))'
  <2>1. SocketInv(Peer(h))'
    BY <1>3, <1>7, PeerSocketKept
  <2>2. \A m \in net'[Peer(h)] : \/ m \in net[Peer(h)]
                                 \/ m.type \in {"ACK", "FIN"} => m.ack <= sock[h].rcvNxt
    BY <1>1, <1>5, <1>8
  <2> QED BY <1>3, <1>7, <1>8, <2>1, <2>2, PeerDirectionKept
<1>12. ASSUME NEW k \in Nat
       PROVE  (ByteOut(h, k)' => ByteOut(h, k)) /\ (FinOut(h, k)' => k = s.nxt)
  <2>1. ByteOut(h, k)' => ByteOut(h, k)
    BY <1>3, <1>5, <1>8 DEF ByteOut, UnderWay
  <2>2. FinOut(h, k)' => FinOut(h, k) \/ k = s.nxt
    BY <1>3, <1>5, <1>8 DEF FinOut, UnderWay
  <2> QED BY <1>4, <2>1, <2>2
<1>13. DirectionInv(h)'
  <2>1. DataInv(h)'
    BY <1>1, <1>3, <1>12 DEF DirectionInv, DataInv
  <2>2. AcksInv(h)'
    BY <1>1, <1>3, <1>8 DEF DirectionInv, AcksInv
  <2>3. GapInv(h)'
    BY <1>3, <1>4, <1>7 DEF GapInv, FinCounted
  <2>4. FinInv(h)'
    <3>1. sock[Peer(h)].rcvNxt \in Nat
      BY <1>2, HostFacts
    <3>2. FinLimit(h)' = Limit /\ FinSent(h)'
      BY <1>7 DEF FinLimit, FinSent
    <3>3. \A n \in Nat : FinOut(h, n)' => n <= Limit
      BY <1>4, <1>12
    <3>4. sock[Peer(h)].rcvNxt <= Limit + 1 /\ s.nxt <= Limit + 1
      BY <1>1, <1>4, <3>1, Bounds
    <3> QED BY <1>3, <3>2, <3>3, <3>4 DEF FinInv
  <2>5. OrderInv(h)'
    <3> SUFFICES ASSUME Sequential PROVE StreamInv(h)'
      BY DEF OrderInv, Sequential
    <3>1. s.nxt = s.lbw + 1
      BY <1>1, <1>3 DEF DirectionInv, OrderInv, StreamInv, FinCounted, Draining
    <3>2. \A n \in Nat : FinOut(h, n)' => n = s.lbw + 1
      BY <1>12, <3>1
    <3> QED BY <1>3, <1>4, <1>7, <3>1, <3>2 DEF StreamInv, FinCounted, Draining
  <2> QED BY <2>1, <2>2, <2>3, <2>4, <2>5 DEF DirectionInv
<1> QED BY <1>9, <1>10, <1>11, <1>13, BothHosts

LEMMA QueueFinKeeps == ASSUME CloseInv, NEW h \in Hosts, QueueFin(h) PROVE CloseInv'
<1> DEFINE s == sock[h]
           e == [seq |-> s.nxt, len |-> 0, numRetransmits |-> 0]
           t == [s EXCEPT !.queue = Append(s.queue, e), !.rto = timerStarted(s)]
<1>1. /\ s \in SocketEntry /\ SocketInv(h) /\ DirectionInv(h) /\ s.nxt \in Nat /\ s.lbw \in Nat
      /\ s.queue \in Seq(Entry)
  BY HostFacts
<1>2. Peer(h) \in Hosts /\ Peer(h) # h /\ Peer(Peer(h)) = h
  BY PeerFacts
<1>3. sock' = [sock EXCEPT ![h] = t]
  BY <1>1 DEF QueueFin, CloseInv, Typed
<1>4. /\ closer[h] = "queue" /\ closer' = [closer EXCEPT ![h] = "advance"]
      /\ UNCHANGED <<ip, net, losses, rsts, consumed>>
  BY DEF QueueFin
<1>5. e \in Entry /\ e.seq = s.nxt /\ e.len = 0 /\ e.numRetransmits = 0
  BY <1>1 DEF Entry
<1> HIDE DEF e
<1>6. Append(s.queue, e) \in Seq(Entry)
  BY <1>1, <1>5, AppendFacts
<1>7. /\ t \in SocketEntry /\ t.queue = Append(s.queue, e) /\ t.nxt = s.nxt
      /\ t.isProbing = s.isProbing
      /\ t.state = s.state /\ t.una = s.una /\ t.lbw = s.lbw /\ t.callbacks = s.callbacks
      /\ t.rcvNxt = s.rcvNxt /\ t.fin = s.fin /\ t.early = s.early /\ t.torn = s.torn
      /\ t.panicked = s.panicked
  <2>1. timerStarted(s) \in BOOLEAN
    BY <1>1 DEF timerStarted
  <2> QED BY <1>1, <1>6, <2>1 DEF SocketEntry
<1> HIDE DEF t
<1>8. /\ sock'[h] = t /\ sock'[Peer(h)] = sock[Peer(h)]
      /\ closer'[h] = "advance" /\ closer'[Peer(h)] = closer[Peer(h)]
  BY <1>2, <1>3, <1>4 DEF CloseInv, Typed
<1>9. Typed'
  BY <1>3, <1>4, <1>7 DEF CloseInv, Typed, CloserSteps
<1>10. SocketInv(h)'
  <2>1. QueueInv(t)
    BY <1>1, <1>5, <1>7, AppendKeepsQueue DEF SocketInv
  <2> QED BY <1>1, <1>4, <1>7, <1>8, <2>1 DEF SocketInv
<1>11. SocketInv(Peer(h))' /\ DirectionInv(Peer(h))'
  <2>1. SocketInv(Peer(h))'
    BY <1>4, <1>8, PeerSocketKept
  <2> QED BY <1>4, <1>7, <1>8, <2>1, PeerDirectionKept
<1>12. ASSUME NEW k \in Nat
       PROVE  (ByteOut(h, k)' => ByteOut(h, k)) /\ (FinOut(h, k)' => FinOut(h, k) \/ k = s.nxt)
  <2>1. /\ Queued(t.queue, 1, k) => Queued(s.queue, 1, k)
        /\ Queued(t.queue, 0, k) => Queued(s.queue, 0, k) \/ k = s.nxt
    BY <1>1, <1>5, <1>7, AppendFacts
  <2> QED BY <1>4, <1>8, <2>1 DEF ByteOut, FinOut, UnderWay
<1>13. DirectionInv(h)'
  <2>1. DataInv(h)'
    BY <1>1, <1>7, <1>8, <1>12 DEF DirectionInv, DataInv
  <2>2. AcksInv(h)'
    BY <1>1, <1>4, <1>8 DEF DirectionInv, AcksInv
  <2>3. GapInv(h)'
    BY <1>1, <1>4, <1>7, <1>8 DEF DirectionInv, GapInv, FinCounted
  <2>4. FinInv(h)'
    <3>1. /\ s.nxt <= Limit + 1 /\ sock[Peer(h)].rcvNxt <= Limit + 1
          /\ \A n \in Nat : FinOut(h, n) => n <= Limit
      BY <1>1, <1>4 DEF DirectionInv, FinInv, FinLimit
    <3>2. FinLimit(h)' = Limit + 1 /\ FinSent(h)' /\ sock[Peer(h)].rcvNxt \in Nat
      BY <1>2, <1>8, HostFacts DEF FinLimit, FinSent
    <3>3. \A n \in Nat : FinOut(h, n)' => n <= Limit + 1
      BY <1>12, <3>1, Bounds
    <3>4. sock[Peer(h)].rcvNxt <= Limit + 1 + 1
      BY <3>1, <3>2, Bounds
    <3> QED BY <1>8, <3>2, <3>3, <3>4 DEF FinInv
  <2>5. OrderInv(h)'
    <3> SUFFICES ASSUME Sequential PROVE StreamInv(h)'
      BY DEF OrderInv, Sequential
    <3>1. StreamInv(h)
      BY <1>1 DEF DirectionInv, OrderInv
    <3>2. s.nxt = s.lbw + 1
      BY <1>4, <3>1 DEF StreamInv, FinCounted, Draining
    <3>3. \A n \in Nat : FinOut(h, n)' => n = s.lbw + 1
      BY <1>12, <3>1, <3>2 DEF StreamInv
    <3> QED BY <1>4, <1>7, <1>8, <3>1, <3>2, <3>3 DEF StreamInv, FinCounted, Draining
  <2> QED BY <2>1, <2>2, <2>3, <2>4, <2>5 DEF DirectionInv
<1> QED BY <1>9, <1>10, <1>11, <1>13, BothHosts

\* The number that nxt moves over is no byte's.
LEMMA AdvanceFinKeeps == ASSUME CloseInv, NEW h \in Hosts, AdvanceFin(h) PROVE CloseInv'
<1> DEFINE s == sock[h]
           t == [s EXCEPT !.nxt = s.nxt + 1]
<1>1. /\ s \in SocketEntry /\ SocketInv(h) /\ DirectionInv(h) /\ s.nxt \in Nat /\ s.lbw \in Nat
      /\ s.una \in Nat
  BY HostFacts
<1>2. Peer(h) \in Hosts /\ Peer(h) # h /\ Peer(Peer(h)) = h
  BY PeerFacts
<1>3. sock' = [sock EXCEPT ![h] = t]
  BY <1>1 DEF AdvanceFin, CloseInv, Typed
<1>4. /\ closer[h] = "advance" /\ closer' = [closer EXCEPT ![h] = "state"]
      /\ UNCHANGED <<ip, net, losses, rsts, consumed>>
  BY DEF AdvanceFin
<1>5. /\ t \in SocketEntry /\ t.queue = s.queue /\ t.nxt = s.nxt + 1
      /\ t.isProbing = s.isProbing
      /\ t.state = s.state /\ t.una = s.una /\ t.lbw = s.lbw /\ t.callbacks = s.callbacks
      /\ t.rcvNxt = s.rcvNxt /\ t.fin = s.fin /\ t.early = s.early /\ t.torn = s.torn
      /\ t.panicked = s.panicked
  <2>1. s.nxt + 1 \in Nat
    BY <1>1
  <2> QED BY <1>1, <2>1 DEF SocketEntry
<1> HIDE DEF t
<1>6. /\ sock'[h] = t /\ sock'[Peer(h)] = sock[Peer(h)]
      /\ closer'[h] = "state" /\ closer'[Peer(h)] = closer[Peer(h)]
  BY <1>2, <1>3, <1>4 DEF CloseInv, Typed
<1>7. Typed'
  BY <1>3, <1>4, <1>5 DEF CloseInv, Typed, CloserSteps
<1>8. SocketInv(h)'
  <2>1. QueueInv(t)
    BY <1>1, <1>5 DEF SocketInv, QueueInv
  <2> QED BY <1>1, <1>4, <1>5, <1>6, <2>1 DEF SocketInv
<1>9. SocketInv(Peer(h))' /\ DirectionInv(Peer(h))'
  <2>1. SocketInv(Peer(h))'
    BY <1>4, <1>6, PeerSocketKept
  <2> QED BY <1>4, <1>5, <1>6, <2>1, PeerDirectionKept
<1>10. \A k \in Nat : (ByteOut(h, k)' => ByteOut(h, k)) /\ (FinOut(h, k)' => FinOut(h, k))
  BY <1>4, <1>5, <1>6, OutKept
<1>11. DirectionInv(h)'
  <2>1. DataInv(h)'
    BY <1>1, <1>5, <1>6, <1>10 DEF DirectionInv, DataInv
  <2>2. AcksInv(h)'
    BY <1>1, <1>4, <1>6 DEF DirectionInv, AcksInv
  <2>3. GapInv(h)'
    <3>1. PICK k \in Nat : k = s.nxt
      BY <1>1
    <3>2. ~ByteOut(h, k)'
      <4>1. ByteOut(h, k) => k < s.nxt
        BY <1>1 DEF DirectionInv, DataInv
      <4> QED BY <1>10, <3>1, <4>1
    <3>3. ~consumed[Peer(h)] => sock[Peer(h)].rcvNxt <= k
      BY <1>1, <1>4, <3>1 DEF DirectionInv, GapInv, FinCounted
    <3>4. k < t.nxt
      BY <1>5, <3>1
    <3>5. FinCounted(h)'
      BY <1>6 DEF FinCounted
    <3> QED BY <1>4, <1>6, <3>2, <3>3, <3>4, <3>5 DEF GapInv
  <2>4. FinInv(h)'
    BY <1>1, <1>4, <1>6, <1>10 DEF DirectionInv, FinInv, FinLimit, FinSent
  <2>5. OrderInv(h)'
    <3> SUFFICES ASSUME Sequential PROVE StreamInv(h)'
      BY DEF OrderInv, Sequential
    <3>1. StreamInv(h)
      BY <1>1 DEF DirectionInv, OrderInv
    <3>2. s.nxt = s.lbw + 1
      BY <1>4, <3>1 DEF StreamInv, FinCounted, Draining
    <3>3. t.nxt = t.lbw + 2
      BY <1>1, <1>5, <3>2
    <3> QED BY <1>4, <1>5, <1>6, <1>10, <3>1, <3>3 DEF StreamInv, FinCounted
  <2> QED BY <2>1, <2>2, <2>3, <2>4, <2>5 DEF DirectionInv
<1> QED BY <1>7, <1>8, <1>9, <1>11, BothHosts

-----------------------------------------------------------------------------
(* What handlePureAck and retransmitSegment do to the queue *)

\* Unacked leaves out some of the first entries, and nothing else.
LEMMA UnackedFacts ==
    ASSUME NEW q \in Seq(Entry), NEW ack \in Nat
    PROVE  /\ Unacked(q, ack) \in Seq(Entry)
           /\ \A i \in 1..Len(Unacked(q, ack)) : \E j \in 1..Len(q) : Unacked(q, ack)[i] = q[j]
<1> DEFINE P(k) == /\ \A i \in 1..k : q[i].seq + q[i].len <= ack
                   /\ k < Len(q) => q[k + 1].seq + q[k + 1].len > ack
           T == {i \in 1..Len(q) : ~(q[i].seq + q[i].len <= ack)}
           c == CHOOSE k \in 0..Len(q) : P(k)
<1>1. Len(q) \in Nat /\ \A i \in 1..Len(q) : q[i] \in Entry
  OBVIOUS
<1>2. \A i \in 1..Len(q) : q[i].seq + q[i].len \in Nat
  BY <1>1 DEF Entry
<1>3. \E k \in 0..Len(q) : P(k)
  <2>1. CASE T = {}
    <3>1. P(Len(q))
      BY <1>1, <2>1
    <3> QED BY <1>1, <3>1
  <2>2. CASE T # {}
    <3>1. T \in SUBSET Nat
      BY <1>1
    <3> HIDE DEF T
    <3>2. PICK x \in T : \A y \in T : x <= y
      BY <2>2, <3>1, Least
    <3> USE DEF T
    <3>3. x \in 1..Len(q) /\ x - 1 \in 0..Len(q) /\ (x - 1) + 1 = x
      BY <1>1
    <3>4. \A i \in 1..(x - 1) : i \in 1..Len(q) /\ ~(x <= i)
      BY <1>1, <3>3
    <3>5. \A i \in 1..(x - 1) : q[i].seq + q[i].len <= ack
      BY <3>2, <3>4
    <3>6. q[x].seq + q[x].len > ack
      BY <1>2, <3>3
    <3>7. P(x - 1)
      BY <3>3, <3>5, <3>6
    <3> QED BY <3>3, <3>7
  <2> QED BY <2>1, <2>2
<1> HIDE DEF T, P
<1>4. c \in 0..Len(q)
  BY <1>3
<1>5. Unacked(q, ack) = SubSeq(q, c + 1, Len(q))
  BY DEF Unacked, P
<1> HIDE DEF c
<1>6. /\ SubSeq(q, c + 1, Len(q)) \in Seq(Entry)
      /\ Len(SubSeq(q, c + 1, Len(q))) = Len(q) - c
      /\ \A i \in 1..(Len(q) - c) : SubSeq(q, c + 1, Len(q))[i] = q[c + i]
  <2>1. c + 1 \in Int /\ Len(q) \in Int /\ \A i \in (c + 1)..Len(q) : q[i] \in Entry
    BY <1>1, <1>4
  <2>2. /\ SubSeq(q, c + 1, Len(q)) \in Seq(Entry)
        /\ Len(SubSeq(q, c + 1, Len(q))) = IF c + 1 <= Len(q) THEN Len(q) - (c + 1) + 1 ELSE 0
        /\ \A i \in 1..(Len(q) - (c + 1) + 1) : SubSeq(q, c + 1, Len(q))[i] = q[(c + 1) + i - 1]
    BY <2>1, SubSeqProperties
  <2>3. Len(q) - (c + 1) + 1 = Len(q) - c /\ (~(c + 1 <= Len(q)) => Len(q) - c = 0)
    BY <1>1, <1>4
  <2>4. \A i \in 1..(Len(q) - c) : (c + 1) + i - 1 = c + i
    BY <1>1, <1>4
  <2> QED BY <2>2, <2>3, <2>4
<1>7. \A i \in 1..(Len(q) - c) : c + i \in 1..Len(q)
  BY <1>1, <1>4
<1> QED BY <1>5, <1>6, <1>7

\* A queue of which every entry was there before.
LEMMA ShorterQueue ==
    ASSUME NEW q, NEW r, \A i \in 1..Len(r) : \E j \in 1..Len(q) : r[i] = q[j], NEW len, NEW k,
           Queued(r, len, k)
    PROVE  Queued(q, len, k)
BY DEF Queued

\* The retransmission of the head counts one more attempt of it.
LEMMA HeadCounted ==
    ASSUME NEW q \in Seq(Entry), q # <<>>
    PROVE  LET r == [q EXCEPT ![1].numRetransmits = @ + 1] IN
           /\ r \in Seq(Entry) /\ Len(r) = Len(q) /\ 1 \in 1..Len(q) /\ q[1] \in Entry
           /\ r[1].numRetransmits = q[1].numRetransmits + 1
           /\ \A i \in 1..Len(q) : /\ r[i].len = q[i].len /\ r[i].seq = q[i].seq
                                   /\ i # 1 => r[i] = q[i]
<1> DEFINE e == [q[1] EXCEPT !.numRetransmits = q[1].numRetransmits + 1]
           r == [q EXCEPT ![1] = e]
<1>1. Len(q) \in Nat /\ Len(q) # 0 /\ \A i \in 1..Len(q) : q[i] \in Entry
  OBVIOUS
<1>2. 1 \in 1..Len(q)
  BY <1>1
<1>3. q[1].numRetransmits + 1 \in Nat
  BY <1>1, <1>2 DEF Entry
<1>4. /\ e \in Entry /\ e.len = q[1].len /\ e.seq = q[1].seq
      /\ e.numRetransmits = q[1].numRetransmits + 1
  BY <1>1, <1>2, <1>3 DEF Entry
<1> HIDE DEF e
<1>5. /\ r \in Seq(Entry) /\ Len(r) = Len(q) /\ r[1] = e
      /\ \A i \in 1..Len(q) : i # 1 => r[i] = q[i]
  BY <1>1, <1>2, <1>4, ExceptSeq
<1>6. [q EXCEPT ![1].numRetransmits = @ + 1] = r
  BY DEF e
<1> HIDE DEF r
<1> QED BY <1>1, <1>2, <1>4, <1>5, <1>6

\* A step that only takes from the queue or counts in it, and sends again what is in it.
LEMMA QueueStepKeeps ==
    ASSUME CloseInv, NEW h \in Hosts, NEW t \in SocketEntry, sock' = [sock EXCEPT ![h] = t],
           t.nxt = sock[h].nxt, t.lbw = sock[h].lbw, t.rcvNxt = sock[h].rcvNxt,
           t.fin = sock[h].fin, t.early = sock[h].early, t.isProbing = sock[h].isProbing,
           t.una <= t.nxt, t.callbacks <= MaxCallbacks, QueueInv(t),
           \/ t.state = sock[h].state
           \/ t.state = "FIN_WAIT_2" /\ consumed[Peer(h)]
           \/ t.state = "CLOSED",
           \A i \in 1..Len(t.queue) : \E j \in 1..Len(sock[h].queue) :
              t.queue[i].len = sock[h].queue[j].len /\ t.queue[i].seq = sock[h].queue[j].seq,
           net' \in [Hosts -> SUBSET Packets], net'[h] \subseteq net[h],
           \A m \in net'[Peer(h)] :
              \/ m \in net[Peer(h)]
              \/ m.type = "DATA" /\ Queued(sock[h].queue, 1, m.seq)
              \/ m.type = "FIN" /\ m.ack = sock[h].rcvNxt /\ Queued(sock[h].queue, 0, m.seq),
           UNCHANGED <<closer, ip, losses, rsts, consumed>>
    PROVE  CloseInv'
<1>1. /\ sock[h] \in SocketEntry /\ SocketInv(h) /\ DirectionInv(h) /\ sock[h].lbw \in Nat
      /\ sock[h].rcvNxt \in Nat
  BY HostFacts
<1>2. Peer(h) \in Hosts /\ Peer(h) # h /\ Peer(Peer(h)) = h
  BY PeerFacts
<1>3. sock'[h] = t /\ sock'[Peer(h)] = sock[Peer(h)]
  BY <1>2 DEF CloseInv, Typed
<1>4. Typed'
  BY DEF CloseInv, Typed
<1>5. SocketInv(h)'
  BY <1>1, <1>3 DEF SocketInv
<1>6. SocketInv(Peer(h))'
  BY <1>3, PeerSocketKept
<1>7. \A m \in net'[Peer(h)] : \/ m \in net[Peer(h)]
                               \/ m.type \in {"ACK", "FIN"} => m.ack <= sock[h].rcvNxt
  BY <1>1
<1>8. DirectionInv(Peer(h))'
  BY <1>3, <1>7, PeerDirectionKept
<1>9. ASSUME NEW k \in Nat
      PROVE  (ByteOut(h, k)' => ByteOut(h, k)) /\ (FinOut(h, k)' => FinOut(h, k))
  <2>1. \A len : Queued(t.queue, len, k) => Queued(sock[h].queue, len, k)
    BY ZenonT(30) DEF Queued
  <2>2. UnderWay(h, "DATA", k)' => UnderWay(h, "DATA", k) \/ Queued(sock[h].queue, 1, k)
    BY DEF UnderWay
  <2>3. UnderWay(h, "FIN", k)' => UnderWay(h, "FIN", k) \/ Queued(sock[h].queue, 0, k)
    BY DEF UnderWay
  <2> QED BY <1>3, <2>1, <2>2, <2>3 DEF ByteOut, FinOut
<1>10. DirectionInv(h)'
  <2>1. /\ sock'[h].nxt = sock[h].nxt /\ sock'[h].lbw \in Nat /\ sock[h].lbw <= sock'[h].lbw
        /\ sock'[h].lbw = sock[h].lbw
    BY <1>1, <1>3
  <2>2. /\ FinSent(h)' <=> FinSent(h)
        /\ FinCounted(h)' <=> FinCounted(h)
        /\ (closer'[h] = "queue") <=> (closer[h] = "queue")
        /\ Draining(h)' <=> Draining(h)
    BY DEF FinSent, FinCounted, Draining
  <2> QED BY <1>3, <1>9, <2>1, <2>2, DirectionKept
<1> QED BY <1>4, <1>5, <1>6, <1>8, <1>10, BothHosts

LEMMA retransmitSegmentKeeps ==
    ASSUME CloseInv, NEW h \in Hosts, retransmitSegment(h)
    PROVE  CloseInv'
<1> DEFINE s == sock[h]
           q == [s.queue EXCEPT ![1].numRetransmits = @ + 1]
           r == [s EXCEPT !.callbacks = s.callbacks - 1, !.queue = q]
<1>1. /\ s \in SocketEntry /\ SocketInv(h) /\ DirectionInv(h) /\ s.rcvNxt \in Nat
      /\ s.queue \in Seq(Entry) /\ s.callbacks \in Nat /\ s.callbacks > 0 /\ ~s.panicked
      /\ QueueInv(s) /\ s.callbacks <= MaxCallbacks /\ s.una <= s.nxt
  BY HostFacts DEF retransmitSegment, SocketInv, Running
<1>2. Peer(h) \in Hosts /\ Peer(h) # h /\ Peer(Peer(h)) = h
  BY PeerFacts
<1>3. UNCHANGED <<closer, ip, losses, rsts, consumed>>
  BY DEF retransmitSegment
<1>4. CASE s.queue = <<>>
  <2> DEFINE t == [s EXCEPT !.panicked = TRUE]
  <2>1. sock' = [sock EXCEPT ![h] = t] /\ net' = net
    BY <1>4 DEF retransmitSegment, CloseInv, Typed
  <2>2. /\ t \in SocketEntry /\ t.panicked /\ t.state = s.state
        /\ t.una = s.una /\ t.nxt = s.nxt /\ t.lbw = s.lbw
        /\ t.isProbing = s.isProbing /\ t.queue = s.queue
        /\ t.rcvNxt = s.rcvNxt /\ t.fin = s.fin /\ t.early = s.early
        /\ t.callbacks <= MaxCallbacks
    BY <1>1 DEF SocketEntry
  <2> HIDE DEF t
  <2> QED BY <1>3, <2>1, <2>2, StateKeeps DEF CloseInv, Typed
<1>5. ASSUME s.queue # <<>>
      PROVE  /\ q \in Seq(Entry) /\ Len(q) = Len(s.queue) /\ 1 \in 1..Len(s.queue)
             /\ s.queue[1] \in Entry /\ q[1].numRetransmits = s.queue[1].numRetransmits + 1
             /\ \A i \in 1..Len(s.queue) : /\ q[i].len = s.queue[i].len /\ q[i].seq = s.queue[i].seq
                                           /\ i # 1 => q[i] = s.queue[i]
  BY <1>1, <1>5, HeadCounted
<1>6. ASSUME s.queue # <<>>
      PROVE  /\ r \in SocketEntry /\ r.queue = q /\ r.callbacks = s.callbacks - 1
             /\ r.state = s.state /\ r.una = s.una /\ r.nxt = s.nxt /\ r.lbw = s.lbw
             /\ r.isProbing = s.isProbing /\ r.rcvNxt = s.rcvNxt /\ r.fin = s.fin
             /\ r.early = s.early /\ r.torn = s.torn /\ r.panicked = s.panicked
  <2>1. s.callbacks - 1 \in Nat /\ q \in Seq(Entry)
    BY <1>1, <1>5, <1>6
  <2> HIDE DEF q
  <2> QED BY <1>1, <2>1 DEF SocketEntry
<1>7. s.queue # <<>> =>
         \/ /\ exhausted(s.queue[1].numRetransmits)
            /\ sock' = [sock EXCEPT ![h] = closed(r)] /\ net' = net
         \/ /\ ~exhausted(s.queue[1].numRetransmits)
            /\ sock' = [sock EXCEPT ![h] =
                  [r EXCEPT !.rto = TRUE, !.callbacks = IF s.rto THEN s.callbacks ELSE r.callbacks]]
            /\ net' = [net EXCEPT ![Peer(h)] = @ \cup {Resent(s, s.queue[1])}]
  <2>1. [s EXCEPT !.callbacks = @ - 1, !.queue[1].numRetransmits = @ + 1] = r
    OBVIOUS
  <2> HIDE DEF r
  <2> QED BY <2>1 DEF retransmitSegment, Sent
<1> HIDE DEF q, r
\* The head is the only entry that counts one attempt more.
<1>8. ASSUME s.queue # <<>>, NEW i \in 1..Len(q), NEW n \in Nat,
             s.queue[1].numRetransmits <= n,
             \A j \in 1..Len(s.queue) : s.queue[j].numRetransmits <= n + 1
      PROVE  q[i].numRetransmits <= n + 1
  <2>1. s.queue[1].numRetransmits \in Nat
    BY <1>5, <1>8 DEF Entry
  <2>2. CASE i = 1
    BY <1>5, <1>8, <2>1, <2>2
  <2>3. CASE i # 1
    BY <1>5, <1>8, <2>3
  <2> QED BY <2>2, <2>3
<1>9. CASE s.queue # <<>> /\ exhausted(s.queue[1].numRetransmits)
  <2> DEFINE t == closed(r)
  <2>1. sock' = [sock EXCEPT ![h] = t] /\ net' = net
    BY <1>7, <1>9
  <2>2. /\ t \in SocketEntry /\ t.state = "CLOSED" /\ t.queue = q
        /\ t.una = s.una /\ t.nxt = s.nxt /\ t.lbw = s.lbw
        /\ t.isProbing = s.isProbing /\ t.rcvNxt = s.rcvNxt /\ t.fin = s.fin /\ t.early = s.early
        /\ t.callbacks = s.callbacks - 1
        /\ t.panicked \/ (t.torn /\ ~s.torn)
    BY <1>6, <1>9, ClosedFacts
  <2> HIDE DEF t
  <2>3. t.una <= t.nxt /\ t.callbacks <= MaxCallbacks
    BY <1>1, <2>2, Bounds
  <2>4. QueueInv(t)
    <3>1. ASSUME ~t.panicked, NEW i \in 1..Len(q) PROVE q[i].numRetransmits <= MaxRetrans + 1
      <4>1. \A j \in 1..Len(s.queue) : s.queue[j].numRetransmits <= MaxRetrans + 1
        BY <1>1 DEF QueueInv
      <4>2. s.queue[1].numRetransmits <= MaxRetrans
        BY <1>1, <1>5, <1>9, <2>2, <3>1 DEF QueueInv
      <4> QED BY <1>8, <1>9, <4>1, <4>2, Bounds
    <3> QED BY <2>2, <3>1 DEF QueueInv
  <2>5. \A i \in 1..Len(t.queue) : \E j \in 1..Len(s.queue) :
           t.queue[i].len = s.queue[j].len /\ t.queue[i].seq = s.queue[j].seq
    BY <1>5, <1>9, <2>2
  <2>6. net' \in [Hosts -> SUBSET Packets]
    BY <2>1 DEF CloseInv, Typed
  <2> QED BY <1>3, <2>1, <2>2, <2>3, <2>4, <2>5, <2>6, QueueStepKeeps
<1>10. CASE s.queue # <<>> /\ ~exhausted(s.queue[1].numRetransmits)
  <2> DEFINE n == IF s.rto THEN s.callbacks ELSE r.callbacks
             t == [r EXCEPT !.rto = TRUE, !.callbacks = n]
             m == Resent(s, s.queue[1])
  <2>1. sock' = [sock EXCEPT ![h] = t] /\ net' = [net EXCEPT ![Peer(h)] = net[Peer(h)] \cup {m}]
    BY <1>7, <1>10
  <2>2. n \in Nat /\ n <= MaxCallbacks
    BY <1>1, <1>6, <1>10, Bounds
  <2>3. /\ t \in SocketEntry /\ t.state = s.state /\ t.queue = q
        /\ t.una = s.una /\ t.nxt = s.nxt /\ t.lbw = s.lbw
        /\ t.isProbing = s.isProbing /\ t.rcvNxt = s.rcvNxt /\ t.fin = s.fin /\ t.early = s.early
        /\ t.callbacks = n /\ t.panicked = s.panicked /\ t.torn = s.torn
    <3> HIDE DEF n
    <3> QED BY <1>6, <1>10, <2>2 DEF SocketEntry
  <2> HIDE DEF t, n
  <2>4. QueueInv(t)
    <3>1. s.queue[1].numRetransmits \in Nat /\ s.queue[1].numRetransmits < MaxRetrans
      BY <1>5, <1>10, Bounds DEF exhausted, Entry
    <3>2. \A j \in 1..Len(s.queue) : /\ s.queue[j].numRetransmits <= MaxRetrans + 1
                                     /\ ~s.torn => s.queue[j].numRetransmits <= MaxRetrans
      BY <1>1 DEF QueueInv
    <3>3. ASSUME NEW i \in 1..Len(q)
          PROVE  /\ q[i].numRetransmits <= MaxRetrans + 1
                 /\ ~s.torn => q[i].numRetransmits <= MaxRetrans
      <4>1. CASE i = 1
        BY <1>5, <1>10, <3>1, <4>1, Bounds
      <4>2. CASE i # 1
        BY <1>5, <1>10, <3>2, <4>2
      <4> QED BY <4>1, <4>2
    <3> QED BY <2>3, <3>3 DEF QueueInv
  <2>5. \A i \in 1..Len(t.queue) : \E j \in 1..Len(s.queue) :
           t.queue[i].len = s.queue[j].len /\ t.queue[i].seq = s.queue[j].seq
    BY <1>5, <1>10, <2>3
  <2>6. /\ Queued(s.queue, s.queue[1].len, s.queue[1].seq)
        /\ s.queue[1].len \in {0, 1} /\ s.queue[1].seq \in Nat
    BY <1>5, <1>10 DEF Queued, Entry
  <2>7. \/ m.type = "DATA" /\ Queued(s.queue, 1, m.seq)
        \/ m.type = "FIN" /\ m.ack = s.rcvNxt /\ Queued(s.queue, 0, m.seq)
    BY <2>6 DEF Resent, FinSeg, DataSeg
  <2>8. m \in Packets
    <3>1. s.queue[1].seq \in 0..(ISN + MaxData + 2)
      <4>1. s.queue[1].len = 1 => s.queue[1].seq <= s.lbw /\ s.lbw \in Nat /\ s.lbw < Limit
        BY <1>1, <2>6, HostFacts DEF DirectionInv, DataInv, ByteOut, SocketInv
      <4>2. CASE s.queue[1].len = 1
        BY <2>6, <4>1, <4>2, Bounds DEF Limit
      <4>3. CASE s.queue[1].len = 0
        <5>1. FinOut(h, s.queue[1].seq)
          BY <2>6, <4>3 DEF FinOut
        <5>2. s.queue[1].seq <= FinLimit(h)
          BY <1>1, <2>6, <5>1 DEF DirectionInv, FinInv
        <5> QED BY <2>6, <5>2, Bounds DEF FinLimit, Limit
      <4> QED BY <2>6, <4>2, <4>3
    <3>2. s.rcvNxt \in 0..(ISN + MaxData + 2)
      <4>1. s.rcvNxt <= FinLimit(Peer(h)) + 1
        BY <1>2, HostFacts DEF DirectionInv, FinInv
      <4> QED BY <1>1, <4>1, Bounds DEF FinLimit, Limit
    <3> QED BY <3>1, <3>2 DEF Packets, Resent, FinSeg, DataSeg
  <2> HIDE DEF m
  <2>9. net' \in [Hosts -> SUBSET Packets] /\ net'[h] = net[h] /\ net'[Peer(h)] = net[Peer(h)] \cup {m}
    BY <1>2, <2>1, <2>8 DEF CloseInv, Typed
  <2>10. t.una <= t.nxt /\ t.callbacks <= MaxCallbacks
    BY <1>1, <2>2, <2>3
  <2> QED BY <1>3, <2>1, <2>3, <2>4, <2>5, <2>7, <2>9, <2>10, QueueStepKeeps
<1> QED BY <1>4, <1>9, <1>10

-----------------------------------------------------------------------------
(* handlePureAck *)

\* A probe's byte that nxt did not count is acknowledged.  That acknowledges more than
\* nxt counts, which the peer has taken in only with the FIN.
LEMMA ProbeAckKeeps ==
    ASSUME CloseInv, NEW h \in Hosts, NEW m \in net[h], m.type \in {"ACK", "FIN"},
           sock[h].isProbing, m.ack = sock[h].nxt + 1,
           sock' = [sock EXCEPT ![h] = [sock[h] EXCEPT !.una = m.ack, !.nxt = m.ack]],
           net' = [net EXCEPT ![h] = @ \ {m}],
           UNCHANGED <<closer, ip, losses, rsts, consumed>>
    PROVE  CloseInv'
<1> DEFINE s == sock[h]
           t == [s EXCEPT !.una = m.ack, !.nxt = m.ack]
<1>1. /\ s \in SocketEntry /\ SocketInv(h) /\ DirectionInv(h) /\ s.nxt \in Nat /\ s.lbw \in Nat
      /\ s.una \in Nat /\ net[h] \subseteq Packets
  BY HostFacts
<1>2. Peer(h) \in Hosts /\ Peer(h) # h /\ Peer(Peer(h)) = h /\ sock[Peer(h)].rcvNxt \in Nat
  BY PeerFacts, HostFacts
<1>3. m.ack \in Nat /\ m.ack <= sock[Peer(h)].rcvNxt
  BY <1>1, PacketFacts DEF DirectionInv, AcksInv
<1>4. /\ t \in SocketEntry /\ t.queue = s.queue /\ t.nxt = m.ack /\ t.una = m.ack
      /\ t.isProbing = s.isProbing /\ t.state = s.state /\ t.lbw = s.lbw
      /\ t.callbacks = s.callbacks
      /\ t.rcvNxt = s.rcvNxt /\ t.fin = s.fin /\ t.early = s.early /\ t.torn = s.torn
      /\ t.panicked = s.panicked
  BY <1>1, <1>3 DEF SocketEntry
<1>5. sock' = [sock EXCEPT ![h] = t]
  OBVIOUS
<1> HIDE DEF t
<1>6. sock'[h] = t /\ sock'[Peer(h)] = sock[Peer(h)]
  BY <1>2, <1>5 DEF CloseInv, Typed
<1>7. net'[h] \subseteq net[h] /\ net'[Peer(h)] = net[Peer(h)]
  BY <1>2 DEF CloseInv, Typed
<1>8. Typed'
  BY <1>4, <1>5 DEF CloseInv, Typed
<1>9. SocketInv(h)'
  <2>1. QueueInv(t)
    BY <1>1, <1>4 DEF SocketInv, QueueInv
  <2>2. t.una <= t.nxt
    BY <1>3, <1>4
  <2> QED BY <1>1, <1>4, <1>6, <2>1, <2>2 DEF SocketInv
<1>10. SocketInv(Peer(h))' /\ DirectionInv(Peer(h))'
  <2>1. SocketInv(Peer(h))'
    BY <1>6, PeerSocketKept
  <2> QED BY <1>4, <1>6, <1>7, <2>1, PeerDirectionKept
<1>11. \A k \in Nat : (ByteOut(h, k)' => ByteOut(h, k)) /\ (FinOut(h, k)' => FinOut(h, k))
  BY <1>4, <1>6, <1>7, OutKept
\* The FIN has been taken in.
<1>12. consumed[Peer(h)]
  <2> SUFFICES ASSUME ~consumed[Peer(h)] PROVE FALSE
    OBVIOUS
  <2>1. CASE FinCounted(h)
    <3>1. PICK g \in Nat : g < s.nxt /\ sock[Peer(h)].rcvNxt <= g
      BY <1>1, <2>1 DEF DirectionInv, GapInv
    <3> QED BY <1>1, <1>2, <1>3, <3>1
  <2>2. CASE ~FinCounted(h)
    <3>1. sock[Peer(h)].rcvNxt <= s.nxt
      BY <1>1, <2>2 DEF DirectionInv, GapInv
    <3> QED BY <1>1, <1>2, <1>3, <3>1
  <2> QED BY <2>1, <2>2
<1>13. DirectionInv(h)'
  <2>1. DataInv(h)'
    <3>1. \A k \in Nat : k < s.nxt => k < t.nxt
      BY <1>1, <1>3, <1>4
    <3> QED BY <1>1, <1>4, <1>6, <1>11, <3>1 DEF DirectionInv, DataInv
  <2>2. AcksInv(h)'
    BY <1>1, <1>6, <1>7 DEF DirectionInv, AcksInv
  <2>3. GapInv(h)'
    BY <1>12 DEF GapInv
  <2>4. FinInv(h)'
    <3>1. FinSent(h) /\ sock[Peer(h)].rcvNxt <= FinLimit(h) + 1
      BY <1>1, <1>12 DEF DirectionInv, FinInv
    <3>2. closer[h] = "queue" => t.nxt <= Limit + 1
      BY <1>2, <1>3, <1>4, <3>1, Bounds DEF FinLimit
    <3> QED BY <1>1, <1>6, <1>11, <3>1, <3>2 DEF DirectionInv, FinInv, FinSent, FinLimit
  <2>5. OrderInv(h)'
    BY <1>1 DEF OrderInv, Sequential, SocketInv
  <2> QED BY <2>1, <2>2, <2>3, <2>4, <2>5 DEF DirectionInv
<1> QED BY <1>8, <1>9, <1>10, <1>13, BothHosts

LEMMA handlePureAckKeeps ==
    ASSUME CloseInv, NEW h \in Hosts, handlePureAck(h)
    PROVE  CloseInv'
<1> DEFINE s == sock[h]
<1>1. PICK m \in net[h] :
         /\ m.type \in {"ACK", "FIN"} /\ ~s.panicked
         /\ net' = [net EXCEPT ![h] = @ \ {m}]
         /\ LET q == Unacked(s.queue, m.ack)
                a == [s EXCEPT !.una = m.ack, !.queue = q, !.rto = q # <<>>]
            IN  sock' = [sock EXCEPT ![h] =
                   CASE m.ack > s.nxt /\ s.isProbing /\ m.ack = s.nxt + 1 ->
                          [s EXCEPT !.una = m.ack, !.nxt = m.ack]
                     [] s.una < m.ack /\ m.ack <= s.nxt ->
                          IF s.state = "FIN_WAIT_1" /\ acksFin(s, m.ack)
                          THEN [a EXCEPT !.state = "FIN_WAIT_2"]
                          ELSE IF s.state = "LAST_ACK" /\ acksFin(s, m.ack) THEN closed(a)
                          ELSE a
                     [] OTHER -> s]
         /\ UNCHANGED <<closer, ip, losses, rsts, consumed>>
  BY DEF handlePureAck, Receives, Running
<1> DEFINE q == Unacked(s.queue, m.ack)
           a == [s EXCEPT !.una = m.ack, !.queue = q, !.rto = q # <<>>]
<1>2. /\ s \in SocketEntry /\ SocketInv(h) /\ DirectionInv(h) /\ s.nxt \in Nat /\ s.lbw \in Nat
      /\ s.una \in Nat /\ net[h] \subseteq Packets /\ s.queue \in Seq(Entry)
      /\ QueueInv(s) /\ s.una <= s.nxt /\ s.callbacks <= MaxCallbacks
  BY HostFacts DEF SocketInv
<1>3. Peer(h) \in Hosts /\ Peer(h) # h /\ Peer(Peer(h)) = h /\ sock[Peer(h)].rcvNxt \in Nat
  BY PeerFacts, HostFacts
<1>4. m.ack \in Nat /\ m.ack <= sock[Peer(h)].rcvNxt
  BY <1>1, <1>2, PacketFacts DEF DirectionInv, AcksInv
<1>5. /\ net' \in [Hosts -> SUBSET Packets] /\ net'[h] \subseteq net[h]
      /\ \A x \in net'[Peer(h)] :
            \/ x \in net[Peer(h)]
            \/ x.type = "DATA" /\ Queued(s.queue, 1, x.seq)
            \/ x.type = "FIN" /\ x.ack = s.rcvNxt /\ Queued(s.queue, 0, x.seq)
      /\ UNCHANGED <<closer, ip, losses, rsts, consumed>>
  BY <1>1, <1>3 DEF CloseInv, Typed
<1>6. CASE m.ack > s.nxt /\ s.isProbing /\ m.ack = s.nxt + 1
  <2>1. sock' = [sock EXCEPT ![h] = [sock[h] EXCEPT !.una = m.ack, !.nxt = m.ack]]
    <3> DEFINE p == [sock[h] EXCEPT !.una = m.ack, !.nxt = m.ack]
               r == IF s.state = "FIN_WAIT_1" /\ acksFin(s, m.ack)
                    THEN [a EXCEPT !.state = "FIN_WAIT_2"]
                    ELSE IF s.state = "LAST_ACK" /\ acksFin(s, m.ack) THEN closed(a)
                    ELSE a
    <3>1. sock' = [sock EXCEPT ![h] =
                     CASE m.ack > s.nxt /\ s.isProbing /\ m.ack = s.nxt + 1 -> p
                       [] s.una < m.ack /\ m.ack <= s.nxt -> r
                       [] OTHER -> s]
      BY <1>1
    <3>2. ~(m.ack <= s.nxt)
      BY <1>2, <1>4, <1>6
    <3> HIDE DEF p, r
    <3>3. sock' = [sock EXCEPT ![h] = p]
      BY <1>6, <3>1, <3>2
    <3> QED BY <3>3 DEF p
  <2> QED BY <1>1, <1>6, <2>1, ProbeAckKeeps
<1>7. CASE s.una < m.ack /\ m.ack <= s.nxt
  <2>1. q \in Seq(Entry) /\ \A i \in 1..Len(q) : \E j \in 1..Len(s.queue) : q[i] = s.queue[j]
    BY <1>2, <1>4, UnackedFacts
  <2> HIDE DEF q
  <2>2. /\ a \in SocketEntry /\ a.queue = q /\ a.nxt = s.nxt /\ a.una = m.ack
        /\ a.isProbing = s.isProbing /\ a.state = s.state /\ a.lbw = s.lbw
        /\ a.callbacks = s.callbacks
        /\ a.rcvNxt = s.rcvNxt /\ a.fin = s.fin /\ a.early = s.early /\ a.torn = s.torn
        /\ a.panicked = s.panicked
    BY <1>2, <1>4, <2>1 DEF SocketEntry
  <2> DEFINE f == [a EXCEPT !.state = "FIN_WAIT_2"]
             c == closed(a)
  <2>3. \/ sock' = [sock EXCEPT ![h] = f] /\ s.state = "FIN_WAIT_1" /\ m.ack = s.nxt
        \/ sock' = [sock EXCEPT ![h] = c]
        \/ sock' = [sock EXCEPT ![h] = a]
    <3> HIDE DEF a
    <3>1. ~(m.ack > s.nxt)
      BY <1>2, <1>4, <1>7
    <3>2. sock' = [sock EXCEPT ![h] =
                     IF s.state = "FIN_WAIT_1" /\ acksFin(s, m.ack) THEN f
                     ELSE IF s.state = "LAST_ACK" /\ acksFin(s, m.ack) THEN c
                     ELSE a]
      BY <1>1, <1>7, <3>1 DEF a, q
    <3> HIDE DEF f, c
    <3> QED BY <3>2 DEF acksFin
  <2> HIDE DEF a
  <2>4. \A i \in 1..Len(q) : \E j \in 1..Len(s.queue) :
           q[i].len = s.queue[j].len /\ q[i].seq = s.queue[j].seq
    BY <2>1
  <2>5. ASSUME NEW t \in SocketEntry, t.queue = q, t.torn = s.torn \/ t.panicked \/ t.torn,
               t.panicked \/ t.torn \/ (t.torn = s.torn /\ t.panicked = s.panicked)
        PROVE  QueueInv(t)
    <3>1. ASSUME NEW i \in 1..Len(q)
          PROVE  /\ q[i].numRetransmits <= MaxRetrans + 1
                 /\ ~s.torn => q[i].numRetransmits <= MaxRetrans
      <4>1. PICK j \in 1..Len(s.queue) : q[i] = s.queue[j]
        BY <2>1
      <4> QED BY <1>1, <1>2, <4>1 DEF QueueInv
    <3> QED BY <2>5, <3>1 DEF QueueInv
  <2>6. CASE sock' = [sock EXCEPT ![h] = f] /\ s.state = "FIN_WAIT_1" /\ m.ack = s.nxt
    <3>1. /\ f \in SocketEntry /\ f.queue = q /\ f.nxt = s.nxt /\ f.una = m.ack
          /\ f.isProbing = s.isProbing /\ f.state = "FIN_WAIT_2" /\ f.lbw = s.lbw
          /\ f.callbacks = s.callbacks
          /\ f.rcvNxt = s.rcvNxt /\ f.fin = s.fin /\ f.early = s.early /\ f.torn = s.torn
          /\ f.panicked = s.panicked
      BY <2>2 DEF SocketEntry, States
    <3> HIDE DEF f
    \* nxt counts the FIN, and no byte has its number.
    <3>2. consumed[Peer(h)]
      <4> SUFFICES ASSUME ~consumed[Peer(h)] PROVE FALSE
        OBVIOUS
      <4>1. FinCounted(h)
        BY <1>2, <2>6 DEF SocketInv, FinCounted
      <4>2. PICK g \in Nat : g < s.nxt /\ sock[Peer(h)].rcvNxt <= g
        BY <1>2, <4>1 DEF DirectionInv, GapInv
      <4> QED BY <1>2, <1>3, <1>4, <2>6, <4>2
    <3>3. QueueInv(f) /\ f.una <= f.nxt /\ f.callbacks <= MaxCallbacks
      BY <1>2, <1>7, <2>5, <3>1
    <3> QED BY <1>5, <2>4, <2>6, <3>1, <3>2, <3>3, QueueStepKeeps
  <2>7. CASE sock' = [sock EXCEPT ![h] = c]
    <3>1. /\ c \in SocketEntry /\ c.queue = q /\ c.nxt = s.nxt /\ c.una = m.ack
          /\ c.isProbing = s.isProbing /\ c.state = "CLOSED" /\ c.lbw = s.lbw
          /\ c.callbacks = s.callbacks
          /\ c.rcvNxt = s.rcvNxt /\ c.fin = s.fin /\ c.early = s.early
          /\ c.panicked \/ c.torn
      BY <2>2, ClosedFacts
    <3> HIDE DEF c
    <3>2. QueueInv(c) /\ c.una <= c.nxt /\ c.callbacks <= MaxCallbacks
      BY <1>2, <1>7, <2>5, <3>1
    <3> QED BY <1>5, <2>4, <2>7, <3>1, <3>2, QueueStepKeeps
  <2>8. CASE sock' = [sock EXCEPT ![h] = a]
    <3>1. QueueInv(a) /\ a.una <= a.nxt /\ a.callbacks <= MaxCallbacks
      BY <1>2, <1>7, <2>2, <2>5
    <3> QED BY <1>5, <2>2, <2>4, <2>8, <3>1, QueueStepKeeps
  <2> QED BY <2>3, <2>6, <2>7, <2>8
<1>8. CASE /\ ~(m.ack > s.nxt /\ s.isProbing /\ m.ack = s.nxt + 1)
           /\ ~(s.una < m.ack /\ m.ack <= s.nxt)
  <2>1. sock' = [sock EXCEPT ![h] = s]
    BY <1>1, <1>8
  <2>2. \A i \in 1..Len(s.queue) : \E j \in 1..Len(s.queue) :
           s.queue[i].len = s.queue[j].len /\ s.queue[i].seq = s.queue[j].seq
    OBVIOUS
  <2> QED BY <1>2, <1>5, <2>1, <2>2, QueueStepKeeps
<1> QED BY <1>6, <1>7, <1>8

-----------------------------------------------------------------------------
(* What comes in: handlePayload and handleFin *)

\* The loop of handlePayload stops, and all bytes before that were waiting.
LEMMA DrainedFacts ==
    ASSUME NEW early \in [Seqs -> Nat], NEW seq \in Nat, seq <= Limit
    PROVE  /\ Drained(early, seq) \in Nat
           /\ seq + 1 <= Drained(early, seq) /\ Drained(early, seq) <= Limit + 1
           /\ \A k \in (seq + 1)..(Drained(early, seq) - 1) : k \in Seqs /\ early[k] > 0
<1> DEFINE R == (seq + 1)..(ISN + MaxData + 1)
           P(n) == ~Pops(early, seq, n) /\ \A k \in (seq + 1)..(n - 1) : Pops(early, seq, k)
           T == {n \in R : ~Pops(early, seq, n)}
           d == CHOOSE n \in R : P(n)
<1>1. R \subseteq Nat /\ Limit + 1 \in R /\ \A n \in R : seq + 1 <= n /\ n <= Limit + 1
  BY Bounds DEF Limit
<1>2. Limit + 1 \in T
  BY <1>1, Bounds DEF Pops
<1>3. \E n \in R : P(n)
  <2>1. T \in SUBSET Nat
    BY <1>1
  <2> HIDE DEF T
  <2>2. PICK x \in T : \A y \in T : x <= y
    BY <1>2, <2>1, Least
  <2> USE DEF T
  <2>3. x \in R /\ ~Pops(early, seq, x)
    OBVIOUS
  <2>4. ASSUME NEW k \in (seq + 1)..(x - 1) PROVE Pops(early, seq, k)
    <3>1. k \in R /\ ~(x <= k)
      BY <1>1, <2>3, <2>4, Bounds DEF Limit
    <3> QED BY <2>2, <3>1
  <2> QED BY <2>3, <2>4
<1> HIDE DEF R, T
<1>4. d \in R /\ P(d)
  BY <1>3
<1>5. Drained(early, seq) = d
  BY DEF Drained, R
<1> HIDE DEF d
<1>6. \A k \in (seq + 1)..(d - 1) : k \in Seqs /\ early[k] > 0
  BY <1>4 DEF Pops
<1> QED BY <1>1, <1>4, <1>5, <1>6

\* Host h takes a packet m in: it moves rcvNxt over what was out, answers at most with
\* an ACK of all it has taken in, and remembers only what was out.
LEMMA ReceiveKeeps ==
    ASSUME CloseInv, NEW h \in Hosts, NEW t \in SocketEntry, sock' = [sock EXCEPT ![h] = t],
           t.state = sock[h].state, t.una = sock[h].una, t.nxt = sock[h].nxt,
           t.lbw = sock[h].lbw, t.isProbing = sock[h].isProbing, t.queue = sock[h].queue,
           t.callbacks = sock[h].callbacks, t.torn = sock[h].torn,
           t.panicked = sock[h].panicked,
           sock[h].rcvNxt <= t.rcvNxt, t.rcvNxt <= FinLimit(Peer(h)) + 1,
           NEW m \in net[h], NEW out, out \subseteq {AckSeg(t.rcvNxt)},
           net' = [net EXCEPT ![h] = @ \ {m}, ![Peer(h)] = @ \cup out],
           \A k \in Seqs : t.early[k] > 0 => ByteOut(Peer(h), k),
           t.fin # 0 => FinOut(Peer(h), t.fin),
           consumed' \in [Hosts -> BOOLEAN], consumed'[Peer(h)] = consumed[Peer(h)],
           consumed[h] => consumed'[h], consumed'[h] => FinSent(Peer(h)),
           \/ consumed'[h]
           \/ IF FinCounted(Peer(h))
              THEN \E g \in Nat : g < sock[Peer(h)].nxt /\ t.rcvNxt <= g /\ ~ByteOut(Peer(h), g)
              ELSE t.rcvNxt <= sock[Peer(h)].nxt,
           Sequential /\ consumed'[h] => t.rcvNxt = sock[Peer(h)].lbw + 2,
           ip' \in [Hosts -> {"idle", "fin", "CLOSE_WAIT"}], UNCHANGED <<closer, losses, rsts>>
    PROVE  CloseInv'
<1> DEFINE p == Peer(h)
<1>1. /\ sock[h] \in SocketEntry /\ SocketInv(h) /\ DirectionInv(h) /\ sock[h].lbw \in Nat
      /\ sock[h].rcvNxt \in Nat /\ t.rcvNxt \in Nat
  BY HostFacts DEF SocketEntry
<1>2. /\ p \in Hosts /\ p # h /\ Peer(p) = h /\ DirectionInv(p)
      /\ sock[p].rcvNxt \in Nat /\ sock[p].nxt \in Nat
  BY PeerFacts, HostFacts
<1>3. sock'[h] = t /\ sock'[p] = sock[p]
  BY <1>2 DEF CloseInv, Typed
<1>4. AckSeg(t.rcvNxt) \in Packets /\ AckSeg(t.rcvNxt).type = "ACK" /\ AckSeg(t.rcvNxt).ack = t.rcvNxt
  <2>1. t.rcvNxt \in 0..(ISN + MaxData + 2)
    BY <1>1, Bounds DEF FinLimit, Limit
  <2> QED BY <2>1 DEF Packets, AckSeg
<1>5. net'[h] \subseteq net[h] /\ net'[p] \subseteq net[p] \cup {AckSeg(t.rcvNxt)}
  BY <1>2 DEF CloseInv, Typed
<1>6. Typed'
  <2>1. net' \in [Hosts -> SUBSET Packets]
    BY <1>4 DEF CloseInv, Typed
  <2> QED BY <2>1 DEF CloseInv, Typed
<1>7. SocketInv(h)'
  <2>1. QueueInv(t)
    BY <1>1 DEF SocketInv, QueueInv
  <2> QED BY <1>1, <1>3, <2>1 DEF SocketInv
<1>8. SocketInv(p)'
  BY <1>3, PeerSocketKept
<1>9. DirectionInv(h)'
  <2>1. \A k \in Nat : (ByteOut(h, k)' => ByteOut(h, k)) /\ (FinOut(h, k)' => FinOut(h, k))
    <3>1. \A x \in net'[p] : x \in net[p] \/ x.type \notin {"DATA", "FIN"}
      BY <1>4, <1>5
    <3> QED BY <1>3, <3>1, OutKept
  <2>2. /\ FinSent(h)' <=> FinSent(h)
        /\ FinCounted(h)' <=> FinCounted(h)
        /\ (closer'[h] = "queue") <=> (closer[h] = "queue")
        /\ Draining(h)' <=> Draining(h)
    BY DEF FinSent, FinCounted, Draining
  <2>3. /\ sock'[h].nxt = sock[h].nxt /\ sock'[h].lbw \in Nat /\ sock[h].lbw <= sock'[h].lbw
        /\ sock'[h].lbw = sock[h].lbw
    BY <1>1, <1>3
  <2> QED BY <1>3, <1>5, <2>1, <2>2, <2>3, DirectionKept
<1>10. ASSUME NEW k \in Nat
       PROVE  (ByteOut(p, k)' => ByteOut(p, k)) /\ (FinOut(p, k)' => FinOut(p, k))
  <2>1. \A type : UnderWay(p, type, k)' => UnderWay(p, type, k)
    BY <1>2, <1>5 DEF UnderWay
  <2>2. sock'[Peer(p)] = t
    BY <1>2, <1>3
  <2>3. ByteOut(p, k)' => ByteOut(p, k)
    BY <1>3, <2>1, <2>2 DEF ByteOut
  <2>4. FinOut(p, k)' => FinOut(p, k)
    BY <1>3, <2>1, <2>2 DEF FinOut
  <2> QED BY <2>3, <2>4
<1>11. DirectionInv(p)'
  <2>1. DataInv(p)'
    BY <1>2, <1>3, <1>10 DEF DirectionInv, DataInv
  <2>2. AcksInv(p)'
    <3>1. \A x \in net[p] : x.type \in {"ACK", "FIN"} => x.ack \in Nat /\ x.ack <= sock[h].rcvNxt
      BY <1>2, HostFacts, PacketFacts DEF DirectionInv, AcksInv
    <3>2. \A x \in net'[p] : x.type \in {"ACK", "FIN"} => x.ack <= t.rcvNxt
      BY <1>1, <1>4, <1>5, <3>1
    <3> QED BY <1>2, <1>3, <3>2 DEF AcksInv
  <2>3. GapInv(p)'
    <3>1. FinCounted(p)' <=> FinCounted(p)
      BY DEF FinCounted
    <3> QED BY <1>2, <1>3, <1>10, <3>1 DEF GapInv
  <2>4. FinInv(p)'
    <3>1. FinLimit(p)' = FinLimit(p) /\ (FinSent(p)' <=> FinSent(p))
      BY DEF FinLimit, FinSent
    <3> QED BY <1>2, <1>3, <1>10, <3>1 DEF DirectionInv, FinInv
  <2>5. OrderInv(p)'
    <3> SUFFICES ASSUME Sequential PROVE StreamInv(p)'
      BY DEF OrderInv, Sequential
    <3>1. (FinCounted(p)' <=> FinCounted(p)) /\ (Draining(p)' <=> Draining(p))
      BY DEF FinCounted, Draining
    <3>2. StreamInv(p)
      BY <1>2 DEF DirectionInv, OrderInv
    <3> QED BY <1>2, <1>3, <1>10, <3>1, <3>2 DEF StreamInv
  <2> QED BY <2>1, <2>2, <2>3, <2>4, <2>5 DEF DirectionInv
<1> QED BY <1>6, <1>7, <1>8, <1>9, <1>11, BothHosts

\* The numbers of what arrives, and of the sender's FIN.
LEMMA ArrivalFacts ==
    ASSUME CloseInv, NEW h \in Hosts
    PROVE  /\ Peer(h) \in Hosts /\ Peer(Peer(h)) = h
           /\ sock[Peer(h)].nxt \in Nat /\ sock[Peer(h)].lbw \in Nat /\ sock[Peer(h)].lbw < Limit
           /\ FinLimit(Peer(h)) \in {Limit, Limit + 1} /\ sock[h].rcvNxt <= FinLimit(Peer(h)) + 1
           /\ consumed[h] => FinSent(Peer(h))
           /\ \/ consumed[h]
              \/ IF FinCounted(Peer(h))
                 THEN \E g \in Nat : /\ g < sock[Peer(h)].nxt /\ sock[h].rcvNxt <= g
                                     /\ ~ByteOut(Peer(h), g)
                 ELSE sock[h].rcvNxt <= sock[Peer(h)].nxt
           /\ \A k \in Seqs : sock[h].early[k] > 0 => ByteOut(Peer(h), k)
           /\ sock[h].fin # 0 => FinOut(Peer(h), sock[h].fin)
           /\ \A k \in Nat : ByteOut(Peer(h), k) => k < sock[Peer(h)].nxt /\ k <= sock[Peer(h)].lbw
           /\ \A k \in Nat : FinOut(Peer(h), k) => k <= FinLimit(Peer(h)) /\ FinSent(Peer(h))
           /\ \A m \in net[h] : /\ m.type = "DATA" => m.seq \in Nat /\ ByteOut(Peer(h), m.seq)
                                /\ m.type = "FIN" => m.seq \in Nat /\ FinOut(Peer(h), m.seq)
           /\ Sequential => /\ consumed[h] => sock[h].rcvNxt = sock[Peer(h)].lbw + 2
                            /\ \A k \in Nat : FinOut(Peer(h), k) => k = sock[Peer(h)].lbw + 1
<1>1. Peer(h) \in Hosts /\ Peer(Peer(h)) = h
  BY PeerFacts
<1>2. /\ DataInv(Peer(h)) /\ GapInv(Peer(h)) /\ FinInv(Peer(h)) /\ SocketInv(Peer(h))
      /\ sock[Peer(h)].nxt \in Nat /\ sock[Peer(h)].lbw \in Nat
  BY <1>1, HostFacts DEF DirectionInv
<1>3. \A k \in Seqs : sock[h].early[k] > 0 => ByteOut(Peer(h), k)
  BY <1>1 DEF ByteOut
<1>4. sock[h].fin # 0 => FinOut(Peer(h), sock[h].fin)
  BY <1>1 DEF FinOut
<1>5. \A m \in net[h] : /\ m.type = "DATA" => m.seq \in Nat /\ ByteOut(Peer(h), m.seq)
                        /\ m.type = "FIN" => m.seq \in Nat /\ FinOut(Peer(h), m.seq)
  BY <1>1, HostFacts, PacketFacts DEF ByteOut, FinOut, UnderWay
<1>6. \/ consumed[h]
      \/ IF FinCounted(Peer(h))
         THEN \E g \in Nat : g < sock[Peer(h)].nxt /\ sock[h].rcvNxt <= g /\ ~ByteOut(Peer(h), g)
         ELSE sock[h].rcvNxt <= sock[Peer(h)].nxt
  BY <1>1, <1>2 DEF GapInv
<1>7. /\ consumed[h] => FinSent(Peer(h))
      /\ \A k \in Nat : FinOut(Peer(h), k) => k <= FinLimit(Peer(h)) /\ FinSent(Peer(h))
      /\ sock[h].rcvNxt <= FinLimit(Peer(h)) + 1
  BY <1>1, <1>2 DEF FinInv
<1>8. Sequential => /\ consumed[h] => sock[h].rcvNxt = sock[Peer(h)].lbw + 2
                    /\ \A k \in Nat : FinOut(Peer(h), k) => k = sock[Peer(h)].lbw + 1
  BY <1>1, HostFacts DEF DirectionInv, OrderInv, StreamInv
<1> QED BY <1>1, <1>2, <1>3, <1>4, <1>5, <1>6, <1>7, <1>8 DEF DataInv, SocketInv, FinLimit

LEMMA handleFinKeeps == ASSUME CloseInv, NEW h \in Hosts, handleFin(h) PROVE CloseInv'
<1> DEFINE s == sock[h]
<1>1. PICK m \in net[h] :
         /\ m.type = "FIN" /\ UNCHANGED <<closer, losses, rsts>>
         /\ \/ /\ finInOrder(s, m.seq)
               /\ sock' = [sock EXCEPT ![h].rcvNxt = m.seq + 1, ![h].fin = 0]
               /\ net' = Exchange(h, m, {AckSeg(m.seq + 1)})
               /\ ip' = [ip EXCEPT ![h] = "fin"]
               /\ consumed' = [consumed EXCEPT ![h] = TRUE]
            \/ /\ ~finInOrder(s, m.seq)
               /\ sock' = [sock EXCEPT ![h].fin = m.seq]
               /\ net' = Exchange(h, m, IF m.seq < s.rcvNxt THEN {AckSeg(s.rcvNxt)} ELSE {})
               /\ UNCHANGED <<ip, consumed>>
  BY DEF handleFin, Receives
<1>2. /\ s \in SocketEntry /\ s.rcvNxt \in Nat /\ m.seq \in Nat
      /\ FinOut(Peer(h), m.seq) /\ m.seq <= FinLimit(Peer(h)) /\ FinSent(Peer(h))
      /\ FinLimit(Peer(h)) \in Nat
  BY <1>1, HostFacts, ArrivalFacts, Bounds
<1>3. Peer(h) \in Hosts /\ Peer(h) # h
  BY PeerFacts
<1>4. CASE finInOrder(s, m.seq)
  <2> DEFINE n == m.seq + 1
             t == [s EXCEPT !.rcvNxt = n, !.fin = 0]
             out == {AckSeg(n)}
  <2>1. /\ sock' = [sock EXCEPT ![h] = t]
        /\ net' = [net EXCEPT ![h] = @ \ {m}, ![Peer(h)] = @ \cup out]
    BY <1>1, <1>4 DEF Exchange, CloseInv, Typed
  <2>2. n \in Nat /\ s.rcvNxt <= n /\ n <= FinLimit(Peer(h)) + 1
    BY <1>2, <1>4 DEF finInOrder
  <2>6. Sequential => n = sock[Peer(h)].lbw + 2
    <3>1. Sequential => m.seq = sock[Peer(h)].lbw + 1
      BY <1>2, ArrivalFacts
    <3>2. sock[Peer(h)].lbw \in Nat
      BY ArrivalFacts
    <3> QED BY <1>2, <3>1, <3>2
  <2> HIDE DEF n
  <2>3. /\ t \in SocketEntry /\ t.state = s.state /\ t.una = s.una /\ t.nxt = s.nxt
        /\ t.lbw = s.lbw /\ t.isProbing = s.isProbing /\ t.queue = s.queue
        /\ t.callbacks = s.callbacks /\ t.torn = s.torn /\ t.panicked = s.panicked
        /\ t.rcvNxt = n /\ t.fin = 0 /\ t.early = s.early
    BY <1>2, <2>2 DEF SocketEntry
  <2> HIDE DEF t
  <2>4. /\ consumed' \in [Hosts -> BOOLEAN] /\ consumed'[Peer(h)] = consumed[Peer(h)]
        /\ consumed'[h] /\ ip' \in [Hosts -> {"idle", "fin", "CLOSE_WAIT"}]
    BY <1>1, <1>3, <1>4 DEF CloseInv, Typed
  <2>5. out \subseteq {AckSeg(t.rcvNxt)} /\ \A k \in Seqs : t.early[k] > 0 => ByteOut(Peer(h), k)
    BY <2>3, ArrivalFacts
  <2> HIDE DEF out
  <2> QED BY <1>1, <1>2, <2>1, <2>2, <2>3, <2>4, <2>5, <2>6, ReceiveKeeps
<1>5. CASE ~finInOrder(s, m.seq)
  <2> DEFINE t == [s EXCEPT !.fin = m.seq]
             out == IF m.seq < s.rcvNxt THEN {AckSeg(s.rcvNxt)} ELSE {}
  <2>1. /\ sock' = [sock EXCEPT ![h] = t]
        /\ net' = [net EXCEPT ![h] = @ \ {m}, ![Peer(h)] = @ \cup out]
    BY <1>1, <1>5 DEF Exchange, CloseInv, Typed
  <2>2. /\ t \in SocketEntry /\ t.state = s.state /\ t.una = s.una /\ t.nxt = s.nxt
        /\ t.lbw = s.lbw /\ t.isProbing = s.isProbing /\ t.queue = s.queue
        /\ t.callbacks = s.callbacks /\ t.torn = s.torn /\ t.panicked = s.panicked
        /\ t.rcvNxt = s.rcvNxt /\ t.fin = m.seq /\ t.early = s.early
    BY <1>2 DEF SocketEntry
  <2> HIDE DEF t
  <2>3. consumed' = consumed /\ consumed' \in [Hosts -> BOOLEAN]
        /\ ip' \in [Hosts -> {"idle", "fin", "CLOSE_WAIT"}]
    BY <1>1, <1>5 DEF CloseInv, Typed
  <2>4. /\ out \subseteq {AckSeg(t.rcvNxt)} /\ s.rcvNxt <= t.rcvNxt
        /\ \A k \in Seqs : t.early[k] > 0 => ByteOut(Peer(h), k)
        /\ t.fin # 0 => FinOut(Peer(h), t.fin)
    BY <1>2, <2>2, ArrivalFacts
  <2> HIDE DEF out
  <2>5. /\ t.rcvNxt <= FinLimit(Peer(h)) + 1
        /\ consumed'[h] => FinSent(Peer(h))
        /\ \/ consumed'[h]
           \/ IF FinCounted(Peer(h))
              THEN \E g \in Nat : g < sock[Peer(h)].nxt /\ t.rcvNxt <= g /\ ~ByteOut(Peer(h), g)
              ELSE t.rcvNxt <= sock[Peer(h)].nxt
        /\ Sequential /\ consumed'[h] => t.rcvNxt = sock[Peer(h)].lbw + 2
    BY <2>2, <2>3, ArrivalFacts
  <2> QED BY <1>1, <2>1, <2>2, <2>3, <2>4, <2>5, ReceiveKeeps
<1> QED BY <1>1, <1>4, <1>5

\* A byte that is early is remembered; an old one is only acknowledged.
LEMMA OutOfOrderKeeps ==
    ASSUME CloseInv, NEW h \in Hosts, NEW m \in net[h], m.type = "DATA",
           sock' = [sock EXCEPT ![h].early[m.seq] = IF m.seq > sock[h].rcvNxt THEN @ + 1 ELSE @],
           net' = Exchange(h, m, {AckSeg(sock[h].rcvNxt)}),
           UNCHANGED <<closer, ip, losses, rsts, consumed>>
    PROVE  CloseInv'
<1> DEFINE s == sock[h]
           e == [s.early EXCEPT ![m.seq] = IF m.seq > s.rcvNxt THEN s.early[m.seq] + 1 ELSE s.early[m.seq]]
           t == [s EXCEPT !.early = e]
           out == {AckSeg(s.rcvNxt)}
<1>1. s \in SocketEntry /\ s.rcvNxt \in Nat /\ s.early \in [Seqs -> Nat] /\ m.seq \in Nat
  BY HostFacts, ArrivalFacts DEF SocketEntry
<1>2. Peer(h) \in Hosts /\ Peer(h) # h
  BY PeerFacts
<1>3. /\ sock' = [sock EXCEPT ![h] = t]
      /\ net' = [net EXCEPT ![h] = @ \ {m}, ![Peer(h)] = @ \cup out]
  BY <1>1 DEF Exchange, CloseInv, Typed, SocketEntry
<1>4. e \in [Seqs -> Nat] /\ \A k \in Seqs : k # m.seq => e[k] = s.early[k]
  <2>1. m.seq \in Seqs => s.early[m.seq] \in Nat /\ s.early[m.seq] + 1 \in Nat
    BY <1>1
  <2>2. m.seq \in Seqs => (IF m.seq > s.rcvNxt THEN s.early[m.seq] + 1 ELSE s.early[m.seq]) \in Nat
    BY <2>1
  <2> DEFINE v == IF m.seq > s.rcvNxt THEN s.early[m.seq] + 1 ELSE s.early[m.seq]
  <2> HIDE DEF v
  <2>3. [s.early EXCEPT ![m.seq] = v] \in [Seqs -> Nat]
    BY <1>1, <2>2 DEF v
  <2> QED BY <1>1, <2>3 DEF v
<1> HIDE DEF e
<1>5. /\ t \in SocketEntry /\ t.state = s.state /\ t.una = s.una /\ t.nxt = s.nxt
      /\ t.lbw = s.lbw /\ t.isProbing = s.isProbing /\ t.queue = s.queue
      /\ t.callbacks = s.callbacks /\ t.torn = s.torn /\ t.panicked = s.panicked
      /\ t.rcvNxt = s.rcvNxt /\ t.fin = s.fin /\ t.early = e
  BY <1>1, <1>4 DEF SocketEntry
<1> HIDE DEF t
<1>6. /\ out \subseteq {AckSeg(t.rcvNxt)} /\ s.rcvNxt <= t.rcvNxt
      /\ \A k \in Seqs : t.early[k] > 0 => ByteOut(Peer(h), k)
      /\ t.fin # 0 => FinOut(Peer(h), t.fin)
  BY <1>1, <1>4, <1>5, ArrivalFacts
<1> HIDE DEF out
<1>7. /\ t.rcvNxt <= FinLimit(Peer(h)) + 1
      /\ consumed'[h] => FinSent(Peer(h))
      /\ \/ consumed'[h]
         \/ IF FinCounted(Peer(h))
            THEN \E g \in Nat : g < sock[Peer(h)].nxt /\ t.rcvNxt <= g /\ ~ByteOut(Peer(h), g)
            ELSE t.rcvNxt <= sock[Peer(h)].nxt
      /\ Sequential /\ consumed'[h] => t.rcvNxt = sock[Peer(h)].lbw + 2
  BY <1>5, ArrivalFacts
<1>8. /\ consumed' \in [Hosts -> BOOLEAN] /\ consumed' = consumed
      /\ ip' \in [Hosts -> {"idle", "fin", "CLOSE_WAIT"}]
  BY DEF CloseInv, Typed
<1> QED BY <1>3, <1>5, <1>6, <1>7, <1>8, ReceiveKeeps, ZenonT(30)

\* The byte expected is taken in with the bytes after it that have been waiting.  All that is
\* passed over was out, and is less than nxt of the sender.
LEMMA InOrderFacts ==
    ASSUME CloseInv, NEW h \in Hosts, NEW m \in net[h], m.type = "DATA", m.seq = sock[h].rcvNxt,
           NEW n, n = Drained(sock[h].early, m.seq)
    PROVE  /\ n \in Nat /\ m.seq \in Nat /\ m.seq + 1 <= n
           /\ \A k \in (m.seq + 1)..(n - 1) : k \in Seqs /\ sock[h].early[k] > 0
           /\ \A k \in m.seq..(n - 1) : ByteOut(Peer(h), k)
           /\ n <= sock[Peer(h)].nxt /\ n <= Limit
<1> DEFINE p == Peer(h)
<1>1. sock[h].early \in [Seqs -> Nat] /\ m.seq \in Nat /\ ByteOut(p, m.seq)
  BY HostFacts, ArrivalFacts DEF SocketEntry
<1>2. sock[p].nxt \in Nat /\ sock[p].lbw \in Nat /\ sock[p].lbw < Limit
  BY ArrivalFacts
<1>3. m.seq < sock[p].nxt /\ m.seq <= sock[p].lbw
  BY <1>1, ArrivalFacts
<1>4. m.seq <= Limit
  BY <1>1, <1>2, <1>3, Bounds
<1>5. /\ n \in Nat /\ m.seq + 1 <= n
      /\ \A k \in (m.seq + 1)..(n - 1) : k \in Seqs /\ sock[h].early[k] > 0
  BY <1>1, <1>4, DrainedFacts
<1>6. \A k \in m.seq..(n - 1) : k \in Nat /\ ByteOut(p, k)
  <2>1. \A k \in (m.seq + 1)..(n - 1) : ByteOut(p, k)
    BY <1>5, ArrivalFacts
  <2>2. \A k \in m.seq..(n - 1) : k \in Nat /\ (k = m.seq \/ k \in (m.seq + 1)..(n - 1))
    BY <1>1, <1>5
  <2> QED BY <1>1, <2>1, <2>2
<1>7. n <= sock[p].nxt /\ n <= Limit
  <2>1. n - 1 \in m.seq..(n - 1)
    BY <1>1, <1>5
  <2>2. n - 1 \in Nat /\ n - 1 < sock[p].nxt /\ n - 1 <= sock[p].lbw
    BY <1>6, <2>1, ArrivalFacts
  <2> QED BY <1>2, <1>5, <2>2, Bounds
<1> QED BY <1>1, <1>5, <1>6, <1>7

\* Up to n, as the FIN is not next.
LEMMA BytesTakenIn ==
    ASSUME CloseInv, NEW h \in Hosts, NEW m \in net[h], m.type = "DATA", m.seq = sock[h].rcvNxt,
           NEW n \in Nat, m.seq \in Nat, m.seq + 1 <= n, n <= sock[Peer(h)].nxt, n <= Limit,
           \A k \in m.seq..(n - 1) : ByteOut(Peer(h), k),
           NEW e \in [Seqs -> Nat], \A k \in Seqs : e[k] > 0 => sock[h].early[k] > 0,
           sock' = [sock EXCEPT ![h].rcvNxt = n, ![h].early = e],
           net' = Exchange(h, m, {AckSeg(n)}),
           UNCHANGED <<closer, ip, losses, rsts, consumed>>
    PROVE  CloseInv'
<1> DEFINE s == sock[h]
           p == Peer(h)
           t == [s EXCEPT !.rcvNxt = n, !.early = e]
           out == {AckSeg(n)}
<1>1. s \in SocketEntry /\ s.rcvNxt \in Nat /\ FinLimit(p) \in {Limit, Limit + 1}
  BY HostFacts, ArrivalFacts
<1>2. /\ sock' = [sock EXCEPT ![h] = t]
      /\ net' = [net EXCEPT ![h] = @ \ {m}, ![p] = @ \cup out]
  BY DEF Exchange, CloseInv, Typed
<1>3. /\ t \in SocketEntry /\ t.state = s.state /\ t.una = s.una /\ t.nxt = s.nxt
      /\ t.lbw = s.lbw /\ t.isProbing = s.isProbing /\ t.queue = s.queue
      /\ t.callbacks = s.callbacks /\ t.torn = s.torn /\ t.panicked = s.panicked
      /\ t.rcvNxt = n /\ t.fin = s.fin /\ t.early = e
  BY <1>1 DEF SocketEntry
<1> HIDE DEF t
<1>4. s.rcvNxt <= n /\ n <= FinLimit(p) + 1
  BY <1>1, Bounds
<1>5. /\ out \subseteq {AckSeg(t.rcvNxt)} /\ s.rcvNxt <= t.rcvNxt /\ t.rcvNxt <= FinLimit(p) + 1
  BY <1>3, <1>4
<1>6. /\ \A k \in Seqs : t.early[k] > 0 => ByteOut(p, k)
      /\ t.fin # 0 => FinOut(p, t.fin)
  BY <1>3, ArrivalFacts
<1> HIDE DEF out
<1>7. \/ consumed'[h]
      \/ IF FinCounted(p)
         THEN \E g \in Nat : g < sock[p].nxt /\ t.rcvNxt <= g /\ ~ByteOut(p, g)
         ELSE t.rcvNxt <= sock[p].nxt
  <2>1. CASE consumed[h]
    BY <2>1
  <2>2. CASE ~consumed[h] /\ FinCounted(p)
    <3>1. PICK g \in Nat : g < sock[p].nxt /\ s.rcvNxt <= g /\ ~ByteOut(p, g)
      BY <2>2, ArrivalFacts
    <3>2. ~(g \in m.seq..(n - 1))
      BY <3>1
    <3>3. n <= g
      BY <1>1, <3>1, <3>2
    <3> QED BY <1>3, <2>2, <3>1, <3>3
  <2>3. CASE ~consumed[h] /\ ~FinCounted(p)
    BY <1>3, <2>3
  <2> QED BY <2>1, <2>2, <2>3
<1>8. /\ consumed' \in [Hosts -> BOOLEAN] /\ consumed' = consumed
      /\ ip' \in [Hosts -> {"idle", "fin", "CLOSE_WAIT"}]
      /\ consumed'[h] => FinSent(p)
  BY ArrivalFacts DEF CloseInv, Typed
<1>9. (consumed[h] => consumed'[h]) /\ consumed'[p] = consumed[p]
  BY <1>8
\* After the FIN there are no bytes.
<1>10. ~(Sequential /\ consumed'[h])
  <2>1. Sequential /\ consumed[h] => s.rcvNxt = sock[p].lbw + 2 /\ sock[p].lbw \in Nat
    BY ArrivalFacts
  <2>2. m.seq <= sock[p].lbw
    BY ArrivalFacts
  <2> QED BY <1>8, <2>1, <2>2
<1> HIDE DEF p
<1> QED BY <1>2, <1>3, <1>5, <1>6, <1>7, <1>8, <1>9, <1>10, ReceiveKeeps, ZenonT(30) DEF p

\* Up to n, and the FIN, which has that number.
LEMMA BytesAndFinTakenIn ==
    ASSUME CloseInv, NEW h \in Hosts, NEW m \in net[h], m.type = "DATA", m.seq = sock[h].rcvNxt,
           NEW n \in Nat, m.seq \in Nat, m.seq + 1 <= n, sock[h].fin = n,
           NEW e \in [Seqs -> Nat], \A k \in Seqs : e[k] > 0 => sock[h].early[k] > 0,
           sock' = [sock EXCEPT ![h].rcvNxt = n + 1, ![h].early = e, ![h].fin = 0],
           net' = Exchange(h, m, {AckSeg(n + 1)}),
           ip' = [ip EXCEPT ![h] = "fin"], consumed' = [consumed EXCEPT ![h] = TRUE],
           UNCHANGED <<closer, losses, rsts>>
    PROVE  CloseInv'
<1> DEFINE s == sock[h]
           p == Peer(h)
           r == n + 1
           t == [s EXCEPT !.rcvNxt = r, !.early = e, !.fin = 0]
           out == {AckSeg(r)}
<1>1. /\ s \in SocketEntry /\ s.rcvNxt \in Nat /\ FinLimit(p) \in {Limit, Limit + 1}
      /\ p \in Hosts /\ p # h
  BY HostFacts, ArrivalFacts, PeerFacts
<1>2. /\ sock' = [sock EXCEPT ![h] = t]
      /\ net' = [net EXCEPT ![h] = @ \ {m}, ![p] = @ \cup out]
  BY DEF Exchange, CloseInv, Typed
<1>3. r \in Nat /\ s.rcvNxt <= r
  BY <1>1
<1>4. FinSent(p) /\ r <= FinLimit(p) + 1
  <2>1. n # 0
    OBVIOUS
  <2>2. FinOut(p, n)
    BY <2>1, ArrivalFacts
  <2>3. n <= FinLimit(p) /\ FinSent(p)
    BY <2>2, ArrivalFacts
  <2> QED BY <1>1, <2>3, Bounds
<1>9. Sequential => r = sock[p].lbw + 2
  <2>1. FinOut(p, n) /\ sock[p].lbw \in Nat
    BY ArrivalFacts
  <2>2. Sequential => n = sock[p].lbw + 1
    BY <2>1, ArrivalFacts
  <2> QED BY <2>1, <2>2
<1> HIDE DEF r
<1>5. /\ t \in SocketEntry /\ t.state = s.state /\ t.una = s.una /\ t.nxt = s.nxt
      /\ t.lbw = s.lbw /\ t.isProbing = s.isProbing /\ t.queue = s.queue
      /\ t.callbacks = s.callbacks /\ t.torn = s.torn /\ t.panicked = s.panicked
      /\ t.rcvNxt = r /\ t.fin = 0 /\ t.early = e
  BY <1>1, <1>3 DEF SocketEntry
<1> HIDE DEF t
<1>6. out \subseteq {AckSeg(t.rcvNxt)} /\ \A k \in Seqs : t.early[k] > 0 => ByteOut(p, k)
  BY <1>5, ArrivalFacts
<1> HIDE DEF out
<1>7. /\ consumed' \in [Hosts -> BOOLEAN] /\ consumed'[p] = consumed[p] /\ consumed'[h]
      /\ ip' \in [Hosts -> {"idle", "fin", "CLOSE_WAIT"}]
  BY <1>1 DEF CloseInv, Typed
<1>8. s.rcvNxt <= t.rcvNxt /\ t.rcvNxt <= FinLimit(p) + 1 /\ ~(t.fin # 0)
  BY <1>3, <1>4, <1>5
<1> QED BY <1>2, <1>4, <1>5, <1>6, <1>7, <1>8, <1>9, ReceiveKeeps, ZenonT(30)

LEMMA handlePayloadKeeps == ASSUME CloseInv, NEW h \in Hosts, handlePayload(h) PROVE CloseInv'
<1>1. PICK m \in net[h] :
         /\ m.type = "DATA" /\ UNCHANGED <<closer, losses, rsts>>
         /\ LET s == sock[h]
                n == Drained(s.early, m.seq)
                e == [k \in Seqs |-> IF k \in (m.seq + 1)..(n - 1) THEN s.early[k] - 1 ELSE s.early[k]]
                empty == \A k \in Seqs : e[k] = 0
            IN  \/ /\ m.seq # s.rcvNxt
                   /\ sock' = [sock EXCEPT ![h].early[m.seq] = IF m.seq > s.rcvNxt THEN @ + 1 ELSE @]
                   /\ net' = Exchange(h, m, {AckSeg(s.rcvNxt)})
                   /\ UNCHANGED <<ip, consumed>>
                \/ /\ m.seq = s.rcvNxt /\ ~(empty /\ s.fin = n)
                   /\ sock' = [sock EXCEPT ![h].rcvNxt = n, ![h].early = e]
                   /\ net' = Exchange(h, m, {AckSeg(n)})
                   /\ UNCHANGED <<ip, consumed>>
                \/ /\ m.seq = s.rcvNxt /\ empty /\ s.fin = n
                   /\ sock' = [sock EXCEPT ![h].rcvNxt = n + 1, ![h].early = e, ![h].fin = 0]
                   /\ net' = Exchange(h, m, {AckSeg(n + 1)})
                   /\ ip' = [ip EXCEPT ![h] = "fin"]
                   /\ consumed' = [consumed EXCEPT ![h] = TRUE]
  BY DEF handlePayload, Receives
<1> DEFINE n == Drained(sock[h].early, m.seq)
           e == [k \in Seqs |-> IF k \in (m.seq + 1)..(n - 1) THEN sock[h].early[k] - 1
                                                             ELSE sock[h].early[k]]
<1>2. CASE /\ m.seq # sock[h].rcvNxt
           /\ sock' = [sock EXCEPT ![h].early[m.seq] = IF m.seq > sock[h].rcvNxt THEN @ + 1 ELSE @]
           /\ net' = Exchange(h, m, {AckSeg(sock[h].rcvNxt)}) /\ UNCHANGED <<ip, consumed>>
  BY <1>1, <1>2, OutOfOrderKeeps
<1>3. ASSUME m.seq = sock[h].rcvNxt
      PROVE  /\ n \in Nat /\ m.seq \in Nat /\ m.seq + 1 <= n /\ n <= sock[Peer(h)].nxt /\ n <= Limit
             /\ \A k \in m.seq..(n - 1) : ByteOut(Peer(h), k)
             /\ e \in [Seqs -> Nat] /\ \A k \in Seqs : e[k] > 0 => sock[h].early[k] > 0
  <2>1. /\ n \in Nat /\ m.seq \in Nat /\ m.seq + 1 <= n /\ n <= sock[Peer(h)].nxt /\ n <= Limit
        /\ \A k \in m.seq..(n - 1) : ByteOut(Peer(h), k)
        /\ \A k \in (m.seq + 1)..(n - 1) : k \in Seqs /\ sock[h].early[k] > 0
    BY <1>1, <1>3, InOrderFacts
  <2> HIDE DEF n
  <2>2. sock[h].early \in [Seqs -> Nat]
    BY HostFacts DEF SocketEntry
  <2>3. ASSUME NEW k \in Seqs PROVE e[k] \in Nat /\ (e[k] > 0 => sock[h].early[k] > 0)
    <3>1. sock[h].early[k] \in Nat
      BY <2>2
    <3>2. CASE k \in (m.seq + 1)..(n - 1)
      BY <2>1, <3>1, <3>2
    <3>3. CASE ~(k \in (m.seq + 1)..(n - 1))
      BY <3>1, <3>3
    <3> QED BY <3>2, <3>3
  <2> QED BY <2>1, <2>3
<1>4. CASE /\ m.seq = sock[h].rcvNxt
           /\ sock' = [sock EXCEPT ![h].rcvNxt = n, ![h].early = e]
           /\ net' = Exchange(h, m, {AckSeg(n)}) /\ UNCHANGED <<ip, consumed>>
  <2> HIDE DEF n, e
  <2> QED BY <1>1, <1>3, <1>4, BytesTakenIn
<1>5. CASE /\ m.seq = sock[h].rcvNxt /\ sock[h].fin = n
           /\ sock' = [sock EXCEPT ![h].rcvNxt = n + 1, ![h].early = e, ![h].fin = 0]
           /\ net' = Exchange(h, m, {AckSeg(n + 1)})
           /\ ip' = [ip EXCEPT ![h] = "fin"] /\ consumed' = [consumed EXCEPT ![h] = TRUE]
  <2> HIDE DEF n, e
  <2> QED BY <1>1, <1>3, <1>5, BytesAndFinTakenIn
<1> QED BY <1>1, <1>2, <1>4, <1>5

-----------------------------------------------------------------------------
(* The invariant, and what follows from it *)

LEMMA InitClose == Init => CloseInv
<1> SUFFICES ASSUME Init PROVE CloseInv
  OBVIOUS
<1> DEFINE R == [state : {"ESTABLISHED"}, una : {ISN}, nxt : {ISN}, lbw : {ISN - 1},
                 isProbing : {ProbedBefore}, queue : {<<>>}, rto : {FALSE},
                 callbacks : {0}, rcvNxt : {ISN}, fin : {0}, early : {[k \in Seqs |-> 0]},
                 timeWait : {FALSE}, torn : {FALSE}, panicked : {FALSE}]
           zero == [k \in Seqs |-> 0]
<1>1. sock \in [Hosts -> R]
  BY DEF Init
<1>2. /\ zero \in [Seqs -> Nat] /\ \A k \in Seqs : zero[k] = 0
      /\ ProbedBefore \in BOOLEAN /\ <<>> \in Seq(Entry) /\ ISN = 1
  BY CloseAssumption DEF ISN
<1> HIDE DEF zero
<1>3. ASSUME NEW s \in R
      PROVE  /\ s \in SocketEntry
             /\ s.state = "ESTABLISHED" /\ s.una = 1 /\ s.nxt = 1 /\ s.lbw = 0
             /\ s.isProbing = ProbedBefore /\ s.queue = <<>> /\ s.callbacks = 0
             /\ s.rcvNxt = 1 /\ s.fin = 0 /\ s.early = zero
  <2>1. \A x : x \in {[k \in Seqs |-> 0]} => x = zero
    BY DEF zero
  <2>2. /\ s.state = "ESTABLISHED" /\ s.una = 1 /\ s.nxt = 1 /\ s.lbw = 0
        /\ s.isProbing = ProbedBefore /\ s.queue = <<>> /\ s.callbacks = 0
        /\ s.rcvNxt = 1 /\ s.fin = 0 /\ s.rto = FALSE
        /\ s.timeWait = FALSE /\ s.torn = FALSE /\ s.panicked = FALSE
    <3>1. /\ s.state \in {"ESTABLISHED"} /\ s.una \in {ISN} /\ s.nxt \in {ISN} /\ s.lbw \in {ISN - 1}
          /\ s.isProbing \in {ProbedBefore} /\ s.queue \in {<<>>} /\ s.callbacks \in {0}
          /\ s.rcvNxt \in {ISN} /\ s.fin \in {0} /\ s.rto \in {FALSE}
          /\ s.timeWait \in {FALSE} /\ s.torn \in {FALSE} /\ s.panicked \in {FALSE}
      OBVIOUS
    <3> HIDE DEF R
    <3>2. s.una = 1 /\ s.nxt = 1 /\ s.lbw = 0 /\ s.callbacks = 0 /\ s.rcvNxt = 1 /\ s.fin = 0
      BY <1>2, <3>1
    <3>3. s.state = "ESTABLISHED" /\ s.queue = <<>>
      BY <3>1
    <3>4. /\ s.isProbing = ProbedBefore /\ s.rto = FALSE /\ s.timeWait = FALSE
          /\ s.torn = FALSE /\ s.panicked = FALSE
      BY <3>1, Zenon
    <3> QED BY <3>2, <3>3, <3>4
  <2>3. s.early = zero
    BY <2>1
  <2>4. s = [state |-> s.state, una |-> s.una, nxt |-> s.nxt, lbw |-> s.lbw,
             isProbing |-> s.isProbing, queue |-> s.queue, rto |-> s.rto,
             callbacks |-> s.callbacks, rcvNxt |-> s.rcvNxt, fin |-> s.fin, early |-> s.early,
             timeWait |-> s.timeWait, torn |-> s.torn, panicked |-> s.panicked]
    OBVIOUS
  <2> HIDE DEF R
  <2>5. s \in SocketEntry
    <3>1. /\ s.state \in States /\ s.una \in Nat /\ s.nxt \in Nat /\ s.lbw \in Nat
          /\ s.queue \in Seq(Entry) /\ s.callbacks \in Nat /\ s.rcvNxt \in Nat /\ s.fin \in Nat
          /\ s.early \in [Seqs -> Nat]
      BY <1>2, <2>2, <2>3 DEF States
    <3>2. /\ s.isProbing \in BOOLEAN /\ s.rto \in BOOLEAN /\ s.timeWait \in BOOLEAN
          /\ s.torn \in BOOLEAN /\ s.panicked \in BOOLEAN
      BY <1>2, <2>2, Zenon
    <3> QED BY <2>4, <3>1, <3>2 DEF SocketEntry
  <2> QED BY <2>2, <2>3, <2>5
<1> HIDE DEF R
<1>4. Typed
  <2>1. sock \in [Hosts -> SocketEntry]
    BY <1>1, <1>3
  <2> QED BY <2>1, Bounds DEF Init, Typed, CloserSteps
<1>5. ASSUME NEW h \in Hosts PROVE SocketInv(h) /\ DirectionInv(h)
  <2>1. Peer(h) \in Hosts
    BY PeerFacts
  <2>2. \A g \in Hosts : sock[g] \in R
    BY <1>1
  <2>3. /\ closer[h] = "idle" /\ net[h] = {} /\ net[Peer(h)] = {} /\ consumed[Peer(h)] = FALSE
    BY <2>1 DEF Init
  <2>4. SocketInv(h)
    <3>1. \A i \in 1..Len(sock[h].queue) : FALSE
      BY <1>3, <2>2
    <3> QED BY <1>3, <2>2, <3>1, Bounds DEF SocketInv, QueueInv
  <2>5. \A k \in Nat : ~ByteOut(h, k) /\ ~FinOut(h, k)
    <3>1. \A len, k : ~Queued(sock[h].queue, len, k)
      BY <1>3, <2>2 DEF Queued
    <3>2. \A type, k : ~UnderWay(h, type, k)
      BY <2>3 DEF UnderWay
    <3>3. sock[Peer(h)].fin = 0 /\ sock[Peer(h)].early = zero
      BY <1>3, <2>1, <2>2
    <3> QED BY <1>2, <3>1, <3>2, <3>3 DEF ByteOut, FinOut
  <2>6. DataInv(h) /\ AcksInv(h)
    BY <2>3, <2>5 DEF DataInv, AcksInv
  <2>7. sock[h].nxt = 1 /\ sock[Peer(h)].rcvNxt = 1
    BY <1>3, <2>1, <2>2
  <2>8. GapInv(h)
    BY <2>3, <2>7 DEF GapInv, FinCounted
  <2>9. FinInv(h)
    BY <2>3, <2>5, <2>7, Bounds DEF FinInv, FinSent, FinLimit
  <2>10. OrderInv(h)
    <3>1. sock[h].lbw = 0
      BY <1>3, <2>2
    <3> QED BY <2>3, <2>5, <2>7, <3>1 DEF OrderInv, StreamInv, FinCounted, Draining
  <2> QED BY <2>4, <2>6, <2>8, <2>9, <2>10 DEF DirectionInv
<1> QED BY <1>4, <1>5 DEF CloseInv

LEMMA StutterClose == ASSUME CloseInv, UNCHANGED vars PROVE CloseInv'
BY DEF vars, CloseInv, Typed, SocketInv, QueueInv, DirectionInv, DataInv, AcksInv, GapInv, FinInv,
       OrderInv, StreamInv, FinLimit, FinSent, FinCounted, Draining, ByteOut, FinOut, UnderWay

LEMMA NextClose == ASSUME CloseInv, Next PROVE CloseInv'
<1>1. PICK h \in Hosts :
         \/ Lose(h) \/ VWrite(h) \/ sendLoop(h) \/ VClose(h) \/ VCloseDrained(h)
         \/ sendFinSteps(h) \/ rstCommand(h) \/ HandleTCP(h)
         \/ RtoFires(h) \/ retransmitSegment(h) \/ TimeWaitOver(h)
  BY DEF Next
<1>2. CASE sendFinSteps(h)
  BY <1>2, sendFinKeeps, QueueFinKeeps, AdvanceFinKeeps, CloserKeeps, StoreFinStateKeeps DEF sendFinSteps
<1>3. CASE HandleTCP(h)
  BY <1>3, DiscardKeeps, ResetKeeps, handlePureAckKeeps, handlePayloadKeeps, handleFinKeeps,
     FinSwitchKeeps, EnterCloseWaitKeeps DEF HandleTCP
<1> QED BY <1>1, <1>2, <1>3, LoseKeeps, VWriteKeeps, sendLoopKeeps, CloserKeeps, ResetKeeps,
           RtoFiresKeeps, retransmitSegmentKeeps, TimeWaitOverKeeps

\* The inductive invariant: no byte is out that has not been counted, nothing is
\* acknowledged that has not been taken in, and the FIN has a number that no byte has.
THEOREM CloseInvariant == Spec => []CloseInv
<1>1. Init => CloseInv
  BY InitClose
<1>2. CloseInv /\ [Next]_vars => CloseInv'
  BY NextClose, StutterClose
<1> QED BY <1>1, <1>2, PTL DEF Spec

\* The types of sock, closer, ip and the network, that una does not pass nxt, and that
\* retransmitSegment sends no segment again more often than MAX_RETRANSMISSIONS times.
THEOREM CloseTypes == Spec => []TypeOK
<1>1. CloseInv => TypeOK
  BY InvariantTypes
<1> QED BY <1>1, CloseInvariant, PTL

\* handlePureAck's test seg.AckNum == sendBuf.nxt in FIN_WAIT_1 is sound whatever VWrite,
\* sendLoop and the network do during sendFin: FIN_WAIT_2 means that the peer has taken in
\* our FIN.
THEOREM FinAcksAreGenuine == Spec => []FinAckGenuine
<1>1. CloseInv => FinAckGenuine
  BY DEF CloseInv, SocketInv, FinAckGenuine
<1> QED BY <1>1, CloseInvariant, PTL

\* VRead's EOF is the end of the data, for an application that has no VWrite under way when
\* it calls VClose and no zero window probe before that: the FIN has the number after the
\* last byte VWrite accepted, and the peer takes it in after all of them.
THEOREM EndOfStreamIsWhole ==
    ASSUME Sequential
    PROVE  Spec => []EndOfStream
<1>1. CloseInv => EndOfStream
  <2> SUFFICES ASSUME CloseInv, NEW h \in Hosts, consumed[h]
               PROVE  sock[h].rcvNxt = sock[Peer(h)].lbw + 2
    BY DEF EndOfStream
  <2> QED BY ArrivalFacts
<1> QED BY <1>1, CloseInvariant, PTL

=============================================================================
