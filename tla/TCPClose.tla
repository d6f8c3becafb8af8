------------------------------ MODULE TCPClose ------------------------------
(***************************************************************************)
(* How an established MiniTLS TCP connection ends: VClose and sendFin,     *)
(* handleFin, the states of HandleTCP, TIME_WAIT, the retransmission of    *)
(* the FIN, RST and teardown (src/pkg/tcpStack/closing.go, socketsAPI.go,  *)
(* doTcp.go), on both hosts of the connection.                             *)
(*                                                                         *)
(* The goroutines of a host are the application in VClose, one that may    *)
(* call VWrite at the same time (every REPL command has its own), the IP   *)
(* goroutine, and the callbacks of the retransmission and TIME_WAIT timers.*)
(* entry.state is read and written without a lock, so that a goroutine may *)
(* store a state it has chosen from one that is no longer current: where   *)
(* the code reads the state and then assigns it, these are two steps if    *)
(* another goroutine can write in between.                                 *)
(*                                                                         *)
(* VWrite, sendLoop, handlePureAck and retransmitSegment are one step each *)
(* and a segment holds one byte: module TCPTransfer has their inner steps. *)
(* The receive window is never full.  Two equal packets under way count as *)
(* one.                                                                    *)
(***************************************************************************)
EXTENDS Integers, Sequences

CONSTANTS
    MaxRetrans,       \* MAX_RETRANSMISSIONS
    Writers, Closers, \* bound: the hosts on which VWrite and VClose are called
    MaxData,          \* bound: bytes each of the Writers writes
    ConcurrentWriter, \* may VWrite run while VClose does?
    ProbedBefore,     \* was the last byte so far sent as a zero window probe?
    MaxCallbacks,     \* bound: retransmission callbacks that wait to run
    MaxLoss,          \* bound: packets the network loses
    MaxRst            \* bound: rst commands

ASSUME CloseAssumption ==
    /\ MaxRetrans \in Nat /\ MaxData \in Nat /\ MaxCallbacks \in Nat
    /\ MaxLoss \in Nat /\ MaxRst \in Nat
    /\ Writers \subseteq {1, 2} /\ Closers \subseteq {1, 2}
    /\ ConcurrentWriter \in BOOLEAN /\ ProbedBefore \in BOOLEAN

Hosts == {1, 2}
Peer(h) == 3 - h
ISN == 1
Seqs == ISN..(ISN + MaxData)   \* of data and FIN

VARIABLES
    sock,      \* socket table entry with send buffer, queue and receive buffer
    closer,    \* where VClose and sendFin are
    ip,        \* where the IP goroutine is inside handleFin
    net,       \* packets on their way to a host
    losses, rsts,
    consumed   \* history: the peer's FIN has been taken in

vars == <<sock, closer, ip, net, losses, rsts, consumed>>

DataSeg(seq) == [type |-> "DATA", seq |-> seq]
FinSeg(s, seq) == [type |-> "FIN", seq |-> seq, ack |-> s.rcvNxt]
AckSeg(ack)  == [type |-> "ACK", ack |-> ack]
RstSeg       == [type |-> "RST"]

Running(h) == ~sock[h].panicked

\* What happens to a host's packet: it is under way to the peer.
Sent(h, m) == [net EXCEPT ![Peer(h)] = @ \cup {m}]

\* Host h takes m from the network and answers with the packets out.
Exchange(h, m, out) == [net EXCEPT ![h] = @ \ {m}, ![Peer(h)] = @ \cup out]

\* teardown closes channels: a second one panics.
teardown(s) == IF s.torn THEN [s EXCEPT !.panicked = TRUE] ELSE [s EXCEPT !.torn = TRUE]

\* entry.state = CLOSED, then teardown
closed(s) == teardown([s EXCEPT !.state = "CLOSED"])

Lose(h) ==
    /\ losses < MaxLoss
    /\ \E m \in net[h] : net' = [net EXCEPT ![h] = @ \ {m}]
    /\ losses' = losses + 1
    /\ UNCHANGED <<sock, closer, ip, rsts, consumed>>

-----------------------------------------------------------------------------
(* The applications *)

\* VWrite of one byte
VWrite(h) ==
    /\ Running(h) /\ h \in Writers /\ sock[h].lbw < ISN - 1 + MaxData
    /\ sock[h].state \in {"ESTABLISHED", "CLOSE_WAIT"}
    /\ closer[h] = "idle" \/ ConcurrentWriter
    /\ sock' = [sock EXCEPT ![h].lbw = @ + 1]
    /\ UNCHANGED <<closer, ip, net, losses, rsts, consumed>>

\* sendLoop sends the byte after the last one sent, if it has been written.
\* The close of its channel by teardown wakes it up too.
sendLoop(h) ==
    /\ Running(h) /\ sock[h].lbw >= sock[h].nxt
    /\ sock' = [sock EXCEPT
          ![h].queue = Append(@, [seq |-> sock[h].nxt, len |-> 1, numRetransmits |-> 0]),
          ![h].rto = @ \/ sock[h].queue = <<>>,
          ![h].nxt = @ + 1, ![h].isProbing = FALSE]
    /\ net' = Sent(h, DataSeg(sock[h].nxt))
    /\ UNCHANGED <<closer, ip, losses, rsts, consumed>>

VClose(h) ==
    /\ Running(h) /\ h \in Closers /\ closer[h] = "idle"
    /\ sock[h].state \in {"ESTABLISHED", "CLOSE_WAIT"}
    /\ closer' = [closer EXCEPT ![h] = "drain"]
    /\ UNCHANGED <<sock, ip, net, losses, rsts, consumed>>

\* (mutant) only what is in flight counts
noneInFlight(s) == s.nxt <= s.una

\* nothing in flight and nothing unsent
drained(s) == s.nxt <= s.una /\ s.lbw < s.nxt

\* The loop of VClose ends.
VCloseDrained(h) ==
    /\ Running(h) /\ closer[h] = "drain" /\ drained(sock[h])
    /\ closer' = [closer EXCEPT ![h] = "send"]
    /\ UNCHANGED <<sock, ip, net, losses, rsts, consumed>>

\* sendFin: the packet, the retransmission entry, nxt and the state are four
\* steps.
sendFin(h) ==
    /\ Running(h) /\ closer[h] = "send"
    /\ net' = Sent(h, FinSeg(sock[h], sock[h].nxt))
    /\ closer' = [closer EXCEPT ![h] = "queue"]
    /\ UNCHANGED <<sock, ip, losses, rsts, consumed>>

\* (mutant) nobody starts the timer for the FIN
timerNotStarted(s) == s.rto

timerStarted(s) == s.rto \/ s.queue = <<>>

QueueFin(h) ==
    /\ Running(h) /\ closer[h] = "queue"
    /\ sock' = [sock EXCEPT
          ![h].queue = Append(@, [seq |-> sock[h].nxt, len |-> 0, numRetransmits |-> 0]),
          ![h].rto = timerStarted(sock[h])]
    /\ closer' = [closer EXCEPT ![h] = "advance"]
    /\ UNCHANGED <<ip, net, losses, rsts, consumed>>

AdvanceFin(h) ==
    /\ Running(h) /\ closer[h] = "advance"
    /\ sock' = [sock EXCEPT ![h].nxt = @ + 1]
    /\ closer' = [closer EXCEPT ![h] = "state"]
    /\ UNCHANGED <<ip, net, losses, rsts, consumed>>

\* if entry.state == ESTABLISHED ...
ChooseFinState(h) ==
    /\ Running(h) /\ closer[h] = "state"
    /\ closer' = [closer EXCEPT ![h] = IF sock[h].state = "ESTABLISHED" THEN "FIN_WAIT_1"
                                                                        ELSE "LAST_ACK"]
    /\ UNCHANGED <<sock, ip, net, losses, rsts, consumed>>

StoreFinState(h) ==
    /\ Running(h) /\ closer[h] \in {"FIN_WAIT_1", "LAST_ACK"}
    /\ sock' = [sock EXCEPT ![h].state = closer[h]]
    /\ closer' = [closer EXCEPT ![h] = "done"]
    /\ UNCHANGED <<ip, net, losses, rsts, consumed>>

\* The rst command of the REPL
rstCommand(h) ==
    /\ Running(h) /\ ~sock[h].torn /\ rsts < MaxRst
    /\ net' = Sent(h, RstSeg)
    /\ sock' = [sock EXCEPT ![h] = closed(@)]
    /\ rsts' = rsts + 1
    /\ UNCHANGED <<closer, ip, losses, consumed>>

-----------------------------------------------------------------------------
(* HandleTCP *)

\* The IP goroutine of h takes the next packet, and its entry is in the table.
Receives(h, m) == Running(h) /\ ip[h] = "idle" /\ m \in net[h] /\ ~sock[h].torn

\* No entry, or a state in which the packet is dropped.
Discard(h) ==
    /\ Running(h) /\ ip[h] = "idle"
    /\ \E m \in net[h] :
          /\ \/ sock[h].torn
             \/ m.type # "RST" /\ sock[h].state \in {"TIME_WAIT", "CLOSED"}
             \/ m.type = "DATA" /\ sock[h].state = "LAST_ACK"
          /\ net' = [net EXCEPT ![h] = @ \ {m}]
    /\ UNCHANGED <<sock, closer, ip, losses, rsts, consumed>>

HandleRst(h) ==
    /\ Receives(h, RstSeg)
    /\ net' = [net EXCEPT ![h] = @ \ {RstSeg}]
    /\ sock' = [sock EXCEPT ![h] = closed(@)]
    /\ UNCHANGED <<closer, ip, losses, rsts, consumed>>

DataStates == {"ESTABLISHED", "FIN_WAIT_1", "FIN_WAIT_2", "CLOSE_WAIT"}

Unacked(q, ack) ==
    LET k == CHOOSE k \in 0..Len(q) :
                /\ \A i \in 1..k : q[i].seq + q[i].len <= ack
                /\ k < Len(q) => q[k + 1].seq + q[k + 1].len > ack
    IN  SubSeq(q, k + 1, Len(q))

\* (mutant) any ACK that acknowledges something is taken for the FIN's
anyAck(s, ack) == TRUE

\* seg.AckNum == sendBuf.nxt
acksFin(s, ack) == ack = s.nxt

\* In LAST_ACK a FIN, which has the ACK flag, passes for a pure ACK.
handlePureAck(h) ==
    \E m \in net[h] :
       /\ Receives(h, m)
       /\ \/ m.type = "ACK" /\ sock[h].state \in DataStates
          \/ m.type \in {"ACK", "FIN"} /\ sock[h].state = "LAST_ACK"
       /\ net' = [net EXCEPT ![h] = @ \ {m}]
       /\ LET s == sock[h]
              q == Unacked(s.queue, m.ack)
              a == [s EXCEPT !.una = m.ack, !.queue = q, !.rto = q # <<>>]
          IN  sock' = [sock EXCEPT ![h] =
                 CASE m.ack > s.nxt /\ s.isProbing /\ m.ack = s.nxt + 1 ->
                        [s EXCEPT !.una = m.ack, !.nxt = m.ack]
                   [] s.una < m.ack /\ m.ack <= s.nxt ->
                        IF s.state = "FIN_WAIT_1" /\ acksFin(s, m.ack)
                        THEN [a EXCEPT !.state = "FIN_WAIT_2"]
                        ELSE IF s.state = "LAST_ACK" /\ acksFin(s, m.ack) THEN closed(a)
                        ELSE a
                   [] OTHER -> s]
       /\ UNCHANGED <<closer, ip, losses, rsts, consumed>>

\* In the heap of early arrivals every segment is kept as often as it came.
\* The loop of handlePayload that follows the byte seq pops k if k is the least
\* entry left then: a second copy of a byte ends it.
Pops(early, seq, k) ==
    /\ k \in Seqs /\ early[k] > 0
    /\ \A j \in ISN..(k - 1) : early[j] = IF j > seq THEN 1 ELSE 0

\* the next byte expected after the loop
Drained(early, seq) ==
    CHOOSE n \in (seq + 1)..(ISN + MaxData + 1) :
        ~Pops(early, seq, n) /\ \A k \in (seq + 1)..(n - 1) : Pops(early, seq, k)

\* handlePayload, with handleEarlyFin when the heap has been emptied
handlePayload(h) ==
    \E m \in net[h] :
       /\ Receives(h, m) /\ m.type = "DATA" /\ sock[h].state \in DataStates
       /\ LET s == sock[h]
              n == Drained(s.early, m.seq)
              e == [k \in Seqs |-> IF k \in (m.seq + 1)..(n - 1) THEN s.early[k] - 1 ELSE s.early[k]]
              empty == \A k \in Seqs : e[k] = 0
          IN  \/ /\ m.seq # s.rcvNxt
                 /\ sock' = [sock EXCEPT ![h].early[m.seq] = IF m.seq > s.rcvNxt THEN @ + 1 ELSE @]
                 /\ net' = Exchange(h, m, {AckSeg(s.rcvNxt)})
                 /\ UNCHANGED <<ip, consumed>>
              \/ /\ m.seq = s.rcvNxt /\ ~(empty /\ s.fin = n)
                 /\ sock' = [sock EXCEPT ![h].rcvNxt = n, ![h].early = e]
                 /\ net' = Exchange(h, m, {AckSeg(n)})
                 /\ UNCHANGED <<ip, consumed>>
              \/ /\ m.seq = s.rcvNxt /\ empty /\ s.fin = n
                 /\ sock' = [sock EXCEPT ![h].rcvNxt = n + 1, ![h].early = e, ![h].fin = 0]
                 /\ net' = Exchange(h, m, {AckSeg(n + 1)})
                 /\ ip' = [ip EXCEPT ![h] = "fin"]
                 /\ consumed' = [consumed EXCEPT ![h] = TRUE]
       /\ UNCHANGED <<closer, losses, rsts>>

finInOrder(s, seq) == seq = s.rcvNxt

\* handleFin up to the switch: early, old, or expected
handleFin(h) ==
    \E m \in net[h] :
       /\ Receives(h, m) /\ m.type = "FIN" /\ sock[h].state \in DataStates
       /\ LET s == sock[h]
          IN  \/ /\ finInOrder(s, m.seq)
                 /\ sock' = [sock EXCEPT ![h].rcvNxt = m.seq + 1, ![h].fin = 0]
                 /\ net' = Exchange(h, m, {AckSeg(m.seq + 1)})
                 /\ ip' = [ip EXCEPT ![h] = "fin"]
                 /\ consumed' = [consumed EXCEPT ![h] = TRUE]
              \/ /\ ~finInOrder(s, m.seq)
                 /\ sock' = [sock EXCEPT ![h].fin = m.seq]
                 /\ net' = Exchange(h, m, IF m.seq < s.rcvNxt THEN {AckSeg(s.rcvNxt)} ELSE {})
                 /\ UNCHANGED <<ip, consumed>>
       /\ UNCHANGED <<closer, losses, rsts>>

\* switch entry.state { case ESTABLISHED ...
FinSwitch(h) ==
    /\ Running(h) /\ ip[h] = "fin"
    /\ IF sock[h].state \in {"FIN_WAIT_1", "FIN_WAIT_2"}
       THEN sock' = [sock EXCEPT ![h].state = "TIME_WAIT", ![h].timeWait = TRUE]
       ELSE UNCHANGED sock
    /\ ip' = [ip EXCEPT ![h] = IF sock[h].state = "ESTABLISHED" THEN "CLOSE_WAIT" ELSE "idle"]
    /\ UNCHANGED <<closer, net, losses, rsts, consumed>>

\* ... entry.state = CLOSE_WAIT, and a signal to VRead on a channel that a
\* teardown closes
EnterCloseWait(h) ==
    /\ Running(h) /\ ip[h] = "CLOSE_WAIT"
    /\ sock' = [sock EXCEPT ![h].state = "CLOSE_WAIT", ![h].panicked = sock[h].torn]
    /\ ip' = [ip EXCEPT ![h] = "idle"]
    /\ UNCHANGED <<closer, net, losses, rsts, consumed>>

-----------------------------------------------------------------------------
(* Timers *)

RtoFires(h) ==
    /\ Running(h) /\ sock[h].rto /\ sock[h].callbacks < MaxCallbacks
    /\ sock' = [sock EXCEPT ![h].rto = FALSE, ![h].callbacks = @ + 1]
    /\ UNCHANGED <<closer, ip, net, losses, rsts, consumed>>

\* (mutant) one retransmission too many
exhaustedLate(n) == n > MaxRetrans

exhausted(n) == n >= MaxRetrans

Resent(s, e) == IF e.len = 0 THEN FinSeg(s, e.seq) ELSE DataSeg(e.seq)

\* On an empty queue the callback panics; a head that was retransmitted too
\* often closes the connection; otherwise it is sent again.
retransmitSegment(h) ==
    /\ Running(h) /\ sock[h].callbacks > 0
    /\ LET s == sock[h]
           r == [s EXCEPT !.callbacks = @ - 1, !.queue[1].numRetransmits = @ + 1]
       IN  \/ /\ s.queue = <<>>
              /\ sock' = [sock EXCEPT ![h].panicked = TRUE]
              /\ UNCHANGED net
           \/ /\ s.queue # <<>> /\ exhausted(s.queue[1].numRetransmits)
              /\ sock' = [sock EXCEPT ![h] = closed(r)]
              /\ UNCHANGED net
           \/ /\ s.queue # <<>> /\ ~exhausted(s.queue[1].numRetransmits)
              /\ sock' = [sock EXCEPT ![h] =
                    [r EXCEPT !.rto = TRUE, !.callbacks = IF s.rto THEN s.callbacks ELSE r.callbacks]]
              /\ net' = Sent(h, Resent(s, s.queue[1]))
    /\ UNCHANGED <<closer, ip, losses, rsts, consumed>>

\* The callback of timeWait
TimeWaitOver(h) ==
    /\ Running(h) /\ sock[h].timeWait
    /\ sock' = [sock EXCEPT ![h] = closed([@ EXCEPT !.timeWait = FALSE])]
    /\ UNCHANGED <<closer, ip, net, losses, rsts, consumed>>

-----------------------------------------------------------------------------
(* An established connection on which nothing is in flight.  If all data   *)
(* so far ended in a zero window probe, isProbing is still set: only the   *)
(* next byte that sendLoop sends would clear it.                           *)

Init ==
    /\ sock \in [Hosts -> [state : {"ESTABLISHED"}, una : {ISN}, nxt : {ISN}, lbw : {ISN - 1},
                           isProbing : {ProbedBefore}, queue : {<<>>}, rto : {FALSE},
                           callbacks : {0}, rcvNxt : {ISN}, fin : {0}, early : {[k \in Seqs |-> 0]},
                           timeWait : {FALSE}, torn : {FALSE}, panicked : {FALSE}]]
    /\ closer = [h \in Hosts |-> "idle"]
    /\ ip = [h \in Hosts |-> "idle"]
    /\ net = [h \in Hosts |-> {}]
    /\ losses = 0 /\ rsts = 0
    /\ consumed = [h \in Hosts |-> FALSE]

sendFinSteps(h) == sendFin(h) \/ QueueFin(h) \/ AdvanceFin(h) \/ ChooseFinState(h) \/ StoreFinState(h)

HandleTCP(h) == \/ Discard(h) \/ HandleRst(h) \/ handlePureAck(h) \/ handlePayload(h)
                \/ handleFin(h) \/ FinSwitch(h) \/ EnterCloseWait(h)

Next == \E h \in Hosts :
    \/ Lose(h) \/ VWrite(h) \/ sendLoop(h) \/ VClose(h) \/ VCloseDrained(h)
    \/ sendFinSteps(h) \/ rstCommand(h) \/ HandleTCP(h)
    \/ RtoFires(h) \/ retransmitSegment(h) \/ TimeWaitOver(h)

Spec == Init /\ [][Next]_vars

\* Goroutines run, timers fire and the network delivers what it does not
\* lose; nobody has to write, close or reset.
Fairness == \A h \in Hosts :
    /\ WF_vars(sendLoop(h)) /\ WF_vars(VCloseDrained(h)) /\ WF_vars(sendFinSteps(h))
    /\ WF_vars(HandleTCP(h))
    /\ WF_vars(RtoFires(h)) /\ WF_vars(retransmitSegment(h)) /\ WF_vars(TimeWaitOver(h))

FairSpec == Spec /\ Fairness

-----------------------------------------------------------------------------
(* Properties *)

Packets ==
    LET seqs == 0..(ISN + MaxData + 2) IN
    {DataSeg(i) : i \in seqs} \cup {AckSeg(i) : i \in seqs} \cup {RstSeg}
       \cup [type : {"FIN"}, seq : seqs, ack : seqs]

States == {"ESTABLISHED", "FIN_WAIT_1", "FIN_WAIT_2", "CLOSE_WAIT", "LAST_ACK", "TIME_WAIT", "CLOSED"}

\* The types of the variables.  A segment is retransmitted at most
\* MAX_RETRANSMISSIONS times, counting the attempt that gives up.
TypeOK ==
    /\ \A h \in Hosts : LET s == sock[h] IN
          /\ s.state \in States
          /\ s.una \in Nat /\ s.nxt \in Nat /\ s.lbw \in Nat /\ s.rcvNxt \in Nat
          /\ s.una <= s.nxt
          /\ s.callbacks \in 0..MaxCallbacks
          /\ s.panicked \/ \A i \in 1..Len(s.queue) : s.queue[i].numRetransmits \in 0..(MaxRetrans + 1)
    /\ closer \in [Hosts -> {"idle", "drain", "send", "queue", "advance", "state",
                             "FIN_WAIT_1", "LAST_ACK", "done"}]
    /\ ip \in [Hosts -> {"idle", "fin", "CLOSE_WAIT"}]
    /\ net \in [Hosts -> SUBSET Packets]
    /\ losses \in 0..MaxLoss /\ rsts \in 0..MaxRst
    /\ consumed \in [Hosts -> BOOLEAN]

\* The end of the stream is the end of the data: a host that takes in the
\* peer's FIN (and will report EOF to VRead) has taken in every byte the peer's
\* VWrite accepted, and the FIN that follows them.
EndOfStream == \A h \in Hosts : consumed[h] => sock[h].rcvNxt = sock[Peer(h)].lbw + 2

\* FIN_WAIT_2 means what it says: the peer has taken in our FIN.  The code
\* infers this from AckNum = nxt alone, also when sendFin has raced VWrite.
FinAckGenuine == \A h \in Hosts : sock[h].state = "FIN_WAIT_2" => consumed[Peer(h)]

Over(h) == sock[h].torn \/ sock[h].panicked

\* A FIN that sendFin has queued reaches the peer, or one side gives the
\* connection up: it is never lost for good while both wait.
PeerLearns == \A h \in Hosts :
    closer[h] = "done" ~> consumed[Peer(h)] \/ Over(h) \/ Over(Peer(h))

=============================================================================
