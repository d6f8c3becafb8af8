----------------------------- MODULE TCPService -----------------------------
(***************************************************************************)
(* What the TLS layer sees of TCP connections: VRead, VWrite and VClose of *)
(* pkg/tcpStack/socketsAPI.go over two byte pipes for each connection.     *)
(* TCPTransfer shows that the pipes are reliable, TCPClose how they end;   *)
(* here a step of TCP moves one piece of data from the send buffer of one  *)
(* end to the receive buffer of the other.                                 *)
(*                                                                         *)
(* A chunk is a piece of the stream that is not divided further.  The      *)
(* states FIN_WAIT_1 and FIN_WAIT_2 are one, FIN_WAIT, and the states that *)
(* take in no more data (LAST_ACK, TIME_WAIT, CLOSED) are CLOSED.          *)
(***************************************************************************)
EXTENDS Naturals, Sequences

CONSTANTS
    Ends,        \* the ends of all connections
    Peer,        \* the other end of each
    Capacity     \* chunks that fit into one buffer

ASSUME ServiceAssumption ==
    /\ Peer \in [Ends -> Ends]
    /\ \A e \in Ends : Peer[e] # e /\ Peer[Peer[e]] = e
    /\ Capacity \in Nat \ {0}

VARIABLES
    state,       \* SocketTableEntry.state of each end
    sendBuf,     \* chunks written and not acknowledged
    recvBuf,     \* chunks received and not read
    fin          \* the FIN of each end: not sent, on its way, taken in, or dropped as old

tcpVars == <<state, sendBuf, recvBuf, fin>>

TCPTypeOK(Chunks) ==
    /\ state \in [Ends -> {"ESTABLISHED", "CLOSE_WAIT", "FIN_WAIT", "CLOSED"}]
    /\ sendBuf \in [Ends -> Seq(Chunks)]
    /\ recvBuf \in [Ends -> Seq(Chunks)]
    /\ \A e \in Ends : Len(sendBuf[e]) <= Capacity /\ Len(recvBuf[e]) <= Capacity
    /\ fin \in [Ends -> {"none", "sent", "taken", "void"}]

TCPInit ==
    /\ state = [e \in Ends |-> "ESTABLISHED"]
    /\ sendBuf = [e \in Ends |-> <<>>]
    /\ recvBuf = [e \in Ends |-> <<>>]
    /\ fin = [e \in Ends |-> "none"]

Least(m, n) == IF m <= n THEN m ELSE n
From(s, n) == SubSeq(s, n, Len(s))

-----------------------------------------------------------------------------
(* The sockets API *)

\* The check with which VRead, VWrite and VClose begin.
ConnectionClosing(e) == state[e] \in {"FIN_WAIT", "CLOSED"}

\* (mutant) not cut to the free space
StorableAll(e, n) == n

\* How many of n chunks VWrite stores in one critical section.
Storable(e, n) == Least(n, Capacity - Len(sendBuf[e]))

\* VWrite stores what fits; it waits when there is no room.
VWriteStore(e, data) ==
    /\ Storable(e, Len(data)) > 0
    /\ sendBuf' = [sendBuf EXCEPT ![e] = @ \o SubSeq(data, 1, Storable(e, Len(data)))]
    /\ UNCHANGED <<state, recvBuf, fin>>

\* (mutant) the last chunk in the buffer is taken for free space
ReadableButLast(e, n) == IF recvBuf[e] = <<>> THEN 0 ELSE Least(n, Len(recvBuf[e]) - 1)

\* How many chunks VRead returns to a caller with room for n.
Readable(e, n) == Least(n, Len(recvBuf[e]))

\* VRead takes what there is; it waits when there is nothing and no end of stream.
VReadTake(e, n) ==
    /\ Readable(e, n) > 0
    /\ recvBuf' = [recvBuf EXCEPT ![e] = From(@, Readable(e, n) + 1)]
    /\ UNCHANGED <<state, sendBuf, fin>>

\* VRead returns io.EOF.  It looks for CLOSE_WAIT only: a call that waits when
\* its own end is closed waits for ever.
VReadEOF(e) == recvBuf[e] = <<>> /\ state[e] = "CLOSE_WAIT"

\* (mutant) VClose does not wait
VCloseAtOnce(e) ==
    /\ fin' = [fin EXCEPT ![e] = "sent"]
    /\ state' = [state EXCEPT ![e] = IF @ = "ESTABLISHED" THEN "FIN_WAIT" ELSE "CLOSED"]
    /\ UNCHANGED <<sendBuf, recvBuf>>

\* VClose goes on when the send buffer is empty, and sendFin chooses the state.
VCloseFin(e) ==
    /\ sendBuf[e] = <<>>
    /\ fin' = [fin EXCEPT ![e] = "sent"]
    /\ state' = [state EXCEPT ![e] = IF @ = "ESTABLISHED" THEN "FIN_WAIT" ELSE "CLOSED"]
    /\ UNCHANGED <<sendBuf, recvBuf>>

-----------------------------------------------------------------------------
(* The connection *)

\* A chunk is received and acknowledged.  One stored behind a FIN that has not
\* arrived takes the sequence number of the FIN, which the peer then drops as old.
Deliver(e) ==
    /\ sendBuf[e] # <<>>
    /\ state[e] # "CLOSED" \/ fin[e] # "none"
    /\ state[Peer[e]] # "CLOSED"
    /\ Len(recvBuf[Peer[e]]) < Capacity
    /\ recvBuf' = [recvBuf EXCEPT ![Peer[e]] = Append(@, Head(sendBuf[e]))]
    /\ sendBuf' = [sendBuf EXCEPT ![e] = Tail(@)]
    /\ fin' = [fin EXCEPT ![e] = IF @ = "sent" THEN "void" ELSE @]
    /\ UNCHANGED state

\* The other way round the peer drops the chunk as old, and acknowledges it.
LoseBehindFin(e) ==
    /\ sendBuf[e] # <<>>
    /\ fin[e] = "taken"
    /\ sendBuf' = [sendBuf EXCEPT ![e] = Tail(@)]
    /\ UNCHANGED <<state, recvBuf, fin>>

\* handleFin at the peer.
TakeFin(e) ==
    /\ fin[e] = "sent"
    /\ state[Peer[e]] \in {"ESTABLISHED", "FIN_WAIT"}
    /\ fin' = [fin EXCEPT ![e] = "taken"]
    /\ state' = [state EXCEPT ![Peer[e]] = IF @ = "ESTABLISHED" THEN "CLOSE_WAIT" ELSE "CLOSED"]
    /\ UNCHANGED <<sendBuf, recvBuf>>

\* One end of the connection is torn down: a reset, sent or received.
Reset(e) ==
    /\ state[e] # "CLOSED"
    /\ state' = [state EXCEPT ![e] = "CLOSED"]
    /\ UNCHANGED <<sendBuf, recvBuf, fin>>

\* retransmitSegment gives up on a peer that does not answer any more.
RetransmissionLimit(e) ==
    /\ state[Peer[e]] = "CLOSED"
    /\ sendBuf[e] # <<>> \/ fin[e] = "sent"
    /\ Reset(e)

TCPStep(e) == Deliver(e) \/ LoseBehindFin(e) \/ TakeFin(e) \/ RetransmissionLimit(e)

=============================================================================
