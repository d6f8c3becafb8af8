---------------------------- MODULE TCPTransfer ----------------------------
(***************************************************************************)
(* One direction of an established MiniTLS TCP connection: the bytes that  *)
(* VWrite puts into the send buffer of one host, on their way to VRead on  *)
(* the other (src/pkg/tcpStack/doTcp.go, socketsAPI.go).                   *)
(*                                                                         *)
(* The goroutines of the sending host that touch the connection are the    *)
(* application in VWrite, sendLoop, the IP goroutine that runs HandleTCP   *)
(* (here handlePureAck) and the time.AfterFunc callbacks that run          *)
(* retransmitSegment.  On the receiving host they are the IP goroutine (in *)
(* handlePayload) and the application in VRead.  A step of the model is    *)
(* what one of them does between two points where another one can run: a   *)
(* critical section of sendBuf.mu, retransQueue.mu or recvBuf.mu, with the *)
(* unlocked code up to the next one.  A goroutine that keeps a mutex from  *)
(* one step to the next is recorded in ipPc, timerPc and recvPc.           *)
(*                                                                         *)
(* Sequence numbers are natural numbers that start at ISN (no wrap-around);*)
(* the byte at sequence number s is the number s itself, so a payload shows*)
(* where in the stream its bytes come from.  0 is a byte nobody wrote:     *)
(* what a slot of the circular buffer outside its live region holds.       *)
(***************************************************************************)
EXTENDS Integers, Sequences, SequencesExt

CONSTANTS
    WIN,              \* MAX_WIN_SIZE: capacity of both circular buffers
    MSS,              \* MAX_SEG_SIZE
    MaxRetrans,       \* MAX_RETRANSMISSIONS
    WriteSizes,       \* lengths the applications pass to VWrite and VRead
    ReadSizes,
    Total,            \* bound: number of bytes the application writes
    MaxSegs, MaxAcks, \* bounds: packets in flight in either direction
    MaxLoss,          \* bound: packets the network loses
    MaxCallbacks,     \* bound: retransmission callbacks that wait to run
    Reorder           \* directions the network may reorder: "segs", "acks"

ASSUME WindowAssumption == WIN \in Nat \ {0} /\ MSS \in Nat \ {0}
ASSUME SizesAssumption == WriteSizes \subseteq Nat \ {0} /\ ReadSizes \subseteq Nat \ {0}
ASSUME BoundsAssumption == /\ MaxRetrans \in Nat
                           /\ Total \in Nat
                           /\ MaxSegs \in Nat /\ MaxAcks \in Nat
                           /\ MaxLoss \in Nat
                           /\ MaxCallbacks \in Nat
                           /\ Reorder \subseteq {"segs", "acks"}

VARIABLES
    \* SendBuf and the entry's copy of nxt
    una, nxt, lbw, seqNum,
    cBuf,                    \* the send buffer's CircleBuf: baseSeq, currSize
    otherSideWindow, isProbing,
    \* SendBuf's channels of capacity one: is there a token in it?
    dataWrittenToBuf, spaceAvailable, otherSideWindowUpdated, zwpTrigger,
    \* RetransmissionQueue
    retransQueue,            \* its array
    rtoTimer,                \* is retransQueue.timer running?
    callbacks,               \* callbacks Stop cannot cancel any more
    \* control state of the sending host
    toWrite,                 \* bytes the running VWrite still has to store
    writePc, sendPc, segLen, \* sendLoop's maxBytesSendable
    ipPc,                    \* IP goroutine inside handlePureAck
    timerPc,                 \* retransmitSegment inside teardown
    state, torn, panicked,
    \* RecvBuf and the receiving host
    lbr, rcvNxt, rcvBuf, earlyArrivals, dataToRead, recvPc, readPc,
    delivered,               \* history: every byte VRead has returned
    \* the network
    segs, acks, losses

sendBufVars == <<una, nxt, seqNum, cBuf, otherSideWindow, isProbing>>
channelVars == <<dataWrittenToBuf, spaceAvailable, otherSideWindowUpdated, zwpTrigger>>
queueVars   == <<retransQueue, rtoTimer, callbacks>>
writeVars   == <<lbw, toWrite, writePc>>
loopVars    == <<sendPc, segLen>>
closeVars   == <<timerPc, state, torn, panicked>>
recvVars    == <<lbr, rcvNxt, rcvBuf, earlyArrivals, dataToRead, recvPc, readPc, delivered>>
netVars     == <<segs, acks, losses>>
senderVars  == <<sendBufVars, channelVars, queueVars, writeVars, loopVars, ipPc, closeVars>>
vars        == <<senderVars, recvVars, netVars>>

ISN == 1
Stale == 0

-----------------------------------------------------------------------------
(* The network: UDP links and IP forwarding between the two hosts.         *)

Put(q, m, max) == IF Len(q) < max THEN Append(q, m) ELSE q

Deliverable(dir, q) == {i \in 1..Len(q) : dir \in Reorder \/ i = 1}

LoseSegment ==
    /\ losses < MaxLoss
    /\ \E i \in 1..Len(segs) : segs' = RemoveAt(segs, i)
    /\ losses' = losses + 1
    /\ UNCHANGED <<acks, senderVars, recvVars>>

LoseAck ==
    /\ losses < MaxLoss
    /\ \E i \in 1..Len(acks) : acks' = RemoveAt(acks, i)
    /\ losses' = losses + 1
    /\ UNCHANGED <<segs, senderVars, recvVars>>

-----------------------------------------------------------------------------
(* CircleBuf and the helpers of the send buffer.                           *)

\* (mutant) one byte too much
FreeSpaceOffByOne(cb) == WIN + 1 - cb.currSize

FreeSpace(cb) == WIN - cb.currSize

\* WriteIntoBuf(lbw+1, n bytes) extends the live region by n bytes.
WriteIntoBuf(cb, n) == [cb EXCEPT !.currSize = @ + n]

\* (mutant) the reclaimed bytes still count as stored
AdvanceBaseSizeKept(cb, n) == [cb EXCEPT !.baseSeq = @ + n]

\* At most currSize bytes are reclaimed.
AdvanceBase(cb, n) ==
    LET k == IF n > cb.currSize THEN cb.currSize ELSE n
    IN  [baseSeq |-> cb.baseSeq + k, currSize |-> cb.currSize - k]

\* (mutant) the offset from the base is forgotten
SliceFromBase(cb, seq, n) ==
    [i \in 1..n |-> IF i <= cb.currSize THEN cb.baseSeq + i - 1 ELSE Stale]

\* The n bytes at seq.  A seq below baseSeq underflows the offset, which
\* shifts every index of the slice (module CircleBuf), and a slot past the
\* live region holds an old byte.
SliceFrom(cb, seq, n) ==
    [i \in 1..n |-> IF /\ seq >= cb.baseSeq
                       /\ seq + i - 1 < cb.baseSeq + cb.currSize
                    THEN seq + i - 1 ELSE Stale]

getBytesInFlight == nxt - una

Running == ~panicked      \* a panic ends the sending process

\* sendBuf.mu is kept from one step to the next only by handlePureAck.
SendBufFree == ipPc = "idle"
\* retransQueue.mu is kept from one step to the next only by a teardown.
QueueFree == timerPc = "idle"

-----------------------------------------------------------------------------
(* VWrite *)

VWrite(n) ==
    /\ Running /\ toWrite = 0
    /\ state # "CLOSED"
    /\ lbw + n <= ISN + Total - 1
    /\ toWrite' = n
    /\ writePc' = "copy"
    /\ UNCHANGED <<lbw, sendBufVars, channelVars, queueVars, loopVars, ipPc,
                   closeVars, recvVars, netVars>>

\* One iteration of VWrite's loop.  The signal follows the critical section;
\* after a teardown it is sent on a closed channel.
VWriteCopy ==
    /\ Running /\ toWrite > 0 /\ writePc = "copy" /\ SendBufFree
    /\ IF FreeSpace(cBuf) = 0
       THEN /\ writePc' = "full"
            /\ UNCHANGED <<lbw, toWrite, cBuf, dataWrittenToBuf, panicked>>
       ELSE LET n == IF toWrite > FreeSpace(cBuf) THEN FreeSpace(cBuf) ELSE toWrite
            IN  /\ cBuf' = WriteIntoBuf(cBuf, n)
                /\ lbw' = lbw + n
                /\ toWrite' = toWrite - n
                /\ writePc' = IF toWrite = n THEN "idle" ELSE "copy"
                /\ dataWrittenToBuf' = TRUE
                /\ panicked' = torn
    /\ UNCHANGED <<una, nxt, seqNum, otherSideWindow, isProbing, spaceAvailable,
                   otherSideWindowUpdated, zwpTrigger, queueVars, loopVars, ipPc,
                   timerPc, state, torn, recvVars, netVars>>

\* <-spaceAvailable; a closed channel is always ready.
VWriteWake ==
    /\ Running /\ writePc = "full"
    /\ spaceAvailable \/ torn
    /\ spaceAvailable' = FALSE
    /\ writePc' = "copy"
    /\ UNCHANGED <<lbw, toWrite, sendBufVars, dataWrittenToBuf, otherSideWindowUpdated,
                   zwpTrigger, queueVars, loopVars, ipPc, closeVars, recvVars, netVars>>

-----------------------------------------------------------------------------
(* sendLoop *)

\* The select at the top of the outer loop.
SendSelect ==
    /\ Running /\ sendPc = "select"
    /\ \/ /\ dataWrittenToBuf \/ torn
          /\ dataWrittenToBuf' = FALSE
          /\ UNCHANGED zwpTrigger
       \/ /\ zwpTrigger
          /\ zwpTrigger' = FALSE
          /\ UNCHANGED dataWrittenToBuf
    /\ sendPc' = "inner"
    /\ UNCHANGED <<segLen, spaceAvailable, otherSideWindowUpdated, sendBufVars, queueVars,
                   writeVars, ipPc, closeVars, recvVars, netVars>>

windowRemaining == otherSideWindow - getBytesInFlight

\* Nothing unsent: back to the outer loop, which ends once state is CLOSED.
SendNothing ==
    /\ Running /\ sendPc = "inner" /\ SendBufFree
    /\ lbw < nxt
    /\ sendPc' = IF state = "CLOSED" THEN "done" ELSE "select"
    /\ UNCHANGED <<segLen, sendBufVars, channelVars, queueVars, writeVars, ipPc,
                   closeVars, recvVars, netVars>>

\* Zero window and nothing in flight: send the byte at una as a probe, which
\* neither moves nxt nor enters the retransmission queue.
SendProbe ==
    /\ Running /\ sendPc = "inner" /\ SendBufFree
    /\ lbw >= nxt /\ windowRemaining <= 0
    /\ otherSideWindow = 0 /\ getBytesInFlight = 0
    /\ isProbing' = TRUE
    /\ segs' = Put(segs, [seq |-> una, data |-> SliceFrom(cBuf, una, 1)], MaxSegs)
    /\ sendPc' = "probing"
    /\ UNCHANGED <<segLen, una, nxt, seqNum, cBuf, otherSideWindow, channelVars, queueVars,
                   writeVars, ipPc, closeVars, recvVars, acks, losses>>

\* No room in the window, but not the case for a probe.
SendBlocked ==
    /\ Running /\ sendPc = "inner" /\ SendBufFree
    /\ lbw >= nxt /\ windowRemaining <= 0
    /\ ~(otherSideWindow = 0 /\ getBytesInFlight = 0)
    /\ sendPc' = "blocked"
    /\ UNCHANGED <<segLen, sendBufVars, channelVars, queueVars, writeVars, ipPc,
                   closeVars, recvVars, netVars>>

\* The select that ends a probe, and the wait of SendBlocked.
SendWindowUpdated ==
    /\ Running /\ sendPc \in {"probing", "blocked"}
    /\ otherSideWindowUpdated
    /\ otherSideWindowUpdated' = FALSE
    /\ sendPc' = "inner"
    /\ UNCHANGED <<segLen, dataWrittenToBuf, spaceAvailable, zwpTrigger, sendBufVars,
                   queueVars, writeVars, ipPc, closeVars, recvVars, netVars>>

ProbeTimer ==
    /\ Running /\ sendPc = "probing"
    /\ sendPc' = "inner"
    /\ UNCHANGED <<segLen, sendBufVars, channelVars, queueVars, writeVars, ipPc,
                   closeVars, recvVars, netVars>>

maxBytesSendable ==
    LET bytesAvailableInBuf == lbw - nxt + 1
        inWindow == IF bytesAvailableInBuf > windowRemaining
                    THEN windowRemaining ELSE bytesAvailableInBuf
    IN  IF inWindow > MSS THEN MSS ELSE inWindow

\* Build and send the next segment.  sendBuf.mu is released before the
\* segment is queued and before nxt moves.
SendSegment ==
    /\ Running /\ sendPc = "inner" /\ SendBufFree
    /\ lbw >= nxt /\ windowRemaining > 0
    /\ isProbing' = FALSE
    /\ segLen' = maxBytesSendable
    /\ segs' = Put(segs, [seq |-> seqNum, data |-> SliceFrom(cBuf, nxt, maxBytesSendable)],
                   MaxSegs)
    /\ sendPc' = "queue"
    /\ UNCHANGED <<una, nxt, seqNum, cBuf, otherSideWindow, channelVars, queueVars,
                   writeVars, ipPc, closeVars, recvVars, acks, losses>>

\* The retransmission entry takes entry.seqNum as it is now.
SendQueue ==
    /\ Running /\ sendPc = "queue" /\ QueueFree
    /\ retransQueue' = Append(retransQueue, [seqNum |-> seqNum, len |-> segLen, numRetransmits |-> 0])
    /\ rtoTimer' = (rtoTimer \/ retransQueue = <<>>)
    /\ sendPc' = "advance"
    /\ UNCHANGED <<callbacks, segLen, sendBufVars, channelVars, writeVars, ipPc,
                   closeVars, recvVars, netVars>>

SendAdvance ==
    /\ Running /\ sendPc = "advance" /\ SendBufFree
    /\ nxt' = nxt + segLen
    /\ seqNum' = nxt'
    /\ segLen' = 0
    /\ sendPc' = "inner"
    /\ UNCHANGED <<una, cBuf, otherSideWindow, isProbing, channelVars, queueVars,
                   writeVars, ipPc, closeVars, recvVars, netVars>>

-----------------------------------------------------------------------------
(* handlePureAck, run by the IP goroutine with sendBuf.mu locked.          *)

TakeAck(i) == acks' = RemoveAt(acks, i)

\* The entry is gone from the table, or its state matches no case of HandleTCP.
AckUnmatched ==
    /\ Running /\ ipPc = "idle" /\ state = "CLOSED"
    /\ \E i \in Deliverable("acks", acks) : TakeAck(i)
    /\ UNCHANGED <<segs, losses, senderVars, recvVars>>

\* AckNum > nxt: the answer to a probe, or dropped.
AckBeyondNxt ==
    /\ Running /\ ipPc = "idle" /\ state # "CLOSED"
    /\ \E i \in Deliverable("acks", acks) :
          /\ acks[i].ack > nxt
          /\ TakeAck(i)
          /\ IF isProbing /\ acks[i].ack = nxt + 1
             THEN /\ otherSideWindow' = acks[i].win
                  /\ una' = acks[i].ack
                  /\ nxt' = acks[i].ack
                  /\ seqNum' = acks[i].ack
                  /\ cBuf' = AdvanceBase(cBuf, acks[i].ack - una)
                  /\ spaceAvailable' = TRUE
                  /\ otherSideWindowUpdated' = TRUE
             ELSE UNCHANGED <<otherSideWindow, una, nxt, seqNum, cBuf, spaceAvailable,
                              otherSideWindowUpdated>>
    /\ UNCHANGED <<isProbing, dataWrittenToBuf, zwpTrigger, queueVars, writeVars, loopVars,
                   ipPc, closeVars, recvVars, segs, losses>>

\* AckNum =< una: only the window is taken from it, and nobody is woken.
AckDuplicate ==
    /\ Running /\ ipPc = "idle" /\ state # "CLOSED"
    /\ \E i \in Deliverable("acks", acks) :
          /\ acks[i].ack <= nxt /\ acks[i].ack <= una
          /\ TakeAck(i)
          /\ otherSideWindow' = acks[i].win
    /\ UNCHANGED <<una, nxt, seqNum, cBuf, isProbing, channelVars, queueVars, writeVars,
                   loopVars, ipPc, closeVars, recvVars, segs, losses>>

\* una < AckNum =< nxt, up to the point where retransQueue.mu is wanted.
AckAdvance ==
    /\ Running /\ ipPc = "idle" /\ state # "CLOSED"
    /\ \E i \in Deliverable("acks", acks) :
          /\ una < acks[i].ack /\ acks[i].ack <= nxt
          /\ TakeAck(i)
          /\ otherSideWindow' = acks[i].win
          /\ una' = acks[i].ack
          /\ cBuf' = AdvanceBase(cBuf, acks[i].ack - una)
    /\ ipPc' = "ack"
    /\ UNCHANGED <<nxt, seqNum, isProbing, channelVars, queueVars, writeVars, loopVars,
                   closeVars, recvVars, segs, losses>>

\* (mutant) an entry counts as acknowledged when its first byte is
AckedFirstByte(e, ackNum) == e.seqNum < ackNum

Acked(e, ackNum) == e.seqNum + e.len <= ackNum

\* (mutant) step 5.3 is missing: the timer stays stopped
TimerNotRestarted(q) == FALSE

\* Steps 5.2 and 5.3: the timer is stopped, and restarted while data is in flight.
TimerRestarted(q) == q # <<>>

\* The rest of handlePureAck: retransmission queue, timer, signals.  una is
\* the segment's AckNum, since sendBuf.mu is still locked.
AckQueue ==
    /\ Running /\ ipPc = "ack" /\ QueueFree
    /\ \E k \in 0..Len(retransQueue) :
          /\ \A j \in 1..k : Acked(retransQueue[j], una)
          /\ k < Len(retransQueue) => ~Acked(retransQueue[k + 1], una)
          /\ retransQueue' = SubSeq(retransQueue, k + 1, Len(retransQueue))
    /\ rtoTimer' = TimerRestarted(retransQueue')
    /\ spaceAvailable' = TRUE
    /\ IF otherSideWindow = 0 /\ lbw >= nxt /\ ~isProbing
       THEN isProbing' = TRUE /\ zwpTrigger' = TRUE
       ELSE UNCHANGED <<isProbing, zwpTrigger>>
    /\ otherSideWindowUpdated' = TRUE
    /\ ipPc' = "idle"
    /\ UNCHANGED <<callbacks, una, nxt, seqNum, cBuf, otherSideWindow, dataWrittenToBuf,
                   writeVars, loopVars, closeVars, recvVars, netVars>>

-----------------------------------------------------------------------------
(* The retransmission timer *)

\* The timer expires: its goroutine exists and Stop no longer cancels it.
TimerFires ==
    /\ Running /\ rtoTimer /\ callbacks < MaxCallbacks
    /\ rtoTimer' = FALSE
    /\ callbacks' = callbacks + 1
    /\ UNCHANGED <<retransQueue, sendBufVars, channelVars, writeVars, loopVars, ipPc,
                   closeVars, recvVars, netVars>>

\* retransmitSegment on a non-empty queue whose head may be sent again.  A
\* timer that already runs is not stopped: it becomes a callback to come.
RetransmitSegment ==
    /\ Running /\ callbacks > 0 /\ QueueFree
    /\ retransQueue # <<>>
    /\ retransQueue[1].numRetransmits < MaxRetrans
    /\ retransQueue' = [retransQueue EXCEPT ![1].numRetransmits = @ + 1]
    /\ segs' = Put(segs, [seq |-> retransQueue[1].seqNum,
                          data |-> SliceFrom(cBuf, retransQueue[1].seqNum, retransQueue[1].len)], MaxSegs)
    /\ callbacks' = IF rtoTimer THEN callbacks ELSE callbacks - 1
    /\ rtoTimer' = TRUE
    /\ UNCHANGED <<sendBufVars, channelVars, writeVars, loopVars, ipPc, closeVars,
                   recvVars, acks, losses>>

\* array[0] of an empty queue, or a second teardown: the process panics.
RetransmitPanic ==
    /\ Running /\ callbacks > 0 /\ QueueFree
    /\ \/ retransQueue = <<>>
       \/ retransQueue # <<>> /\ retransQueue[1].numRetransmits >= MaxRetrans /\ torn
    /\ panicked' = TRUE
    /\ UNCHANGED <<timerPc, state, torn, sendBufVars, channelVars, queueVars, writeVars,
                   loopVars, ipPc, recvVars, netVars>>

\* Too many retransmissions: CLOSED, and teardown with retransQueue.mu locked.
RetransmitGiveUp ==
    /\ Running /\ callbacks > 0 /\ QueueFree
    /\ retransQueue # <<>> /\ retransQueue[1].numRetransmits >= MaxRetrans /\ ~torn
    /\ retransQueue' = [retransQueue EXCEPT ![1].numRetransmits = @ + 1]
    /\ callbacks' = callbacks - 1
    /\ state' = "CLOSED"
    /\ timerPc' = "teardown"
    /\ UNCHANGED <<rtoTimer, torn, panicked, sendBufVars, channelVars, writeVars, loopVars,
                   ipPc, recvVars, netVars>>

\* teardown closes the channels with sendBuf.mu locked and removes the entry.
Teardown ==
    /\ Running /\ timerPc = "teardown" /\ SendBufFree
    /\ torn' = TRUE
    /\ timerPc' = "idle"
    /\ UNCHANGED <<state, panicked, sendBufVars, channelVars, queueVars, writeVars, loopVars,
                   ipPc, recvVars, netVars>>

-----------------------------------------------------------------------------
(* handlePayload, run by the receiving host's IP goroutine.                *)

rcvFreeSpace == WIN - Len(rcvBuf)

\* (mutant) early arrivals count toward the window
windowCountingEarly ==
    LET used == Len(rcvBuf) + Len(earlyArrivals) IN IF used > WIN THEN 0 ELSE WIN - used

\* (mutant) the whole capacity is advertised, whatever VRead has left behind
windowIgnoringUnread == WIN

getAvailableWindow == WIN - Len(rcvBuf)

\* Early, old, or no room: the payload is not stored, an ACK follows.
PayloadNotStored ==
    /\ recvPc = "idle"
    /\ \E i \in Deliverable("segs", segs) :
          /\ segs' = RemoveAt(segs, i)
          /\ \/ segs[i].seq # rcvNxt
             \/ rcvFreeSpace = 0
          /\ earlyArrivals' = IF segs[i].seq > rcvNxt THEN Append(earlyArrivals, segs[i])
                                                      ELSE earlyArrivals
    /\ recvPc' = "ack"
    /\ UNCHANGED <<lbr, rcvNxt, rcvBuf, dataToRead, readPc, delivered, acks, losses, senderVars>>

\* The expected segment, cut to the free space.
PayloadStored ==
    /\ recvPc = "idle"
    /\ rcvFreeSpace > 0
    /\ \E i \in Deliverable("segs", segs) :
          LET n == IF Len(segs[i].data) > rcvFreeSpace THEN rcvFreeSpace ELSE Len(segs[i].data)
          IN  /\ segs[i].seq = rcvNxt
              /\ segs' = RemoveAt(segs, i)
              /\ rcvBuf' = rcvBuf \o SubSeq(segs[i].data, 1, n)
              /\ rcvNxt' = rcvNxt + n
    /\ recvPc' = "drain"
    /\ UNCHANGED <<lbr, earlyArrivals, dataToRead, readPc, delivered, acks, losses, senderVars>>

\* Indices of earlyArrivals that heap.Pop may return.
Peek == {i \in 1..Len(earlyArrivals) :
            \A j \in 1..Len(earlyArrivals) : earlyArrivals[i].seq <= earlyArrivals[j].seq}

Fits(seg) == seg.seq = rcvNxt /\ Len(seg.data) <= rcvFreeSpace

\* One round of the loop that drains the early arrivals.
DrainEarlyArrival ==
    /\ recvPc = "drain"
    /\ \E i \in Peek :
          /\ Fits(earlyArrivals[i])
          /\ rcvBuf' = rcvBuf \o earlyArrivals[i].data
          /\ rcvNxt' = rcvNxt + Len(earlyArrivals[i].data)
          /\ earlyArrivals' = RemoveAt(earlyArrivals, i)
    /\ UNCHANGED <<lbr, dataToRead, recvPc, readPc, delivered, netVars, senderVars>>

DrainDone ==
    /\ recvPc = "drain"
    /\ \/ earlyArrivals = <<>>
       \/ \E i \in Peek : ~Fits(earlyArrivals[i])
    /\ recvPc' = "signal"
    /\ UNCHANGED <<lbr, rcvNxt, rcvBuf, earlyArrivals, dataToRead, readPc, delivered,
                   netVars, senderVars>>

pureAck == [ack |-> rcvNxt, win |-> getAvailableWindow]

\* (mutant) VRead is not woken
readSignalMissing == dataToRead

readSignal == TRUE

\* recvBuf.mu is released and data was stored: wake VRead.
SignalRead ==
    /\ recvPc = "signal"
    /\ dataToRead' = readSignal
    /\ recvPc' = "ack"
    /\ UNCHANGED <<lbr, rcvNxt, rcvBuf, earlyArrivals, readPc, delivered, netVars, senderVars>>

\* sendPureAck, without recvBuf.mu: the window is what it is now.
SendPureAck ==
    /\ recvPc = "ack"
    /\ acks' = Put(acks, pureAck, MaxAcks)
    /\ recvPc' = "idle"
    /\ UNCHANGED <<lbr, rcvNxt, rcvBuf, earlyArrivals, dataToRead, readPc, delivered, segs, losses,
                   senderVars>>

-----------------------------------------------------------------------------
(* VRead: an application that reads all the time, n bytes at most.         *)

\* (mutant) AdvanceBase is missing: the bytes stay in the buffer
UnreadNotAdvanced(k) == rcvBuf

\* AdvanceBase(k) on the receive buffer
Unread(k) == SubSeq(rcvBuf, k + 1, Len(rcvBuf))

VRead(n) ==
    /\ readPc = "ready" /\ recvPc # "drain"
    /\ rcvBuf # <<>>
    /\ LET k == IF n > Len(rcvBuf) THEN Len(rcvBuf) ELSE n
       IN  /\ delivered' = delivered \o SubSeq(rcvBuf, 1, k)
           /\ rcvBuf' = Unread(k)
           /\ lbr' = lbr + k
    /\ UNCHANGED <<rcvNxt, earlyArrivals, dataToRead, recvPc, readPc, netVars, senderVars>>

VReadEmpty ==
    /\ readPc = "ready" /\ recvPc # "drain"
    /\ rcvBuf = <<>>
    /\ readPc' = "empty"
    /\ UNCHANGED <<lbr, rcvNxt, rcvBuf, earlyArrivals, dataToRead, recvPc, delivered,
                   netVars, senderVars>>

VReadWake ==
    /\ readPc = "empty" /\ dataToRead
    /\ dataToRead' = FALSE
    /\ readPc' = "ready"
    /\ UNCHANGED <<lbr, rcvNxt, rcvBuf, earlyArrivals, recvPc, delivered, netVars, senderVars>>

-----------------------------------------------------------------------------
\* initBufs, on both hosts, as the handshake leaves them.
Init ==
    /\ una = ISN /\ nxt = ISN /\ seqNum = ISN /\ lbw = ISN - 1
    /\ cBuf = [baseSeq |-> ISN, currSize |-> 0]
    /\ otherSideWindow = WIN /\ isProbing = FALSE
    /\ dataWrittenToBuf = FALSE /\ spaceAvailable = FALSE
    /\ otherSideWindowUpdated = FALSE /\ zwpTrigger = FALSE
    /\ retransQueue = <<>> /\ rtoTimer = FALSE /\ callbacks = 0
    /\ toWrite = 0 /\ writePc = "idle"
    /\ sendPc = "select" /\ segLen = 0
    /\ ipPc = "idle"
    /\ timerPc = "idle" /\ state = "ESTABLISHED" /\ torn = FALSE /\ panicked = FALSE
    /\ lbr = ISN - 1 /\ rcvNxt = ISN /\ rcvBuf = <<>> /\ earlyArrivals = <<>>
    /\ dataToRead = FALSE /\ recvPc = "idle" /\ readPc = "ready"
    /\ delivered = <<>>
    /\ segs = <<>> /\ acks = <<>> /\ losses = 0

SendLoop == SendSelect \/ SendNothing \/ SendProbe \/ SendBlocked \/ SendWindowUpdated
            \/ ProbeTimer \/ SendSegment \/ SendQueue \/ SendAdvance
HandlePureAck == AckUnmatched \/ AckBeyondNxt \/ AckDuplicate \/ AckAdvance \/ AckQueue
Retransmission == RetransmitSegment \/ RetransmitPanic \/ RetransmitGiveUp \/ Teardown
HandlePayload == PayloadNotStored \/ PayloadStored \/ DrainEarlyArrival \/ DrainDone \/ SignalRead
                 \/ SendPureAck
Writer == (\E n \in WriteSizes : VWrite(n)) \/ VWriteCopy \/ VWriteWake
Reader == (\E n \in ReadSizes : VRead(n)) \/ VReadEmpty \/ VReadWake
Network == LoseSegment \/ LoseAck

Next == Writer \/ SendLoop \/ HandlePureAck \/ TimerFires \/ Retransmission
        \/ HandlePayload \/ Reader \/ Network

Spec == Init /\ [][Next]_vars

\* Goroutines that can run do run, timers expire, packets that are not lost
\* arrive and the receiving application keeps reading.
Fairness ==
    /\ WF_vars(VWriteCopy) /\ WF_vars(VWriteWake)
    /\ WF_vars(SendLoop) /\ WF_vars(HandlePureAck)
    /\ WF_vars(TimerFires) /\ WF_vars(Retransmission)
    /\ WF_vars(HandlePayload) /\ WF_vars(Reader)

FairSpec == Spec /\ Fairness

-----------------------------------------------------------------------------
(* Properties *)

Segment == [seq : Nat, data : Seq(Nat)]
Ack == [ack : Nat, win : 0..WIN]
RetransmissionEntry == [seqNum : Nat, len : Nat, numRetransmits : Nat]

\* Numbers, buffers, queues and packets ...
DataOK ==
    /\ una \in Nat /\ nxt \in Nat /\ una <= nxt /\ lbw \in Nat /\ seqNum \in Nat
    /\ cBuf \in [baseSeq : Nat, currSize : 0..WIN]
    /\ otherSideWindow \in 0..WIN
    /\ retransQueue \in Seq(RetransmissionEntry)
    /\ callbacks \in 0..MaxCallbacks
    /\ toWrite \in Nat /\ segLen \in 0..MSS
    /\ lbr \in Nat /\ rcvNxt \in Nat /\ rcvBuf \in Seq(Nat) /\ Len(rcvBuf) <= WIN
    /\ earlyArrivals \in Seq(Segment)
    /\ delivered \in Seq(Nat)
    /\ segs \in Seq(Segment) /\ acks \in Seq(Ack) /\ losses \in 0..MaxLoss

\* ... and flags, channels and where the goroutines are.
ControlOK ==
    /\ isProbing \in BOOLEAN /\ rtoTimer \in BOOLEAN
    /\ dataWrittenToBuf \in BOOLEAN /\ spaceAvailable \in BOOLEAN
    /\ otherSideWindowUpdated \in BOOLEAN /\ zwpTrigger \in BOOLEAN /\ dataToRead \in BOOLEAN
    /\ torn \in BOOLEAN /\ panicked \in BOOLEAN
    /\ writePc \in {"idle", "copy", "full"}
    /\ sendPc \in {"select", "inner", "probing", "blocked", "queue", "advance", "done"}
    /\ ipPc \in {"idle", "ack"} /\ timerPc \in {"idle", "teardown"}
    /\ state \in {"ESTABLISHED", "CLOSED"}
    /\ recvPc \in {"idle", "ack", "drain", "signal"} /\ readPc \in {"ready", "empty"}

\* Types of the variables: buffers of initBufs, queue, channels, goroutines.
TypeOK == DataOK /\ ControlOK

\* The bytes VRead has returned are the bytes VWrite took, in order, none
\* skipped, none twice, none that VWrite never wrote, although sendLoop
\* queues a segment and moves nxt after it has released sendBuf.mu.
StreamPrefix == \A i \in 1..Len(delivered) : delivered[i] = ISN + i - 1

\* handlePureAck reclaims a byte of the send buffer only when handlePayload
\* has stored it on the other host.
FreedBytesStored == una <= rcvNxt

\* An expected segment never has to be cut to the free space of the receive
\* buffer: sendLoop's idea of the window does not run ahead of the receiver.
NoOverrun ==
    \A i \in 1..Len(segs) :
        segs[i].seq = rcvNxt /\ rcvFreeSpace > 0 => Len(segs[i].data) <= rcvFreeSpace

\* Every byte in flight is in the retransmission queue, although sendLoop,
\* handlePureAck and the probes move una, nxt and the queue in separate steps.
InFlightQueued ==
    \A b \in una..(nxt - 1) : \E i \in 1..Len(retransQueue) :
        retransQueue[i].seqNum <= b /\ b < retransQueue[i].seqNum + retransQueue[i].len

\* While the queue is not empty a retransmission is to come: whatever the
\* order of Stop, expiry and restart, some timer or callback remains.
RetransmissionArmed ==
    retransQueue # <<>> /\ state # "CLOSED" => rtoTimer \/ callbacks > 0

\* The right edge of the window that sendLoop works with never moves back,
\* with handlePureAck taking the window from every ACK, duplicates included.
WindowEdgeMonotonic == [][una + otherSideWindow <= una' + otherSideWindow']_vars

Stream == INSTANCE ReliableStream
          WITH Capacity <- WIN, written <- lbw - ISN + 1, read <- delivered

\* VWrite and VRead together implement the byte pipe of ReliableStream.
ImplementsStream == Stream!StreamSpec

\* Every byte VWrite has taken is eventually returned by VRead, unless the
\* connection is given up after too many retransmissions or the process dies:
\* no wake-up between VWrite, sendLoop, handlePureAck, the probes and VRead
\* is lost.
WrittenIsDelivered ==
    \A k \in 1..Total :
        (lbw >= ISN + k - 1) ~> (Len(delivered) >= k \/ state = "CLOSED" \/ panicked)

-----------------------------------------------------------------------------
(* Why the properties above hold while ACKs arrive in order.               *)

\* The first sequence number past the window: as the receiver has it, and as
\* the sender knows it.
recvEdge == lbr + 1 + WIN
sendEdge == una + otherSideWindow

\* A retransmission entry covers bytes that are written and in the window.
EntryOK(e, last, edge) == e.seqNum + e.len <= last + 1 /\ e.seqNum + e.len <= edge

\* A segment that can still be stored carries the stream's own bytes ...
CarriesStream(seg, next, last) ==
    seg.seq >= next => /\ seg.seq + Len(seg.data) <= last + 1
                       /\ \A k \in 1..Len(seg.data) : seg.data[k] = seg.seq + k - 1

\* ... and, unless it is a probe's single byte, was covered by a window.
InWindow(seg, next, edge) ==
    seg.seq >= next => Len(seg.data) = 1 \/ seg.seq + Len(seg.data) <= edge

\* ACK b can follow ACK a: neither its number nor its edge moves back.
Follows(a, b) == a.ack <= b.ack /\ a.ack + a.win <= b.ack + b.win

SendBufInv ==
    /\ seqNum = nxt /\ nxt <= lbw + 1
    /\ cBuf.baseSeq = una /\ cBuf.currSize = lbw + 1 - una
    /\ sendPc \in {"queue", "advance"} =>
          /\ segLen >= 1 /\ ~isProbing
          /\ nxt + segLen <= lbw + 1 /\ nxt + segLen <= sendEdge
WindowInv == una <= rcvNxt /\ rcvNxt <= lbw + 1 /\ sendEdge <= recvEdge
RecvBufInv ==
    /\ rcvNxt = lbr + 1 + Len(rcvBuf)
    /\ \A i \in 1..Len(rcvBuf) : rcvBuf[i] = lbr + i
    /\ Len(delivered) = lbr - ISN + 1
    /\ \A i \in 1..Len(delivered) : delivered[i] = ISN + i - 1
QueueInv == \A i \in 1..Len(retransQueue) : EntryOK(retransQueue[i], lbw, recvEdge)
SegsInv == \A i \in 1..Len(segs) : /\ CarriesStream(segs[i], rcvNxt, lbw)
                                  /\ InWindow(segs[i], rcvNxt, recvEdge)
EarlyInv == \A i \in 1..Len(earlyArrivals) : CarriesStream(earlyArrivals[i], rcvNxt, lbw)
AcksInv ==
    /\ \A i \in 1..Len(acks) :
          /\ Follows([ack |-> una, win |-> otherSideWindow], acks[i])
          /\ Follows(acks[i], [ack |-> rcvNxt, win |-> recvEdge - rcvNxt])
    /\ \A i, j \in 1..Len(acks) : i <= j => Follows(acks[i], acks[j])

\* The inductive invariant: the two hosts' buffers, the retransmission queue
\* and every packet between them describe one stream and one window.  It
\* holds between any two steps of sendLoop, handlePureAck, retransmitSegment
\* and handlePayload as long as ACKs are not reordered.
FlowInv == SendBufInv /\ WindowInv /\ RecvBufInv /\ QueueInv /\ SegsInv /\ EarlyInv /\ AcksInv

=============================================================================
