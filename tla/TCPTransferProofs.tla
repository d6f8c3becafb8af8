------------------------- MODULE TCPTransferProofs -------------------------
(***************************************************************************)
(* Theorems about TCPTransfer, for every window, segment size, stream      *)
(* length and number of losses: type correctness, and, when the network    *)
(* keeps the order of the ACKs, that the stream is delivered intact, that  *)
(* the receiver is never overrun and that ReliableStream is implemented.   *)
(***************************************************************************)
EXTENDS TCPTransfer, SequenceTheorems, TLAPS

-----------------------------------------------------------------------------
(* Sequences *)

\* The elements of RemoveAt(s, i), with which the network drops a packet it
\* has delivered or lost and the heap an early arrival.
LEMMA RemoveAtElements ==
    ASSUME NEW S, NEW s \in Seq(S), NEW i \in 1..Len(s)
    PROVE  /\ RemoveAt(s, i) \in Seq(S)
           /\ Len(RemoveAt(s, i)) = Len(s) - 1
           /\ \A j \in 1..(Len(s) - 1) :
                 RemoveAt(s, i)[j] = IF j < i THEN s[j] ELSE s[j + 1]
<1> DEFINE a == SubSeq(s, 1, i - 1)
           b == SubSeq(s, i + 1, Len(s))
<1>0. Len(s) \in Nat /\ \A j \in 1..Len(s) : s[j] \in S
  OBVIOUS
<1>1. a \in Seq(S) /\ Len(a) = i - 1 /\ \A j \in 1..(i - 1) : a[j] = s[j]
  <2>1. \A j \in 1..(i - 1) : s[j] \in S
    BY <1>0
  <2>2. /\ SubSeq(s, 1, i - 1) \in Seq(S)
        /\ Len(SubSeq(s, 1, i - 1)) = IF 1 <= i - 1 THEN (i - 1) - 1 + 1 ELSE 0
        /\ \A j \in 1..((i - 1) - 1 + 1) : SubSeq(s, 1, i - 1)[j] = s[1 + j - 1]
    BY <1>0, <2>1, SubSeqProperties, i - 1 \in Int, 1 \in Int
  <2> QED BY <1>0, <2>2
<1>2. b \in Seq(S) /\ Len(b) = Len(s) - i /\ \A j \in 1..(Len(s) - i) : b[j] = s[i + j]
  <2>1. \A j \in (i + 1)..Len(s) : s[j] \in S
    BY <1>0
  <2>2. /\ SubSeq(s, i + 1, Len(s)) \in Seq(S)
        /\ Len(SubSeq(s, i + 1, Len(s))) = IF i + 1 <= Len(s) THEN Len(s) - (i + 1) + 1 ELSE 0
        /\ \A j \in 1..(Len(s) - (i + 1) + 1) : SubSeq(s, i + 1, Len(s))[j] = s[(i + 1) + j - 1]
    BY <1>0, <2>1, SubSeqProperties, i + 1 \in Int, Len(s) \in Int
  <2> QED BY <1>0, <2>2
<1> HIDE DEF a, b
<1>3. /\ a \o b \in Seq(S)
      /\ Len(a \o b) = Len(a) + Len(b)
      /\ \A j \in 1..(Len(a) + Len(b)) : (a \o b)[j] = IF j <= Len(a) THEN a[j] ELSE b[j - Len(a)]
  BY <1>1, <1>2, ConcatProperties
<1>4. RemoveAt(s, i) = a \o b
  BY DEF RemoveAt, a, b
<1>5. Len(a \o b) = Len(s) - 1
  BY <1>0, <1>1, <1>2, <1>3
<1>6. ASSUME NEW j \in 1..(Len(s) - 1)
      PROVE  (a \o b)[j] = IF j < i THEN s[j] ELSE s[j + 1]
  <2>1. (a \o b)[j] = IF j <= i - 1 THEN a[j] ELSE b[j - (i - 1)]
    <3>1. Len(a) = i - 1 /\ Len(a) + Len(b) = Len(s) - 1
      BY <1>0, <1>1, <1>2
    <3>2. j \in 1..(Len(a) + Len(b))
      BY <3>1
    <3>3. (a \o b)[j] = IF j <= Len(a) THEN a[j] ELSE b[j - Len(a)]
      BY <1>3, <3>2
    <3> QED BY <3>1, <3>3
  <2>2. CASE j < i
    BY <1>0, <1>1, <2>1, <2>2
  <2>3. CASE ~(j < i)
    <3>1. j - (i - 1) \in 1..(Len(s) - i) /\ i + (j - (i - 1)) = j + 1
      BY <1>0, <2>3
    <3> QED BY <1>2, <2>1, <2>3, <3>1, <1>0
  <2> QED BY <2>2, <2>3
<1> QED BY <1>3, <1>4, <1>5, <1>6

\* The head of a queue that is not empty, and the queue after one more
\* retransmission of it.
LEMMA HeadElement ==
    ASSUME NEW S, NEW s \in Seq(S), s # <<>>
    PROVE  Len(s) \in Nat /\ 1 \in 1..Len(s) /\ s[1] \in S
<1>1. Len(s) \in Nat /\ Len(s) # 0
  BY EmptySeq
<1> QED BY <1>1

LEMMA ReplaceHead ==
    ASSUME NEW S, NEW s \in Seq(S), s # <<>>, NEW e \in S
    PROVE  /\ [s EXCEPT ![1] = e] \in Seq(S)
           /\ Len([s EXCEPT ![1] = e]) = Len(s)
           /\ \A j \in 1..Len(s) : [s EXCEPT ![1] = e][j] = IF j = 1 THEN e ELSE s[j]
<1>1. 1 \in 1..Len(s) /\ Len(s) \in Nat
  BY HeadElement
<1> QED BY <1>1, ExceptSeq

\* A prefix of a sequence, and what is left after it.
LEMMA PrefixAndRest ==
    ASSUME NEW S, NEW s \in Seq(S), NEW k \in 0..Len(s)
    PROVE  /\ SubSeq(s, 1, k) \in Seq(S) /\ Len(SubSeq(s, 1, k)) = k
           /\ \A j \in 1..k : SubSeq(s, 1, k)[j] = s[j]
           /\ SubSeq(s, k + 1, Len(s)) \in Seq(S) /\ Len(SubSeq(s, k + 1, Len(s))) = Len(s) - k
           /\ \A j \in 1..(Len(s) - k) : SubSeq(s, k + 1, Len(s))[j] = s[k + j]
<1>0. Len(s) \in Nat /\ k \in Nat /\ k <= Len(s)
  OBVIOUS
<1>1. \A j \in 1..Len(s) : s[j] \in S
  OBVIOUS
<1>2. \A j \in 1..k : s[j] \in S
  BY <1>0, <1>1
<1>3. \A j \in (k + 1)..Len(s) : s[j] \in S
  BY <1>0, <1>1
<1>4. /\ SubSeq(s, 1, k) \in Seq(S)
      /\ Len(SubSeq(s, 1, k)) = IF 1 <= k THEN k - 1 + 1 ELSE 0
      /\ \A j \in 1..(k - 1 + 1) : SubSeq(s, 1, k)[j] = s[1 + j - 1]
  BY <1>0, <1>2, SubSeqProperties, 1 \in Int, k \in Int
<1>5. /\ SubSeq(s, k + 1, Len(s)) \in Seq(S)
      /\ Len(SubSeq(s, k + 1, Len(s))) = IF k + 1 <= Len(s) THEN Len(s) - (k + 1) + 1 ELSE 0
      /\ \A j \in 1..(Len(s) - (k + 1) + 1) : SubSeq(s, k + 1, Len(s))[j] = s[(k + 1) + j - 1]
  BY <1>0, <1>3, SubSeqProperties, k + 1 \in Int, Len(s) \in Int
<1> QED BY <1>0, <1>4, <1>5

\* Put either appends the packet or drops it.
LEMMA PutElements ==
    ASSUME NEW S, NEW q \in Seq(S), NEW m \in S, NEW max \in Nat
    PROVE  /\ Put(q, m, max) \in Seq(S)
           /\ Put(q, m, max) = q \/ Put(q, m, max) = Append(q, m)
BY DEF Put

\* A slice of a circular buffer has the length asked for.
LEMMA SliceType ==
    ASSUME NEW cb \in [baseSeq : Nat, currSize : 0..WIN], NEW s \in Nat, NEW n \in Nat
    PROVE  SliceFrom(cb, s, n) \in Seq(Nat) /\ Len(SliceFrom(cb, s, n)) = n
<1>1. \A i \in 1..n : (IF s >= cb.baseSeq /\ s + i - 1 < cb.baseSeq + cb.currSize
                       THEN s + i - 1 ELSE Stale) \in Nat
  BY WindowAssumption DEF Stale
<1>2. SliceFrom(cb, s, n) \in [1..n -> Nat]
  BY <1>1 DEF SliceFrom
<1> QED BY <1>2

\* At most currSize bytes are reclaimed; all of them if there are as many.
LEMMA AdvanceBaseType ==
    ASSUME NEW cb \in [baseSeq : Nat, currSize : 0..WIN], NEW n \in Nat
    PROVE  /\ AdvanceBase(cb, n) \in [baseSeq : Nat, currSize : 0..WIN]
           /\ n <= cb.currSize => /\ AdvanceBase(cb, n).baseSeq = cb.baseSeq + n
                                  /\ AdvanceBase(cb, n).currSize = cb.currSize - n
BY WindowAssumption DEF AdvanceBase

\* Writing n bytes into a buffer that has room for them.
LEMMA WriteIntoBufType ==
    ASSUME NEW cb \in [baseSeq : Nat, currSize : 0..WIN], NEW n \in Nat, n <= FreeSpace(cb)
    PROVE  /\ WriteIntoBuf(cb, n) \in [baseSeq : Nat, currSize : 0..WIN]
           /\ WriteIntoBuf(cb, n).baseSeq = cb.baseSeq
           /\ WriteIntoBuf(cb, n).currSize = cb.currSize + n
BY WindowAssumption DEF WriteIntoBuf, FreeSpace

\* A retransmission changes nothing but the counter of its entry.
LEMMA EntryRetransmitted ==
    ASSUME NEW e \in RetransmissionEntry
    PROVE  /\ [e EXCEPT !.numRetransmits = @ + 1] \in RetransmissionEntry
           /\ [e EXCEPT !.numRetransmits = @ + 1].seqNum = e.seqNum
           /\ [e EXCEPT !.numRetransmits = @ + 1].len = e.len
BY DEF RetransmissionEntry

\* What sendLoop sends is not empty, is in the buffer and fits the window.
LEMMA SegmentLength ==
    ASSUME DataOK, lbw >= nxt, windowRemaining > 0
    PROVE  /\ maxBytesSendable \in 1..MSS
           /\ nxt + maxBytesSendable <= lbw + 1
           /\ nxt + maxBytesSendable <= una + otherSideWindow
BY WindowAssumption DEF DataOK, windowRemaining, getBytesInFlight, maxBytesSendable

-----------------------------------------------------------------------------
(* Type correctness *)

\* Init establishes the types (initBufs).
LEMMA InitType == Init => TypeOK
<1> SUFFICES ASSUME Init PROVE DataOK /\ ControlOK
  BY DEF TypeOK
<1>1. DataOK
  BY WindowAssumption, BoundsAssumption DEF Init, DataOK, ISN
<1>2. ControlOK
  BY Zenon DEF Init, ControlOK
<1> QED BY <1>1, <1>2

\* Every step keeps the flags, channels and program counters in their types.
LEMMA ControlStep == ControlOK /\ [Next]_vars => ControlOK'
<1> SUFFICES ASSUME ControlOK, [Next]_vars PROVE ControlOK'
  OBVIOUS
<1> USE DEF ControlOK, sendBufVars, channelVars, queueVars, writeVars, loopVars, closeVars, recvVars, netVars, senderVars
<1>1. CASE LoseSegment
  BY <1>1 DEF LoseSegment
<1>2. CASE LoseAck
  BY <1>2 DEF LoseAck
<1>3. CASE VWriteCopy
  <2>1. /\ writePc' \in {"idle", "copy", "full"}
        /\ dataWrittenToBuf' \in BOOLEAN
        /\ panicked' \in BOOLEAN
    BY <1>3, Zenon DEF VWriteCopy
  <2>2. UNCHANGED <<isProbing, rtoTimer, spaceAvailable, otherSideWindowUpdated, zwpTrigger, dataToRead,
                    torn, sendPc, ipPc, timerPc, state, recvPc, readPc>>
    BY <1>3 DEF VWriteCopy
  <2> QED BY <2>1, <2>2
<1>4. CASE VWriteWake
  <2>1. spaceAvailable' \in BOOLEAN /\ writePc' \in {"idle", "copy", "full"}
    BY <1>4, Zenon DEF VWriteWake
  <2>2. UNCHANGED <<isProbing, rtoTimer, dataWrittenToBuf, otherSideWindowUpdated, zwpTrigger, dataToRead,
                    torn, panicked, sendPc, ipPc, timerPc, state, recvPc, readPc>>
    BY <1>4 DEF VWriteWake
  <2> QED BY <2>1, <2>2
<1>5. CASE SendSelect
  <2>1. /\ dataWrittenToBuf' \in BOOLEAN
        /\ zwpTrigger' \in BOOLEAN
        /\ sendPc' \in {"select", "inner", "probing", "blocked", "queue", "advance", "done"}
    BY <1>5, Zenon DEF SendSelect
  <2>2. UNCHANGED <<isProbing, rtoTimer, spaceAvailable, otherSideWindowUpdated, dataToRead,
                    torn, panicked, writePc, ipPc, timerPc, state, recvPc, readPc>>
    BY <1>5 DEF SendSelect
  <2> QED BY <2>1, <2>2
<1>6. CASE SendNothing
  BY <1>6 DEF SendNothing
<1>7. CASE SendProbe
  BY <1>7 DEF SendProbe
<1>8. CASE SendBlocked
  BY <1>8 DEF SendBlocked
<1>9. CASE SendWindowUpdated
  <2>1. /\ otherSideWindowUpdated' \in BOOLEAN
        /\ sendPc' \in {"select", "inner", "probing", "blocked", "queue", "advance", "done"}
    BY <1>9, Zenon DEF SendWindowUpdated
  <2>2. UNCHANGED <<isProbing, rtoTimer, dataWrittenToBuf, spaceAvailable, zwpTrigger, dataToRead,
                    torn, panicked, writePc, ipPc, timerPc, state, recvPc, readPc>>
    BY <1>9 DEF SendWindowUpdated
  <2> QED BY <2>1, <2>2
<1>10. CASE ProbeTimer
  BY <1>10 DEF ProbeTimer
<1>11. CASE SendSegment
  <2>1. /\ isProbing' \in BOOLEAN
        /\ sendPc' \in {"select", "inner", "probing", "blocked", "queue", "advance", "done"}
    BY <1>11, Zenon DEF SendSegment
  <2>2. UNCHANGED <<rtoTimer, dataWrittenToBuf, spaceAvailable, otherSideWindowUpdated, zwpTrigger, dataToRead,
                    torn, panicked, writePc, ipPc, timerPc, state, recvPc, readPc>>
    BY <1>11 DEF SendSegment
  <2> QED BY <2>1, <2>2
<1>12. CASE SendQueue
  BY <1>12 DEF SendQueue
<1>13. CASE SendAdvance
  BY <1>13 DEF SendAdvance
<1>14. CASE AckUnmatched
  BY <1>14 DEF AckUnmatched
<1>15. CASE AckBeyondNxt
  <2>1. spaceAvailable' \in BOOLEAN /\ otherSideWindowUpdated' \in BOOLEAN
    BY <1>15, Zenon DEF AckBeyondNxt
  <2>2. UNCHANGED <<isProbing, rtoTimer, dataWrittenToBuf, zwpTrigger, dataToRead,
                    torn, panicked, writePc, sendPc, ipPc, timerPc, state, recvPc, readPc>>
    BY <1>15 DEF AckBeyondNxt
  <2> QED BY <2>1, <2>2
<1>16. CASE AckDuplicate
  BY <1>16 DEF AckDuplicate
<1>17. CASE AckAdvance
  BY <1>17 DEF AckAdvance
<1>18. CASE AckQueue
  <2>1. /\ rtoTimer' \in BOOLEAN
        /\ spaceAvailable' \in BOOLEAN
        /\ isProbing' \in BOOLEAN
        /\ zwpTrigger' \in BOOLEAN
        /\ otherSideWindowUpdated' \in BOOLEAN
        /\ ipPc' \in {"idle", "ack"}
    BY <1>18, Zenon DEF AckQueue, TimerRestarted
  <2>2. UNCHANGED <<dataWrittenToBuf, dataToRead,
                    torn, panicked, writePc, sendPc, timerPc, state, recvPc, readPc>>
    BY <1>18 DEF AckQueue
  <2> QED BY <2>1, <2>2
<1>19. CASE TimerFires
  <2>1. rtoTimer' \in BOOLEAN
    BY <1>19, Zenon DEF TimerFires
  <2>2. UNCHANGED <<isProbing, dataWrittenToBuf, spaceAvailable, otherSideWindowUpdated, zwpTrigger, dataToRead,
                    torn, panicked, writePc, sendPc, ipPc, timerPc, state, recvPc, readPc>>
    BY <1>19 DEF TimerFires
  <2> QED BY <2>1, <2>2
<1>20. CASE RetransmitSegment
  BY <1>20 DEF RetransmitSegment
<1>21. CASE RetransmitPanic
  BY <1>21 DEF RetransmitPanic
<1>22. CASE RetransmitGiveUp
  BY <1>22 DEF RetransmitGiveUp
<1>23. CASE Teardown
  BY <1>23 DEF Teardown
<1>24. CASE PayloadNotStored
  BY <1>24 DEF PayloadNotStored
<1>25. CASE PayloadStored
  BY <1>25 DEF PayloadStored
<1>26. CASE DrainEarlyArrival
  BY <1>26 DEF DrainEarlyArrival
<1>27. CASE DrainDone
  BY <1>27 DEF DrainDone
<1>28. CASE SendPureAck
  BY <1>28 DEF SendPureAck
<1>34. CASE SignalRead
  <2>1. dataToRead' \in BOOLEAN /\ recvPc' \in {"idle", "ack", "drain", "signal"}
    BY <1>34, Zenon DEF SignalRead, readSignal
  <2>2. UNCHANGED <<isProbing, rtoTimer, dataWrittenToBuf, spaceAvailable, otherSideWindowUpdated, zwpTrigger,
                    torn, panicked, writePc, sendPc, ipPc, timerPc, state, readPc>>
    BY <1>34 DEF SignalRead
  <2> QED BY <2>1, <2>2
<1>29. CASE VReadEmpty
  BY <1>29 DEF VReadEmpty
<1>30. CASE VReadWake
  <2>1. dataToRead' \in BOOLEAN /\ readPc' \in {"ready", "empty"}
    BY <1>30, Zenon DEF VReadWake
  <2>2. UNCHANGED <<isProbing, rtoTimer, dataWrittenToBuf, spaceAvailable, otherSideWindowUpdated, zwpTrigger,
                    torn, panicked, writePc, sendPc, ipPc, timerPc, state, recvPc>>
    BY <1>30 DEF VReadWake
  <2> QED BY <2>1, <2>2
<1>31. ASSUME NEW n \in WriteSizes, VWrite(n) PROVE ControlOK'
  BY <1>31 DEF VWrite
<1>32. ASSUME NEW n \in ReadSizes, VRead(n) PROVE ControlOK'
  BY <1>32 DEF VRead
<1>33. CASE UNCHANGED vars
  BY <1>33 DEF vars
<1> QED
  BY <1>1, <1>2, <1>3, <1>4, <1>5, <1>6, <1>7, <1>8, <1>9, <1>10, <1>11, <1>12, <1>13, <1>14, <1>15, <1>16, <1>17, <1>18, <1>19, <1>20, <1>21, <1>22, <1>23, <1>24, <1>25, <1>26, <1>27, <1>28, <1>29, <1>30, <1>31, <1>32, <1>33, <1>34, Zenon
     DEF Next, Writer, SendLoop, HandlePureAck, Retransmission, HandlePayload, Reader, Network

\* What handlePayload does with the expected segment: it stores a prefix of it.
LEMMA StoredSegment ==
    ASSUME DataOK, PayloadStored
    PROVE  \E i \in 1..Len(segs), n \in Nat :
              /\ segs[i].seq = rcvNxt
              /\ n <= Len(segs[i].data) /\ n <= rcvFreeSpace
              /\ segs' = RemoveAt(segs, i)
              /\ rcvBuf' = rcvBuf \o SubSeq(segs[i].data, 1, n)
              /\ rcvNxt' = rcvNxt + n
<1> DEFINE n(i) == IF Len(segs[i].data) > rcvFreeSpace THEN rcvFreeSpace ELSE Len(segs[i].data)
<1>1. PICK i \in Deliverable("segs", segs) :
         /\ segs[i].seq = rcvNxt
         /\ segs' = RemoveAt(segs, i)
         /\ rcvBuf' = rcvBuf \o SubSeq(segs[i].data, 1, n(i))
         /\ rcvNxt' = rcvNxt + n(i)
  BY DEF PayloadStored
<1>2. i \in 1..Len(segs)
  BY DEF Deliverable
<1>3. segs[i] \in Segment
  BY <1>2 DEF DataOK
<1>4. Len(segs[i].data) \in Nat
  BY <1>3 DEF Segment
<1>5. rcvFreeSpace \in Nat
  BY WindowAssumption DEF rcvFreeSpace, DataOK
<1>6. n(i) \in Nat /\ n(i) <= Len(segs[i].data) /\ n(i) <= rcvFreeSpace
  BY <1>4, <1>5
<1> HIDE DEF n
<1> QED BY <1>1, <1>2, <1>6

\* Every step keeps numbers, buffers, queues and packets in their types.
LEMMA DataStep == DataOK /\ [Next]_vars => DataOK'
<1> SUFFICES ASSUME DataOK, [Next]_vars PROVE DataOK'
  OBVIOUS
<1> USE DEF sendBufVars, channelVars, queueVars, writeVars, loopVars, closeVars, recvVars, netVars, senderVars
<1>a. una \in Nat /\ nxt \in Nat /\ una <= nxt
  BY DEF DataOK
<1>b. cBuf \in [baseSeq : Nat, currSize : 0..WIN]
  BY DEF DataOK
<1>c. retransQueue \in Seq(RetransmissionEntry)
  BY DEF DataOK
<1>d. segs \in Seq(Segment) /\ earlyArrivals \in Seq(Segment)
  BY DEF DataOK
<1>e. acks \in Seq(Ack)
  BY DEF DataOK
<1>f. rcvBuf \in Seq(Nat) /\ delivered \in Seq(Nat) /\ Len(rcvBuf) <= WIN /\ rcvNxt \in Nat /\ lbr \in Nat
  BY DEF DataOK
<1>1. CASE LoseSegment
  <2>1. PICK i \in 1..Len(segs) : segs' = RemoveAt(segs, i)
    BY <1>1 DEF LoseSegment, DataOK
  <2>2. segs' \in Seq(Segment)
    BY <2>1, RemoveAtElements DEF DataOK
  <2> QED BY <1>1, <2>2, BoundsAssumption DEF LoseSegment, DataOK
<1>2. CASE LoseAck
  <2>1. PICK i \in 1..Len(acks) : acks' = RemoveAt(acks, i)
    BY <1>2 DEF LoseAck, DataOK
  <2>2. acks' \in Seq(Ack)
    BY <2>1, RemoveAtElements DEF DataOK
  <2> QED BY <1>2, <2>2, BoundsAssumption DEF LoseAck, DataOK
<1>3. CASE VWriteCopy
  <2>1. CASE FreeSpace(cBuf) = 0
    BY <1>3, <2>1 DEF VWriteCopy, DataOK
  <2>2. CASE FreeSpace(cBuf) # 0
    <3> DEFINE n == IF toWrite > FreeSpace(cBuf) THEN FreeSpace(cBuf) ELSE toWrite
    <3>1. n \in Nat /\ n <= FreeSpace(cBuf) /\ n <= toWrite
      BY WindowAssumption DEF FreeSpace, DataOK
    <3>2. cBuf' = WriteIntoBuf(cBuf, n) /\ lbw' = lbw + n /\ toWrite' = toWrite - n
      BY <1>3, <2>2 DEF VWriteCopy, DataOK
    <3> HIDE DEF n
    <3>3. cBuf' \in [baseSeq : Nat, currSize : 0..WIN]
      BY <1>b, <3>1, <3>2, WriteIntoBufType
    <3>4. lbw' \in Nat /\ toWrite' \in Nat
      BY <3>1, <3>2 DEF DataOK
    <3> QED BY <1>3, <3>3, <3>4 DEF VWriteCopy, DataOK
  <2> QED BY <2>1, <2>2 DEF DataOK
<1>4. CASE VWriteWake
  BY <1>4 DEF VWriteWake, DataOK
<1>5. CASE SendSelect
  BY <1>5 DEF SendSelect, DataOK
<1>6. CASE SendNothing
  BY <1>6 DEF SendNothing, DataOK
<1>7. CASE SendProbe
  <2>1. [seq |-> una, data |-> SliceFrom(cBuf, una, 1)] \in Segment
    BY SliceType DEF Segment, DataOK
  <2>2. segs' \in Seq(Segment)
    BY <1>7, <2>1, PutElements, BoundsAssumption DEF SendProbe, DataOK
  <2> QED BY <1>7, <2>2 DEF SendProbe, DataOK
<1>8. CASE SendBlocked
  BY <1>8 DEF SendBlocked, DataOK
<1>9. CASE SendWindowUpdated
  BY <1>9 DEF SendWindowUpdated, DataOK
<1>10. CASE ProbeTimer
  BY <1>10 DEF ProbeTimer, DataOK
<1>11. CASE SendSegment
  <2>1. maxBytesSendable \in 1..MSS
    BY <1>11, SegmentLength DEF SendSegment, DataOK
  <2>2. [seq |-> seqNum, data |-> SliceFrom(cBuf, nxt, maxBytesSendable)] \in Segment
    BY <2>1, SliceType, WindowAssumption DEF Segment, DataOK
  <2>3. segs' \in Seq(Segment)
    BY <1>11, <2>2, PutElements, BoundsAssumption DEF SendSegment, DataOK
  <2> QED BY <1>11, <2>1, <2>3, WindowAssumption DEF SendSegment, DataOK
<1>12. CASE SendQueue
  <2>1. [seqNum |-> seqNum, len |-> segLen, numRetransmits |-> 0] \in RetransmissionEntry
    BY WindowAssumption DEF RetransmissionEntry, DataOK
  <2>2. retransQueue' \in Seq(RetransmissionEntry)
    BY <1>12, <2>1 DEF SendQueue, DataOK
  <2> QED BY <1>12, <2>2 DEF SendQueue, DataOK
<1>13. CASE SendAdvance
  BY <1>13, WindowAssumption DEF SendAdvance, DataOK
<1>14. CASE AckUnmatched
  <2>1. PICK i \in 1..Len(acks) : acks' = RemoveAt(acks, i)
    BY <1>14 DEF AckUnmatched, Deliverable, TakeAck, DataOK
  <2>2. acks[i] \in Ack /\ acks' \in Seq(Ack)
    BY <2>1, RemoveAtElements DEF DataOK
  <2> QED BY <1>14, <2>2 DEF AckUnmatched, DataOK
<1>15. CASE AckBeyondNxt
  <2>1. PICK i \in 1..Len(acks) : acks[i].ack > nxt /\ acks' = RemoveAt(acks, i)
                          /\ \/ /\ otherSideWindow' = acks[i].win
                                /\ una' = acks[i].ack /\ nxt' = acks[i].ack
                                /\ seqNum' = acks[i].ack
                                /\ cBuf' = AdvanceBase(cBuf, acks[i].ack - una)
                             \/ UNCHANGED <<otherSideWindow, una, nxt, seqNum, cBuf>>
    BY <1>15 DEF AckBeyondNxt, Deliverable, TakeAck, DataOK
  <2>2. acks[i] \in Ack /\ acks' \in Seq(Ack)
    BY <2>1, RemoveAtElements, SMTT(30) DEF DataOK
  <2>3. acks[i].ack \in Nat /\ acks[i].win \in 0..WIN
    BY <2>2 DEF Ack, DataOK
  <2>4. CASE UNCHANGED <<otherSideWindow, una, nxt, seqNum, cBuf>>
    BY <1>15, <2>2, <2>4 DEF AckBeyondNxt, DataOK
  <2>5. CASE /\ otherSideWindow' = acks[i].win
             /\ una' = acks[i].ack /\ nxt' = acks[i].ack /\ seqNum' = acks[i].ack
             /\ cBuf' = AdvanceBase(cBuf, acks[i].ack - una)
    <3>1. cBuf' \in [baseSeq : Nat, currSize : 0..WIN]
      <4>1. acks[i].ack - una \in Nat
        BY <1>a, <2>1, <2>3
      <4> QED BY <1>b, <2>5, <4>1, AdvanceBaseType
    <3>2. UNCHANGED <<lbw, retransQueue, callbacks, toWrite, segLen, lbr, rcvNxt, rcvBuf,
                      earlyArrivals, delivered, segs, losses>>
      BY <1>15 DEF AckBeyondNxt
    <3> QED BY <2>2, <2>3, <2>5, <3>1, <3>2, SMTT(30) DEF DataOK
  <2> QED BY <2>1, <2>4, <2>5 DEF DataOK
<1>16. CASE AckDuplicate
  <2>1. PICK i \in 1..Len(acks) : acks' = RemoveAt(acks, i) /\ otherSideWindow' = acks[i].win
    BY <1>16 DEF AckDuplicate, Deliverable, TakeAck, DataOK
  <2>2. acks[i] \in Ack /\ acks' \in Seq(Ack)
    BY <2>1, RemoveAtElements DEF DataOK
  <2> QED BY <1>16, <2>1, <2>2 DEF AckDuplicate, Ack, DataOK
<1>17. CASE AckAdvance
  <2>1. PICK i \in 1..Len(acks) : /\ una < acks[i].ack /\ acks' = RemoveAt(acks, i)
                          /\ otherSideWindow' = acks[i].win /\ una' = acks[i].ack
                          /\ cBuf' = AdvanceBase(cBuf, acks[i].ack - una)
    BY <1>17 DEF AckAdvance, Deliverable, TakeAck, DataOK
  <2>2. acks[i] \in Ack /\ acks' \in Seq(Ack)
    BY <2>1, RemoveAtElements, SMTT(30) DEF DataOK
  <2>3a. acks[i].ack - una \in Nat
    BY <1>a, <2>1, <2>2 DEF Ack
  <2>3. cBuf' \in [baseSeq : Nat, currSize : 0..WIN]
    BY <1>b, <2>1, <2>3a, AdvanceBaseType
  <2> QED BY <1>17, <2>1, <2>2, <2>3 DEF AckAdvance, Ack, DataOK
<1>18. CASE AckQueue
  BY <1>18, SMTT(30) DEF AckQueue, DataOK
<1>19. CASE TimerFires
  BY <1>19, BoundsAssumption DEF TimerFires, DataOK
<1>20. CASE RetransmitSegment
  <2>1. retransQueue[1] \in RetransmissionEntry
    BY <1>20, HeadElement DEF RetransmitSegment, DataOK
  <2>2. retransQueue' \in Seq(RetransmissionEntry)
    <3>1. [retransQueue[1] EXCEPT !.numRetransmits = @ + 1] \in RetransmissionEntry
      BY <2>1, EntryRetransmitted
    <3>2. retransQueue' = [retransQueue EXCEPT ![1] = [retransQueue[1] EXCEPT !.numRetransmits = @ + 1]]
      BY <1>20 DEF RetransmitSegment, DataOK
    <3> QED BY <1>20, <3>1, <3>2, ReplaceHead DEF RetransmitSegment, DataOK
  <2>3. [seq |-> retransQueue[1].seqNum,
         data |-> SliceFrom(cBuf, retransQueue[1].seqNum, retransQueue[1].len)] \in Segment
    BY <2>1, SliceType DEF Segment, RetransmissionEntry, DataOK
  <2>4. segs' \in Seq(Segment)
    BY <1>20, <2>3, PutElements, BoundsAssumption DEF RetransmitSegment, DataOK
  <2>5. callbacks' \in 0..MaxCallbacks
    <3>1. callbacks' \in {callbacks, callbacks - 1} /\ callbacks > 0
      BY <1>20 DEF RetransmitSegment, DataOK
    <3> QED BY <3>1, BoundsAssumption DEF DataOK
  <2> QED BY <1>20, <2>2, <2>4, <2>5 DEF RetransmitSegment, DataOK
<1>21. CASE RetransmitPanic
  BY <1>21 DEF RetransmitPanic, DataOK
<1>22. CASE RetransmitGiveUp
  <2>1. retransQueue[1] \in RetransmissionEntry
    BY <1>22, HeadElement DEF RetransmitGiveUp, DataOK
  <2>2. retransQueue' \in Seq(RetransmissionEntry)
    <3>1. [retransQueue[1] EXCEPT !.numRetransmits = @ + 1] \in RetransmissionEntry
      BY <2>1, EntryRetransmitted
    <3>2. retransQueue' = [retransQueue EXCEPT ![1] = [retransQueue[1] EXCEPT !.numRetransmits = @ + 1]]
      BY <1>22 DEF RetransmitGiveUp, DataOK
    <3> QED BY <1>22, <3>1, <3>2, ReplaceHead DEF RetransmitGiveUp, DataOK
  <2>3. callbacks' \in 0..MaxCallbacks
    <3>1. callbacks' \in {callbacks, callbacks - 1} /\ callbacks > 0
      BY <1>22 DEF RetransmitGiveUp, DataOK
    <3> QED BY <3>1, BoundsAssumption DEF DataOK
  <2> QED BY <1>22, <2>2, <2>3 DEF RetransmitGiveUp, DataOK
<1>23. CASE Teardown
  BY <1>23 DEF Teardown, DataOK
<1>24. CASE PayloadNotStored
  <2>1. PICK i \in 1..Len(segs) :
           /\ segs' = RemoveAt(segs, i)
           /\ earlyArrivals' \in {earlyArrivals, Append(earlyArrivals, segs[i])}
    BY <1>24 DEF PayloadNotStored, Deliverable, DataOK
  <2>2. segs' \in Seq(Segment) /\ segs[i] \in Segment
    BY <2>1, RemoveAtElements DEF DataOK
  <2> QED BY <1>24, <2>1, <2>2, SMTT(30) DEF PayloadNotStored, DataOK
<1>25. CASE PayloadStored
  <2>1. PICK i \in 1..Len(segs), n \in Nat :
           /\ n <= Len(segs[i].data) /\ n <= rcvFreeSpace
           /\ segs' = RemoveAt(segs, i)
           /\ rcvBuf' = rcvBuf \o SubSeq(segs[i].data, 1, n)
           /\ rcvNxt' = rcvNxt + n
    BY <1>25, StoredSegment
  <2>2. segs' \in Seq(Segment) /\ segs[i] \in Segment
    BY <1>d, <2>1, RemoveAtElements
  <2>2a. segs[i].data \in Seq(Nat) /\ n \in 0..Len(segs[i].data)
    BY <2>1, <2>2 DEF Segment
  <2>3. SubSeq(segs[i].data, 1, n) \in Seq(Nat) /\ Len(SubSeq(segs[i].data, 1, n)) = n
    BY <2>2a, PrefixAndRest
  <2>4. rcvBuf' \in Seq(Nat) /\ Len(rcvBuf') <= WIN /\ rcvNxt' \in Nat
    BY <1>f, <2>1, <2>3, ConcatProperties, WindowAssumption DEF rcvFreeSpace
  <2> QED BY <1>25, <2>2, <2>4 DEF PayloadStored, DataOK
<1>26. CASE DrainEarlyArrival
  <2>1. PICK i \in 1..Len(earlyArrivals) :
           /\ Fits(earlyArrivals[i])
           /\ rcvBuf' = rcvBuf \o earlyArrivals[i].data
           /\ rcvNxt' = rcvNxt + Len(earlyArrivals[i].data)
           /\ earlyArrivals' = RemoveAt(earlyArrivals, i)
    BY <1>26 DEF DrainEarlyArrival, Peek, DataOK
  <2>2. earlyArrivals' \in Seq(Segment) /\ earlyArrivals[i] \in Segment
    BY <1>d, <2>1, RemoveAtElements
  <2>2a. earlyArrivals[i].data \in Seq(Nat)
    BY <2>2 DEF Segment
  <2>3. rcvBuf' \in Seq(Nat) /\ Len(rcvBuf') <= WIN /\ rcvNxt' \in Nat
    BY <1>f, <2>1, <2>2a, ConcatProperties, WindowAssumption DEF Fits, rcvFreeSpace
  <2> QED BY <1>26, <2>2, <2>3 DEF DrainEarlyArrival, DataOK
<1>27. CASE DrainDone
  BY <1>27 DEF DrainDone, DataOK
<1>28. CASE SendPureAck
  <2>1. pureAck \in Ack
    BY WindowAssumption DEF pureAck, getAvailableWindow, Ack, DataOK
  <2>2. acks' \in Seq(Ack)
    BY <1>28, <2>1, PutElements, BoundsAssumption DEF SendPureAck, DataOK
  <2> QED BY <1>28, <2>2 DEF SendPureAck, DataOK
<1>34. CASE SignalRead
  BY <1>34 DEF SignalRead, DataOK
<1>29. CASE VReadEmpty
  BY <1>29 DEF VReadEmpty, DataOK
<1>30. CASE VReadWake
  BY <1>30 DEF VReadWake, DataOK
<1>31. ASSUME NEW n \in WriteSizes, VWrite(n) PROVE DataOK'
  BY <1>31, SizesAssumption DEF VWrite, DataOK
<1>32. ASSUME NEW n \in ReadSizes, VRead(n) PROVE DataOK'
  <2> DEFINE k == IF n > Len(rcvBuf) THEN Len(rcvBuf) ELSE n
  <2>1. k \in 0..Len(rcvBuf)
    BY SizesAssumption DEF DataOK
  <2>2. /\ delivered' = delivered \o SubSeq(rcvBuf, 1, k) /\ lbr' = lbr + k
        /\ rcvBuf' = SubSeq(rcvBuf, k + 1, Len(rcvBuf))
    BY <1>32 DEF VRead, Unread, DataOK
  <2> HIDE DEF k
  <2>3. /\ SubSeq(rcvBuf, 1, k) \in Seq(Nat)
        /\ rcvBuf' \in Seq(Nat) /\ Len(rcvBuf') = Len(rcvBuf) - k
    BY <1>f, <2>1, <2>2, PrefixAndRest
  <2>4. delivered' \in Seq(Nat)
    BY <1>f, <2>2, <2>3, ConcatProperties
  <2>5. lbr' \in Nat /\ Len(rcvBuf') <= WIN
    BY <1>f, <2>1, <2>2, <2>3, WindowAssumption
  <2> QED BY <1>32, <2>3, <2>4, <2>5 DEF VRead, DataOK
<1>33. CASE UNCHANGED vars
  BY <1>33 DEF vars, DataOK
<1> QED
  BY <1>1, <1>2, <1>3, <1>4, <1>5, <1>6, <1>7, <1>8, <1>9, <1>10, <1>11, <1>12, <1>13, <1>14, <1>15, <1>16, <1>17, <1>18, <1>19, <1>20, <1>21, <1>22, <1>23, <1>24, <1>25, <1>26, <1>27, <1>28, <1>29, <1>30, <1>31, <1>32, <1>33, <1>34, Zenon
     DEF Next, Writer, SendLoop, HandlePureAck, Retransmission, HandlePayload, Reader, Network

-----------------------------------------------------------------------------
\* Every behaviour of the two hosts keeps the variables in their types: the
\* send buffer never holds more than MAX_WIN_SIZE bytes, the receive buffer
\* neither, and una never passes nxt, for every window, segment and write size.
THEOREM TypeCorrect == Spec => []TypeOK
<1>1. Init => TypeOK
  BY InitType
<1>2. TypeOK /\ [Next]_vars => TypeOK'
  BY ControlStep, DataStep, Zenon DEF TypeOK
<1> QED BY <1>1, <1>2, PTL DEF Spec

\* What the retransmission queue and its timer are changed by.
LEMMA TimerStep ==
    ASSUME [Next]_vars
    PROVE  UNCHANGED <<retransQueue, rtoTimer, callbacks, state>> \/ SendQueue \/ AckQueue
           \/ TimerFires \/ RetransmitSegment \/ RetransmitGiveUp
<1> USE DEF sendBufVars, channelVars, queueVars, writeVars, loopVars, closeVars, recvVars, netVars, senderVars
<1>1. CASE Writer
  BY <1>1 DEF Writer, VWrite, VWriteCopy, VWriteWake
<1>2. CASE SendLoop
  BY <1>2 DEF SendLoop, SendSelect, SendNothing, SendProbe, SendBlocked, SendWindowUpdated,
              ProbeTimer, SendSegment, SendAdvance
<1>3. CASE HandlePureAck
  BY <1>3 DEF HandlePureAck, AckUnmatched, AckBeyondNxt, AckDuplicate, AckAdvance
<1>4. CASE TimerFires \/ Retransmission
  BY <1>4 DEF Retransmission, RetransmitPanic, Teardown
<1>5. CASE HandlePayload
  BY <1>5 DEF HandlePayload, PayloadNotStored, PayloadStored, DrainEarlyArrival, DrainDone, SignalRead, SendPureAck
<1>6. CASE Reader
  BY <1>6 DEF Reader, VRead, VReadEmpty, VReadWake
<1>7. CASE Network
  BY <1>7 DEF Network, LoseSegment, LoseAck
<1>8. CASE UNCHANGED vars
  BY <1>8 DEF vars
<1> QED BY <1>1, <1>2, <1>3, <1>4, <1>5, <1>6, <1>7, <1>8, Zenon DEF Next

\* Something that is to be sent again will be: sendLoop starts the timer with the
\* first entry, handlePureAck stops it and starts it again, and a timer that expires
\* is a callback of retransmitSegment, which starts it again or gives up; whatever
\* the order of these and of the ACKs.
THEOREM RetransmissionAlwaysArmed == Spec => []RetransmissionArmed
<1>1. Init => RetransmissionArmed
  BY DEF Init, RetransmissionArmed
<1>2. DataOK /\ RetransmissionArmed /\ [Next]_vars => RetransmissionArmed'
  <2> SUFFICES ASSUME DataOK, RetransmissionArmed, [Next]_vars PROVE RetransmissionArmed'
    OBVIOUS
  <2>0. callbacks \in Nat
    BY BoundsAssumption DEF DataOK
  <2>1. CASE UNCHANGED <<retransQueue, rtoTimer, callbacks, state>>
    BY <2>1 DEF RetransmissionArmed
  <2>2. CASE SendQueue
    BY <2>2 DEF SendQueue, RetransmissionArmed, closeVars
  <2>3. CASE AckQueue
    BY <2>3 DEF AckQueue, TimerRestarted, RetransmissionArmed
  <2>4. CASE TimerFires
    BY <2>0, <2>4 DEF TimerFires, RetransmissionArmed
  <2>5. CASE RetransmitSegment
    BY <2>5 DEF RetransmitSegment, RetransmissionArmed
  <2>6. CASE RetransmitGiveUp
    BY <2>6 DEF RetransmitGiveUp, RetransmissionArmed
  <2> QED BY <2>1, <2>2, <2>3, <2>4, <2>5, <2>6, TimerStep
<1>3. Spec => []DataOK
  BY TypeCorrect, PTL DEF TypeOK
<1> QED BY <1>1, <1>2, <1>3, PTL DEF Spec

=============================================================================
