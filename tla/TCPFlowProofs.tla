---------------------------- MODULE TCPFlowProofs ----------------------------
(***************************************************************************)
(* FlowInv is an inductive invariant of TCPTransfer when the network keeps *)
(* ACKs in order, and with it the stream, the window and the refinement of *)
(* the byte pipe hold for every window, segment size and write size, with  *)
(* any loss and with any reordering of the data segments.                  *)
(***************************************************************************)
EXTENDS TCPTransferProofs

\* What FlowInv speaks about, apart from sendPc.
flowVars == <<una, nxt, seqNum, lbw, cBuf, otherSideWindow, isProbing, segLen, retransQueue,
              segs, acks, earlyArrivals, lbr, rcvNxt, rcvBuf, delivered>>

LEMMA FlowInit == Init => FlowInv
<1> SUFFICES ASSUME Init PROVE FlowInv
  OBVIOUS
<1>1. SendBufInv /\ WindowInv /\ RecvBufInv
  BY WindowAssumption DEF Init, SendBufInv, WindowInv, RecvBufInv, ISN, sendEdge, recvEdge
<1>2. QueueInv /\ SegsInv /\ EarlyInv /\ AcksInv
  BY DEF Init, QueueInv, SegsInv, EarlyInv, AcksInv
<1> QED BY <1>1, <1>2 DEF FlowInv

\* A step that leaves all of this alone, and does not move sendLoop into
\* the window between sending and queueing, keeps FlowInv.
LEMMA QuietStep ==
    ASSUME FlowInv, UNCHANGED flowVars,
           sendPc' \in {"queue", "advance"} => sendPc \in {"queue", "advance"}
    PROVE  FlowInv'
<1>1. SendBufInv' /\ WindowInv' /\ RecvBufInv'
  BY DEF FlowInv, flowVars, SendBufInv, WindowInv, RecvBufInv, sendEdge, recvEdge
<1>2. QueueInv' /\ SegsInv' /\ EarlyInv' /\ AcksInv'
  BY DEF FlowInv, flowVars, QueueInv, SegsInv, EarlyInv, AcksInv, recvEdge
<1> QED BY <1>1, <1>2 DEF FlowInv


LEMMA CarriesLater ==
    ASSUME NEW s \in Segment, NEW n1 \in Nat, NEW n2 \in Nat, n1 <= n2,
           NEW l1 \in Nat, NEW l2 \in Nat, l1 <= l2, CarriesStream(s, n1, l1)
    PROVE  CarriesStream(s, n2, l2)
<1>1. s.seq \in Nat /\ Len(s.data) \in Nat
  BY DEF Segment
<1> QED BY <1>1, SMTT(30) DEF CarriesStream

LEMMA InWindowLater ==
    ASSUME NEW s \in Segment, NEW n1 \in Nat, NEW n2 \in Nat, n1 <= n2,
           NEW e1 \in Nat, NEW e2 \in Nat, e1 <= e2, InWindow(s, n1, e1)
    PROVE  InWindow(s, n2, e2)
<1>1. s.seq \in Nat /\ Len(s.data) \in Nat
  BY DEF Segment
<1> QED BY <1>1 DEF InWindow

LEMMA EntryLater ==
    ASSUME NEW e \in RetransmissionEntry, NEW l1 \in Nat, NEW l2 \in Nat, l1 <= l2,
           NEW e1 \in Nat, NEW e2 \in Nat, e1 <= e2, EntryOK(e, l1, e1)
    PROVE  EntryOK(e, l2, e2)
BY DEF EntryOK, RetransmissionEntry

LEMMA EdgeGrows ==
    ASSUME DataOK, DataOK', lbr <= lbr'
    PROVE  recvEdge \in Nat /\ recvEdge' \in Nat /\ recvEdge <= recvEdge'
<1>1. lbr \in Nat /\ lbr' \in Nat
  BY DEF DataOK
<1>2. WIN \in Nat
  BY WindowAssumption
<1>3. \A a, b, c \in Nat : a <= b => /\ a + 1 + c \in Nat /\ b + 1 + c \in Nat
                                     /\ a + 1 + c <= b + 1 + c
  OBVIOUS
<1> QED BY <1>1, <1>2, <1>3, Zenon DEF recvEdge

\* The network only removes segments, or adds one the sender has just built.
LEMMA SegsStep ==
    ASSUME DataOK, DataOK', SegsInv, lbw <= lbw', lbr <= lbr', rcvNxt <= rcvNxt',
           \A i \in 1..Len(segs') : \/ \E j \in 1..Len(segs) : segs'[i] = segs[j]
                                   \/ /\ CarriesStream(segs'[i], rcvNxt', lbw')
                                      /\ InWindow(segs'[i], rcvNxt', recvEdge')
    PROVE  SegsInv'
<1>1. /\ lbw \in Nat /\ rcvNxt \in Nat /\ segs \in Seq(Segment)
      /\ lbw' \in Nat /\ rcvNxt' \in Nat
  BY DEF DataOK
<1>2. recvEdge \in Nat /\ recvEdge' \in Nat /\ recvEdge <= recvEdge'
  BY EdgeGrows
<1>3. ASSUME NEW j \in 1..Len(segs)
      PROVE  CarriesStream(segs[j], rcvNxt', lbw') /\ InWindow(segs[j], rcvNxt', recvEdge')
  <2>1. segs[j] \in Segment
    BY <1>1
  <2>2. CarriesStream(segs[j], rcvNxt, lbw) /\ InWindow(segs[j], rcvNxt, recvEdge)
    BY DEF SegsInv
  <2>3. CarriesStream(segs[j], rcvNxt', lbw')
    BY <1>1, <2>1, <2>2, CarriesLater
  <2>4. InWindow(segs[j], rcvNxt', recvEdge')
    BY <1>1, <1>2, <2>1, <2>2, InWindowLater
  <2> QED BY <2>3, <2>4
<1> QED BY <1>3 DEF SegsInv

LEMMA EarlyStep ==
    ASSUME DataOK, DataOK', EarlyInv, lbw <= lbw', rcvNxt <= rcvNxt',
           \A i \in 1..Len(earlyArrivals') :
              \/ \E j \in 1..Len(earlyArrivals) : earlyArrivals'[i] = earlyArrivals[j]
              \/ CarriesStream(earlyArrivals'[i], rcvNxt', lbw')
    PROVE  EarlyInv'
<1>1. /\ lbw \in Nat /\ rcvNxt \in Nat /\ earlyArrivals \in Seq(Segment)
      /\ lbw' \in Nat /\ rcvNxt' \in Nat
  BY DEF DataOK
<1>2. ASSUME NEW j \in 1..Len(earlyArrivals)
      PROVE  CarriesStream(earlyArrivals[j], rcvNxt', lbw')
  <2>1. earlyArrivals[j] \in Segment
    BY <1>1
  <2>2. CarriesStream(earlyArrivals[j], rcvNxt, lbw)
    BY DEF EarlyInv
  <2> QED BY <1>1, <2>1, <2>2, CarriesLater
<1> QED BY <1>2 DEF EarlyInv

LEMMA QueueStep ==
    ASSUME DataOK, DataOK', QueueInv, lbw <= lbw', lbr <= lbr',
           \A i \in 1..Len(retransQueue') :
              \/ \E j \in 1..Len(retransQueue) :
                    /\ retransQueue'[i].seqNum = retransQueue[j].seqNum
                    /\ retransQueue'[i].len = retransQueue[j].len
              \/ EntryOK(retransQueue'[i], lbw', recvEdge')
    PROVE  QueueInv'
<1>1. /\ lbw \in Nat /\ lbw' \in Nat /\ retransQueue \in Seq(RetransmissionEntry)
  BY DEF DataOK
<1>2. recvEdge \in Nat /\ recvEdge' \in Nat /\ recvEdge <= recvEdge'
  BY EdgeGrows
<1>3. ASSUME NEW j \in 1..Len(retransQueue)
      PROVE  EntryOK(retransQueue[j], lbw', recvEdge')
  <2>1. retransQueue[j] \in RetransmissionEntry
    BY <1>1
  <2>2. EntryOK(retransQueue[j], lbw, recvEdge)
    BY DEF QueueInv
  <2> QED BY <1>1, <1>2, <2>1, <2>2, EntryLater
<1> QED BY <1>3 DEF QueueInv, EntryOK

\* ACKs in the network while the sender's view does not change.
LEMMA AcksStay ==
    ASSUME DataOK, DataOK', AcksInv, acks' = acks,
           una' = una, otherSideWindow' = otherSideWindow, lbr <= lbr', rcvNxt <= rcvNxt'
    PROVE  AcksInv'
<1>1. recvEdge \in Nat /\ recvEdge' \in Nat /\ recvEdge <= recvEdge'
  BY EdgeGrows
<1>2. /\ una \in Nat /\ otherSideWindow \in Nat /\ rcvNxt \in Nat /\ rcvNxt' \in Nat
      /\ acks \in Seq(Ack)
  BY WindowAssumption DEF DataOK
<1>3. ASSUME NEW i \in 1..Len(acks)
      PROVE  Follows(acks[i], [ack |-> rcvNxt', win |-> recvEdge' - rcvNxt'])
  <2>1. acks[i].ack \in Nat /\ acks[i].win \in Nat
    <3>1. acks[i] \in Ack
      BY <1>2
    <3> QED BY <3>1, WindowAssumption DEF Ack
  <2>2. Follows(acks[i], [ack |-> rcvNxt, win |-> recvEdge - rcvNxt])
    BY DEF AcksInv
  <2> QED BY <1>1, <1>2, <2>1, <2>2 DEF Follows
<1> QED BY <1>3 DEF AcksInv

\* Taking an ACK out of the network: dropped, or the first one adopted as
\* the sender's own view of the window.
LEMMA AcksTaken ==
    ASSUME DataOK, DataOK', AcksInv, rcvNxt' = rcvNxt, lbr' = lbr,
           NEW i \in 1..Len(acks), acks' = RemoveAt(acks, i),
           \/ una' = una /\ otherSideWindow' = otherSideWindow
           \/ i = 1 /\ una' = acks[1].ack /\ otherSideWindow' = acks[1].win
    PROVE  AcksInv'
<1>1. acks \in Seq(Ack) /\ Len(acks) \in Nat
  BY DEF DataOK
<1>2. /\ Len(acks') = Len(acks) - 1
      /\ \A j \in 1..(Len(acks) - 1) : acks'[j] = IF j < i THEN acks[j] ELSE acks[j + 1]
  BY <1>1, RemoveAtElements
<1>3. recvEdge' = recvEdge
  BY DEF recvEdge
<1> DEFINE old(j) == IF j < i THEN j ELSE j + 1
<1>4. ASSUME NEW j \in 1..Len(acks')
      PROVE  old(j) \in 1..Len(acks) /\ acks'[j] = acks[old(j)] /\ old(j) >= 1
  BY <1>1, <1>2
<1>5. ASSUME NEW j \in 1..Len(acks'), NEW k \in 1..Len(acks'), j <= k
      PROVE  Follows(acks'[j], acks'[k])
  <2>1. old(j) \in 1..Len(acks) /\ old(k) \in 1..Len(acks) /\ old(j) <= old(k)
    BY <1>4, <1>5, <1>1, <1>2
  <2> HIDE DEF old
  <2> QED BY <1>4, <2>1 DEF AcksInv
<1>6. ASSUME NEW j \in 1..Len(acks')
      PROVE  /\ Follows([ack |-> una', win |-> otherSideWindow'], acks'[j])
             /\ Follows(acks'[j], [ack |-> rcvNxt', win |-> recvEdge' - rcvNxt'])
  <2>1. old(j) \in 1..Len(acks) /\ acks'[j] = acks[old(j)] /\ 1 <= old(j) /\ 1 \in 1..Len(acks)
    BY <1>1, <1>4, <1>6
  <2> HIDE DEF old
  <2>2. Follows(acks'[j], [ack |-> rcvNxt', win |-> recvEdge' - rcvNxt'])
    BY <1>3, <2>1 DEF AcksInv
  <2>3. CASE una' = una /\ otherSideWindow' = otherSideWindow
    BY <2>1, <2>2, <2>3 DEF AcksInv
  <2>4. CASE i = 1 /\ una' = acks[1].ack /\ otherSideWindow' = acks[1].win
    <3>1. Follows(acks[1], acks[old(j)])
      BY <2>1 DEF AcksInv
    <3> QED BY <2>1, <2>2, <2>4, <3>1 DEF Follows
  <2> QED BY <2>3, <2>4
<1> HIDE DEF old
<1> QED BY <1>5, <1>6 DEF AcksInv

-----------------------------------------------------------------------------
(* Parts of FlowInv that a step leaves alone.                              *)

LEMMA SendBufStays ==
    ASSUME SendBufInv, UNCHANGED <<una, nxt, seqNum, lbw, cBuf, otherSideWindow, isProbing, segLen>>,
           sendPc' \in {"queue", "advance"} => sendPc \in {"queue", "advance"}
    PROVE  SendBufInv'
BY DEF SendBufInv, sendEdge

LEMMA WindowStays ==
    ASSUME WindowInv, UNCHANGED <<una, rcvNxt, lbw, otherSideWindow, lbr>>
    PROVE  WindowInv'
BY DEF WindowInv, sendEdge, recvEdge

LEMMA RecvBufStays ==
    ASSUME RecvBufInv, UNCHANGED <<lbr, rcvNxt, rcvBuf, delivered>>
    PROVE  RecvBufInv'
BY DEF RecvBufInv

LEMMA QueueStays ==
    ASSUME QueueInv, UNCHANGED <<retransQueue, lbw, lbr>>
    PROVE  QueueInv'
BY DEF QueueInv, recvEdge

LEMMA SegsStay ==
    ASSUME SegsInv, UNCHANGED <<segs, rcvNxt, lbw, lbr>>
    PROVE  SegsInv'
BY DEF SegsInv, recvEdge

LEMMA EarlyStays ==
    ASSUME EarlyInv, UNCHANGED <<earlyArrivals, rcvNxt, lbw>>
    PROVE  EarlyInv'
BY DEF EarlyInv

LEMMA AcksSame ==
    ASSUME AcksInv, UNCHANGED <<acks, una, otherSideWindow, rcvNxt, lbr>>
    PROVE  AcksInv'
BY DEF AcksInv, recvEdge

-----------------------------------------------------------------------------
(* The network *)

LEMMA SegmentRemoved ==
    ASSUME DataOK, DataOK', SegsInv, UNCHANGED <<lbw, lbr>>, rcvNxt <= rcvNxt',
           NEW i \in 1..Len(segs), segs' = RemoveAt(segs, i)
    PROVE  SegsInv'
<1>1. segs \in Seq(Segment) /\ Len(segs) \in Nat /\ lbw \in Nat /\ lbr \in Nat /\ rcvNxt \in Nat
  BY DEF DataOK
<1>2. /\ Len(segs') = Len(segs) - 1
      /\ \A j \in 1..(Len(segs) - 1) : segs'[j] = IF j < i THEN segs[j] ELSE segs[j + 1]
  BY <1>1, RemoveAtElements
<1>3. \A k \in 1..Len(segs') : \E j \in 1..Len(segs) : segs'[k] = segs[j]
  BY <1>1, <1>2
<1> QED BY <1>1, <1>3, SegsStep

LEMMA FlowLoseSegment == DataOK /\ DataOK' /\ FlowInv /\ LoseSegment => FlowInv'
<1> SUFFICES ASSUME DataOK, DataOK', FlowInv, LoseSegment PROVE FlowInv'
  OBVIOUS
<1>1. UNCHANGED <<una, nxt, seqNum, lbw, cBuf, otherSideWindow, isProbing, segLen, sendPc, retransQueue,
                  acks, earlyArrivals, lbr, rcvNxt, rcvBuf, delivered>>
  BY DEF LoseSegment, senderVars, sendBufVars, queueVars, writeVars, loopVars, recvVars
<1>2. SegsInv'
  <2>1. rcvNxt <= rcvNxt'
    BY <1>1 DEF DataOK
  <2> QED BY <1>1, <2>1, SegmentRemoved DEF LoseSegment, FlowInv
<1> QED BY <1>1, <1>2, SendBufStays, WindowStays, RecvBufStays, QueueStays, EarlyStays, AcksSame DEF FlowInv

\* LoseAck, and an ACK for a connection that is CLOSED.
LEMMA FlowAckDropped ==
    ASSUME DataOK, DataOK', FlowInv,
           UNCHANGED <<una, nxt, seqNum, lbw, cBuf, otherSideWindow, isProbing, segLen, sendPc,
                       retransQueue, segs, earlyArrivals, lbr, rcvNxt, rcvBuf, delivered>>,
           NEW i \in 1..Len(acks), acks' = RemoveAt(acks, i)
    PROVE  FlowInv'
<1>1. AcksInv'
  BY AcksTaken DEF FlowInv
<1> QED BY <1>1, SendBufStays, WindowStays, RecvBufStays, QueueStays, EarlyStays, SegsStay DEF FlowInv

-----------------------------------------------------------------------------
(* VWrite *)

LEMMA FlowVWriteCopy == DataOK /\ DataOK' /\ FlowInv /\ VWriteCopy => FlowInv'
<1> SUFFICES ASSUME DataOK, DataOK', FlowInv, VWriteCopy PROVE FlowInv'
  OBVIOUS
<1>1. UNCHANGED <<una, nxt, seqNum, otherSideWindow, isProbing, segLen, sendPc, retransQueue, segs,
                  acks, earlyArrivals, lbr, rcvNxt, rcvBuf, delivered>>
  BY DEF VWriteCopy, queueVars, loopVars, recvVars, netVars
<1>2. CASE lbw' = lbw /\ cBuf' = cBuf
  BY <1>1, <1>2, QuietStep DEF flowVars
<1>3. CASE \E n \in Nat : n <= FreeSpace(cBuf) /\ cBuf' = WriteIntoBuf(cBuf, n) /\ lbw' = lbw + n
  <2>1. PICK n \in Nat : n <= FreeSpace(cBuf) /\ cBuf' = WriteIntoBuf(cBuf, n) /\ lbw' = lbw + n
    BY <1>3
  <2>2. cBuf \in [baseSeq : Nat, currSize : 0..WIN]
    BY DEF DataOK
  <2>3. cBuf'.baseSeq = cBuf.baseSeq /\ cBuf'.currSize = cBuf.currSize + n
    BY <2>1, <2>2, WriteIntoBufType
  <2>4. una \in Nat /\ nxt \in Nat /\ lbw \in Nat /\ segLen \in Nat /\ lbr \in Nat /\ rcvNxt \in Nat
    BY WindowAssumption DEF DataOK
  <2>5. SendBufInv'
    <3>1. seqNum = nxt /\ nxt <= lbw + 1 /\ cBuf.baseSeq = una /\ cBuf.currSize = lbw + 1 - una
      BY DEF FlowInv, SendBufInv
    <3>2. /\ seqNum' = nxt' /\ nxt' <= lbw' + 1
          /\ cBuf'.baseSeq = una' /\ cBuf'.currSize = lbw' + 1 - una'
      BY <1>1, <2>1, <2>3, <2>4, <3>1
    <3>3. sendPc' \in {"queue", "advance"} =>
             /\ segLen' >= 1 /\ ~isProbing'
             /\ nxt' + segLen' <= lbw' + 1 /\ nxt' + segLen' <= sendEdge'
      BY <1>1, <2>1, <2>4 DEF FlowInv, SendBufInv, sendEdge
    <3> QED BY <3>2, <3>3 DEF SendBufInv
  <2>6. WindowInv'
    BY <1>1, <2>1, <2>4 DEF FlowInv, WindowInv, sendEdge, recvEdge
  <2>7. lbw <= lbw' /\ lbr <= lbr' /\ rcvNxt <= rcvNxt'
    BY <1>1, <2>1, <2>4
  <2>8. QueueInv' /\ SegsInv' /\ EarlyInv'
    BY <1>1, <2>7, QueueStep, SegsStep, EarlyStep DEF FlowInv
  <2> QED BY <1>1, <2>5, <2>6, <2>8, RecvBufStays, AcksSame DEF FlowInv
<1>4. (lbw' = lbw /\ cBuf' = cBuf) \/ \E n \in Nat : n <= FreeSpace(cBuf) /\ cBuf' = WriteIntoBuf(cBuf, n) /\ lbw' = lbw + n
  <2>1. toWrite \in Nat /\ cBuf \in [baseSeq : Nat, currSize : 0..WIN]
    BY DEF DataOK
  <2>2. FreeSpace(cBuf) \in Nat
    BY <2>1, WindowAssumption DEF FreeSpace
  <2> QED BY <2>1, <2>2 DEF VWriteCopy
<1> QED BY <1>2, <1>3, <1>4

-----------------------------------------------------------------------------
(* sendLoop *)

\* A slice of the live region of the send buffer carries the stream.
LEMMA SliceCarries ==
    ASSUME NEW cb \in [baseSeq : Nat, currSize : 0..WIN], NEW s \in Nat, NEW n \in Nat,
           NEW next \in Nat, NEW last \in Nat,
           s >= next => s >= cb.baseSeq, cb.baseSeq + cb.currSize = last + 1, s + n <= last + 1
    PROVE  /\ [seq |-> s, data |-> SliceFrom(cb, s, n)] \in Segment
           /\ CarriesStream([seq |-> s, data |-> SliceFrom(cb, s, n)], next, last)
<1>1. SliceFrom(cb, s, n) \in Seq(Nat) /\ Len(SliceFrom(cb, s, n)) = n
  BY SliceType
<1>2. cb.baseSeq \in Nat /\ cb.currSize \in Nat
  BY WindowAssumption
<1>3. s >= next => \A k \in 1..n : SliceFrom(cb, s, n)[k] = s + k - 1
  <2> SUFFICES ASSUME s >= next, NEW k \in 1..n PROVE SliceFrom(cb, s, n)[k] = s + k - 1
    OBVIOUS
  <2>1. s >= cb.baseSeq /\ s + k - 1 < cb.baseSeq + cb.currSize
    BY <1>2
  <2> QED BY <2>1 DEF SliceFrom
<1> QED BY <1>1, <1>3 DEF CarriesStream, Segment

LEMMA SegmentPut ==
    ASSUME DataOK, DataOK', SegsInv, UNCHANGED <<lbw, lbr, rcvNxt>>,
           NEW m \in Segment, segs' = Put(segs, m, MaxSegs),
           CarriesStream(m, rcvNxt, lbw), InWindow(m, rcvNxt, recvEdge)
    PROVE  SegsInv'
<1>1. segs \in Seq(Segment) /\ Len(segs) \in Nat
  BY DEF DataOK
<1>2. segs' = segs \/ segs' = Append(segs, m)
  BY <1>1, PutElements, BoundsAssumption, ZenonT(30)
<1>3. \A k \in 1..Len(segs') : (k \in 1..Len(segs) /\ segs'[k] = segs[k]) \/ segs'[k] = m
  BY <1>1, <1>2
<1>4. recvEdge' = recvEdge
  BY DEF recvEdge
<1> QED BY <1>3, <1>4 DEF SegsInv

LEMMA FlowSendProbe == DataOK /\ DataOK' /\ FlowInv /\ SendProbe => FlowInv'
<1> SUFFICES ASSUME DataOK, DataOK', FlowInv, SendProbe PROVE FlowInv'
  OBVIOUS
<1>1. UNCHANGED <<una, nxt, seqNum, lbw, cBuf, otherSideWindow, segLen, retransQueue,
                  acks, earlyArrivals, lbr, rcvNxt, rcvBuf, delivered>>
  BY DEF SendProbe, queueVars, writeVars, recvVars
<1> DEFINE m == [seq |-> una, data |-> SliceFrom(cBuf, una, 1)]
<1>2. cBuf \in [baseSeq : Nat, currSize : 0..WIN] /\ una \in Nat /\ nxt \in Nat /\ una <= nxt
      /\ lbw \in Nat /\ rcvNxt \in Nat
  BY DEF DataOK
<1>2a. cBuf.baseSeq \in Nat /\ cBuf.currSize \in Nat
  BY <1>2, WindowAssumption
<1>3. una >= cBuf.baseSeq /\ cBuf.baseSeq + cBuf.currSize = lbw + 1 /\ una + 1 <= lbw + 1
  BY <1>2, <1>2a DEF FlowInv, SendBufInv, SendProbe
<1>4. m \in Segment /\ CarriesStream(m, rcvNxt, lbw)
  BY <1>2, <1>3, SliceCarries
<1>5. InWindow(m, rcvNxt, recvEdge)
  <2>1. Len(m.data) = 1
    BY <1>2, SliceType
  <2> QED BY <2>1 DEF InWindow
<1>6. SegsInv'
  <2>1. segs' = Put(segs, m, MaxSegs)
    BY DEF SendProbe
  <2> HIDE DEF m
  <2> QED BY <1>1, <1>4, <1>5, <2>1, SegmentPut DEF FlowInv
<1>7. SendBufInv'
  BY <1>1 DEF FlowInv, SendBufInv, SendProbe
<1> QED BY <1>1, <1>6, <1>7, WindowStays, RecvBufStays, QueueStays, EarlyStays, AcksSame DEF FlowInv

LEMMA FlowSendSegment == DataOK /\ DataOK' /\ FlowInv /\ SendSegment => FlowInv'
<1> SUFFICES ASSUME DataOK, DataOK', FlowInv, SendSegment PROVE FlowInv'
  OBVIOUS
<1>1. UNCHANGED <<una, nxt, seqNum, lbw, cBuf, otherSideWindow, retransQueue,
                  acks, earlyArrivals, lbr, rcvNxt, rcvBuf, delivered>>
  BY DEF SendSegment, queueVars, writeVars, recvVars
<1> DEFINE n == maxBytesSendable
           m == [seq |-> nxt, data |-> SliceFrom(cBuf, nxt, n)]
<1>2. cBuf \in [baseSeq : Nat, currSize : 0..WIN] /\ una \in Nat /\ nxt \in Nat /\ una <= nxt
      /\ lbw \in Nat /\ lbr \in Nat /\ rcvNxt \in Nat /\ otherSideWindow \in Nat
  BY WindowAssumption DEF DataOK
<1>2a. cBuf.baseSeq \in Nat /\ cBuf.currSize \in Nat
  BY <1>2, WindowAssumption
<1>3. n \in 1..MSS /\ nxt + n <= lbw + 1 /\ nxt + n <= una + otherSideWindow
  BY SegmentLength DEF SendSegment
<1>4. segs' = Put(segs, m, MaxSegs) /\ segLen' = n /\ isProbing' = FALSE /\ sendPc' = "queue"
  BY DEF SendSegment, FlowInv, SendBufInv
<1> HIDE DEF n
<1>5. n \in Nat /\ n >= 1
  BY <1>3, WindowAssumption
<1>6. nxt >= cBuf.baseSeq /\ cBuf.baseSeq + cBuf.currSize = lbw + 1
  BY <1>2, <1>2a DEF FlowInv, SendBufInv
<1>7. m \in Segment /\ CarriesStream(m, rcvNxt, lbw)
  BY <1>2, <1>3, <1>5, <1>6, SliceCarries
<1>8. InWindow(m, rcvNxt, recvEdge)
  <2>1. Len(m.data) = n
    BY <1>2, <1>5, SliceType
  <2>2. nxt + n <= recvEdge
    BY <1>2, <1>3, <1>5, WindowAssumption DEF FlowInv, WindowInv, sendEdge, recvEdge
  <2> QED BY <2>1, <2>2 DEF InWindow
<1>9. SegsInv'
  <2> HIDE DEF m
  <2> QED BY <1>1, <1>4, <1>7, <1>8, SegmentPut DEF FlowInv
<1>10. SendBufInv'
  <2>1. /\ seqNum' = nxt' /\ nxt' <= lbw' + 1
        /\ cBuf'.baseSeq = una' /\ cBuf'.currSize = lbw' + 1 - una'
    BY <1>1 DEF FlowInv, SendBufInv
  <2>2. ~isProbing'
    BY <1>4
  <2>3. segLen' >= 1 /\ nxt' + segLen' <= lbw' + 1 /\ nxt' + segLen' <= sendEdge'
    BY <1>1, <1>3, <1>4, <1>5 DEF sendEdge
  <2> QED BY <2>1, <2>2, <2>3 DEF SendBufInv
<1> QED BY <1>1, <1>9, <1>10, WindowStays, RecvBufStays, QueueStays, EarlyStays, AcksSame DEF FlowInv

LEMMA FlowSendQueue == DataOK /\ DataOK' /\ FlowInv /\ SendQueue => FlowInv'
<1> SUFFICES ASSUME DataOK, DataOK', FlowInv, SendQueue PROVE FlowInv'
  OBVIOUS
<1>1. UNCHANGED <<una, nxt, seqNum, lbw, cBuf, otherSideWindow, isProbing, segLen, segs,
                  acks, earlyArrivals, lbr, rcvNxt, rcvBuf, delivered>>
  BY DEF SendQueue, sendBufVars, writeVars, recvVars, netVars
<1>2. /\ una \in Nat /\ otherSideWindow \in Nat /\ lbw \in Nat /\ lbr \in Nat
      /\ nxt \in Nat /\ segLen \in Nat /\ Len(retransQueue) \in Nat
      /\ retransQueue \in Seq(RetransmissionEntry)
  BY WindowAssumption DEF DataOK
<1> DEFINE e == [seqNum |-> seqNum, len |-> segLen, numRetransmits |-> 0]
<1>3. retransQueue' = Append(retransQueue, e)
  BY DEF SendQueue
<1>4. seqNum = nxt /\ nxt + segLen <= lbw + 1 /\ nxt + segLen <= sendEdge
  BY DEF SendQueue, FlowInv, SendBufInv
<1>5. nxt + segLen <= recvEdge
  BY <1>2, <1>4, WindowAssumption DEF FlowInv, WindowInv, sendEdge, recvEdge
<1>6. EntryOK(e, lbw, recvEdge)
  BY <1>4, <1>5 DEF EntryOK
<1>7. recvEdge' = recvEdge
  BY <1>1 DEF recvEdge
<1> HIDE DEF e
<1>8. \A k \in 1..Len(retransQueue') : (k \in 1..Len(retransQueue) /\ retransQueue'[k] = retransQueue[k])
                                        \/ retransQueue'[k] = e
  BY <1>2, <1>3
<1>9. QueueInv'
  BY <1>1, <1>6, <1>7, <1>8 DEF FlowInv, QueueInv
<1>10. SendBufInv'
  BY <1>1, SendBufStays DEF FlowInv, SendQueue
<1> QED BY <1>1, <1>9, <1>10, WindowStays, RecvBufStays, SegsStay, EarlyStays, AcksSame DEF FlowInv

LEMMA FlowSendAdvance == DataOK /\ DataOK' /\ FlowInv /\ SendAdvance => FlowInv'
<1> SUFFICES ASSUME DataOK, DataOK', FlowInv, SendAdvance PROVE FlowInv'
  OBVIOUS
<1>1. UNCHANGED <<una, lbw, cBuf, otherSideWindow, isProbing, retransQueue, segs,
                  acks, earlyArrivals, lbr, rcvNxt, rcvBuf, delivered>>
  BY DEF SendAdvance, queueVars, writeVars, recvVars, netVars
<1>2. nxt' = nxt + segLen /\ seqNum' = nxt' /\ sendPc' = "inner" /\ nxt + segLen <= lbw + 1
  BY DEF SendAdvance, FlowInv, SendBufInv
<1>3. SendBufInv'
  BY <1>1, <1>2 DEF FlowInv, SendBufInv
<1> QED BY <1>1, <1>3, WindowStays, RecvBufStays, QueueStays, SegsStay, EarlyStays, AcksSame DEF FlowInv

-----------------------------------------------------------------------------
(* handlePureAck *)

\* ACKs arrive in order: the one taken is the first, and it follows on
\* what the sender knows.
LEMMA FirstAck ==
    ASSUME "acks" \notin Reorder, DataOK, FlowInv, NEW i \in Deliverable("acks", acks)
    PROVE  /\ i = 1 /\ 1 \in 1..Len(acks)
           /\ acks[1].ack \in Nat /\ acks[1].win \in Nat
           /\ una <= acks[1].ack /\ acks[1].ack <= rcvNxt /\ acks[1].ack <= lbw + 1
           /\ una + otherSideWindow <= acks[1].ack + acks[1].win
           /\ acks[1].ack + acks[1].win <= recvEdge
<1>1. i = 1 /\ 1 \in 1..Len(acks)
  BY DEF Deliverable
<1>2. acks[1] \in Ack
  BY <1>1 DEF DataOK
<1>3. acks[1].ack \in Nat /\ acks[1].win \in Nat
  BY <1>2, WindowAssumption DEF Ack
<1>4. /\ Follows([ack |-> una, win |-> otherSideWindow], acks[1])
      /\ Follows(acks[1], [ack |-> rcvNxt, win |-> recvEdge - rcvNxt])
  BY <1>1 DEF FlowInv, AcksInv
<1>5. rcvNxt \in Nat /\ lbw \in Nat /\ rcvNxt <= lbw + 1
  BY DEF DataOK, FlowInv, WindowInv
<1>6. recvEdge \in Nat
  BY WindowAssumption DEF recvEdge, DataOK
<1> QED BY <1>1, <1>3, <1>4, <1>5, <1>6 DEF Follows

\* The sender adopts number and window of the first ACK, and reclaims the
\* bytes below it.
LEMMA AckAdopted ==
    ASSUME "acks" \notin Reorder, DataOK, DataOK', FlowInv,
           1 \in Deliverable("acks", acks), acks' = RemoveAt(acks, 1),
           una' = acks[1].ack, otherSideWindow' = acks[1].win,
           cBuf' = AdvanceBase(cBuf, acks[1].ack - una),
           \/ nxt' = nxt /\ acks[1].ack <= nxt
           \/ nxt' = acks[1].ack /\ isProbing,
           seqNum' = nxt',
           UNCHANGED <<lbw, isProbing, segLen, sendPc, retransQueue, segs, earlyArrivals,
                       lbr, rcvNxt, rcvBuf, delivered>>
    PROVE  FlowInv'
<1> DEFINE a == acks[1].ack
           w == acks[1].win
<1>1. /\ 1 \in 1..Len(acks) /\ a \in Nat /\ w \in Nat
      /\ una <= a /\ a <= rcvNxt /\ a <= lbw + 1
      /\ una + otherSideWindow <= a + w /\ a + w <= recvEdge
  BY FirstAck
<1>2. una' = a /\ otherSideWindow' = w
  OBVIOUS
<1>2a. cBuf' = AdvanceBase(cBuf, a - una)
  OBVIOUS
<1>2b. (nxt' = nxt /\ a <= nxt) \/ (nxt' = a /\ isProbing)
  OBVIOUS
<1>3. AcksInv'
  BY <1>1, AcksTaken DEF FlowInv
<1> HIDE DEF a, w
<1>4. /\ una \in Nat /\ nxt \in Nat /\ una <= nxt /\ lbw \in Nat /\ segLen \in Nat /\ rcvNxt \in Nat
      /\ otherSideWindow \in Nat /\ cBuf \in [baseSeq : Nat, currSize : 0..WIN]
  BY WindowAssumption DEF DataOK
<1>5. /\ seqNum = nxt /\ nxt <= lbw + 1 /\ cBuf.baseSeq = una /\ cBuf.currSize = lbw + 1 - una
  BY DEF FlowInv, SendBufInv
<1>6. cBuf'.baseSeq = a /\ cBuf'.currSize = lbw + 1 - a
  <2>1. a - una \in Nat /\ a - una <= cBuf.currSize
    BY <1>1, <1>4, <1>5
  <2>2. cBuf'.baseSeq = cBuf.baseSeq + (a - una) /\ cBuf'.currSize = cBuf.currSize - (a - una)
    BY <1>2a, <1>4, <2>1, AdvanceBaseType, ZenonT(30)
  <2> QED BY <1>1, <1>4, <1>5, <2>2
<1>7. SendBufInv'
  <2>1. /\ seqNum' = nxt' /\ nxt' <= lbw' + 1
        /\ cBuf'.baseSeq = una' /\ cBuf'.currSize = lbw' + 1 - una'
    BY <1>1, <1>2, <1>2b, <1>4, <1>5, <1>6
  <2>2. ASSUME sendPc' \in {"queue", "advance"}
        PROVE  /\ segLen' >= 1 /\ ~isProbing'
               /\ nxt' + segLen' <= lbw' + 1 /\ nxt' + segLen' <= sendEdge'
    <3>1. segLen >= 1 /\ nxt + segLen <= lbw + 1 /\ nxt + segLen <= una + otherSideWindow
      BY <2>2 DEF FlowInv, SendBufInv, sendEdge
    <3>2. ~isProbing
      BY <2>2 DEF FlowInv, SendBufInv
    <3>3. nxt' = nxt
      BY <1>2b, <3>2
    <3>4. nxt + segLen <= a + w
      BY <1>1, <1>4, <3>1
    <3> QED BY <1>2, <3>1, <3>2, <3>3, <3>4 DEF sendEdge
  <2> QED BY <2>1, <2>2 DEF SendBufInv
<1>8. WindowInv'
  <2>1. recvEdge' = recvEdge
    BY DEF recvEdge
  <2>2. rcvNxt <= lbw + 1
    BY DEF FlowInv, WindowInv
  <2> QED BY <1>1, <1>2, <2>1, <2>2 DEF WindowInv, sendEdge
<1> QED BY <1>3, <1>7, <1>8, RecvBufStays, QueueStays, SegsStay, EarlyStays DEF FlowInv

LEMMA FlowAckBeyondNxt ==
    "acks" \notin Reorder /\ DataOK /\ DataOK' /\ FlowInv /\ AckBeyondNxt => FlowInv'
<1> SUFFICES ASSUME "acks" \notin Reorder, DataOK, DataOK', FlowInv, AckBeyondNxt PROVE FlowInv'
  OBVIOUS
<1>1. UNCHANGED <<lbw, isProbing, segLen, sendPc, retransQueue, segs, earlyArrivals,
                  lbr, rcvNxt, rcvBuf, delivered>>
  BY DEF AckBeyondNxt, queueVars, writeVars, loopVars, recvVars
<1>2. PICK i \in Deliverable("acks", acks) :
         /\ acks' = RemoveAt(acks, i)
         /\ \/ /\ otherSideWindow' = acks[i].win /\ isProbing
               /\ una' = acks[i].ack /\ nxt' = acks[i].ack /\ seqNum' = acks[i].ack
               /\ cBuf' = AdvanceBase(cBuf, acks[i].ack - una)
            \/ UNCHANGED <<otherSideWindow, una, nxt, seqNum, cBuf>>
  BY DEF AckBeyondNxt, TakeAck
<1>3. i = 1 /\ 1 \in 1..Len(acks)
  BY FirstAck
<1>4. CASE UNCHANGED <<otherSideWindow, una, nxt, seqNum, cBuf>>
  BY <1>1, <1>2, <1>3, <1>4, FlowAckDropped
<1>5. CASE /\ otherSideWindow' = acks[i].win /\ isProbing
           /\ una' = acks[i].ack /\ nxt' = acks[i].ack /\ seqNum' = acks[i].ack
           /\ cBuf' = AdvanceBase(cBuf, acks[i].ack - una)
  BY <1>1, <1>2, <1>3, <1>5, AckAdopted
<1> QED BY <1>2, <1>4, <1>5

LEMMA FlowAckDuplicate ==
    "acks" \notin Reorder /\ DataOK /\ DataOK' /\ FlowInv /\ AckDuplicate => FlowInv'
<1> SUFFICES ASSUME "acks" \notin Reorder, DataOK, DataOK', FlowInv, AckDuplicate PROVE FlowInv'
  OBVIOUS
<1>1. UNCHANGED <<una, nxt, seqNum, cBuf, lbw, isProbing, segLen, sendPc, retransQueue, segs,
                  earlyArrivals, lbr, rcvNxt, rcvBuf, delivered>>
  BY DEF AckDuplicate, queueVars, writeVars, loopVars, recvVars
<1>2. PICK i \in Deliverable("acks", acks) :
         /\ acks[i].ack <= nxt /\ acks[i].ack <= una
         /\ acks' = RemoveAt(acks, i) /\ otherSideWindow' = acks[i].win
  BY DEF AckDuplicate, TakeAck
<1>3. i = 1 /\ acks[1].ack \in Nat /\ una <= acks[1].ack
  BY FirstAck
<1>4. una \in Nat /\ cBuf \in [baseSeq : Nat, currSize : 0..WIN]
  BY DEF DataOK
<1>5. acks[1].ack = una
  BY <1>2, <1>3, <1>4
<1>6. cBuf' = AdvanceBase(cBuf, acks[1].ack - una)
  <2>1. AdvanceBase(cBuf, 0) = cBuf
    BY <1>4, WindowAssumption DEF AdvanceBase
  <2>2. acks[1].ack - una = 0
    BY <1>4, <1>5
  <2> QED BY <1>1, <2>1, <2>2
<1>7. seqNum' = nxt'
  BY <1>1 DEF FlowInv, SendBufInv
<1> QED BY <1>1, <1>2, <1>3, <1>5, <1>6, <1>7, AckAdopted

LEMMA FlowAckAdvance ==
    "acks" \notin Reorder /\ DataOK /\ DataOK' /\ FlowInv /\ AckAdvance => FlowInv'
<1> SUFFICES ASSUME "acks" \notin Reorder, DataOK, DataOK', FlowInv, AckAdvance PROVE FlowInv'
  OBVIOUS
<1>1. UNCHANGED <<nxt, seqNum, lbw, isProbing, segLen, sendPc, retransQueue, segs,
                  earlyArrivals, lbr, rcvNxt, rcvBuf, delivered>>
  BY DEF AckAdvance, queueVars, writeVars, loopVars, recvVars
<1>2. PICK i \in Deliverable("acks", acks) :
         /\ acks[i].ack <= nxt /\ acks' = RemoveAt(acks, i)
         /\ otherSideWindow' = acks[i].win /\ una' = acks[i].ack
         /\ cBuf' = AdvanceBase(cBuf, acks[i].ack - una)
  BY DEF AckAdvance, TakeAck
<1>3. i = 1
  BY FirstAck
<1>4. seqNum' = nxt'
  BY <1>1 DEF FlowInv, SendBufInv
<1> QED BY <1>1, <1>2, <1>3, <1>4, AckAdopted

LEMMA FlowAckQueue == DataOK /\ DataOK' /\ FlowInv /\ AckQueue => FlowInv'
<1> SUFFICES ASSUME DataOK, DataOK', FlowInv, AckQueue PROVE FlowInv'
  OBVIOUS
<1>1. UNCHANGED <<una, nxt, seqNum, lbw, cBuf, otherSideWindow, segLen, sendPc, segs,
                  acks, earlyArrivals, lbr, rcvNxt, rcvBuf, delivered>>
  BY DEF AckQueue, writeVars, loopVars, recvVars, netVars
<1>2. PICK k \in 0..Len(retransQueue) : retransQueue' = SubSeq(retransQueue, k + 1, Len(retransQueue))
  BY DEF AckQueue
<1>3. lbw \in Nat /\ lbr \in Nat /\ retransQueue \in Seq(RetransmissionEntry) /\ Len(retransQueue) \in Nat
  BY DEF DataOK
<1>4. /\ Len(retransQueue') = Len(retransQueue) - k
      /\ \A j \in 1..(Len(retransQueue) - k) : retransQueue'[j] = retransQueue[k + j]
  BY <1>2, <1>3, PrefixAndRest
<1>5. \A i \in 1..Len(retransQueue') : i + k \in 1..Len(retransQueue) /\ retransQueue'[i] = retransQueue[i + k]
  BY <1>3, <1>4
<1>6. QueueInv'
  <2>1. lbw <= lbw' /\ lbr <= lbr'
    BY <1>1, <1>3
  <2> QED BY <1>5, <2>1, QueueStep DEF FlowInv
<1>7. SendBufInv'
  <2>1. /\ seqNum' = nxt' /\ nxt' <= lbw' + 1
        /\ cBuf'.baseSeq = una' /\ cBuf'.currSize = lbw' + 1 - una'
    BY <1>1 DEF FlowInv, SendBufInv
  <2>2. ASSUME sendPc' \in {"queue", "advance"}
        PROVE  /\ segLen' >= 1 /\ ~isProbing'
               /\ nxt' + segLen' <= lbw' + 1 /\ nxt' + segLen' <= sendEdge'
    <3>1. segLen >= 1 /\ nxt + segLen <= lbw + 1 /\ nxt + segLen <= una + otherSideWindow
      BY <1>1, <2>2 DEF FlowInv, SendBufInv, sendEdge
    <3>2. ~isProbing
      BY <1>1, <2>2 DEF FlowInv, SendBufInv
    <3>3. otherSideWindow # 0
      <4>1. una \in Nat /\ nxt \in Nat /\ una <= nxt /\ segLen \in Nat
        BY WindowAssumption DEF DataOK
      <4> QED BY <3>1, <4>1
    <3>4. isProbing' = isProbing
      BY <3>3, Zenon DEF AckQueue
    <3> QED BY <1>1, <3>1, <3>2, <3>4 DEF sendEdge
  <2> QED BY <2>1, <2>2 DEF SendBufInv
<1> QED BY <1>1, <1>6, <1>7, WindowStays, RecvBufStays, SegsStay, EarlyStays, AcksSame DEF FlowInv

-----------------------------------------------------------------------------
(* retransmitSegment *)

\* Counting a retransmission changes no sequence number of the queue.
LEMMA HeadRetransmitted ==
    ASSUME DataOK, DataOK', QueueInv, UNCHANGED <<lbw, lbr>>, retransQueue # <<>>,
           retransQueue' = [retransQueue EXCEPT ![1].numRetransmits = @ + 1]
    PROVE  QueueInv'
<1>1. lbw \in Nat /\ lbr \in Nat /\ retransQueue \in Seq(RetransmissionEntry)
  BY DEF DataOK
<1>2. 1 \in 1..Len(retransQueue) /\ retransQueue[1] \in RetransmissionEntry
  BY <1>1, HeadElement
<1> DEFINE e == [retransQueue[1] EXCEPT !.numRetransmits = @ + 1]
<1>3. e \in RetransmissionEntry /\ e.seqNum = retransQueue[1].seqNum /\ e.len = retransQueue[1].len
  BY <1>2, EntryRetransmitted
<1>4. retransQueue' = [retransQueue EXCEPT ![1] = e]
  BY <1>1
<1> HIDE DEF e
<1>5. /\ Len(retransQueue') = Len(retransQueue)
      /\ \A j \in 1..Len(retransQueue) : retransQueue'[j] = IF j = 1 THEN e ELSE retransQueue[j]
  BY <1>1, <1>3, <1>4, ReplaceHead
<1>6. \A j \in 1..Len(retransQueue') : \E k \in 1..Len(retransQueue) :
         retransQueue'[j].seqNum = retransQueue[k].seqNum /\ retransQueue'[j].len = retransQueue[k].len
  BY <1>2, <1>3, <1>5
<1>7. lbw <= lbw' /\ lbr <= lbr'
  BY <1>1
<1> QED BY <1>6, <1>7, QueueStep

LEMMA FlowRetransmitSegment == DataOK /\ DataOK' /\ FlowInv /\ RetransmitSegment => FlowInv'
<1> SUFFICES ASSUME DataOK, DataOK', FlowInv, RetransmitSegment PROVE FlowInv'
  OBVIOUS
<1>1. UNCHANGED <<una, nxt, seqNum, lbw, cBuf, otherSideWindow, isProbing, segLen, sendPc,
                  acks, earlyArrivals, lbr, rcvNxt, rcvBuf, delivered>>
  BY DEF RetransmitSegment, sendBufVars, writeVars, loopVars, recvVars
<1>2. QueueInv'
  BY <1>1, HeadRetransmitted DEF RetransmitSegment, FlowInv
<1> DEFINE s == retransQueue[1].seqNum
           n == retransQueue[1].len
           m == [seq |-> s, data |-> SliceFrom(cBuf, s, n)]
<1>3. segs' = Put(segs, m, MaxSegs) /\ retransQueue # <<>>
  BY DEF RetransmitSegment
<1>4. 1 \in 1..Len(retransQueue) /\ retransQueue[1] \in RetransmissionEntry
  BY <1>3, HeadElement DEF DataOK
<1>5. s \in Nat /\ n \in Nat
  BY <1>4 DEF RetransmissionEntry
<1>6. s + n <= lbw + 1 /\ s + n <= recvEdge
  BY <1>4 DEF FlowInv, QueueInv, EntryOK
<1> HIDE DEF s, n
<1>7. /\ una \in Nat /\ lbw \in Nat /\ rcvNxt \in Nat /\ una <= rcvNxt
      /\ cBuf \in [baseSeq : Nat, currSize : 0..WIN]
      /\ cBuf.baseSeq = una /\ cBuf.currSize = lbw + 1 - una
  BY DEF DataOK, FlowInv, SendBufInv, WindowInv
<1>8. (s >= rcvNxt => s >= cBuf.baseSeq) /\ cBuf.baseSeq + cBuf.currSize = lbw + 1
  BY <1>5, <1>7
<1>9. m \in Segment /\ CarriesStream(m, rcvNxt, lbw)
  BY <1>5, <1>6, <1>7, <1>8, SliceCarries
<1>10. InWindow(m, rcvNxt, recvEdge)
  <2>1. Len(m.data) = n
    BY <1>5, <1>7, SliceType
  <2> QED BY <1>6, <2>1 DEF InWindow
<1>11. SegsInv'
  <2> HIDE DEF m
  <2> QED BY <1>1, <1>3, <1>9, <1>10, SegmentPut DEF FlowInv
<1> QED BY <1>1, <1>2, <1>11, SendBufStays, WindowStays, RecvBufStays, EarlyStays, AcksSame DEF FlowInv

LEMMA FlowRetransmitGiveUp == DataOK /\ DataOK' /\ FlowInv /\ RetransmitGiveUp => FlowInv'
<1> SUFFICES ASSUME DataOK, DataOK', FlowInv, RetransmitGiveUp PROVE FlowInv'
  OBVIOUS
<1>1. UNCHANGED <<una, nxt, seqNum, lbw, cBuf, otherSideWindow, isProbing, segLen, sendPc, segs,
                  acks, earlyArrivals, lbr, rcvNxt, rcvBuf, delivered>>
  BY DEF RetransmitGiveUp, sendBufVars, writeVars, loopVars, recvVars, netVars
<1>2. QueueInv'
  BY <1>1, HeadRetransmitted DEF RetransmitGiveUp, FlowInv
<1> QED BY <1>1, <1>2, SendBufStays, WindowStays, RecvBufStays, SegsStay, EarlyStays, AcksSame DEF FlowInv

-----------------------------------------------------------------------------
(* handlePayload *)

LEMMA EarlyArrivalRemoved ==
    ASSUME DataOK, DataOK', EarlyInv, UNCHANGED lbw, rcvNxt <= rcvNxt',
           NEW i \in 1..Len(earlyArrivals), earlyArrivals' = RemoveAt(earlyArrivals, i)
    PROVE  EarlyInv'
<1>1. earlyArrivals \in Seq(Segment) /\ Len(earlyArrivals) \in Nat /\ lbw \in Nat
  BY DEF DataOK
<1>2. /\ Len(earlyArrivals') = Len(earlyArrivals) - 1
      /\ \A j \in 1..(Len(earlyArrivals) - 1) :
            earlyArrivals'[j] = IF j < i THEN earlyArrivals[j] ELSE earlyArrivals[j + 1]
  BY <1>1, RemoveAtElements
<1>3. \A k \in 1..Len(earlyArrivals') : \E j \in 1..Len(earlyArrivals) : earlyArrivals'[k] = earlyArrivals[j]
  BY <1>1, <1>2
<1>4. lbw <= lbw'
  BY <1>1
<1> QED BY <1>3, <1>4, EarlyStep

LEMMA FlowPayloadNotStored == DataOK /\ DataOK' /\ FlowInv /\ PayloadNotStored => FlowInv'
<1> SUFFICES ASSUME DataOK, DataOK', FlowInv, PayloadNotStored PROVE FlowInv'
  OBVIOUS
<1>1. UNCHANGED <<una, nxt, seqNum, lbw, cBuf, otherSideWindow, isProbing, segLen, sendPc,
                  retransQueue, acks, lbr, rcvNxt, rcvBuf, delivered>>
  BY DEF PayloadNotStored, senderVars, sendBufVars, queueVars, writeVars, loopVars
<1>2. PICK i \in 1..Len(segs) :
         /\ segs' = RemoveAt(segs, i)
         /\ earlyArrivals' = earlyArrivals \/ earlyArrivals' = Append(earlyArrivals, segs[i])
  BY DEF PayloadNotStored, Deliverable
<1>3. rcvNxt \in Nat /\ lbw \in Nat /\ earlyArrivals \in Seq(Segment) /\ Len(earlyArrivals) \in Nat
      /\ segs \in Seq(Segment)
  BY DEF DataOK
<1>4. SegsInv'
  BY <1>1, <1>2, <1>3, SegmentRemoved DEF FlowInv
<1>5. CarriesStream(segs[i], rcvNxt, lbw)
  BY <1>2 DEF FlowInv, SegsInv
<1>6. \A j \in 1..Len(earlyArrivals') :
         \/ j \in 1..Len(earlyArrivals) /\ earlyArrivals'[j] = earlyArrivals[j]
         \/ earlyArrivals'[j] = segs[i]
  <2>1. segs[i] \in Segment
    BY <1>3
  <2>2. CASE earlyArrivals' = earlyArrivals
    BY <2>2
  <2>3. CASE earlyArrivals' = Append(earlyArrivals, segs[i])
    BY <1>3, <2>1, <2>3
  <2> QED BY <1>2, <2>2, <2>3
<1>7. EarlyInv'
  BY <1>1, <1>5, <1>6 DEF FlowInv, EarlyInv
<1> QED BY <1>1, <1>4, <1>7, SendBufStays, WindowStays, RecvBufStays, QueueStays, AcksSame DEF FlowInv

\* Bytes that continue the stream at rcvNxt are stored.
LEMMA BytesStored ==
    ASSUME DataOK, DataOK', FlowInv, NEW d \in Seq(Nat),
           \A k \in 1..Len(d) : d[k] = rcvNxt + k - 1, rcvNxt + Len(d) <= lbw + 1,
           rcvBuf' = rcvBuf \o d, rcvNxt' = rcvNxt + Len(d),
           UNCHANGED <<una, nxt, seqNum, lbw, cBuf, otherSideWindow, isProbing, segLen, sendPc,
                       retransQueue, acks, lbr, delivered>>
    PROVE  /\ SendBufInv' /\ WindowInv' /\ RecvBufInv' /\ QueueInv' /\ AcksInv'
           /\ rcvNxt <= rcvNxt'
<1>0. lbr \in Nat /\ rcvNxt \in Nat /\ rcvBuf \in Seq(Nat) /\ una \in Nat
  BY DEF DataOK
<1>1. /\ lbr \in Nat /\ rcvNxt \in Nat /\ rcvBuf \in Seq(Nat) /\ una \in Nat
      /\ Len(rcvBuf) \in Nat /\ Len(d) \in Nat
  BY <1>0
<1>2. /\ Len(rcvBuf') = Len(rcvBuf) + Len(d)
      /\ \A i \in 1..(Len(rcvBuf) + Len(d)) :
            rcvBuf'[i] = IF i <= Len(rcvBuf) THEN rcvBuf[i] ELSE d[i - Len(rcvBuf)]
  BY <1>1, ConcatProperties
<1>3. rcvNxt = lbr + 1 + Len(rcvBuf) /\ \A i \in 1..Len(rcvBuf) : rcvBuf[i] = lbr + i
  BY DEF FlowInv, RecvBufInv
<1>4. rcvNxt' = lbr + 1 + Len(rcvBuf')
  BY <1>1, <1>2, <1>3
<1>5. ASSUME NEW i \in 1..Len(rcvBuf') PROVE rcvBuf'[i] = lbr + i
  <2>1. i \in Nat /\ i \in 1..(Len(rcvBuf) + Len(d))
    BY <1>1, <1>2
  <2>2. CASE i <= Len(rcvBuf)
    BY <1>1, <1>2, <1>3, <2>1, <2>2
  <2>3. CASE i > Len(rcvBuf)
    <3>1. i - Len(rcvBuf) \in 1..Len(d) /\ rcvBuf'[i] = d[i - Len(rcvBuf)]
      BY <1>1, <1>2, <2>1, <2>3
    <3>2. rcvBuf'[i] = rcvNxt + (i - Len(rcvBuf)) - 1
      BY <3>1
    <3> QED BY <1>1, <1>3, <2>1, <3>2
  <2> QED BY <1>1, <2>1, <2>2, <2>3
<1>6. RecvBufInv'
  BY <1>4, <1>5 DEF FlowInv, RecvBufInv
<1>7. rcvNxt <= rcvNxt' /\ lbr <= lbr'
  BY <1>1
<1>8. WindowInv'
  BY <1>1 DEF FlowInv, WindowInv, sendEdge, recvEdge
<1> QED BY <1>6, <1>7, <1>8, SendBufStays, QueueStays, AcksStay DEF FlowInv

LEMMA FlowPayloadStored == DataOK /\ DataOK' /\ FlowInv /\ PayloadStored => FlowInv'
<1> SUFFICES ASSUME DataOK, DataOK', FlowInv, PayloadStored PROVE FlowInv'
  OBVIOUS
<1>1. UNCHANGED <<una, nxt, seqNum, lbw, cBuf, otherSideWindow, isProbing, segLen, sendPc,
                  retransQueue, acks, earlyArrivals, lbr, delivered>>
  BY DEF PayloadStored, senderVars, sendBufVars, queueVars, writeVars, loopVars
<1>2. PICK i \in 1..Len(segs), n \in Nat :
         /\ segs[i].seq = rcvNxt
         /\ n <= Len(segs[i].data)
         /\ segs' = RemoveAt(segs, i)
         /\ rcvBuf' = rcvBuf \o SubSeq(segs[i].data, 1, n)
         /\ rcvNxt' = rcvNxt + n
  BY StoredSegment
<1>a. segs \in Seq(Segment) /\ rcvNxt \in Nat /\ lbw \in Nat
  BY DEF DataOK
<1>3. segs[i] \in Segment /\ rcvNxt \in Nat /\ lbw \in Nat
  BY <1>2, <1>a
<1>4. segs[i].data \in Seq(Nat) /\ Len(segs[i].data) \in Nat
  BY <1>3 DEF Segment
<1> DEFINE d == SubSeq(segs[i].data, 1, n)
<1>5. d \in Seq(Nat) /\ Len(d) = n /\ \A k \in 1..n : d[k] = segs[i].data[k]
  BY <1>2, <1>4, PrefixAndRest
<1>6. CarriesStream(segs[i], rcvNxt, lbw)
  BY <1>2 DEF FlowInv, SegsInv
<1>7. /\ rcvNxt + Len(segs[i].data) <= lbw + 1
      /\ \A k \in 1..Len(segs[i].data) : segs[i].data[k] = rcvNxt + k - 1
  BY <1>2, <1>3, <1>6 DEF CarriesStream
<1>8. rcvBuf' = rcvBuf \o d
  BY <1>2
<1> HIDE DEF d
<1>9a. \A k \in 1..Len(d) : d[k] = rcvNxt + k - 1
  <2> SUFFICES ASSUME NEW k \in 1..Len(d) PROVE d[k] = rcvNxt + k - 1
    OBVIOUS
  <2>1. k \in 1..n /\ k \in 1..Len(segs[i].data)
    BY <1>2, <1>4, <1>5
  <2> QED BY <1>5, <1>7, <2>1
<1>9. rcvNxt + Len(d) <= lbw + 1 /\ rcvNxt' = rcvNxt + Len(d)
  BY <1>2, <1>3, <1>4, <1>5, <1>7
<1>10. /\ SendBufInv' /\ WindowInv' /\ RecvBufInv' /\ QueueInv' /\ AcksInv'
       /\ rcvNxt <= rcvNxt'
  BY <1>1, <1>5, <1>8, <1>9, <1>9a, BytesStored
<1>11. SegsInv'
  BY <1>1, <1>2, <1>10, SegmentRemoved DEF FlowInv
<1>12. EarlyInv'
  <2>1. lbw <= lbw'
    BY <1>1, <1>3
  <2> QED BY <1>1, <1>10, <2>1, EarlyStep DEF FlowInv
<1> QED BY <1>10, <1>11, <1>12 DEF FlowInv

LEMMA FlowDrainEarlyArrival == DataOK /\ DataOK' /\ FlowInv /\ DrainEarlyArrival => FlowInv'
<1> SUFFICES ASSUME DataOK, DataOK', FlowInv, DrainEarlyArrival PROVE FlowInv'
  OBVIOUS
<1>1. UNCHANGED <<una, nxt, seqNum, lbw, cBuf, otherSideWindow, isProbing, segLen, sendPc,
                  retransQueue, acks, segs, lbr, delivered>>
  BY DEF DrainEarlyArrival, senderVars, sendBufVars, queueVars, writeVars, loopVars, netVars
<1>2. PICK i \in 1..Len(earlyArrivals) :
         /\ earlyArrivals[i].seq = rcvNxt
         /\ rcvBuf' = rcvBuf \o earlyArrivals[i].data
         /\ rcvNxt' = rcvNxt + Len(earlyArrivals[i].data)
         /\ earlyArrivals' = RemoveAt(earlyArrivals, i)
  BY DEF DrainEarlyArrival, Peek, Fits
<1>a. earlyArrivals \in Seq(Segment) /\ rcvNxt \in Nat /\ lbw \in Nat /\ lbr \in Nat
  BY DEF DataOK
<1>3. earlyArrivals[i] \in Segment /\ rcvNxt \in Nat /\ lbw \in Nat /\ lbr \in Nat
  BY <1>2, <1>a
<1>4. earlyArrivals[i].data \in Seq(Nat)
  BY <1>3 DEF Segment
<1>5. CarriesStream(earlyArrivals[i], rcvNxt, lbw)
  BY <1>2 DEF FlowInv, EarlyInv
<1>6. /\ rcvNxt + Len(earlyArrivals[i].data) <= lbw + 1
      /\ \A k \in 1..Len(earlyArrivals[i].data) : earlyArrivals[i].data[k] = rcvNxt + k - 1
  BY <1>2, <1>3, <1>5 DEF CarriesStream
<1>7. /\ SendBufInv' /\ WindowInv' /\ RecvBufInv' /\ QueueInv' /\ AcksInv'
      /\ rcvNxt <= rcvNxt'
  BY <1>1, <1>2, <1>4, <1>6, BytesStored
<1>8. EarlyInv'
  BY <1>1, <1>2, <1>7, EarlyArrivalRemoved DEF FlowInv
<1>9. SegsInv'
  <2>1. lbw <= lbw' /\ lbr <= lbr'
    BY <1>1, <1>3
  <2> QED BY <1>1, <1>7, <2>1, SegsStep DEF FlowInv
<1> QED BY <1>7, <1>8, <1>9 DEF FlowInv

LEMMA FlowSendPureAck == DataOK /\ DataOK' /\ FlowInv /\ SendPureAck => FlowInv'
<1> SUFFICES ASSUME DataOK, DataOK', FlowInv, SendPureAck PROVE FlowInv'
  OBVIOUS
<1>1. UNCHANGED <<una, nxt, seqNum, lbw, cBuf, otherSideWindow, isProbing, segLen, sendPc,
                  retransQueue, segs, earlyArrivals, lbr, rcvNxt, rcvBuf, delivered>>
  BY DEF SendPureAck, senderVars, sendBufVars, queueVars, writeVars, loopVars
<1>a. acks \in Seq(Ack) /\ rcvNxt \in Nat /\ lbr \in Nat /\ rcvBuf \in Seq(Nat) /\ Len(rcvBuf) <= WIN
  BY DEF DataOK
<1>2. /\ acks \in Seq(Ack) /\ Len(acks) \in Nat /\ rcvNxt \in Nat /\ lbr \in Nat
      /\ Len(rcvBuf) \in Nat /\ Len(rcvBuf) <= WIN
  BY <1>a
<1>3. pureAck \in Ack
  BY <1>2, WindowAssumption DEF pureAck, getAvailableWindow, Ack
<1>4. acks' = acks \/ acks' = Append(acks, pureAck)
  <2>1. acks' = Put(acks, pureAck, MaxAcks)
    BY DEF SendPureAck
  <2>2. Put(acks, pureAck, MaxAcks) = acks \/ Put(acks, pureAck, MaxAcks) = Append(acks, pureAck)
    BY DEF Put
  <2> QED BY <2>1, <2>2, Zenon
<1>5. pureAck = [ack |-> rcvNxt, win |-> recvEdge - rcvNxt]
  BY <1>2, WindowAssumption DEF FlowInv, RecvBufInv, pureAck, getAvailableWindow, recvEdge
<1>6. una \in Nat /\ otherSideWindow \in Nat /\ recvEdge \in Nat
  BY <1>2, WindowAssumption DEF DataOK, recvEdge
<1>7. Follows([ack |-> una, win |-> otherSideWindow], pureAck) /\ Follows(pureAck, pureAck)
  BY <1>2, <1>5, <1>6 DEF FlowInv, WindowInv, sendEdge, Follows
<1>8. \A i \in 1..Len(acks) : /\ Follows([ack |-> una, win |-> otherSideWindow], acks[i])
                              /\ Follows(acks[i], pureAck)
  BY <1>5 DEF FlowInv, AcksInv
<1>9. \A i, j \in 1..Len(acks) : i <= j => Follows(acks[i], acks[j])
  BY DEF FlowInv, AcksInv
<1> HIDE DEF pureAck
<1>10. recvEdge' = recvEdge
  BY <1>1 DEF recvEdge
<1>11. AcksInv'
  <2>1. CASE acks' = acks
    BY <1>1, <2>1, AcksSame DEF FlowInv
  <2>2. CASE acks' = Append(acks, pureAck)
    <3>1. /\ Len(acks') = Len(acks) + 1 /\ acks'[Len(acks) + 1] = pureAck
          /\ \A i \in 1..Len(acks) : acks'[i] = acks[i]
      BY <1>2, <1>3, <2>2
    <3>2. \A i \in 1..Len(acks') : /\ Follows([ack |-> una, win |-> otherSideWindow], acks'[i])
                                   /\ Follows(acks'[i], pureAck)
      BY <1>2, <1>7, <1>8, <3>1
    <3>3. \A i, j \in 1..Len(acks') : i <= j => Follows(acks'[i], acks'[j])
      BY <1>2, <1>7, <1>8, <1>9, <3>1
    <3> QED BY <1>1, <1>5, <1>10, <3>2, <3>3 DEF AcksInv
  <2> QED BY <1>4, <2>1, <2>2
<1> QED BY <1>1, <1>11, SendBufStays, WindowStays, RecvBufStays, QueueStays, SegsStay, EarlyStays DEF FlowInv

-----------------------------------------------------------------------------
(* VRead *)

LEMMA FlowVRead ==
    ASSUME DataOK, DataOK', FlowInv, NEW n \in ReadSizes, VRead(n)
    PROVE  FlowInv'
<1>1. UNCHANGED <<una, nxt, seqNum, lbw, cBuf, otherSideWindow, isProbing, segLen, sendPc,
                  retransQueue, segs, acks, earlyArrivals, rcvNxt>>
  BY DEF VRead, senderVars, sendBufVars, queueVars, writeVars, loopVars, netVars
<1>2. PICK k \in 0..Len(rcvBuf) :
         /\ delivered' = delivered \o SubSeq(rcvBuf, 1, k)
         /\ rcvBuf' = SubSeq(rcvBuf, k + 1, Len(rcvBuf))
         /\ lbr' = lbr + k
  <2>0. Len(rcvBuf) \in Nat /\ n \in Nat
    <3>1. rcvBuf \in Seq(Nat)
      BY DEF DataOK
    <3> QED BY <3>1, SizesAssumption
  <2>1. (IF n > Len(rcvBuf) THEN Len(rcvBuf) ELSE n) \in 0..Len(rcvBuf)
    BY <2>0
  <2> QED BY <2>1 DEF VRead, Unread
<1>a. /\ lbr \in Nat /\ rcvNxt \in Nat /\ rcvBuf \in Seq(Nat) /\ delivered \in Seq(Nat)
      /\ lbw \in Nat /\ una \in Nat /\ otherSideWindow \in Nat
  BY WindowAssumption DEF DataOK
<1>3. /\ lbr \in Nat /\ rcvNxt \in Nat /\ rcvBuf \in Seq(Nat) /\ Len(rcvBuf) \in Nat /\ k \in Nat
      /\ delivered \in Seq(Nat) /\ Len(delivered) \in Nat /\ lbw \in Nat /\ una \in Nat
      /\ otherSideWindow \in Nat
  BY <1>2, <1>a
<1> DEFINE p == SubSeq(rcvBuf, 1, k)
<1>4. /\ p \in Seq(Nat) /\ Len(p) = k /\ \A j \in 1..k : p[j] = rcvBuf[j]
      /\ Len(rcvBuf') = Len(rcvBuf) - k
      /\ \A j \in 1..(Len(rcvBuf) - k) : rcvBuf'[j] = rcvBuf[k + j]
  BY <1>2, <1>3, PrefixAndRest, ZenonT(30)
<1>4a. delivered' = delivered \o p
  BY <1>2
<1> HIDE DEF p
<1>5. /\ Len(delivered') = Len(delivered) + k
      /\ \A i \in 1..(Len(delivered) + k) :
            delivered'[i] = IF i <= Len(delivered) THEN delivered[i] ELSE p[i - Len(delivered)]
  BY <1>3, <1>4, <1>4a, ConcatProperties, ZenonT(30)
<1>6. /\ rcvNxt = lbr + 1 + Len(rcvBuf) /\ \A i \in 1..Len(rcvBuf) : rcvBuf[i] = lbr + i
      /\ Len(delivered) = lbr /\ \A i \in 1..Len(delivered) : delivered[i] = i
  BY <1>3 DEF FlowInv, RecvBufInv, ISN
<1>6a. k <= Len(rcvBuf)
  BY <1>2, <1>3
<1>7. rcvNxt' = lbr' + 1 + Len(rcvBuf') /\ Len(delivered') = lbr' - ISN + 1
  <2>1. rcvNxt' = rcvNxt /\ lbr' = lbr + k /\ rcvNxt = lbr + 1 + Len(rcvBuf) /\ Len(delivered) = lbr
    BY <1>1, <1>2, <1>6
  <2>2. Len(rcvBuf') = Len(rcvBuf) - k /\ Len(delivered') = Len(delivered) + k
    BY <1>4, <1>5
  <2> QED BY <1>3, <2>1, <2>2 DEF ISN
<1>8. ASSUME NEW i \in 1..Len(rcvBuf') PROVE rcvBuf'[i] = lbr' + i
  <2>1. i \in 1..(Len(rcvBuf) - k) /\ k + i \in 1..Len(rcvBuf)
    BY <1>3, <1>4
  <2>2. rcvBuf'[i] = lbr + (k + i)
    BY <1>4, <1>6, <2>1
  <2> QED BY <1>2, <1>3, <2>1, <2>2
<1>9. ASSUME NEW i \in 1..Len(delivered') PROVE delivered'[i] = i
  <2>1. i \in 1..(Len(delivered) + k) /\ i \in Nat
    BY <1>3, <1>5
  <2>2. CASE i <= Len(delivered)
    BY <1>3, <1>5, <1>6, <2>1, <2>2
  <2>3. CASE i > Len(delivered)
    <3>1. i - Len(delivered) \in 1..k /\ i - Len(delivered) \in 1..Len(rcvBuf)
      BY <1>2, <1>3, <2>1, <2>3
    <3>2. delivered'[i] = rcvBuf[i - Len(delivered)]
      BY <1>3, <1>4, <1>5, <2>1, <2>3, <3>1
    <3> QED BY <1>3, <1>6, <2>1, <3>1, <3>2
  <2> QED BY <1>3, <2>1, <2>2, <2>3
<1>10. RecvBufInv'
  <2>1. \A i \in 1..Len(delivered') : delivered'[i] = ISN + i - 1
    BY <1>9 DEF ISN
  <2> QED BY <1>7, <1>8, <2>1 DEF RecvBufInv
<1>11. lbw <= lbw' /\ lbr <= lbr' /\ rcvNxt <= rcvNxt'
  BY <1>1, <1>2, <1>3
<1>12. WindowInv'
  <2>1. una <= rcvNxt /\ rcvNxt <= lbw + 1 /\ una + otherSideWindow <= lbr + 1 + WIN
    BY DEF FlowInv, WindowInv, sendEdge, recvEdge
  <2> QED BY <1>1, <1>2, <1>3, <2>1, WindowAssumption DEF WindowInv, sendEdge, recvEdge
<1>13. QueueInv' /\ SegsInv' /\ EarlyInv' /\ AcksInv'
  BY <1>1, <1>11, QueueStep, SegsStep, EarlyStep, AcksStay DEF FlowInv
<1> QED BY <1>1, <1>10, <1>12, <1>13, SendBufStays DEF FlowInv

-----------------------------------------------------------------------------
(* The invariant *)

LEMMA FlowStep ==
    ASSUME "acks" \notin Reorder, DataOK, DataOK', FlowInv, [Next]_vars
    PROVE  FlowInv'
<1>1. CASE LoseSegment \/ SendProbe \/ SendSegment \/ SendQueue \/ SendAdvance \/ VWriteCopy
  BY <1>1, FlowLoseSegment, FlowSendProbe, FlowSendSegment, FlowSendQueue, FlowSendAdvance, FlowVWriteCopy
<1>2. CASE AckBeyondNxt \/ AckDuplicate \/ AckAdvance \/ AckQueue
  BY <1>2, FlowAckBeyondNxt, FlowAckDuplicate, FlowAckAdvance, FlowAckQueue
<1>3. CASE RetransmitSegment \/ RetransmitGiveUp
  BY <1>3, FlowRetransmitSegment, FlowRetransmitGiveUp
<1>4. CASE PayloadNotStored \/ PayloadStored \/ DrainEarlyArrival \/ SendPureAck
  BY <1>4, FlowPayloadNotStored, FlowPayloadStored, FlowDrainEarlyArrival, FlowSendPureAck
<1>5. ASSUME NEW n \in ReadSizes, VRead(n) PROVE FlowInv'
  BY <1>5, FlowVRead
<1>6. CASE LoseAck
  <2>1. PICK i \in 1..Len(acks) : acks' = RemoveAt(acks, i)
    BY <1>6 DEF LoseAck
  <2>2. UNCHANGED <<una, nxt, seqNum, lbw, cBuf, otherSideWindow, isProbing, segLen, sendPc,
                    retransQueue, segs, earlyArrivals, lbr, rcvNxt, rcvBuf, delivered>>
    BY <1>6 DEF LoseAck, senderVars, sendBufVars, queueVars, writeVars, loopVars, recvVars
  <2> QED BY <2>1, <2>2, FlowAckDropped
<1>7. CASE AckUnmatched
  <2>1. PICK i \in 1..Len(acks) : acks' = RemoveAt(acks, i)
    BY <1>7 DEF AckUnmatched, TakeAck, Deliverable
  <2>2. UNCHANGED <<una, nxt, seqNum, lbw, cBuf, otherSideWindow, isProbing, segLen, sendPc,
                    retransQueue, segs, earlyArrivals, lbr, rcvNxt, rcvBuf, delivered>>
    BY <1>7 DEF AckUnmatched, senderVars, sendBufVars, queueVars, writeVars, loopVars, recvVars
  <2> QED BY <2>1, <2>2, FlowAckDropped
<1> USE DEF flowVars, sendBufVars, channelVars, queueVars, writeVars, loopVars, closeVars, recvVars, netVars, senderVars
<1>8. ASSUME NEW n \in WriteSizes, VWrite(n) PROVE FlowInv'
  BY <1>8, QuietStep DEF VWrite
<1>9. CASE VWriteWake
  BY <1>9, QuietStep DEF VWriteWake
<1>10. CASE SendSelect
  BY <1>10, QuietStep DEF SendSelect
<1>11. CASE SendNothing
  BY <1>11, QuietStep DEF SendNothing
<1>12. CASE SendBlocked
  BY <1>12, QuietStep DEF SendBlocked
<1>13. CASE SendWindowUpdated
  BY <1>13, QuietStep DEF SendWindowUpdated
<1>14. CASE ProbeTimer
  BY <1>14, QuietStep DEF ProbeTimer
<1>15. CASE TimerFires
  BY <1>15, QuietStep DEF TimerFires
<1>16. CASE RetransmitPanic
  BY <1>16, QuietStep DEF RetransmitPanic
<1>17. CASE Teardown
  BY <1>17, QuietStep DEF Teardown
<1>18. CASE DrainDone
  BY <1>18, QuietStep DEF DrainDone
<1>19. CASE VReadEmpty
  BY <1>19, QuietStep DEF VReadEmpty
<1>20. CASE VReadWake
  BY <1>20, QuietStep DEF VReadWake
<1>21. CASE UNCHANGED vars
  BY <1>21, QuietStep DEF vars
<1>22. CASE SignalRead
  BY <1>22, QuietStep DEF SignalRead
<1> QED
  BY <1>1, <1>2, <1>3, <1>4, <1>5, <1>6, <1>7, <1>8, <1>9, <1>10, <1>11, <1>12, <1>13, <1>14, <1>15,
     <1>16, <1>17, <1>18, <1>19, <1>20, <1>21, <1>22, Zenon
     DEF Next, Writer, SendLoop, HandlePureAck, Retransmission, HandlePayload, Reader, Network

\* FlowInv holds in every state of every behaviour in which ACKs are not
\* reordered, for every window, segment size, write and read size, however
\* sendLoop, handlePureAck, the retransmission callbacks, handlePayload, VWrite
\* and VRead interleave and whatever the network loses.
THEOREM FlowInvariant ==
    ASSUME "acks" \notin Reorder
    PROVE  Spec => []FlowInv
<1>1. Init => DataOK /\ FlowInv
  BY InitType, FlowInit DEF TypeOK
<1>2. DataOK /\ FlowInv /\ [Next]_vars => DataOK' /\ FlowInv'
  BY DataStep, FlowStep
<1> QED BY <1>1, <1>2, PTL DEF Spec

\* VRead returns the bytes VWrite took, in order, none missing, none twice,
\* although sendLoop sends, queues and moves nxt in three separate steps.
THEOREM StreamCorrect ==
    ASSUME "acks" \notin Reorder
    PROVE  Spec => []StreamPrefix
<1>1. FlowInv => StreamPrefix
  BY DEF FlowInv, RecvBufInv, StreamPrefix
<1> QED BY <1>1, FlowInvariant, PTL

\* handlePureAck reclaims a byte of the send buffer only after handlePayload
\* has stored it, zero window probes included.
THEOREM FreedBytesCorrect ==
    ASSUME "acks" \notin Reorder
    PROVE  Spec => []FreedBytesStored
<1>1. FlowInv => FreedBytesStored
  BY DEF FlowInv, WindowInv, FreedBytesStored
<1> QED BY <1>1, FlowInvariant, PTL

\* The receive buffer has room for every expected segment: what sendLoop and
\* retransmitSegment send stays inside a window the receiver has offered.
THEOREM WindowRespected ==
    ASSUME "acks" \notin Reorder
    PROVE  Spec => []NoOverrun
<1>1. DataOK /\ FlowInv => NoOverrun
  <2> SUFFICES ASSUME DataOK, FlowInv, NEW i \in 1..Len(segs),
                      segs[i].seq = rcvNxt, rcvFreeSpace > 0
               PROVE  Len(segs[i].data) <= rcvFreeSpace
    BY DEF NoOverrun
  <2>1. segs \in Seq(Segment) /\ rcvNxt \in Nat /\ lbr \in Nat /\ rcvBuf \in Seq(Nat) /\ Len(rcvBuf) <= WIN
    BY DEF DataOK
  <2>2. segs[i] \in Segment /\ Len(rcvBuf) \in Nat
    BY <2>1
  <2>3. Len(segs[i].data) \in Nat
    BY <2>2 DEF Segment
  <2>4. InWindow(segs[i], rcvNxt, recvEdge)
    BY DEF FlowInv, SegsInv
  <2>5. Len(segs[i].data) = 1 \/ rcvNxt + Len(segs[i].data) <= recvEdge
    BY <2>1, <2>4 DEF InWindow
  <2>6. rcvNxt = lbr + 1 + Len(rcvBuf)
    BY DEF FlowInv, RecvBufInv
  <2>7. WIN \in Nat
    BY WindowAssumption
  <2>8. CASE Len(segs[i].data) = 1
    BY <2>2, <2>7, <2>8 DEF rcvFreeSpace
  <2>9. CASE rcvNxt + Len(segs[i].data) <= recvEdge
    <3>1. \A l, b, d, w \in Nat : (l + 1 + b) + d <= l + 1 + w => d <= w - b
      OBVIOUS
    <3>2. (lbr + 1 + Len(rcvBuf)) + Len(segs[i].data) <= lbr + 1 + WIN
      BY <2>6, <2>9, Zenon DEF recvEdge
    <3> QED BY <2>1, <2>2, <2>3, <2>7, <3>1, <3>2, Zenon DEF rcvFreeSpace
  <2> QED BY <2>5, <2>8, <2>9
<1>2. Spec => []DataOK
  BY TypeCorrect, PTL DEF TypeOK
<1> QED BY <1>1, <1>2, FlowInvariant, PTL

-----------------------------------------------------------------------------
(* The window's edge and the byte pipe *)

\* Only ACKs change what the sender knows of the window.
LEMMA ViewStep ==
    ASSUME [Next]_vars
    PROVE  UNCHANGED <<una, otherSideWindow>> \/ AckBeyondNxt \/ AckDuplicate \/ AckAdvance
<1> USE DEF sendBufVars, channelVars, queueVars, writeVars, loopVars, closeVars, recvVars, netVars, senderVars
<1>1. CASE Writer
  BY <1>1 DEF Writer, VWrite, VWriteCopy, VWriteWake
<1>2. CASE SendLoop
  BY <1>2 DEF SendLoop, SendSelect, SendNothing, SendProbe, SendBlocked, SendWindowUpdated,
              ProbeTimer, SendSegment, SendQueue, SendAdvance
<1>3. CASE HandlePureAck
  BY <1>3 DEF HandlePureAck, AckUnmatched, AckQueue
<1>4. CASE TimerFires \/ Retransmission
  BY <1>4 DEF TimerFires, Retransmission, RetransmitSegment, RetransmitPanic, RetransmitGiveUp, Teardown
<1>5. CASE HandlePayload
  BY <1>5 DEF HandlePayload, PayloadNotStored, PayloadStored, DrainEarlyArrival, DrainDone, SignalRead, SendPureAck
<1>6. CASE Reader
  BY <1>6 DEF Reader, VRead, VReadEmpty, VReadWake
<1>7. CASE Network
  BY <1>7 DEF Network, LoseSegment, LoseAck
<1>8. CASE UNCHANGED vars
  BY <1>8 DEF vars
<1> QED BY <1>1, <1>2, <1>3, <1>4, <1>5, <1>6, <1>7, <1>8, Zenon DEF Next

\* The right edge of the send window never moves back, although handlePureAck
\* overwrites the window with that of every ACK, duplicates included.
THEOREM WindowEdgeCorrect ==
    ASSUME "acks" \notin Reorder
    PROVE  Spec => WindowEdgeMonotonic
<1>1. DataOK /\ FlowInv /\ [Next]_vars => [una + otherSideWindow <= una' + otherSideWindow']_vars
  <2> SUFFICES ASSUME DataOK, FlowInv, [Next]_vars
               PROVE  una + otherSideWindow <= una' + otherSideWindow'
    OBVIOUS
  <2>1. una \in Nat /\ otherSideWindow \in Nat
    BY WindowAssumption DEF DataOK
  <2>2. CASE UNCHANGED <<una, otherSideWindow>>
    BY <2>1, <2>2
  <2>3. ASSUME NEW i \in Deliverable("acks", acks), una' = acks[i].ack, otherSideWindow' = acks[i].win
        PROVE  una + otherSideWindow <= una' + otherSideWindow'
    BY <2>3, FirstAck
  <2>4. CASE AckBeyondNxt
    BY <2>2, <2>3, <2>4 DEF AckBeyondNxt
  <2>5. CASE AckDuplicate
    <3>1. PICK i \in Deliverable("acks", acks) : acks[i].ack <= una /\ otherSideWindow' = acks[i].win
      BY <2>5 DEF AckDuplicate
    <3>2. i = 1 /\ acks[1].ack \in Nat /\ una <= acks[1].ack
      BY FirstAck
    <3>3. una' = una
      BY <2>5 DEF AckDuplicate
    <3>4. una' = acks[i].ack
      BY <2>1, <3>1, <3>2, <3>3
    <3> QED BY <2>3, <3>1, <3>4
  <2>6. CASE AckAdvance
    BY <2>3, <2>6 DEF AckAdvance
  <2> QED BY <2>2, <2>4, <2>5, <2>6, ViewStep
<1>2. Spec => []DataOK
  BY TypeCorrect, PTL DEF TypeOK
<1> QED BY <1>1, <1>2, FlowInvariant, PTL DEF Spec, WindowEdgeMonotonic

\* Only VWrite and VRead move bytes into and out of the pipe.
LEMMA PipeStep ==
    ASSUME [Next]_vars
    PROVE  UNCHANGED <<lbw, delivered>> \/ VWriteCopy \/ \E n \in ReadSizes : VRead(n)
<1> USE DEF sendBufVars, channelVars, queueVars, writeVars, loopVars, closeVars, recvVars, netVars, senderVars
<1>1. CASE Writer
  BY <1>1 DEF Writer, VWrite, VWriteWake
<1>2. CASE SendLoop
  BY <1>2 DEF SendLoop, SendSelect, SendNothing, SendProbe, SendBlocked, SendWindowUpdated,
              ProbeTimer, SendSegment, SendQueue, SendAdvance
<1>3. CASE HandlePureAck
  BY <1>3 DEF HandlePureAck, AckUnmatched, AckBeyondNxt, AckDuplicate, AckAdvance, AckQueue
<1>4. CASE TimerFires \/ Retransmission
  BY <1>4 DEF TimerFires, Retransmission, RetransmitSegment, RetransmitPanic, RetransmitGiveUp, Teardown
<1>5. CASE HandlePayload
  BY <1>5 DEF HandlePayload, PayloadNotStored, PayloadStored, DrainEarlyArrival, DrainDone, SignalRead, SendPureAck
<1>6. CASE Reader
  BY <1>6 DEF Reader, VReadEmpty, VReadWake
<1>7. CASE Network
  BY <1>7 DEF Network, LoseSegment, LoseAck
<1>8. CASE UNCHANGED vars
  BY <1>8 DEF vars
<1> QED BY <1>1, <1>2, <1>3, <1>4, <1>5, <1>6, <1>7, <1>8, Zenon DEF Next

\* VWriteCopy leaves the pipe alone or is a Write of the byte pipe: the two
\* circular buffers together hold what is written and not yet read.
LEMMA CopyIsWrite ==
    ASSUME DataOK, FlowInv, VWriteCopy
    PROVE  UNCHANGED <<lbw, delivered>> \/ Stream!Write
<1>1. UNCHANGED delivered
  BY DEF VWriteCopy, recvVars
<1>2. /\ una \in Nat /\ lbw \in Nat /\ lbr \in Nat /\ rcvNxt \in Nat /\ toWrite \in Nat
      /\ rcvBuf \in Seq(Nat) /\ Len(rcvBuf) <= WIN
      /\ cBuf \in [baseSeq : Nat, currSize : 0..WIN]
  BY DEF DataOK
<1>3. cBuf.currSize \in Nat /\ cBuf.currSize <= WIN /\ WIN \in Nat /\ Len(rcvBuf) \in Nat
  BY <1>2, WindowAssumption
<1> DEFINE n == IF toWrite > FreeSpace(cBuf) THEN FreeSpace(cBuf) ELSE toWrite
<1>4. CASE FreeSpace(cBuf) = 0
  BY <1>1, <1>4 DEF VWriteCopy
<1>5. CASE FreeSpace(cBuf) # 0
  <2>1. lbw' = lbw + n /\ toWrite > 0
    BY <1>5 DEF VWriteCopy
  <2>2. n \in Nat /\ n >= 1 /\ n <= WIN - cBuf.currSize
    BY <1>2, <1>3, <1>5, <2>1 DEF FreeSpace
  <2> HIDE DEF n
  <2>3. /\ cBuf.currSize = lbw + 1 - una /\ una <= rcvNxt
        /\ rcvNxt = lbr + 1 + Len(rcvBuf) /\ Len(delivered) = lbr
    BY <1>2 DEF FlowInv, SendBufInv, WindowInv, RecvBufInv, ISN
  <2>4. n \in 1..(2 * WIN - ((lbw - ISN + 1) - Len(delivered)))
    BY <1>2, <1>3, <2>2, <2>3 DEF ISN
  <2>5. lbw' - ISN + 1 = (lbw - ISN + 1) + n
    BY <1>2, <2>1, <2>2 DEF ISN
  <2> QED BY <1>1, <2>4, <2>5 DEF Stream!Write
<1> QED BY <1>4, <1>5

\* VRead is a Read of the byte pipe.
LEMMA ReadIsRead ==
    ASSUME DataOK, DataOK', FlowInv, FlowInv', NEW n \in ReadSizes, VRead(n)
    PROVE  Stream!Read
<1>1. UNCHANGED lbw
  BY DEF VRead, senderVars, writeVars
<1>2. /\ lbw \in Nat /\ lbr \in Nat /\ rcvNxt \in Nat /\ rcvBuf \in Seq(Nat) /\ delivered \in Seq(Nat)
  BY DEF DataOK
<1>3. Len(rcvBuf) \in Nat /\ Len(delivered) \in Nat
  BY <1>2
<1>4. rcvBuf # <<>>
  BY DEF VRead
<1>5. Len(rcvBuf) >= 1
  BY <1>2, <1>4, HeadElement
<1>6. PICK k \in 1..Len(rcvBuf) : delivered' = delivered \o SubSeq(rcvBuf, 1, k)
  <2>1. n \in Nat /\ n >= 1
    BY SizesAssumption
  <2>2. (IF n > Len(rcvBuf) THEN Len(rcvBuf) ELSE n) \in 1..Len(rcvBuf)
    BY <1>3, <1>5, <2>1
  <2> QED BY <2>2 DEF VRead
<1>7. /\ Len(delivered) = lbr /\ rcvNxt = lbr + 1 + Len(rcvBuf) /\ rcvNxt <= lbw + 1
      /\ \A i \in 1..Len(rcvBuf) : rcvBuf[i] = lbr + i
  BY <1>2 DEF FlowInv, RecvBufInv, WindowInv, ISN
<1>8. SubSeq(rcvBuf, 1, k) = [i \in 1..k |-> Len(delivered) + i]
  <2>1. SubSeq(rcvBuf, 1, k) = [i \in 1..k |-> rcvBuf[i]]
    BY <1>2, <1>3, <1>6
  <2>2. \A i \in 1..k : rcvBuf[i] = Len(delivered) + i
    BY <1>3, <1>6, <1>7
  <2> QED BY <2>1, <2>2
<1>9. k \in 1..((lbw - ISN + 1) - Len(delivered))
  BY <1>2, <1>3, <1>6, <1>7 DEF ISN
<1> QED BY <1>1, <1>6, <1>8, <1>9 DEF Stream!Read

\* VWrite and VRead, with everything between them, implement the byte pipe of
\* ReliableStream as long as ACKs are not reordered.
THEOREM StreamRefinement ==
    ASSUME "acks" \notin Reorder
    PROVE  Spec => ImplementsStream
<1>1. Init => Stream!StreamInit
  BY DEF Init, ISN, Stream!StreamInit
<1>2. /\ DataOK /\ DataOK' /\ FlowInv /\ FlowInv' /\ [Next]_vars
      => [Stream!Write \/ Stream!Read]_<<lbw - ISN + 1, delivered>>
  BY PipeStep, CopyIsWrite, ReadIsRead
<1>3. Spec => []DataOK
  BY TypeCorrect, PTL DEF TypeOK
<1> QED BY <1>1, <1>2, <1>3, FlowInvariant, PTL DEF Spec, ImplementsStream, Stream!StreamSpec

-----------------------------------------------------------------------------
(* The retransmission queue *)

\* Every byte from sequence number m up to n is in an entry of the queue.
Covered(q, m, n) ==
    \A b \in m..(n - 1) : \E i \in 1..Len(q) : q[i].seqNum <= b /\ b < q[i].seqNum + q[i].len

\* sendLoop has queued a segment before it moves nxt over it.
queuedEnd == IF sendPc = "advance" THEN nxt + segLen ELSE nxt
SentInv == Covered(retransQueue, una, queuedEnd)

LEMMA SendQueueCovers ==
    ASSUME DataOK, FlowInv, SentInv, SendQueue
    PROVE  SentInv'
<1>1. /\ una \in Nat /\ nxt \in Nat /\ segLen \in Nat /\ seqNum = nxt
      /\ retransQueue \in Seq(RetransmissionEntry) /\ Len(retransQueue) \in Nat
  BY WindowAssumption DEF DataOK, FlowInv, SendBufInv
<1> DEFINE e == [seqNum |-> seqNum, len |-> segLen, numRetransmits |-> 0]
<1>2. /\ retransQueue' = Append(retransQueue, e) /\ queuedEnd = nxt /\ queuedEnd' = nxt + segLen
      /\ una' = una
  BY DEF SendQueue, queuedEnd, sendBufVars, loopVars
<1>3. e \in RetransmissionEntry
  BY <1>1 DEF RetransmissionEntry
<1>4. /\ Len(retransQueue') = Len(retransQueue) + 1 /\ retransQueue'[Len(retransQueue) + 1] = e
      /\ \A i \in 1..Len(retransQueue) : retransQueue'[i] = retransQueue[i]
  BY <1>1, <1>2, <1>3, AppendProperties
<1>5. ASSUME NEW b \in una'..(queuedEnd' - 1)
      PROVE  \E i \in 1..Len(retransQueue') :
                /\ retransQueue'[i].seqNum <= b
                /\ b < retransQueue'[i].seqNum + retransQueue'[i].len
  <2>0. b \in una..(nxt + segLen - 1)
    BY <1>1, <1>2
  <2>1. CASE b < nxt
    <3>1. b \in una..(nxt - 1)
      BY <1>1, <2>0, <2>1
    <3>2. PICK i \in 1..Len(retransQueue) :
             retransQueue[i].seqNum <= b /\ b < retransQueue[i].seqNum + retransQueue[i].len
      BY <1>2, <3>1 DEF SentInv, Covered
    <3> QED BY <1>1, <1>4, <3>2
  <2>2. CASE b >= nxt
    <3>1. Len(retransQueue) + 1 \in 1..Len(retransQueue')
      BY <1>1, <1>4
    <3>2. e.seqNum = nxt /\ e.len = segLen
      BY <1>1
    <3>3. nxt <= b /\ b < nxt + segLen
      BY <1>1, <2>0, <2>2
    <3> QED BY <1>4, <3>1, <3>2, <3>3
  <2> QED BY <1>1, <2>0, <2>1, <2>2
<1> QED BY <1>5 DEF SentInv, Covered

\* handlePureAck takes only entries out of the queue that end at or before una.
LEMMA AckQueueCovers ==
    ASSUME DataOK, SentInv, AckQueue
    PROVE  SentInv'
<1>1. /\ una \in Nat /\ nxt \in Nat /\ segLen \in Nat
      /\ retransQueue \in Seq(RetransmissionEntry) /\ Len(retransQueue) \in Nat
  BY WindowAssumption DEF DataOK
<1>2. UNCHANGED <<una, queuedEnd>>
  BY DEF AckQueue, queuedEnd, loopVars
<1>3. PICK k \in 0..Len(retransQueue) :
         /\ \A j \in 1..k : Acked(retransQueue[j], una)
         /\ retransQueue' = SubSeq(retransQueue, k + 1, Len(retransQueue))
  BY DEF AckQueue
<1>4. /\ Len(retransQueue') = Len(retransQueue) - k
      /\ \A j \in 1..(Len(retransQueue) - k) : retransQueue'[j] = retransQueue[k + j]
  BY <1>1, <1>3, PrefixAndRest
<1>5. ASSUME NEW b \in una..(queuedEnd - 1)
      PROVE  \E i \in 1..Len(retransQueue') :
                /\ retransQueue'[i].seqNum <= b
                /\ b < retransQueue'[i].seqNum + retransQueue'[i].len
  <2>1. PICK i \in 1..Len(retransQueue) :
           retransQueue[i].seqNum <= b /\ b < retransQueue[i].seqNum + retransQueue[i].len
    BY DEF SentInv, Covered
  <2>2. retransQueue[i].seqNum \in Nat /\ retransQueue[i].len \in Nat /\ b \in Int /\ b >= una
    <3>1. retransQueue[i] \in RetransmissionEntry
      BY <1>1
    <3>2. b \in Int /\ b >= una
      BY <1>1
    <3> QED BY <3>1, <3>2 DEF RetransmissionEntry
  <2>3. ~Acked(retransQueue[i], una)
    BY <1>1, <2>1, <2>2 DEF Acked
  <2>4. i > k
    BY <1>3, <2>3
  <2>5. i - k \in 1..(Len(retransQueue) - k) /\ k + (i - k) = i
    BY <1>1, <2>4
  <2>6. retransQueue'[i - k] = retransQueue[i]
    BY <1>4, <2>5
  <2> QED BY <1>4, <2>1, <2>5, <2>6
<1> QED BY <1>2, <1>5 DEF SentInv, Covered

LEMMA HeadStillCovers ==
    ASSUME DataOK, SentInv, retransQueue # <<>>, UNCHANGED <<una, nxt, sendPc, segLen>>,
           retransQueue' = [retransQueue EXCEPT ![1].numRetransmits = @ + 1]
    PROVE  SentInv'
<1>1. retransQueue \in Seq(RetransmissionEntry) /\ Len(retransQueue) \in Nat
  BY DEF DataOK
<1>2. 1 \in 1..Len(retransQueue) /\ retransQueue[1] \in RetransmissionEntry
  BY <1>1, HeadElement
<1> DEFINE e == [retransQueue[1] EXCEPT !.numRetransmits = @ + 1]
<1>3. retransQueue' = [retransQueue EXCEPT ![1] = e]
  OBVIOUS
<1>4. e \in RetransmissionEntry /\ e.seqNum = retransQueue[1].seqNum /\ e.len = retransQueue[1].len
  BY <1>2, EntryRetransmitted
<1> HIDE DEF e
<1>5. /\ Len(retransQueue') = Len(retransQueue)
      /\ \A i \in 1..Len(retransQueue) : retransQueue'[i] = IF i = 1 THEN e ELSE retransQueue[i]
  BY <1>1, <1>3, <1>4, ReplaceHead
<1>6. \A i \in 1..Len(retransQueue) : /\ retransQueue'[i].seqNum = retransQueue[i].seqNum
                                      /\ retransQueue'[i].len = retransQueue[i].len
  BY <1>4, <1>5
<1>7. queuedEnd' = queuedEnd
  BY DEF queuedEnd
<1> QED BY <1>5, <1>6, <1>7 DEF SentInv, Covered

\* What una, nxt and the queue are changed by.
LEMMA SentStep ==
    ASSUME [Next]_vars
    PROVE  UNCHANGED <<una, retransQueue, queuedEnd>> \/ SendQueue \/ SendAdvance
           \/ AckBeyondNxt \/ AckAdvance \/ AckQueue \/ RetransmitSegment \/ RetransmitGiveUp
<1> USE DEF sendBufVars, channelVars, queueVars, writeVars, loopVars, closeVars, recvVars, netVars, senderVars
<1>1. CASE Writer
  BY <1>1 DEF Writer, VWrite, VWriteCopy, VWriteWake, queuedEnd
<1>2. CASE SendLoop
  BY <1>2 DEF SendLoop, SendSelect, SendNothing, SendProbe, SendBlocked, SendWindowUpdated,
              ProbeTimer, SendSegment, queuedEnd
<1>3. CASE HandlePureAck
  BY <1>3 DEF HandlePureAck, AckUnmatched, AckDuplicate, queuedEnd
<1>4. CASE TimerFires \/ Retransmission
  BY <1>4 DEF TimerFires, Retransmission, RetransmitPanic, Teardown, queuedEnd
<1>5. CASE HandlePayload
  BY <1>5 DEF HandlePayload, PayloadNotStored, PayloadStored, DrainEarlyArrival, DrainDone, SignalRead,
              SendPureAck, queuedEnd
<1>6. CASE Reader
  BY <1>6 DEF Reader, VRead, VReadEmpty, VReadWake, queuedEnd
<1>7. CASE Network
  BY <1>7 DEF Network, LoseSegment, LoseAck, queuedEnd
<1>8. CASE UNCHANGED vars
  BY <1>8 DEF vars, queuedEnd
<1> QED BY <1>1, <1>2, <1>3, <1>4, <1>5, <1>6, <1>7, <1>8, Zenon DEF Next

LEMMA SentKept ==
    ASSUME "acks" \notin Reorder, DataOK, DataOK', FlowInv, SentInv, [Next]_vars
    PROVE  SentInv'
<1>0. /\ una \in Nat /\ nxt \in Nat /\ segLen \in Nat /\ una' \in Nat /\ queuedEnd \in Nat
  BY WindowAssumption DEF DataOK, queuedEnd
<1>1. CASE UNCHANGED <<una, retransQueue, queuedEnd>>
  BY <1>1 DEF SentInv, Covered
<1>2. CASE SendQueue
  BY <1>2, SendQueueCovers
<1>3. CASE SendAdvance
  <2>1. UNCHANGED <<una, retransQueue>> /\ queuedEnd' = queuedEnd
    BY <1>3 DEF SendAdvance, queuedEnd, queueVars
  <2> QED BY <2>1 DEF SentInv, Covered
\* An answer to a probe: nothing is in flight, and no segment is being queued.
<1>4. CASE AckBeyondNxt
  <2>1. /\ UNCHANGED <<retransQueue, sendPc, segLen>>
        /\ UNCHANGED <<una, nxt>> \/ (isProbing /\ una' = nxt')
    BY <1>4 DEF AckBeyondNxt, queueVars, loopVars
  <2>2. CASE UNCHANGED <<una, nxt>>
    BY <2>1, <2>2 DEF SentInv, Covered, queuedEnd
  <2>3. CASE isProbing /\ una' = nxt'
    <3>1. queuedEnd' = una'
      BY <2>1, <2>3 DEF queuedEnd, FlowInv, SendBufInv
    <3>2. \A n \in Nat : n..(n - 1) = {}
      OBVIOUS
    <3>3. una'..(queuedEnd' - 1) = {}
      BY <1>0, <3>1, <3>2
    <3> QED BY <3>3 DEF SentInv, Covered
  <2> QED BY <2>1, <2>2, <2>3
<1>5. CASE AckAdvance
  <2>1. /\ UNCHANGED <<retransQueue, queuedEnd>> /\ una < una'
    BY <1>5 DEF AckAdvance, queueVars, loopVars, queuedEnd
  <2>2. \A b \in una'..(queuedEnd - 1) : b \in una..(queuedEnd - 1)
    BY <1>0, <2>1
  <2> QED BY <2>1, <2>2 DEF SentInv, Covered
<1>6. CASE AckQueue
  BY <1>6, AckQueueCovers
<1>7. CASE RetransmitSegment \/ RetransmitGiveUp
  BY <1>7, HeadStillCovers DEF RetransmitSegment, RetransmitGiveUp, sendBufVars, loopVars
<1> QED BY <1>1, <1>2, <1>3, <1>4, <1>5, <1>6, <1>7, SentStep

\* What is in flight can be sent again: sendLoop queues a segment before nxt moves
\* over it, handlePureAck takes only what is acknowledged out of the queue, and a
\* probe, which moves una and nxt past the queue, leaves nothing in flight.
THEOREM InFlightIsQueued ==
    ASSUME "acks" \notin Reorder
    PROVE  Spec => []InFlightQueued
<1>1. Init => SentInv
  BY DEF Init, SentInv, Covered, queuedEnd, ISN
<1>2. DataOK /\ DataOK' /\ FlowInv /\ SentInv /\ [Next]_vars => SentInv'
  BY SentKept
<1>3. DataOK /\ SentInv => InFlightQueued
  <2> SUFFICES ASSUME DataOK, SentInv, NEW b \in una..(nxt - 1)
               PROVE  \E i \in 1..Len(retransQueue) :
                         retransQueue[i].seqNum <= b /\ b < retransQueue[i].seqNum + retransQueue[i].len
    BY DEF InFlightQueued
  <2>1. una \in Nat /\ nxt \in Nat /\ segLen \in Nat
    BY WindowAssumption DEF DataOK
  <2>2. b \in una..(queuedEnd - 1)
    BY <2>1 DEF queuedEnd
  <2> QED BY <2>2 DEF SentInv, Covered
<1>4. Spec => []DataOK
  BY TypeCorrect, PTL DEF TypeOK
<1> QED BY <1>1, <1>2, <1>3, <1>4, FlowInvariant, PTL DEF Spec

=============================================================================
