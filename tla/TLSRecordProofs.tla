-------------------------- MODULE TLSRecordProofs --------------------------
(***************************************************************************)
(* Theorems about TLSRecord, for any number of ends, senders, readers and  *)
(* records, any sizes of records, buffers and reads, any resets: type      *)
(* correctness, that VTLSRead returns the peer's records whole and in the  *)
(* order of their nonces while its calls at an end do not overlap, that an *)
(* end with one sender writes a byte pipe, and that tlsrf gets io.EOF      *)
(* behind the last byte that tlssf has read from its file.                 *)
(***************************************************************************)
EXTENDS MCTLSRecord, SequenceTheorems, TLAPS

USE DEF streamVars

-----------------------------------------------------------------------------
(* The inductive invariant *)

\* Everything VTLSRead has taken out of records at end e: returned, or kept.
Opened(e) == returned[e] \o readBuf[e]

\* Byte b is in the place of the record sealed with the nonce that the i-th byte of
\* a stream of whole records has.
InPlace(e, b, i) ==
    /\ b \in Nat
    /\ RecordOf(b) \in 1 .. Len(sealed[Peer[e]])
    /\ sealed[Peer[e]][RecordOf(b)] = RecordOf(i) - 1
    /\ PlaceOf(b) = PlaceOf(i)

\* As many bytes as readSeq counts records, each in its place.
OpenedInv(e) ==
    /\ Len(Opened(e)) = readSeq[e] * PlainLen
    /\ \A i \in 1 .. Len(Opened(e)) : InPlace(e, Opened(e)[i], i)

\* A record has a number once it is sealed.  Calls of VTLSRead that are at work at
\* one end have overlapped; one that is alone is at a record only when nothing is
\* left of the one before.
AtRecord(s) ==
    /\ s.pc \in {"call", "store"} => s.record # 0
    /\ s.pc # "idle" => s.left > 0
InRecord(r) == r.pc \in {"call", "wait", "open"}
GoroutinesInv ==
    /\ \A g \in Senders : AtRecord(sender[g])
    /\ \A g \in Readers : InRecord(reader[g]) => overlapped[At[g]] \/ readBuf[At[g]] = <<>>
    /\ \A g, h \in Readers :
          g # h /\ At[g] = At[h] /\ InCall(reader[g]) /\ InCall(reader[h]) => overlapped[At[g]]
    /\ \A e \in Ends : overlapped[e] => \E g, h \in Readers : g # h /\ At[g] = e /\ At[h] = e

RecordInv == TypeOK /\ GoroutinesInv /\ \A e \in Ends : ~overlapped[e] => OpenedInv(e)

-----------------------------------------------------------------------------
(* Sequences and numbers *)

\* A sequence is cut in two.
LEMMA CutInTwo ==
    ASSUME NEW S, NEW s \in Seq(S), NEW k \in 0 .. Len(s)
    PROVE  /\ SubSeq(s, 1, k) \in Seq(S) /\ Len(SubSeq(s, 1, k)) = k
           /\ \A j \in 1 .. k : SubSeq(s, 1, k)[j] = s[j]
           /\ From(s, k + 1) \in Seq(S) /\ Len(From(s, k + 1)) = Len(s) - k
           /\ \A j \in 1 .. (Len(s) - k) : From(s, k + 1)[j] = s[k + j]
<1>0. Len(s) \in Nat /\ k \in Nat /\ \A j \in 1 .. Len(s) : s[j] \in S
  BY ElementOfSeq
<1>1. /\ SubSeq(s, 1, k) \in Seq(S)
      /\ Len(SubSeq(s, 1, k)) = IF 1 <= k THEN k - 1 + 1 ELSE 0
      /\ \A j \in 1 .. (k - 1 + 1) : SubSeq(s, 1, k)[j] = s[1 + j - 1]
  <2>1. \A j \in 1 .. k : s[j] \in S
    BY <1>0
  <2>. QED  BY <1>0, <2>1, SubSeqProperties, 1 \in Int, k \in Int
<1>2. /\ From(s, k + 1) \in Seq(S)
      /\ Len(From(s, k + 1)) = IF k + 1 <= Len(s) THEN Len(s) - (k + 1) + 1 ELSE 0
      /\ \A j \in 1 .. (Len(s) - (k + 1) + 1) : From(s, k + 1)[j] = s[(k + 1) + j - 1]
  <2>1. \A j \in (k + 1) .. Len(s) : s[j] \in S
    BY <1>0
  <2>. QED  BY <1>0, <2>1, SubSeqProperties, k + 1 \in Int, Len(s) \in Int DEF From
<1>. QED  BY <1>0, <1>1, <1>2

LEMMA CutsMeet ==
    ASSUME NEW S, NEW s \in Seq(S), NEW k \in 0 .. Len(s)
    PROVE  SubSeq(s, 1, k) \o From(s, k + 1) = s
<1>. DEFINE a == SubSeq(s, 1, k)
            b == From(s, k + 1)
<1>1. /\ a \in Seq(S) /\ Len(a) = k /\ \A j \in 1 .. k : a[j] = s[j]
      /\ b \in Seq(S) /\ Len(b) = Len(s) - k /\ \A j \in 1 .. (Len(s) - k) : b[j] = s[k + j]
      /\ Len(s) \in Nat /\ k \in Nat
  BY CutInTwo
<1>. HIDE DEF a, b
<1>2. /\ a \o b \in Seq(S) /\ Len(a \o b) = Len(a) + Len(b)
      /\ \A i \in 1 .. Len(a) + Len(b) : (a \o b)[i] = IF i <= Len(a) THEN a[i] ELSE b[i - Len(a)]
  BY <1>1, ConcatProperties
<1>3. Len(a \o b) = Len(s) /\ \A i \in 1 .. Len(s) : (a \o b)[i] = s[i]
  <2>1. ASSUME NEW i \in 1 .. Len(s)
        PROVE  (a \o b)[i] = s[i]
    <3>1. (a \o b)[i] = IF i <= k THEN a[i] ELSE b[i - k]
      BY <1>1, <1>2
    <3>2. CASE i <= k
      BY <1>1, <3>1, <3>2
    <3>3. CASE i > k
      <4>1. i - k \in 1 .. (Len(s) - k) /\ k + (i - k) = i
        BY <1>1, <3>3
      <4>. QED  BY <1>1, <3>1, <3>3, <4>1
    <3>. QED  BY <1>1, <3>2, <3>3
  <2>. QED  BY <1>1, <1>2, <2>1
<1>4. a \o b = s
  BY <1>2, <1>3, SeqEqual
<1>. QED  BY <1>4 DEF a, b

\* A part of a sequence is moved to the end of another.
LEMMA CutMoves ==
    ASSUME NEW S, NEW r \in Seq(S), NEW s \in Seq(S), NEW k \in 0 .. Len(s)
    PROVE  /\ r \o SubSeq(s, 1, k) \in Seq(S)
           /\ (r \o SubSeq(s, 1, k)) \o From(s, k + 1) = r \o s
<1>. DEFINE a == SubSeq(s, 1, k)
            b == From(s, k + 1)
<1>1. a \in Seq(S)
  BY CutInTwo
<1>2. b \in Seq(S)
  BY CutInTwo
<1>3. a \o b = s
  BY CutsMeet
<1>. HIDE DEF a, b
<1>4. r \o a \in Seq(S)
  BY <1>1, ConcatProperties
<1>5. (r \o a) \o b = r \o (a \o b)
  <2>1. \A x, y \in Seq(S) : (r \o x) \o y = r \o (x \o y)
    BY ConcatAssociative
  <2>. QED  BY <1>1, <1>2, <2>1
<1>6. (r \o a) \o b = r \o s
  BY <1>3, <1>5
<1>. QED  BY <1>4, <1>6 DEF a, b

LEMMA BytesMove ==
    \A r, s \in Seq(Nat) : \A k \in 0 .. Len(s) :
        /\ r \o SubSeq(s, 1, k) \in Seq(Nat)
        /\ (r \o SubSeq(s, 1, k)) \o From(s, k + 1) = r \o s
BY CutMoves

LEMMA TimesMonotone == \A p, a, b \in Nat : a <= b => p * a <= p * b
<1>. SUFFICES ASSUME NEW p \in Nat, NEW a \in Nat, NEW b \in Nat, a <= b
              PROVE  p * a <= p * b
  OBVIOUS
<1>. DEFINE d == b - a
<1>1. d \in Nat /\ b = a + d
  OBVIOUS
<1>. HIDE DEF d
<1>2. p * (a + d) = p * a + p * d /\ p * d \in Nat /\ p * a \in Nat
  BY <1>1
<1>. QED  BY <1>1, <1>2

\* Division of a number that is given by its quotient and remainder.
LEMMA DivMod ==
    ASSUME NEW P \in Nat \ {0}, NEW q \in Nat, NEW k \in 1 .. P
    PROVE  (q * P + k - 1) \div P = q /\ (q * P + k - 1) % P = k - 1
<1>. DEFINE b == q * P + k - 1
            d == b \div P
<1>1. q * P \in Nat /\ b \in Nat
  OBVIOUS
<1>2. d \in Int /\ b = P * d + (b % P) /\ b % P \in 0 .. (P - 1)
  BY <1>1, SMT
<1>3. d = q
  <2>1. CASE d >= q + 1
    <3>1. P * d >= P * (q + 1)
      BY <1>2, <2>1, SMT
    <3>. QED  BY <1>1, <1>2, <3>1, SMT
  <2>2. CASE d <= q - 1
    <3>1. P * d <= P * (q - 1)
      BY <1>2, <2>2, SMT
    <3>. QED  BY <1>1, <1>2, <3>1, SMT
  <2>. QED  BY <1>2, <2>1, <2>2
<1>. QED  BY <1>1, <1>2, <1>3, SMT

\* The k-th byte after q records is in record q + 1, in place k - 1.
LEMMA RecordAndPlace ==
    ASSUME NEW q \in Nat, NEW k \in 1 .. PlainLen
    PROVE  /\ q * PlainLen + k \in Nat
           /\ RecordOf(q * PlainLen + k) = q + 1 /\ PlaceOf(q * PlainLen + k) = k - 1
<1>1. PlainLen \in Nat \ {0} /\ q * PlainLen \in Nat
  BY RecordAssumption
<1>2. (q * PlainLen + k) - 1 = q * PlainLen + k - 1 /\ q * PlainLen + k \in Nat
  BY <1>1
<1>3. (q * PlainLen + k - 1) \div PlainLen = q /\ (q * PlainLen + k - 1) % PlainLen = k - 1
  BY <1>1, DivMod
<1>. QED  BY <1>2, <1>3 DEF RecordOf, PlaceOf

\* A byte is given by its record and its place.
LEMMA SameRecordAndPlace ==
    ASSUME NEW x \in Nat, NEW y \in Nat, x > 0, y > 0,
           RecordOf(x) = RecordOf(y), PlaceOf(x) = PlaceOf(y)
    PROVE  x = y
<1>. DEFINE a == x - 1
            b == y - 1
<1>1. PlainLen \in Nat \ {0} /\ a \in Nat /\ b \in Nat
  BY RecordAssumption
<1>2. /\ a \div PlainLen \in Int /\ a = PlainLen * (a \div PlainLen) + (a % PlainLen)
      /\ b \div PlainLen \in Int /\ b = PlainLen * (b \div PlainLen) + (b % PlainLen)
  BY <1>1, SMT
<1>3. a \div PlainLen = b \div PlainLen /\ a % PlainLen = b % PlainLen
  BY <1>2 DEF RecordOf, PlaceOf
<1>. QED  BY <1>2, <1>3

-----------------------------------------------------------------------------
(* What the calls of the sockets API and the steps of TCP do to the buffers *)

Typed == TCPTypeOK(Chunks)

LEMMA BufferFacts ==
    ASSUME Typed, NEW e \in Ends
    PROVE  /\ sendBuf[e] \in Seq(Chunks) /\ Len(sendBuf[e]) \in 0 .. Capacity
           /\ recvBuf[e] \in Seq(Chunks) /\ Len(recvBuf[e]) \in 0 .. Capacity
           /\ Peer[e] \in Ends /\ Capacity \in Nat
BY ServiceAssumption, LenProperties DEF Typed, TCPTypeOK

\* VWrite never stores more than there is room for.
LEMMA WriteStoreTyped ==
    ASSUME Typed, NEW e \in Ends, NEW data \in Seq(Chunks), VWriteStore(e, data)
    PROVE  Typed' /\ Storable(e, Len(data)) \in 1 .. Len(data)
<1>. DEFINE n == Storable(e, Len(data))
<1>1. /\ n > 0 /\ sendBuf' = [sendBuf EXCEPT ![e] = sendBuf[e] \o SubSeq(data, 1, n)]
      /\ UNCHANGED <<state, recvBuf, fin>>
  BY DEF VWriteStore
<1>2. n \in 1 .. Len(data) /\ n + Len(sendBuf[e]) <= Capacity
  BY <1>1, BufferFacts, LenProperties DEF Storable, Least
<1>3. SubSeq(data, 1, n) \in Seq(Chunks) /\ Len(SubSeq(data, 1, n)) = n
  BY <1>2, CutInTwo
<1>. HIDE DEF n
<1>4. /\ sendBuf[e] \o SubSeq(data, 1, n) \in Seq(Chunks)
      /\ Len(sendBuf[e] \o SubSeq(data, 1, n)) <= Capacity
  BY <1>2, <1>3, BufferFacts, ConcatProperties
<1>5. Typed'
  BY <1>1, <1>4 DEF Typed, TCPTypeOK
<1>. QED  BY <1>2, <1>5 DEF n

LEMMA ReadTakeTyped ==
    ASSUME Typed, NEW e \in Ends, NEW n \in Nat, VReadTake(e, n)
    PROVE  /\ Typed' /\ Readable(e, n) \in 1 .. n
           /\ SubSeq(recvBuf[e], 1, Readable(e, n)) \in Seq(Chunks)
<1>. DEFINE k == Readable(e, n)
<1>1. /\ k > 0 /\ recvBuf' = [recvBuf EXCEPT ![e] = From(recvBuf[e], k + 1)]
      /\ UNCHANGED <<state, sendBuf, fin>>
  BY DEF VReadTake
<1>2. k \in 1 .. n /\ k \in 0 .. Len(recvBuf[e])
  BY <1>1, BufferFacts DEF Readable, Least
<1>3. /\ SubSeq(recvBuf[e], 1, k) \in Seq(Chunks)
      /\ From(recvBuf[e], k + 1) \in Seq(Chunks) /\ Len(From(recvBuf[e], k + 1)) = Len(recvBuf[e]) - k
  BY <1>2, BufferFacts, CutInTwo, ZenonT(30)
<1>. HIDE DEF k
<1>4. Len(From(recvBuf[e], k + 1)) <= Capacity
  BY <1>2, <1>3, BufferFacts
<1>5. Typed'
  BY <1>1, <1>3, <1>4 DEF Typed, TCPTypeOK
<1>. QED  BY <1>2, <1>3, <1>5 DEF k

\* TCP itself, resets and VClose.
LEMMA ConnectionTyped ==
    ASSUME Typed, NEW e \in Ends, TCPStep(e) \/ Reset(e) \/ VCloseFin(e)
    PROVE  Typed'
<1>. USE BufferFacts
<1>1. CASE Deliver(e)
  <2>1. sendBuf[e] # <<>> /\ Len(recvBuf[Peer[e]]) < Capacity
    BY <1>1 DEF Deliver
  <2>2. /\ Head(sendBuf[e]) \in Chunks /\ Tail(sendBuf[e]) \in Seq(Chunks)
        /\ Len(Tail(sendBuf[e])) = Len(sendBuf[e]) - 1
    BY <2>1, HeadTailProperties
  <2>3. /\ Append(recvBuf[Peer[e]], Head(sendBuf[e])) \in Seq(Chunks)
        /\ Len(Append(recvBuf[Peer[e]], Head(sendBuf[e]))) = Len(recvBuf[Peer[e]]) + 1
    BY <2>2, AppendProperties
  <2>4. /\ Len(Tail(sendBuf[e])) <= Capacity
        /\ Len(Append(recvBuf[Peer[e]], Head(sendBuf[e]))) <= Capacity
    BY <2>1, <2>2, <2>3
  <2>. QED  BY <1>1, <2>2, <2>3, <2>4 DEF Deliver, Typed, TCPTypeOK
<1>2. CASE LoseBehindFin(e)
  <2>1. sendBuf[e] # <<>>
    BY <1>2 DEF LoseBehindFin
  <2>2. Tail(sendBuf[e]) \in Seq(Chunks) /\ Len(Tail(sendBuf[e])) = Len(sendBuf[e]) - 1
    BY <2>1, HeadTailProperties
  <2>3. Len(Tail(sendBuf[e])) <= Capacity
    BY <2>2
  <2>. QED  BY <1>2, <2>2, <2>3 DEF LoseBehindFin, Typed, TCPTypeOK
<1>3. CASE TakeFin(e)
  BY <1>3 DEF TakeFin, Typed, TCPTypeOK
<1>4. CASE Reset(e) \/ RetransmissionLimit(e)
  BY <1>4 DEF RetransmissionLimit, Reset, Typed, TCPTypeOK
<1>5. CASE VCloseFin(e)
  BY <1>5 DEF VCloseFin, Typed, TCPTypeOK
<1>. QED  BY <1>1, <1>2, <1>3, <1>4, <1>5 DEF TCPStep

\* A record on the wire and its parts.
LEMMA FrameFacts ==
    ASSUME NEW i \in Nat \ {0}
    PROVE  LengthField(i) \in Seq(Chunks) /\ SealedData(i) \in Seq(Chunks)
<1>1. FrameLen \in Nat /\ HeaderLen \in 0 .. FrameLen
  BY RecordAssumption
<1>2. Frame(i) \in Seq(Chunks) /\ Len(Frame(i)) = FrameLen
  BY <1>1 DEF Frame, Chunks
<1>. QED  BY <1>1, <1>2, CutInTwo DEF LengthField, SealedData

LEMMA PlaintextFacts ==
    ASSUME NEW i \in Nat \ {0}
    PROVE  /\ Plaintext(i) \in Seq(Nat) /\ Len(Plaintext(i)) = PlainLen
           /\ \A k \in 1 .. PlainLen : Plaintext(i)[k] = (i - 1) * PlainLen + k
<1>1. \A k \in 1 .. PlainLen : (i - 1) * PlainLen + k \in Nat
  <2>1. i - 1 \in Nat
    OBVIOUS
  <2>. QED  BY <2>1, RecordAndPlace
<1>2. PlainLen \in Nat
  BY RecordAssumption
<1>. HIDE DEF Plaintext
<1>3. Plaintext(i) = [k \in 1 .. PlainLen |-> (i - 1) * PlainLen + k]
  BY DEF Plaintext
<1>. QED  BY <1>1, <1>2, <1>3

-----------------------------------------------------------------------------
(* The steps *)

Streams == <<readSeq, readBuf, sealed, returned, overlapped>>

LEMMA OpenedKept ==
    ASSUME \A e \in Ends : ~overlapped[e] => OpenedInv(e), UNCHANGED Streams
    PROVE  \A e \in Ends : ~overlapped'[e] => OpenedInv(e)'
BY DEF OpenedInv, InPlace, Opened, Streams

\* VTLSWrite, except for SealData.
LEMMA SenderStep ==
    ASSUME RecordInv, NEW g \in Senders,
           \/ StartWrite(g) \/ CallVWrite(g) \/ StoreChunks(g) \/ StorePanics(g)
           \/ LoadWriteSeq(g) \/ StoreWriteSeq(g) \/ SourceFails(g)
    PROVE  RecordInv'
<1>. DEFINE s == sender[g]
<1>. /\ sender \in [Senders -> Sender] /\ s \in Sender /\ At[g] \in Ends
     /\ writeSeq \in [Ends -> Nat] /\ Typed
     /\ AtRecord(s)
  BY RecordAssumption DEF RecordInv, TypeOK, Typed, GoroutinesInv
<1>1. UNCHANGED Streams /\ UNCHANGED <<reader, closer, resets>>
  BY DEF StartWrite, CallVWrite, StoreChunks, StorePanics, LoadWriteSeq, StoreWriteSeq, SourceFails,
         Streams
<1>2. Typed' /\ sender' \in [Senders -> Sender] /\ writeSeq' \in [Ends -> Nat]
      /\ AtRecord(sender'[g])
      /\ \A h \in Senders : h # g => sender'[h] = sender[h]
  <2>1. CASE StartWrite(g) \/ CallVWrite(g) \/ StorePanics(g) \/ SourceFails(g)
    <3>1. UNCHANGED tcpVars /\ writeSeq' = writeSeq
      BY <2>1 DEF StartWrite, CallVWrite, StorePanics, SourceFails
    <3>2. PICK pc \in {"begin", "failed", "store", "panicked", "fileError"} :
             sender' = [sender EXCEPT ![g].pc = pc]
      BY <2>1 DEF StartWrite, CallVWrite, StorePanics, SourceFails
    <3>3. s.left > 0 /\ (pc = "store" => s.record # 0)
      BY <2>1, <3>2 DEF StartWrite, CallVWrite, StorePanics, SourceFails, AtRecord, Sender
    <3>. QED  BY <3>1, <3>2, <3>3 DEF Sender, AtRecord, tcpVars, Typed, TCPTypeOK
  <2>2. CASE StoreChunks(g)
    <3>. DEFINE n == Storable(At[g], Len(s.todo))
                rest == From(s.todo, n + 1)
    <3>1. s.todo \in Seq(Chunks) /\ VWriteStore(At[g], s.todo) /\ s.pc = "store"
      BY <2>2 DEF StoreChunks, Sender
    <3>2. Typed' /\ n \in 1 .. Len(s.todo)
      BY <3>1, WriteStoreTyped
    <3>3. rest \in Seq(Chunks)
      BY <3>1, <3>2, CutInTwo
    <3>4. s.record \in Nat \ {0} /\ SealedData(s.record) \in Seq(Chunks)
      BY <3>1, FrameFacts DEF Sender, AtRecord
    <3>5. <<>> \in Seq(Chunks)
      BY EmptySeq
    <3>6. AfterStore(s, n) \in Sender /\ AtRecord(AfterStore(s, n))
      <4>. HIDE DEF rest
      <4>1. AfterStore(s, n) \in {[s EXCEPT !.todo = rest],
                                  [s EXCEPT !.todo = SealedData(s.record), !.pc = "call"],
                                  [s EXCEPT !.todo = <<>>, !.pc = "load"]}
        BY DEF AfterStore, rest
      <4>. QED  BY <3>1, <3>3, <3>4, <3>5, <4>1 DEF Sender, AtRecord
    <3>7. sender' = [sender EXCEPT ![g] = AfterStore(s, n)] /\ writeSeq' = writeSeq
      BY <2>2 DEF StoreChunks
    <3>. QED  BY <3>2, <3>4, <3>6, <3>7
  <2>3. CASE LoadWriteSeq(g)
    BY <2>3 DEF LoadWriteSeq, Sender, AtRecord, tcpVars, Typed, TCPTypeOK
  <2>4. CASE StoreWriteSeq(g)
    <3>1. sender[g].pc = "add" /\ s.seq + 1 \in Nat
      BY <2>4 DEF StoreWriteSeq, Sender
    <3>2. sender' = [sender EXCEPT ![g].pc = "idle", ![g].left = @ - 1]
          /\ writeSeq' = [writeSeq EXCEPT ![At[g]] = s.seq + 1] /\ UNCHANGED tcpVars
      BY <2>4 DEF StoreWriteSeq
    <3>3. s.left - 1 \in Nat
      BY <3>1 DEF AtRecord, Sender
    <3>. QED  BY <3>1, <3>2, <3>3 DEF Sender, AtRecord, tcpVars, Typed, TCPTypeOK
  <2>. QED  BY <2>1, <2>2, <2>3, <2>4
<1>3. TypeOK'
  BY <1>1, <1>2 DEF RecordInv, TypeOK, Streams, Typed
<1>4. GoroutinesInv'
  BY <1>1, <1>2 DEF RecordInv, GoroutinesInv, Streams
<1>. QED  BY <1>1, <1>3, <1>4, OpenedKept DEF RecordInv

\* SealData: the records sealed before keep their nonces.
LEMMA SealStep ==
    ASSUME RecordInv, NEW g \in Senders, Seal(g)
    PROVE  RecordInv'
<1>. DEFINE e == At[g]
            i == Len(sealed[e]) + 1
            s == sender[g]
<1>. /\ sender \in [Senders -> Sender] /\ s \in Sender /\ e \in Ends
     /\ writeSeq[e] \in Nat /\ sealed \in [Ends -> Seq(Nat)] /\ sealed[e] \in Seq(Nat) /\ AtRecord(s)
  BY RecordAssumption DEF RecordInv, TypeOK, GoroutinesInv
<1>1. /\ UNCHANGED <<tcpVars, writeSeq, readSeq, readBuf, reader, closer, returned, overlapped, resets>>
      /\ sealed' = [sealed EXCEPT ![e] = Append(sealed[e], writeSeq[e])]
      /\ sender' = [sender EXCEPT ![g].pc = "call", ![g].record = i, ![g].todo = LengthField(i)]
      /\ s.pc = "begin"
  BY DEF Seal
<1>2. i \in Nat \ {0} /\ LengthField(i) \in Seq(Chunks)
  BY FrameFacts, LenProperties
<1>3. /\ Append(sealed[e], writeSeq[e]) \in Seq(Nat)
      /\ Len(Append(sealed[e], writeSeq[e])) = i
      /\ \A k \in 1 .. Len(sealed[e]) : Append(sealed[e], writeSeq[e])[k] = sealed[e][k]
  BY AppendProperties
<1>. HIDE DEF i
<1>4. sender' \in [Senders -> Sender] /\ \A h \in Senders : AtRecord(sender'[h])
  BY <1>1, <1>2 DEF Sender, AtRecord, RecordInv, GoroutinesInv
<1>5. sealed' \in [Ends -> Seq(Nat)]
  BY <1>1, <1>3
<1>6. TypeOK'
  BY <1>1, <1>4, <1>5 DEF RecordInv, TypeOK, tcpVars, TCPTypeOK
<1>7. GoroutinesInv'
  BY <1>1, <1>4 DEF RecordInv, GoroutinesInv
<1>8. ASSUME NEW f \in Ends, ~overlapped'[f]
      PROVE  OpenedInv(f)'
  <2>1. \A r \in 1 .. Len(sealed[Peer[f]]) :
           r \in 1 .. Len(sealed'[Peer[f]]) /\ sealed'[Peer[f]][r] = sealed[Peer[f]][r]
    <3>1. Peer[f] \in Ends /\ Len(sealed[Peer[f]]) \in Nat /\ Len(sealed[e]) \in Nat
      BY ServiceAssumption, LenProperties
    <3>. QED  BY <1>1, <1>3, <3>1 DEF i
  <2>2. \A b, k : InPlace(f, b, k) => InPlace(f, b, k)'
    BY <2>1 DEF InPlace
  <2>. QED  BY <1>1, <1>8, <2>2 DEF RecordInv, OpenedInv, Opened
<1>. QED  BY <1>6, <1>7, <1>8 DEF RecordInv

\* VTLSRead, except for what it does with bytes of a record, and the REPL.
LEMMA ReaderStep ==
    ASSUME RecordInv, NEW g \in Readers,
           ReadLength(g) \/ CallVRead(g) \/ TakeChunks(g) \/ ReadEOF(g) \/ DestFails(g)
    PROVE  RecordInv'
<1>. DEFINE r == reader[g]
            e == At[g]
<1>. reader \in [Readers -> Reader] /\ r \in Reader /\ e \in Ends /\ Typed
  BY RecordAssumption DEF RecordInv, TypeOK, Typed
<1>1. UNCHANGED Streams /\ UNCHANGED <<writeSeq, sender, closer, resets>>
  BY DEF ReadLength, CallVRead, TakeChunks, ReadEOF, DestFails, Streams
<1>2. /\ Typed' /\ reader' \in [Readers -> Reader] /\ \A h \in Readers : h # g => reader'[h] = reader[h]
      /\ \/ InCall(r) /\ (InRecord(r) \/ readBuf[e] = <<>>)
         \/ ~InCall(reader'[g]) /\ ~InRecord(reader'[g])
  <2>. USE DEF InCall, InRecord
  <2>1. CASE ReadLength(g)
    BY <2>1, RecordAssumption, EmptySeq DEF ReadLength, Reader, tcpVars, Typed, TCPTypeOK
  <2>2. CASE CallVRead(g)
    <3>1. PICK pc \in {"error", "wait"} : reader' = [reader EXCEPT ![g].pc = pc]
      BY <2>2 DEF CallVRead
    <3>2. UNCHANGED tcpVars /\ r.pc = "call"
      BY <2>2 DEF CallVRead
    <3>. QED  BY <3>1, <3>2 DEF Reader, tcpVars, Typed, TCPTypeOK
  <2>3. CASE TakeChunks(g)
    <3>. DEFINE n == Readable(e, r.need)
                got == r.got \o SubSeq(recvBuf[e], 1, n)
                q == [r EXCEPT !.got = got, !.need = r.need - n]
    <3>1. r.pc = "wait" /\ VReadTake(e, r.need) /\ r.need \in Nat /\ r.got \in Seq(Chunks)
      BY <2>3 DEF TakeChunks, Reader
    <3>2. Typed' /\ n \in 1 .. r.need /\ SubSeq(recvBuf[e], 1, n) \in Seq(Chunks)
      BY <3>1, ReadTakeTyped
    <3>3. got \in Seq(Chunks)
      BY <3>1, <3>2, ConcatProperties
    <3>4. PICK after \in (IF q.need = 0 THEN AfterReadFull(q) ELSE {[q EXCEPT !.pc = "call"]}) :
             reader' = [reader EXCEPT ![g] = after]
      BY <2>3 DEF TakeChunks
    <3>. HIDE DEF n, got
    <3>5. q \in Reader
      <4>1. r.need - n \in Nat
        BY <3>1, <3>2
      <4>. QED  BY <3>3, <4>1 DEF Reader
    <3>. HIDE DEF q
    <3>6. after \in Reader
      <4>1. CASE after = [q EXCEPT !.pc = "call"] \/ after = [q EXCEPT !.pc = "open"]
                 \/ after = [q EXCEPT !.pc = "error"]
        BY <3>5, <4>1 DEF Reader
      <4>2. CASE \E k \in Nat :
                   after = [q EXCEPT !.pc = "call", !.part = "record", !.got = <<>>, !.need = k]
        <5>1. <<>> \in Seq(Chunks)
          BY EmptySeq
        <5>. QED  BY <3>5, <4>2, <5>1 DEF Reader
      <4>3. recordLen \in Nat /\ 1 .. FrameLen \subseteq Nat
        BY RecordAssumption DEF recordLen
      <4>. QED  BY <3>4, <4>1, <4>2, <4>3 DEF AfterReadFull
    <3>. QED  BY <3>1, <3>2, <3>4, <3>6
  <2>4. CASE ReadEOF(g)
    BY <2>4 DEF ReadEOF, Reader, tcpVars, Typed, TCPTypeOK
  <2>5. CASE DestFails(g)
    BY <2>5 DEF DestFails, Reader, tcpVars, Typed, TCPTypeOK
  <2>. QED  BY <2>1, <2>2, <2>3, <2>4, <2>5
<1>3. TypeOK'
  BY <1>1, <1>2 DEF RecordInv, TypeOK, Streams, Typed
<1>4. GoroutinesInv'
  <2>1. \A h \in Readers : InRecord(reader'[h]) => overlapped[At[h]] \/ readBuf[At[h]] = <<>>
    BY <1>2 DEF RecordInv, GoroutinesInv
  <2>2. \A h, k \in Readers :
           h # k /\ At[h] = At[k] /\ InCall(reader'[h]) /\ InCall(reader'[k]) => overlapped[At[h]]
    BY <1>2 DEF RecordInv, GoroutinesInv, InCall
  <2>. QED  BY <1>1, <2>1, <2>2 DEF RecordInv, GoroutinesInv, Streams
<1>. QED  BY <1>1, <1>3, <1>4, OpenedKept DEF RecordInv

\* A call of VTLSRead begins: from now on another one at the end overlaps with it.
LEMMA StartReadStep ==
    ASSUME RecordInv, NEW g \in Readers, StartRead(g)
    PROVE  RecordInv'
<1>. DEFINE e == At[g]
<1>. /\ reader \in [Readers -> Reader] /\ reader[g] \in Reader /\ e \in Ends
     /\ overlapped \in [Ends -> BOOLEAN]
  BY RecordAssumption DEF RecordInv, TypeOK
<1>1. /\ UNCHANGED <<tcpVars, writeSeq, readSeq, readBuf, sender, closer, sealed, returned, resets>>
      /\ reader[g].pc = "idle" /\ reader' = [reader EXCEPT ![g].pc = "begin"]
      /\ overlapped' = [overlapped EXCEPT ![e] = overlapped[e] \/ Busy(e)]
  BY DEF StartRead
<1>2. /\ reader' \in [Readers -> Reader] /\ \A h \in Readers : h # g => reader'[h] = reader[h]
      /\ ~InCall(reader[g]) /\ ~InRecord(reader'[g])
  BY <1>1 DEF Reader, InCall, InRecord
<1>3. /\ \A f \in Ends : f # e => overlapped'[f] = overlapped[f]
      /\ overlapped'[e] <=> overlapped[e] \/ Busy(e)
      /\ overlapped' \in [Ends -> BOOLEAN]
  BY <1>1
<1>4. TypeOK'
  BY <1>1, <1>2, <1>3 DEF RecordInv, TypeOK, tcpVars, TCPTypeOK
<1>5. GoroutinesInv'
  <2>1. \A h \in Readers : InRecord(reader'[h]) => overlapped'[At[h]] \/ readBuf'[At[h]] = <<>>
    BY <1>1, <1>2, <1>3, RecordAssumption DEF RecordInv, GoroutinesInv
  <2>2. ASSUME NEW h \in Readers, NEW k \in Readers, h # k, At[h] = At[k],
               InCall(reader'[h]), InCall(reader'[k])
        PROVE  overlapped'[At[h]]
    <3>1. At[h] \in Ends
      BY RecordAssumption
    <3>2. CASE h # g /\ k # g
      BY <1>2, <1>3, <2>2, <3>1, <3>2 DEF RecordInv, GoroutinesInv
    <3>3. CASE h = g \/ k = g
      BY <1>2, <1>3, <2>2, <3>3 DEF Busy
    <3>. QED  BY <3>2, <3>3
  <2>3. ASSUME NEW f \in Ends, overlapped'[f]
        PROVE  \E h, k \in Readers : h # k /\ At[h] = f /\ At[k] = f
    <3>1. CASE overlapped[f]
      BY <3>1 DEF RecordInv, GoroutinesInv
    <3>2. CASE f = e /\ Busy(e)
      <4>1. PICK h \in Readers : At[h] = e /\ InCall(reader[h])
        BY <3>2 DEF Busy
      <4>. QED  BY <1>2, <3>2, <4>1
    <3>. QED  BY <1>3, <2>3, <3>1, <3>2
  <2>. QED  BY <1>1, <2>1, <2>2, <2>3 DEF RecordInv, GoroutinesInv
<1>6. ASSUME NEW f \in Ends, ~overlapped'[f]
      PROVE  OpenedInv(f)'
  <2>1. ~overlapped[f]
    BY <1>3, <1>6
  <2>2. OpenedInv(f)
    BY <2>1 DEF RecordInv
  <2>. QED  BY <1>1, <2>2 DEF OpenedInv, InPlace, Opened
<1>. QED  BY <1>4, <1>5, <1>6 DEF RecordInv

\* What is returned from readBuf follows what was returned before.
LEMMA LeftoverStep ==
    ASSUME RecordInv, NEW g \in Readers, ReadLeftover(g)
    PROVE  RecordInv'
<1>. DEFINE e == At[g]
<1>. /\ e \in Ends /\ readBuf \in [Ends -> Seq(Nat)] /\ returned \in [Ends -> Seq(Nat)]
     /\ readBuf[e] \in Seq(Nat) /\ returned[e] \in Seq(Nat) /\ Len(readBuf[e]) \in Nat
     /\ reader \in [Readers -> Reader] /\ reader[g] \in Reader
  BY RecordAssumption, LenProperties DEF RecordInv, TypeOK
<1>1. /\ UNCHANGED <<tcpVars, writeSeq, readSeq, sender, closer, sealed, overlapped, resets>>
      /\ reader[g].pc = "begin" /\ reader' = [reader EXCEPT ![g].pc = "idle"]
  BY DEF ReadLeftover
<1>2. PICK n \in 0 .. Len(readBuf[e]) :
         /\ returned' = [returned EXCEPT ![e] = returned[e] \o SubSeq(readBuf[e], 1, n)]
         /\ readBuf' = [readBuf EXCEPT ![e] = From(readBuf[e], n + 1)]
  <2>1. PICK size \in ReadSizes :
           LET n == Least(size, Len(readBuf[e]))
           IN  /\ returned' = [returned EXCEPT ![e] = returned[e] \o SubSeq(readBuf[e], 1, n)]
               /\ readBuf' = [readBuf EXCEPT ![e] = From(readBuf[e], n + 1)]
    BY DEF ReadLeftover
  <2>2. Least(size, Len(readBuf[e])) \in 0 .. Len(readBuf[e])
    BY RecordAssumption DEF Least
  <2>. QED  BY <2>1, <2>2
<1>3. From(readBuf[e], n + 1) \in Seq(Nat)
  BY CutInTwo
<1>4. /\ returned[e] \o SubSeq(readBuf[e], 1, n) \in Seq(Nat)
      /\ (returned[e] \o SubSeq(readBuf[e], 1, n)) \o From(readBuf[e], n + 1) = returned[e] \o readBuf[e]
  <2>1. \A r \in Seq(Nat) : /\ r \o SubSeq(readBuf[e], 1, n) \in Seq(Nat)
                            /\ (r \o SubSeq(readBuf[e], 1, n)) \o From(readBuf[e], n + 1) = r \o readBuf[e]
    BY BytesMove
  <2>. QED  BY <2>1
<1>5. /\ reader' \in [Readers -> Reader] /\ \A h \in Readers : h # g => reader'[h] = reader[h]
      /\ InCall(reader[g]) /\ ~InCall(reader'[g]) /\ ~InRecord(reader'[g])
  BY <1>1 DEF Reader, InCall, InRecord
<1>6. TypeOK'
  BY <1>1, <1>2, <1>3, <1>4, <1>5 DEF RecordInv, TypeOK, tcpVars, TCPTypeOK
<1>7. GoroutinesInv'
  <2>1. ASSUME NEW h \in Readers, InRecord(reader'[h])
        PROVE  overlapped[At[h]] \/ readBuf'[At[h]] = <<>>
    <3>1. h # g /\ InRecord(reader[h]) /\ InCall(reader[h]) /\ At[h] \in Ends
      BY <1>5, <2>1, RecordAssumption DEF InRecord, InCall
    <3>2. CASE At[h] = e
      BY <1>5, <3>1, <3>2 DEF RecordInv, GoroutinesInv
    <3>3. CASE At[h] # e
      BY <1>2, <3>1, <3>3 DEF RecordInv, GoroutinesInv
    <3>. QED  BY <3>2, <3>3
  <2>2. \A h, k \in Readers :
           h # k /\ At[h] = At[k] /\ InCall(reader'[h]) /\ InCall(reader'[k]) => overlapped[At[h]]
    BY <1>5 DEF RecordInv, GoroutinesInv
  <2>. QED  BY <1>1, <2>1, <2>2 DEF RecordInv, GoroutinesInv
<1>8. \A f \in Ends : Opened(f)' = Opened(f)
  BY <1>2, <1>4 DEF Opened
<1>. QED  BY <1>1, <1>6, <1>7, <1>8 DEF RecordInv, OpenedInv, InPlace

\* What VTLSRead makes of a record that opens: its bytes are in the places of the
\* record that readSeq counts next.
LEMMA OpenedRecord ==
    ASSUME RecordInv, NEW g \in Readers, OpenData(g),
           Opens(At[g], reader[g].got, reader[g].got[1][1])
    PROVE  LET e == At[g]
               i == reader[g].got[1][1]
           IN  /\ i \in 1 .. Len(sealed[Peer[e]]) /\ sealed[Peer[e]][i] = readSeq[e]
               /\ i \in Nat \ {0} /\ Plaintext(i) \in Seq(Nat) /\ Len(Plaintext(i)) = PlainLen
               /\ \E n \in 0 .. PlainLen :
                     /\ returned' = [returned EXCEPT ![e] = returned[e] \o SubSeq(Plaintext(i), 1, n)]
                     /\ readBuf' = [readBuf EXCEPT ![e] = From(Plaintext(i), n + 1)]
                     /\ n \in 1 .. PlainLen
               /\ readSeq' = [readSeq EXCEPT ![e] = readSeq[e] + 1]
               /\ overlapped[e] \/ readBuf[e] = <<>>
<1>. DEFINE e == At[g]
            i == reader[g].got[1][1]
<1>1. i \in 1 .. Len(sealed[Peer[e]]) /\ sealed[Peer[e]][i] = readSeq[e]
  BY DEF Opens
<1>2. i \in Nat \ {0} /\ Plaintext(i) \in Seq(Nat) /\ Len(Plaintext(i)) = PlainLen
  <2>1. Peer[e] \in Ends
    BY RecordAssumption, ServiceAssumption
  <2>2. Len(sealed[Peer[e]]) \in Nat
    BY <2>1, LenProperties DEF RecordInv, TypeOK
  <2>3. i \in Nat \ {0}
    BY <1>1, <2>2
  <2>. QED  BY <2>3, PlaintextFacts
<1>3. readSeq' = [readSeq EXCEPT ![e] = readSeq[e] + 1]
  BY DEF OpenData
<1>4. PICK size \in ReadSizes :
         LET n == Least(size, PlainLen)
         IN  /\ returned' = [returned EXCEPT ![e] = returned[e] \o SubSeq(Plaintext(i), 1, n)]
             /\ readBuf' = [readBuf EXCEPT ![e] = Leftover(i, n)]
  BY DEF OpenData
<1>5. Least(size, PlainLen) \in 1 .. PlainLen /\ Least(size, PlainLen) \in 0 .. PlainLen
  BY RecordAssumption DEF Least
<1>6. overlapped[e] \/ readBuf[e] = <<>>
  BY DEF RecordInv, GoroutinesInv, OpenData, InRecord
<1>. QED  BY <1>1, <1>2, <1>3, <1>4, <1>5, <1>6 DEF Leftover

LEMMA OpenDataStep ==
    ASSUME RecordInv, NEW g \in Readers, OpenData(g)
    PROVE  RecordInv'
<1>. DEFINE e == At[g]
            i == reader[g].got[1][1]
            P == Plaintext(i)
<1>. /\ e \in Ends /\ reader \in [Readers -> Reader] /\ reader[g] \in Reader
     /\ readBuf \in [Ends -> Seq(Nat)] /\ returned \in [Ends -> Seq(Nat)]
     /\ readSeq \in [Ends -> Nat] /\ readSeq[e] \in Nat /\ returned[e] \in Seq(Nat)
     /\ PlainLen \in Nat \ {0}
  BY RecordAssumption DEF RecordInv, TypeOK
<1>1. /\ UNCHANGED <<tcpVars, writeSeq, sender, closer, sealed, overlapped, resets>>
      /\ reader[g].pc = "open" /\ InCall(reader[g])
  BY DEF OpenData, InCall
<1>2. CASE ~Opens(e, reader[g].got, i)
  <2>1. reader' = [reader EXCEPT ![g].pc = "error"] /\ UNCHANGED <<readSeq, returned, readBuf>>
    BY <1>2 DEF OpenData
  <2>2. TypeOK'
    BY <1>1, <2>1 DEF RecordInv, TypeOK, tcpVars, TCPTypeOK, Reader
  <2>3. GoroutinesInv'
    <3>1. /\ \A h \in Readers : h # g => reader'[h] = reader[h]
          /\ ~InCall(reader'[g]) /\ ~InRecord(reader'[g])
      BY <2>1 DEF Reader, InCall, InRecord
    <3>. QED  BY <1>1, <2>1, <3>1 DEF RecordInv, GoroutinesInv
  <2>. QED  BY <1>1, <2>1, <2>2, <2>3, OpenedKept DEF RecordInv, Streams
<1>3. CASE Opens(e, reader[g].got, i)
  <2>1. PICK n \in 0 .. PlainLen :
           /\ returned' = [returned EXCEPT ![e] = returned[e] \o SubSeq(P, 1, n)]
           /\ readBuf' = [readBuf EXCEPT ![e] = From(P, n + 1)]
    BY <1>3, OpenedRecord
  <2>2. /\ i \in 1 .. Len(sealed[Peer[e]]) /\ sealed[Peer[e]][i] = readSeq[e]
        /\ i \in Nat \ {0} /\ P \in Seq(Nat) /\ Len(P) = PlainLen
        /\ readSeq' = [readSeq EXCEPT ![e] = readSeq[e] + 1]
        /\ overlapped[e] \/ readBuf[e] = <<>>
        /\ \A k \in 1 .. PlainLen : P[k] = (i - 1) * PlainLen + k
    BY <1>3, OpenedRecord, PlaintextFacts
  <2>3. reader' = [reader EXCEPT ![g].pc = "idle"]
    BY <1>3 DEF OpenData
  <2>. HIDE DEF P, i
  <2>4. From(P, n + 1) \in Seq(Nat)
    BY <2>2, CutInTwo
  <2>5. /\ returned[e] \o SubSeq(P, 1, n) \in Seq(Nat)
        /\ (returned[e] \o SubSeq(P, 1, n)) \o From(P, n + 1) = returned[e] \o P
    <3>1. \A r \in Seq(Nat) : /\ r \o SubSeq(P, 1, n) \in Seq(Nat)
                              /\ (r \o SubSeq(P, 1, n)) \o From(P, n + 1) = r \o P
      BY <2>2, BytesMove
    <3>. QED  BY <3>1
  <2>6. TypeOK'
    <3>1. /\ returned' \in [Ends -> Seq(Nat)] /\ readBuf' \in [Ends -> Seq(Nat)]
          /\ readSeq' \in [Ends -> Nat]
      <4>1. readSeq[e] + 1 \in Nat
        OBVIOUS
      <4>2. readSeq' \in [Ends -> Nat]
        BY <2>2, <4>1
      <4>3. returned' \in [Ends -> Seq(Nat)]
        BY <2>1, <2>5
      <4>4. readBuf' \in [Ends -> Seq(Nat)]
        BY <2>1, <2>4
      <4>. QED  BY <4>2, <4>3, <4>4
    <3>2. reader' \in [Readers -> Reader]
      BY <2>3 DEF Reader
    <3>. QED  BY <1>1, <3>1, <3>2 DEF RecordInv, TypeOK, tcpVars, TCPTypeOK
  <2>7. GoroutinesInv'
    <3>0. /\ \A h \in Readers : h # g => reader'[h] = reader[h]
          /\ ~InCall(reader'[g]) /\ ~InRecord(reader'[g])
      BY <2>3 DEF Reader, InCall, InRecord
    <3>1. ASSUME NEW h \in Readers, InRecord(reader'[h])
          PROVE  overlapped[At[h]] \/ readBuf'[At[h]] = <<>>
      <4>1. h # g /\ InRecord(reader[h]) /\ InCall(reader[h]) /\ At[h] \in Ends
        BY <3>0, <3>1, RecordAssumption DEF InRecord, InCall
      <4>2. CASE At[h] = e
        BY <1>1, <4>1, <4>2 DEF RecordInv, GoroutinesInv
      <4>3. CASE At[h] # e
        BY <2>1, <4>1, <4>3 DEF RecordInv, GoroutinesInv
      <4>. QED  BY <4>2, <4>3
    <3>2. \A h, k \in Readers :
             h # k /\ At[h] = At[k] /\ InCall(reader'[h]) /\ InCall(reader'[k]) => overlapped[At[h]]
      BY <3>0 DEF RecordInv, GoroutinesInv
    <3>. QED  BY <1>1, <3>1, <3>2 DEF RecordInv, GoroutinesInv
  <2>8. ASSUME NEW f \in Ends, f # e, ~overlapped[f]
        PROVE  OpenedInv(f)'
    BY <1>1, <2>1, <2>2, <2>8, ZenonT(30) DEF RecordInv, OpenedInv, InPlace, Opened
  <2>9. ASSUME ~overlapped[e]
        PROVE  OpenedInv(e)'
    <3>. DEFINE q == readSeq[e]
                all == returned[e]
    <3>1. /\ Opened(e) = all /\ Len(all) = q * PlainLen
          /\ \A k \in 1 .. Len(all) : InPlace(e, all[k], k)
      BY <2>2, <2>9, ConcatEmptySeq DEF RecordInv, OpenedInv, Opened
    <3>2. Opened(e)' = all \o P /\ readSeq'[e] = q + 1 /\ UNCHANGED sealed
      BY <1>1, <2>1, <2>2, <2>5 DEF Opened
    <3>3. /\ Len(all \o P) = q * PlainLen + PlainLen /\ q * PlainLen \in Nat
          /\ \A k \in 1 .. Len(all) + Len(P) :
                (all \o P)[k] = IF k <= Len(all) THEN all[k] ELSE P[k - Len(all)]
      <4>1. Len(all) \in Nat /\ all \in Seq(Nat)
        BY LenProperties
      <4>. HIDE DEF all, q
      <4>2. \A r, s \in Seq(Nat) :
               /\ Len(r \o s) = Len(r) + Len(s)
               /\ \A k \in 1 .. Len(r) + Len(s) :
                     (r \o s)[k] = IF k <= Len(r) THEN r[k] ELSE s[k - Len(r)]
        BY ConcatProperties
      <4>3. q * PlainLen \in Nat
        BY <3>1, <4>1
      <4>4. P \in Seq(Nat) /\ Len(P) = PlainLen
        BY <2>2
      <4>5. Len(all \o P) = Len(all) + Len(P)
        BY <4>1, <4>2, <4>4
      <4>6. \A k \in 1 .. Len(all) + Len(P) :
               (all \o P)[k] = IF k <= Len(all) THEN all[k] ELSE P[k - Len(all)]
        BY <4>1, <4>2, <4>4
      <4>7. Len(all) = q * PlainLen
        BY <3>1
      <4>8. Len(all \o P) = q * PlainLen + PlainLen
        BY <4>4, <4>5, <4>7
      <4>. QED  BY <4>3, <4>6, <4>8
    <3>4. ASSUME NEW k \in 1 .. PlainLen
          PROVE  InPlace(e, P[k], q * PlainLen + k)
      <4>1. i - 1 \in Nat /\ i - 1 + 1 = i
        BY <2>2, SMTT(30)
      <4>2. /\ P[k] \in Nat /\ RecordOf(P[k]) = i /\ PlaceOf(P[k]) = k - 1
            /\ RecordOf(q * PlainLen + k) = q + 1 /\ PlaceOf(q * PlainLen + k) = k - 1
        <5>1. P[k] = (i - 1) * PlainLen + k
          BY <2>2
        <5>2. /\ (i - 1) * PlainLen + k \in Nat /\ RecordOf((i - 1) * PlainLen + k) = i - 1 + 1
              /\ PlaceOf((i - 1) * PlainLen + k) = k - 1
          BY <4>1, RecordAndPlace
        <5>3. RecordOf(q * PlainLen + k) = q + 1 /\ PlaceOf(q * PlainLen + k) = k - 1
          BY RecordAndPlace
        <5>. QED  BY <4>1, <5>1, <5>2, <5>3
      <4>. QED  BY <2>2, <4>2 DEF InPlace
    <3>. HIDE DEF q, all
    <3>5. Len(all \o P) = (q + 1) * PlainLen
      <4>1. q \in Nat
        BY DEF q
      <4>. QED  BY <3>3, <4>1
    <3>6. ASSUME NEW k \in 1 .. Len(all \o P)
          PROVE  InPlace(e, (all \o P)[k], k)
      <4>1. CASE k <= Len(all)
        BY <2>2, <3>1, <3>3, <3>6, <4>1
      <4>2. CASE k > Len(all)
        <5>. DEFINE j == k - Len(all)
        <5>1. j \in 1 .. PlainLen /\ q * PlainLen + j = k
          BY <3>1, <3>3, <3>6, <4>2
        <5>2. (all \o P)[k] = P[j]
          BY <2>2, <3>1, <3>3, <3>6, <4>2
        <5>. HIDE DEF j
        <5>3. InPlace(e, P[j], q * PlainLen + j)
          BY <3>4, <5>1 DEF q
        <5>. QED  BY <5>1, <5>2, <5>3
      <4>. QED  BY <3>1, <3>3, <4>1, <4>2
    <3>. QED  BY <3>2, <3>5, <3>6 DEF OpenedInv, InPlace
  <2>. QED  BY <1>1, <2>6, <2>7, <2>8, <2>9 DEF RecordInv
<1>. QED  BY <1>2, <1>3

\* VTLSClose, TCP and resets.
LEMMA ConnectionStep ==
    ASSUME RecordInv, NEW e \in Ends, VTLSClose(e) \/ Connection(e) \/ TearDown(e)
    PROVE  RecordInv'
<1>. /\ Typed /\ closer \in [Ends -> {"open", "waiting", "closed", "refused"}]
     /\ resets \in 0 .. MaxResets /\ MaxResets \in Nat
  BY RecordAssumption DEF RecordInv, TypeOK, Typed
<1>1. UNCHANGED <<writeSeq, readSeq, readBuf, sender, reader, sealed, returned, overlapped>>
  BY DEF VTLSClose, CallVClose, SendFin, Connection, TearDown, tlsVars
<1>2. /\ Typed' /\ closer' \in [Ends -> {"open", "waiting", "closed", "refused"}]
      /\ resets' \in 0 .. MaxResets
  <2>1. CASE CallVClose(e)
    <3>1. PICK c \in {"waiting", "refused"} : closer' = [closer EXCEPT ![e] = c]
      BY <2>1 DEF CallVClose
    <3>. QED  BY <2>1, <3>1 DEF CallVClose, tcpVars, Typed, TCPTypeOK
  <2>2. CASE SendFin(e)
    BY <2>2, ConnectionTyped DEF SendFin
  <2>3. CASE Connection(e)
    BY <2>3, ConnectionTyped DEF Connection, tlsVars
  <2>4. CASE TearDown(e)
    BY <2>4, ConnectionTyped DEF TearDown
  <2>. QED  BY <2>1, <2>2, <2>3, <2>4 DEF VTLSClose
<1>3. TypeOK'
  BY <1>1, <1>2 DEF RecordInv, TypeOK, Typed
<1>4. GoroutinesInv'
  BY <1>1 DEF RecordInv, GoroutinesInv
<1>. QED  BY <1>1, <1>3, <1>4, OpenedKept DEF RecordInv, Streams

-----------------------------------------------------------------------------
(* The theorems *)

LEMMA InitRecord == Init => RecordInv
<1>. SUFFICES ASSUME Init
              PROVE  RecordInv
  OBVIOUS
<1>. USE RecordAssumption, ServiceAssumption
<1>1. <<>> \in Seq(Chunks) /\ <<>> \in Seq(Nat) /\ Len(<<>>) = 0
  BY EmptySeq
<1>2. TCPTypeOK(Chunks)
  BY <1>1 DEF Init, TCPInit, TCPTypeOK
<1>3. sender \in [Senders -> Sender] /\ reader \in [Readers -> Reader]
  <2>1. sender \in [Senders -> Sender]
    BY <1>1 DEF Init, Sender
  <2>2. reader \in [Readers -> Reader]
    BY <1>1 DEF Init, Reader
  <2>. QED  BY <2>1, <2>2
<1>4. TypeOK
  BY <1>1, <1>2, <1>3 DEF Init, TypeOK
<1>5. GoroutinesInv
  BY DEF Init, GoroutinesInv, AtRecord, InRecord, InCall
<1>6. ASSUME NEW e \in Ends
      PROVE  OpenedInv(e)
  <2>1. Opened(e) = <<>> /\ readSeq[e] = 0
    BY DEF Init, Opened
  <2>2. Len(Opened(e)) = 0 /\ 0 * PlainLen = 0
    BY <1>1, <2>1
  <2>. QED  BY <2>1, <2>2 DEF OpenedInv
<1>. QED  BY <1>4, <1>5, <1>6 DEF RecordInv

LEMMA StutterRecord == RecordInv /\ UNCHANGED vars => RecordInv'
<1>. SUFFICES ASSUME RecordInv, UNCHANGED vars
              PROVE  RecordInv'
  OBVIOUS
<1>. USE DEF vars, tcpVars, tlsVars
<1>1. TypeOK'
  BY DEF RecordInv, TypeOK, TCPTypeOK
<1>2. GoroutinesInv'
  BY DEF RecordInv, GoroutinesInv
<1>. QED  BY <1>1, <1>2, OpenedKept DEF RecordInv, Streams

LEMMA NextRecord == RecordInv /\ Next => RecordInv'
<1>. SUFFICES ASSUME RecordInv, Next
              PROVE  RecordInv'
  OBVIOUS
<1>1. CASE \E g \in Senders : VTLSWrite(g) \/ SourceFails(g)
  BY <1>1, SenderStep, SealStep DEF VTLSWrite
<1>2. CASE \E g \in Readers : VTLSRead(g) \/ DestFails(g)
  BY <1>2, ReaderStep, StartReadStep, LeftoverStep, OpenDataStep DEF VTLSRead
<1>3. CASE \E e \in Ends : VTLSClose(e) \/ Connection(e) \/ TearDown(e)
  BY <1>3, ConnectionStep
<1>. QED  BY <1>1, <1>2, <1>3 DEF Next

\* VTLSRead takes bytes only out of whole records that open, each with the nonce
\* after the last, and all of them, at an end where no two of its calls have
\* overlapped: the inductive invariant of the record layer.
THEOREM RecordInvariant == Spec => []RecordInv
<1>1. RecordInv /\ [Next]_vars => RecordInv'
  BY NextRecord, StutterRecord
<1>. QED  BY InitRecord, <1>1, PTL DEF Spec

\* The goroutines, the buffers and the sequence numbers of VTLSWrite, VTLSRead and
\* VTLSClose keep their types: VWrite stores no more than fits, VRead takes no
\* more than there is.
THEOREM RecordTypes == Spec => []TypeOK
<1>1. RecordInv => TypeOK
  BY DEF RecordInv
<1>. QED  BY <1>1, RecordInvariant, PTL

\* At an end where no two calls of VTLSRead have overlapped (any number of tlsr one
\* after the other, or tlsrf), the k-th record returned is the peer's k-th nonce's,
\* from its first byte to its last: gcm.Open with readSeq refuses all else.
THEOREM RecordsGenuine == Spec => []Genuine
<1>1. RecordInv => Genuine
  <2>. SUFFICES ASSUME RecordInv, NEW e \in Ends, ~overlapped[e], NEW i \in 1 .. Len(returned[e])
                PROVE  InPlace(e, returned[e][i], i)
    BY DEF Genuine, InPlace
  <2>1. returned[e] \in Seq(Nat) /\ readBuf[e] \in Seq(Nat)
    BY DEF RecordInv, TypeOK
  <2>2. i \in 1 .. Len(Opened(e)) /\ Opened(e)[i] = returned[e][i]
    <3>. DEFINE r == returned[e]
                b == readBuf[e]
    <3>. HIDE DEF r, b
    <3>1. Len(r \o b) = Len(r) + Len(b) /\ Len(r) \in Nat /\ Len(b) \in Nat
          /\ \A k \in 1 .. Len(r) + Len(b) : (r \o b)[k] = IF k <= Len(r) THEN r[k] ELSE b[k - Len(r)]
      BY <2>1, ConcatProperties, LenProperties DEF r, b
    <3>2. i \in 1 .. Len(r)
      BY DEF r
    <3>3. i \in 1 .. Len(r \o b) /\ (r \o b)[i] = r[i]
      BY <3>1, <3>2
    <3>. QED  BY <3>3 DEF Opened, r, b
  <2>. QED  BY <2>2 DEF RecordInv, OpenedInv
<1>. QED  BY <1>1, RecordInvariant, PTL

-----------------------------------------------------------------------------
(* The byte pipe: an end with one sender, and one reader at its peer *)

Sole(g) ==
    /\ g \in Senders
    /\ \A h \in Senders : At[h] = At[g] => h = g

SoleReader(g) ==
    /\ g \in Readers
    /\ \A h \in Readers : At[h] = At[g] => h = g

SolePair == Sole(s1) /\ SoleReader(r1) /\ Peer[At[r1]] = At[s1]

\* Its calls cannot overlap.
LEMMA OneAtATime ==
    ASSUME RecordInv, NEW g, SoleReader(g)
    PROVE  /\ At[g] \in Ends /\ ~overlapped[At[g]] /\ OpenedInv(At[g])
           /\ InRecord(reader[g]) => readBuf[At[g]] = <<>>
<1>1. At[g] \in Ends /\ g \in Readers
  BY RecordAssumption DEF SoleReader
<1>2. ~overlapped[At[g]]
  BY <1>1 DEF SoleReader, RecordInv, GoroutinesInv
<1>. QED  BY <1>1, <1>2 DEF RecordInv, GoroutinesInv

\* The nonces of the end are 0, 1, 2 ...; writeSeq counts the records whose
\* VTLSWrite has come to its end, and the sender has as many left as it counts.
PipeInv(g) ==
    LET e == At[g]
        s == sender[g]
    IN  /\ \A k \in 1 .. Len(sealed[e]) : sealed[e][k] = k - 1
        /\ Len(sealed[e]) = IF s.pc \in {"idle", "begin", "fileError"} THEN writeSeq[e] ELSE writeSeq[e] + 1
        /\ writeSeq[e] + s.left = Records[g]
        /\ s.pc = "add" => s.seq = writeSeq[e]

\* Only the steps of the sender change what PipeInv is about.
LEMMA PipeStep ==
    ASSUME NEW g, Sole(g), RecordInv, PipeInv(g), [Next]_vars
    PROVE  PipeInv(g)'
<1>. DEFINE e == At[g]
            s == sender[g]
<1>. /\ e \in Ends /\ s \in Sender /\ AtRecord(s) /\ sender \in [Senders -> Sender]
     /\ writeSeq \in [Ends -> Nat] /\ sealed \in [Ends -> Seq(Nat)]
     /\ writeSeq[e] \in Nat /\ sealed[e] \in Seq(Nat) /\ Len(sealed[e]) \in Nat
     /\ g \in Senders
  BY RecordAssumption, LenProperties DEF Sole, RecordInv, TypeOK, GoroutinesInv
<1>1. CASE UNCHANGED <<sealed[e], writeSeq[e], s>>
  BY <1>1 DEF PipeInv
<1>2. CASE UNCHANGED vars \/ \E h \in Readers : VTLSRead(h) \/ DestFails(h)
  <2>1. UNCHANGED <<sealed, writeSeq, sender>>
    BY <1>2 DEF vars, tlsVars, VTLSRead, StartRead, ReadLeftover, ReadLength, CallVRead, TakeChunks,
                ReadEOF, OpenData, DestFails
  <2>. QED  BY <1>1, <2>1
<1>3. CASE \E f \in Ends : VTLSClose(f) \/ Connection(f) \/ TearDown(f)
  <2>1. UNCHANGED <<sealed, writeSeq, sender>>
    BY <1>3 DEF tlsVars, VTLSClose, CallVClose, SendFin, Connection, TearDown
  <2>. QED  BY <1>1, <2>1
<1>4. ASSUME NEW h \in Senders, VTLSWrite(h) \/ SourceFails(h), h # g
      PROVE  PipeInv(g)'
  <2>1. At[h] # e
    BY <1>4 DEF Sole
  <2>2. UNCHANGED <<sealed[e], writeSeq[e], s>>
    BY <1>4, <2>1 DEF VTLSWrite, StartWrite, Seal, CallVWrite, StoreChunks, StorePanics,
                      LoadWriteSeq, StoreWriteSeq, SourceFails
  <2>. QED  BY <1>1, <2>2
<1>5. CASE StartWrite(g) \/ CallVWrite(g) \/ StorePanics(g) \/ SourceFails(g)
  <2>1. UNCHANGED <<sealed, writeSeq>>
    BY <1>5 DEF StartWrite, CallVWrite, StorePanics, SourceFails
  <2>2. PICK pc \in {"begin", "failed", "store", "panicked", "fileError"} :
           /\ sender' = [sender EXCEPT ![g].pc = pc]
           /\ pc \in {"begin", "fileError"} <=> s.pc = "idle"
           /\ s.pc \in {"idle", "call", "store"}
    BY <1>5 DEF StartWrite, CallVWrite, StorePanics, SourceFails
  <2>3. s'.pc = pc /\ s'.left = s.left
    BY <2>2 DEF Sender
  <2>. QED  BY <2>1, <2>2, <2>3 DEF PipeInv
<1>6. CASE StoreChunks(g)
  <2>1. UNCHANGED <<sealed, writeSeq>> /\ s.pc = "store" /\ s'.left = s.left
        /\ s'.pc \in {"store", "call", "load"}
    BY <1>6 DEF StoreChunks, AfterStore, Sender
  <2>. QED  BY <2>1 DEF PipeInv
<1>7. CASE LoadWriteSeq(g)
  <2>1. UNCHANGED <<sealed, writeSeq>> /\ s.pc = "load" /\ s'.left = s.left
        /\ s'.pc = "add" /\ s'.seq = writeSeq[e]
    BY <1>7 DEF LoadWriteSeq, Sender
  <2>. QED  BY <2>1 DEF PipeInv
<1>8. CASE StoreWriteSeq(g)
  <2>1. UNCHANGED sealed /\ s.pc = "add" /\ s'.left = s.left - 1 /\ s'.pc = "idle"
        /\ writeSeq'[e] = s.seq + 1
    BY <1>8 DEF StoreWriteSeq, Sender
  <2>2. s.left \in Nat /\ s.left > 0
    BY <2>1 DEF Sender, AtRecord
  <2>3. /\ s.seq = writeSeq[e] /\ Len(sealed[e]) = writeSeq[e] + 1
        /\ writeSeq[e] + s.left = Records[g]
    BY <2>1 DEF PipeInv
  <2>4. Len(sealed'[e]) = writeSeq'[e] /\ writeSeq'[e] + s'.left = Records[g]
    BY <2>1, <2>2, <2>3
  <2>. QED  BY <2>1, <2>4 DEF PipeInv
<1>9. CASE Seal(g)
  <2>1. UNCHANGED writeSeq /\ s.pc = "begin" /\ s'.pc = "call" /\ s'.left = s.left
        /\ sealed'[e] = Append(sealed[e], writeSeq[e])
    BY <1>9 DEF Seal, Sender
  <2>2. writeSeq[e] = Len(sealed[e])
    BY <2>1 DEF PipeInv
  <2>3. /\ Len(sealed'[e]) = Len(sealed[e]) + 1
        /\ \A k \in 1 .. Len(sealed'[e]) : sealed'[e][k] = k - 1
    <3>1. \A q \in Seq(Nat) : \A x \in Nat :
             /\ Len(Append(q, x)) = Len(q) + 1
             /\ \A k \in 1 .. Len(q) : Append(q, x)[k] = q[k]
             /\ Append(q, x)[Len(q) + 1] = x
      BY AppendProperties
    <3>2. /\ Len(sealed'[e]) = Len(sealed[e]) + 1
          /\ \A k \in 1 .. Len(sealed[e]) : sealed'[e][k] = sealed[e][k]
          /\ sealed'[e][Len(sealed[e]) + 1] = writeSeq[e]
      BY <2>1, <3>1
    <3>3. Len(sealed[e]) \in Nat /\ \A k \in 1 .. Len(sealed[e]) : sealed[e][k] = k - 1
      BY DEF PipeInv
    <3>. DEFINE q == sealed[e]
                new == sealed'[e]
                n == Len(q)
    <3>. HIDE DEF q, new, n
    <3>4. /\ n \in Nat /\ Len(new) = n + 1 /\ new[n + 1] = n
          /\ \A k \in 1 .. n : new[k] = k - 1
      BY <2>2, <3>2, <3>3 DEF q, new, n
    <3>5. \A k \in 1 .. n + 1 : new[k] = k - 1
      BY <3>4
    <3>. QED  BY <3>4, <3>5 DEF q, new, n
  <2>. QED  BY <2>1, <2>2, <2>3 DEF PipeInv
<1>. QED  BY <1>2, <1>3, <1>4, <1>5, <1>6, <1>7, <1>8, <1>9 DEF Next, VTLSWrite

\* Then what VTLSRead has returned is the beginning of the stream, and no more of it
\* than was sealed.
StreamReturned ==
    /\ returned[At[r1]] \in Seq(Nat)
    /\ Len(returned[At[r1]]) <= PlainLen * Len(sealed[At[s1]])
    /\ \A i \in 1 .. Len(returned[At[r1]]) : returned[At[r1]][i] = i

LEMMA ReturnedIsStream ==
    ASSUME SolePair, RecordInv, PipeInv(s1)
    PROVE  StreamReturned
<1>. DEFINE f == At[r1]
            e == At[s1]
            r == returned[f]
<1>1. /\ f \in Ends /\ e = Peer[f] /\ r \in Seq(Nat) /\ readBuf[f] \in Seq(Nat)
      /\ Len(r) \in Nat /\ Len(sealed[e]) \in Nat /\ PlainLen \in Nat \ {0}
  <2>1. f \in Ends /\ e \in Ends /\ e = Peer[f] /\ PlainLen \in Nat \ {0}
    BY RecordAssumption DEF SolePair, Sole, SoleReader
  <2>. QED  BY <2>1, LenProperties DEF RecordInv, TypeOK
<1>2. ASSUME NEW i \in 1 .. Len(r)
      PROVE  r[i] = i /\ RecordOf(i) <= Len(sealed[e])
  <2>1. InPlace(f, r[i], i)
    <3>1. \A q \in Seq(Nat) : /\ Len(r \o q) = Len(r) + Len(q) /\ Len(q) \in Nat
                              /\ \A k \in 1 .. Len(r) + Len(q) :
                                    (r \o q)[k] = IF k <= Len(r) THEN r[k] ELSE q[k - Len(r)]
      BY <1>1, ConcatProperties, LenProperties
    <3>2. i \in 1 .. Len(r \o readBuf[f]) /\ (r \o readBuf[f])[i] = r[i]
      <4>. DEFINE b == readBuf[f]
      <4>. HIDE DEF b, r
      <4>1. /\ Len(r \o b) = Len(r) + Len(b) /\ Len(b) \in Nat /\ Len(r) \in Nat
            /\ \A k \in 1 .. Len(r) + Len(b) : (r \o b)[k] = IF k <= Len(r) THEN r[k] ELSE b[k - Len(r)]
        BY <1>1, <3>1 DEF b
      <4>2. i \in 1 .. Len(r)
        BY <1>2
      <4>3. i \in 1 .. Len(r \o b) /\ (r \o b)[i] = r[i]
        BY <4>1, <4>2
      <4>. QED  BY <4>3 DEF b
    <3>. QED  BY <1>1, <3>2, OneAtATime DEF SolePair, OpenedInv, Opened
  <2>. DEFINE b == r[i]
  <2>2. /\ b \in Nat /\ RecordOf(b) \in 1 .. Len(sealed[e])
        /\ RecordOf(b) - 1 = RecordOf(i) - 1 /\ PlaceOf(b) = PlaceOf(i)
    <3>1. /\ b \in Nat /\ RecordOf(b) \in 1 .. Len(sealed[e])
          /\ sealed[e][RecordOf(b)] = RecordOf(i) - 1 /\ PlaceOf(b) = PlaceOf(i)
      BY <1>1, <2>1 DEF InPlace
    <3>2. \A k \in 1 .. Len(sealed[e]) : sealed[e][k] = k - 1
      BY DEF PipeInv
    <3>. QED  BY <3>1, <3>2
  <2>3. i \in Nat /\ i > 0 /\ RecordOf(i) \in Int /\ RecordOf(b) \in Int
    <3>1. \A a \in Int : a \div PlainLen \in Int
      BY <1>1
    <3>2. i \in Nat /\ i > 0 /\ i - 1 \in Int /\ b - 1 \in Int
      BY <1>1, <2>2
    <3>. HIDE DEF b
    <3>. QED  BY <3>1, <3>2, SMTT(30) DEF RecordOf
  <2>4. b > 0
    <3>1. CASE b = 0
      <4>1. (0 - 1) \div PlainLen < 0
        BY <1>1, SMTT(30)
      <4>2. RecordOf(0) < 1
        BY <1>1, <4>1 DEF RecordOf
      <4>. QED  BY <1>1, <2>2, <3>1, <4>2
    <3>. QED  BY <2>2, <3>1
  <2>5. RecordOf(b) = RecordOf(i)
    BY <2>2, <2>3
  <2>. QED  BY <2>2, <2>3, <2>4, <2>5, SameRecordAndPlace
<1>3. Len(r) <= PlainLen * Len(sealed[e])
  <2>. DEFINE L == Len(r)
              n == Len(sealed[e])
  <2>1. CASE L = 0
    <3>1. PlainLen * n >= 0
      BY <1>1
    <3>. QED  BY <2>1, <3>1
  <2>2. CASE L > 0
    <3>1. (L - 1) \div PlainLen + 1 <= n
      <4>1. L \in 1 .. Len(r)
        BY <1>1, <2>2
      <4>2. RecordOf(L) <= n
        BY <1>2, <4>1
      <4>. QED  BY <4>2 DEF RecordOf
    <3>. HIDE DEF L, n
    <3>2. L \in Nat /\ n \in Nat
      BY <1>1 DEF L, n
    <3>3. \A a \in Nat : /\ a = PlainLen * (a \div PlainLen) + (a % PlainLen)
                         /\ a % PlainLen < PlainLen /\ a \div PlainLen \in Int
      BY <1>1, SMT
    <3>4. L - 1 \in Nat
      BY <2>2, <3>2
    <3>. DEFINE d == (L - 1) \div PlainLen
    <3>5. L <= PlainLen * (d + 1) /\ d \in Int
      BY <1>1, <3>2, <3>3, <3>4
    <3>6. d + 1 <= n
      BY <3>1
    <3>. HIDE DEF d
    <3>7. PlainLen * (d + 1) <= PlainLen * n
      BY <1>1, <3>2, <3>5, <3>6
    <3>8. PlainLen * n \in Nat /\ PlainLen * (d + 1) \in Int
      BY <1>1, <3>2, <3>5
    <3>9. L <= PlainLen * n
      BY <3>2, <3>5, <3>7, <3>8
    <3>. QED  BY <3>9 DEF L, n
  <2>. QED  BY <1>1, <2>1, <2>2
<1>. QED  BY <1>1, <1>2, <1>3 DEF StreamReturned

\* A record is sealed while the sender has records left to write: there is room.
LEMMA SealWrites ==
    ASSUME SolePair, RecordInv, PipeInv(s1), Seal(s1)
    PROVE  Pipe!Write
<1>. DEFINE e == At[s1]
            n == Len(sealed[e])
            cap == PlainLen * Records[s1]
            len == Len(returned[At[r1]])
<1>1. /\ e \in Ends /\ sealed[e] \in Seq(Nat) /\ n \in Nat /\ PlainLen \in Nat \ {0}
      /\ Records[s1] \in Nat /\ writeSeq[e] \in Nat /\ sealed \in [Ends -> Seq(Nat)]
      /\ sender[s1] \in Sender /\ AtRecord(sender[s1]) /\ len \in Nat
  BY RecordAssumption, ReturnedIsStream, LenProperties
     DEF StreamReturned, SolePair, Sole, RecordInv, TypeOK, GoroutinesInv
<1>2. sender[s1].pc = "begin" /\ UNCHANGED returned
      /\ sealed' = [sealed EXCEPT ![e] = Append(sealed[e], writeSeq[e])]
  BY DEF Seal
<1>3. Len(sealed'[e]) = n + 1
  BY <1>1, <1>2, AppendProperties
<1>4. n + 1 <= Records[s1]
  BY <1>1, <1>2 DEF PipeInv, AtRecord, Sender
<1>. HIDE DEF n
<1>5. PlainLen * n + PlainLen <= cap
  <2>1. PlainLen * (n + 1) <= PlainLen * Records[s1]
    <3>1. n + 1 \in Nat /\ PlainLen \in Nat
      BY <1>1
    <3>. QED  BY <1>1, <1>4, <3>1, TimesMonotone
  <2>2. PlainLen * (n + 1) = PlainLen * n + PlainLen
    BY <1>1
  <2>. QED  BY <2>1, <2>2
<1>6. PlainLen * n \in Nat /\ cap \in Nat
  BY <1>1
<1>. HIDE DEF cap, len
<1>7. PlainLen \in 1 .. (2 * cap - (PlainLen * n - len))
  BY <1>1, <1>5, <1>6
<1>8. PlainLen * Len(sealed'[e]) = PlainLen * n + PlainLen
  BY <1>1, <1>3
<1>. QED  BY <1>2, <1>7, <1>8 DEF Pipe!Write, n, cap, len

\* What VTLSRead adds to a stream that stays one is its next bytes.
LEMMA MoreIsRead ==
    ASSUME SolePair, RecordInv, StreamReturned, StreamReturned', UNCHANGED sealed,
           NEW x \in Seq(Nat), Len(x) > 0,
           returned'[At[r1]] = returned[At[r1]] \o x
    PROVE  Pipe!Read
<1>. DEFINE r == returned[At[r1]]
            new == r \o x
            n == Len(x)
            w == PlainLen * Len(sealed[At[s1]])
            next == [i \in 1 .. n |-> Len(r) + i]
<1>1. /\ r \in Seq(Nat) /\ Len(r) \in Nat
      /\ \A i \in 1 .. Len(r) : r[i] = i
  BY LenProperties DEF StreamReturned
<1>2. /\ new \in Seq(Nat) /\ Len(new) <= w
      /\ \A i \in 1 .. Len(new) : new[i] = i
  BY DEF StreamReturned
<1>3. n \in Nat /\ n > 0 /\ w \in Nat
  <2>1. n \in Nat
    BY LenProperties
  <2>2. PlainLen \in Nat /\ Len(sealed[At[s1]]) \in Nat
    BY RecordAssumption, LenProperties DEF SolePair, Sole, RecordInv, TypeOK
  <2>3. w \in Nat
    BY <2>2
  <2>. QED  BY <2>1, <2>3
<1>4. Len(new) = Len(r) + n
  BY <1>1, ConcatProperties
<1>5. next \in Seq(Nat) /\ Len(next) = n /\ \A i \in 1 .. n : next[i] = Len(r) + i
  BY <1>1, <1>3
<1>. HIDE DEF n, w, next
<1>6. new = r \o next
  <2>. HIDE DEF r
  <2>1. /\ r \o next \in Seq(Nat) /\ Len(r \o next) = Len(r) + n
        /\ \A i \in 1 .. Len(r) + n :
              (r \o next)[i] = IF i <= Len(r) THEN r[i] ELSE next[i - Len(r)]
    BY <1>1, <1>5, ConcatProperties
  <2>. HIDE DEF new
  <2>2. ASSUME NEW i \in 1 .. Len(new)
        PROVE  new[i] = (r \o next)[i]
    <3>1. i \in 1 .. Len(r) + n /\ i \in Int /\ Len(r) \in Int
      BY <1>1, <1>4
    <3>2. CASE i <= Len(r)
      BY <1>1, <1>2, <2>1, <3>1, <3>2, SMTT(30)
    <3>3. CASE i > Len(r)
      <4>1. i - Len(r) \in 1 .. n /\ Len(r) + (i - Len(r)) = i
        BY <1>1, <1>3, <3>1, <3>3
      <4>2. (r \o next)[i] = next[i - Len(r)]
        BY <1>1, <2>1, <3>1, <3>3
      <4>. QED  BY <1>2, <1>5, <4>1, <4>2
    <3>4. i <= Len(r) \/ i > Len(r)
      BY <3>1
    <3>. QED  BY <3>2, <3>3, <3>4
  <2>. QED  BY <1>2, <1>4, <2>1, <2>2, SeqEqual
<1>7. n \in 1 .. (w - Len(r))
  BY <1>1, <1>2, <1>3, <1>4
<1>. QED  BY <1>6, <1>7 DEF Pipe!Read, w, next

\* Every step of the record layer is a step of the pipe, or none.
LEMMA StepsArePipe ==
    ASSUME SolePair, RecordInv, PipeInv(s1), StreamReturned, StreamReturned', [Next]_vars
    PROVE  [Pipe!Write \/ Pipe!Read]_<<PlainLen * Len(sealed[At[s1]]), returned[At[r1]]>>
<1>. DEFINE e == At[s1]
            f == At[r1]
<1>. /\ e \in Ends /\ f \in Ends /\ r1 \in Readers /\ ~overlapped[f]
     /\ readBuf \in [Ends -> Seq(Nat)] /\ returned \in [Ends -> Seq(Nat)]
     /\ readBuf[f] \in Seq(Nat) /\ Len(readBuf[f]) \in Nat
  BY RecordAssumption, OneAtATime, LenProperties DEF SolePair, Sole, SoleReader, RecordInv, TypeOK
<1>1. CASE UNCHANGED <<sealed[e], returned[f]>>
  BY <1>1
<1>2. CASE UNCHANGED vars \/ \E end \in Ends : VTLSClose(end) \/ Connection(end) \/ TearDown(end)
  <2>1. UNCHANGED <<sealed, returned>>
    BY <1>2 DEF vars, tlsVars, VTLSClose, CallVClose, SendFin, Connection, TearDown
  <2>. QED  BY <1>1, <2>1
<1>3. ASSUME NEW g \in Senders, VTLSWrite(g) \/ SourceFails(g)
      PROVE  UNCHANGED <<sealed[e], returned[f]>> \/ Pipe!Write
  <2>1. UNCHANGED returned
    BY <1>3 DEF VTLSWrite, StartWrite, Seal, CallVWrite, StoreChunks, StorePanics,
                LoadWriteSeq, StoreWriteSeq, SourceFails
  <2>2. CASE ~Seal(g)
    BY <1>3, <2>1, <2>2 DEF VTLSWrite, StartWrite, CallVWrite, StoreChunks, StorePanics,
                            LoadWriteSeq, StoreWriteSeq, SourceFails
  <2>3. CASE Seal(g) /\ g # s1
    <3>1. At[g] # e
      BY <2>3 DEF SolePair, Sole
    <3>. QED  BY <2>1, <2>3, <3>1 DEF Seal
  <2>4. CASE Seal(s1)
    BY <2>4, SealWrites
  <2>. QED  BY <2>2, <2>3, <2>4
<1>4. ASSUME NEW g \in Readers, VTLSRead(g) \/ DestFails(g)
      PROVE  UNCHANGED <<sealed[e], returned[f]>> \/ Pipe!Read
  <2>1. UNCHANGED sealed
    BY <1>4 DEF VTLSRead, StartRead, ReadLeftover, ReadLength, CallVRead, TakeChunks, ReadEOF,
                OpenData, DestFails
  <2>2. CASE g # r1
    <3>1. At[g] # f
      BY <2>2 DEF SolePair, SoleReader
    <3>2. UNCHANGED returned[f]
      BY <1>4, <3>1 DEF VTLSRead, StartRead, ReadLeftover, ReadLength, CallVRead, TakeChunks, ReadEOF,
                        OpenData, DestFails
    <3>. QED  BY <2>1, <3>2
  <2>3. CASE ReadLeftover(r1)
    <3>1. PICK size \in ReadSizes :
             returned' = [returned EXCEPT ![f] =
                            returned[f] \o SubSeq(readBuf[f], 1, Least(size, Len(readBuf[f])))]
      BY <2>3 DEF ReadLeftover
    <3>2. Len(readBuf[f]) > 0
      <4>1. readBuf[f] # <<>>
        BY <2>3 DEF ReadLeftover
      <4>. QED  BY <4>1, EmptySeq
    <3>. DEFINE n == Least(size, Len(readBuf[f]))
                x == SubSeq(readBuf[f], 1, n)
    <3>3. n \in 0 .. Len(readBuf[f]) /\ n > 0
      BY <3>2, RecordAssumption DEF Least
    <3>. HIDE DEF n
    <3>4. x \in Seq(Nat) /\ Len(x) = n
      <4>1. \A p \in Seq(Nat) : \A k \in 0 .. Len(p) :
               SubSeq(p, 1, k) \in Seq(Nat) /\ Len(SubSeq(p, 1, k)) = k
        BY CutInTwo
      <4>. QED  BY <3>3, <4>1
    <3>5. Len(x) > 0
      BY <3>3, <3>4
    <3>6. returned'[f] = returned[f] \o x
      BY <3>1 DEF n
    <3>. HIDE DEF x
    <3>. QED  BY <2>1, <3>4, <3>5, <3>6, MoreIsRead
  <2>4. CASE OpenData(r1) /\ Opens(f, reader[r1].got, reader[r1].got[1][1])
    <3>. DEFINE P == Plaintext(reader[r1].got[1][1])
    <3>1. PICK n \in 1 .. PlainLen :
             returned' = [returned EXCEPT ![f] = returned[f] \o SubSeq(P, 1, n)]
      BY <2>4, OpenedRecord
    <3>2. P \in Seq(Nat) /\ Len(P) = PlainLen
      BY <2>4, OpenedRecord
    <3>. HIDE DEF P
    <3>3. n \in 0 .. Len(P) /\ n > 0
      BY <3>2
    <3>4. SubSeq(P, 1, n) \in Seq(Nat) /\ Len(SubSeq(P, 1, n)) > 0
      BY <3>2, <3>3, CutInTwo
    <3>5. returned'[f] = returned[f] \o SubSeq(P, 1, n)
      BY <3>1
    <3>. QED  BY <2>1, <3>4, <3>5, MoreIsRead
  <2>5. CASE OpenData(r1) /\ ~Opens(f, reader[r1].got, reader[r1].got[1][1])
    BY <2>1, <2>5 DEF OpenData
  <2>6. CASE \/ StartRead(r1) \/ ReadLength(r1) \/ CallVRead(r1) \/ TakeChunks(r1)
             \/ ReadEOF(r1) \/ DestFails(r1)
    BY <2>1, <2>6 DEF StartRead, ReadLength, CallVRead, TakeChunks, ReadEOF, DestFails
  <2>. QED  BY <1>4, <2>2, <2>3, <2>4, <2>5, <2>6 DEF VTLSRead
<1>. QED  BY <1>1, <1>2, <1>3, <1>4 DEF Next

\* An end with one sender and, at its peer, one reader write the byte pipe of VWrite
\* and VRead again, whatever the connection and the user do: framing, readBuf and
\* the sequence numbers lose, repeat and reorder nothing.
THEOREM RecordsFormPipe ==
    ASSUME SolePair
    PROVE  Spec => ImplementsPipe
<1>1. Init => PipeInv(s1) /\ Pipe!StreamInit
  <2>. SUFFICES ASSUME Init
                PROVE  PipeInv(s1) /\ Pipe!StreamInit
    OBVIOUS
  <2>1. /\ s1 \in Senders /\ At[s1] \in Ends /\ At[r1] \in Ends /\ Records[s1] \in Nat
        /\ PlainLen \in Nat
    BY RecordAssumption DEF SolePair, Sole, SoleReader
  <2>2. /\ sealed[At[s1]] = <<>> /\ returned[At[r1]] = <<>> /\ writeSeq[At[s1]] = 0
        /\ sender[s1].pc = "idle" /\ sender[s1].left = Records[s1]
    BY <2>1 DEF Init
  <2>3. Len(sealed[At[s1]]) = 0
    BY <2>2, EmptySeq
  <2>. QED  BY <2>1, <2>2, <2>3 DEF PipeInv, Pipe!StreamInit
<1>2. RecordInv /\ PipeInv(s1) /\ [Next]_vars => PipeInv(s1)'
  BY PipeStep DEF SolePair
<1>3. RecordInv /\ PipeInv(s1) => StreamReturned
  BY ReturnedIsStream
<1>4. RecordInv /\ PipeInv(s1) /\ StreamReturned /\ StreamReturned' /\ [Next]_vars
      => [Pipe!Write \/ Pipe!Read]_<<PlainLen * Len(sealed[At[s1]]), returned[At[r1]]>>
  BY StepsArePipe
<1>. QED  BY <1>1, <1>2, <1>3, <1>4, RecordInvariant, PTL DEF Spec, ImplementsPipe, Pipe!StreamSpec

-----------------------------------------------------------------------------
(* The end of a file: tlssf at one end, tlsrf at the other *)

\* Each is the only goroutine at its end.
LEMMA FileGoroutines ==
    /\ \A g, h \in Senders : At[g] = At[h] /\ At[g] \notin ReplEnds => g = h
    /\ \A g \in Senders : At[g] \notin ReplEnds => Sole(g)
    /\ \A g \in Readers : At[g] \notin ReplEnds => SoleReader(g)
BY RecordAssumption DEF Sole, SoleReader

FileBetween(f, e) == f \notin ReplEnds /\ e \notin ReplEnds

\* Chunks have places in the stream: those of record n + 1 follow Base(n).
Base(n) == n * FrameLen
Place(c) == Base(c[1] - 1) + c[2]
InPlaceFrom(q, pos) == \A k \in 1 .. Len(q) : Place(q[k]) = pos + k

\* A sender in WriteFull has stored some chunks of its record, the last that was
\* sealed; todo is the rest of the length field or of the sealed data.
Writing(s) == s.pc \in {"call", "store", "failed", "panicked"}
Stored(s) == s.todo[1][2] - 1
PartEnd(c) == IF c < HeaderLen THEN HeaderLen ELSE FrameLen
WritingInv(g) ==
    LET s == sender[g]
        c == Stored(s)
    IN  Writing(s) =>
          /\ s.record = Len(sealed[At[g]]) /\ s.record > 0
          /\ c \in 0 .. FrameLen - 1
          /\ Len(s.todo) = PartEnd(c) - c
          /\ \A k \in 1 .. Len(s.todo) : s.todo[k] = <<s.record, c + k>>

\* How far the stream has been stored.
SentBy(g) ==
    LET n == Len(sealed[At[g]])
    IN  IF Writing(sender[g]) THEN Base(n - 1) + Stored(sender[g]) ELSE Base(n)

\* tlssf goes on no more: its file has ended, or failed.
Ended(s) == s.pc = "fileError" \/ (s.pc = "idle" /\ s.left = 0)

\* An end driven by tlssf closes when that has ended, and nothing follows its FIN.
ClosingInv(e) ==
    /\ state[Peer[e]] = "CLOSE_WAIT" => fin[e] # "none"
    /\ e \notin ReplEnds =>
          /\ fin[e] # "none" => closer[e] = "closed" /\ sendBuf[e] = <<>>
          /\ \A g \in Senders : At[g] = e =>
                /\ sender[g].pc = "failed" => ConnectionClosing(e)
                /\ closer[e] \in {"waiting", "closed"} => Ended(sender[g])

\* A reader in ReadFull, and how many chunks of the record it has taken.
PartStart(r) == IF r.part = "record" THEN HeaderLen ELSE 0
PartLen(r) == IF r.part = "record" THEN FrameLen - HeaderLen ELSE HeaderLen
Offset(r) == IF InRecord(r) THEN PartStart(r) + Len(r.got) ELSE 0
ReaderOK(r) ==
    /\ r.pc # "error"
    /\ InRecord(r) => Len(r.got) + r.need = PartLen(r)
    /\ r.pc \in {"call", "wait"} => r.need > 0
    /\ r.pc = "open" => r.part = "record" /\ r.need = 0

\* As long as its own end is not closed, tlsrf at the peer of tlssf finds the
\* stream whole: what it has taken, what is in the two buffers and what is still to
\* be stored follow each other.
ReadFrom(g) == Base(readSeq[At[g]]) + Offset(reader[g])
StreamEnd(g) == ReadFrom(g) + Len(recvBuf[At[g]]) + Len(sendBuf[Peer[At[g]]])
FramingInv(g) ==
    LET f == At[g]
        e == Peer[f]
        r == reader[g]
    IN  FileBetween(f, e) /\ ~ConnectionClosing(f) =>
          /\ ReaderOK(r)
          /\ InRecord(r) => InPlaceFrom(r.got, Base(readSeq[f]) + PartStart(r))
          /\ InPlaceFrom(recvBuf[f], ReadFrom(g))
          /\ InPlaceFrom(sendBuf[e], ReadFrom(g) + Len(recvBuf[f]))
          /\ \A s \in Senders : At[s] = e => SentBy(s) = StreamEnd(g)
          /\ (\A s \in Senders : At[s] # e) => StreamEnd(g) = Base(Len(sealed[e]))

FileInv ==
    /\ \A e \in Ends : ClosingInv(e)
    /\ \A e \in Ends : (\A g \in Senders : At[g] # e) => sealed[e] = <<>>
    /\ \A g \in Senders : At[g] \notin ReplEnds => PipeInv(g) /\ WritingInv(g)
    /\ \A g \in Readers : FramingInv(g)
    /\ EOFMeansWhole

-----------------------------------------------------------------------------
(* Places *)

LEMMA BaseFacts ==
    ASSUME NEW n \in Nat
    PROVE  Base(n) \in Nat /\ Base(n + 1) = Base(n) + FrameLen /\ Base(0) = 0
<1>1. FrameLen \in Nat
  BY RecordAssumption
<1>. QED  BY <1>1 DEF Base

LEMMA BaseUnique ==
    ASSUME NEW m \in Nat, NEW n \in Nat, NEW j \in 0 .. FrameLen - 1, NEW k \in 0 .. FrameLen - 1,
           Base(m) + j = Base(n) + k
    PROVE  m = n /\ j = k
<1>1. FrameLen \in Nat /\ Base(m) \in Nat /\ Base(n) \in Nat /\ Base(m + 1) \in Nat /\ Base(n + 1) \in Nat
      /\ Base(m + 1) = Base(m) + FrameLen /\ Base(n + 1) = Base(n) + FrameLen
  BY RecordAssumption, BaseFacts
<1>2. \A a, b \in Nat : a <= b => Base(a) <= Base(b)
  <2>. SUFFICES ASSUME NEW a \in Nat, NEW b \in Nat, a <= b
                PROVE  FrameLen * a <= FrameLen * b /\ a * FrameLen = FrameLen * a
                       /\ b * FrameLen = FrameLen * b
    BY DEF Base
  <2>. QED  BY <1>1, TimesMonotone
<1>3. CASE m < n
  <2>1. Base(m + 1) <= Base(n)
    BY <1>2, <1>3
  <2>. QED  BY <1>1, <2>1
<1>4. CASE n < m
  <2>1. Base(n + 1) <= Base(m)
    BY <1>2, <1>4
  <2>. QED  BY <1>1, <2>1
<1>. QED  BY <1>1, <1>3, <1>4

LEMMA PlaceUnique ==
    ASSUME NEW c \in Chunks, NEW n \in Nat, NEW k \in 1 .. FrameLen, Place(c) = Base(n) + k
    PROVE  c = <<n + 1, k>> /\ c[1] = n + 1 /\ c[2] = k
<1>1. /\ c = <<c[1], c[2]>> /\ c[1] \in Nat \ {0} /\ c[2] \in 1 .. FrameLen /\ FrameLen \in Nat
  BY RecordAssumption DEF Chunks
<1>. DEFINE m == c[1] - 1
            j == c[2] - 1
<1>2. m \in Nat /\ j \in 0 .. FrameLen - 1 /\ k - 1 \in 0 .. FrameLen - 1
  BY <1>1
<1>3. Base(m) \in Nat /\ Base(n) \in Nat
  BY <1>2, BaseFacts
<1>4. Base(m) + j = Base(n) + (k - 1)
  BY <1>1, <1>3 DEF Place
<1>. HIDE DEF m, j
<1>5. m = n /\ j = k - 1
  BY <1>2, <1>4, BaseUnique
<1>6. c[1] = n + 1 /\ c[2] = k
  BY <1>1, <1>5 DEF m, j
<1>. QED  BY <1>1, <1>6

\* A part of a stream in two pieces, and two parts in one.
LEMMA PlacesCut ==
    ASSUME NEW q \in Seq(Chunks), NEW pos \in Nat, InPlaceFrom(q, pos), NEW k \in 0 .. Len(q)
    PROVE  /\ InPlaceFrom(SubSeq(q, 1, k), pos)
           /\ InPlaceFrom(From(q, k + 1), pos + k)
<1>. DEFINE a == SubSeq(q, 1, k)
            b == From(q, k + 1)
<1>1. /\ Len(q) \in Nat /\ k \in Nat
      /\ Len(a) = k /\ \A j \in 1 .. k : a[j] = q[j]
      /\ Len(b) = Len(q) - k /\ \A j \in 1 .. (Len(q) - k) : b[j] = q[k + j]
  BY CutInTwo, LenProperties
<1>. HIDE DEF a, b
<1>2. InPlaceFrom(a, pos)
  BY <1>1, SMTT(30) DEF InPlaceFrom
<1>3. ASSUME NEW j \in 1 .. Len(b)
      PROVE  Place(b[j]) = (pos + k) + j
  <2>1. j \in 1 .. (Len(q) - k) /\ k + j \in 1 .. Len(q)
    BY <1>1
  <2>2. Place(q[k + j]) = pos + (k + j)
    BY <2>1 DEF InPlaceFrom
  <2>. QED  BY <1>1, <2>1, <2>2
<1>. QED  BY <1>2, <1>3 DEF InPlaceFrom, a, b

LEMMA PlacesJoin ==
    ASSUME NEW p \in Seq(Chunks), NEW q \in Seq(Chunks), NEW pos \in Nat,
           InPlaceFrom(p, pos), InPlaceFrom(q, pos + Len(p))
    PROVE  p \o q \in Seq(Chunks) /\ Len(p \o q) = Len(p) + Len(q) /\ InPlaceFrom(p \o q, pos)
<1>1. /\ p \o q \in Seq(Chunks) /\ Len(p \o q) = Len(p) + Len(q) /\ Len(p) \in Nat /\ Len(q) \in Nat
      /\ \A i \in 1 .. Len(p) + Len(q) : (p \o q)[i] = IF i <= Len(p) THEN p[i] ELSE q[i - Len(p)]
  BY ConcatProperties, LenProperties
<1>2. ASSUME NEW i \in 1 .. Len(p \o q)
      PROVE  Place((p \o q)[i]) = pos + i
  <2>1. CASE i <= Len(p)
    <3>1. (p \o q)[i] = p[i] /\ i \in 1 .. Len(p)
      BY <1>1, <2>1
    <3>. QED  BY <3>1 DEF InPlaceFrom
  <2>2. CASE i > Len(p)
    <3>1. (p \o q)[i] = q[i - Len(p)] /\ i - Len(p) \in 1 .. Len(q)
      BY <1>1, <2>2
    <3>2. Place(q[i - Len(p)]) = (pos + Len(p)) + (i - Len(p))
      BY <3>1 DEF InPlaceFrom
    <3>. QED  BY <1>1, <3>1, <3>2
  <2>. QED  BY <1>1, <2>1, <2>2
<1>. QED  BY <1>1, <1>2 DEF InPlaceFrom

LEMMA FrameChunks ==
    ASSUME NEW i \in Nat \ {0}
    PROVE  /\ LengthField(i) \in Seq(Chunks) /\ Len(LengthField(i)) = HeaderLen
           /\ \A k \in 1 .. HeaderLen : LengthField(i)[k] = <<i, k>>
           /\ SealedData(i) \in Seq(Chunks) /\ Len(SealedData(i)) = FrameLen - HeaderLen
           /\ \A k \in 1 .. (FrameLen - HeaderLen) : SealedData(i)[k] = <<i, HeaderLen + k>>
<1>1. FrameLen \in Nat /\ HeaderLen \in 0 .. FrameLen
  BY RecordAssumption
<1>2. Frame(i) \in Seq(Chunks) /\ Len(Frame(i)) = FrameLen
      /\ \A k \in 1 .. FrameLen : Frame(i)[k] = <<i, k>>
  BY <1>1 DEF Frame, Chunks
<1>3. /\ LengthField(i) \in Seq(Chunks) /\ Len(LengthField(i)) = HeaderLen
      /\ \A k \in 1 .. HeaderLen : LengthField(i)[k] = Frame(i)[k]
      /\ SealedData(i) \in Seq(Chunks) /\ Len(SealedData(i)) = FrameLen - HeaderLen
      /\ \A k \in 1 .. (FrameLen - HeaderLen) : SealedData(i)[k] = Frame(i)[HeaderLen + k]
  BY <1>1, <1>2, CutInTwo, ZenonT(30) DEF LengthField, SealedData
<1>4. \A k \in 1 .. (FrameLen - HeaderLen) : HeaderLen + k \in 1 .. FrameLen
  BY <1>1
<1>5. \A k \in 1 .. HeaderLen : k \in 1 .. FrameLen
  BY <1>1
<1>. QED  BY <1>2, <1>3, <1>4, <1>5

\* The todo of a sender begins at the chunk after the last stored, and the header has
\* an end of its own.
LEMMA TodoFacts ==
    ASSUME NEW g \in Senders, RecordInv, WritingInv(g), Writing(sender[g])
    PROVE  LET s == sender[g]
               c == Stored(s)
           IN  /\ s.todo \in Seq(Chunks) /\ c \in 0 .. FrameLen - 1 /\ s.record \in Nat \ {0}
               /\ Len(s.todo) = PartEnd(c) - c /\ Len(s.todo) \in Nat \ {0}
               /\ \A k \in 1 .. Len(s.todo) : s.todo[k] = <<s.record, c + k>>
               /\ s.record = Len(sealed[At[g]])
               /\ Base(s.record - 1) \in Nat /\ Base(s.record) = Base(s.record - 1) + FrameLen
               /\ SentBy(g) = Base(s.record - 1) + c
               /\ InPlaceFrom(s.todo, SentBy(g))
<1>. DEFINE s == sender[g]
            c == Stored(s)
<1>1. /\ s \in Sender /\ s.todo \in Seq(Chunks) /\ Len(s.todo) \in Nat
  BY LenProperties DEF RecordInv, TypeOK, Sender
<1>2. /\ s.record = Len(sealed[At[g]]) /\ s.record > 0 /\ c \in 0 .. FrameLen - 1
      /\ Len(s.todo) = PartEnd(c) - c
      /\ \A k \in 1 .. Len(s.todo) : s.todo[k] = <<s.record, c + k>>
  BY DEF WritingInv
<1>3. s.record \in Nat \ {0}
  BY <1>1, <1>2 DEF Sender
<1>4. PartEnd(c) \in Nat /\ PartEnd(c) > c
  BY <1>2, RecordAssumption DEF PartEnd
<1>5. /\ Base(s.record - 1) \in Nat /\ Base(s.record) = Base(s.record - 1) + FrameLen
  <2>. DEFINE n == s.record - 1
  <2>1. n \in Nat /\ n + 1 = s.record
    BY <1>3
  <2>. HIDE DEF n
  <2>2. Base(n) \in Nat /\ Base(n + 1) = Base(n) + FrameLen
    BY <2>1, BaseFacts
  <2>. QED  BY <2>1, <2>2 DEF n
<1>6. SentBy(g) = Base(s.record - 1) + c
  BY <1>2 DEF SentBy
<1>7. Len(s.todo) \in Nat \ {0}
  BY <1>1, <1>2, <1>4
<1>8. InPlaceFrom(s.todo, SentBy(g))
  <2>. SUFFICES ASSUME NEW k \in 1 .. Len(s.todo)
                PROVE  Place(s.todo[k]) = SentBy(g) + k
    BY DEF InPlaceFrom
  <2>1. s.todo[k] = <<s.record, c + k>>
    BY <1>2
  <2>2. Place(<<s.record, c + k>>) = Base(s.record - 1) + (c + k)
    BY DEF Place
  <2>3. c \in Nat /\ k \in Nat
    BY <1>2
  <2>. HIDE DEF c
  <2>. QED  BY <1>5, <1>6, <2>1, <2>2, <2>3 DEF c
<1>. QED  BY <1>1, <1>2, <1>3, <1>4, <1>5, <1>6, <1>7, <1>8

\* A step of VTLSWrite stores the next chunks of the stream, or none.
LEMMA StoreFollows ==
    ASSUME RecordInv, NEW g \in Senders, WritingInv(g), StoreChunks(g)
    PROVE  /\ WritingInv(g)'
           /\ \E x \in Seq(Chunks) : /\ sendBuf' = [sendBuf EXCEPT ![At[g]] = sendBuf[At[g]] \o x]
                                     /\ InPlaceFrom(x, SentBy(g)) /\ SentBy(g)' = SentBy(g) + Len(x)
<1>. DEFINE e == At[g]
            s == sender[g]
            t == s.todo
            c == Stored(s)
            i == s.record
            n == Storable(e, Len(t))
            rest == From(t, n + 1)
            x == SubSeq(t, 1, n)
<1>0. /\ e \in Ends /\ s.pc = "store" /\ VWriteStore(e, t) /\ UNCHANGED sealed /\ Typed
      /\ sender' = [sender EXCEPT ![g] = AfterStore(s, n)]
      /\ sender \in [Senders -> Sender] /\ s \in Sender
      /\ FrameLen \in Nat /\ HeaderLen \in Nat \ {0} /\ HeaderLen < FrameLen
  BY RecordAssumption DEF StoreChunks, RecordInv, TypeOK, Typed
<1>1. /\ t \in Seq(Chunks) /\ c \in 0 .. FrameLen - 1 /\ i \in Nat \ {0}
      /\ Len(t) = PartEnd(c) - c /\ Len(t) \in Nat \ {0}
      /\ \A k \in 1 .. Len(t) : t[k] = <<i, c + k>>
      /\ i = Len(sealed[At[g]])
      /\ Base(i - 1) \in Nat /\ Base(i) = Base(i - 1) + FrameLen
      /\ SentBy(g) = Base(i - 1) + c
      /\ InPlaceFrom(t, SentBy(g))
  BY <1>0, TodoFacts DEF Writing
<1>2. n \in 1 .. Len(t) /\ n \in 0 .. Len(t)
  BY <1>0, <1>1, WriteStoreTyped
<1>3. sendBuf' = [sendBuf EXCEPT ![e] = sendBuf[e] \o x]
  BY <1>0 DEF VWriteStore
<1>4. /\ x \in Seq(Chunks) /\ Len(x) = n
      /\ rest \in Seq(Chunks) /\ Len(rest) = Len(t) - n
      /\ \A k \in 1 .. (Len(t) - n) : rest[k] = t[n + k]
  <2>1. t \in Seq(Chunks) /\ n \in 0 .. Len(t)
    BY <1>1, <1>2
  <2>. HIDE DEF t, n
  <2>. QED  BY <2>1, CutInTwo
<1>5. InPlaceFrom(x, SentBy(g))
  <2>1. SentBy(g) \in Nat
    BY <1>1
  <2>. QED  BY <1>1, <1>2, <2>1, PlacesCut
<1>6. t[1] = <<i, c + 1>> /\ t[1][2] = c + 1
  BY <1>1
<1>. HIDE DEF n, rest, x, t, i, c
<1>7. sender'[g] = AfterStore(s, n) /\ At[g] = e
  BY <1>0
<1>8. CASE rest # <<>>
  <2>1. Len(rest) > 0
    BY <1>4, <1>8, EmptySeq
  <2>2. AfterStore(s, n) = [s EXCEPT !.todo = rest]
    BY <1>8 DEF AfterStore, rest, t
  <2>3. sender'[g].todo = rest /\ sender'[g].pc = "store" /\ sender'[g].record = i
    BY <1>0, <1>7, <2>2 DEF Sender, i
  <2>4. \A k \in 1 .. Len(rest) : rest[k] = <<i, (c + n) + k>>
    <3>1. ASSUME NEW k \in 1 .. Len(rest)
          PROVE  rest[k] = <<i, (c + n) + k>>
      <4>1. k \in 1 .. (Len(t) - n) /\ n + k \in 1 .. Len(t)
        BY <1>1, <1>2, <1>4
      <4>2. rest[k] = <<i, c + (n + k)>>
        BY <1>1, <1>4, <4>1
      <4>. QED  BY <1>1, <1>2, <4>1, <4>2
    <3>. QED  BY <3>1
  <2>5. rest[1][2] = (c + n) + 1
    BY <1>4, <2>1, <2>4
  <2>6. Stored(sender'[g]) = c + n
    BY <1>1, <1>2, <2>3, <2>5 DEF Stored
  <2>7. c + n \in 0 .. FrameLen - 1 /\ PartEnd(c + n) = PartEnd(c) /\ Len(rest) = PartEnd(c + n) - (c + n)
    <3>1. /\ c \in Nat /\ n \in Nat /\ Len(rest) = PartEnd(c) - c - n /\ Len(rest) > 0
          /\ HeaderLen \in Nat /\ FrameLen \in Nat /\ HeaderLen < FrameLen /\ c < FrameLen
      BY <1>0, <1>1, <1>2, <1>4, <2>1
    <3>2. CASE c < HeaderLen
      <4>1. c + n < HeaderLen
        BY <3>1, <3>2 DEF PartEnd
      <4>. QED  BY <3>1, <3>2, <4>1 DEF PartEnd
    <3>3. CASE ~(c < HeaderLen)
      <4>1. c + n < FrameLen /\ ~(c + n < HeaderLen)
        BY <3>1, <3>3 DEF PartEnd
      <4>. QED  BY <3>1, <3>3, <4>1 DEF PartEnd
    <3>. QED  BY <3>2, <3>3
  <2>8. WritingInv(g)'
    <3>1. sender'[g].record = Len(sealed'[At[g]]) /\ sender'[g].record > 0
      BY <1>0, <1>1, <2>3
    <3>2. \A k \in 1 .. Len(sender'[g].todo) :
             sender'[g].todo[k] = <<sender'[g].record, Stored(sender'[g]) + k>>
      BY <2>3, <2>4, <2>6
    <3>3. Stored(sender'[g]) \in 0 .. FrameLen - 1
          /\ Len(sender'[g].todo) = PartEnd(Stored(sender'[g])) - Stored(sender'[g])
      BY <2>3, <2>6, <2>7
    <3>. QED  BY <3>1, <3>2, <3>3 DEF WritingInv
  <2>9. SentBy(g)' = SentBy(g) + Len(x)
    <3>1. SentBy(g)' = Base(i - 1) + (c + n)
      BY <1>0, <1>1, <2>3, <2>6 DEF SentBy, Writing
    <3>. QED  BY <1>1, <1>2, <1>4, <3>1
  <2>. QED  BY <1>3, <1>4, <1>5, <2>8, <2>9
<1>9. CASE rest = <<>>
  <2>1. n = Len(t)
    BY <1>1, <1>2, <1>4, <1>9, EmptySeq
  <2>2. CASE c < HeaderLen
    <3>1. AfterStore(s, n) = [s EXCEPT !.todo = SealedData(i), !.pc = "call"]
      <4>1. t[1][2] <= HeaderLen
        BY <1>0, <1>1, <1>6, <2>2
      <4>. QED  BY <1>9, <4>1 DEF AfterStore, rest, t, i
    <3>2. sender'[g].todo = SealedData(i) /\ sender'[g].pc = "call" /\ sender'[g].record = i
      BY <1>0, <1>7, <3>1 DEF Sender, i
    <3>3. /\ Len(SealedData(i)) = FrameLen - HeaderLen
          /\ \A k \in 1 .. (FrameLen - HeaderLen) : SealedData(i)[k] = <<i, HeaderLen + k>>
      BY <1>1, FrameChunks
    <3>4. Stored(sender'[g]) = HeaderLen
      <4>1. 1 \in 1 .. (FrameLen - HeaderLen)
        BY <1>0
      <4>2. SealedData(i)[1][2] = HeaderLen + 1
        BY <3>3, <4>1
      <4>. QED  BY <1>0, <3>2, <4>2 DEF Stored
    <3>5. HeaderLen \in 0 .. FrameLen - 1 /\ PartEnd(HeaderLen) = FrameLen
      BY <1>0 DEF PartEnd
    <3>6. WritingInv(g)'
      <4>1. sender'[g].record = Len(sealed'[At[g]]) /\ sender'[g].record > 0
        BY <1>0, <1>1, <3>2
      <4>2. \A k \in 1 .. Len(sender'[g].todo) :
               sender'[g].todo[k] = <<sender'[g].record, Stored(sender'[g]) + k>>
        BY <3>2, <3>3, <3>4
      <4>3. Stored(sender'[g]) \in 0 .. FrameLen - 1
            /\ Len(sender'[g].todo) = PartEnd(Stored(sender'[g])) - Stored(sender'[g])
        BY <3>2, <3>3, <3>4, <3>5
      <4>. QED  BY <4>1, <4>2, <4>3 DEF WritingInv
    <3>7. SentBy(g)' = SentBy(g) + Len(x)
      <4>1. SentBy(g)' = Base(i - 1) + HeaderLen
        BY <1>0, <1>1, <3>2, <3>4 DEF SentBy, Writing
      <4>2. n = HeaderLen - c
        BY <1>1, <2>1, <2>2 DEF PartEnd
      <4>. QED  BY <1>0, <1>1, <1>4, <4>1, <4>2
    <3>. QED  BY <1>3, <1>4, <1>5, <3>6, <3>7
  <2>3. CASE ~(c < HeaderLen)
    <3>1. AfterStore(s, n) = [s EXCEPT !.todo = <<>>, !.pc = "load"]
      <4>1. ~(t[1][2] <= HeaderLen)
        BY <1>0, <1>1, <1>6, <2>3
      <4>. QED  BY <1>9, <4>1 DEF AfterStore, rest, t
    <3>2. sender'[g].pc = "load"
      BY <1>0, <1>7, <3>1 DEF Sender
    <3>3. WritingInv(g)'
      BY <3>2 DEF WritingInv, Writing
    <3>4. SentBy(g)' = Base(i)
      BY <1>0, <1>1, <3>2 DEF SentBy, Writing
    <3>5. n = FrameLen - c
      BY <1>1, <2>1, <2>3 DEF PartEnd
    <3>6. SentBy(g)' = SentBy(g) + Len(x)
      BY <1>0, <1>1, <1>4, <3>4, <3>5
    <3>. QED  BY <1>3, <1>4, <1>5, <3>3, <3>6
  <2>. QED  BY <2>2, <2>3
<1>. QED  BY <1>8, <1>9

LEMMA StaysSent ==
    ASSUME RecordInv, NEW g \in Senders, WritingInv(g),
           \/ StartWrite(g) \/ Seal(g) \/ CallVWrite(g) \/ StorePanics(g)
           \/ LoadWriteSeq(g) \/ StoreWriteSeq(g) \/ SourceFails(g)
    PROVE  WritingInv(g)' /\ UNCHANGED sendBuf /\ SentBy(g)' = SentBy(g)
<1>. DEFINE e == At[g]
            s == sender[g]
<1>0. /\ e \in Ends /\ sender \in [Senders -> Sender] /\ s \in Sender
      /\ sealed \in [Ends -> Seq(Nat)] /\ sealed[e] \in Seq(Nat) /\ Len(sealed[e]) \in Nat
      /\ writeSeq[e] \in Nat
      /\ FrameLen \in Nat /\ HeaderLen \in Nat \ {0} /\ HeaderLen < FrameLen
  BY RecordAssumption, LenProperties DEF RecordInv, TypeOK
<1>1. UNCHANGED sendBuf
  BY DEF StartWrite, Seal, CallVWrite, StorePanics, LoadWriteSeq, StoreWriteSeq, SourceFails, tcpVars
<1>2. CASE StartWrite(g) \/ LoadWriteSeq(g) \/ StoreWriteSeq(g) \/ SourceFails(g)
  <2>1. ~Writing(sender[g]) /\ UNCHANGED sealed /\ ~Writing(sender'[g])
    BY <1>0, <1>2 DEF StartWrite, LoadWriteSeq, StoreWriteSeq, SourceFails, Writing, Sender
  <2>. QED  BY <1>1, <2>1 DEF WritingInv, SentBy
<1>3. CASE CallVWrite(g) \/ StorePanics(g)
  <2>1. Writing(sender[g]) /\ UNCHANGED sealed /\ Writing(sender'[g])
        /\ sender'[g].todo = s.todo /\ sender'[g].record = s.record
    BY <1>0, <1>3 DEF CallVWrite, StorePanics, Writing, Sender
  <2>2. Stored(sender'[g]) = Stored(s)
    BY <2>1 DEF Stored
  <2>3. SentBy(g)' = SentBy(g)
    BY <2>1, <2>2 DEF SentBy
  <2>. QED  BY <1>1, <2>1, <2>2, <2>3 DEF WritingInv
<1>4. CASE Seal(g)
  <2>. DEFINE n == Len(sealed[e])
              i == n + 1
  <2>1. /\ sealed' = [sealed EXCEPT ![e] = Append(sealed[e], writeSeq[e])] /\ s.pc = "begin"
        /\ sender' = [sender EXCEPT ![g].pc = "call", ![g].record = i, ![g].todo = LengthField(i)]
    BY <1>4 DEF Seal
  <2>2. Len(sealed'[e]) = i
    BY <1>0, <2>1, AppendProperties
  <2>3. i \in Nat \ {0}
    BY <1>0
  <2>4. /\ Len(LengthField(i)) = HeaderLen
        /\ \A k \in 1 .. HeaderLen : LengthField(i)[k] = <<i, k>>
    BY <2>3, FrameChunks
  <2>. HIDE DEF i, n
  <2>5. sender'[g].pc = "call" /\ sender'[g].record = i /\ sender'[g].todo = LengthField(i)
    BY <1>0, <2>1 DEF Sender
  <2>6. Stored(sender'[g]) = 0 /\ PartEnd(0) = HeaderLen
    <3>1. LengthField(i)[1] = <<i, 1>>
      BY <1>0, <2>4
    <3>2. sender'[g].todo[1][2] = 1
      BY <2>5, <3>1
    <3>. QED  BY <1>0, <3>2 DEF Stored, PartEnd
  <2>7. WritingInv(g)'
    <3>1. sender'[g].record = Len(sealed'[At[g]]) /\ sender'[g].record > 0
      BY <2>2, <2>3, <2>5
    <3>2. \A k \in 1 .. Len(sender'[g].todo) :
             sender'[g].todo[k] = <<sender'[g].record, Stored(sender'[g]) + k>>
      <4>1. \A k \in 1 .. HeaderLen : 0 + k = k
        BY <1>0
      <4>. QED  BY <2>4, <2>5, <2>6, <4>1
    <3>3. Stored(sender'[g]) \in 0 .. FrameLen - 1
          /\ Len(sender'[g].todo) = PartEnd(Stored(sender'[g])) - Stored(sender'[g])
      BY <1>0, <2>4, <2>5, <2>6
    <3>. QED  BY <3>1, <3>2, <3>3 DEF WritingInv
  <2>8. SentBy(g)' = SentBy(g)
    <3>1. SentBy(g) = Base(n)
      BY <2>1 DEF SentBy, Writing, n
    <3>2. i - 1 = n /\ Base(n) \in Nat
      <4>1. n \in Nat /\ i = n + 1
        BY <1>0 DEF i, n
      <4>. QED  BY <4>1, BaseFacts
    <3>3. SentBy(g)' = Base(i - 1) + 0
      BY <2>2, <2>5, <2>6 DEF SentBy, Writing
    <3>. QED  BY <3>1, <3>2, <3>3
  <2>. QED  BY <1>1, <2>7, <2>8
<1>. QED  BY <1>2, <1>3, <1>4

LEMMA ReadFromNat ==
    ASSUME RecordInv, NEW g \in Readers
    PROVE  ReadFrom(g) \in Nat /\ Offset(reader[g]) \in Nat /\ Base(readSeq[At[g]]) \in Nat
<1>1. reader[g] \in Reader /\ readSeq[At[g]] \in Nat
  BY RecordAssumption DEF RecordInv, TypeOK
<1>2. Base(readSeq[At[g]]) \in Nat
  BY <1>1, BaseFacts
<1>3. Offset(reader[g]) \in Nat
  <2>1. Len(reader[g].got) \in Nat /\ HeaderLen \in Nat
    BY <1>1, LenProperties, RecordAssumption DEF Reader
  <2>2. PartStart(reader[g]) \in Nat
    BY <2>1 DEF PartStart
  <2>. QED  BY <2>1, <2>2 DEF Offset
<1>. QED  BY <1>2, <1>3 DEF ReadFrom

\* What the readers at the other end rely on in a step of VTLSWrite.
LEMMA WriterFraming ==
    ASSUME RecordInv, FileInv, NEW h \in Senders,
           VTLSWrite(h) \/ SourceFails(h), NEW g \in Readers
    PROVE  FramingInv(g)'
<1>. DEFINE f == At[g]
            e == Peer[f]
            r == reader[g]
<1>0. /\ f \in Ends /\ e \in Ends /\ At[h] \in Ends /\ e # f
      /\ recvBuf[f] \in Seq(Chunks) /\ sendBuf[e] \in Seq(Chunks)
      /\ Len(recvBuf[f]) \in Nat /\ Len(sendBuf[e]) \in Nat
      /\ sendBuf \in [Ends -> Seq(Chunks)] /\ r \in Reader /\ readSeq[f] \in Nat
      /\ sender \in [Senders -> Sender]
  BY RecordAssumption, ServiceAssumption, LenProperties DEF RecordInv, TypeOK, TCPTypeOK
<1>1. /\ UNCHANGED <<state, recvBuf, fin, readSeq, reader, closer>>
      /\ \A s \in Senders : s # h => sender'[s] = sender[s]
      /\ \A d \in Ends : d # At[h] => sendBuf'[d] = sendBuf[d] /\ sealed'[d] = sealed[d]
  <2>1. UNCHANGED <<state, recvBuf, fin, readSeq, reader, closer>>
    BY DEF VTLSWrite, StartWrite, Seal, CallVWrite, StoreChunks, VWriteStore, StorePanics,
           LoadWriteSeq, StoreWriteSeq, SourceFails, tcpVars
  <2>2. \A s \in Senders : s # h => sender'[s] = sender[s]
    BY <1>0 DEF VTLSWrite, StartWrite, Seal, CallVWrite, StoreChunks, StorePanics,
           LoadWriteSeq, StoreWriteSeq, SourceFails
  <2>3. \A d \in Ends : d # At[h] => sendBuf'[d] = sendBuf[d]
    BY <1>0 DEF VTLSWrite, StartWrite, Seal, CallVWrite, StoreChunks, VWriteStore, StorePanics,
           LoadWriteSeq, StoreWriteSeq, SourceFails, tcpVars
  <2>4. \A d \in Ends : d # At[h] => sealed'[d] = sealed[d]
    BY DEF VTLSWrite, StartWrite, Seal, CallVWrite, StoreChunks, StorePanics,
           LoadWriteSeq, StoreWriteSeq, SourceFails, RecordInv, TypeOK
  <2>. QED  BY <2>1, <2>2, <2>3, <2>4
<1>2. SUFFICES ASSUME FileBetween(f, e), ~ConnectionClosing(f)
               PROVE  /\ InPlaceFrom(sendBuf'[e], ReadFrom(g) + Len(recvBuf[f]))
                      /\ \A s \in Senders : At[s] = e => SentBy(s)' = StreamEnd(g)'
                      /\ (\A s \in Senders : At[s] # e) => StreamEnd(g)' = Base(Len(sealed[e]))'
  <2>1. CASE FileBetween(f, e) /\ ~ConnectionClosing(f)
    <3>1. ReadFrom(g)' = ReadFrom(g) /\ ConnectionClosing(f)' = ConnectionClosing(f)
      BY <1>1 DEF ReadFrom, ConnectionClosing
    <3>2. FramingInv(g)
      BY DEF FileInv
    <3>. QED  BY <1>1, <1>2, <2>1, <3>1, <3>2 DEF FramingInv
  <2>2. CASE ~(FileBetween(f, e) /\ ~ConnectionClosing(f))
    BY <1>1, <2>2 DEF FramingInv, ConnectionClosing
  <2>. QED  BY <2>1, <2>2
<1>3. /\ InPlaceFrom(sendBuf[e], ReadFrom(g) + Len(recvBuf[f]))
      /\ \A s \in Senders : At[s] = e => SentBy(s) = StreamEnd(g)
      /\ (\A s \in Senders : At[s] # e) => StreamEnd(g) = Base(Len(sealed[e]))
  BY <1>2 DEF FileInv, FramingInv
<1>4. CASE At[h] # e
  <2>1. sendBuf'[e] = sendBuf[e] /\ sealed'[e] = sealed[e]
    BY <1>0, <1>1, <1>4
  <2>2. StreamEnd(g)' = StreamEnd(g)
    BY <1>1, <2>1 DEF StreamEnd, ReadFrom
  <2>3. \A s \in Senders : At[s] = e => SentBy(s)' = SentBy(s)
    BY <1>1, <1>4, <2>1 DEF SentBy
  <2>. QED  BY <1>3, <2>1, <2>2, <2>3
<1>5. CASE At[h] = e
  <2>1. \A s \in Senders : At[s] = e => s = h
    BY <1>2, <1>5, FileGoroutines DEF FileBetween
  <2>2. WritingInv(h) /\ SentBy(h) = StreamEnd(g)
    BY <1>2, <1>3, <1>5 DEF FileInv, FileBetween
  <2>3. CASE ~StoreChunks(h)
    <3>1. UNCHANGED sendBuf /\ SentBy(h)' = SentBy(h)
      BY <2>2, <2>3, StaysSent DEF VTLSWrite
    <3>2. StreamEnd(g)' = StreamEnd(g)
      BY <1>1, <3>1 DEF StreamEnd, ReadFrom
    <3>. QED  BY <1>3, <1>5, <2>1, <2>2, <3>1, <3>2
  <2>4. CASE StoreChunks(h)
    <3>1. PICK x \in Seq(Chunks) : /\ sendBuf' = [sendBuf EXCEPT ![e] = sendBuf[e] \o x]
                                   /\ InPlaceFrom(x, SentBy(h)) /\ SentBy(h)' = SentBy(h) + Len(x)
      BY <1>5, <2>2, <2>4, StoreFollows
    <3>. DEFINE p == sendBuf[e]
                pos == ReadFrom(g) + Len(recvBuf[f])
    <3>2. p \in Seq(Chunks) /\ InPlaceFrom(p, pos) /\ pos + Len(p) = SentBy(h)
      BY <1>0, <1>3, <2>2 DEF StreamEnd
    <3>3. ReadFrom(g) \in Nat
      BY ReadFromNat
    <3>4. pos \in Nat
      BY <1>0, <3>3
    <3>5. sendBuf'[e] = p \o x
      BY <1>0, <3>1
    <3>. HIDE DEF p, pos
    <3>6. Len(p \o x) = Len(p) + Len(x) /\ InPlaceFrom(p \o x, pos)
      BY <3>1, <3>2, <3>4, PlacesJoin
    <3>7. StreamEnd(g)' = pos + Len(p \o x)
      BY <1>1, <3>5 DEF StreamEnd, ReadFrom, pos
    <3>8. StreamEnd(g)' = SentBy(h)'
      <4>1. Len(p) \in Nat /\ Len(x) \in Nat
        BY <3>1, <3>2, LenProperties
      <4>. QED  BY <3>1, <3>2, <3>4, <3>6, <3>7, <4>1
    <3>. QED  BY <1>5, <2>1, <3>5, <3>6, <3>8 DEF pos
  <2>. QED  BY <2>3, <2>4
<1>. QED  BY <1>4, <1>5

LEMMA WriterKeepsFiles ==
    ASSUME RecordInv, FileInv, NEW h \in Senders, VTLSWrite(h) \/ SourceFails(h)
    PROVE  FileInv'
<1>. DEFINE d == At[h]
            s == sender[h]
<1>0. /\ d \in Ends /\ s \in Sender /\ sender \in [Senders -> Sender] /\ s.left \in Nat
      /\ sealed \in [Ends -> Seq(Nat)] /\ sendBuf \in [Ends -> Seq(Chunks)]
  BY RecordAssumption DEF RecordInv, TypeOK, TCPTypeOK, Sender
<1>1. /\ UNCHANGED <<state, fin, reader, closer, returned>>
      /\ \A g \in Senders : g # h => sender'[g] = sender[g]
      /\ \A e \in Ends : e # d => sendBuf'[e] = sendBuf[e] /\ sealed'[e] = sealed[e]
      /\ ~StoreChunks(h) => UNCHANGED sendBuf
  <2>1. UNCHANGED <<state, fin, reader, closer, returned>>
    BY DEF VTLSWrite, StartWrite, Seal, CallVWrite, StoreChunks, VWriteStore, StorePanics,
           LoadWriteSeq, StoreWriteSeq, SourceFails, tcpVars
  <2>2. \A g \in Senders : g # h => sender'[g] = sender[g]
    BY <1>0 DEF VTLSWrite, StartWrite, Seal, CallVWrite, StoreChunks, StorePanics,
           LoadWriteSeq, StoreWriteSeq, SourceFails
  <2>3. \A e \in Ends : e # d => sendBuf'[e] = sendBuf[e]
    BY <1>0 DEF VTLSWrite, StartWrite, Seal, CallVWrite, StoreChunks, VWriteStore, StorePanics,
           LoadWriteSeq, StoreWriteSeq, SourceFails, tcpVars
  <2>4. \A e \in Ends : e # d => sealed'[e] = sealed[e]
    BY <1>0 DEF VTLSWrite, StartWrite, Seal, CallVWrite, StoreChunks, StorePanics,
           LoadWriteSeq, StoreWriteSeq, SourceFails
  <2>5. ~StoreChunks(h) => UNCHANGED sendBuf
    BY DEF VTLSWrite, StartWrite, Seal, CallVWrite, StorePanics, LoadWriteSeq, StoreWriteSeq, SourceFails, tcpVars
  <2>. QED  BY <2>1, <2>2, <2>3, <2>4, <2>5
<1>2. ~Ended(s)
  BY <1>0 DEF Ended, VTLSWrite, StartWrite, Seal, CallVWrite, StoreChunks, StorePanics, LoadWriteSeq,
              StoreWriteSeq, SourceFails
<1>3. sender'[h].pc = "failed" => ConnectionClosing(d)
  <2>1. CASE CallVWrite(h)
    BY <1>0, <2>1 DEF CallVWrite, Sender
  <2>2. CASE StoreChunks(h)
    <3>1. s.pc = "store" /\ sender'[h].pc \in {"store", "call", "load"}
      BY <1>0, <2>2 DEF StoreChunks, AfterStore, Sender
    <3>. QED  BY <3>1
  <2>3. CASE \/ StartWrite(h) \/ Seal(h) \/ StorePanics(h) \/ LoadWriteSeq(h) \/ StoreWriteSeq(h)
             \/ SourceFails(h)
    BY <1>0, <2>3 DEF StartWrite, Seal, StorePanics, LoadWriteSeq, StoreWriteSeq, SourceFails, Sender
  <2>. QED  BY <2>1, <2>2, <2>3 DEF VTLSWrite
<1>4. ASSUME NEW e \in Ends
      PROVE  ClosingInv(e)'
  <2>. DEFINE quiet == closer[e] \in {"waiting", "closed"}
  <2>1. ClosingInv(e)
    BY DEF FileInv
  <2>2. ConnectionClosing(e)' = ConnectionClosing(e)
    BY <1>1 DEF ConnectionClosing
  <2>3. e = d /\ e \notin ReplEnds => ~quiet
    BY <1>2, <2>1 DEF ClosingInv
  <2>4. e \notin ReplEnds /\ fin[e] # "none" => sendBuf'[e] = <<>>
    BY <1>1, <2>1, <2>3 DEF ClosingInv
  <2>5. e \notin ReplEnds => \A g \in Senders : At[g] = e =>
           /\ sender'[g].pc = "failed" => ConnectionClosing(e)
           /\ quiet => Ended(sender'[g])
    <3>. SUFFICES ASSUME e \notin ReplEnds, NEW g \in Senders, At[g] = e
                  PROVE  /\ sender'[g].pc = "failed" => ConnectionClosing(e)
                         /\ quiet => Ended(sender'[g])
      OBVIOUS
    <3>1. CASE g = h
      BY <1>3, <2>3, <3>1
    <3>2. CASE g # h
      <4>1. sender'[g] = sender[g]
        BY <1>1, <3>2
      <4>. QED  BY <2>1, <4>1 DEF ClosingInv
    <3>. QED  BY <3>1, <3>2
  <2>. QED  BY <1>1, <2>1, <2>2, <2>4, <2>5 DEF ClosingInv
<1>5. ASSUME NEW g \in Senders, At[g] \notin ReplEnds
      PROVE  PipeInv(g)' /\ WritingInv(g)'
  <2>1. PipeInv(g) /\ WritingInv(g) /\ At[g] \in Ends
    BY <1>5, RecordAssumption DEF FileInv
  <2>2. Sole(g)
    BY <1>5, FileGoroutines
  <2>3. PipeInv(g)'
    BY <2>1, <2>2, PipeStep DEF Next
  <2>4. CASE g = h
    BY <2>1, <2>3, <2>4, StaysSent, StoreFollows DEF VTLSWrite
  <2>5. CASE g # h
    <3>1. At[g] # d /\ sender'[g] = sender[g]
      BY <1>1, <1>5, <2>5, FileGoroutines
    <3>2. sealed'[At[g]] = sealed[At[g]]
      BY <1>1, <2>1, <3>1
    <3>3. WritingInv(g)'
      BY <2>1, <3>1, <3>2 DEF WritingInv
    <3>. QED  BY <2>3, <3>3
  <2>. QED  BY <2>4, <2>5
<1>6. EOFMeansWhole'
  <2>. SUFFICES ASSUME NEW g \in Readers, reader[g].pc = "eof",
                         FileBetween(At[g], Peer[At[g]])
                PROVE  LET e == Peer[At[g]]
                       IN  /\ Len(returned[At[g]]) = PlainLen * Len(sealed'[e])
                           /\ \A q \in Senders : At[q] = e => Ended(sender'[q])
    BY <1>1 DEF EOFMeansWhole, FileBetween, Ended
  <2>. DEFINE e == Peer[At[g]]
  <2>1. /\ Len(returned[At[g]]) = PlainLen * Len(sealed[e])
        /\ \A q \in Senders : At[q] = e => Ended(sender[q])
    BY DEF FileInv, EOFMeansWhole, FileBetween, Ended
  <2>2. d # e /\ e \in Ends
    BY <1>2, <2>1, RecordAssumption, ServiceAssumption
  <2>3. sealed'[e] = sealed[e]
    BY <1>1, <2>2
  <2>4. \A q \in Senders : At[q] = e => sender'[q] = sender[q]
    BY <1>1, <2>2
  <2>. QED  BY <2>1, <2>3, <2>4
<1>7. \A g \in Readers : FramingInv(g)'
  BY WriterFraming
<1>8. \A e \in Ends : (\A g \in Senders : At[g] # e) => sealed'[e] = <<>>
  BY <1>1 DEF FileInv
<1>. QED  BY <1>4, <1>5, <1>6, <1>7, <1>8 DEF FileInv

LEMMA BaseMonotone ==
    ASSUME NEW m \in Nat, NEW n \in Nat, Base(m) <= Base(n)
    PROVE  m <= n
<1>1. FrameLen \in Nat /\ FrameLen > 0 /\ Base(m) \in Nat /\ Base(n) \in Nat /\ Base(n + 1) = Base(n) + FrameLen
  BY RecordAssumption, BaseFacts
<1>2. CASE n < m
  <2>1. FrameLen * (n + 1) <= FrameLen * m
    BY <1>1, <1>2, TimesMonotone, n + 1 \in Nat
  <2>2. FrameLen * (n + 1) = (n + 1) * FrameLen /\ FrameLen * m = m * FrameLen
    BY <1>1
  <2>3. Base(n + 1) <= Base(m)
    BY <2>1, <2>2 DEF Base
  <2>. QED  BY <1>1, <2>3
<1>. QED  BY <1>2

\* No more is stored than is sealed.
LEMMA SentIsSealed ==
    ASSUME RecordInv, FileInv, NEW s \in Senders, At[s] \notin ReplEnds
    PROVE  /\ SentBy(s) \in Nat /\ SentBy(s) <= Base(Len(sealed[At[s]]))
           /\ ~Writing(sender[s]) => SentBy(s) = Base(Len(sealed[At[s]]))
<1>1. Len(sealed[At[s]]) \in Nat /\ FrameLen \in Nat
  BY RecordAssumption, LenProperties DEF RecordInv, TypeOK
<1>2. CASE Writing(sender[s])
  <2>1. WritingInv(s)
    BY DEF FileInv
  <2>. DEFINE i == sender[s].record
              c == Stored(sender[s])
  <2>2. /\ c \in 0 .. FrameLen - 1 /\ i = Len(sealed[At[s]])
        /\ Base(i - 1) \in Nat /\ Base(i) = Base(i - 1) + FrameLen
        /\ SentBy(s) = Base(i - 1) + c
    BY <1>2, <2>1, TodoFacts
  <2>. HIDE DEF i, c
  <2>. QED  BY <1>1, <1>2, <2>2
<1>3. CASE ~Writing(sender[s])
  <2>1. SentBy(s) = Base(Len(sealed[At[s]]))
    BY <1>3 DEF SentBy
  <2>. DEFINE n == Len(sealed[At[s]])
  <2>. HIDE DEF n
  <2>2. n \in Nat
    BY <1>1 DEF n
  <2>3. Base(n) \in Nat
    BY <2>2, BaseFacts
  <2>. QED  BY <1>3, <2>1, <2>3 DEF n
<1>. QED  BY <1>2, <1>3

\* A reader whose ReadFull has a whole record opens it: it is the next one.
LEMMA WholeRecordOpens ==
    ASSUME RecordInv, FileInv, NEW g \in Readers, reader[g].pc = "open",
           FileBetween(At[g], Peer[At[g]]), ~ConnectionClosing(At[g])
    PROVE  /\ Opens(At[g], reader[g].got, reader[g].got[1][1])
           /\ Offset(reader[g]) = FrameLen
<1>. DEFINE f == At[g]
            e == Peer[f]
            r == reader[g]
            q == readSeq[f]
            n == Len(sealed[e])
<1>0. /\ f \in Ends /\ e \in Ends /\ r \in Reader /\ q \in Nat /\ n \in Nat
      /\ FrameLen \in Nat /\ HeaderLen \in Nat \ {0} /\ HeaderLen < FrameLen
      /\ Len(recvBuf[f]) \in Nat /\ Len(sendBuf[e]) \in Nat /\ r.got \in Seq(Chunks)
  BY RecordAssumption, ServiceAssumption, LenProperties DEF RecordInv, TypeOK, TCPTypeOK, Reader
<1>00. Base(q) \in Nat /\ Base(n) \in Nat /\ Base(q + 1) = Base(q) + FrameLen
  <2>. HIDE DEF q, n
  <2>. QED  BY <1>0, BaseFacts
<1>1. /\ r.part = "record" /\ Len(r.got) = FrameLen - HeaderLen
      /\ InPlaceFrom(r.got, Base(q) + HeaderLen)
  <2>1. FramingInv(g) /\ InRecord(r)
    BY DEF FileInv, InRecord
  <2>2. r.part = "record" /\ r.need = 0 /\ Len(r.got) + r.need = PartLen(r)
        /\ InPlaceFrom(r.got, Base(q) + PartStart(r))
    BY <2>1 DEF FramingInv, ReaderOK
  <2>3. Len(r.got) \in Nat
    BY <1>0, LenProperties
  <2>. QED  BY <1>0, <2>2, <2>3 DEF PartLen, PartStart
<1>2. Offset(r) = FrameLen
  BY <1>0, <1>1 DEF Offset, InRecord, PartStart
<1>3. \A k \in 1 .. (FrameLen - HeaderLen) : r.got[k] = <<q + 1, HeaderLen + k>>
  <2>. SUFFICES ASSUME NEW k \in 1 .. (FrameLen - HeaderLen)
                PROVE  r.got[k] = <<q + 1, HeaderLen + k>>
    OBVIOUS
  <2>1. r.got[k] \in Chunks /\ Place(r.got[k]) = (Base(q) + HeaderLen) + k
    BY <1>0, <1>1, ElementOfSeq DEF InPlaceFrom
  <2>2. HeaderLen + k \in 1 .. FrameLen /\ (Base(q) + HeaderLen) + k = Base(q) + (HeaderLen + k)
    BY <1>0, <1>00
  <2>. HIDE DEF q, r
  <2>. QED  BY <1>0, <2>1, <2>2, PlaceUnique
<1>4. r.got[1][1] = q + 1
  BY <1>0, <1>3
<1>5. r.got = SealedData(q + 1)
  <2>1. /\ SealedData(q + 1) \in Seq(Chunks) /\ Len(SealedData(q + 1)) = FrameLen - HeaderLen
        /\ \A k \in 1 .. (FrameLen - HeaderLen) : SealedData(q + 1)[k] = <<q + 1, HeaderLen + k>>
    <3>. HIDE DEF q
    <3>1. q + 1 \in Nat \ {0}
      BY <1>0
    <3>. QED  BY <3>1, FrameChunks
  <2>2. /\ r.got \in Seq(Chunks) /\ Len(r.got) = FrameLen - HeaderLen
        /\ \A k \in 1 .. (FrameLen - HeaderLen) : r.got[k] = <<q + 1, HeaderLen + k>>
    BY <1>0, <1>1, <1>3
  <2>. DEFINE t == r.got
              d == SealedData(q + 1)
  <2>3. t \in Seq(Chunks) /\ d \in Seq(Chunks) /\ Len(t) = Len(d) /\ \A k \in 1 .. Len(t) : t[k] = d[k]
    BY <2>1, <2>2
  <2>. HIDE DEF t, d
  <2>4. t = d
    BY <2>3, SeqEqual
  <2>. QED  BY <2>4 DEF t, d
<1>6. q + 1 <= n
  <2>1. /\ \A s \in Senders : At[s] = e => SentBy(s) = StreamEnd(g)
        /\ (\A s \in Senders : At[s] # e) => StreamEnd(g) = Base(n)
    BY DEF FileInv, FramingInv
  <2>2. StreamEnd(g) <= Base(n) /\ StreamEnd(g) \in Nat
    <3>1. CASE \A s \in Senders : At[s] # e
      BY <1>00, <2>1, <3>1
    <3>2. ASSUME NEW s \in Senders, At[s] = e
          PROVE  StreamEnd(g) <= Base(n) /\ StreamEnd(g) \in Nat
      <4>1. SentBy(s) <= Base(n) /\ SentBy(s) \in Nat
        BY <3>2, SentIsSealed DEF FileBetween
      <4>. QED  BY <2>1, <3>2, <4>1
    <3>. QED  BY <3>1, <3>2
  <2>3. Base(q + 1) <= StreamEnd(g)
    <3>1. Base(q + 1) = Base(q) + FrameLen /\ Base(q) \in Nat
      BY <1>00
    <3>2. StreamEnd(g) = Base(q) + Offset(r) + Len(recvBuf[f]) + Len(sendBuf[e])
      BY DEF StreamEnd, ReadFrom
    <3>. QED  BY <1>0, <1>2, <3>1, <3>2
  <2>4. Base(q + 1) \in Nat /\ Base(n) \in Nat
    BY <1>0, <1>00
  <2>5. Base(q + 1) <= Base(n)
    BY <2>2, <2>3, <2>4
  <2>6. q + 1 \in Nat
    BY <1>0
  <2>. HIDE DEF q, n
  <2>. QED  BY <1>0, <2>5, <2>6, BaseMonotone
<1>7. sealed[e][q + 1] = q
  <2>1. PICK s \in Senders : At[s] = e
    <3>1. CASE \A s \in Senders : At[s] # e
      <4>1. sealed[e] = <<>>
        BY <1>0, <3>1 DEF FileInv
      <4>. QED  BY <1>0, <1>6, <4>1, EmptySeq
    <3>. QED  BY <3>1
  <2>2. \A k \in 1 .. n : sealed[e][k] = k - 1
    BY <2>1 DEF FileInv, PipeInv, FileBetween
  <2>. QED  BY <1>0, <1>6, <2>2
<1>. QED  BY <1>0, <1>2, <1>4, <1>5, <1>6, <1>7 DEF Opens

\* VReadEOF: the file has been sent, closed and received, and the reader is between
\* two records.
LEMMA EOFIsBetweenRecords ==
    ASSUME RecordInv, FileInv, NEW g \in Readers, ReadEOF(g),
           FileBetween(At[g], Peer[At[g]])
    PROVE  /\ Offset(reader[g]) = 0 /\ ~ConnectionClosing(At[g])
           /\ Len(returned[At[g]]) = PlainLen * Len(sealed[Peer[At[g]]])
           /\ \A s \in Senders : At[s] = Peer[At[g]] => Ended(sender[s])
<1>. DEFINE f == At[g]
            e == Peer[f]
            r == reader[g]
            q == readSeq[f]
            n == Len(sealed[e])
<1>0. /\ f \in Ends /\ e \in Ends /\ Peer[e] = f /\ r \in Reader /\ q \in Nat /\ n \in Nat
      /\ FrameLen \in Nat /\ HeaderLen \in Nat \ {0} /\ HeaderLen < FrameLen
      /\ r.got \in Seq(Chunks) /\ Len(r.got) \in Nat /\ r.need \in Nat /\ PlainLen \in Nat
      /\ returned[f] \in Seq(Nat) /\ readBuf[f] \in Seq(Nat)
  BY RecordAssumption, ServiceAssumption, LenProperties DEF RecordInv, TypeOK, TCPTypeOK, Reader
<1>1. r.pc = "wait" /\ recvBuf[f] = <<>> /\ state[f] = "CLOSE_WAIT"
  BY DEF ReadEOF, VReadEOF
<1>2. ~ConnectionClosing(f)
  BY <1>1 DEF ConnectionClosing
<1>3. /\ sendBuf[e] = <<>>
      /\ \A s \in Senders : At[s] = e => Ended(sender[s])
  BY <1>0, <1>1 DEF FileInv, ClosingInv, FileBetween
<1>4. StreamEnd(g) = Base(n)
  <2>1. /\ \A s \in Senders : At[s] = e => SentBy(s) = StreamEnd(g)
        /\ (\A s \in Senders : At[s] # e) => StreamEnd(g) = Base(n)
    BY <1>2 DEF FileInv, FramingInv
  <2>2. ASSUME NEW s \in Senders, At[s] = e
        PROVE  SentBy(s) = Base(n)
    BY <1>3, <2>2, SentIsSealed DEF Writing, Ended, FileBetween
  <2>. QED  BY <2>1, <2>2
<1>5. Base(q) + Offset(r) = Base(n)
  <2>1. Len(recvBuf[f]) = 0 /\ Len(sendBuf[e]) = 0
    BY <1>1, <1>3, EmptySeq
  <2>2. ReadFrom(g) \in Nat
    BY ReadFromNat
  <2>. QED  BY <1>4, <2>1, <2>2 DEF StreamEnd, ReadFrom
<1>6. Offset(r) \in 0 .. FrameLen - 1
  <2>1. Len(r.got) + r.need = PartLen(r) /\ r.need > 0
    BY <1>1, <1>2 DEF FileInv, FramingInv, ReaderOK, InRecord
  <2>2. Offset(r) = PartStart(r) + Len(r.got)
    BY <1>1 DEF Offset, InRecord
  <2>3. PartStart(r) \in Nat /\ PartLen(r) \in Nat /\ PartStart(r) + PartLen(r) <= FrameLen
    BY <1>0 DEF PartStart, PartLen
  <2>. QED  BY <1>0, <2>1, <2>2, <2>3, SMTT(30)
<1>7. q = n /\ Offset(r) = 0
  <2>1. 0 \in 0 .. FrameLen - 1 /\ Base(n) + 0 = Base(n)
    <3>. HIDE DEF n
    <3>1. Base(n) \in Nat
      BY <1>0, BaseFacts
    <3>. QED  BY <1>0, <3>1
  <2>2. Offset(r) = 0 /\ q = n
    <3>. DEFINE j == Offset(r)
    <3>1. Base(q) + j = Base(n) + 0 /\ j \in 0 .. FrameLen - 1
      BY <1>5, <1>6, <2>1
    <3>. HIDE DEF j, q, n
    <3>2. q = n /\ j = 0
      BY <1>0, <2>1, <3>1, BaseUnique
    <3>. QED  BY <3>2 DEF j
  <2>. QED  BY <2>2
<1>8. Len(returned[f]) = PlainLen * n
  <2>1. readBuf[f] = <<>> /\ OpenedInv(f)
    BY <1>1, FileGoroutines, OneAtATime DEF InRecord, FileBetween
  <2>2. Opened(f) = returned[f]
    BY <1>0, <2>1, ConcatEmptySeq DEF Opened
  <2>3. Len(returned[f]) = q * PlainLen
    BY <2>1, <2>2 DEF OpenedInv
  <2>. HIDE DEF n
  <2>4. n * PlainLen = PlainLen * n
    BY <1>0
  <2>. QED  BY <1>7, <2>3, <2>4
<1>. QED  BY <1>2, <1>3, <1>7, <1>8

\* Chunks in their places are those of the record.
LEMMA ChunksOfRecord ==
    ASSUME NEW n \in Nat, NEW j \in Nat, NEW t \in Seq(Chunks),
           InPlaceFrom(t, Base(n) + j), j + Len(t) <= FrameLen
    PROVE  \A k \in 1 .. Len(t) : t[k] = <<n + 1, j + k>>
<1>. SUFFICES ASSUME NEW k \in 1 .. Len(t)
              PROVE  t[k] = <<n + 1, j + k>>
  OBVIOUS
<1>0. FrameLen \in Nat /\ Base(n) \in Nat /\ Len(t) \in Nat
  BY RecordAssumption, BaseFacts, LenProperties
<1>1. t[k] \in Chunks /\ Place(t[k]) = (Base(n) + j) + k
  BY ElementOfSeq DEF InPlaceFrom
<1>2. j + k \in 1 .. FrameLen /\ (Base(n) + j) + k = Base(n) + (j + k)
  BY <1>0
<1>. QED  BY <1>1, <1>2, PlaceUnique

\* What FramingInv says of a reader and its buffer after a step of the reader.
ReadOn(g) ==
    LET f == At[g]
    IN  /\ ReaderOK(reader'[g])
        /\ InRecord(reader'[g]) =>
              InPlaceFrom(reader'[g].got, Base(readSeq'[f]) + PartStart(reader'[g]))
        /\ InPlaceFrom(recvBuf'[f], ReadFrom(g)')
        /\ ReadFrom(g)' + Len(recvBuf'[f]) = ReadFrom(g) + Len(recvBuf[f])

\* ReadFull takes the next chunks, and a length field is followed by its record.
LEMMA TakeReadsOn ==
    ASSUME RecordInv, FileInv, NEW g \in Readers, TakeChunks(g),
           FileBetween(At[g], Peer[At[g]]), ~ConnectionClosing(At[g])
    PROVE  ReadOn(g)
<1>. DEFINE f == At[g]
            r == reader[g]
            q == readSeq[f]
            buf == recvBuf[f]
            n == Readable(f, r.need)
            x == SubSeq(buf, 1, n)
            rest == From(buf, n + 1)
            got == r.got \o x
            s == [r EXCEPT !.got = got, !.need = r.need - n]
            ps == PartStart(r)
<1>0. /\ f \in Ends /\ r \in Reader /\ reader \in [Readers -> Reader] /\ q \in Nat
      /\ recvBuf \in [Ends -> Seq(Chunks)] /\ buf \in Seq(Chunks) /\ Len(buf) \in Nat
      /\ FrameLen \in Nat /\ HeaderLen \in Nat \ {0} /\ HeaderLen < FrameLen
      /\ r.got \in Seq(Chunks) /\ Len(r.got) \in Nat /\ r.need \in Nat /\ Typed
  BY RecordAssumption, LenProperties DEF RecordInv, TypeOK, TCPTypeOK, Typed, Reader
<1>1. r.pc = "wait" /\ VReadTake(f, r.need) /\ readSeq' = readSeq
  BY DEF TakeChunks
<1>2. /\ Len(r.got) + r.need = PartLen(r) /\ InPlaceFrom(r.got, Base(q) + ps)
      /\ InPlaceFrom(buf, ReadFrom(g)) /\ ReadFrom(g) = Base(q) + (ps + Len(r.got))
  <2>1. FramingInv(g) /\ InRecord(r)
    BY <1>1 DEF FileInv, InRecord
  <2>. QED  BY <2>1 DEF FramingInv, ReaderOK, ReadFrom, Offset
<1>3. n \in 1 .. r.need /\ n \in 0 .. Len(buf)
  <2>1. n \in 1 .. r.need
    BY <1>0, <1>1, ReadTakeTyped
  <2>. QED  BY <1>0, <2>1 DEF Readable, Least
<1>4. recvBuf'[f] = rest
  BY <1>0, <1>1 DEF VReadTake
<1>5. x \in Seq(Chunks) /\ Len(x) = n /\ rest \in Seq(Chunks) /\ Len(rest) = Len(buf) - n
  <2>1. buf \in Seq(Chunks) /\ n \in 0 .. Len(buf)
    BY <1>0, <1>3
  <2>. HIDE DEF buf, n
  <2>. QED  BY <2>1, CutInTwo
<1>6. ps \in Nat /\ Base(q) \in Nat /\ ps + PartLen(r) <= FrameLen /\ PartLen(r) \in Nat
  <2>1. Base(q) \in Nat
    <3>. HIDE DEF q
    <3>. QED  BY <1>0, BaseFacts
  <2>. QED  BY <1>0, <2>1 DEF PartStart, PartLen
<1>7. InPlaceFrom(x, ReadFrom(g)) /\ InPlaceFrom(rest, ReadFrom(g) + n)
  <2>1. ReadFrom(g) \in Nat
    BY ReadFromNat
  <2>. HIDE DEF buf, n
  <2>. QED  BY <1>0, <1>2, <1>3, <2>1, PlacesCut
<1>8. got \in Seq(Chunks) /\ Len(got) = Len(r.got) + n /\ InPlaceFrom(got, Base(q) + ps)
  <2>. DEFINE p == r.got
              pos == Base(q) + ps
  <2>1. p \in Seq(Chunks) /\ pos \in Nat /\ InPlaceFrom(p, pos)
    BY <1>0, <1>2, <1>6
  <2>0. pos + Len(p) = ReadFrom(g)
    <3>. HIDE DEF ps, q
    <3>. QED  BY <1>0, <1>2, <1>6
  <2>3. InPlaceFrom(x, pos + Len(p))
    BY <1>7, <2>0
  <2>. HIDE DEF p, pos, x
  <2>2. p \o x \in Seq(Chunks) /\ Len(p \o x) = Len(p) + Len(x) /\ InPlaceFrom(p \o x, pos)
    BY <1>5, <2>1, <2>3, PlacesJoin
  <2>. QED  BY <1>5, <2>2 DEF p, pos
<1>9. PICK after \in (IF s.need = 0 THEN AfterReadFull(s) ELSE {[s EXCEPT !.pc = "call"]}) :
         reader' = [reader EXCEPT ![g] = after]
  BY DEF TakeChunks
<1>10. /\ s.got = got /\ s.need = r.need - n /\ s.part = r.part /\ s \in Reader
       /\ PartStart(s) = ps /\ PartLen(s) = PartLen(r)
  <2>1. r.need - n \in Nat
    BY <1>0, <1>3
  <2>2. s.got = got /\ s.need = r.need - n /\ s.part = r.part
    BY <1>0 DEF Reader
  <2>. HIDE DEF got, n
  <2>. QED  BY <1>0, <1>8, <2>1, <2>2 DEF Reader, PartStart, PartLen
<1>. HIDE DEF n, x, rest, got, s, ps, buf
<1>11. reader'[g] = after
  BY <1>0, <1>9
<1>12. /\ ReaderOK(after)
       /\ InRecord(after) /\ InPlaceFrom(after.got, Base(q) + PartStart(after))
       /\ Offset(after) = ps + Len(r.got) + n
  <2>1. CASE s.need # 0
    <3>1. after = [s EXCEPT !.pc = "call"]
      BY <1>9, <2>1
    <3>2. after.pc = "call" /\ after.got = got /\ after.need = r.need - n /\ after.part = r.part
      BY <1>10, <3>1 DEF Reader
    <3>3. PartStart(after) = ps /\ PartLen(after) = PartLen(r)
      BY <3>2 DEF PartStart, PartLen, ps
    <3>4. Len(got) + (r.need - n) = PartLen(r) /\ r.need - n > 0
      <4>. DEFINE need == r.need
                  l == Len(r.got)
                  pl == PartLen(r)
      <4>1. /\ need \in Nat /\ l \in Nat /\ l + need = pl /\ n \in 1 .. need
            /\ Len(got) = l + n /\ need - n # 0
        BY <1>0, <1>2, <1>3, <1>8, <1>10, <2>1
      <4>. HIDE DEF need, l, pl
      <4>2. Len(got) + (need - n) = pl /\ need - n > 0
        BY <4>1
      <4>. QED  BY <4>2 DEF need, l, pl
    <3>5. ReaderOK(after)
      BY <3>2, <3>3, <3>4 DEF ReaderOK
    <3>6. Offset(after) = ps + Len(got)
      BY <3>2, <3>3 DEF Offset, InRecord
    <3>7. Offset(after) = ps + Len(r.got) + n
      BY <1>0, <1>3, <1>6, <1>8, <3>6
    <3>. QED  BY <1>8, <3>2, <3>3, <3>5, <3>7 DEF InRecord
  <2>2. CASE s.need = 0 /\ r.part = "record"
    <3>1. after = [s EXCEPT !.pc = "open"]
      BY <1>9, <1>10, <2>2 DEF AfterReadFull
    <3>2. after.pc = "open" /\ after.got = got /\ after.need = 0 /\ after.part = "record"
      BY <1>10, <2>2, <3>1 DEF Reader
    <3>3. PartStart(after) = ps /\ PartLen(after) = PartLen(r)
      BY <2>2, <3>2 DEF PartStart, PartLen, ps
    <3>4. ReaderOK(after)
      BY <1>0, <1>2, <1>3, <1>8, <1>10, <2>2, <3>2, <3>3 DEF ReaderOK, InRecord
    <3>5. Offset(after) = ps + Len(r.got) + n
      BY <1>0, <1>3, <1>6, <1>8, <3>2, <3>3, SMTT(30) DEF Offset, InRecord
    <3>. QED  BY <1>8, <3>2, <3>3, <3>4, <3>5 DEF InRecord
  <2>3. CASE s.need = 0 /\ r.part # "record"
    <3>1. r.part = "length" /\ s.part = "length" /\ ps = 0 /\ PartLen(r) = HeaderLen
      BY <1>0, <1>10, <2>3 DEF PartStart, PartLen, Reader, ps
    <3>2. Len(got) = HeaderLen
      BY <1>0, <1>2, <1>3, <1>8, <1>10, <2>3, <3>1
    <3>3. \A k \in 1 .. HeaderLen : got[k] = <<q + 1, 0 + k>>
      <4>. HIDE DEF q
      <4>1. InPlaceFrom(got, Base(q) + 0) /\ 0 + Len(got) <= FrameLen /\ 0 \in Nat
        BY <1>0, <1>8, <3>1, <3>2
      <4>2. \A k \in 1 .. Len(got) : got[k] = <<q + 1, 0 + k>>
        BY <1>0, <1>8, <4>1, ChunksOfRecord, ZenonT(30)
      <4>. QED  BY <3>2, <4>2
    <3>4. got = LengthField(q + 1) /\ got[1][1] = q + 1
      <4>. HIDE DEF q
      <4>1. q + 1 \in Nat \ {0}
        BY <1>0
      <4>. DEFINE d == LengthField(q + 1)
      <4>2. d \in Seq(Chunks) /\ Len(d) = HeaderLen /\ \A k \in 1 .. HeaderLen : d[k] = <<q + 1, k>>
        BY <4>1, FrameChunks
      <4>. HIDE DEF d
      <4>3. \A k \in 1 .. HeaderLen : got[k] = d[k]
        <5>1. \A k \in 1 .. HeaderLen : 0 + k = k
          BY <1>0
        <5>. QED  BY <3>3, <4>2, <5>1
      <4>4. got = d
        BY <1>8, <3>2, <4>2, <4>3, SeqEqual
      <4>5. 1 \in 1 .. HeaderLen
        BY <1>0
      <4>. QED  BY <3>3, <4>4, <4>5 DEF d
    <3>5. after = [s EXCEPT !.pc = "call", !.part = "record", !.got = <<>>, !.need = recordLen]
      BY <1>9, <1>10, <2>3, <3>1, <3>4 DEF AfterReadFull
    <3>6. after.pc = "call" /\ after.got = <<>> /\ after.need = recordLen /\ after.part = "record"
      BY <1>10, <3>5 DEF Reader
    <3>7. Len(after.got) = 0 /\ PartStart(after) = HeaderLen /\ PartLen(after) = FrameLen - HeaderLen
      BY <3>6, EmptySeq DEF PartStart, PartLen
    <3>8. ReaderOK(after)
      BY <1>0, <3>6, <3>7 DEF ReaderOK, InRecord, recordLen
    <3>9. InPlaceFrom(after.got, Base(q) + PartStart(after))
      BY <3>7 DEF InPlaceFrom
    <3>10. Offset(after) = ps + Len(r.got) + n
      BY <1>0, <1>3, <1>8, <3>1, <3>2, <3>6, <3>7 DEF Offset, InRecord
    <3>. QED  BY <3>6, <3>8, <3>9, <3>10 DEF InRecord
  <2>. QED  BY <2>1, <2>2, <2>3
<1>13. ReadFrom(g)' = ReadFrom(g) + n
  <2>1. ReadFrom(g)' = Base(q) + Offset(after)
    BY <1>1, <1>11 DEF ReadFrom
  <2>. QED  BY <1>0, <1>2, <1>3, <1>6, <1>12, <2>1
<1>14. ReadFrom(g)' + Len(recvBuf'[f]) = ReadFrom(g) + Len(buf)
  BY <1>0, <1>3, <1>4, <1>5, <1>13, ReadFromNat
<1>. QED  BY <1>1, <1>4, <1>7, <1>11, <1>12, <1>13, <1>14 DEF ReadOn, buf

LEMMA ReaderReadsOn ==
    ASSUME RecordInv, FileInv, NEW g \in Readers, VTLSRead(g) \/ DestFails(g),
           FileBetween(At[g], Peer[At[g]]), ~ConnectionClosing(At[g])
    PROVE  ReadOn(g)
<1>. DEFINE f == At[g]
            r == reader[g]
            q == readSeq[f]
<1>0. /\ f \in Ends /\ r \in Reader /\ reader \in [Readers -> Reader] /\ q \in Nat
      /\ readSeq \in [Ends -> Nat]
      /\ FrameLen \in Nat /\ HeaderLen \in Nat \ {0} /\ HeaderLen < FrameLen
  BY RecordAssumption DEF RecordInv, TypeOK
<1>1. /\ ReaderOK(r) /\ (InRecord(r) => InPlaceFrom(r.got, Base(q) + PartStart(r)))
      /\ InPlaceFrom(recvBuf[f], ReadFrom(g))
  BY DEF FileInv, FramingInv
<1>2. CASE StartRead(g) \/ ReadLeftover(g) \/ DestFails(g)
  <2>1. UNCHANGED <<recvBuf, readSeq>> /\ r.pc \in {"idle", "begin"}
    BY <1>2 DEF StartRead, ReadLeftover, DestFails, tcpVars
  <2>2. PICK pc \in {"begin", "idle", "fileError"} : reader' = [reader EXCEPT ![g].pc = pc]
    BY <1>2 DEF StartRead, ReadLeftover, DestFails
  <2>3. reader'[g].pc = pc
    BY <1>0, <2>2 DEF Reader
  <2>4. ReaderOK(reader'[g]) /\ ~InRecord(reader'[g]) /\ Offset(reader'[g]) = 0 /\ Offset(r) = 0
    BY <2>1, <2>3 DEF ReaderOK, InRecord, Offset
  <2>5. ReadFrom(g)' = ReadFrom(g)
    BY <2>1, <2>4 DEF ReadFrom
  <2>. QED  BY <1>1, <2>1, <2>4, <2>5 DEF ReadOn
<1>3. CASE ReadLength(g)
  <2>1. UNCHANGED <<recvBuf, readSeq>> /\ r.pc = "begin"
        /\ reader' = [reader EXCEPT ![g].pc = "call", ![g].part = "length", ![g].got = <<>>,
                                    ![g].need = HeaderLen]
    BY <1>3 DEF ReadLength, tcpVars
  <2>2. reader'[g].pc = "call" /\ reader'[g].part = "length" /\ reader'[g].got = <<>>
        /\ reader'[g].need = HeaderLen
    BY <1>0, <2>1 DEF Reader
  <2>3. Len(reader'[g].got) = 0
    BY <2>2, EmptySeq
  <2>4. ReaderOK(reader'[g])
    BY <1>0, <2>2, <2>3 DEF ReaderOK, InRecord, PartLen
  <2>5. InPlaceFrom(reader'[g].got, Base(readSeq'[f]) + PartStart(reader'[g]))
    BY <2>3 DEF InPlaceFrom
  <2>6. Offset(r) = 0 /\ Offset(reader'[g]) = 0
    BY <2>1, <2>2, <2>3 DEF Offset, InRecord, PartStart
  <2>7. ReadFrom(g)' = ReadFrom(g)
    BY <2>1, <2>6 DEF ReadFrom
  <2>. QED  BY <1>1, <2>1, <2>4, <2>5, <2>7 DEF ReadOn
<1>4. CASE CallVRead(g)
  <2>1. UNCHANGED <<recvBuf, readSeq>> /\ r.pc = "call"
        /\ reader' = [reader EXCEPT ![g].pc = "wait"]
    BY <1>4 DEF CallVRead, tcpVars
  <2>2. reader'[g].pc = "wait" /\ reader'[g].part = r.part /\ reader'[g].got = r.got
        /\ reader'[g].need = r.need
    BY <1>0, <2>1 DEF Reader
  <2>3. PartStart(reader'[g]) = PartStart(r) /\ PartLen(reader'[g]) = PartLen(r)
    BY <2>2 DEF PartStart, PartLen
  <2>4. ReaderOK(reader'[g]) /\ Offset(reader'[g]) = Offset(r)
    BY <1>1, <2>1, <2>2, <2>3 DEF ReaderOK, InRecord, Offset
  <2>5. ReadFrom(g)' = ReadFrom(g)
    BY <2>1, <2>4 DEF ReadFrom
  <2>. QED  BY <1>1, <2>1, <2>2, <2>3, <2>4, <2>5 DEF ReadOn, InRecord
<1>5. CASE TakeChunks(g)
  BY <1>5, TakeReadsOn
<1>6. CASE ReadEOF(g)
  <2>1. UNCHANGED <<recvBuf, readSeq>> /\ reader' = [reader EXCEPT ![g].pc = "eof"]
    BY <1>6 DEF ReadEOF, tcpVars
  <2>2. reader'[g].pc = "eof"
    BY <1>0, <2>1 DEF Reader
  <2>3. ReaderOK(reader'[g]) /\ ~InRecord(reader'[g]) /\ Offset(reader'[g]) = 0
    BY <2>2 DEF ReaderOK, InRecord, Offset
  <2>4. Offset(r) = 0
    BY <1>6, EOFIsBetweenRecords
  <2>5. ReadFrom(g)' = ReadFrom(g)
    BY <2>1, <2>3, <2>4 DEF ReadFrom
  <2>. QED  BY <1>1, <2>1, <2>3, <2>5 DEF ReadOn
<1>7. CASE OpenData(g)
  <2>1. UNCHANGED recvBuf /\ r.pc = "open"
    BY <1>7 DEF OpenData, tcpVars
  <2>2. Opens(f, r.got, r.got[1][1]) /\ Offset(r) = FrameLen
    BY <2>1, WholeRecordOpens
  <2>3. readSeq' = [readSeq EXCEPT ![f] = readSeq[f] + 1] /\ reader' = [reader EXCEPT ![g].pc = "idle"]
    BY <1>7, <2>2 DEF OpenData
  <2>4. readSeq'[f] = q + 1 /\ reader'[g].pc = "idle"
    BY <1>0, <2>3 DEF Reader
  <2>5. ReaderOK(reader'[g]) /\ ~InRecord(reader'[g]) /\ Offset(reader'[g]) = 0
    BY <2>4 DEF ReaderOK, InRecord, Offset
  <2>6. Base(q) \in Nat /\ Base(q + 1) = Base(q) + FrameLen
    <3>. HIDE DEF q
    <3>. QED  BY <1>0, BaseFacts
  <2>7. ReadFrom(g)' = Base(q + 1) + 0 /\ ReadFrom(g) = Base(q) + FrameLen
    BY <2>2, <2>4, <2>5 DEF ReadFrom
  <2>8. ReadFrom(g)' = ReadFrom(g)
    BY <1>0, <2>6, <2>7
  <2>. QED  BY <1>1, <2>1, <2>5, <2>8 DEF ReadOn
<1>. QED  BY <1>2, <1>3, <1>4, <1>5, <1>6, <1>7 DEF VTLSRead

LEMMA ReaderKeepsFiles ==
    ASSUME RecordInv, FileInv, NEW h \in Readers, VTLSRead(h) \/ DestFails(h)
    PROVE  FileInv'
<1>0. /\ At[h] \in Ends /\ reader \in [Readers -> Reader] /\ recvBuf \in [Ends -> Seq(Chunks)]
      /\ readSeq \in [Ends -> Nat] /\ returned \in [Ends -> Seq(Nat)]
  BY RecordAssumption DEF RecordInv, TypeOK, TCPTypeOK
<1>1. UNCHANGED <<state, fin, sendBuf, sender, sealed, closer, writeSeq>>
  BY DEF VTLSRead, StartRead, ReadLeftover, ReadLength, CallVRead, TakeChunks, VReadTake, ReadEOF, OpenData,
         DestFails, tcpVars
<1>2. ASSUME NEW g \in Readers, At[g] \notin ReplEnds, g # h
      PROVE  /\ At[g] \in Ends /\ reader'[g] = reader[g] /\ recvBuf'[At[g]] = recvBuf[At[g]]
             /\ readSeq'[At[g]] = readSeq[At[g]] /\ returned'[At[g]] = returned[At[g]]
  <2>1. At[g] # At[h] /\ At[g] \in Ends
    BY <1>2, FileGoroutines, RecordAssumption DEF SoleReader
  <2>2. reader'[g] = reader[g]
    BY <1>0, <1>2 DEF VTLSRead, StartRead, ReadLeftover, ReadLength, CallVRead, TakeChunks, ReadEOF, OpenData,
         DestFails
  <2>3. recvBuf'[At[g]] = recvBuf[At[g]]
    BY <1>0, <2>1 DEF VTLSRead, StartRead, ReadLeftover, ReadLength, CallVRead, TakeChunks, VReadTake, ReadEOF,
         OpenData, DestFails, tcpVars
  <2>4. readSeq'[At[g]] = readSeq[At[g]]
    BY <1>0, <2>1 DEF VTLSRead, StartRead, ReadLeftover, ReadLength, CallVRead, TakeChunks, ReadEOF, OpenData,
         DestFails
  <2>5. returned'[At[g]] = returned[At[g]]
    BY <1>0, <2>1 DEF VTLSRead, StartRead, ReadLeftover, ReadLength, CallVRead, TakeChunks, ReadEOF, OpenData,
         DestFails
  <2>. QED  BY <2>1, <2>2, <2>3, <2>4, <2>5
<1>3. ASSUME NEW e \in Ends
      PROVE  ClosingInv(e)'
  BY <1>1 DEF FileInv, ClosingInv, ConnectionClosing
<1>4. ASSUME NEW g \in Senders, At[g] \notin ReplEnds
      PROVE  PipeInv(g)' /\ WritingInv(g)'
  BY <1>1, <1>4 DEF FileInv, PipeInv, WritingInv
<1>5. ASSUME NEW g \in Readers
      PROVE  FramingInv(g)'
  <2>. DEFINE f == At[g]
              e == Peer[f]
  <2>1. /\ f \in Ends /\ e \in Ends /\ ReadFrom(g) \in Nat /\ Len(recvBuf[f]) \in Nat
        /\ Len(sendBuf[e]) \in Nat
    BY RecordAssumption, ServiceAssumption, LenProperties, ReadFromNat
       DEF RecordInv, TypeOK, TCPTypeOK
  <2>. SUFFICES ASSUME FileBetween(f, e), ~ConnectionClosing(f)
                PROVE  FramingInv(g)'
    BY <1>1 DEF FramingInv, ConnectionClosing
  <2>2. FramingInv(g)
    BY DEF FileInv
  <2>3. ReadOn(g)
    <3>1. CASE g = h
      BY <3>1, ReaderReadsOn
    <3>2. CASE g # h
      <4>1. /\ reader'[g] = reader[g] /\ recvBuf'[f] = recvBuf[f] /\ readSeq'[f] = readSeq[f]
            /\ ReadFrom(g)' = ReadFrom(g)
        BY <1>2, <3>2 DEF ReadFrom, FileBetween
      <4>. QED  BY <2>2, <4>1 DEF ReadOn, FramingInv
    <3>. QED  BY <3>1, <3>2
  <2>4. ReadFrom(g)' + Len(recvBuf'[f]) = ReadFrom(g) + Len(recvBuf[f])
    BY <2>3 DEF ReadOn
  <2>5. StreamEnd(g)' = StreamEnd(g)
    BY <1>1, <2>4 DEF StreamEnd
  <2>6. InPlaceFrom(sendBuf'[e], ReadFrom(g)' + Len(recvBuf'[f]))
    BY <1>1, <2>2, <2>4 DEF FramingInv
  <2>7. \A s \in Senders : At[s] = e => SentBy(s)' = StreamEnd(g)'
    BY <1>1, <2>2, <2>5 DEF FramingInv, SentBy
  <2>8. (\A s \in Senders : At[s] # e) => StreamEnd(g)' = Base(Len(sealed'[e]))
    BY <1>1, <2>2, <2>5 DEF FramingInv
  <2>. QED  BY <2>3, <2>6, <2>7, <2>8 DEF ReadOn, FramingInv
<1>6. EOFMeansWhole'
  <2>. SUFFICES ASSUME NEW g \in Readers, reader'[g].pc = "eof",
                         FileBetween(At[g], Peer[At[g]])
                PROVE  /\ Len(returned'[At[g]]) = PlainLen * Len(sealed[Peer[At[g]]])
                       /\ \A s \in Senders : At[s] = Peer[At[g]] => Ended(sender[s])
    BY <1>1 DEF EOFMeansWhole, FileBetween, Ended
  <2>1. CASE g # h
    <3>1. reader'[g] = reader[g] /\ returned'[At[g]] = returned[At[g]]
      BY <1>2, <2>1 DEF FileBetween
    <3>. QED  BY <3>1 DEF FileInv, EOFMeansWhole, FileBetween, Ended
  <2>2. CASE g = h
    <3>1. CASE ReadEOF(h)
      <4>1. UNCHANGED returned
        BY <3>1 DEF ReadEOF
      <4>. QED  BY <2>2, <3>1, <4>1, EOFIsBetweenRecords
    <3>2. CASE StartRead(h) \/ ReadLength(h) \/ CallVRead(h) \/ OpenData(h)
      <4>1. reader'[h].pc # "eof"
        <5>1. CASE StartRead(h) \/ ReadLength(h) \/ CallVRead(h)
          BY <1>0, <5>1 DEF StartRead, ReadLength, CallVRead, Reader
        <5>2. CASE OpenData(h)
          <6>1. \/ reader' = [reader EXCEPT ![h].pc = "idle"]
                \/ reader' = [reader EXCEPT ![h].pc = "error"]
            BY <5>2 DEF OpenData
          <6>. QED  BY <1>0, <6>1 DEF Reader
        <5>. QED  BY <3>2, <5>1, <5>2
      <4>. QED  BY <2>2, <4>1
    <3>3. CASE ReadLeftover(h) \/ DestFails(h)
      <4>1. reader'[h].pc \in {"idle", "fileError"}
        BY <1>0, <3>3 DEF ReadLeftover, DestFails, Reader
      <4>. QED  BY <2>2, <4>1
    <3>4. CASE TakeChunks(h)
      <4>. DEFINE r == [reader[h] EXCEPT
                          !.got = @ \o SubSeq(recvBuf[At[h]], 1, Readable(At[h], reader[h].need)),
                          !.need = @ - Readable(At[h], reader[h].need)]
      <4>1. PICK after \in (IF r.need = 0 THEN AfterReadFull(r) ELSE {[r EXCEPT !.pc = "call"]}) :
               reader' = [reader EXCEPT ![h] = after]
        BY <3>4 DEF TakeChunks
      <4>2. DOMAIN r = DOMAIN reader[h] /\ "pc" \in DOMAIN reader[h]
        BY <1>0 DEF Reader
      <4>. HIDE DEF r
      <4>3. after.pc # "eof"
        <5>1. CASE r.need # 0
          BY <4>1, <4>2, <5>1
        <5>2. CASE r.need = 0
          <6>1. after \in AfterReadFull(r)
            BY <4>1, <5>2
          <6>2. after.pc \in {"open", "call", "error"}
            BY <4>2, <6>1 DEF AfterReadFull
          <6>. QED  BY <6>2
        <5>. QED  BY <5>1, <5>2
      <4>4. reader'[h] = after
        BY <1>0, <4>1
      <4>. QED  BY <2>2, <4>3, <4>4
    <3>. QED  BY <3>1, <3>2, <3>3, <3>4 DEF VTLSRead
  <2>. QED  BY <2>1, <2>2
<1>7. \A e \in Ends : (\A g \in Senders : At[g] # e) => sealed'[e] = <<>>
  BY <1>1 DEF FileInv
<1>. QED  BY <1>3, <1>4, <1>5, <1>6, <1>7 DEF FileInv

\* VTLSClose, TCP itself and resets.
EndStep(d) == VTLSClose(d) \/ Connection(d) \/ TearDown(d)

LEMMA EndStepFacts ==
    ASSUME RecordInv, NEW d \in Ends, EndStep(d)
    PROVE  /\ UNCHANGED <<sender, sealed, writeSeq, reader, readSeq, returned>>
           /\ \A e \in Ends : /\ ConnectionClosing(e) => ConnectionClosing(e)'
                              /\ fin[e] # "none" => fin'[e] # "none"
                              /\ state'[Peer[e]] = "CLOSE_WAIT" =>
                                    state[Peer[e]] = "CLOSE_WAIT" \/ fin'[e] # "none"
                              /\ \/ closer'[e] = closer[e]
                                 \/ CallVClose(e) \/ (closer[e] = "waiting" /\ closer'[e] = "closed")
                              /\ (fin[e] = "none" /\ fin'[e] # "none") => SendFin(e)
                              /\ \/ sendBuf'[e] = sendBuf[e] /\ recvBuf'[Peer[e]] = recvBuf[Peer[e]]
                                 \/ Deliver(e) \/ LoseBehindFin(e)
<1>0. /\ state \in [Ends -> {"ESTABLISHED", "CLOSE_WAIT", "FIN_WAIT", "CLOSED"}]
      /\ fin \in [Ends -> {"none", "sent", "taken", "void"}]
      /\ closer \in [Ends -> {"open", "waiting", "closed", "refused"}]
      /\ sendBuf \in [Ends -> Seq(Chunks)] /\ recvBuf \in [Ends -> Seq(Chunks)]
      /\ \A e \in Ends : Peer[e] \in Ends /\ Peer[e] # e /\ Peer[Peer[e]] = e
  BY ServiceAssumption DEF RecordInv, TypeOK, TCPTypeOK
<1>1. CASE CallVClose(d)
  <2>1. UNCHANGED <<state, sendBuf, recvBuf, fin, sender, sealed, writeSeq, reader, readSeq, returned>>
    BY <1>1 DEF CallVClose, tcpVars
  <2>2. \A e \in Ends : e # d => closer'[e] = closer[e]
    BY <1>0, <1>1 DEF CallVClose
  <2>. QED  BY <1>1, <2>1, <2>2 DEF ConnectionClosing
<1>2. CASE SendFin(d)
  <2>1. /\ UNCHANGED <<sendBuf, recvBuf, sender, sealed, writeSeq, reader, readSeq, returned>>
        /\ fin' = [fin EXCEPT ![d] = "sent"] /\ closer[d] = "waiting"
        /\ closer' = [closer EXCEPT ![d] = "closed"]
        /\ state' = [state EXCEPT ![d] = IF state[d] = "ESTABLISHED" THEN "FIN_WAIT" ELSE "CLOSED"]
    BY <1>2 DEF SendFin, VCloseFin
  <2>2. \A e \in Ends : ConnectionClosing(e) => ConnectionClosing(e)'
    BY <1>0, <2>1 DEF ConnectionClosing
  <2>3. \A e \in Ends : fin'[e] = IF e = d THEN "sent" ELSE fin[e]
    BY <1>0, <2>1
  <2>4. \A e \in Ends : state'[Peer[e]] = "CLOSE_WAIT" => state[Peer[e]] = "CLOSE_WAIT"
    BY <1>0, <2>1
  <2>5. \A e \in Ends : closer'[e] = closer[e] \/ (closer[e] = "waiting" /\ closer'[e] = "closed")
    BY <1>0, <2>1
  <2>. QED  BY <1>2, <2>1, <2>2, <2>3, <2>4, <2>5
<1>3. CASE Connection(d) /\ Deliver(d)
  <2>1. /\ UNCHANGED <<sender, sealed, writeSeq, reader, readSeq, returned, closer>> /\ UNCHANGED state
        /\ recvBuf' = [recvBuf EXCEPT ![Peer[d]] = Append(recvBuf[Peer[d]], Head(sendBuf[d]))]
        /\ sendBuf' = [sendBuf EXCEPT ![d] = Tail(sendBuf[d])]
        /\ fin' = [fin EXCEPT ![d] = IF fin[d] = "sent" THEN "void" ELSE fin[d]]
    BY <1>3 DEF Connection, Deliver, tlsVars
  <2>2. \A e \in Ends : (fin[e] = "none" <=> fin'[e] = "none")
    BY <1>0, <2>1
  <2>3. \A e \in Ends : e # d => sendBuf'[e] = sendBuf[e] /\ recvBuf'[Peer[e]] = recvBuf[Peer[e]]
    BY <1>0, <2>1
  <2>. QED  BY <1>3, <2>1, <2>2, <2>3 DEF ConnectionClosing
<1>4. CASE Connection(d) /\ LoseBehindFin(d)
  <2>1. /\ UNCHANGED <<sender, sealed, writeSeq, reader, readSeq, returned, closer>>
        /\ UNCHANGED <<state, recvBuf, fin>>
        /\ sendBuf' = [sendBuf EXCEPT ![d] = Tail(sendBuf[d])]
    BY <1>4 DEF Connection, LoseBehindFin, tlsVars
  <2>2. \A e \in Ends : e # d => sendBuf'[e] = sendBuf[e]
    BY <1>0, <2>1
  <2>. QED  BY <1>4, <2>1, <2>2 DEF ConnectionClosing
<1>5. CASE Connection(d) /\ TakeFin(d)
  <2>1. /\ UNCHANGED <<sender, sealed, writeSeq, reader, readSeq, returned, closer>>
        /\ UNCHANGED <<sendBuf, recvBuf>> /\ fin[d] = "sent"
        /\ fin' = [fin EXCEPT ![d] = "taken"]
        /\ state' = [state EXCEPT ![Peer[d]] =
                        IF state[Peer[d]] = "ESTABLISHED" THEN "CLOSE_WAIT" ELSE "CLOSED"]
        /\ state[Peer[d]] \in {"ESTABLISHED", "FIN_WAIT"}
    BY <1>5 DEF Connection, TakeFin, tlsVars
  <2>2. \A e \in Ends : ConnectionClosing(e) => ConnectionClosing(e)'
    BY <1>0, <2>1 DEF ConnectionClosing
  <2>3. \A e \in Ends : (fin[e] = "none" <=> fin'[e] = "none")
    BY <1>0, <2>1
  <2>4. \A e \in Ends : state'[Peer[e]] = "CLOSE_WAIT" =>
           state[Peer[e]] = "CLOSE_WAIT" \/ fin'[e] # "none"
    <3>. SUFFICES ASSUME NEW e \in Ends
                  PROVE  state'[Peer[e]] = state[Peer[e]] \/ fin'[e] # "none"
      OBVIOUS
    <3>1. CASE e = d
      BY <1>0, <2>1, <3>1
    <3>2. CASE e # d
      <4>1. Peer[e] # Peer[d]
        BY <1>0, <3>2
      <4>. QED  BY <1>0, <2>1, <4>1
    <3>. QED  BY <3>1, <3>2
  <2>. QED  BY <2>1, <2>2, <2>3, <2>4
<1>6. CASE (Connection(d) /\ RetransmissionLimit(d)) \/ TearDown(d)
  <2>1. /\ UNCHANGED <<sender, sealed, writeSeq, reader, readSeq, returned, closer>>
        /\ UNCHANGED <<sendBuf, recvBuf, fin>>
        /\ state' = [state EXCEPT ![d] = "CLOSED"]
    BY <1>6 DEF Connection, RetransmissionLimit, TearDown, Reset, tlsVars
  <2>2. \A e \in Ends : ConnectionClosing(e) => ConnectionClosing(e)'
    BY <1>0, <2>1 DEF ConnectionClosing
  <2>3. \A e \in Ends : state'[Peer[e]] = "CLOSE_WAIT" => state[Peer[e]] = "CLOSE_WAIT"
    BY <1>0, <2>1
  <2>. QED  BY <2>1, <2>2, <2>3
<1>. QED  BY <1>1, <1>2, <1>3, <1>4, <1>5, <1>6 DEF EndStep, VTLSClose, Connection, TCPStep

LEMMA EndsKeepClosing ==
    ASSUME RecordInv, FileInv, NEW d \in Ends, EndStep(d), NEW e \in Ends
    PROVE  ClosingInv(e)'
<1>0. ClosingInv(e) /\ Peer[e] \in Ends
  BY ServiceAssumption DEF FileInv
<1>1. /\ UNCHANGED sender
      /\ ConnectionClosing(e) => ConnectionClosing(e)'
      /\ fin[e] # "none" => fin'[e] # "none"
      /\ state'[Peer[e]] = "CLOSE_WAIT" => state[Peer[e]] = "CLOSE_WAIT" \/ fin'[e] # "none"
      /\ \/ closer'[e] = closer[e]
         \/ CallVClose(e) \/ (closer[e] = "waiting" /\ closer'[e] = "closed")
      /\ (fin[e] = "none" /\ fin'[e] # "none") => SendFin(e)
      /\ sendBuf'[e] = sendBuf[e] \/ Deliver(e) \/ LoseBehindFin(e)
  BY EndStepFacts
<1>2. closer \in [Ends -> {"open", "waiting", "closed", "refused"}]
  BY DEF RecordInv, TypeOK
<1>3. state'[Peer[e]] = "CLOSE_WAIT" => fin'[e] # "none"
  BY <1>0, <1>1 DEF ClosingInv
<1>4. ASSUME e \notin ReplEnds, fin'[e] # "none"
      PROVE  closer'[e] = "closed" /\ sendBuf'[e] = <<>>
  <2>1. CASE fin[e] = "none"
    <3>1. SendFin(e)
      BY <1>1, <1>4, <2>1
    <3>. QED  BY <1>2, <3>1 DEF SendFin, VCloseFin
  <2>2. CASE fin[e] # "none"
    <3>1. closer[e] = "closed" /\ sendBuf[e] = <<>>
      BY <1>0, <1>4, <2>2 DEF ClosingInv
    <3>2. sendBuf'[e] = sendBuf[e]
      BY <1>1, <3>1 DEF Deliver, LoseBehindFin
    <3>3. closer'[e] = closer[e]
      BY <1>1, <3>1 DEF CallVClose
    <3>. QED  BY <3>1, <3>2, <3>3
  <2>. QED  BY <2>1, <2>2
<1>5. ASSUME e \notin ReplEnds, NEW g \in Senders, At[g] = e
      PROVE  /\ sender'[g].pc = "failed" => ConnectionClosing(e)'
             /\ closer'[e] \in {"waiting", "closed"} => Ended(sender'[g])
  <2>1. /\ sender[g].pc = "failed" => ConnectionClosing(e)
        /\ closer[e] \in {"waiting", "closed"} => Ended(sender[g])
    BY <1>0, <1>5 DEF ClosingInv
  <2>2. sender'[g].pc = "failed" => ConnectionClosing(e)'
    BY <1>1, <2>1
  <2>3. ASSUME closer'[e] \in {"waiting", "closed"}, CallVClose(e)
        PROVE  Ended(sender'[g])
    <3>1. SenderDone(g)
      BY <1>5, <2>3 DEF CallVClose, Finished
    <3>2. ~ConnectionClosing(e)
      BY <1>2, <2>3 DEF CallVClose
    <3>. QED  BY <1>1, <2>1, <3>1, <3>2 DEF SenderDone, Ended
  <2>. QED  BY <1>1, <2>1, <2>2, <2>3
<1>. QED  BY <1>1, <1>3, <1>4, <1>5 DEF ClosingInv

LEMMA EndsKeepFraming ==
    ASSUME RecordInv, FileInv, NEW d \in Ends, EndStep(d), NEW g \in Readers
    PROVE  FramingInv(g)'
<1>. DEFINE f == At[g]
            e == Peer[f]
            p == sendBuf[e]
            buf == recvBuf[f]
            pos == ReadFrom(g)
<1>0. /\ f \in Ends /\ e \in Ends /\ Peer[e] = f /\ e # f
      /\ p \in Seq(Chunks) /\ buf \in Seq(Chunks) /\ Len(p) \in Nat /\ Len(buf) \in Nat
      /\ sendBuf \in [Ends -> Seq(Chunks)] /\ recvBuf \in [Ends -> Seq(Chunks)]
      /\ pos \in Nat
  BY RecordAssumption, ServiceAssumption, LenProperties, ReadFromNat DEF RecordInv, TypeOK, TCPTypeOK
<1>1. /\ UNCHANGED <<sender, sealed, reader, readSeq>>
      /\ ConnectionClosing(f) => ConnectionClosing(f)'
      /\ (sendBuf'[e] = p /\ recvBuf'[f] = buf) \/ Deliver(e) \/ LoseBehindFin(e)
  BY <1>0, EndStepFacts
<1>2. ReadFrom(g)' = pos /\ \A s \in Senders : SentBy(s)' = SentBy(s)
  BY <1>1 DEF ReadFrom, SentBy
<1>. SUFFICES ASSUME FileBetween(f, e), ~ConnectionClosing(f)'
              PROVE  FramingInv(g)'
  BY DEF FramingInv
<1>3. FramingInv(g) /\ ~ConnectionClosing(f)
  BY <1>1 DEF FileInv
<1>4. InPlaceFrom(buf, pos) /\ InPlaceFrom(p, pos + Len(buf))
  BY <1>3 DEF FramingInv
<1>5. /\ InPlaceFrom(recvBuf'[f], pos) /\ InPlaceFrom(sendBuf'[e], pos + Len(recvBuf'[f]))
      /\ Len(recvBuf'[f]) + Len(sendBuf'[e]) = Len(buf) + Len(p)
      /\ Len(recvBuf'[f]) \in Nat /\ Len(sendBuf'[e]) \in Nat
  <2>1. CASE sendBuf'[e] = p /\ recvBuf'[f] = buf
    BY <1>0, <1>4, <2>1
  <2>2. CASE Deliver(e)
    <3>1. p # <<>> /\ recvBuf'[f] = Append(buf, Head(p)) /\ sendBuf'[e] = Tail(p)
      BY <1>0, <2>2 DEF Deliver
    <3>. HIDE DEF p, buf, pos
    <3>2. /\ Head(p) \in Chunks /\ Head(p) = p[1] /\ Tail(p) \in Seq(Chunks)
          /\ Len(Tail(p)) = Len(p) - 1 /\ \A k \in 1 .. (Len(p) - 1) : Tail(p)[k] = p[k + 1]
          /\ Len(p) > 0
      BY <1>0, <3>1, HeadTailProperties, EmptySeq
    <3>3. /\ Append(buf, Head(p)) \in Seq(Chunks) /\ Len(Append(buf, Head(p))) = Len(buf) + 1
          /\ \A k \in 1 .. Len(buf) : Append(buf, Head(p))[k] = buf[k]
          /\ Append(buf, Head(p))[Len(buf) + 1] = p[1]
      BY <1>0, <3>2, AppendProperties
    <3>. DEFINE a == Append(buf, Head(p))
                t == Tail(p)
    <3>4. Place(p[1]) = (pos + Len(buf)) + 1
      BY <1>0, <1>4, <3>2 DEF InPlaceFrom
    <3>5. ASSUME NEW k \in 1 .. Len(t)
          PROVE  Place(t[k]) = (pos + (Len(buf) + 1)) + k
      <4>1. k \in 1 .. (Len(p) - 1) /\ k + 1 \in 1 .. Len(p)
        BY <1>0, <3>2
      <4>2. t[k] = p[k + 1] /\ Place(p[k + 1]) = (pos + Len(buf)) + (k + 1)
        BY <1>4, <3>2, <4>1 DEF InPlaceFrom
      <4>. QED  BY <1>0, <4>1, <4>2
    <3>6. ASSUME NEW k \in 1 .. Len(a)
          PROVE  Place(a[k]) = pos + k
      <4>1. k \in 1 .. Len(buf) \/ k = Len(buf) + 1
        BY <1>0, <3>3
      <4>2. CASE k \in 1 .. Len(buf)
        <5>1. a[k] = buf[k] /\ Place(buf[k]) = pos + k
          BY <1>4, <3>3, <4>2 DEF InPlaceFrom
        <5>. QED  BY <5>1
      <4>3. CASE k = Len(buf) + 1
        <5>1. Place(a[k]) = (pos + Len(buf)) + 1
          BY <3>3, <3>4, <4>3
        <5>. QED  BY <1>0, <4>3, <5>1
      <4>. QED  BY <4>1, <4>2, <4>3
    <3>7. Len(a) = Len(buf) + 1 /\ Len(t) = Len(p) - 1
      BY <3>2, <3>3
    <3>. HIDE DEF a, t
    <3>8. InPlaceFrom(a, pos) /\ InPlaceFrom(t, pos + Len(a))
      BY <3>5, <3>6, <3>7 DEF InPlaceFrom
    <3>9. Len(a) + Len(t) = Len(buf) + Len(p) /\ Len(a) \in Nat /\ Len(t) \in Nat
      BY <1>0, <3>2, <3>7
    <3>. QED  BY <3>1, <3>8, <3>9 DEF a, t
  <2>3. CASE LoseBehindFin(e)
    <3>1. sendBuf[e] # <<>> /\ fin[e] = "taken"
      BY <2>3 DEF LoseBehindFin
    <3>. QED  BY <1>0, <3>1 DEF FileInv, ClosingInv, FileBetween
  <2>. QED  BY <1>1, <2>1, <2>2, <2>3
<1>6. StreamEnd(g)' = StreamEnd(g)
  <2>1. StreamEnd(g)' = pos + Len(recvBuf'[f]) + Len(sendBuf'[e])
    BY <1>2 DEF StreamEnd
  <2>2. StreamEnd(g) = pos + Len(buf) + Len(p)
    BY DEF StreamEnd
  <2>. DEFINE l == Len(buf)
              m == Len(p)
              newL == Len(recvBuf'[f])
              newM == Len(sendBuf'[e])
  <2>3. pos \in Nat /\ l \in Nat /\ m \in Nat /\ newL \in Nat /\ newM \in Nat /\ newL + newM = l + m
    BY <1>0, <1>5
  <2>4. StreamEnd(g)' = pos + newL + newM /\ StreamEnd(g) = pos + l + m
    BY <2>1, <2>2
  <2>. HIDE DEF l, m, newL, newM, pos
  <2>5. pos + newL + newM = pos + l + m
    BY <2>3
  <2>. QED  BY <2>4, <2>5
<1>7. \A s \in Senders : At[s] = e => SentBy(s)' = StreamEnd(g)'
  BY <1>2, <1>3, <1>6 DEF FramingInv
<1>8. (\A s \in Senders : At[s] # e) => StreamEnd(g)' = Base(Len(sealed'[e]))
  BY <1>1, <1>3, <1>6 DEF FramingInv
<1>9. /\ ReaderOK(reader'[g])
      /\ InRecord(reader'[g]) => InPlaceFrom(reader'[g].got, Base(readSeq'[f]) + PartStart(reader'[g]))
  BY <1>1, <1>3 DEF FramingInv
<1>10. InPlaceFrom(recvBuf'[f], ReadFrom(g)') /\ InPlaceFrom(sendBuf'[e], ReadFrom(g)' + Len(recvBuf'[f]))
  BY <1>2, <1>5
<1>. QED  BY <1>7, <1>8, <1>9, <1>10 DEF FramingInv

LEMMA EndsKeepFiles ==
    ASSUME RecordInv, FileInv, NEW d \in Ends, EndStep(d)
    PROVE  FileInv'
<1>1. UNCHANGED <<sender, sealed, writeSeq, reader, returned>>
  BY EndStepFacts
<1>2. \A e \in Ends : ClosingInv(e)'
  BY EndsKeepClosing
<1>3. \A g \in Readers : FramingInv(g)'
  BY EndsKeepFraming
<1>4. \A g \in Senders : At[g] \notin ReplEnds => PipeInv(g)' /\ WritingInv(g)'
  BY <1>1 DEF FileInv, PipeInv, WritingInv
<1>5. EOFMeansWhole'
  BY <1>1 DEF FileInv, EOFMeansWhole
<1>. QED  BY <1>1, <1>2, <1>3, <1>4, <1>5 DEF FileInv

LEMMA InitFiles == RecordInv /\ Init => FileInv
<1>. SUFFICES ASSUME RecordInv, Init
              PROVE  FileInv
  OBVIOUS
<1>0. /\ \A e \in Ends : Peer[e] \in Ends
      /\ \A g \in Senders \cup Readers : At[g] \in Ends
      /\ PlainLen \in Nat /\ FrameLen \in Nat /\ HeaderLen \in Nat
      /\ \A g \in Senders : Records[g] \in Nat
  BY RecordAssumption, ServiceAssumption
<1>1. \A e \in Ends : /\ state[e] = "ESTABLISHED" /\ sendBuf[e] = <<>> /\ recvBuf[e] = <<>>
                      /\ fin[e] = "none" /\ closer[e] = "open" /\ sealed[e] = <<>>
                      /\ readSeq[e] = 0 /\ writeSeq[e] = 0
  BY DEF Init, TCPInit
<1>2. /\ \A g \in Senders : sender[g].pc = "idle" /\ sender[g].left = Records[g]
      /\ \A g \in Readers : reader[g].pc = "idle"
  BY DEF Init
<1>3. \A e \in Ends : ClosingInv(e)
  BY <1>0, <1>1, <1>2 DEF ClosingInv
<1>4. ASSUME NEW g \in Senders
      PROVE  PipeInv(g) /\ WritingInv(g)
  BY <1>0, <1>1, <1>2, EmptySeq DEF PipeInv, WritingInv, Writing
<1>5. ASSUME NEW g \in Readers
      PROVE  FramingInv(g)
  <2>. DEFINE f == At[g]
              e == Peer[f]
  <2>1. f \in Ends /\ e \in Ends
    BY <1>0
  <2>2. recvBuf[f] = <<>> /\ sendBuf[e] = <<>> /\ sealed[e] = <<>> /\ readSeq[f] = 0
    BY <1>1, <2>1
  <2>3. Len(recvBuf[f]) = 0 /\ Len(sendBuf[e]) = 0 /\ Len(sealed[e]) = 0
    BY <2>2, EmptySeq
  <2>4. Base(0) = 0
    BY BaseFacts
  <2>5. ~InRecord(reader[g]) /\ Offset(reader[g]) = 0 /\ ReaderOK(reader[g])
    BY <1>2 DEF InRecord, Offset, ReaderOK
  <2>6. ReadFrom(g) = 0
    BY <2>2, <2>4, <2>5 DEF ReadFrom
  <2>7. StreamEnd(g) = 0
    BY <2>3, <2>6 DEF StreamEnd
  <2>8. \A s \in Senders : At[s] = e => SentBy(s) = 0
    BY <1>2, <2>3, <2>4 DEF SentBy, Writing
  <2>9. InPlaceFrom(recvBuf[f], ReadFrom(g)) /\ InPlaceFrom(sendBuf[e], ReadFrom(g) + Len(recvBuf[f]))
    BY <2>3 DEF InPlaceFrom
  <2>. QED  BY <2>3, <2>4, <2>5, <2>7, <2>8, <2>9 DEF FramingInv
<1>6. EOFMeansWhole
  BY <1>2 DEF EOFMeansWhole
<1>. QED  BY <1>1, <1>3, <1>4, <1>5, <1>6 DEF FileInv

LEMMA StutterFiles == FileInv /\ UNCHANGED vars => FileInv'
<1>. SUFFICES ASSUME FileInv, UNCHANGED vars
              PROVE  FileInv'
  OBVIOUS
<1>1. UNCHANGED <<state, sendBuf, recvBuf, fin, writeSeq, readSeq, sender, reader, closer, sealed, returned>>
  BY DEF vars, tcpVars, tlsVars
<1>2. \A e \in Ends : ClosingInv(e)'
  BY <1>1 DEF FileInv, ClosingInv, ConnectionClosing
<1>3. \A g \in Senders : At[g] \notin ReplEnds => PipeInv(g)' /\ WritingInv(g)'
  BY <1>1 DEF FileInv, PipeInv, WritingInv
<1>4. \A g \in Readers : FramingInv(g)'
  BY <1>1 DEF FileInv, FramingInv, ConnectionClosing, StreamEnd, ReadFrom, SentBy
<1>5. EOFMeansWhole'
  BY <1>1 DEF FileInv, EOFMeansWhole
<1>. QED  BY <1>1, <1>2, <1>3, <1>4, <1>5 DEF FileInv

LEMMA NextFiles == RecordInv /\ FileInv /\ [Next]_vars => FileInv'
<1>. SUFFICES ASSUME RecordInv, FileInv, [Next]_vars
              PROVE  FileInv'
  OBVIOUS
<1>1. CASE \E g \in Senders : VTLSWrite(g) \/ SourceFails(g)
  BY <1>1, WriterKeepsFiles
<1>2. CASE \E g \in Readers : VTLSRead(g) \/ DestFails(g)
  BY <1>2, ReaderKeepsFiles
<1>3. CASE \E e \in Ends : VTLSClose(e) \/ Connection(e) \/ TearDown(e)
  BY <1>3, EndsKeepFiles DEF EndStep
<1>4. CASE UNCHANGED vars
  BY <1>4, StutterFiles
<1>. QED  BY <1>1, <1>2, <1>3, <1>4 DEF Next

\* When VTLSRead returns io.EOF to tlsrf, every byte that tlssf has read from its
\* file has been sealed, sent and returned, although ReadFull passes the io.EOF of
\* VRead on from the middle of a record as well, and tlssf goes on no more: no reset,
\* no refused VWrite and no close ends in io.EOF, only the end or an error of the
\* file that is sent.
THEOREM EndOfFileIsWhole == Spec => []EOFMeansWhole
<1>1. RecordInv /\ Init => FileInv
  BY InitFiles
<1>2. RecordInv /\ FileInv /\ [Next]_vars => FileInv'
  BY NextFiles
<1>3. FileInv => EOFMeansWhole
  BY DEF FileInv
<1>. QED  BY <1>1, <1>2, <1>3, RecordInvariant, PTL DEF Spec

=============================================================================
