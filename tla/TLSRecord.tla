----------------------------- MODULE TLSRecord -----------------------------
(***************************************************************************)
(* The record layer of pkg/tlsStack, from the end of the handshake: the    *)
(* keys of the two ends are crossed and the sequence numbers are 0.        *)
(*                                                                         *)
(* The application is the commands of tlsRepl.go.  A sender is a goroutine *)
(* in tlss or tlssf, a reader one in tlsr or tlsrf, and a closer is tlscl  *)
(* or the deferred VTLSClose of the file commands.  An end that tlssf or   *)
(* tlsrf works at has that goroutine only; at one that is in tlsConnMap    *)
(* there may be several senders and several readers at once, and nothing   *)
(* guards the VTLSConn.  What calls of VTLSRead that overlap leave of its  *)
(* fields is not cut finer than at their calls of VRead, and nothing is    *)
(* claimed of what an end returns after that.  A goroutine of tlsr ends    *)
(* when VTLSRead fails; the tlsr that is entered then is another reader.   *)
(*                                                                         *)
(* The record that was sealed as the i-th at an end is record i.  On the   *)
(* wire it is the chunks <<i, 1>> .. <<i, FrameLen>>, of which the first   *)
(* HeaderLen are the length field.  Its plaintext is PlainLen bytes, which *)
(* are numbered through the stream.  GCM opens a record if and only if it  *)
(* is whole and was sealed with the nonce that the reader expects.         *)
(***************************************************************************)
EXTENDS TCPService, FiniteSets

CONSTANTS
    Senders,      \* goroutines that call VTLSWrite
    Readers,      \* goroutines that call VTLSRead
    At,           \* the end of the connection that each works at
    Records,      \* how many records each sender writes
    HeaderLen,    \* chunks of the length field
    FrameLen,     \* chunks of a record with its length field
    PlainLen,     \* bytes of plaintext in a record
    ReadSizes,    \* sizes of the buffers VTLSRead is called with
    ReplEnds,     \* ends driven by tlss, tlsr and tlscl; the others by tlssf or tlsrf
    Closers,      \* ends that the application closes
    MaxResets     \* bound: connections torn down

ASSUME RecordAssumption ==
    /\ At \in [Senders \cup Readers -> Ends]
    /\ Senders \cap Readers = {}
    /\ \A g, h \in Senders \cup Readers : At[g] = At[h] /\ At[g] \notin ReplEnds => g = h
    /\ Records \in [Senders -> Nat]
    /\ HeaderLen \in Nat \ {0} /\ FrameLen \in Nat /\ HeaderLen < FrameLen
    /\ PlainLen \in Nat \ {0}
    /\ ReadSizes \subseteq Nat \ {0}
    /\ ReplEnds \subseteq Ends /\ Closers \subseteq Ends
    /\ MaxResets \in Nat

VARIABLES
    writeSeq,     \* VTLSConn.writeSeq of each end
    readSeq,      \* VTLSConn.readSeq
    readBuf,      \* VTLSConn.readBuf
    sender,       \* the goroutines in VTLSWrite ...
    reader,       \* ... and in VTLSRead
    closer,       \* each end's call of VTLSClose
    sealed,       \* history: the nonce of each record sealed at an end
    returned,     \* history: the plaintext VTLSRead has returned at an end
    overlapped,   \* history: two calls of VTLSRead at an end have overlapped
    resets        \* history, for MaxResets

streamVars == <<sealed, returned, overlapped>>
tlsVars == <<writeSeq, readSeq, readBuf, sender, reader, closer, streamVars, resets>>
vars == <<tcpVars, tlsVars>>

Frame(i) == [k \in 1 .. FrameLen |-> <<i, k>>]
LengthField(i) == SubSeq(Frame(i), 1, HeaderLen)
SealedData(i) == From(Frame(i), HeaderLen + 1)
Plaintext(i) == [k \in 1 .. PlainLen |-> (i - 1) * PlainLen + k]
Chunks == (Nat \ {0}) \X (1 .. FrameLen)

Sender == [pc : {"idle", "begin", "call", "store", "load", "add", "failed", "fileError",
                 "panicked"},
           record : Nat, todo : Seq(Chunks), seq : Nat, left : Nat]
Reader == [pc : {"idle", "begin", "call", "wait", "open", "eof", "error", "fileError"},
           part : {"length", "record"}, got : Seq(Chunks), need : Nat]

\* The type invariant.
TypeOK ==
    /\ TCPTypeOK(Chunks)
    /\ writeSeq \in [Ends -> Nat] /\ readSeq \in [Ends -> Nat]
    /\ readBuf \in [Ends -> Seq(Nat)]
    /\ sender \in [Senders -> Sender] /\ reader \in [Readers -> Reader]
    /\ closer \in [Ends -> {"open", "waiting", "closed", "refused"}]
    /\ sealed \in [Ends -> Seq(Nat)] /\ returned \in [Ends -> Seq(Nat)]
    /\ overlapped \in [Ends -> BOOLEAN]
    /\ resets \in 0 .. MaxResets

Init ==
    /\ TCPInit
    /\ writeSeq = [e \in Ends |-> 0] /\ readSeq = [e \in Ends |-> 0]
    /\ readBuf = [e \in Ends |-> <<>>]
    /\ sender = [g \in Senders |-> [pc |-> "idle", record |-> 0, todo |-> <<>>, seq |-> 0,
                                    left |-> Records[g]]]
    /\ reader = [g \in Readers |-> [pc |-> "idle", part |-> "length", got |-> <<>>, need |-> 0]]
    /\ closer = [e \in Ends |-> "open"]
    /\ sealed = [e \in Ends |-> <<>>] /\ returned = [e \in Ends |-> <<>>]
    /\ overlapped = [e \in Ends |-> FALSE]
    /\ resets = 0

\* HandleTlsReplCommands runs tlscl itself and the other commands in goroutines:
\* while VClose waits, no command is started, and after it the connection is not
\* in tlsConnMap any more.  A VClose that fails leaves it there.
Dispatches(e) == e \in ReplEnds => closer[e] \in {"open", "refused"}

\* A panic of one goroutine ends the process.
Alive(e) == \A g \in Senders : At[g] = e => sender[g].pc # "panicked"

-----------------------------------------------------------------------------
(* VTLSWrite *)

\* tlss starts a goroutine; tlssf has read the next block of its file.
StartWrite(g) ==
    /\ sender[g].pc = "idle" /\ sender[g].left > 0
    /\ Dispatches(At[g])
    /\ sender' = [sender EXCEPT ![g].pc = "begin"]
    /\ UNCHANGED <<tcpVars, writeSeq, readSeq, readBuf, reader, closer, streamVars, resets>>

\* SealData takes the nonce; the length field is the first to be written.
Seal(g) ==
    LET e == At[g]
        i == Len(sealed[e]) + 1
    IN  /\ sender[g].pc = "begin"
        /\ sealed' = [sealed EXCEPT ![e] = Append(@, writeSeq[e])]
        /\ sender' = [sender EXCEPT ![g].pc = "call", ![g].record = i, ![g].todo = LengthField(i)]
        /\ UNCHANGED <<tcpVars, writeSeq, readSeq, readBuf, reader, closer, returned, overlapped, resets>>

\* WriteFull calls VWrite, which looks at the state first; an error ends VTLSWrite.
CallVWrite(g) ==
    /\ sender[g].pc = "call"
    /\ sender' = [sender EXCEPT ![g].pc = IF ConnectionClosing(At[g]) THEN "failed" ELSE "store"]
    /\ UNCHANGED <<tcpVars, writeSeq, readSeq, readBuf, reader, closer, streamVars, resets>>

\* Where VTLSWrite is when VWrite has stored n chunks of todo.
AfterStore(s, n) ==
    LET rest == From(s.todo, n + 1)
    IN  IF rest # <<>> THEN [s EXCEPT !.todo = rest]
        ELSE IF s.todo[1][2] <= HeaderLen
             THEN [s EXCEPT !.todo = SealedData(s.record), !.pc = "call"]
             ELSE [s EXCEPT !.todo = <<>>, !.pc = "load"]

\* VWrite stores what fits, first of the length field, then of the record.
StoreChunks(g) ==
    /\ sender[g].pc = "store"
    /\ VWriteStore(At[g], sender[g].todo)
    /\ sender' = [sender EXCEPT ![g] = AfterStore(@, Storable(At[g], Len(@.todo)))]
    /\ UNCHANGED <<writeSeq, readSeq, readBuf, reader, closer, streamVars, resets>>

\* teardown has closed the channel on which VWrite tells sendLoop of its data.
StorePanics(g) ==
    /\ sender[g].pc = "store"
    /\ state[At[g]] = "CLOSED" /\ Storable(At[g], 1) > 0
    /\ sender' = [sender EXCEPT ![g].pc = "panicked"]
    /\ UNCHANGED <<tcpVars, writeSeq, readSeq, readBuf, reader, closer, streamVars, resets>>

\* c.writeSeq++ is a load ...
LoadWriteSeq(g) ==
    /\ sender[g].pc = "load"
    /\ sender' = [sender EXCEPT ![g].pc = "add", ![g].seq = writeSeq[At[g]]]
    /\ UNCHANGED <<tcpVars, writeSeq, readSeq, readBuf, reader, closer, streamVars, resets>>

\* ... and a store.
StoreWriteSeq(g) ==
    /\ sender[g].pc = "add"
    /\ writeSeq' = [writeSeq EXCEPT ![At[g]] = sender[g].seq + 1]
    /\ sender' = [sender EXCEPT ![g].pc = "idle", ![g].left = @ - 1]
    /\ UNCHANGED <<tcpVars, readSeq, readBuf, reader, closer, streamVars, resets>>

VTLSWrite(g) == /\ Alive(At[g])
                /\ \/ StartWrite(g) \/ Seal(g) \/ CallVWrite(g) \/ StoreChunks(g)
                   \/ StorePanics(g) \/ LoadWriteSeq(g) \/ StoreWriteSeq(g)

-----------------------------------------------------------------------------
(* VTLSRead *)

InCall(r) == r.pc \in {"begin", "call", "wait", "open"}

Busy(e) == \E g \in Readers : At[g] = e /\ InCall(reader[g])

\* tlsr starts a goroutine, whether or not one that it has started before is still
\* in its call; tlsrf calls VTLSRead again.
StartRead(g) ==
    LET e == At[g]
    IN  /\ reader[g].pc = "idle" /\ Dispatches(e)
        /\ reader' = [reader EXCEPT ![g].pc = "begin"]
        /\ overlapped' = [overlapped EXCEPT ![e] = @ \/ Busy(e)]
        /\ UNCHANGED <<tcpVars, writeSeq, readSeq, readBuf, sender, closer, sealed, returned, resets>>

\* Bytes left of an earlier record are returned without blocking.
ReadLeftover(g) ==
    LET e == At[g]
    IN  /\ reader[g].pc = "begin" /\ readBuf[e] # <<>>
        /\ \E size \in ReadSizes :
              LET n == Least(size, Len(readBuf[e]))
              IN  /\ returned' = [returned EXCEPT ![e] = @ \o SubSeq(readBuf[e], 1, n)]
                  /\ readBuf' = [readBuf EXCEPT ![e] = From(@, n + 1)]
        /\ reader' = [reader EXCEPT ![g].pc = "idle"]
        /\ UNCHANGED <<tcpVars, writeSeq, readSeq, sender, closer, sealed, overlapped, resets>>

\* Otherwise ReadFull is to get the length field of the next record.
ReadLength(g) ==
    /\ reader[g].pc = "begin" /\ readBuf[At[g]] = <<>>
    /\ reader' = [reader EXCEPT ![g].pc = "call", ![g].part = "length", ![g].got = <<>>,
                                ![g].need = HeaderLen]
    /\ UNCHANGED <<tcpVars, writeSeq, readSeq, readBuf, sender, closer, streamVars, resets>>

\* ReadFull calls VRead for what it still needs; VRead looks at the state first.
CallVRead(g) ==
    /\ reader[g].pc = "call"
    /\ reader' = [reader EXCEPT ![g].pc = IF ConnectionClosing(At[g]) THEN "error" ELSE "wait"]
    /\ UNCHANGED <<tcpVars, writeSeq, readSeq, readBuf, sender, closer, streamVars, resets>>

\* (mutant) the length taken to include its own field
recordLenWithField == FrameLen

\* What the length field says, in chunks.
recordLen == FrameLen - HeaderLen

\* The reader with everything that ReadFull was to get.  Chunks that are no length
\* field are read as one all the same: any length, also one too short for a tag.
AfterReadFull(r) ==
    IF r.part = "record" THEN {[r EXCEPT !.pc = "open"]}
    ELSE LET i == r.got[1][1]
         IN  IF r.got = LengthField(i)
             THEN {[r EXCEPT !.pc = "call", !.part = "record", !.got = <<>>, !.need = recordLen]}
             ELSE {[r EXCEPT !.pc = "error"]}
                  \cup {[r EXCEPT !.pc = "call", !.part = "record", !.got = <<>>, !.need = n] :
                          n \in 1 .. FrameLen}

\* VRead returns some data.
TakeChunks(g) ==
    LET e == At[g]
        n == Readable(e, reader[g].need)
        r == [reader[g] EXCEPT !.got = @ \o SubSeq(recvBuf[e], 1, n), !.need = @ - n]
    IN  /\ reader[g].pc = "wait"
        /\ VReadTake(e, reader[g].need)
        /\ \E after \in (IF r.need = 0 THEN AfterReadFull(r) ELSE {[r EXCEPT !.pc = "call"]}) :
              reader' = [reader EXCEPT ![g] = after]
        /\ UNCHANGED <<writeSeq, readSeq, readBuf, sender, closer, streamVars, resets>>

\* VRead returns io.EOF, and so do ReadFull and VTLSRead, in a record too.
ReadEOF(g) ==
    /\ reader[g].pc = "wait" /\ VReadEOF(At[g])
    /\ reader' = [reader EXCEPT ![g].pc = "eof"]
    /\ UNCHANGED <<tcpVars, writeSeq, readSeq, readBuf, sender, closer, streamVars, resets>>

\* (mutant) without the nonce
OpensAny(e, got, i) == i \in 1 .. Len(sealed[Peer[e]]) /\ got = SealedData(i)

\* gcm.Open of what was read as record i, with the reader's nonce.
Opens(e, got, i) == /\ i \in 1 .. Len(sealed[Peer[e]])
                    /\ got = SealedData(i)
                    /\ sealed[Peer[e]][i] = readSeq[e]

\* (mutant) the whole plaintext is kept
LeftoverAll(i, n) == Plaintext(i)

\* What VTLSRead keeps of a record in readBuf after it has returned n bytes.
Leftover(i, n) == From(Plaintext(i), n + 1)

\* OpenData, and on success the plaintext to the caller and to readBuf.
OpenData(g) ==
    LET e == At[g]
        i == reader[g].got[1][1]
    IN  /\ reader[g].pc = "open"
        /\ IF Opens(e, reader[g].got, i)
           THEN /\ readSeq' = [readSeq EXCEPT ![e] = @ + 1]
                /\ \E size \in ReadSizes :
                      LET n == Least(size, PlainLen)
                      IN  /\ returned' = [returned EXCEPT ![e] = @ \o SubSeq(Plaintext(i), 1, n)]
                          /\ readBuf' = [readBuf EXCEPT ![e] = Leftover(i, n)]
                /\ reader' = [reader EXCEPT ![g].pc = "idle"]
           ELSE /\ reader' = [reader EXCEPT ![g].pc = "error"]
                /\ UNCHANGED <<readSeq, returned, readBuf>>
        /\ UNCHANGED <<tcpVars, writeSeq, sender, closer, sealed, overlapped, resets>>

VTLSRead(g) == /\ Alive(At[g])
               /\ \/ StartRead(g) \/ ReadLeftover(g) \/ ReadLength(g) \/ CallVRead(g)
                  \/ TakeChunks(g) \/ ReadEOF(g) \/ OpenData(g)

-----------------------------------------------------------------------------
(* VTLSClose *)

\* tlssf cannot open its file, or read the next block of it.
SourceFails(g) ==
    /\ At[g] \notin ReplEnds
    /\ sender[g].pc = "idle" /\ sender[g].left > 0
    /\ sender' = [sender EXCEPT ![g].pc = "fileError"]
    /\ UNCHANGED <<tcpVars, writeSeq, readSeq, readBuf, reader, closer, streamVars, resets>>

\* tlsrf cannot create its file, or write to it what VTLSRead has returned.
DestFails(g) ==
    /\ At[g] \notin ReplEnds
    /\ reader[g].pc = "idle"
    /\ reader' = [reader EXCEPT ![g].pc = "fileError"]
    /\ UNCHANGED <<tcpVars, writeSeq, readSeq, readBuf, sender, closer, streamVars, resets>>

\* tlssf and tlsrf close when they are done, after any error too.
SenderDone(g) == \/ sender[g].pc \in {"failed", "fileError"}
                 \/ sender[g].pc = "idle" /\ sender[g].left = 0
ReaderDone(g) == reader[g].pc \in {"eof", "error", "fileError"}
Finished(e) == /\ \A g \in Senders : At[g] = e => SenderDone(g)
               /\ \A g \in Readers : At[g] = e => ReaderDone(g)

\* tlscl may be entered at any time.
CallVClose(e) ==
    /\ e \in Closers /\ closer[e] = "open"
    /\ e \in ReplEnds \/ Finished(e)
    /\ closer' = [closer EXCEPT ![e] = IF ConnectionClosing(e) THEN "refused" ELSE "waiting"]
    /\ UNCHANGED <<tcpVars, writeSeq, readSeq, readBuf, sender, reader, streamVars, resets>>

\* VClose has seen the send buffer empty and sends the FIN.
SendFin(e) ==
    /\ closer[e] = "waiting"
    /\ VCloseFin(e)
    /\ closer' = [closer EXCEPT ![e] = "closed"]
    /\ UNCHANGED <<writeSeq, readSeq, readBuf, sender, reader, streamVars, resets>>

-----------------------------------------------------------------------------

Connection(e) == TCPStep(e) /\ UNCHANGED tlsVars

TearDown(e) ==
    /\ resets < MaxResets
    /\ Reset(e)
    /\ resets' = resets + 1
    /\ UNCHANGED <<writeSeq, readSeq, readBuf, sender, reader, closer, streamVars>>

VTLSClose(e) == Alive(e) /\ (CallVClose(e) \/ SendFin(e))

Next ==
    \/ \E g \in Senders : VTLSWrite(g) \/ SourceFails(g)
    \/ \E g \in Readers : VTLSRead(g) \/ DestFails(g)
    \/ \E e \in Ends : VTLSClose(e) \/ Connection(e) \/ TearDown(e)

Spec == Init /\ [][Next]_vars

\* Goroutines that can run do run, and TCP delivers.  A user goes on with tlss and
\* tlsr, but nobody has to enter tlsr before the last one has returned, or tlscl.
\* tlssf and tlsrf close when they are done; their files need not fail.
Fairness ==
    /\ \A g \in Senders : WF_vars(VTLSWrite(g))
    /\ \A g \in Readers : WF_vars(VTLSRead(g) /\ (InCall(reader[g]) \/ ~Busy(At[g])))
    /\ \A e \in Ends : /\ WF_vars(Connection(e))
                       /\ WF_vars(Alive(e) /\ SendFin(e))
                       /\ e \notin ReplEnds => WF_vars(VTLSClose(e))

FairSpec == Spec /\ Fairness

-----------------------------------------------------------------------------
(* Properties *)

\* The record that a byte of plaintext belongs to, and its place in it.
RecordOf(b) == (b - 1) \div PlainLen + 1
PlaceOf(b) == (b - 1) % PlainLen

\* As long as calls of VTLSRead at an end do not overlap, the k-th record that they
\* return was sealed by the peer with the k-th nonce and is returned from its first
\* byte to its last: nothing is returned twice, out of order or in part, whatever
\* several VTLSWrites, a FIN in the middle of a record and reads after an error do
\* to the framing.
Genuine ==
    \A e \in Ends : ~overlapped[e] => \A i \in 1 .. Len(returned[e]) :
        LET b == returned[e][i]
        IN  /\ RecordOf(b) \in 1 .. Len(sealed[Peer[e]])
            /\ sealed[Peer[e]][RecordOf(b)] = RecordOf(i) - 1
            /\ PlaceOf(b) = PlaceOf(i)

\* tlsrf takes io.EOF for the end of the file, and ReadFull passes it on from the
\* middle of a record as well: tlsrf then has every byte that tlssf has read from
\* its file, up to the end or up to an error of the file.  Which of the two it was
\* tlsrf cannot tell, and no error of the connection leads to io.EOF.
EOFMeansWhole ==
    \A g \in Readers :
        reader[g].pc = "eof" /\ At[g] \notin ReplEnds /\ Peer[At[g]] \notin ReplEnds =>
            /\ Len(returned[At[g]]) = PlainLen * Len(sealed[Peer[At[g]]])
            /\ \A s \in Senders : At[s] = Peer[At[g]] =>
                  \/ sender[s].pc = "fileError"
                  \/ sender[s].pc = "idle" /\ sender[s].left = 0

\* tlssf and tlsrf come to an end: what tlssf sends is received and the connection
\* closed, unless it is reset or tlsrf cannot write its file.  Somebody reads what
\* a sender waits to store, and no end is missed.
FileArrives ==
    \A g \in Readers :
        At[g] \notin ReplEnds
        ~> reader[g].pc \in {"eof", "fileError"} \/ resets > 0 \/ Peer[At[g]] \in ReplEnds

\* VClose, which tlscl calls in the goroutine that starts all TLS commands,
\* returns if the other user goes on reading and the connection is not reset.  A
\* user who closes too reads no more: one whose tlscl waits cannot enter tlsr.
\* Reads that overlap may take the bounds of readBuf from each other and panic.
CloseReturns ==
    \A e \in Ends :
        closer[e] = "waiting"
        ~> \/ closer[e] # "waiting" \/ resets > 0 \/ ~Alive(e)
           \/ closer[Peer[e]] # "open" \/ overlapped[Peer[e]]
           \/ \A g \in Readers : At[g] = Peer[e] => ReaderDone(g)

=============================================================================
