------------------------- MODULE TLSHandshakeProofs -------------------------
(***************************************************************************)
(* Theorems about TLSHandshake, for every set of dialers, configurations,  *)
(* keys, buffer sizes and numbers of resets: type correctness, mutual      *)
(* authentication, the keys of the two directions, and that the handshake  *)
(* takes its own bytes from the stream and no more.                        *)
(***************************************************************************)
EXTENDS TLSHandshake, SequenceTheorems, TLAPS

-----------------------------------------------------------------------------
(* The inductive invariant *)

UserPub(d) == DHPub(User(d))
ServerPub(d) == DHPub(Server(d))
Secret(d) == {UserPub(d), ServerPub(d)}
KeysOf(d, side) == DeriveWriteKeys(Secret(d), UserPub(d), ServerPub(d), side)
Signature(d) == UserSigMsg(d, ServerPub(d))
FirstRecord(d) == Record(WriteKey(Secret(d), UserPub(d), ServerPub(d), "client"))

\* What end e has written and the other end has not read.
Pipe(e) == recvBuf[Peer[e]] \o sendBuf[e]

\* The user has sent its signature; it registers its end after that.
Signed(d) == dialer[d].pc \in {"signed", "done"}

\* Messages that may be on their way from each side of d's connection.
UpMessages(d) == {UserDHMsg(d), Junk}
                 \cup IF Signed(d) THEN {Signature(d), FirstRecord(d)} ELSE {}
DownMessages(d) == {ServerDHMsg(d, UserPub(d))}
Carried(e) == IF e = User(e[1]) THEN UpMessages(e[1]) ELSE DownMessages(e[1])

Serving(d) == server.pc # "accept" /\ server.conn = d

\* Everything the user has written, and what of it the server has taken.
UserSent(d) ==
    CASE dialer[d].pc \in {"read", "wait", "sign"} -> <<UserDHMsg(d)>>
      [] Signed(d) /\ ~dialer[d].sent -> <<UserDHMsg(d), Signature(d)>>
      [] Signed(d) /\ dialer[d].sent -> <<UserDHMsg(d), Signature(d), FirstRecord(d)>>
      [] OTHER -> <<>>
ServerTook(d) ==
    IF Registered(Server(d)) THEN <<UserDHMsg(d), Signature(d)>>
    ELSE IF Serving(d) /\ server.pc \in {"send", "read3", "wait3"} THEN <<UserDHMsg(d)>>
    ELSE <<>>

DialerRecord ==
    [pc : {"idle", "send", "read", "wait", "sign", "signed", "close", "done", "failed", "plain"},
     config : ClientConfigs \cup {NoConfig},
     serverPub : {None} \cup {ServerPub(d) : d \in Dialers},
     sent : BOOLEAN]
ServerRecord ==
    [pc : {"accept", "read1", "wait1", "send", "read3", "wait3", "close", "ended"},
     conn : Dialers \cup {None},
     userPub : {None} \cup {UserPub(d) : d \in Dialers}]

ControlInv ==
    /\ dialer \in [Dialers -> DialerRecord]
    /\ server \in ServerRecord
    /\ connChan \in Seq(Dialers)
    /\ resets \in 0 .. MaxResets

\* VWrite is refused after VClose, and VClose has waited for an empty buffer.
BuffersInv ==
    /\ state \in [Ends -> {"ESTABLISHED", "CLOSE_WAIT", "FIN_WAIT", "CLOSED"}]
    /\ fin \in [Ends -> {"none", "sent", "taken"}]
    /\ sendBuf = [e \in Ends |-> sendBuf[e]] /\ recvBuf = [e \in Ends |-> recvBuf[e]]
    /\ \A e \in Ends :
          /\ sendBuf[e] \in Seq(Carried(e)) /\ Len(sendBuf[e]) <= Capacity
          /\ recvBuf[Peer[e]] \in Seq(Carried(e)) /\ Len(recvBuf[Peer[e]]) <= Capacity
          /\ fin[e] # "none" => sendBuf[e] = <<>> /\ ConnectionClosing(e)

\* VTLSDial: what it has found out before it signs, and when it registers.
DialerInv(d) ==
    /\ dialer[d].serverPub \in {None, ServerPub(d)}
    /\ dialer[d].sent => DialerAt(d, "done")
    /\ dialer[d].pc \in {"sign", "signed", "done"} =>
          /\ dialer[d].serverPub = ServerPub(d)
          /\ dialer[d].config.ServerVerifyKey = ServerSignKey
    /\ DialerAt(d, "idle") =>
          Pipe(User(d)) = <<>> /\ Pipe(Server(d)) = <<>>

\* VTLSAccept: whom it serves, and whom it registers.
ServerInv(d) ==
    /\ Registered(Server(d)) =>
          Signed(d) /\ dialer[d].config.UserSignKey = UserVerifyKey
    /\ Serving(d) => ~DialerAt(d, "idle") /\ ~Registered(Server(d))
    /\ Serving(d) /\ server.pc \in {"send", "read3", "wait3"} => server.userPub = UserPub(d)

\* connChan holds connections that wait for VAccept, each once.
QueueInv ==
    /\ \A i \in 1..Len(connChan) :
          /\ ~DialerAt(connChan[i], "idle")
          /\ ~Registered(Server(connChan[i]))
          /\ ~Serving(connChan[i])
    /\ \A i, j \in 1..Len(connChan) : connChan[i] = connChan[j] => i = j
    /\ ~ServerAt("accept") => server.conn \in Dialers

KeysInv ==
    /\ keys = [e \in Ends |-> keys[e]]
    /\ \A d \in Dialers :
          /\ keys[User(d)] = IF DialerAt(d, "done") THEN KeysOf(d, "user") ELSE NoKeys
          /\ keys[Server(d)] \in {NoKeys, KeysOf(d, "server")}

\* The bytes of the handshake and of the first record, in order.
StreamInv(d) ==
    \/ dialer[d].pc \in {"close", "failed"}
    \/ Serving(d) /\ server.pc \in {"close", "ended"}
    \/ UserSent(d) = ServerTook(d) \o Pipe(User(d))

HandshakeInv ==
    /\ ControlInv
    /\ BuffersInv
    /\ KeysInv
    /\ QueueInv
    /\ \A d \in Dialers : DialerInv(d) /\ ServerInv(d) /\ StreamInv(d)

-----------------------------------------------------------------------------
(* Sequences *)

\* The elements of a pipe stay where they are when one of them moves from the
\* send buffer to the receive buffer.
LEMMA HeadMoves ==
    ASSUME NEW S, NEW a \in Seq(S), NEW b \in Seq(S), b # <<>>
    PROVE  /\ Append(a, Head(b)) \in Seq(S) /\ Tail(b) \in Seq(S)
           /\ Len(Append(a, Head(b))) = Len(a) + 1 /\ Len(Tail(b)) = Len(b) - 1
           /\ Append(a, Head(b)) \o Tail(b) = a \o b
<1>1. Head(b) \in S /\ Tail(b) \in Seq(S) /\ Len(Tail(b)) = Len(b) - 1
  BY HeadTailProperties
<1>2. /\ Append(a, Head(b)) = a \o <<Head(b)>>
      /\ Append(a, Head(b)) \in Seq(S) /\ Len(Append(a, Head(b))) = Len(a) + 1
  BY <1>1, AppendIsConcat, AppendProperties
<1>3. <<Head(b)>> \in Seq(S)
  BY <1>1
<1>4. (a \o <<Head(b)>>) \o Tail(b) = a \o (<<Head(b)>> \o Tail(b))
  BY <1>1, <1>3, ConcatAssociative
<1>5. <<Head(b)>> \o Tail(b) = b
  <2>1. Len(b) \in Nat \ {0}
    BY EmptySeq
  <2>2. 1 \in 1..Len(b) /\ Len(b) \in 1..Len(b) /\ 1 + 1 = 2
    BY <2>1
  <2>3. SubSeq(b, 1, Len(b)) = <<b[1]>> \o SubSeq(b, 1 + 1, Len(b))
    BY <2>2, SubSeqRecursiveFirst
  <2>4. Tail(b) = SubSeq(b, 2, Len(b)) /\ SubSeq(b, 1, Len(b)) = b
    BY TailIsSubSeq, SubSeqFull
  <2>5. Head(b) = b[1]
    BY <2>1
  <2> QED BY <2>2, <2>3, <2>4, <2>5
<1> QED BY <1>1, <1>2, <1>4, <1>5

\* One element is read, and one is written.
LEMMA HeadRead ==
    ASSUME NEW S, NEW a \in Seq(S), NEW b \in Seq(S), a # <<>>
    PROVE  /\ Head(a) \in S /\ SubSeq(a, 2, Len(a)) \in Seq(S)
           /\ Len(SubSeq(a, 2, Len(a))) = Len(a) - 1
           /\ a \o b = <<Head(a)>> \o (SubSeq(a, 2, Len(a)) \o b)
<1>1. Head(a) \in S /\ Tail(a) \in Seq(S) /\ Len(Tail(a)) = Len(a) - 1
  BY HeadTailProperties
<1>2. Tail(a) = SubSeq(a, 2, Len(a))
  BY TailIsSubSeq
<1>3. <<Head(a)>> \in Seq(S)
  BY <1>1
<1>4. (<<Head(a)>> \o Tail(a)) \o b = <<Head(a)>> \o (Tail(a) \o b)
  BY <1>1, <1>3, ConcatAssociative
<1>5. a = <<Head(a)>> \o Tail(a)
  <2>1. <<>> \in Seq(S) /\ Append(<<>>, Head(a)) = <<Head(a)>>
    BY <1>1, EmptySeq
  <2>2. Append(<<>>, Head(a)) \o Tail(a) = <<>> \o a
    BY <2>1, HeadMoves
  <2> QED BY <2>1, <2>2, ConcatEmptySeq
<1> QED BY <1>1, <1>2, <1>4, <1>5

LEMMA ElementWritten ==
    ASSUME NEW S, NEW a \in Seq(S), NEW b \in Seq(S), NEW m \in S
    PROVE  b \o <<m>> \in Seq(S) /\ Len(b \o <<m>>) = Len(b) + 1
           /\ a \o (b \o <<m>>) = (a \o b) \o <<m>>
<1>1. <<m>> \in Seq(S) /\ Len(<<m>>) = 1
  OBVIOUS
<1>2. b \o <<m>> \in Seq(S) /\ Len(b \o <<m>>) = Len(b) + Len(<<m>>)
  BY <1>1, ConcatProperties
<1>3. (a \o b) \o <<m>> = a \o (b \o <<m>>)
  BY <1>1, ConcatAssociative
<1> QED BY <1>1, <1>2, <1>3

-----------------------------------------------------------------------------
(* Ends and connections *)

LEMMA EndsOfDialer ==
    ASSUME NEW d \in Dialers
    PROVE  /\ User(d) \in Ends /\ Server(d) \in Ends /\ User(d) # Server(d)
           /\ Peer[User(d)] = Server(d) /\ Peer[Server(d)] = User(d)
           /\ User(d)[1] = d /\ Server(d)[1] = d
           /\ \A c \in Dialers : /\ User(d) # Server(c)
                                 /\ User(d) = User(c) <=> d = c
                                 /\ Server(d) = Server(c) <=> d = c
<1>1. User(d) \in Ends /\ Server(d) \in Ends /\ Peer[User(d)] = Server(d)
  BY HandshakeAssumption DEF User, Server
<1>2. Peer[Server(d)] = User(d)
  BY <1>1, ServiceAssumption
<1> QED BY <1>1, <1>2 DEF User, Server

LEMMA DialerOfEnd ==
    ASSUME NEW e \in Ends
    PROVE  /\ e[1] \in Dialers /\ e \in {User(e[1]), Server(e[1])}
           /\ Peer[e] \in Ends /\ Peer[e] # e /\ Peer[Peer[e]] = e
           /\ Peer[e][1] = e[1]
<1>1. e[1] \in Dialers /\ e \in {User(e[1]), Server(e[1])}
  BY HandshakeAssumption DEF User, Server
<1>2. Peer[e] \in Ends /\ Peer[e] # e /\ Peer[Peer[e]] = e
  BY ServiceAssumption
<1> QED BY <1>1, <1>2, EndsOfDialer

LEMMA CarriedBy ==
    ASSUME NEW d \in Dialers
    PROVE  Carried(User(d)) = UpMessages(d) /\ Carried(Server(d)) = DownMessages(d)
BY EndsOfDialer DEF Carried

-----------------------------------------------------------------------------
(* What the steps of TCP do to the buffers *)

Grows == \A e \in Ends : Carried(e) \subseteq Carried(e)'

\* The buffers of one pipe, before a step and as the step may leave them.
LEMMA BuffersOf ==
    ASSUME BuffersInv, Grows, NEW e \in Ends
    PROVE  /\ sendBuf[e] \in Seq(Carried(e)') /\ Len(sendBuf[e]) \in 0 .. Capacity
           /\ recvBuf[Peer[e]] \in Seq(Carried(e)') /\ Len(recvBuf[Peer[e]]) \in 0 .. Capacity
           /\ sendBuf[e] \in Seq(Carried(e)) /\ recvBuf[Peer[e]] \in Seq(Carried(e))
<1>1. Carried(e) \subseteq Carried(e)'
  BY DEF Grows
<1>2. /\ sendBuf[e] \in Seq(Carried(e)) /\ Len(sendBuf[e]) <= Capacity
      /\ recvBuf[Peer[e]] \in Seq(Carried(e)) /\ Len(recvBuf[Peer[e]]) <= Capacity
  BY DEF BuffersInv
<1>3. sendBuf[e] \in Seq(Carried(e)') /\ recvBuf[Peer[e]] \in Seq(Carried(e)')
  BY <1>1, <1>2, SeqMonotonic
<1>4. Len(sendBuf[e]) \in Nat /\ Len(recvBuf[Peer[e]]) \in Nat
  BY <1>2, LenProperties
<1> QED BY <1>2, <1>3, <1>4, ServiceAssumption

\* Nothing is stored, moved or read.
LEMMA PipesStay ==
    ASSUME BuffersInv, Grows, UNCHANGED <<sendBuf, recvBuf>>,
           state' \in [Ends -> {"ESTABLISHED", "CLOSE_WAIT", "FIN_WAIT", "CLOSED"}],
           fin' \in [Ends -> {"none", "sent", "taken"}],
           \A e \in Ends : fin[e]' # "none" => sendBuf[e] = <<>> /\ ConnectionClosing(e)'
    PROVE  BuffersInv' /\ \A e \in Ends : Pipe(e)' = Pipe(e)
<1>1. \A e \in Ends : /\ sendBuf[e] \in Seq(Carried(e)') /\ Len(sendBuf[e]) <= Capacity
                      /\ recvBuf[Peer[e]] \in Seq(Carried(e)') /\ Len(recvBuf[Peer[e]]) <= Capacity
  BY BuffersOf, ServiceAssumption
<1> QED BY <1>1 DEF BuffersInv, Pipe

\* TCP moves a chunk.
LEMMA DeliverKeeps ==
    ASSUME BuffersInv, Grows, NEW e \in Ends, Deliver(e)
    PROVE  BuffersInv' /\ \A f \in Ends : Pipe(f)' = Pipe(f)
<1> DEFINE a == recvBuf[Peer[e]]
           b == sendBuf[e]
<1>1. /\ a \in Seq(Carried(e)') /\ Len(a) \in 0 .. Capacity
      /\ b \in Seq(Carried(e)') /\ Len(b) \in 0 .. Capacity
  BY BuffersOf
<1>2. b # <<>> /\ Len(a) < Capacity /\ Len(b) > 0
  BY <1>1, EmptySeq DEF Deliver
<1>3. /\ Append(a, Head(b)) \in Seq(Carried(e)') /\ Tail(b) \in Seq(Carried(e)')
      /\ Len(Append(a, Head(b))) = Len(a) + 1 /\ Len(Tail(b)) = Len(b) - 1
      /\ Append(a, Head(b)) \o Tail(b) = a \o b
  BY <1>1, <1>2, HeadMoves
<1>4. /\ recvBuf' = [recvBuf EXCEPT ![Peer[e]] = Append(a, Head(b))]
      /\ sendBuf' = [sendBuf EXCEPT ![e] = Tail(b)]
      /\ fin[e] = "none"
  BY <1>2 DEF Deliver, BuffersInv
<1> HIDE DEF a, b
<1>5. UNCHANGED <<state, fin>>
  BY <1>4 DEF Deliver, BuffersInv
<1>6. sendBuf' = [f \in Ends |-> IF f = e THEN Tail(b) ELSE sendBuf[f]]
  BY <1>4 DEF BuffersInv
<1>7. recvBuf' = [f \in Ends |-> IF f = Peer[e] THEN Append(a, Head(b)) ELSE recvBuf[f]]
  BY <1>4 DEF BuffersInv
<1>8. ASSUME NEW f \in Ends
      PROVE  /\ sendBuf'[f] \in Seq(Carried(f)') /\ Len(sendBuf'[f]) <= Capacity
             /\ recvBuf'[Peer[f]] \in Seq(Carried(f)') /\ Len(recvBuf'[Peer[f]]) <= Capacity
             /\ fin[f] # "none" => sendBuf'[f] = <<>>
             /\ recvBuf'[Peer[f]] \o sendBuf'[f] = recvBuf[Peer[f]] \o sendBuf[f]
  <2>1. CASE f = e
    <3>1. sendBuf'[f] = Tail(b) /\ recvBuf'[Peer[f]] = Append(a, Head(b))
      BY <1>6, <1>7, <2>1, DialerOfEnd
    <3>2. Len(Tail(b)) <= Capacity /\ Len(Append(a, Head(b))) <= Capacity
      BY <1>1, <1>2, <1>3, ServiceAssumption
    <3> QED BY <1>3, <1>4, <2>1, <3>1, <3>2 DEF a, b
  <2>2. CASE f # e
    <3>1. Peer[f] # Peer[e] /\ Peer[f] \in Ends
      BY <2>2, DialerOfEnd
    <3>2. sendBuf'[f] = sendBuf[f] /\ recvBuf'[Peer[f]] = recvBuf[Peer[f]]
      BY <1>6, <1>7, <2>2, <3>1
    <3> QED BY <3>2, BuffersOf, ServiceAssumption DEF BuffersInv
  <2> QED BY <2>1, <2>2
<1> QED BY <1>5, <1>6, <1>7, <1>8 DEF BuffersInv, Pipe, ConnectionClosing

\* The other steps of TCP change states and FINs only.
LEMMA TCPStepKeeps ==
    ASSUME BuffersInv, Grows, NEW e \in Ends, TCPStep(e)
    PROVE  BuffersInv' /\ \A f \in Ends : Pipe(f)' = Pipe(f)
<1>0. Peer[e] \in Ends /\ Peer[e] # e
  BY DialerOfEnd
<1>1. CASE Deliver(e)
  BY <1>1, DeliverKeeps
<1>2. CASE LoseBehindFin(e)
  BY <1>2 DEF LoseBehindFin, BuffersInv
<1>3. CASE TakeFin(e)
  <2>1. /\ fin' = [fin EXCEPT ![e] = "taken"] /\ fin[e] = "sent"
        /\ state' = [state EXCEPT ![Peer[e]] = IF @ = "ESTABLISHED" THEN "CLOSE_WAIT" ELSE "CLOSED"]
        /\ UNCHANGED <<sendBuf, recvBuf>>
    BY <1>3 DEF TakeFin
  <2>2. \A f \in Ends : fin[f]' # "none" => sendBuf[f] = <<>> /\ ConnectionClosing(f)'
    BY <1>0, <2>1 DEF BuffersInv, ConnectionClosing
  <2> QED BY <1>0, <2>1, <2>2, PipesStay DEF BuffersInv
<1>4. CASE RetransmissionLimit(e)
  <2>1. state' = [state EXCEPT ![e] = "CLOSED"] /\ UNCHANGED <<sendBuf, recvBuf, fin>>
    BY <1>4 DEF RetransmissionLimit, Reset
  <2> QED BY <2>1, PipesStay DEF BuffersInv, ConnectionClosing
<1> QED BY <1>1, <1>2, <1>3, <1>4 DEF TCPStep

LEMMA ResetKeeps ==
    ASSUME BuffersInv, Grows, NEW e \in Ends, Reset(e)
    PROVE  BuffersInv' /\ \A f \in Ends : Pipe(f)' = Pipe(f)
<1>1. state' = [state EXCEPT ![e] = "CLOSED"] /\ UNCHANGED <<sendBuf, recvBuf, fin>>
  BY DEF Reset
<1> QED BY <1>1, PipesStay DEF BuffersInv, ConnectionClosing

LEMMA CloseKeeps ==
    ASSUME BuffersInv, Grows, NEW e \in Ends, VCloseFin(e)
    PROVE  BuffersInv' /\ \A f \in Ends : Pipe(f)' = Pipe(f)
<1>1. /\ sendBuf[e] = <<>> /\ fin' = [fin EXCEPT ![e] = "sent"]
      /\ state' = [state EXCEPT ![e] = IF @ = "ESTABLISHED" THEN "FIN_WAIT" ELSE "CLOSED"]
      /\ UNCHANGED <<sendBuf, recvBuf>>
  BY DEF VCloseFin
<1> QED BY <1>1, PipesStay DEF BuffersInv, ConnectionClosing

\* tcpVars stay as they are.
LEMMA NothingMoves ==
    ASSUME BuffersInv, Grows, UNCHANGED tcpVars
    PROVE  BuffersInv' /\ \A f \in Ends : Pipe(f)' = Pipe(f)
BY PipesStay DEF BuffersInv, ConnectionClosing, tcpVars

\* A message is written.
LEMMA WriteKeeps ==
    ASSUME BuffersInv, Grows, NEW e \in Ends, NEW m, m \in Carried(e)',
           WriteSerializableMessage(e, m)
    PROVE  /\ BuffersInv'
           /\ Pipe(e)' = Pipe(e) \o <<m>>
           /\ \A f \in Ends : f # e => Pipe(f)' = Pipe(f)
<1> DEFINE a == recvBuf[Peer[e]]
           b == sendBuf[e]
<1>1. /\ a \in Seq(Carried(e)') /\ Len(a) \in 0 .. Capacity
      /\ b \in Seq(Carried(e)') /\ Len(b) \in 0 .. Capacity
  BY BuffersOf
<1>2. /\ Storable(e, Len(<<m>>)) > 0
      /\ sendBuf' = [sendBuf EXCEPT ![e] = b \o SubSeq(<<m>>, 1, Storable(e, Len(<<m>>)))]
      /\ UNCHANGED <<state, recvBuf, fin>> /\ ~ConnectionClosing(e)
  BY DEF WriteSerializableMessage, VWriteStore
<1>3. Len(b) + 1 <= Capacity /\ Storable(e, Len(<<m>>)) = 1
  BY <1>1, <1>2, ServiceAssumption DEF Storable, Least, b
<1>4. SubSeq(<<m>>, 1, 1) = <<m>>
  <2>1. <<m>> \in Seq({m}) /\ Len(<<m>>) = 1
    OBVIOUS
  <2> QED BY <2>1, SubSeqFull
<1>5. /\ b \o <<m>> \in Seq(Carried(e)') /\ Len(b \o <<m>>) = Len(b) + 1
      /\ a \o (b \o <<m>>) = (a \o b) \o <<m>>
  <2> HIDE DEF a, b
  <2> QED BY <1>1, ElementWritten
<1> HIDE DEF a, b
<1>6. sendBuf' = [f \in Ends |-> IF f = e THEN b \o <<m>> ELSE sendBuf[f]]
  BY <1>2, <1>3, <1>4 DEF BuffersInv
<1>7. ASSUME NEW f \in Ends
      PROVE  /\ sendBuf'[f] \in Seq(Carried(f)') /\ Len(sendBuf'[f]) <= Capacity
             /\ recvBuf'[Peer[f]] \in Seq(Carried(f)') /\ Len(recvBuf'[Peer[f]]) <= Capacity
             /\ fin[f] # "none" => sendBuf'[f] = <<>>
  <2>1. CASE f = e
    BY <1>1, <1>2, <1>3, <1>5, <1>6, <2>1 DEF a, b, BuffersInv
  <2>2. CASE f # e
    <3>1. sendBuf'[f] = sendBuf[f] /\ recvBuf' = recvBuf
      BY <1>2, <1>6, <2>2
    <3> QED BY <3>1, BuffersOf, ServiceAssumption DEF BuffersInv
  <2> QED BY <2>1, <2>2
<1>8. BuffersInv'
  BY <1>2, <1>6, <1>7 DEF BuffersInv, ConnectionClosing
<1>9. Pipe(e)' = Pipe(e) \o <<m>> /\ \A f \in Ends : f # e => Pipe(f)' = Pipe(f)
  BY <1>2, <1>5, <1>6 DEF Pipe, a, b
<1> QED BY <1>8, <1>9

\* A message is read: it is the next one of the peer's pipe.
LEMMA ReadKeeps ==
    ASSUME BuffersInv, Grows, NEW e \in Ends, ReadSerializedMessage(Peer[e])
    PROVE  /\ BuffersInv'
           /\ Incoming(Peer[e]) \in Carried(e)
           /\ Pipe(e) = <<Incoming(Peer[e])>> \o Pipe(e)'
           /\ \A f \in Ends : f # e => Pipe(f)' = Pipe(f)
<1> DEFINE a == recvBuf[Peer[e]]
           b == sendBuf[e]
           rest == SubSeq(a, 2, Len(a))
<1>1. /\ a \in Seq(Carried(e)') /\ Len(a) \in 0 .. Capacity
      /\ b \in Seq(Carried(e)') /\ Len(b) \in 0 .. Capacity
      /\ a \in Seq(Carried(e))
  BY BuffersOf
<1>2. Readable(Peer[e], 1) = 1 /\ Len(a) > 0
  BY <1>1 DEF ReadSerializedMessage, VReadTake, MessageLen, Readable, Least
<1>3. a # <<>>
  BY <1>2, EmptySeq
<1>4. /\ recvBuf' = [recvBuf EXCEPT ![Peer[e]] = rest]
      /\ UNCHANGED <<state, sendBuf, fin>>
  <2>1. /\ recvBuf' = [recvBuf EXCEPT ![Peer[e]] = From(a, Readable(Peer[e], 1) + 1)]
        /\ UNCHANGED <<state, sendBuf, fin>>
    BY DEF ReadSerializedMessage, VReadTake, MessageLen
  <2>2. 1 + 1 = 2
    OBVIOUS
  <2> QED BY <1>2, <2>1, <2>2 DEF From
<1>5. /\ rest \in Seq(Carried(e)') /\ Len(rest) = Len(a) - 1
      /\ a \o b = <<Head(a)>> \o (rest \o b)
  BY <1>1, <1>3, HeadRead
<1>6. Head(a) \in Carried(e)
  BY <1>1, <1>3, HeadTailProperties
<1> HIDE DEF a, b, rest
<1>7. recvBuf' = [f \in Ends |-> IF f = Peer[e] THEN rest ELSE recvBuf[f]]
  BY <1>4 DEF BuffersInv
<1>8. ASSUME NEW f \in Ends
      PROVE  /\ recvBuf'[Peer[f]] = IF f = e THEN rest ELSE recvBuf[Peer[f]]
             /\ sendBuf'[f] \in Seq(Carried(f)') /\ Len(sendBuf'[f]) <= Capacity
             /\ recvBuf'[Peer[f]] \in Seq(Carried(f)') /\ Len(recvBuf'[Peer[f]]) <= Capacity
  <2>1. recvBuf'[Peer[f]] = IF f = e THEN rest ELSE recvBuf[Peer[f]]
    BY <1>7, DialerOfEnd
  <2>2. /\ sendBuf[f] \in Seq(Carried(f)') /\ Len(sendBuf[f]) <= Capacity
        /\ recvBuf[Peer[f]] \in Seq(Carried(f)') /\ Len(recvBuf[Peer[f]]) <= Capacity
    BY BuffersOf, ServiceAssumption
  <2>3. Len(rest) <= Capacity
    BY <1>1, <1>5, ServiceAssumption
  <2> QED BY <1>4, <1>5, <2>1, <2>2, <2>3
<1>9. BuffersInv'
  BY <1>4, <1>7, <1>8 DEF BuffersInv, ConnectionClosing
<1>10. /\ Incoming(Peer[e]) = Head(a)
       /\ Pipe(e) = <<Head(a)>> \o Pipe(e)'
       /\ \A f \in Ends : f # e => Pipe(f)' = Pipe(f)
  <2>1. Pipe(e) = a \o b /\ Pipe(e)' = rest \o b
    BY <1>4, <1>8 DEF Pipe, a, b
  <2>2. ASSUME NEW f \in Ends, f # e PROVE Pipe(f)' = Pipe(f)
    <3>1. recvBuf'[Peer[f]] = recvBuf[Peer[f]] /\ sendBuf'[f] = sendBuf[f]
      BY <1>4, <1>8, <2>2
    <3> QED BY <3>1 DEF Pipe
  <2> QED BY <1>5, <2>1, <2>2 DEF Incoming, a
<1> QED BY <1>6, <1>9, <1>10

-----------------------------------------------------------------------------
(* Messages, and what a step of one connection leaves alone *)

LEMMA UpMessage ==
    ASSUME NEW d \in Dialers, NEW m \in UpMessages(d)
    PROVE  /\ m.type = 1 => m = UserDHMsg(d)
           /\ m.type = 3 => m = Signature(d) /\ Signed(d)
BY DEF UpMessages, UserDHMsg, Junk, Signature, UserSigMsg, FirstRecord, Record

\* A user that has signed has done so with its own key, and keeps it.
LEMMA MessagesStay ==
    ASSUME \A d \in Dialers : Signed(d) =>
              Signed(d)' /\ dialer'[d].config = dialer[d].config
    PROVE  Grows
<1> SUFFICES ASSUME NEW e \in Ends PROVE Carried(e) \subseteq Carried(e)'
  BY DEF Grows
<1>1. e[1] \in Dialers
  BY DialerOfEnd
<1>2. UpMessages(e[1]) \subseteq UpMessages(e[1])'
  <2>1. CASE Signed(e[1])
    <3>1. Signed(e[1])' /\ Signature(e[1])' = Signature(e[1])
      BY <1>1, <2>1 DEF Signature, UserSigMsg
    <3> QED BY <2>1, <3>1 DEF UpMessages, UserDHMsg, FirstRecord, Record
  <2>2. CASE ~Signed(e[1])
    BY <2>2 DEF UpMessages, UserDHMsg
  <2> QED BY <2>1, <2>2
<1>3. DownMessages(e[1])' = DownMessages(e[1])
  BY DEF DownMessages, ServerDHMsg
<1> QED BY <1>2, <1>3 DEF Carried

ConnectionInv(d) == DialerInv(d) /\ ServerInv(d) /\ StreamInv(d)

LEMMA OtherConnection ==
    ASSUME NEW c \in Dialers, ConnectionInv(c),
           dialer'[c] = dialer[c], keys'[Server(c)] = keys[Server(c)],
           Pipe(User(c))' = Pipe(User(c)), Pipe(Server(c))' = Pipe(Server(c)),
           server' = server \/ (~Serving(c) /\ ~Serving(c)')
    PROVE  ConnectionInv(c)'
<1>1. /\ DialerAt(c, "idle")' = DialerAt(c, "idle") /\ DialerAt(c, "done")' = DialerAt(c, "done")
      /\ Signed(c)' = Signed(c)
      /\ Registered(Server(c))' = Registered(Server(c))
      /\ UserDHMsg(c)' = UserDHMsg(c) /\ Signature(c)' = Signature(c)
      /\ FirstRecord(c)' = FirstRecord(c)
  BY DEF DialerAt, Signed, Registered, UserDHMsg, Signature, UserSigMsg, FirstRecord, Record
<1>2. DialerInv(c)'
  BY <1>1 DEF ConnectionInv, DialerInv
<1>3. ServerInv(c)'
  BY <1>1 DEF ConnectionInv, ServerInv, Serving
<1>4. UserSent(c)' = UserSent(c) /\ ServerTook(c)' = ServerTook(c)
  BY <1>1 DEF UserSent, ServerTook, Serving
<1>5. StreamInv(c)'
  BY <1>4 DEF ConnectionInv, StreamInv, Serving
<1> QED BY <1>2, <1>3, <1>5 DEF ConnectionInv

LEMMA InvParts ==
    HandshakeInv <=> /\ ControlInv /\ BuffersInv /\ KeysInv /\ QueueInv
                     /\ \A d \in Dialers : ConnectionInv(d)
BY DEF HandshakeInv, ConnectionInv

\* TCP alone.
LEMMA TCPOnly ==
    ASSUME HandshakeInv, UNCHANGED <<dialer, server, connChan, keys>>, resets' \in 0 .. MaxResets,
           BuffersInv', \A f \in Ends : Pipe(f)' = Pipe(f)
    PROVE  HandshakeInv'
<1>1. ASSUME NEW c \in Dialers PROVE ConnectionInv(c)'
  <2>1. Pipe(User(c))' = Pipe(User(c)) /\ Pipe(Server(c))' = Pipe(Server(c))
    BY EndsOfDialer
  <2>2. ConnectionInv(c)
    BY InvParts
  <2> QED BY <2>1, <2>2, OtherConnection
<1>2. ControlInv'
  BY DEF HandshakeInv, ControlInv
<1>3. KeysInv'
  BY DEF HandshakeInv, KeysInv, DialerAt, KeysOf
<1>4. QueueInv'
  BY DEF HandshakeInv, QueueInv, DialerAt, Registered, Serving, ServerAt
<1> QED BY <1>1, <1>2, <1>3, <1>4 DEF HandshakeInv, ConnectionInv

\* A step of the user of d, once it is connected.
LEMMA UserStep ==
    ASSUME HandshakeInv, NEW d \in Dialers, NEW r \in DialerRecord,
           dialer' = [dialer EXCEPT ![d] = r], UNCHANGED <<server, connChan, resets>>,
           ~DialerAt(d, "idle"), r.pc # "idle", r.config = dialer[d].config,
           Signed(d) => r.pc \in {"signed", "done"},
           keys' = [keys EXCEPT ![User(d)] = IF r.pc = "done" THEN KeysOf(d, "user") ELSE NoKeys],
           BuffersInv',
           \A f \in Ends : f[1] # d => Pipe(f)' = Pipe(f),
           DialerInv(d)', StreamInv(d)'
    PROVE  HandshakeInv'
<1> USE InvParts
<1>1. /\ dialer'[d] = r
      /\ \A c \in Dialers : c # d => dialer'[c] = dialer[c]
      /\ dialer' \in [Dialers -> DialerRecord]
  BY DEF ControlInv
<1>2. /\ keys' = [e \in Ends |-> keys'[e]]
      /\ keys'[User(d)] = IF r.pc = "done" THEN KeysOf(d, "user") ELSE NoKeys
      /\ \A c \in Dialers : /\ keys'[Server(c)] = keys[Server(c)]
                            /\ c # d => keys'[User(c)] = keys[User(c)]
  BY EndsOfDialer DEF KeysInv
<1>3. ASSUME NEW c \in Dialers, c # d PROVE ConnectionInv(c)'
  <2>1. Pipe(User(c))' = Pipe(User(c)) /\ Pipe(Server(c))' = Pipe(Server(c))
    BY <1>3, EndsOfDialer
  <2> QED BY <1>1, <1>2, <1>3, <2>1, OtherConnection
<1>4. ServerInv(d)'
  <2>1. ServerInv(d)
    BY DEF ConnectionInv
  <2> QED BY <1>1, <1>2, <2>1 DEF ServerInv, DialerAt, Signed, Registered, Serving
<1>5. ControlInv'
  BY <1>1 DEF ControlInv
<1>6. KeysInv'
  BY <1>1, <1>2 DEF KeysInv, DialerAt, KeysOf
<1>7. QueueInv'
  <2>1. \A c \in Dialers : /\ DialerAt(c, "idle")' = DialerAt(c, "idle")
                           /\ Registered(Server(c))' = Registered(Server(c))
                           /\ Serving(c)' = Serving(c)
    BY <1>1, <1>2 DEF DialerAt, Registered, Serving
  <2>2. \A i \in 1..Len(connChan) : connChan[i] \in Dialers
    BY DEF ControlInv
  <2> QED BY <2>1, <2>2 DEF QueueInv, ServerAt
<1> QED BY <1>3, <1>4, <1>5, <1>6, <1>7 DEF HandshakeInv, ConnectionInv

\* A step of the server on the connection that it serves.
LEMMA ServerStep ==
    ASSUME HandshakeInv, NEW d \in Dialers, Serving(d),
           server' \in ServerRecord, server'.conn = d, UNCHANGED <<dialer, connChan, resets>>,
           keys' = [keys EXCEPT ![Server(d)] = keys'[Server(d)]],
           keys'[Server(d)] \in {NoKeys, KeysOf(d, "server")},
           BuffersInv',
           \A f \in Ends : f[1] # d => Pipe(f)' = Pipe(f),
           ConnectionInv(d)'
    PROVE  HandshakeInv'
<1> USE InvParts
<1>1. /\ keys' = [e \in Ends |-> keys'[e]]
      /\ \A c \in Dialers : /\ keys'[User(c)] = keys[User(c)]
                            /\ c # d => keys'[Server(c)] = keys[Server(c)]
  BY EndsOfDialer DEF KeysInv
<1>2. \A c \in Dialers : c # d => ~Serving(c) /\ ~Serving(c)'
  BY DEF Serving
<1>3. ASSUME NEW c \in Dialers, c # d PROVE ConnectionInv(c)'
  <2>1. Pipe(User(c))' = Pipe(User(c)) /\ Pipe(Server(c))' = Pipe(Server(c))
    BY <1>3, EndsOfDialer
  <2> QED BY <1>1, <1>2, <1>3, <2>1, OtherConnection
<1>4. ControlInv'
  BY DEF ControlInv
<1>5. KeysInv'
  BY <1>1 DEF KeysInv, DialerAt, KeysOf
<1>6. QueueInv'
  <2>1. \A i \in 1..Len(connChan) : connChan[i] \in Dialers /\ connChan[i] # d
    BY DEF ControlInv, QueueInv
  <2>2. \A c \in Dialers : DialerAt(c, "idle")' = DialerAt(c, "idle")
    BY DEF DialerAt
  <2>3. \A c \in Dialers : c # d => Registered(Server(c))' = Registered(Server(c))
    BY <1>1 DEF Registered
  <2> QED BY <1>2, <2>1, <2>2, <2>3 DEF QueueInv, ServerAt
<1> QED BY <1>3, <1>4, <1>5, <1>6 DEF HandshakeInv, ConnectionInv

-----------------------------------------------------------------------------
(* The streams *)

LEMMA PipeType ==
    ASSUME BuffersInv, NEW e \in Ends
    PROVE  Pipe(e) \in Seq(Carried(e))
<1>1. sendBuf[e] \in Seq(Carried(e)) /\ recvBuf[Peer[e]] \in Seq(Carried(e))
  BY DEF BuffersInv
<1> QED BY <1>1, ConcatProperties DEF Pipe

\* All messages of a user, the signature included.
UserMessages(d) == {UserDHMsg(d), Junk, Signature(d), FirstRecord(d)}

LEMMA StreamTypes ==
    ASSUME BuffersInv, NEW d \in Dialers
    PROVE  /\ Pipe(User(d)) \in Seq(UserMessages(d))
           /\ ServerTook(d) \in Seq(UserMessages(d))
           /\ UserSent(d) \in Seq(UserMessages(d))
<1>1. Pipe(User(d)) \in Seq(UpMessages(d))
  BY PipeType, CarriedBy, EndsOfDialer
<1>2. UpMessages(d) \subseteq UserMessages(d)
  BY DEF UpMessages, UserMessages
<1>3. /\ UserDHMsg(d) \in UserMessages(d) /\ Signature(d) \in UserMessages(d)
      /\ FirstRecord(d) \in UserMessages(d)
  BY DEF UserMessages
<1> HIDE DEF UserMessages
<1>4. /\ <<>> \in Seq(UserMessages(d)) /\ <<UserDHMsg(d)>> \in Seq(UserMessages(d))
      /\ <<UserDHMsg(d), Signature(d)>> \in Seq(UserMessages(d))
      /\ <<UserDHMsg(d), Signature(d), FirstRecord(d)>> \in Seq(UserMessages(d))
  BY <1>3
<1>5. Pipe(User(d)) \in Seq(UserMessages(d))
  BY <1>1, <1>2, SeqMonotonic
<1>6. ServerTook(d) \in Seq(UserMessages(d))
  BY <1>4 DEF ServerTook
<1>7. UserSent(d) \in Seq(UserMessages(d))
  BY <1>4 DEF UserSent
<1> QED BY <1>5, <1>6, <1>7

\* The user writes one more message.
LEMMA StreamWritten ==
    ASSUME BuffersInv, NEW d \in Dialers, StreamInv(d),
           dialer[d].pc \notin {"close", "failed"}, NEW m \in UserMessages(d),
           UserSent(d)' = UserSent(d) \o <<m>>,
           Pipe(User(d))' = Pipe(User(d)) \o <<m>>,
           server' = server, ServerTook(d)' = ServerTook(d)
    PROVE  StreamInv(d)'
<1>1. CASE Serving(d) /\ server.pc \in {"close", "ended"}
  BY <1>1 DEF StreamInv, Serving
<1>2. CASE UserSent(d) = ServerTook(d) \o Pipe(User(d))
  <2>1. ServerTook(d) \o (Pipe(User(d)) \o <<m>>) = (ServerTook(d) \o Pipe(User(d))) \o <<m>>
    BY StreamTypes, ElementWritten
  <2>2. UserSent(d)' = ServerTook(d)' \o Pipe(User(d))'
    BY <1>2, <2>1
  <2> QED BY <2>2 DEF StreamInv
<1> QED BY <1>1, <1>2 DEF StreamInv

\* The server takes the next message.
LEMMA StreamTaken ==
    ASSUME BuffersInv, NEW d \in Dialers, NEW m \in UserMessages(d),
           UserSent(d) = ServerTook(d) \o Pipe(User(d)),
           UserSent(d)' = UserSent(d), ServerTook(d)' = ServerTook(d) \o <<m>>,
           Pipe(User(d)) = <<m>> \o Pipe(User(d))', Pipe(User(d))' \in Seq(UserMessages(d))
    PROVE  StreamInv(d)'
<1>1. <<m>> \in Seq(UserMessages(d))
  OBVIOUS
<1>2. (ServerTook(d) \o <<m>>) \o Pipe(User(d))' = ServerTook(d) \o (<<m>> \o Pipe(User(d))')
  <2>1. ServerTook(d) \in Seq(UserMessages(d))
    BY StreamTypes
  <2> HIDE DEF UserMessages
  <2> QED BY <1>1, <2>1, ConcatAssociative
<1> QED BY <1>2 DEF StreamInv

-----------------------------------------------------------------------------
(* The steps of the user *)

LEMMA UserFacts ==
    ASSUME HandshakeInv, NEW d \in Dialers
    PROVE  /\ dialer[d] \in DialerRecord
           /\ keys = [keys EXCEPT ![User(d)] =
                        IF DialerAt(d, "done") THEN KeysOf(d, "user") ELSE NoKeys]
           /\ ConnectionInv(d) /\ BuffersInv
<1>1. dialer[d] \in DialerRecord /\ KeysInv
  BY DEF HandshakeInv, ControlInv
<1>2. keys[User(d)] = IF DialerAt(d, "done") THEN KeysOf(d, "user") ELSE NoKeys
  BY <1>1 DEF KeysInv
<1>3. keys = [keys EXCEPT ![User(d)] = keys[User(d)]]
  BY <1>1, EndsOfDialer DEF KeysInv
<1> QED BY <1>1, <1>2, <1>3, InvParts

\* A step that only moves the program counter, with nothing written or read.
LEMMA UserMoves ==
    ASSUME HandshakeInv, NEW d \in Dialers, NEW pc,
           \/ dialer[d].pc \in {"send", "read", "sign", "wait"} /\ pc = "close"
           \/ dialer[d].pc \in {"plain", "close"} /\ pc = "failed"
           \/ DialerAt(d, "read") /\ pc = "wait",
           DialerTo(d, pc), UNCHANGED <<server, connChan, keys, resets>>,
           Grows => BuffersInv', \A f \in Ends : f[1] # d => Pipe(f)' = Pipe(f),
           pc = "wait" => Pipe(User(d))' = Pipe(User(d))
    PROVE  HandshakeInv'
<1> DEFINE r == [dialer[d] EXCEPT !.pc = pc]
<1>1. /\ dialer[d] \in DialerRecord /\ ConnectionInv(d) /\ BuffersInv
      /\ keys = [keys EXCEPT ![User(d)] = NoKeys]
  BY UserFacts DEF DialerAt
<1>2. /\ r \in DialerRecord /\ r.pc = pc /\ r.config = dialer[d].config
      /\ r.serverPub = dialer[d].serverPub /\ r.sent = dialer[d].sent
      /\ dialer' = [dialer EXCEPT ![d] = r]
      /\ ~DialerAt(d, "idle") /\ ~Signed(d) /\ pc \in {"wait", "close", "failed"}
  BY <1>1 DEF DialerRecord, DialerTo, DialerAt, Signed
<1>3. dialer'[d] = r /\ \A c \in Dialers : c # d => dialer'[c] = dialer[c]
  BY <1>2 DEF HandshakeInv, ControlInv
<1> HIDE DEF r
<1>4. BuffersInv'
  <2>1. \A c \in Dialers : Signed(c) => Signed(c)' /\ dialer'[c].config = dialer[c].config
    BY <1>2, <1>3 DEF Signed
  <2> QED BY <2>1, MessagesStay
<1>5. DialerInv(d)'
  BY <1>1, <1>2, <1>3 DEF ConnectionInv, DialerInv, DialerAt
<1>6. StreamInv(d)'
  <2>1. CASE pc # "wait"
    BY <1>2, <1>3, <2>1 DEF StreamInv
  <2>2. CASE pc = "wait"
    <3>1. UserDHMsg(d)' = UserDHMsg(d) /\ DialerAt(d, "read")
      BY <2>2 DEF UserDHMsg, DialerAt
    <3>2. UserSent(d)' = UserSent(d)
      BY <1>2, <1>3, <2>2, <3>1 DEF UserSent, Signed, DialerAt
    <3>3. ~Registered(Server(d)) /\ ~Registered(Server(d))'
      BY <1>1, <1>2 DEF ConnectionInv, ServerInv, Registered
    <3>4. ServerTook(d)' = ServerTook(d)
      BY <3>1, <3>3 DEF ServerTook, Serving
    <3> QED BY <1>1, <2>2, <3>1, <3>2, <3>4 DEF ConnectionInv, StreamInv, Serving, DialerAt
  <2> QED BY <2>1, <2>2
<1>7. keys' = [keys EXCEPT ![User(d)] = IF r.pc = "done" THEN KeysOf(d, "user") ELSE NoKeys]
  BY <1>1, <1>2
<1> QED BY <1>2, <1>4, <1>5, <1>6, <1>7, UserStep

LEMMA HandshakeUserReads ==
    ASSUME HandshakeInv, NEW d \in Dialers, UserReads(d)
    PROVE  HandshakeInv'
<1>1. DialerAt(d, "read") /\ DialerTo(d, "wait") /\ UNCHANGED <<tcpVars, server, connChan, keys, resets>>
  BY DEF UserReads
<1>2. Grows => BuffersInv' /\ \A f \in Ends : Pipe(f)' = Pipe(f)
  BY NothingMoves, <1>1 DEF HandshakeInv
<1>3. \A f \in Ends : Pipe(f)' = Pipe(f)
  BY <1>1 DEF Pipe, tcpVars
<1> QED BY <1>1, <1>2, <1>3, EndsOfDialer, UserMoves

LEMMA HandshakeUserFails ==
    ASSUME HandshakeInv, NEW d \in Dialers, UserFails(d)
    PROVE  HandshakeInv'
<1>1. /\ dialer[d].pc \in {"send", "read", "sign", "wait"}
      /\ DialerTo(d, "close") /\ UNCHANGED <<tcpVars, server, connChan, keys, resets>>
  BY DEF UserFails, DialerAt
<1>2. Grows => BuffersInv'
  BY NothingMoves, <1>1 DEF HandshakeInv
<1>3. \A f \in Ends : Pipe(f)' = Pipe(f)
  BY <1>1 DEF Pipe, tcpVars
<1> QED BY <1>1, <1>2, <1>3, UserMoves

LEMMA HandshakeUserCloses ==
    ASSUME HandshakeInv, NEW d \in Dialers, UserCloses(d)
    PROVE  HandshakeInv'
<1>1. /\ DialerAt(d, "close") /\ DialerTo(d, "failed") /\ UNCHANGED <<server, connChan, keys, resets>>
      /\ UNCHANGED tcpVars \/ VCloseFin(User(d))
  BY DEF UserCloses
<1>2. Grows => BuffersInv'
  BY NothingMoves, CloseKeeps, EndsOfDialer, <1>1 DEF HandshakeInv
<1>3. \A f \in Ends : Pipe(f)' = Pipe(f)
  BY <1>1 DEF Pipe, tcpVars, VCloseFin
<1> QED BY <1>1, <1>2, <1>3, UserMoves DEF DialerAt

\* Text of a plain TCP client is in the pipe, but no message of the handshake.
LEMMA HandshakePlainClient ==
    ASSUME HandshakeInv, NEW d \in Dialers, PlainClient(d)
    PROVE  HandshakeInv'
<1>1. /\ DialerAt(d, "plain") /\ DialerTo(d, "failed") /\ UNCHANGED <<server, connChan, keys, resets>>
      /\ WriteSerializableMessage(User(d), Junk) \/ VCloseFin(User(d))
  BY DEF PlainClient
<1>2. Junk \in Carried(User(d))'
  BY EndsOfDialer DEF Carried, UpMessages
<1>3. Grows => BuffersInv' /\ \A f \in Ends : f # User(d) => Pipe(f)' = Pipe(f)
  <2>1. BuffersInv /\ User(d) \in Ends
    BY EndsOfDialer DEF HandshakeInv
  <2>2. CASE WriteSerializableMessage(User(d), Junk)
    BY <1>2, <2>1, <2>2, WriteKeeps
  <2>3. CASE VCloseFin(User(d))
    BY <2>1, <2>3, CloseKeeps
  <2> QED BY <1>1, <2>2, <2>3
<1>4. \A f \in Ends : f[1] # d => Pipe(f)' = Pipe(f)
  <2> SUFFICES ASSUME NEW f \in Ends, f[1] # d PROVE Pipe(f)' = Pipe(f)
    OBVIOUS
  <2>1. f # User(d)
    BY EndsOfDialer
  <2>2. recvBuf' = recvBuf /\ sendBuf'[f] = sendBuf[f]
    BY <1>1, <2>1 DEF WriteSerializableMessage, VWriteStore, VCloseFin, HandshakeInv, BuffersInv
  <2> QED BY <2>2 DEF Pipe
<1> QED BY <1>1, <1>3, <1>4, UserMoves DEF DialerAt

\* The three steps in which the user writes a message of its own: the first, the
\* signature, and the first record.
LEMMA UserWrites ==
    ASSUME HandshakeInv, NEW d \in Dialers, NEW r \in DialerRecord,
           NEW m, m \in UpMessages(d)', m \in UserMessages(d),
           WriteSerializableMessage(User(d), m),
           dialer' = [dialer EXCEPT ![d] = r], UNCHANGED <<server, connChan, resets>>,
           dialer[d].pc \in {"send", "sign", "done"}, r.pc \in {"read", "signed", "done"},
           r.config = dialer[d].config, r.serverPub = dialer[d].serverPub,
           DialerAt(d, "done") => r.pc = "done",
           r.pc # "read" => dialer[d].pc \in {"sign", "done"},
           r.sent => r.pc = "done",
           keys' = [keys EXCEPT ![User(d)] = IF r.pc = "done" THEN KeysOf(d, "user") ELSE NoKeys],
           UserSent(d)' = UserSent(d) \o <<m>>
    PROVE  HandshakeInv'
<1>1. /\ dialer[d] \in DialerRecord /\ ConnectionInv(d) /\ BuffersInv /\ KeysInv
      /\ User(d) \in Ends
  BY UserFacts, InvParts, EndsOfDialer
<1>2. dialer'[d] = r /\ \A c \in Dialers : c # d => dialer'[c] = dialer[c]
  BY DEF HandshakeInv, ControlInv
<1>3. Grows
  BY <1>2, MessagesStay DEF Signed, DialerAt
<1>4. m \in Carried(User(d))'
  BY EndsOfDialer DEF Carried
<1>5. /\ BuffersInv' /\ Pipe(User(d))' = Pipe(User(d)) \o <<m>>
      /\ \A f \in Ends : f # User(d) => Pipe(f)' = Pipe(f)
  BY <1>1, <1>3, <1>4, WriteKeeps
<1>6. \A f \in Ends : f[1] # d => Pipe(f)' = Pipe(f)
  BY <1>5, EndsOfDialer
<1>7. DialerInv(d)'
  BY <1>1, <1>2 DEF ConnectionInv, DialerInv, DialerAt
<1>8. StreamInv(d)'
  <2>1. Registered(Server(d))' = Registered(Server(d))
    BY <1>1, EndsOfDialer DEF KeysInv, Registered
  <2>2. UserDHMsg(d)' = UserDHMsg(d) /\ Signature(d)' = Signature(d)
    BY <1>2 DEF UserDHMsg, Signature, UserSigMsg
  <2>3. ServerTook(d)' = ServerTook(d)
    BY <2>1, <2>2 DEF ServerTook, Serving
  <2> QED BY <1>1, <1>5, <2>3, StreamWritten DEF ConnectionInv
<1> QED BY <1>2, <1>5, <1>6, <1>7, <1>8, UserStep DEF DialerAt, Signed

LEMMA OneMore ==
    ASSUME NEW a, NEW b, NEW c
    PROVE  <<>> \o <<a>> = <<a>> /\ <<a>> \o <<b>> = <<a, b>> /\ <<a, b>> \o <<c>> = <<a, b, c>>
<1> DEFINE S == {a, b, c}
<1>1. a \in S /\ b \in S /\ c \in S
  OBVIOUS
<1> HIDE DEF S
<1>2. <<>> \in Seq(S) /\ <<a>> \in Seq(S) /\ <<a, b>> \in Seq(S)
  BY <1>1
<1>3. <<a, b, c>> \in Seq(S)
  BY <1>1
<1>4. Append(<<>>, a) = <<a>> /\ Append(<<a>>, b) = <<a, b>> /\ Append(<<a, b>>, c) = <<a, b, c>>
  <2>1. Append(<<>>, a) = <<a>>
    OBVIOUS
  <2>2. Append(<<a>>, b) = <<a, b>>
    <3>1. Len(<<a>>) = 1 /\ <<a>>[1] = a
      OBVIOUS
    <3>2. /\ Append(<<a>>, b) \in Seq(S) /\ Len(Append(<<a>>, b)) = 1 + 1
          /\ Append(<<a>>, b)[1] = a /\ Append(<<a>>, b)[1 + 1] = b
      BY <1>1, <1>2, <3>1, AppendProperties
    <3>3. <<a, b>> \in Seq(S) /\ Len(<<a, b>>) = 2 /\ <<a, b>>[1] = a /\ <<a, b>>[2] = b
      BY <1>1
    <3> DEFINE s == Append(<<a>>, b)
               t == <<a, b>>
    <3>4. s \in Seq(S) /\ t \in Seq(S) /\ Len(s) = 2 /\ Len(t) = 2
          /\ s[1] = t[1] /\ s[2] = t[2]
      BY <3>2, <3>3
    <3> HIDE DEF s, t
    <3>5. s = t
      BY <3>4, SeqEqual
    <3> QED BY <3>5 DEF s, t
  <2>3. Append(<<a, b>>, c) = <<a, b, c>>
    <3>1. Len(<<a, b>>) = 2 /\ <<a, b>>[1] = a /\ <<a, b>>[2] = b
      OBVIOUS
    <3>2. /\ Append(<<a, b>>, c) \in Seq(S) /\ Len(Append(<<a, b>>, c)) = 2 + 1
          /\ Append(<<a, b>>, c)[1] = a /\ Append(<<a, b>>, c)[2] = b
          /\ Append(<<a, b>>, c)[2 + 1] = c
      BY <1>1, <1>2, <3>1, AppendProperties
    <3>3. /\ <<a, b, c>> \in Seq(S) /\ Len(<<a, b, c>>) = 3
          /\ <<a, b, c>>[1] = a /\ <<a, b, c>>[2] = b /\ <<a, b, c>>[3] = c
      BY <1>1
    <3> DEFINE s == Append(<<a, b>>, c)
               t == <<a, b, c>>
    <3>4. s \in Seq(S) /\ t \in Seq(S) /\ Len(s) = 3 /\ Len(t) = 3
          /\ s[1] = t[1] /\ s[2] = t[2] /\ s[3] = t[3]
      BY <3>2, <3>3
    <3> HIDE DEF s, t
    <3>5. s = t
      BY <3>4, SeqEqual
    <3> QED BY <3>5 DEF s, t
  <2> QED BY <2>1, <2>2, <2>3
<1> QED BY <1>1, <1>2, <1>4, AppendIsConcat

LEMMA HandshakeUserSendsDH ==
    ASSUME HandshakeInv, NEW d \in Dialers, UserSendsDH(d)
    PROVE  HandshakeInv'
<1> DEFINE r == [dialer[d] EXCEPT !.pc = "read"]
<1>1. /\ DialerAt(d, "send") /\ WriteSerializableMessage(User(d), UserDHMsg(d))
      /\ dialer' = [dialer EXCEPT ![d] = r] /\ UNCHANGED <<server, connChan, keys, resets>>
  BY DEF UserSendsDH, DialerTo
<1>2. /\ dialer[d] \in DialerRecord /\ ConnectionInv(d)
      /\ keys = [keys EXCEPT ![User(d)] = NoKeys]
  BY <1>1, UserFacts DEF DialerAt
<1>3. /\ r \in DialerRecord /\ r.pc = "read" /\ r.config = dialer[d].config
      /\ r.serverPub = dialer[d].serverPub /\ ~r.sent
  BY <1>1, <1>2 DEF DialerRecord, DialerAt, ConnectionInv, DialerInv
<1>4. dialer'[d] = r
  BY <1>1 DEF HandshakeInv, ControlInv
<1> HIDE DEF r
<1>5. UserDHMsg(d) \in UpMessages(d)' /\ UserDHMsg(d) \in UserMessages(d)
  BY DEF UpMessages, UserMessages, UserDHMsg
<1>6. UserSent(d)' = UserSent(d) \o <<UserDHMsg(d)>>
  <2>1. UserSent(d) = <<>> /\ UserSent(d)' = <<UserDHMsg(d)>>
    BY <1>1, <1>3, <1>4 DEF UserSent, Signed, DialerAt, UserDHMsg
  <2> QED BY <2>1, OneMore
<1> QED BY <1>1, <1>2, <1>3, <1>5, <1>6, UserWrites DEF DialerAt

\* The signature is for the server's value, since that is what the user has taken.
LEMMA HandshakeUserSigns ==
    ASSUME HandshakeInv, NEW d \in Dialers, UserSigns(d)
    PROVE  HandshakeInv'
<1> DEFINE r == [dialer[d] EXCEPT !.pc = "signed"]
<1>1. /\ DialerAt(d, "sign") /\ dialer' = [dialer EXCEPT ![d] = r]
      /\ UNCHANGED <<server, connChan, keys, resets>>
      /\ WriteSerializableMessage(User(d), UserSigMsg(d, dialer[d].serverPub))
  BY DEF UserSigns, DialerTo
<1>2. /\ dialer[d] \in DialerRecord /\ ConnectionInv(d)
      /\ keys = [keys EXCEPT ![User(d)] = NoKeys]
  BY <1>1, UserFacts DEF DialerAt
<1>3. dialer[d].serverPub = ServerPub(d) /\ ~dialer[d].sent
  BY <1>1, <1>2 DEF ConnectionInv, DialerInv, DialerAt
<1>4. WriteSerializableMessage(User(d), Signature(d))
  BY <1>1, <1>3 DEF Signature
<1>5. /\ r \in DialerRecord /\ r.pc = "signed" /\ r.config = dialer[d].config
      /\ r.serverPub = dialer[d].serverPub /\ ~r.sent
  BY <1>1, <1>2, <1>3 DEF DialerRecord
<1>6. dialer'[d] = r
  BY <1>1 DEF HandshakeInv, ControlInv
<1> HIDE DEF r
<1>7. Signature(d)' = Signature(d)
  BY <1>5, <1>6 DEF Signature, UserSigMsg
<1>8. Signature(d) \in UpMessages(d)' /\ Signature(d) \in UserMessages(d)
  BY <1>5, <1>6, <1>7 DEF UpMessages, UserMessages, Signed
<1>9. UserSent(d)' = UserSent(d) \o <<Signature(d)>>
  <2>1. UserSent(d) = <<UserDHMsg(d)>> /\ UserSent(d)' = <<UserDHMsg(d), Signature(d)>>
    BY <1>1, <1>5, <1>6, <1>7 DEF UserSent, Signed, DialerAt, UserDHMsg
  <2> QED BY <2>1, OneMore
<1> QED BY <1>1, <1>2, <1>4, <1>5, <1>8, <1>9, UserWrites DEF DialerAt

\* The keys come from the values that the signature is for, and nothing is sent.
LEMMA HandshakeUserRegisters ==
    ASSUME HandshakeInv, NEW d \in Dialers, UserRegisters(d)
    PROVE  HandshakeInv'
<1> DEFINE r == [dialer[d] EXCEPT !.pc = "done"]
<1>1. /\ DialerAt(d, "signed") /\ dialer' = [dialer EXCEPT ![d] = r]
      /\ UNCHANGED <<tcpVars, server, connChan, resets>>
      /\ keys' = [keys EXCEPT ![User(d)] =
            DeriveWriteKeys(ComputeSharedSecret(DHPub(User(d)), dialer[d].serverPub),
                            DHPub(User(d)), dialer[d].serverPub, "user")]
  BY DEF UserRegisters, DialerTo
<1>2. dialer[d] \in DialerRecord /\ ConnectionInv(d) /\ BuffersInv /\ KeysInv
  BY UserFacts, InvParts
<1>3. /\ dialer[d].serverPub = ServerPub(d) /\ ~dialer[d].sent
      /\ dialer[d].config.ServerVerifyKey = ServerSignKey
  BY <1>1, <1>2 DEF ConnectionInv, DialerInv, DialerAt
<1>4. keys' = [keys EXCEPT ![User(d)] = KeysOf(d, "user")]
  BY <1>1, <1>3 DEF KeysOf, Secret, ComputeSharedSecret, UserPub
<1>5. /\ r \in DialerRecord /\ r.pc = "done" /\ r.config = dialer[d].config
      /\ r.serverPub = dialer[d].serverPub /\ ~r.sent
  BY <1>1, <1>2, <1>3 DEF DialerRecord
<1>6. dialer'[d] = r /\ \A c \in Dialers : c # d => dialer'[c] = dialer[c]
  BY <1>1 DEF HandshakeInv, ControlInv
<1> HIDE DEF r
<1>7. BuffersInv' /\ \A f \in Ends : Pipe(f)' = Pipe(f)
  <2>1. Grows
    BY <1>5, <1>6, MessagesStay DEF Signed
  <2> QED BY <1>1, <1>2, <2>1, NothingMoves
<1>8. DialerInv(d)'
  BY <1>3, <1>5, <1>6 DEF DialerInv, DialerAt
<1>9. StreamInv(d)'
  <2>1. Registered(Server(d))' = Registered(Server(d))
    BY <1>2, <1>4, EndsOfDialer DEF KeysInv, Registered
  <2>2. UserDHMsg(d)' = UserDHMsg(d) /\ Signature(d)' = Signature(d)
    BY <1>5, <1>6 DEF UserDHMsg, Signature, UserSigMsg
  <2>3. UserSent(d)' = UserSent(d)
    BY <1>1, <1>3, <1>5, <1>6, <2>2 DEF UserSent, Signed, DialerAt
  <2>4. ServerTook(d)' = ServerTook(d)
    BY <1>1, <2>1, <2>2 DEF ServerTook, Serving
  <2>5. Pipe(User(d))' = Pipe(User(d))
    BY <1>7, EndsOfDialer
  <2> QED BY <1>1, <1>2, <2>3, <2>4, <2>5 DEF ConnectionInv, StreamInv, Serving, DialerAt
<1> QED BY <1>1, <1>4, <1>5, <1>7, <1>8, <1>9, UserStep DEF DialerAt

LEMMA HandshakeFirstWrite ==
    ASSUME HandshakeInv, NEW d \in Dialers, FirstWrite(d)
    PROVE  HandshakeInv'
<1> DEFINE r == [dialer[d] EXCEPT !.sent = TRUE]
<1>1. /\ DialerAt(d, "done") /\ ~dialer[d].sent /\ dialer' = [dialer EXCEPT ![d] = r]
      /\ UNCHANGED <<server, connChan, keys, resets>>
      /\ WriteSerializableMessage(User(d), Record(SealKey(User(d))))
  BY DEF FirstWrite
<1>2. /\ dialer[d] \in DialerRecord /\ ConnectionInv(d) /\ KeysInv
      /\ keys = [keys EXCEPT ![User(d)] = KeysOf(d, "user")]
  BY <1>1, UserFacts, InvParts
<1>3. Record(SealKey(User(d))) = FirstRecord(d)
  <2>1. keys[User(d)] = KeysOf(d, "user")
    BY <1>1, <1>2 DEF KeysInv
  <2> QED BY <2>1 DEF SealKey, FirstRecord, KeysOf, DeriveWriteKeys
<1>4. /\ r \in DialerRecord /\ r.pc = "done" /\ r.config = dialer[d].config
      /\ r.serverPub = dialer[d].serverPub /\ r.sent
  BY <1>1, <1>2 DEF DialerRecord, DialerAt
<1>5. dialer'[d] = r
  BY <1>1 DEF HandshakeInv, ControlInv
<1> HIDE DEF r
<1>6. FirstRecord(d) \in UpMessages(d)' /\ FirstRecord(d) \in UserMessages(d)
  BY <1>4, <1>5 DEF UpMessages, UserMessages, Signed, FirstRecord, Record
<1>7. UserSent(d)' = UserSent(d) \o <<FirstRecord(d)>>
  <2>1. Signature(d)' = Signature(d) /\ FirstRecord(d)' = FirstRecord(d) /\ UserDHMsg(d)' = UserDHMsg(d)
    BY <1>4, <1>5 DEF Signature, UserSigMsg, FirstRecord, Record, UserDHMsg
  <2>2. /\ UserSent(d) = <<UserDHMsg(d), Signature(d)>>
        /\ UserSent(d)' = <<UserDHMsg(d), Signature(d), FirstRecord(d)>>
    BY <1>1, <1>4, <1>5, <2>1 DEF UserSent, Signed, DialerAt
  <2> QED BY <2>2, OneMore
<1> QED BY <1>1, <1>2, <1>3, <1>4, <1>6, <1>7, UserWrites DEF DialerAt

\* UserAccepts leaves only the answer of the trusted server to this user's value.
LEMMA HandshakeUserTakesServerDH ==
    ASSUME HandshakeInv, NEW d \in Dialers, UserTakesServerDH(d)
    PROVE  HandshakeInv'
<1> DEFINE m == Incoming(User(d))
           r == IF UserAccepts(d, m) THEN [dialer[d] EXCEPT !.pc = "sign", !.serverPub = m.server]
                                     ELSE [dialer[d] EXCEPT !.pc = "close"]
<1>1. /\ DialerAt(d, "wait") /\ ReadSerializedMessage(User(d))
      /\ dialer' = [dialer EXCEPT ![d] = r] /\ UNCHANGED <<server, connChan, keys, resets>>
  BY DEF UserTakesServerDH
<1>2. /\ dialer[d] \in DialerRecord /\ ConnectionInv(d) /\ BuffersInv
      /\ keys = [keys EXCEPT ![User(d)] = NoKeys]
      /\ Server(d) \in Ends /\ Peer[Server(d)] = User(d)
  BY <1>1, UserFacts, EndsOfDialer DEF DialerAt
<1>3. dialer'[d] = r /\ \A c \in Dialers : c # d => dialer'[c] = dialer[c]
  BY <1>1 DEF HandshakeInv, ControlInv
<1>4. Grows
  BY <1>1, <1>3, MessagesStay DEF Signed, DialerAt
<1>5. /\ BuffersInv' /\ m \in DownMessages(d)
      /\ \A f \in Ends : f # Server(d) => Pipe(f)' = Pipe(f)
  BY <1>1, <1>2, <1>4, ReadKeeps, CarriedBy
<1>6. UserAccepts(d, m) => m.server = ServerPub(d) /\ dialer[d].config.ServerVerifyKey = ServerSignKey
  <2>1. m = ServerDHMsg(d, UserPub(d))
    BY <1>5 DEF DownMessages
  <2> QED BY <2>1 DEF UserAccepts, ServerDHMsg, Verify, Sign, ServerPub
<1>7. /\ r \in DialerRecord /\ r.pc \in {"sign", "close"} /\ r.config = dialer[d].config
      /\ ~r.sent /\ r.serverPub \in {None, ServerPub(d)}
      /\ r.pc = "sign" => /\ r.serverPub = ServerPub(d)
                          /\ dialer[d].config.ServerVerifyKey = ServerSignKey
  <2>1. ~dialer[d].sent /\ dialer[d].serverPub \in {None, ServerPub(d)}
    BY <1>1, <1>2 DEF ConnectionInv, DialerInv, DialerAt
  <2> HIDE DEF m
  <2> QED BY <1>2, <1>6, <2>1 DEF DialerRecord
<1> HIDE DEF r, m
<1>8. DialerInv(d)'
  BY <1>3, <1>7 DEF DialerInv, DialerAt
<1>9. \A f \in Ends : f[1] # d => Pipe(f)' = Pipe(f)
  BY <1>5, EndsOfDialer
<1>10. StreamInv(d)'
  <2>1. CASE r.pc = "close"
    BY <1>3, <2>1 DEF StreamInv
  <2>2. CASE r.pc = "sign"
    <3>1. UserDHMsg(d)' = UserDHMsg(d) /\ ~Registered(Server(d)) /\ ~Registered(Server(d))'
      BY <1>1, <1>2 DEF UserDHMsg, ConnectionInv, ServerInv, Registered, DialerAt, Signed
    <3>2. UserSent(d)' = UserSent(d)
      BY <1>1, <1>3, <2>2, <3>1 DEF UserSent, Signed, DialerAt
    <3>3. ServerTook(d)' = ServerTook(d)
      BY <1>1, <3>1 DEF ServerTook, Serving
    <3>4. Pipe(User(d))' = Pipe(User(d))
      BY <1>5, EndsOfDialer
    <3> QED BY <1>1, <1>2, <3>2, <3>3, <3>4 DEF ConnectionInv, StreamInv, Serving, DialerAt
  <2> QED BY <1>7, <2>1, <2>2
<1>11. keys' = [keys EXCEPT ![User(d)] = IF r.pc = "done" THEN KeysOf(d, "user") ELSE NoKeys]
  BY <1>1, <1>2, <1>7
<1> QED BY <1>1, <1>5, <1>7, <1>8, <1>9, <1>10, <1>11, UserStep DEF DialerAt, Signed

\* A new connection: nothing has been written, and it is queued once.
LEMMA HandshakeVConnect ==
    ASSUME HandshakeInv, NEW d \in Dialers, VConnect(d)
    PROVE  HandshakeInv'
<1>1. PICK r \in DialerRecord :
         /\ dialer' = [dialer EXCEPT ![d] = r] /\ r.pc \in {"plain", "send"}
         /\ r.serverPub = dialer[d].serverPub /\ r.sent = dialer[d].sent
  <2>1. dialer[d] \in DialerRecord
    BY UserFacts
  <2>2. CASE DialerTo(d, "plain")
    <3>1. [dialer[d] EXCEPT !.pc = "plain"] \in DialerRecord
      BY <2>1 DEF DialerRecord
    <3> QED BY <2>1, <2>2, <3>1 DEF DialerTo, DialerRecord
  <2>3. ASSUME NEW config \in ClientConfigs,
               dialer' = [dialer EXCEPT ![d].pc = "send", ![d].config = config]
        PROVE  \E r \in DialerRecord :
                  /\ dialer' = [dialer EXCEPT ![d] = r] /\ r.pc \in {"plain", "send"}
                  /\ r.serverPub = dialer[d].serverPub /\ r.sent = dialer[d].sent
    <3>1. [dialer[d] EXCEPT !.pc = "send", !.config = config] \in DialerRecord
      BY <2>1 DEF DialerRecord
    <3>2. dialer' = [dialer EXCEPT ![d] = [dialer[d] EXCEPT !.pc = "send", !.config = config]]
      BY <2>1, <2>3 DEF HandshakeInv, ControlInv
    <3> WITNESS [dialer[d] EXCEPT !.pc = "send", !.config = config] \in DialerRecord
    <3> QED BY <2>1, <3>2 DEF DialerRecord
  <2> QED BY <2>2, <2>3 DEF VConnect
<1>2. /\ DialerAt(d, "idle") /\ connChan' = Append(connChan, d)
      /\ UNCHANGED <<tcpVars, server, keys, resets>>
  BY DEF VConnect
<1>3. /\ dialer'[d] = r /\ \A c \in Dialers : c # d => dialer'[c] = dialer[c]
      /\ dialer' \in [Dialers -> DialerRecord] /\ connChan \in Seq(Dialers)
  BY <1>1 DEF HandshakeInv, ControlInv
<1>4. ConnectionInv(d) /\ BuffersInv /\ KeysInv /\ QueueInv
  BY InvParts
<1>5. BuffersInv' /\ \A f \in Ends : Pipe(f)' = Pipe(f)
  <2>1. Grows
    BY <1>2, <1>3, MessagesStay DEF Signed, DialerAt
  <2> QED BY <1>2, <1>4, <2>1, NothingMoves
<1>6. ASSUME NEW c \in Dialers, c # d PROVE ConnectionInv(c)'
  <2>1. Pipe(User(c))' = Pipe(User(c)) /\ Pipe(Server(c))' = Pipe(Server(c)) /\ ConnectionInv(c)
    BY <1>5, EndsOfDialer, InvParts
  <2> QED BY <1>2, <1>3, <1>6, <2>1, OtherConnection
<1>7. /\ ~Registered(Server(d)) /\ ~Registered(Server(d))' /\ ~Serving(d) /\ ~Serving(d)'
      /\ Pipe(User(d)) = <<>> /\ Pipe(Server(d)) = <<>>
  BY <1>2, <1>4 DEF ConnectionInv, DialerInv, ServerInv, DialerAt, Signed, Registered, Serving
<1>8. ConnectionInv(d)'
  <2>1. DialerInv(d)'
    BY <1>1, <1>2, <1>3, <1>4 DEF ConnectionInv, DialerInv, DialerAt
  <2>2. ServerInv(d)'
    BY <1>7 DEF ServerInv
  <2>3. UserSent(d)' = <<>> /\ ServerTook(d)' = <<>> /\ Pipe(User(d))' = <<>>
    BY <1>1, <1>3, <1>5, <1>7, EndsOfDialer DEF UserSent, Signed, ServerTook, DialerAt
  <2>4. <<>> \o <<>> = <<>>
    BY ConcatEmptySeq, EmptySeq
  <2>5. StreamInv(d)'
    BY <2>3, <2>4 DEF StreamInv
  <2> QED BY <2>1, <2>2, <2>5 DEF ConnectionInv
<1>9. /\ connChan' \in Seq(Dialers) /\ Len(connChan') = Len(connChan) + 1
      /\ \A i \in 1..Len(connChan) : connChan'[i] = connChan[i]
      /\ connChan'[Len(connChan) + 1] = d
      /\ Len(connChan) \in Nat
  BY <1>2, <1>3, AppendProperties, LenProperties
<1>10. ControlInv'
  BY <1>2, <1>3, <1>9 DEF HandshakeInv, ControlInv
<1>11. KeysInv'
  BY <1>1, <1>2, <1>3, <1>4 DEF KeysInv, DialerAt, KeysOf
<1>12. QueueInv'
  <2>1. \A i \in 1..Len(connChan) : connChan[i] \in Dialers /\ connChan[i] # d
    BY <1>2, <1>3, <1>4 DEF QueueInv
  <2>2. \A c \in Dialers : /\ DialerAt(c, "idle")' => DialerAt(c, "idle")
                           /\ Registered(Server(c))' = Registered(Server(c))
                           /\ Serving(c)' = Serving(c)
    BY <1>1, <1>2, <1>3 DEF DialerAt, Registered, Serving
  <2>3. ASSUME NEW i \in 1..Len(connChan')
        PROVE  ~DialerAt(connChan[i], "idle")' /\ ~Registered(Server(connChan[i]))'
               /\ ~Serving(connChan[i])'
    <3>1. CASE i = Len(connChan) + 1
      <4>1. connChan'[i] = d /\ dialer'[d].pc # "idle"
        <5>1. connChan'[i] = d
          BY <1>9, <3>1
        <5> QED BY <1>1, <1>3, <5>1
      <4> QED BY <1>7, <4>1 DEF DialerAt
    <3>2. CASE i # Len(connChan) + 1
      <4>1. i \in 1..Len(connChan) /\ connChan'[i] = connChan[i] /\ connChan[i] \in Dialers
        BY <1>9, <2>1, <3>2
      <4> QED BY <1>4, <2>2, <4>1 DEF QueueInv
    <3> QED BY <3>1, <3>2
  <2>4. \A i, j \in 1..Len(connChan') : connChan'[i] = connChan'[j] => i = j
    <3>1. \A i, j \in 1..Len(connChan) : connChan[i] = connChan[j] => i = j
      BY <1>4 DEF QueueInv
    <3> QED BY <1>9, <2>1, <3>1
  <2> QED BY <1>2, <1>4, <2>3, <2>4 DEF QueueInv, ServerAt
<1> QED BY <1>5, <1>6, <1>8, <1>10, <1>11, <1>12 DEF HandshakeInv, ConnectionInv

-----------------------------------------------------------------------------
(* The steps of the server *)

LEMMA ServerFacts ==
    ASSUME HandshakeInv, NEW d \in Dialers, Serving(d)
    PROVE  /\ ConnectionInv(d) /\ BuffersInv /\ server \in ServerRecord /\ server.conn = d
           /\ ~Registered(Server(d)) /\ Conn = Server(d)
           /\ keys = [keys EXCEPT ![Server(d)] = keys[Server(d)]]
           /\ keys[Server(d)] = NoKeys
<1>1. ConnectionInv(d) /\ BuffersInv /\ KeysInv /\ server \in ServerRecord /\ server.conn = d
  BY InvParts DEF ControlInv, Serving
<1>2. ~Registered(Server(d))
  BY <1>1 DEF ConnectionInv, ServerInv
<1>3. keys = [keys EXCEPT ![Server(d)] = keys[Server(d)]]
  BY <1>1, EndsOfDialer DEF KeysInv
<1> QED BY <1>1, <1>2, <1>3 DEF Conn, Registered

LEMMA ServedDialer ==
    ASSUME HandshakeInv, ~ServerAt("accept")
    PROVE  server.conn \in Dialers /\ Serving(server.conn)
BY DEF HandshakeInv, QueueInv, ServerAt, Serving

\* A step that only moves the program counter of the server.
LEMMA ServerMoves ==
    ASSUME HandshakeInv, NEW pc,
           \/ ServerAt("read1") /\ pc = "wait1"
           \/ ServerAt("read3") /\ pc = "wait3"
           \/ server.pc \in {"read1", "send", "read3", "wait1", "wait3"} /\ pc = "close"
           \/ ServerAt("close") /\ pc = "ended",
           server' = [server EXCEPT !.pc = pc], UNCHANGED <<dialer, connChan, keys, resets>>,
           UNCHANGED tcpVars \/ VCloseFin(Conn)
    PROVE  HandshakeInv'
<1>1. PICK d \in Dialers : d = server.conn /\ Serving(d)
  BY ServedDialer DEF ServerAt
<1>2. /\ ConnectionInv(d) /\ BuffersInv /\ server \in ServerRecord /\ server.conn = d
      /\ Conn = Server(d) /\ keys[Server(d)] = NoKeys /\ Server(d) \in Ends
      /\ keys = [keys EXCEPT ![Server(d)] = keys[Server(d)]]
  BY <1>1, ServerFacts, EndsOfDialer
<1>3. /\ server' \in ServerRecord /\ server'.conn = d /\ server'.pc = pc
      /\ server'.userPub = server.userPub /\ Serving(d)'
  BY <1>2 DEF ServerRecord, ServerAt, Serving
<1>4. Grows
  BY MessagesStay DEF Signed
<1>5. BuffersInv' /\ \A f \in Ends : Pipe(f)' = Pipe(f)
  BY <1>2, <1>4, NothingMoves, CloseKeeps
<1>6. /\ DialerAt(d, "idle")' = DialerAt(d, "idle") /\ DialerAt(d, "done")' = DialerAt(d, "done")
      /\ Signed(d)' = Signed(d) /\ Registered(Server(d))' = Registered(Server(d)) /\ ~Registered(Server(d))
      /\ UserDHMsg(d)' = UserDHMsg(d) /\ UserSent(d)' = UserSent(d)
      /\ Pipe(User(d))' = Pipe(User(d)) /\ Pipe(Server(d))' = Pipe(Server(d))
  BY <1>1, <1>2, <1>5, EndsOfDialer
  DEF DialerAt, Signed, Registered, UserDHMsg, UserSent, Signature, UserSigMsg, FirstRecord, Record
<1>7. DialerInv(d)'
  BY <1>2, <1>6 DEF ConnectionInv, DialerInv
<1>8. ServerInv(d)'
  BY <1>1, <1>2, <1>3, <1>6 DEF ConnectionInv, ServerInv, ServerAt
<1>9. StreamInv(d)'
  <2>1. CASE pc \in {"close", "ended"}
    BY <1>3, <2>1 DEF StreamInv
  <2>2. CASE pc \in {"wait1", "wait3"}
    <3>1. ServerTook(d)' = ServerTook(d)
      BY <1>1, <1>3, <1>6, <2>2 DEF ServerTook, ServerAt
    <3> QED BY <1>1, <1>2, <1>6, <2>2, <3>1 DEF ConnectionInv, StreamInv, ServerAt
  <2> QED BY <2>1, <2>2
<1> QED BY <1>1, <1>2, <1>3, <1>5, <1>7, <1>8, <1>9, ServerStep DEF ConnectionInv

LEMMA HandshakeServerQuiet ==
    ASSUME HandshakeInv, ServerReads \/ ServerFails \/ ServerCloses
    PROVE  HandshakeInv'
<1>1. CASE ServerReads
  BY <1>1, ServerMoves DEF ServerReads, ServerAt
<1>2. CASE ServerFails
  BY <1>2, ServerMoves DEF ServerFails
<1>3. CASE ServerCloses
  BY <1>3, ServerMoves DEF ServerCloses, ServerAt
<1> QED BY <1>1, <1>2, <1>3

\* The server answers the value that it has taken.
LEMMA HandshakeServerSendsDH ==
    ASSUME HandshakeInv, ServerSendsDH
    PROVE  HandshakeInv'
<1>1. PICK d \in Dialers : d = server.conn /\ Serving(d)
  BY ServedDialer DEF ServerAt, ServerSendsDH
<1>2. /\ ServerAt("send") /\ WriteSerializableMessage(Conn, ServerDHMsg(d, server.userPub))
      /\ server' = [server EXCEPT !.pc = "read3"] /\ UNCHANGED <<dialer, connChan, keys, resets>>
  BY <1>1 DEF ServerSendsDH
<1>3. /\ ConnectionInv(d) /\ BuffersInv /\ server \in ServerRecord /\ server.conn = d
      /\ Conn = Server(d) /\ keys[Server(d)] = NoKeys /\ Server(d) \in Ends
      /\ ~Registered(Server(d))
      /\ keys = [keys EXCEPT ![Server(d)] = keys[Server(d)]]
  BY <1>1, ServerFacts, EndsOfDialer
<1>4. /\ server' \in ServerRecord /\ server'.conn = d /\ server'.pc = "read3"
      /\ server'.userPub = server.userPub /\ Serving(d)'
  BY <1>2, <1>3 DEF ServerRecord, Serving
<1>5. server.userPub = UserPub(d)
  BY <1>1, <1>2, <1>3 DEF ConnectionInv, ServerInv, ServerAt
<1>6. Grows
  BY <1>2, MessagesStay DEF Signed
<1>7. ServerDHMsg(d, server.userPub) \in Carried(Server(d))'
  BY <1>1, <1>5, EndsOfDialer DEF Carried, DownMessages, ServerDHMsg
<1>8. BuffersInv' /\ \A f \in Ends : f # Server(d) => Pipe(f)' = Pipe(f)
  BY <1>2, <1>3, <1>6, <1>7, WriteKeeps
<1>9. /\ DialerAt(d, "idle")' = DialerAt(d, "idle") /\ DialerAt(d, "done")' = DialerAt(d, "done")
      /\ Signed(d)' = Signed(d) /\ Registered(Server(d))' = Registered(Server(d)) /\ ~DialerAt(d, "idle")
      /\ UserDHMsg(d)' = UserDHMsg(d) /\ UserSent(d)' = UserSent(d)
      /\ Pipe(User(d))' = Pipe(User(d))
      /\ \A f \in Ends : f[1] # d => Pipe(f)' = Pipe(f)
  BY <1>1, <1>2, <1>3, <1>8, EndsOfDialer
  DEF ConnectionInv, ServerInv, DialerAt, Signed, Registered, UserDHMsg, UserSent, Signature, UserSigMsg,
      FirstRecord, Record
<1>10. DialerInv(d)'
  BY <1>2, <1>3, <1>9 DEF ConnectionInv, DialerInv
<1>11. ServerInv(d)'
  BY <1>3, <1>4, <1>5, <1>9 DEF ServerInv
<1>12. StreamInv(d)'
  <2>1. ServerTook(d)' = ServerTook(d)
    BY <1>1, <1>2, <1>3, <1>4, <1>9 DEF ServerTook, ServerAt
  <2> QED BY <1>2, <1>3, <1>9, <2>1 DEF ConnectionInv, StreamInv, ServerAt
<1> QED BY <1>1, <1>2, <1>3, <1>4, <1>8, <1>9, <1>10, <1>11, <1>12, ServerStep DEF ConnectionInv

\* Reading the next message of d changes nothing else that the invariant is about.
LEMMA ServerReadsMessage ==
    ASSUME HandshakeInv, NEW d \in Dialers, d = server.conn, Serving(d),
           ReadSerializedMessage(Conn), UNCHANGED <<dialer, connChan, resets>>
    PROVE  /\ BuffersInv' /\ Incoming(Conn) \in UpMessages(d)
           /\ Pipe(User(d)) = <<Incoming(Conn)>> \o Pipe(User(d))'
           /\ Pipe(User(d))' \in Seq(UserMessages(d))
           /\ \A f \in Ends : f[1] # d => Pipe(f)' = Pipe(f)
           /\ DialerInv(d)'
           /\ UserSent(d)' = UserSent(d) /\ UserDHMsg(d)' = UserDHMsg(d)
           /\ Signature(d)' = Signature(d)
           /\ ~DialerAt(d, "idle") /\ DialerAt(d, "idle")' = DialerAt(d, "idle")
           /\ DialerAt(d, "done")' = DialerAt(d, "done") /\ Signed(d)' = Signed(d)
<1>1. /\ ConnectionInv(d) /\ BuffersInv /\ Conn = Server(d)
      /\ User(d) \in Ends /\ Peer[User(d)] = Server(d)
  BY ServerFacts, EndsOfDialer
<1>2. Grows
  BY MessagesStay DEF Signed
<1>3. /\ BuffersInv' /\ Incoming(Conn) \in Carried(User(d))
      /\ Pipe(User(d)) = <<Incoming(Conn)>> \o Pipe(User(d))'
      /\ \A f \in Ends : f # User(d) => Pipe(f)' = Pipe(f)
  BY <1>1, <1>2, ReadKeeps
<1>4. Incoming(Conn) \in UpMessages(d)
  BY <1>3, CarriedBy
<1>5. Pipe(User(d))' \in Seq(UserMessages(d))
  <2>1. sendBuf'[User(d)] \in Seq(UpMessages(d)') /\ recvBuf'[Peer[User(d)]] \in Seq(UpMessages(d)')
    BY <1>1, <1>3, EndsOfDialer DEF BuffersInv, Carried
  <2>2. UpMessages(d)' \subseteq UserMessages(d)
    BY DEF UpMessages, UserMessages, UserDHMsg, Signature, UserSigMsg, FirstRecord, Record
  <2>3. sendBuf'[User(d)] \in Seq(UserMessages(d)) /\ recvBuf'[Peer[User(d)]] \in Seq(UserMessages(d))
    BY <2>1, <2>2, SeqMonotonic
  <2> QED BY <2>3, ConcatProperties DEF Pipe
<1>6. /\ UserDHMsg(d)' = UserDHMsg(d) /\ UserSent(d)' = UserSent(d) /\ Signature(d)' = Signature(d)
      /\ DialerAt(d, "idle")' = DialerAt(d, "idle") /\ DialerAt(d, "done")' = DialerAt(d, "done")
      /\ Signed(d)' = Signed(d)
  BY DEF DialerAt, Signed, UserDHMsg, UserSent, Signature, UserSigMsg, FirstRecord, Record
<1>7. ~DialerAt(d, "idle")
  BY <1>1 DEF ConnectionInv, ServerInv
<1>8. DialerInv(d)'
  BY <1>1, <1>6, <1>7 DEF ConnectionInv, DialerInv
<1>9. \A f \in Ends : f[1] # d => Pipe(f)' = Pipe(f)
  BY <1>3, EndsOfDialer
<1> QED BY <1>3, <1>4, <1>5, <1>6, <1>7, <1>8, <1>9

\* The first message is the user's own value: ServerTook grows by it.
LEMMA HandshakeServerTakesUserDH ==
    ASSUME HandshakeInv, ServerTakesUserDH
    PROVE  HandshakeInv'
<1>1. PICK d \in Dialers : d = server.conn /\ Serving(d)
  BY ServedDialer DEF ServerAt, ServerTakesUserDH
<1>2. /\ ServerAt("wait1") /\ ReadSerializedMessage(Conn)
      /\ UNCHANGED <<dialer, connChan, keys, resets>>
      /\ server' = IF Incoming(Conn).type = 1
                   THEN [server EXCEPT !.pc = "send", !.userPub = Incoming(Conn).user]
                   ELSE [server EXCEPT !.pc = "close"]
  BY DEF ServerTakesUserDH
<1>3. /\ ConnectionInv(d) /\ BuffersInv /\ server \in ServerRecord /\ server.conn = d
      /\ Conn = Server(d) /\ keys[Server(d)] = NoKeys /\ ~Registered(Server(d))
      /\ keys = [keys EXCEPT ![Server(d)] = keys[Server(d)]]
  BY <1>1, ServerFacts
<1>4. /\ BuffersInv' /\ Incoming(Conn) \in UpMessages(d)
      /\ Pipe(User(d)) = <<Incoming(Conn)>> \o Pipe(User(d))'
      /\ Pipe(User(d))' \in Seq(UserMessages(d))
      /\ \A f \in Ends : f[1] # d => Pipe(f)' = Pipe(f)
      /\ DialerInv(d)'
      /\ UserSent(d)' = UserSent(d) /\ UserDHMsg(d)' = UserDHMsg(d)
      /\ ~DialerAt(d, "idle") /\ DialerAt(d, "idle")' = DialerAt(d, "idle")
  BY <1>1, <1>2, ServerReadsMessage
<1>5. Registered(Server(d))' = Registered(Server(d))
  BY <1>2 DEF Registered
<1>6. CASE Incoming(Conn).type = 1
  <2>1. Incoming(Conn) = UserDHMsg(d) /\ Incoming(Conn).user = UserPub(d)
    BY <1>4, <1>6, UpMessage DEF UserDHMsg, UserPub
  <2>2. /\ server' \in ServerRecord /\ server'.conn = d /\ server'.pc = "send"
        /\ server'.userPub = UserPub(d) /\ Serving(d)'
    BY <1>2, <1>3, <1>6, <2>1 DEF ServerRecord, Serving
  <2>3. ServerInv(d)'
    BY <1>3, <1>4, <1>5, <2>2 DEF ServerInv
  <2>4. StreamInv(d)'
    <3>1. ServerTook(d) = <<>> /\ ServerTook(d)' = <<UserDHMsg(d)>>
      BY <1>2, <1>3, <1>4, <1>5, <2>2 DEF ServerTook, ServerAt
    <3>2. ServerTook(d)' = ServerTook(d) \o <<UserDHMsg(d)>>
      BY <3>1, OneMore
    <3>3. CASE dialer[d].pc \in {"close", "failed"}
      BY <1>2, <3>3 DEF StreamInv
    <3>4. CASE UserSent(d) = ServerTook(d) \o Pipe(User(d))
      BY <1>3, <1>4, <2>1, <3>2, <3>4, StreamTaken DEF UserMessages
    <3> QED BY <1>2, <1>3, <3>3, <3>4 DEF ConnectionInv, StreamInv, ServerAt
  <2> QED BY <1>1, <1>2, <1>3, <1>4, <2>2, <2>3, <2>4, ServerStep DEF ConnectionInv
<1>7. CASE Incoming(Conn).type # 1
  <2>1. server' \in ServerRecord /\ server'.conn = d /\ server'.pc = "close" /\ Serving(d)'
    BY <1>2, <1>3, <1>7 DEF ServerRecord, Serving
  <2>2. ServerInv(d)'
    BY <1>3, <1>4, <1>5, <2>1 DEF ServerInv
  <2>3. StreamInv(d)'
    BY <2>1 DEF StreamInv
  <2> QED BY <1>1, <1>2, <1>3, <1>4, <2>1, <2>2, <2>3, ServerStep DEF ConnectionInv
<1> QED BY <1>6, <1>7

\* A signature that passes is the user's own: made with the trusted key, by a user
\* that has taken the server's value, behind its own in the stream.
LEMMA HandshakeServerTakesSignature ==
    ASSUME HandshakeInv, ServerTakesSignature
    PROVE  HandshakeInv'
<1>1. PICK d \in Dialers : d = server.conn /\ Serving(d)
  BY ServedDialer DEF ServerAt, ServerTakesSignature
<1>2. /\ ServerAt("wait3") /\ ReadSerializedMessage(Conn)
      /\ UNCHANGED <<dialer, connChan, resets>>
  BY DEF ServerTakesSignature
<1>3. /\ ConnectionInv(d) /\ BuffersInv /\ server \in ServerRecord /\ server.conn = d
      /\ Conn = Server(d) /\ keys[Server(d)] = NoKeys /\ ~Registered(Server(d))
      /\ keys = [keys EXCEPT ![Server(d)] = keys[Server(d)]]
      /\ KeysInv /\ Server(d) \in Ends
  BY <1>1, ServerFacts, InvParts, EndsOfDialer
<1>4. /\ BuffersInv' /\ Incoming(Conn) \in UpMessages(d)
      /\ Pipe(User(d)) = <<Incoming(Conn)>> \o Pipe(User(d))'
      /\ Pipe(User(d))' \in Seq(UserMessages(d))
      /\ \A f \in Ends : f[1] # d => Pipe(f)' = Pipe(f)
      /\ DialerInv(d)'
      /\ UserSent(d)' = UserSent(d) /\ UserDHMsg(d)' = UserDHMsg(d)
      /\ Signature(d)' = Signature(d)
      /\ ~DialerAt(d, "idle") /\ DialerAt(d, "idle")' = DialerAt(d, "idle")
      /\ Signed(d)' = Signed(d)
  BY <1>1, <1>2, ServerReadsMessage
<1>5. CASE ServerAccepts(Incoming(Conn))
  <2>1. Incoming(Conn) = Signature(d) /\ Signed(d)
    BY <1>4, <1>5, UpMessage DEF ServerAccepts
  <2>2. dialer[d].config.UserSignKey = UserVerifyKey
    BY <1>5, <2>1 DEF ServerAccepts, Signature, UserSigMsg, Verify, Sign
  <2>3. server.userPub = UserPub(d)
    BY <1>1, <1>2, <1>3 DEF ConnectionInv, ServerInv, ServerAt
  <2>4. keys' = [keys EXCEPT ![Server(d)] = KeysOf(d, "server")]
    <3>1. keys' = [keys EXCEPT ![Conn] =
             DeriveWriteKeys(ComputeSharedSecret(DHPub(Conn), server.userPub),
                             server.userPub, DHPub(Conn), "server")]
      BY <1>5 DEF ServerTakesSignature
    <3>2. ComputeSharedSecret(ServerPub(d), UserPub(d)) = Secret(d)
      BY DEF ComputeSharedSecret, Secret
    <3> QED BY <1>3, <2>3, <3>1, <3>2 DEF KeysOf, ServerPub
  <2>5. keys'[Server(d)] = KeysOf(d, "server") /\ keys' = [keys EXCEPT ![Server(d)] = keys'[Server(d)]]
    BY <1>3, <2>4 DEF KeysInv
  <2>6. Registered(Server(d))'
    <3>1. KeysOf(d, "server") # NoKeys
      <4>1. KeysOf(d, "server").write = WriteKey(Secret(d), UserPub(d), ServerPub(d), "server")
        BY DEF KeysOf, DeriveWriteKeys
      <4>2. NoKeys.write = <<>>
        BY DEF NoKeys, None
      <4>3. WriteKey(Secret(d), UserPub(d), ServerPub(d), "server") # <<>>
        BY DEF WriteKey
      <4> QED BY <4>1, <4>2, <4>3
    <3> QED BY <2>5, <3>1 DEF Registered
  <2>7. server' \in ServerRecord /\ server'.conn = d /\ server'.pc = "accept" /\ ~Serving(d)'
    BY <1>3, <1>5 DEF ServerTakesSignature, ServerRecord, Serving
  <2>8. ServerInv(d)'
    BY <1>2, <1>4, <2>1, <2>2, <2>7 DEF ServerInv
  <2>9. StreamInv(d)'
    <3>1. ServerTook(d) = <<UserDHMsg(d)>> /\ ServerTook(d)' = <<UserDHMsg(d), Signature(d)>>
      BY <1>1, <1>2, <1>3, <1>4, <2>6 DEF ServerTook, ServerAt
    <3>2. ServerTook(d)' = ServerTook(d) \o <<Signature(d)>>
      BY <3>1, OneMore
    <3>3. UserSent(d) = ServerTook(d) \o Pipe(User(d))
      BY <1>2, <1>3, <2>1 DEF ConnectionInv, StreamInv, ServerAt, Signed
    <3>4. Signature(d) \in UserMessages(d)
      BY DEF UserMessages
    <3> QED BY <1>3, <1>4, <2>1, <3>2, <3>3, <3>4, StreamTaken
  <2> QED BY <1>1, <1>2, <1>3, <1>4, <2>5, <2>7, <2>8, <2>9, ServerStep DEF ConnectionInv
<1>6. CASE ~ServerAccepts(Incoming(Conn))
  <2>1. server' = [server EXCEPT !.pc = "close"] /\ UNCHANGED keys
    BY <1>6 DEF ServerTakesSignature
  <2>2. server' \in ServerRecord /\ server'.conn = d /\ server'.pc = "close" /\ Serving(d)'
    BY <1>3, <2>1 DEF ServerRecord, Serving
  <2>3. ServerInv(d)'
    BY <1>3, <1>4, <2>1, <2>2 DEF ServerInv, Registered
  <2>4. StreamInv(d)'
    BY <2>2 DEF StreamInv
  <2> QED BY <1>1, <1>2, <1>3, <1>4, <2>1, <2>2, <2>3, <2>4, ServerStep DEF ConnectionInv
<1> QED BY <1>5, <1>6

\* The next connection of the queue: none of its bytes have been taken.
LEMMA HandshakeVAccept ==
    ASSUME HandshakeInv, VAccept
    PROVE  HandshakeInv'
<1>1. /\ ServerAt("accept") /\ connChan # <<>> /\ connChan \in Seq(Dialers)
      /\ server' = [pc |-> "read1", conn |-> Head(connChan), userPub |-> None]
      /\ connChan' = Tail(connChan) /\ UNCHANGED <<tcpVars, dialer, keys, resets>>
      /\ ControlInv /\ BuffersInv /\ KeysInv /\ QueueInv
  BY InvParts DEF VAccept, ControlInv
<1>2. PICK d \in Dialers : d = Head(connChan) /\ d = connChan[1]
  BY <1>1, HeadTailProperties
<1>3. /\ Len(connChan) \in Nat /\ Len(connChan) >= 1
      /\ connChan' \in Seq(Dialers) /\ Len(connChan') = Len(connChan) - 1
      /\ \A i \in 1..Len(connChan') : connChan'[i] = connChan[i + 1]
  BY <1>1, HeadTailProperties, EmptySeq
<1>4. /\ server' \in ServerRecord /\ server'.conn = d /\ server'.pc = "read1"
  BY <1>1, <1>2 DEF ServerRecord
<1>5. \A c \in Dialers : ~Serving(c) /\ (Serving(c)' <=> c = d)
  BY <1>1, <1>4 DEF Serving, ServerAt
<1>6. \A c \in Dialers : /\ DialerAt(c, "idle")' = DialerAt(c, "idle")
                         /\ DialerAt(c, "done")' = DialerAt(c, "done") /\ Signed(c)' = Signed(c)
                         /\ Registered(Server(c))' = Registered(Server(c))
  BY <1>1 DEF DialerAt, Signed, Registered
<1>7. BuffersInv' /\ \A f \in Ends : Pipe(f)' = Pipe(f)
  <2>1. Grows
    BY <1>1, MessagesStay DEF Signed
  <2> QED BY <1>1, <2>1, NothingMoves
<1>8. ~DialerAt(d, "idle") /\ ~Registered(Server(d))
  BY <1>1, <1>2, <1>3 DEF QueueInv
<1>9. ASSUME NEW c \in Dialers PROVE ConnectionInv(c)'
  <2>1. /\ ConnectionInv(c) /\ Pipe(User(c))' = Pipe(User(c)) /\ Pipe(Server(c))' = Pipe(Server(c))
    BY <1>7, EndsOfDialer, InvParts
  <2>2. CASE c # d
    BY <1>1, <1>5, <2>1, <2>2, OtherConnection
  <2>3. CASE c = d
    <3>1. DialerInv(d)'
      BY <1>1, <1>6, <2>1, <2>3 DEF ConnectionInv, DialerInv
    <3>2. ServerInv(d)'
      BY <1>4, <1>6, <1>8 DEF ServerInv, Serving
    <3>3. ServerTook(d)' = <<>> /\ ServerTook(d) = <<>>
      BY <1>4, <1>5, <1>6, <1>8 DEF ServerTook
    <3>4. UserSent(d)' = UserSent(d)
      BY <1>1 DEF UserSent, Signed, DialerAt, UserDHMsg, Signature, UserSigMsg, FirstRecord, Record
    <3>5. StreamInv(d)'
      BY <1>1, <1>5, <2>1, <2>3, <3>3, <3>4 DEF ConnectionInv, StreamInv
    <3> QED BY <2>3, <3>1, <3>2, <3>5 DEF ConnectionInv
  <2> QED BY <2>2, <2>3
<1>10. ControlInv'
  BY <1>1, <1>3, <1>4 DEF ControlInv
<1>11. KeysInv'
  BY <1>1 DEF KeysInv, DialerAt, KeysOf
<1>12. QueueInv'
  <2>1. \A i \in 1..Len(connChan') : /\ i + 1 \in 1..Len(connChan) /\ connChan'[i] \in Dialers
                                     /\ connChan'[i] = connChan[i + 1]
    BY <1>3
  <2>2. \A i \in 1..Len(connChan') : connChan'[i] # d
    BY <1>1, <1>2, <1>3, <2>1 DEF QueueInv
  <2>3. \A i, j \in 1..Len(connChan') : connChan'[i] = connChan'[j] => i = j
    BY <1>1, <1>3, <2>1 DEF QueueInv
  <2>4. \A i \in 1..Len(connChan') : /\ ~DialerAt(connChan[i], "idle")'
                                     /\ ~Registered(Server(connChan[i]))'
                                     /\ ~Serving(connChan[i])'
    <3> SUFFICES ASSUME NEW i \in 1..Len(connChan')
                 PROVE  /\ ~DialerAt(connChan[i], "idle")'
                        /\ ~Registered(Server(connChan[i]))'
                        /\ ~Serving(connChan[i])'
      OBVIOUS
    <3>1. PICK c \in Dialers : c = connChan'[i] /\ c = connChan[i + 1] /\ c # d
      BY <2>1, <2>2
    <3>2. ~DialerAt(c, "idle") /\ ~Registered(Server(c))
      BY <1>1, <2>1, <3>1 DEF QueueInv
    <3> QED BY <1>1, <1>5, <3>1, <3>2 DEF DialerAt, Registered, Serving
  <2> QED BY <1>4, <2>3, <2>4 DEF QueueInv, ServerAt
<1> QED BY <1>7, <1>9, <1>10, <1>11, <1>12 DEF HandshakeInv, ConnectionInv

-----------------------------------------------------------------------------
(* TCP, and the whole specification *)

LEMMA HandshakeConnection ==
    ASSUME HandshakeInv, NEW e \in Ends, Connection(e) \/ TearDown(e)
    PROVE  HandshakeInv'
<1>1. UNCHANGED <<dialer, server, connChan, keys>> /\ (TCPStep(e) \/ Reset(e))
  BY DEF Connection, TearDown, tlsVars
<1>2. resets' \in 0 .. MaxResets
  BY HandshakeAssumption DEF Connection, TearDown, tlsVars, HandshakeInv, ControlInv
<1>3. Grows
  BY <1>1, MessagesStay DEF Signed
<1>4. BuffersInv' /\ \A f \in Ends : Pipe(f)' = Pipe(f)
  BY <1>1, <1>3, TCPStepKeeps, ResetKeeps DEF HandshakeInv
<1> QED BY <1>1, <1>2, <1>4, TCPOnly

LEMMA HandshakeInit ==
    ASSUME Init
    PROVE  HandshakeInv
<1> USE DEF Init, TCPInit
<1>1. <<>> \o <<>> = <<>>
  BY ConcatEmptySeq, EmptySeq
<1>2. ControlInv
  <2>1. NoConfig \in ClientConfigs \cup {NoConfig} /\ None \in {None} \cup {ServerPub(c) : c \in Dialers}
    OBVIOUS
  <2>2. <<>> \in Seq(Dialers)
    BY EmptySeq
  <2> QED BY <2>1, <2>2, HandshakeAssumption DEF ControlInv, DialerRecord, ServerRecord
<1>3. BuffersInv
  <2>1. ASSUME NEW e \in Ends
        PROVE  /\ sendBuf[e] \in Seq(Carried(e)) /\ Len(sendBuf[e]) <= Capacity
               /\ recvBuf[Peer[e]] \in Seq(Carried(e)) /\ Len(recvBuf[Peer[e]]) <= Capacity
               /\ fin[e] = "none"
    <3>1. sendBuf[e] = <<>> /\ recvBuf[Peer[e]] = <<>>
      BY DialerOfEnd
    <3>2. <<>> \in Seq(Carried(e)) /\ Len(<<>>) = 0
      BY EmptySeq
    <3> QED BY <3>1, <3>2, ServiceAssumption
  <2> QED BY <2>1 DEF BuffersInv
<1>4. KeysInv
  BY EndsOfDialer DEF KeysInv, DialerAt
<1>5. QueueInv
  <2>1. Len(connChan) = 0
    BY EmptySeq
  <2> QED BY <2>1 DEF QueueInv, ServerAt
<1>6. ASSUME NEW d \in Dialers PROVE DialerInv(d) /\ ServerInv(d) /\ StreamInv(d)
  <2>1. Pipe(User(d)) = <<>> /\ Pipe(Server(d)) = <<>>
    BY <1>1, EndsOfDialer DEF Pipe
  <2>2. ~Registered(Server(d)) /\ ~Serving(d)
    BY EndsOfDialer DEF Registered, Serving
  <2>3. UserSent(d) = <<>> /\ ServerTook(d) = <<>>
    BY <2>2 DEF UserSent, Signed, ServerTook, DialerAt
  <2>4. DialerInv(d)
    BY <2>1 DEF DialerInv, DialerAt
  <2>5. ServerInv(d)
    BY <2>2 DEF ServerInv
  <2>6. StreamInv(d)
    BY <1>1, <2>1, <2>3 DEF StreamInv
  <2> QED BY <2>4, <2>5, <2>6
<1> QED BY <1>2, <1>3, <1>4, <1>5, <1>6 DEF HandshakeInv

LEMMA HandshakeStep ==
    ASSUME HandshakeInv, [Next]_vars
    PROVE  HandshakeInv'
<1>1. ASSUME NEW d \in Dialers, VConnect(d) PROVE HandshakeInv'
  BY <1>1, HandshakeVConnect
<1>2. ASSUME NEW d \in Dialers, VTLSDial(d) PROVE HandshakeInv'
  BY <1>2, HandshakeUserSendsDH, HandshakeUserReads, HandshakeUserTakesServerDH,
     HandshakeUserSigns, HandshakeUserRegisters, HandshakeUserFails, HandshakeUserCloses DEF VTLSDial
<1>3. ASSUME NEW d \in Dialers, FirstWrite(d) \/ PlainClient(d) PROVE HandshakeInv'
  BY <1>3, HandshakeFirstWrite, HandshakePlainClient
<1>4. CASE VTLSAccept
  BY <1>4, HandshakeVAccept, HandshakeServerQuiet, HandshakeServerTakesUserDH,
     HandshakeServerSendsDH, HandshakeServerTakesSignature DEF VTLSAccept
<1>5. ASSUME NEW e \in Ends, Connection(e) \/ TearDown(e) PROVE HandshakeInv'
  BY <1>5, HandshakeConnection
<1>6. CASE UNCHANGED vars
  <2>1. UNCHANGED tcpVars /\ UNCHANGED <<dialer, server, connChan, keys, resets>>
    BY <1>6 DEF vars, tlsVars
  <2>2. Grows
    BY <2>1, MessagesStay DEF Signed
  <2>3. BuffersInv' /\ (\A f \in Ends : Pipe(f)' = Pipe(f)) /\ resets' \in 0 .. MaxResets
    BY <2>1, <2>2, NothingMoves DEF HandshakeInv, ControlInv
  <2> QED BY <2>1, <2>3, TCPOnly
<1> QED BY <1>1, <1>2, <1>3, <1>4, <1>5, <1>6 DEF Next

\* Every state of the handshake satisfies the inductive invariant.
THEOREM HandshakeInvariant == Spec => []HandshakeInv
<1>1. Init => HandshakeInv
  BY HandshakeInit
<1>2. HandshakeInv /\ [Next]_vars => HandshakeInv'
  BY HandshakeStep
<1> QED BY <1>1, <1>2, PTL DEF Spec

-----------------------------------------------------------------------------
(* The properties *)

LEMMA CarriedAreMessages ==
    ASSUME NEW e \in Ends
    PROVE  Carried(e) \subseteq Messages
<1>1. PICK d \in Dialers : d = e[1]
  BY DialerOfEnd
<1>2. /\ UserDHMsg(d) \in Messages /\ ServerDHMsg(d, UserPub(d)) \in Messages
      /\ Signature(d) \in Messages /\ FirstRecord(d) \in Messages /\ Junk \in Messages
  <2> DEFINE M == {UserDHMsg(d), ServerDHMsg(d, DHPub(User(d))), UserSigMsg(d, DHPub(Server(d))),
                   Record(WriteKey({DHPub(User(d)), DHPub(Server(d))},
                                   DHPub(User(d)), DHPub(Server(d)), "client"))}
  <2>1. M \subseteq Messages
    BY DEF Messages
  <2>2. UserDHMsg(d) \in M /\ ServerDHMsg(d, UserPub(d)) \in M /\ Signature(d) \in M /\ FirstRecord(d) \in M
    BY DEF Signature, FirstRecord, Secret, UserPub, ServerPub
  <2>3. Junk \in Messages
    BY DEF Messages
  <2> QED BY <2>1, <2>2, <2>3
<1> QED BY <1>1, <1>2 DEF Carried, UpMessages, DownMessages

LEMMA HandshakeTypes ==
    ASSUME HandshakeInv
    PROVE  TypeOK
<1> USE InvParts
<1>1. TCPTypeOK(Messages)
  <2>1. ASSUME NEW e \in Ends
        PROVE  /\ sendBuf[e] \in Seq(Messages) /\ Len(sendBuf[e]) <= Capacity
               /\ recvBuf[e] \in Seq(Messages) /\ Len(recvBuf[e]) <= Capacity
    <3>1. Peer[e] \in Ends /\ Peer[Peer[e]] = e
      BY DialerOfEnd
    <3>2. /\ sendBuf[e] \in Seq(Carried(e)) /\ Len(sendBuf[e]) <= Capacity
          /\ recvBuf[e] \in Seq(Carried(Peer[e])) /\ Len(recvBuf[e]) <= Capacity
      BY <3>1 DEF BuffersInv
    <3> QED BY <3>1, <3>2, CarriedAreMessages, SeqMonotonic
  <2> QED BY <2>1 DEF TCPTypeOK, BuffersInv
<1>2. ASSUME NEW d \in Dialers
      PROVE  /\ dialer[d].pc \in {"idle", "send", "read", "wait", "sign", "signed", "close", "done", "failed", "plain"}
             /\ dialer[d].config \in ClientConfigs \cup {NoConfig}
             /\ dialer[d].serverPub \in {None, DHPub(Server(d))}
             /\ dialer[d].sent \in BOOLEAN
  BY DEF ControlInv, DialerRecord, ConnectionInv, DialerInv, ServerPub
<1>3. /\ server.pc \in {"accept", "read1", "wait1", "send", "read3", "wait3", "close", "ended"}
      /\ server.conn \in Dialers \cup {None}
      /\ server.userPub \in {None} \cup {DHPub(User(d)) : d \in Dialers}
      /\ connChan \in Seq(Dialers) /\ resets \in 0 .. MaxResets
  BY DEF ControlInv, ServerRecord, UserPub
<1>4. ASSUME NEW e \in Ends PROVE DOMAIN keys[e] = {"write", "read"}
  <2>1. PICK d \in Dialers : e = User(d) \/ e = Server(d)
    BY DialerOfEnd
  <2>2. keys[e] \in {NoKeys, KeysOf(d, "user"), KeysOf(d, "server")}
    BY <2>1 DEF KeysInv
  <2> QED BY <2>2 DEF NoKeys, KeysOf, DeriveWriteKeys
<1> QED BY <1>1, <1>2, <1>3, <1>4 DEF TypeOK

\* The values that the handshake puts into its messages, its buffers and the table
\* of connections are those of the connection concerned (VTLSDial, VTLSAccept,
\* registerConn), whatever clients connect and whenever connections break.
THEOREM HandshakeTyped == Spec => []TypeOK
<1>1. HandshakeInv => TypeOK
  BY HandshakeTypes
<1> QED BY <1>1, HandshakeInvariant, PTL

\* The halves of the key material, by side.
LEMMA HalvesOf ==
    ASSUME NEW d \in Dialers
    PROVE  /\ KeysOf(d, "user").write = WriteKey(Secret(d), UserPub(d), ServerPub(d), "client")
           /\ KeysOf(d, "user").read = WriteKey(Secret(d), UserPub(d), ServerPub(d), "server")
           /\ KeysOf(d, "server").write = WriteKey(Secret(d), UserPub(d), ServerPub(d), "server")
           /\ KeysOf(d, "server").read = WriteKey(Secret(d), UserPub(d), ServerPub(d), "client")
BY DEF KeysOf, DeriveWriteKeys

\* The keys of a registered end name its connection and its direction.
LEMMA RegisteredKeys ==
    ASSUME HandshakeInv, NEW e \in Ends, Registered(e)
    PROVE  /\ keys[e].write = WriteKey(Secret(e[1]), UserPub(e[1]), ServerPub(e[1]),
                                       IF e = User(e[1]) THEN "client" ELSE "server")
           /\ keys[e].read = WriteKey(Secret(e[1]), UserPub(e[1]), ServerPub(e[1]),
                                      IF e = User(e[1]) THEN "server" ELSE "client")
<1>1. PICK d \in Dialers : d = e[1] /\ (e = User(d) \/ e = Server(d))
  BY DialerOfEnd
<1>2. User(d) # Server(d) /\ KeysInv
  BY EndsOfDialer, InvParts
<1>3. CASE e = User(d)
  <2>1. keys[e] = KeysOf(d, "user")
    BY <1>2, <1>3 DEF KeysInv, Registered
  <2> QED BY <1>1, <1>3, <2>1, HalvesOf
<1>4. CASE e = Server(d)
  <2>1. keys[e] = KeysOf(d, "server")
    BY <1>2, <1>4 DEF KeysInv, Registered
  <2> QED BY <1>1, <1>2, <1>4, <2>1, HalvesOf
<1> QED BY <1>1, <1>3, <1>4

\* DeriveWriteKeys gives the two sides of a connection the halves of the key
\* material crosswise, and every direction of every connection a key of its own.
THEOREM HandshakeCrossesKeys == Spec => []KeysCrossed
<1>1. HandshakeInv => KeysCrossed
  <2> SUFFICES ASSUME HandshakeInv, NEW e \in Ends, NEW f \in Ends, Registered(e), Registered(f)
               PROVE  /\ f = Peer[e] => keys[e].write = keys[f].read
                      /\ f # e => keys[e].write # keys[f].write
                      /\ f # Peer[e] => keys[e].write # keys[f].read
    BY DEF KeysCrossed
  <2> DEFINE side(g) == IF g = User(g[1]) THEN "client" ELSE "server"
             other(g) == IF g = User(g[1]) THEN "server" ELSE "client"
             pubs(g) == <<UserPub(g[1]), ServerPub(g[1])>>
  <2>1. /\ keys[e].write = WriteKey(Secret(e[1]), UserPub(e[1]), ServerPub(e[1]), side(e))
        /\ keys[f].write = WriteKey(Secret(f[1]), UserPub(f[1]), ServerPub(f[1]), side(f))
        /\ keys[f].read = WriteKey(Secret(f[1]), UserPub(f[1]), ServerPub(f[1]), other(f))
    BY RegisteredKeys
  <2>2. /\ e[1] \in Dialers /\ f[1] \in Dialers
        /\ e \in {User(e[1]), Server(e[1])} /\ f \in {User(f[1]), Server(f[1])}
        /\ User(e[1]) # Server(e[1]) /\ User(f[1]) # Server(f[1])
        /\ Peer[User(e[1])] = Server(e[1]) /\ Peer[Server(e[1])] = User(e[1])
        /\ Peer[e][1] = e[1]
    BY DialerOfEnd, EndsOfDialer
  <2>3. UserPub(e[1]) = UserPub(f[1]) => e[1] = f[1]
    BY DEF UserPub, DHPub, User
  <2>4. f = Peer[e] => e[1] = f[1] /\ side(e) = other(f)
    BY <2>2
  <2>5. e[1] = f[1] /\ side(e) = side(f) => f = e
    BY <2>2
  <2>6. e[1] = f[1] /\ side(e) = other(f) => f = Peer[e]
    BY <2>2
  <2> HIDE DEF side, other
  <2>7. keys[e].write = keys[f].write => e[1] = f[1] /\ side(e) = side(f)
    BY <2>1, <2>3 DEF WriteKey
  <2>8. keys[e].write = keys[f].read => e[1] = f[1] /\ side(e) = other(f)
    BY <2>1, <2>3 DEF WriteKey
  <2> QED BY <2>1, <2>4, <2>5, <2>6, <2>7, <2>8
<1> QED BY <1>1, HandshakeInvariant, PTL

\* tlsa registers a connection only if its user holds the trusted key, has checked
\* this server's value and has signed it (ServerAccepts), whether or not VTLSDial has
\* returned there; and VTLSDial returns without an error only after the trusted
\* server has answered this user's value (UserAccepts).
THEOREM HandshakeAuthenticates == Spec => []Authenticated
<1>1. HandshakeInv => Authenticated
  <2> SUFFICES ASSUME HandshakeInv, NEW d \in Dialers
               PROVE  /\ Registered(Server(d)) =>
                            dialer[d].config.UserSignKey = UserVerifyKey /\ Committed(d)
                      /\ Registered(User(d)) => Committed(d)
    BY DEF Authenticated
  <2>1. ConnectionInv(d) /\ KeysInv
    BY InvParts
  <2>2. Signed(d) => Committed(d)
    BY <2>1 DEF ConnectionInv, DialerInv, Signed, Committed, ServerPub
  <2>3. Registered(User(d)) => Signed(d)
    BY <2>1 DEF KeysInv, Registered, DialerAt, Signed
  <2>4. Registered(Server(d)) =>
           dialer[d].config.UserSignKey = UserVerifyKey /\ Signed(d)
    BY <2>1 DEF ConnectionInv, ServerInv
  <2> QED BY <2>2, <2>3, <2>4
<1> QED BY <1>1, HandshakeInvariant, PTL

\* ReadSerializedMessage takes the bytes of one message from the stream and leaves
\* the record that the user may have written directly behind its signature.
THEOREM HandshakeKeepsFirstRecord == Spec => []FirstRecordKept
<1>1. HandshakeInv => FirstRecordKept
  <2> SUFFICES ASSUME HandshakeInv, NEW d \in Dialers, Registered(Server(d))
               PROVE  recvBuf[Server(d)] \o sendBuf[User(d)]
                        = IF dialer[d].sent THEN <<Record(keys[Server(d)].read)>> ELSE <<>>
    BY DEF FirstRecordKept
  <2>1. /\ ConnectionInv(d) /\ BuffersInv /\ KeysInv /\ User(d) \in Ends /\ Server(d) \in Ends
        /\ User(d) # Server(d) /\ Peer[User(d)] = Server(d)
    BY InvParts, EndsOfDialer
  <2>2. Signed(d) /\ ~Serving(d)
    BY <2>1 DEF ConnectionInv, ServerInv
  <2>3. Record(keys[Server(d)].read) = FirstRecord(d)
    BY <2>1, HalvesOf DEF KeysInv, Registered, FirstRecord
  <2> DEFINE took == <<UserDHMsg(d), Signature(d)>>
             rest == IF dialer[d].sent THEN <<FirstRecord(d)>> ELSE <<>>
  <2>4. UserSent(d) = took \o Pipe(User(d))
    <3>1. ServerTook(d) = took
      BY DEF ServerTook
    <3> QED BY <2>1, <2>2, <3>1 DEF ConnectionInv, StreamInv, Signed
  <2>5. took \in Seq(UserMessages(d)) /\ rest \in Seq(UserMessages(d)) /\ Pipe(User(d)) \in Seq(UserMessages(d))
    <3>1. Pipe(User(d)) \in Seq(UserMessages(d))
      BY <2>1, StreamTypes
    <3>2. UserDHMsg(d) \in UserMessages(d) /\ Signature(d) \in UserMessages(d) /\ FirstRecord(d) \in UserMessages(d)
      BY DEF UserMessages
    <3> HIDE DEF UserMessages
    <3> QED BY <3>1, <3>2
  <2>6. UserSent(d) = took \o rest
    <3>1. CASE dialer[d].sent
      BY <2>2, <3>1, OneMore DEF UserSent, Signed, DialerAt
    <3>2. CASE ~dialer[d].sent
      <4>1. UserSent(d) = took /\ rest = <<>>
        BY <2>2, <3>2 DEF UserSent, Signed, DialerAt
      <4>2. took \o <<>> = took
        BY <2>5, ConcatEmptySeq
      <4> QED BY <4>1, <4>2
    <3> QED BY <3>1, <3>2
  <2> HIDE DEF took, rest
  <2>7. Pipe(User(d)) = rest
    BY <2>4, <2>5, <2>6, ConcatSimplifications
  <2> QED BY <2>1, <2>3, <2>7 DEF Pipe, rest
<1> QED BY <1>1, HandshakeInvariant, PTL

=============================================================================
