---------------------------- MODULE TLSHandshake ----------------------------
(***************************************************************************)
(* The handshake of pkg/tlsStack: VTLSDial in the goroutines of tlsc and   *)
(* tlssf, and VTLSListen and VTLSAccept in the one goroutine of tlsa,      *)
(* which serves one connection after the other.  A TCP client that does    *)
(* not speak TLS (the command c) may connect to the same port.             *)
(*                                                                         *)
(* Each dialer has a connection of its own, with an end at the user and    *)
(* one at the server.  A message is one chunk of the stream, of any        *)
(* segment boundaries, since ReadFull puts it together.  Cryptography is   *)
(* symbolic: a DH public value is known by whose it is, the shared secret  *)
(* is the pair of them, a signature is its key with what it signs.         *)
(***************************************************************************)
EXTENDS TCPService

CONSTANTS
    Dialers,          \* clients of the listener
    ClientConfigs,    \* configurations that VTLSDial may be called with
    ServerSignKey,    \* VTLSServerConfig
    UserVerifyKey,
    MaxResets         \* bound: connections torn down

ASSUME HandshakeAssumption ==
    /\ Ends = Dialers \X {"user", "server"}
    /\ \A d \in Dialers : Peer[<<d, "user">>] = <<d, "server">>
    /\ ClientConfigs \subseteq [UserSignKey : STRING, ServerVerifyKey : STRING]
    /\ MaxResets \in Nat

VARIABLES
    dialer,      \* VTLSDial of each dialer
    server,      \* the goroutine of tlsa
    connChan,    \* established connections that VAccept has not taken
    keys,        \* writeKey and readKey of the VTLSConns in tlsConnMap
    resets       \* history, for MaxResets

tlsVars == <<dialer, server, connChan, keys, resets>>
vars == <<tcpVars, tlsVars>>

User(d) == <<d, "user">>
Server(d) == <<d, "server">>
None == <<>>
NoConfig == [UserSignKey |-> "", ServerVerifyKey |-> ""]     \* of a plain TCP client

-----------------------------------------------------------------------------
(* Messages and cryptography *)

\* GenerateDHPair: every handshake has a pair of its own on each side.
DHPub(e) == <<"pub", e>>
ComputeSharedSecret(mine, peer) == {mine, peer}
Sign(key, data) == <<key, data>>
Verify(key, data, sig) == sig = Sign(key, data)

ServerSignedDHPublicValues(serverPub, userPub) == <<serverPub, userPub>>
UserSignedDHPublicValues(userPub, serverPub) == <<userPub, serverPub>>

NoKeys == [write |-> None, read |-> None]
WriteKey(secret, userPub, serverPub, side) == <<secret, userPub, serverPub, side>>

\* (mutant) both sides take the first half of the key material to write with
UncrossedKeys(secret, userPub, serverPub, side) ==
    [write |-> WriteKey(secret, userPub, serverPub, "client"),
     read |-> WriteKey(secret, userPub, serverPub, "server")]

\* DeriveWriteKeys, and which half of the key material a side writes with.
DeriveWriteKeys(secret, userPub, serverPub, side) ==
    LET client == WriteKey(secret, userPub, serverPub, "client")
        srv == WriteKey(secret, userPub, serverPub, "server")
    IN  IF side = "user" THEN [write |-> client, read |-> srv]
                         ELSE [write |-> srv, read |-> client]

UserDHMsg(d) == [type |-> 1, user |-> DHPub(User(d))]
ServerDHMsg(d, userPub) ==
    LET pub == DHPub(Server(d))
    IN  [type |-> 2, server |-> pub, user |-> userPub,
         sig |-> Sign(ServerSignKey, ServerSignedDHPublicValues(pub, userPub))]
UserSigMsg(d, serverPub) ==
    LET pub == DHPub(User(d))
    IN  [type |-> 3, user |-> pub, server |-> serverPub,
         sig |-> Sign(dialer[d].config.UserSignKey, UserSignedDHPublicValues(pub, serverPub))]
Junk == [type |-> 0]                       \* bytes with no known message type in front
Record(key) == [type |-> 0, key |-> key]   \* begins with a length below 2^24

Init ==
    /\ TCPInit
    /\ dialer = [d \in Dialers |-> [pc |-> "idle", config |-> NoConfig,
                                serverPub |-> None, sent |-> FALSE]]
    /\ server = [pc |-> "accept", conn |-> None, userPub |-> None]
    /\ connChan = <<>>
    /\ keys = [e \in Ends |-> NoKeys]
    /\ resets = 0

-----------------------------------------------------------------------------
(* Both sides *)

\* (mutant) ReadFull asks for more than the message
MessageLenLong == 2

\* What ReadSerializedMessage reads: the message and nothing behind it.
MessageLen == 1

\* VWrite of one message in an empty send buffer.
WriteSerializableMessage(e, msg) == ~ConnectionClosing(e) /\ VWriteStore(e, <<msg>>)

ReadSerializedMessage(e) == VReadTake(e, MessageLen)

\* The message that VRead is to return next.
Incoming(e) == Head(recvBuf[e])

-----------------------------------------------------------------------------
(* VTLSDial *)

DialerAt(d, pc) == dialer[d].pc = pc
DialerTo(d, pc) == dialer' = [dialer EXCEPT ![d].pc = pc]

\* VConnect has established the connection; the listener's side is queued for VAccept.
VConnect(d) ==
    /\ DialerAt(d, "idle")
    /\ \/ DialerTo(d, "plain")
       \/ \E config \in ClientConfigs :
             dialer' = [dialer EXCEPT ![d].pc = "send", ![d].config = config]
    /\ connChan' = Append(connChan, d)
    /\ UNCHANGED <<tcpVars, server, keys, resets>>

UserSendsDH(d) ==
    /\ DialerAt(d, "send")
    /\ WriteSerializableMessage(User(d), UserDHMsg(d))
    /\ DialerTo(d, "read")
    /\ UNCHANGED <<server, connChan, keys, resets>>

\* VRead looks at the state before it waits.
UserReads(d) ==
    /\ DialerAt(d, "read")
    /\ ~ConnectionClosing(User(d))
    /\ DialerTo(d, "wait")
    /\ UNCHANGED <<tcpVars, server, connChan, keys, resets>>

\* Deserialize, the echo of the user's value and the server's signature.
UserAccepts(d, msg) ==
    /\ msg.type = 2
    /\ msg.user = DHPub(User(d))
    /\ Verify(dialer[d].config.ServerVerifyKey, ServerSignedDHPublicValues(msg.server, msg.user), msg.sig)

UserTakesServerDH(d) ==
    /\ DialerAt(d, "wait")
    /\ ReadSerializedMessage(User(d))
    /\ dialer' = [dialer EXCEPT ![d] =
          IF UserAccepts(d, Incoming(User(d)))
          THEN [@ EXCEPT !.pc = "sign", !.serverPub = Incoming(User(d)).server]
          ELSE [@ EXCEPT !.pc = "close"]]
    /\ UNCHANGED <<server, connChan, keys, resets>>

UserSigns(d) ==
    /\ DialerAt(d, "sign")
    /\ WriteSerializableMessage(User(d), UserSigMsg(d, dialer[d].serverPub))
    /\ DialerTo(d, "signed")
    /\ UNCHANGED <<server, connChan, keys, resets>>

\* VTLSDial derives the keys and returns without an answer to its signature, and
\* registerConn follows; the server may have registered its end before.
UserRegisters(d) ==
    LET serverPub == dialer[d].serverPub
        userPub == DHPub(User(d))
    IN  /\ DialerAt(d, "signed")
        /\ DialerTo(d, "done")
        /\ keys' = [keys EXCEPT ![User(d)] =
              DeriveWriteKeys(ComputeSharedSecret(userPub, serverPub), userPub, serverPub, "user")]
        /\ UNCHANGED <<tcpVars, server, connChan, resets>>

\* VWrite or VRead refuses, or VRead returns io.EOF.
UserFails(d) ==
    /\ \/ dialer[d].pc \in {"send", "read", "sign"} /\ ConnectionClosing(User(d))
       \/ DialerAt(d, "wait") /\ VReadEOF(User(d))
    /\ DialerTo(d, "close")
    /\ UNCHANGED <<tcpVars, server, connChan, keys, resets>>

\* VTLSDial returns an error, after VClose.
UserCloses(d) ==
    /\ DialerAt(d, "close")
    /\ IF ConnectionClosing(User(d)) THEN UNCHANGED tcpVars ELSE VCloseFin(User(d))
    /\ DialerTo(d, "failed")
    /\ UNCHANGED <<server, connChan, keys, resets>>

VTLSDial(d) == \/ UserSendsDH(d) \/ UserReads(d) \/ UserTakesServerDH(d)
               \/ UserSigns(d) \/ UserRegisters(d) \/ UserFails(d) \/ UserCloses(d)

\* (mutant) the key of the other direction
SealsWithReadKey(e) == keys[e].read

\* The key that SealData uses.
SealKey(e) == keys[e].write

\* The new connection is used at once: a record, behind the signature in the stream.
FirstWrite(d) ==
    /\ DialerAt(d, "done") /\ ~dialer[d].sent
    /\ WriteSerializableMessage(User(d), Record(SealKey(User(d))))
    /\ dialer' = [dialer EXCEPT ![d].sent = TRUE]
    /\ UNCHANGED <<server, connChan, keys, resets>>

\* A plain TCP client writes text, or closes, or does nothing.
PlainClient(d) ==
    /\ DialerAt(d, "plain") /\ ~ConnectionClosing(User(d))
    /\ \/ WriteSerializableMessage(User(d), Junk) \/ VCloseFin(User(d))
    /\ DialerTo(d, "failed")
    /\ UNCHANGED <<server, connChan, keys, resets>>

-----------------------------------------------------------------------------
(* VTLSAccept *)

ServerAt(pc) == server.pc = pc
Conn == Server(server.conn)

\* (mutant) the connection stays in the queue
VAcceptPeek ==
    /\ ServerAt("accept") /\ connChan # <<>>
    /\ server' = [pc |-> "read1", conn |-> Head(connChan), userPub |-> None]
    /\ UNCHANGED <<tcpVars, dialer, connChan, keys, resets>>

VAccept ==
    /\ ServerAt("accept") /\ connChan # <<>>
    /\ server' = [pc |-> "read1", conn |-> Head(connChan), userPub |-> None]
    /\ connChan' = Tail(connChan)
    /\ UNCHANGED <<tcpVars, dialer, keys, resets>>

ServerReads ==
    /\ server.pc \in {"read1", "read3"}
    /\ ~ConnectionClosing(Conn)
    /\ server' = [server EXCEPT !.pc = IF @ = "read1" THEN "wait1" ELSE "wait3"]
    /\ UNCHANGED <<tcpVars, dialer, connChan, keys, resets>>

ServerTakesUserDH ==
    /\ ServerAt("wait1")
    /\ ReadSerializedMessage(Conn)
    /\ server' = IF Incoming(Conn).type = 1
                 THEN [server EXCEPT !.pc = "send", !.userPub = Incoming(Conn).user]
                 ELSE [server EXCEPT !.pc = "close"]
    /\ UNCHANGED <<dialer, connChan, keys, resets>>

ServerSendsDH ==
    /\ ServerAt("send")
    /\ WriteSerializableMessage(Conn, ServerDHMsg(server.conn, server.userPub))
    /\ server' = [server EXCEPT !.pc = "read3"]
    /\ UNCHANGED <<dialer, connChan, keys, resets>>

\* (mutant) the values are compared and the signature is not
ValuesOnly(msg) == msg.type = 3 /\ msg.user = server.userPub /\ msg.server = DHPub(Conn)

\* Deserialize, both values of this exchange and the user's signature.
ServerAccepts(msg) ==
    /\ msg.type = 3
    /\ msg.user = server.userPub /\ msg.server = DHPub(Conn)
    /\ Verify(UserVerifyKey, UserSignedDHPublicValues(msg.user, msg.server), msg.sig)

\* VTLSAccept returns, tlsa registers the connection and calls VTLSAccept again.
ServerTakesSignature ==
    /\ ServerAt("wait3")
    /\ ReadSerializedMessage(Conn)
    /\ IF ServerAccepts(Incoming(Conn))
       THEN /\ keys' = [keys EXCEPT ![Conn] =
                  DeriveWriteKeys(ComputeSharedSecret(DHPub(Conn), server.userPub),
                                  server.userPub, DHPub(Conn), "server")]
            /\ server' = [server EXCEPT !.pc = "accept"]
       ELSE server' = [server EXCEPT !.pc = "close"] /\ UNCHANGED keys
    /\ UNCHANGED <<dialer, connChan, resets>>

ServerFails ==
    /\ \/ server.pc \in {"read1", "send", "read3"} /\ ConnectionClosing(Conn)
       \/ server.pc \in {"wait1", "wait3"} /\ VReadEOF(Conn)
    /\ server' = [server EXCEPT !.pc = "close"]
    /\ UNCHANGED <<tcpVars, dialer, connChan, keys, resets>>

\* (mutant) VTLSAccept returns the error and leaves the connection open
ReturnOnly ==
    /\ ServerAt("close")
    /\ server' = [server EXCEPT !.pc = "ended"]
    /\ UNCHANGED <<tcpVars, dialer, connChan, keys, resets>>

\* VClose, and the error that VTLSAccept returns ends the goroutine of tlsa.  The
\* listener stays open and TCP goes on to establish connections.
ServerCloses ==
    /\ ServerAt("close")
    /\ IF ConnectionClosing(Conn) THEN UNCHANGED tcpVars ELSE VCloseFin(Conn)
    /\ server' = [server EXCEPT !.pc = "ended"]
    /\ UNCHANGED <<dialer, connChan, keys, resets>>

VTLSAccept == \/ VAccept \/ ServerReads \/ ServerTakesUserDH \/ ServerSendsDH
              \/ ServerTakesSignature \/ ServerFails \/ ServerCloses

-----------------------------------------------------------------------------

Connection(e) == TCPStep(e) /\ UNCHANGED tlsVars

\* The command rst, or the peer's.
TearDown(e) ==
    /\ resets < MaxResets /\ dialer[e[1]].pc # "idle"
    /\ Reset(e)
    /\ resets' = resets + 1
    /\ UNCHANGED <<dialer, server, connChan, keys>>

Next ==
    \/ \E d \in Dialers : VConnect(d) \/ VTLSDial(d) \/ FirstWrite(d) \/ PlainClient(d)
    \/ VTLSAccept
    \/ \E e \in Ends : Connection(e) \/ TearDown(e)

Spec == Init /\ [][Next]_vars

\* The goroutines of VTLSDial and tlsa run and TCP delivers; nobody has to connect,
\* to write or to close.
Fairness ==
    /\ \A d \in Dialers : WF_vars(VTLSDial(d))
    /\ WF_vars(VTLSAccept)
    /\ \A e \in Ends : WF_vars(Connection(e))

FairSpec == Spec /\ Fairness

-----------------------------------------------------------------------------
(* Properties *)

Messages == {Junk} \cup UNION
    {LET secret == {DHPub(User(d)), DHPub(Server(d))}
     IN  {UserDHMsg(d), ServerDHMsg(d, DHPub(User(d))), UserSigMsg(d, DHPub(Server(d))),
          Record(WriteKey(secret, DHPub(User(d)), DHPub(Server(d)), "client"))} : d \in Dialers}

\* The type invariant.  It says as well that all values in messages are those of
\* the connection that carries them.
TypeOK ==
    /\ TCPTypeOK(Messages)
    /\ \A d \in Dialers :
          /\ dialer[d].pc \in {"idle", "send", "read", "wait", "sign", "signed", "close", "done",
                                "failed", "plain"}
          /\ dialer[d].config \in ClientConfigs \cup {NoConfig}
          /\ dialer[d].serverPub \in {None, DHPub(Server(d))}
          /\ dialer[d].sent \in BOOLEAN
    /\ server.pc \in {"accept", "read1", "wait1", "send", "read3", "wait3", "close", "ended"}
    /\ server.conn \in Dialers \cup {None}
    /\ server.userPub \in {None} \cup {DHPub(User(d)) : d \in Dialers}
    /\ connChan \in Seq(Dialers)
    /\ \A e \in Ends : DOMAIN keys[e] = {"write", "read"}
    /\ resets \in 0 .. MaxResets

Registered(e) == keys[e] # NoKeys

\* Two ends of a connection that are both registered read with the key that the
\* other writes with, and no key is used for two directions or two connections.
KeysCrossed ==
    \A e, f \in Ends : Registered(e) /\ Registered(f) =>
        /\ f = Peer[e] => keys[e].write = keys[f].read
        /\ f # e => keys[e].write # keys[f].write
        /\ f # Peer[e] => keys[e].write # keys[f].read

\* A user that has verified the server's signature over both values of this
\* connection, and has signed them.
Committed(d) ==
    /\ dialer[d].pc \in {"signed", "done"}
    /\ dialer[d].config.ServerVerifyKey = ServerSignKey
    /\ dialer[d].serverPub = DHPub(Server(d))

\* tlsa registers only a connection whose user holds the trusted key, has verified
\* this server's value and has signed it, although VTLSDial may not have returned;
\* VTLSDial returns only after the trusted server has answered this user's value.
Authenticated ==
    \A d \in Dialers :
        /\ Registered(Server(d)) =>
              dialer[d].config.UserSignKey = UserVerifyKey /\ Committed(d)
        /\ Registered(User(d)) => Committed(d)

\* What the user writes directly behind the signature is for VTLSRead: the
\* handshake takes its own bytes from the stream, no more and no fewer.
FirstRecordKept ==
    \A d \in Dialers : Registered(Server(d)) =>
        recvBuf[Server(d)] \o sendBuf[User(d)]
            = IF dialer[d].sent THEN <<Record(keys[Server(d)].read)>> ELSE <<>>

\* VTLSDial does not learn whether the server takes its signature.  A user who is
\* rejected finds out from the end of the stream.
RejectedIsTold ==
    \A d \in Dialers :
        server.pc = "ended" /\ server.conn = d
        ~> state[User(d)] # "ESTABLISHED" \/ resets > 0

\* VTLSDial returns, unless the accept loop has ended or is kept by a client that
\* says nothing: handshakes are served one at a time, without a timeout.
DialReturns ==
    \A d \in Dialers :
        dialer[d].pc = "send"
        ~> \/ dialer[d].pc \in {"done", "failed"}
           \/ server.pc = "ended"
           \/ server.pc = "wait1" /\ DialerAt(server.conn, "plain")
           \/ resets > 0

=============================================================================
