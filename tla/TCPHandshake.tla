---------------------------- MODULE TCPHandshake ----------------------------
(***************************************************************************)
(* Connection set-up of the MiniTLS TCP (src/pkg/tcpStack/handshake.go,    *)
(* socketsAPI.go, and the dispatch of HandleTCP in doTcp.go): clients that *)
(* call VConnect and one server that calls VListen and VAccept.            *)
(*                                                                         *)
(* Every client has one socket table entry, conn[c].  The server makes an  *)
(* entry, entry[e], for every SYN that finds none; entries that the server *)
(* gave up remain, since callbacks and handlers still point to them.  The  *)
(* goroutines are VConnect, the IP goroutine of each host, the callbacks   *)
(* of the handshake timers and the server's application in VAccept.  A     *)
(* step is what one of them does between two points where another can      *)
(* change the same entry (handshakeMu, table.mu, or no lock at all).       *)
(*                                                                         *)
(* GenerateNewSeq draws initial sequence numbers at random: here they are  *)
(* different for different entries and far apart.                          *)
(***************************************************************************)
EXTENDS Integers, Sequences

CONSTANTS
    Clients,
    Entries,       \* bound: socket table entries the server may ever make
    MaxRetrans,    \* MAX_RETRANSMISSIONS
    Backlog,       \* capacity of connChan
    MaxAccepts,    \* bound: how often the server's program calls VAccept
    ListenerCloses,\* does the program close the listener?
    MaxData,       \* bound: one-byte segments a client sends
    MaxLoss        \* bound: packets the network loses

ASSUME HandshakeAssumption ==
    /\ Entries \subseteq Nat \ {0}
    /\ MaxRetrans \in Nat /\ Backlog \in Nat /\ MaxAccepts \in Nat
    /\ MaxData \in Nat /\ MaxLoss \in Nat
    /\ ListenerCloses \in BOOLEAN

VARIABLES
    conn,            \* the clients' entries
    clientIp,        \* SYN-ACK that a client's IP goroutine has dispatched
    entry,           \* the server's entries
    serverIp,        \* what the server's IP goroutine is doing
    listener,        \* VTCPListener: state, acceptingConns, connChan
    accept,          \* the server's program: where it is, calls of VAccept
    accepted,        \* entries that VAccept has returned
    panicked,        \* the server's process has died
    toServer, toClient, losses,
    acknowledged     \* history: <<c, n>>, client c has sent ACK n

clientVars == <<conn, clientIp>>
serverVars == <<entry, serverIp, listener, accept, accepted, panicked>>
netVars    == <<toServer, toClient, losses>>
vars       == <<clientVars, serverVars, netVars, acknowledged>>

ClientISN == 1
\* GenerateNewSeq for entry e
ServerISN(e) == 10 * e

NoMsg == [type |-> "none"]
Idle == [pc |-> "idle"]

Syn(c) == [type |-> "SYN", client |-> c, seq |-> ClientISN, ack |-> 0]
SynAck(c, e) == [type |-> "SYNACK", client |-> c, seq |-> ServerISN(e), ack |-> ClientISN + 1]
\* An ACK without payload, and a data segment, which carries ACK as well.
Ack(c, seq, ack) == [type |-> "ACK", client |-> c, seq |-> seq, ack |-> ack]
Data(c, seq, ack) == [type |-> "DATA", client |-> c, seq |-> seq, ack |-> ack]

\* A handshakeTimer, with the goroutine of its callback once it has fired.
\* stopHandshakeTimer has no effect on a callback that is under way.
Stopped(timer) == IF timer = "running" THEN "off" ELSE timer

-----------------------------------------------------------------------------
(* The network *)

LoseToServer ==
    /\ losses < MaxLoss
    /\ \E m \in toServer : toServer' = toServer \ {m}
    /\ losses' = losses + 1
    /\ UNCHANGED <<clientVars, serverVars, toClient, acknowledged>>

LoseToClient ==
    /\ losses < MaxLoss
    /\ \E m \in toClient : toClient' = toClient \ {m}
    /\ losses' = losses + 1
    /\ UNCHANGED <<clientVars, serverVars, toServer, acknowledged>>

-----------------------------------------------------------------------------
(* The client: VConnect *)

\* A new entry, in the table, and the first SYN.
VConnect(c) ==
    /\ conn[c].connect = "idle"
    /\ conn' = [conn EXCEPT ![c].connect = "sent", ![c].state = "SYN_SENT", ![c].inTable = TRUE]
    /\ toServer' = toServer \cup {Syn(c)}
    /\ UNCHANGED <<clientIp, serverVars, toClient, losses, acknowledged>>

\* startSynRetransTimer; the SYN-ACK may have come already.
VConnectTimer(c) ==
    /\ conn[c].connect = "sent"
    /\ conn' = [conn EXCEPT ![c].connect = "wait", ![c].timer = "running"]
    /\ UNCHANGED <<clientIp, serverVars, netVars, acknowledged>>

VConnectReturn(c) ==
    /\ conn[c].connect = "wait" /\ conn[c].establishedChan # "empty"
    /\ conn' = [conn EXCEPT ![c].connect = IF conn[c].establishedChan = "ESTABLISHED"
                                           THEN "connected" ELSE "error",
                            ![c].establishedChan = "empty"]
    /\ UNCHANGED <<clientIp, serverVars, netVars, acknowledged>>

\* signalConnectResult: the channel has room for one result.
Signalled(chan, result) == IF chan = "empty" THEN result ELSE chan

-----------------------------------------------------------------------------
(* The client: SYN-ACK *)

\* HandleTCP finds the entry in SYN_SENT and calls handleSynAck.
DispatchSynAck(c) ==
    /\ clientIp[c] = NoMsg /\ conn[c].inTable /\ conn[c].state = "SYN_SENT"
    /\ \E m \in toClient : /\ m.client = c
                           /\ clientIp' = [clientIp EXCEPT ![c] = m]
                           /\ toClient' = toClient \ {m}
    /\ UNCHANGED <<conn, serverVars, toServer, losses, acknowledged>>

\* Whatever sendSynRetrans has done to the entry in the meantime.
handleSynAck(c) ==
    /\ clientIp[c] # NoMsg
    /\ LET m == clientIp[c]
       IN  /\ conn' = [conn EXCEPT ![c].receivedSyn = TRUE,
                                   ![c].timer = Stopped(@),
                                   ![c].seqNum = m.ack,
                                   ![c].state = "ESTABLISHED",
                                   ![c].rcvNxt = m.seq + 1,
                                   ![c].establishedChan = Signalled(@, "ESTABLISHED")]
           /\ toServer' = toServer \cup {Ack(c, m.ack, m.seq + 1)}
           /\ acknowledged' = acknowledged \cup {<<c, m.seq + 1>>}
    /\ clientIp' = [clientIp EXCEPT ![c] = NoMsg]
    /\ UNCHANGED <<serverVars, toClient, losses>>

\* A SYN-ACK in ESTABLISHED: the final ACK again, with the seqNum of now.
ResendFinalAck(c) ==
    /\ clientIp[c] = NoMsg /\ conn[c].inTable /\ conn[c].state = "ESTABLISHED"
    /\ \E m \in toClient :
          /\ m.client = c
          /\ toServer' = toServer \cup {Ack(c, conn[c].seqNum, m.seq + 1)}
          /\ acknowledged' = acknowledged \cup {<<c, m.seq + 1>>}
          /\ toClient' = toClient \ {m}
    /\ UNCHANGED <<clientVars, serverVars, losses>>

\* No entry, or one that is CLOSED and not yet removed: no case of HandleTCP.
ClientDiscard(c) ==
    /\ clientIp[c] = NoMsg /\ conn[c].connect # "idle"
    /\ ~conn[c].inTable \/ conn[c].state = "CLOSED"
    /\ \E m \in toClient : m.client = c /\ toClient' = toClient \ {m}
    /\ UNCHANGED <<clientVars, serverVars, toServer, losses, acknowledged>>

-----------------------------------------------------------------------------
(* The client: SYN retransmission *)

\* (mutant) one retransmission too many
exhaustedLate(n) == n > MaxRetrans

exhausted(n) == n >= MaxRetrans

SynTimerFires(c) ==
    /\ conn[c].timer = "running"
    /\ conn' = [conn EXCEPT ![c].timer = "fired"]
    /\ UNCHANGED <<clientIp, serverVars, netVars, acknowledged>>

\* sendSynRetrans, with handshakeMu locked
SynRetransCheck(c) ==
    /\ conn[c].timer = "fired"
    /\ \/ /\ conn[c].state # "SYN_SENT" \/ conn[c].receivedSyn
          /\ conn' = [conn EXCEPT ![c].timer = "off"]
       \/ /\ conn[c].state = "SYN_SENT" /\ ~conn[c].receivedSyn
          /\ exhausted(conn[c].numRetrans)
          /\ conn' = [conn EXCEPT ![c].state = "CLOSED", ![c].timer = "giveup"]
       \/ /\ conn[c].state = "SYN_SENT" /\ ~conn[c].receivedSyn
          /\ ~exhausted(conn[c].numRetrans)
          /\ conn' = [conn EXCEPT ![c].numRetrans = @ + 1, ![c].timer = "resend"]
    /\ UNCHANGED <<clientIp, serverVars, netVars, acknowledged>>

\* (mutant) the timer is not started again
restartedMissing == "off"

\* startSynRetransTimer at the end of sendSynRetrans, and its counterpart at
\* the end of sendSynAckRetrans
restarted == "running"

SynResend(c) ==
    /\ conn[c].timer = "resend"
    /\ toServer' = toServer \cup {Syn(c)}
    /\ conn' = [conn EXCEPT ![c].timer = restarted]
    /\ UNCHANGED <<clientIp, serverVars, toClient, losses, acknowledged>>

\* removeSelf and signalConnectResult(ERROR), after handshakeMu is released
SynGiveUp(c) ==
    /\ conn[c].timer = "giveup"
    /\ conn' = [conn EXCEPT ![c].timer = "off", ![c].inTable = FALSE,
                            ![c].establishedChan = Signalled(@, "ERROR")]
    /\ UNCHANGED <<clientIp, serverVars, netVars, acknowledged>>

-----------------------------------------------------------------------------
(* The client sends data: sendLoop, and retransmitSegment on its first     *)
(* byte.  What happens to the data afterwards is module TCPTransfer.       *)

SendData(c) ==
    /\ conn[c].connect = "connected"
    /\ conn[c].seqNum - ClientISN - 1 < MaxData
    /\ toServer' = toServer \cup {Data(c, conn[c].seqNum, conn[c].rcvNxt)}
    /\ conn' = [conn EXCEPT ![c].seqNum = @ + 1]
    /\ UNCHANGED <<clientIp, serverVars, toClient, losses, acknowledged>>

RetransmitData(c) ==
    /\ conn[c].seqNum > ClientISN + 1
    /\ toServer' = toServer \cup {Data(c, ClientISN + 1, conn[c].rcvNxt)}
    /\ UNCHANGED <<clientVars, serverVars, toClient, losses, acknowledged>>

-----------------------------------------------------------------------------
(* The server's IP goroutine *)

Running == ~panicked

\* Entries that a packet of client c matches exactly.
tableMatch(c) == {e \in Entries : entry[e].inTable /\ entry[e].client = c}

TakeFrom(m) == m \in toServer /\ toServer' = toServer \ {m}

\* A SYN for the listener: a new entry, SYN-ACK, timer.
handleSyn ==
    /\ Running /\ serverIp = Idle
    /\ listener.state = "LISTEN" /\ listener.acceptingConns
    /\ \E m \in toServer, e \in Entries :
          /\ TakeFrom(m)
          /\ m.type = "SYN" /\ tableMatch(m.client) = {}
          /\ entry[e].state = "free"
          /\ entry' = [entry EXCEPT ![e] = [@ EXCEPT !.client = m.client, !.state = "SYN_RECEIVED",
                                                     !.inTable = TRUE, !.seqNum = ServerISN(e),
                                                     !.timer = "running"]]
          /\ toClient' = toClient \cup {SynAck(m.client, e)}
    /\ UNCHANGED <<clientVars, serverIp, listener, accept, accepted, panicked, losses, acknowledged>>

\* What HandleTCP drops, or leaves to handlePureAck and handlePayload.
ServerDiscard ==
    /\ Running /\ serverIp = Idle
    /\ \E m \in toServer :
          /\ TakeFrom(m)
          /\ \/ /\ tableMatch(m.client) = {}
                /\ \/ listener.state # "LISTEN" \/ ~listener.acceptingConns
                   \/ m.type # "SYN"
             \/ \E e \in tableMatch(m.client) :
                   \/ entry[e].state # "SYN_RECEIVED"
                   \/ m.type = "SYN"
    /\ UNCHANGED <<clientVars, serverVars, toClient, losses, acknowledged>>

\* HandleTCP finds the entry in SYN_RECEIVED and calls handleAckHandshake
\* with a segment that has the ACK flag.
DispatchAck ==
    /\ Running /\ serverIp = Idle
    /\ \E m \in toServer, e \in Entries :
          /\ TakeFrom(m)
          /\ e \in tableMatch(m.client) /\ entry[e].state = "SYN_RECEIVED"
          /\ m.type \in {"ACK", "DATA"}
          /\ serverIp' = [pc |-> "ack", entry |-> e, msg |-> m]
    /\ UNCHANGED <<clientVars, entry, listener, accept, accepted, panicked, toClient, losses,
                   acknowledged>>

\* (mutant) any acknowledgment number will do
acksAnything(e, m) == TRUE

acksOurSyn(e, m) == m.ack = entry[e].seqNum + 1

\* handleAckHandshake up to the release of table.mu
handleAckHandshake ==
    /\ Running /\ serverIp.pc = "ack"
    /\ LET e == serverIp.entry
           m == serverIp.msg
       IN  \/ /\ acksOurSyn(e, m)
              /\ entry' = [entry EXCEPT ![e].seqNum = @ + 1, ![e].receivedSynAck = TRUE,
                                        ![e].timer = Stopped(@), ![e].state = "ESTABLISHED",
                                        ![e].rcvNxt = m.seq]
              /\ serverIp' = [pc |-> "handover", entry |-> e]
           \/ /\ ~acksOurSyn(e, m)
              /\ serverIp' = Idle
              /\ UNCHANGED entry
    /\ UNCHANGED <<clientVars, listener, accept, accepted, panicked, netVars, acknowledged>>

\* (mutant) the connection is dropped when the queue has one free slot left
queuedOrDropped(q, e) == IF Len(q) < Backlog - 1 THEN Append(q, e) ELSE q

queued(q, e) == Append(q, e)

\* connChan <- conn: blocks while the queue is full
Handover ==
    /\ Running /\ serverIp.pc = "handover" /\ listener.state = "LISTEN"
    /\ Len(listener.connChan) < Backlog
    /\ listener' = [listener EXCEPT !.connChan = queued(@, serverIp.entry)]
    /\ serverIp' = Idle
    /\ UNCHANGED <<clientVars, entry, accept, accepted, panicked, netVars, acknowledged>>

\* ... and panics when the listener has been closed.
HandoverClosed ==
    /\ Running /\ serverIp.pc = "handover" /\ listener.state = "CLOSED"
    /\ panicked' = TRUE
    /\ UNCHANGED <<clientVars, entry, serverIp, listener, accept, accepted, netVars, acknowledged>>

-----------------------------------------------------------------------------
(* The server: SYN-ACK retransmission *)

SynAckTimerFires(e) ==
    /\ Running /\ entry[e].timer = "running"
    /\ entry' = [entry EXCEPT ![e].timer = "fired"]
    /\ UNCHANGED <<clientVars, serverIp, listener, accept, accepted, panicked, netVars, acknowledged>>

\* sendSynAckRetrans, with handshakeMu locked
SynAckRetransCheck(e) ==
    /\ Running /\ entry[e].timer = "fired"
    /\ \/ /\ entry[e].state # "SYN_RECEIVED" \/ entry[e].receivedSynAck
          /\ entry' = [entry EXCEPT ![e].timer = "off"]
       \/ /\ entry[e].state = "SYN_RECEIVED" /\ ~entry[e].receivedSynAck
          /\ exhausted(entry[e].numRetrans)
          /\ entry' = [entry EXCEPT ![e].state = "CLOSED", ![e].timer = "giveup"]
       \/ /\ entry[e].state = "SYN_RECEIVED" /\ ~entry[e].receivedSynAck
          /\ ~exhausted(entry[e].numRetrans)
          /\ entry' = [entry EXCEPT ![e].numRetrans = @ + 1, ![e].timer = "resend"]
    /\ UNCHANGED <<clientVars, serverIp, listener, accept, accepted, panicked, netVars, acknowledged>>

SynAckResend(e) ==
    /\ Running /\ entry[e].timer = "resend"
    /\ toClient' = toClient \cup {SynAck(entry[e].client, e)}
    /\ entry' = [entry EXCEPT ![e].timer = restarted]
    /\ UNCHANGED <<clientVars, serverIp, listener, accept, accepted, panicked, toServer, losses,
                   acknowledged>>

SynAckGiveUp(e) ==
    /\ Running /\ entry[e].timer = "giveup"
    /\ entry' = [entry EXCEPT ![e].timer = "off", ![e].inTable = FALSE]
    /\ UNCHANGED <<clientVars, serverIp, listener, accept, accepted, panicked, netVars, acknowledged>>

-----------------------------------------------------------------------------
(* The server's program: VAccept and VClose of the listener                *)

VAccept ==
    /\ Running /\ accept.pc = "idle" /\ accept.calls < MaxAccepts
    /\ accept' = [pc |-> "waiting", calls |-> accept.calls + 1]
    /\ listener' = [listener EXCEPT !.acceptingConns = TRUE]
    /\ UNCHANGED <<clientVars, entry, serverIp, accepted, panicked, netVars, acknowledged>>

VAcceptReturn ==
    /\ Running /\ accept.pc = "waiting" /\ listener.connChan # <<>>
    /\ accepted' = Append(accepted, Head(listener.connChan))
    /\ listener' = [listener EXCEPT !.connChan = Tail(@)]
    /\ accept' = [accept EXCEPT !.pc = "idle"]
    /\ UNCHANGED <<clientVars, entry, serverIp, panicked, netVars, acknowledged>>

\* A closed and empty connChan delivers nil, and VAccept reads its socketID.
VAcceptClosed ==
    /\ Running /\ accept.pc = "waiting"
    /\ listener.state = "CLOSED" /\ listener.connChan = <<>>
    /\ panicked' = TRUE
    /\ UNCHANGED <<clientVars, entry, serverIp, listener, accept, accepted, netVars, acknowledged>>

VCloseListener ==
    /\ Running /\ ListenerCloses
    /\ listener.state = "LISTEN" /\ listener.acceptingConns
    /\ listener' = [listener EXCEPT !.state = "CLOSED", !.acceptingConns = FALSE]
    /\ UNCHANGED <<clientVars, entry, serverIp, accept, accepted, panicked, netVars, acknowledged>>

-----------------------------------------------------------------------------
Init ==
    /\ conn = [c \in Clients |->
                  [connect |-> "idle", state |-> "free", inTable |-> FALSE, seqNum |-> ClientISN,
                   receivedSyn |-> FALSE, numRetrans |-> 0, timer |-> "off", rcvNxt |-> 0,
                   establishedChan |-> "empty"]]
    /\ clientIp = [c \in Clients |-> NoMsg]
    /\ entry = [e \in Entries |->
                  [client |-> "none", state |-> "free", inTable |-> FALSE, seqNum |-> 0,
                   receivedSynAck |-> FALSE, numRetrans |-> 0, timer |-> "off", rcvNxt |-> 0]]
    /\ serverIp = Idle
    /\ listener = [state |-> "LISTEN", acceptingConns |-> FALSE, connChan |-> <<>>]   \* VListen
    /\ accept = [pc |-> "idle", calls |-> 0]
    /\ accepted = <<>> /\ panicked = FALSE
    /\ toServer = {} /\ toClient = {} /\ losses = 0
    /\ acknowledged = {}

Connect(c) == VConnect(c) \/ VConnectTimer(c) \/ VConnectReturn(c)
ClientIP(c) == DispatchSynAck(c) \/ handleSynAck(c) \/ ResendFinalAck(c) \/ ClientDiscard(c)
sendSynRetrans(c) == SynTimerFires(c) \/ SynRetransCheck(c) \/ SynResend(c) \/ SynGiveUp(c)
ServerIP == handleSyn \/ ServerDiscard \/ DispatchAck \/ handleAckHandshake \/ Handover
            \/ HandoverClosed
sendSynAckRetrans(e) == SynAckTimerFires(e) \/ SynAckRetransCheck(e) \/ SynAckResend(e)
                        \/ SynAckGiveUp(e)
Program == VAccept \/ VAcceptReturn \/ VAcceptClosed \/ VCloseListener

Next ==
    \/ \E c \in Clients : Connect(c) \/ ClientIP(c) \/ sendSynRetrans(c)
                          \/ SendData(c) \/ RetransmitData(c)
    \/ \E e \in Entries : sendSynAckRetrans(e)
    \/ ServerIP \/ Program
    \/ LoseToServer \/ LoseToClient

Spec == Init /\ [][Next]_vars

\* Goroutines that can run do run and timers expire; nothing is assumed of
\* the network, of when VConnect is called or of the listener being closed.
Fairness ==
    /\ \A c \in Clients : /\ WF_vars(VConnectTimer(c)) /\ WF_vars(VConnectReturn(c))
                          /\ WF_vars(handleSynAck(c)) /\ WF_vars(sendSynRetrans(c))
    /\ \A e \in Entries : WF_vars(sendSynAckRetrans(e))
    /\ WF_vars(handleAckHandshake) /\ WF_vars(Handover)
    /\ WF_vars(VAccept) /\ WF_vars(VAcceptReturn)

FairSpec == Spec /\ Fairness

-----------------------------------------------------------------------------
(* Properties *)

Timer == {"off", "running", "fired", "resend", "giveup"}
ClientMsg == [type : {"SYN", "ACK", "DATA"}, client : Clients, seq : Nat, ack : Nat]
ServerMsg == [type : {"SYNACK"}, client : Clients, seq : Nat, ack : Nat]
ClientEntry == [connect : {"idle", "sent", "wait", "connected", "error"},
                state : {"free", "SYN_SENT", "ESTABLISHED", "CLOSED"},
                inTable : BOOLEAN, seqNum : Nat, receivedSyn : BOOLEAN, numRetrans : 0..MaxRetrans,
                timer : Timer, rcvNxt : Nat, establishedChan : {"empty", "ESTABLISHED", "ERROR"}]
ServerEntry == [client : Clients \cup {"none"},
                state : {"free", "SYN_RECEIVED", "ESTABLISHED", "CLOSED"},
                inTable : BOOLEAN, seqNum : Nat, receivedSynAck : BOOLEAN,
                numRetrans : 0..MaxRetrans, timer : Timer, rcvNxt : Nat]

\* Types of the socket table entries, channels, packets and goroutines of
\* both hosts; connChan never holds more than its capacity.
TypeOK ==
    /\ conn \in [Clients -> ClientEntry]
    /\ clientIp \in [Clients -> ServerMsg \cup {NoMsg}]
    /\ entry \in [Entries -> ServerEntry]
    /\ serverIp \in {Idle} \cup [pc : {"ack"}, entry : Entries, msg : ClientMsg]
                          \cup [pc : {"handover"}, entry : Entries]
    /\ listener.state \in {"LISTEN", "CLOSED"} /\ listener.acceptingConns \in BOOLEAN
    /\ listener.connChan \in Seq(Entries) /\ Len(listener.connChan) <= Backlog
    /\ accept \in [pc : {"idle", "waiting"}, calls : 0..MaxAccepts]
    /\ accepted \in Seq(Entries) /\ panicked \in BOOLEAN
    /\ toServer \subseteq ClientMsg /\ toClient \subseteq ServerMsg /\ losses \in 0..MaxLoss
    /\ acknowledged \subseteq Clients \X Nat

\* The server takes a connection for established only if its client has
\* acknowledged this very entry's SYN-ACK: handleAckHandshake is not deceived
\* by ACKs and data that belong to an entry the server gave up before.
PassiveAnswered ==
    \A e \in Entries : entry[e].state = "ESTABLISHED" =>
        <<entry[e].client, ServerISN(e) + 1>> \in acknowledged

\* Neither side waits for an answer without a timer or a callback that will
\* end the wait, however handleSynAck, handleAckHandshake, the callbacks and
\* VConnect's own start of the timer interleave.
HandshakeArmed ==
    /\ \A c \in Clients : conn[c].state = "SYN_SENT" /\ conn[c].connect = "wait" =>
          conn[c].timer \in {"running", "fired", "resend"}
    /\ \A e \in Entries : entry[e].state = "SYN_RECEIVED" =>
          entry[e].timer \in {"running", "fired", "resend"}

\* VConnect returns, with a connection or an error, whatever the network does.
ConnectReturns ==
    \A c \in Clients : conn[c].connect = "sent" ~> conn[c].connect \in {"connected", "error"}

\* An entry does not stay in SYN_RECEIVED: it is established or given up.
HalfOpenEnds ==
    \A e \in Entries : entry[e].state = "SYN_RECEIVED" ~> entry[e].state # "SYN_RECEIVED"

\* A program that keeps calling VAccept is given every connection that
\* handleAckHandshake has established, although connChan is small and the IP
\* goroutine waits while it is full.
EstablishedIsAccepted ==
    \A e \in Entries : entry[e].state = "ESTABLISHED" ~>
        \E i \in 1..Len(accepted) : accepted[i] = e

=============================================================================
