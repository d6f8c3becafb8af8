------------------------- MODULE TCPHandshakeProofs -------------------------
(***************************************************************************)
(* Theorems about TCPHandshake, for any number of clients, of entries of   *)
(* the server, of retransmissions, of calls of VAccept and of losses: type *)
(* correctness, that the server is not deceived by what belongs to an      *)
(* entry it gave up, and that nobody waits without a timer.                *)
(***************************************************************************)
EXTENDS TCPHandshake, SequenceTheorems, TLAPS

-----------------------------------------------------------------------------
(* The inductive invariant *)

Armed == {"running", "fired", "resend"}
ListenerRecord == [state : {"LISTEN", "CLOSED"}, acceptingConns : BOOLEAN, connChan : Seq(Entries)]

\* A client has acknowledged a SYN-ACK exactly when it has taken one.
ClientInv(c) ==
    /\ conn[c].connect = "idle" =>
          /\ conn[c].state = "free" /\ ~conn[c].inTable /\ conn[c].timer = "off"
          /\ conn[c].establishedChan = "empty" /\ ~conn[c].receivedSyn
          /\ clientIp[c] = NoMsg
    /\ conn[c].state = "SYN_SENT" =>
          /\ ~conn[c].receivedSyn /\ conn[c].timer # "giveup"
          /\ conn[c].connect = "wait" => conn[c].timer \in Armed
    /\ \/ conn[c].establishedChan = "ESTABLISHED" \/ conn[c].connect = "connected"
       \/ conn[c].seqNum # ClientISN
       => conn[c].receivedSyn
    /\ conn[c].receivedSyn => <<c, conn[c].rcvNxt>> \in acknowledged

\* An entry keeps its client and its initial sequence number until it is established.
EntryInv(e) ==
    /\ entry[e].state = "free" => ~entry[e].inTable /\ ~entry[e].receivedSynAck /\ entry[e].timer = "off"
    /\ entry[e].state # "free" => entry[e].client \in Clients
    /\ entry[e].state \in {"SYN_RECEIVED", "CLOSED"} =>
          entry[e].seqNum = ServerISN(e) /\ ~entry[e].receivedSynAck
    /\ entry[e].state = "SYN_RECEIVED" => entry[e].timer \in Armed
    /\ entry[e].state = "ESTABLISHED" => <<entry[e].client, ServerISN(e) + 1>> \in acknowledged

\* A segment with the ACK flag acknowledges what its client has acknowledged.
Truthful(m) == m.type # "SYN" => <<m.client, m.ack>> \in acknowledged

\* handleAckHandshake is called for an entry in SYN_RECEIVED; sendSynAckRetrans may
\* close it meanwhile, but nobody else establishes it.
DispatchedInv ==
    serverIp.pc = "ack" =>
        /\ entry[serverIp.entry].state \in {"SYN_RECEIVED", "CLOSED"}
        /\ serverIp.msg.client = entry[serverIp.entry].client
        /\ serverIp.msg.type # "SYN" /\ Truthful(serverIp.msg)

ConnectInv ==
    /\ TypeOK /\ listener \in ListenerRecord
    /\ \A c \in Clients : ClientInv(c)
    /\ \A e \in Entries : EntryInv(e)
    /\ \A m \in toServer : Truthful(m)
    /\ DispatchedInv

-----------------------------------------------------------------------------
(* What an action that leaves a part alone keeps of the invariant *)

LEMMA ClientsKept ==
    ASSUME \A c \in Clients : ClientInv(c), UNCHANGED clientVars, acknowledged \subseteq acknowledged'
    PROVE  \A c \in Clients : ClientInv(c)'
BY DEF ClientInv, clientVars

LEMMA EntriesKept ==
    ASSUME \A e \in Entries : EntryInv(e), entry' = entry, acknowledged \subseteq acknowledged'
    PROVE  \A e \in Entries : EntryInv(e)'
BY DEF EntryInv

LEMMA DispatchedKept ==
    ASSUME DispatchedInv, UNCHANGED <<entry, serverIp>>, acknowledged \subseteq acknowledged'
    PROVE  DispatchedInv'
BY DEF DispatchedInv, Truthful

\* A packet in flight remains true of what its client has acknowledged.
LEMMA TruthKept ==
    ASSUME NEW m, Truthful(m), acknowledged \subseteq acknowledged'
    PROVE  Truthful(m)'
BY DEF Truthful

-----------------------------------------------------------------------------
(* The client *)

\* The steps of the client's goroutines that send nothing.
LEMMA SilentClientStep ==
    ASSUME ConnectInv, NEW c \in Clients,
           VConnectTimer(c) \/ VConnectReturn(c) \/ DispatchSynAck(c) \/ ClientDiscard(c)
           \/ SynTimerFires(c) \/ SynRetransCheck(c) \/ SynGiveUp(c)
    PROVE  ConnectInv'
<1>1. UNCHANGED <<serverVars, toServer, losses, acknowledged>> /\ toClient' \subseteq toClient
  BY DEF VConnectTimer, VConnectReturn, DispatchSynAck, ClientDiscard, SynTimerFires,
         SynRetransCheck, SynGiveUp, netVars
<1>2. conn' \in [Clients -> ClientEntry] /\ clientIp' \in [Clients -> ServerMsg \cup {NoMsg}]
  <2>. /\ conn \in [Clients -> ClientEntry] /\ conn[c] \in ClientEntry
       /\ clientIp \in [Clients -> ServerMsg \cup {NoMsg}] /\ toClient \subseteq ServerMsg
    BY DEF ConnectInv, TypeOK
  <2>1. CASE VConnectTimer(c)
    BY <2>1 DEF VConnectTimer, ClientEntry, Timer
  <2>2. CASE VConnectReturn(c)
    BY <2>2 DEF VConnectReturn, ClientEntry
  <2>3. CASE DispatchSynAck(c)
    BY <2>3 DEF DispatchSynAck
  <2>4. CASE ClientDiscard(c)
    BY <2>4 DEF ClientDiscard, clientVars
  <2>5. CASE SynTimerFires(c)
    BY <2>5 DEF SynTimerFires, ClientEntry, Timer
  <2>6. CASE SynRetransCheck(c)
    BY <2>6, HandshakeAssumption DEF SynRetransCheck, ClientEntry, Timer, exhausted
  <2>7. CASE SynGiveUp(c)
    BY <2>7 DEF SynGiveUp, ClientEntry, Timer, Signalled
  <2>. QED  BY <2>1, <2>2, <2>3, <2>4, <2>5, <2>6, <2>7
<1>3. TypeOK'
  BY <1>1, <1>2 DEF ConnectInv, TypeOK, serverVars
<1>4. ASSUME NEW d \in Clients
      PROVE  ClientInv(d)'
  <2>. ClientInv(d) /\ conn[d] \in ClientEntry /\ conn \in [Clients -> ClientEntry]
    BY DEF ConnectInv, TypeOK
  <2>1. CASE VConnectTimer(c)
    BY <2>1 DEF VConnectTimer, ClientInv, ClientEntry, Armed
  <2>2. CASE VConnectReturn(c)
    BY <2>2 DEF VConnectReturn, ClientInv, ClientEntry
  <2>3. CASE DispatchSynAck(c)
    BY <2>3 DEF DispatchSynAck, ClientInv, ConnectInv, TypeOK
  <2>4. CASE ClientDiscard(c)
    BY <2>4 DEF ClientDiscard, ClientInv, clientVars
  <2>5. CASE SynTimerFires(c)
    BY <2>5 DEF SynTimerFires, ClientInv, ClientEntry, Armed
  <2>6. CASE SynRetransCheck(c)
    BY <2>6 DEF SynRetransCheck, ClientInv, ClientEntry, Armed
  <2>7. CASE SynGiveUp(c)
    BY <2>7 DEF SynGiveUp, ClientInv, ClientEntry, Armed, Signalled
  <2>. QED  BY <2>1, <2>2, <2>3, <2>4, <2>5, <2>6, <2>7
<1>5. \A e \in Entries : EntryInv(e)'
  BY <1>1, EntriesKept DEF ConnectInv, serverVars
<1>6. DispatchedInv'
  BY <1>1, DispatchedKept DEF ConnectInv, serverVars
<1>7. \A m \in toServer' : Truthful(m)'
  BY <1>1, TruthKept DEF ConnectInv
<1>. QED  BY <1>1, <1>3, <1>4, <1>5, <1>6, <1>7 DEF ConnectInv, serverVars

\* The steps that send a packet: a SYN, an ACK of the SYN-ACK, a data segment.
LEMMA SendingClientStep ==
    ASSUME ConnectInv, NEW c \in Clients,
           VConnect(c) \/ handleSynAck(c) \/ ResendFinalAck(c) \/ SynResend(c)
           \/ SendData(c) \/ RetransmitData(c)
    PROVE  ConnectInv'
<1>. DEFINE Sends(m) == /\ m \in ClientMsg /\ toServer' = toServer \cup {m}
                        /\ m.type # "SYN" => <<m.client, m.ack>> \in acknowledged'
<1>. /\ conn \in [Clients -> ClientEntry] /\ conn[c] \in ClientEntry
     /\ clientIp \in [Clients -> ServerMsg \cup {NoMsg}] /\ toClient \subseteq ServerMsg
     /\ acknowledged \subseteq Clients \X Nat /\ toServer \subseteq ClientMsg
     /\ losses \in 0..MaxLoss
     /\ \A d \in Clients : ClientInv(d)
  BY DEF ConnectInv, TypeOK
<1>1. UNCHANGED <<serverVars, losses>> /\ toClient' \subseteq toClient
      /\ acknowledged \subseteq acknowledged'
  BY DEF VConnect, handleSynAck, ResendFinalAck, SynResend, SendData, RetransmitData
<1>2. /\ conn' \in [Clients -> ClientEntry] /\ clientIp' \in [Clients -> ServerMsg \cup {NoMsg}]
      /\ acknowledged' \subseteq Clients \X Nat
      /\ \E m \in ClientMsg : Sends(m)
      /\ \A d \in Clients : ClientInv(d)'
  <2>1. CASE VConnect(c)
    <3>1. conn' \in [Clients -> ClientEntry]
      BY <2>1 DEF VConnect, ClientEntry
    <3>2. Sends(Syn(c))
      BY <2>1 DEF VConnect, Syn, ClientMsg, ClientISN
    <3>3. \A d \in Clients : ClientInv(d)'
      BY <2>1 DEF VConnect, ClientInv, ClientEntry
    <3>. QED  BY <2>1, <3>1, <3>2, <3>3 DEF VConnect
  <2>2. CASE handleSynAck(c)
    <3>. DEFINE answer == clientIp[c]
    <3>1. answer \in ServerMsg /\ answer.ack \in Nat /\ answer.seq + 1 \in Nat
      BY <2>2 DEF handleSynAck, ServerMsg
    <3>2. /\ conn' = [conn EXCEPT ![c].receivedSyn = TRUE,
                                  ![c].timer = Stopped(@),
                                  ![c].seqNum = answer.ack,
                                  ![c].state = "ESTABLISHED",
                                  ![c].rcvNxt = answer.seq + 1,
                                  ![c].establishedChan = Signalled(@, "ESTABLISHED")]
          /\ toServer' = toServer \cup {Ack(c, answer.ack, answer.seq + 1)}
          /\ acknowledged' = acknowledged \cup {<<c, answer.seq + 1>>}
          /\ clientIp' = [clientIp EXCEPT ![c] = NoMsg]
      BY <2>2 DEF handleSynAck
    <3>3. conn' \in [Clients -> ClientEntry]
      BY <3>1, <3>2, ZenonT(30) DEF ClientEntry, Stopped, Signalled, Timer
    <3>4. Sends(Ack(c, answer.ack, answer.seq + 1))
      BY <3>1, <3>2 DEF Ack, ClientMsg
    <3>5. conn[c].connect # "idle"
      BY <2>2 DEF handleSynAck, ClientInv
    <3>6. \A d \in Clients : ClientInv(d)'
      <4>. SUFFICES ASSUME NEW d \in Clients
                    PROVE  ClientInv(d)'
        OBVIOUS
      <4>1. CASE d # c
        <5>1. conn'[d] = conn[d] /\ clientIp'[d] = clientIp[d] /\ ClientInv(d)
          BY <3>2, <4>1
        <5>2. acknowledged \subseteq acknowledged'
          BY <1>1
        <5>. HIDE DEF answer
        <5>. QED  BY <5>1, <5>2 DEF ClientInv
      <4>2. CASE d = c
        <5>1. /\ conn'[c].connect = conn[c].connect /\ conn'[c].state = "ESTABLISHED"
              /\ conn'[c].receivedSyn /\ conn'[c].rcvNxt = answer.seq + 1
          BY <3>2 DEF ClientEntry
        <5>2. <<c, answer.seq + 1>> \in acknowledged'
          BY <3>2
        <5>. HIDE DEF answer
        <5>. QED  BY <3>5, <4>2, <5>1, <5>2 DEF ClientInv
      <4>. QED  BY <4>1, <4>2
    <3>7. \E m \in ClientMsg : Sends(m)
      BY <3>4
    <3>8. acknowledged' \subseteq Clients \X Nat
      BY <3>1, <3>2
    <3>9. clientIp' \in [Clients -> ServerMsg \cup {NoMsg}]
      BY <3>2
    <3>. QED  BY <3>3, <3>6, <3>7, <3>8, <3>9
  <2>3. CASE ResendFinalAck(c)
    <3>1. PICK m \in toClient :
             /\ m.client = c
             /\ toServer' = toServer \cup {Ack(c, conn[c].seqNum, m.seq + 1)}
             /\ acknowledged' = acknowledged \cup {<<c, m.seq + 1>>}
      BY <2>3 DEF ResendFinalAck
    <3>2. Sends(Ack(c, conn[c].seqNum, m.seq + 1)) /\ m.seq + 1 \in Nat
      BY <3>1 DEF Ack, ClientMsg, ServerMsg, ClientEntry
    <3>3. UNCHANGED clientVars
      BY <2>3 DEF ResendFinalAck
    <3>4. \A d \in Clients : ClientInv(d)'
      BY <1>1, <3>3, ClientsKept
    <3>. QED  BY <3>1, <3>2, <3>3, <3>4 DEF clientVars
  <2>4. CASE SynResend(c)
    <3>1. conn' \in [Clients -> ClientEntry]
      BY <2>4 DEF SynResend, ClientEntry, Timer, restarted
    <3>2. Sends(Syn(c))
      BY <2>4 DEF SynResend, Syn, ClientMsg, ClientISN
    <3>3. \A d \in Clients : ClientInv(d)'
      BY <2>4 DEF SynResend, ClientInv, ClientEntry, Armed, restarted
    <3>. QED  BY <2>4, <3>1, <3>2, <3>3 DEF SynResend
  <2>5. CASE SendData(c)
    <3>1. conn' \in [Clients -> ClientEntry]
      BY <2>5 DEF SendData, ClientEntry
    <3>2. <<c, conn[c].rcvNxt>> \in acknowledged
      BY <2>5 DEF SendData, ClientInv
    <3>3. Sends(Data(c, conn[c].seqNum, conn[c].rcvNxt))
      BY <2>5, <3>2 DEF SendData, Data, ClientMsg, ClientEntry
    <3>4. \A d \in Clients : ClientInv(d)'
      BY <2>5 DEF SendData, ClientInv, ClientEntry
    <3>. QED  BY <2>5, <3>1, <3>3, <3>4 DEF SendData
  <2>6. CASE RetransmitData(c)
    <3>1. <<c, conn[c].rcvNxt>> \in acknowledged
      BY <2>6 DEF RetransmitData, ClientInv, ClientISN, ClientEntry
    <3>2. Sends(Data(c, ClientISN + 1, conn[c].rcvNxt))
      BY <2>6, <3>1 DEF RetransmitData, Data, ClientMsg, ClientEntry, ClientISN
    <3>3. UNCHANGED clientVars
      BY <2>6 DEF RetransmitData
    <3>4. \A d \in Clients : ClientInv(d)'
      BY <1>1, <3>3, ClientsKept
    <3>. QED  BY <2>6, <3>2, <3>3, <3>4 DEF RetransmitData, clientVars
  <2>. QED  BY <2>1, <2>2, <2>3, <2>4, <2>5, <2>6
<1>3. TypeOK'
  BY <1>1, <1>2 DEF ConnectInv, TypeOK, serverVars
<1>4. \A e \in Entries : EntryInv(e)'
  BY <1>1, EntriesKept DEF ConnectInv, serverVars
<1>5. DispatchedInv'
  BY <1>1, DispatchedKept DEF ConnectInv, serverVars
<1>6. \A m \in toServer' : Truthful(m)'
  BY <1>1, <1>2 DEF ConnectInv, Truthful
<1>. QED  BY <1>1, <1>2, <1>3, <1>4, <1>5, <1>6 DEF ConnectInv, serverVars

-----------------------------------------------------------------------------
(* The server's entries *)

\* sendSynAckRetrans: an entry that handleAckHandshake is working on may be closed,
\* but remains the entry of its client.
LEMMA SynAckTimerStep ==
    ASSUME ConnectInv, NEW e \in Entries, sendSynAckRetrans(e)
    PROVE  ConnectInv'
<1>. /\ entry \in [Entries -> ServerEntry] /\ entry[e] \in ServerEntry
     /\ toClient \subseteq ServerMsg /\ \A d \in Entries : EntryInv(d)
  BY DEF ConnectInv, TypeOK
<1>. USE DEF sendSynAckRetrans
<1>1. UNCHANGED <<clientVars, serverIp, listener, accept, accepted, panicked, toServer, losses,
                  acknowledged>>
  BY DEF SynAckTimerFires, SynAckRetransCheck, SynAckResend, SynAckGiveUp, netVars
<1>2. entry' \in [Entries -> ServerEntry]
  <2>1. CASE SynAckTimerFires(e)
    BY <2>1 DEF SynAckTimerFires, ServerEntry, Timer
  <2>2. CASE SynAckRetransCheck(e)
    BY <2>2, HandshakeAssumption DEF SynAckRetransCheck, ServerEntry, Timer, exhausted
  <2>3. CASE SynAckResend(e)
    BY <2>3 DEF SynAckResend, ServerEntry, Timer, restarted
  <2>4. CASE SynAckGiveUp(e)
    BY <2>4 DEF SynAckGiveUp, ServerEntry, Timer
  <2>. QED  BY <2>1, <2>2, <2>3, <2>4
<1>3. toClient' \subseteq ServerMsg
  <2>1. CASE SynAckResend(e)
    <3>1. entry[e].client \in Clients
      BY <2>1 DEF SynAckResend, EntryInv
    <3>2. ServerISN(e) \in Nat
      BY HandshakeAssumption DEF ServerISN
    <3>3. SynAck(entry[e].client, e) \in ServerMsg
      BY <3>1, <3>2 DEF SynAck, ServerMsg, ClientISN
    <3>. QED  BY <2>1, <3>3 DEF SynAckResend
  <2>2. CASE ~SynAckResend(e)
    BY <2>2 DEF SynAckTimerFires, SynAckRetransCheck, SynAckGiveUp, netVars
  <2>. QED  BY <2>1, <2>2
<1>4. TypeOK'
  BY <1>1, <1>2, <1>3 DEF ConnectInv, TypeOK, clientVars
<1>5. /\ \A d \in Entries : EntryInv(d)'
      /\ \A d \in Entries : /\ entry[d].state \in {"SYN_RECEIVED", "CLOSED"}
                               => entry'[d].state \in {"SYN_RECEIVED", "CLOSED"}
                            /\ entry'[d].client = entry[d].client
  <2>1. CASE SynAckTimerFires(e)
    BY <1>1, <2>1 DEF SynAckTimerFires, EntryInv, Armed, ServerEntry
  <2>2. CASE SynAckRetransCheck(e)
    BY <1>1, <2>2 DEF SynAckRetransCheck, EntryInv, Armed, ServerEntry
  <2>3. CASE SynAckResend(e)
    BY <1>1, <2>3 DEF SynAckResend, EntryInv, Armed, ServerEntry, restarted
  <2>4. CASE SynAckGiveUp(e)
    BY <1>1, <2>4 DEF SynAckGiveUp, EntryInv, Armed, ServerEntry
  <2>. QED  BY <2>1, <2>2, <2>3, <2>4
<1>6. DispatchedInv'
  <2>1. serverIp.pc = "ack" => serverIp.entry \in Entries
    BY DEF ConnectInv, TypeOK, Idle
  <2>. QED  BY <1>1, <1>5, <2>1 DEF ConnectInv, DispatchedInv, Truthful
<1>7. \A c \in Clients : ClientInv(c)'
  BY <1>1, ClientsKept DEF ConnectInv
<1>8. \A m \in toServer' : Truthful(m)'
  BY <1>1, TruthKept DEF ConnectInv
<1>. QED  BY <1>1, <1>4, <1>5, <1>6, <1>7, <1>8 DEF ConnectInv

\* handleSyn: a new entry, which nothing refers to yet.
LEMMA SynStep ==
    ASSUME ConnectInv, handleSyn
    PROVE  ConnectInv'
<1>. /\ entry \in [Entries -> ServerEntry] /\ toServer \subseteq ClientMsg
     /\ toClient \subseteq ServerMsg /\ \A d \in Entries : EntryInv(d)
  BY DEF ConnectInv, TypeOK
<1>1. PICK m \in toServer, e \in Entries :
         /\ TakeFrom(m) /\ entry[e].state = "free"
         /\ entry' = [entry EXCEPT ![e] = [@ EXCEPT !.client = m.client, !.state = "SYN_RECEIVED",
                                                    !.inTable = TRUE, !.seqNum = ServerISN(e),
                                                    !.timer = "running"]]
         /\ toClient' = toClient \cup {SynAck(m.client, e)}
  BY DEF handleSyn
<1>2. UNCHANGED <<clientVars, serverIp, listener, accept, accepted, panicked, losses, acknowledged>>
      /\ toServer' \subseteq toServer /\ serverIp = Idle
  BY <1>1 DEF handleSyn, TakeFrom
<1>3. m.client \in Clients /\ ServerISN(e) \in Nat /\ entry[e] \in ServerEntry
  BY HandshakeAssumption DEF ClientMsg, ServerISN
<1>4. entry' \in [Entries -> ServerEntry]
  BY <1>1, <1>3 DEF ServerEntry, Timer
<1>5. SynAck(m.client, e) \in ServerMsg
  BY <1>3 DEF SynAck, ServerMsg, ClientISN
<1>6. TypeOK'
  BY <1>1, <1>2, <1>4, <1>5 DEF ConnectInv, TypeOK, clientVars
<1>7. \A d \in Entries : EntryInv(d)'
  BY <1>1, <1>2, <1>3 DEF EntryInv, Armed, ServerEntry
<1>8. DispatchedInv'
  BY <1>2 DEF DispatchedInv, Idle
<1>9. \A c \in Clients : ClientInv(c)'
  BY <1>2, ClientsKept DEF ConnectInv
<1>10. \A p \in toServer' : Truthful(p)'
  BY <1>2, TruthKept DEF ConnectInv
<1>. QED  BY <1>2, <1>6, <1>7, <1>8, <1>9, <1>10 DEF ConnectInv

\* handleAckHandshake establishes an entry that its client has acknowledged.
LEMMA AckHandshakeStep ==
    ASSUME ConnectInv, handleAckHandshake
    PROVE  ConnectInv'
<1>. DEFINE f == serverIp.entry  m == serverIp.msg
<1>. /\ entry \in [Entries -> ServerEntry] /\ \A d \in Entries : EntryInv(d)
  BY DEF ConnectInv, TypeOK
<1>1. f \in Entries /\ m \in ClientMsg /\ entry[f] \in ServerEntry
  BY DEF handleAckHandshake, ConnectInv, TypeOK, Idle
<1>2. UNCHANGED <<clientVars, listener, accept, accepted, panicked, netVars, acknowledged>>
  BY DEF handleAckHandshake
<1>3. /\ entry[f].state \in {"SYN_RECEIVED", "CLOSED"} /\ m.client = entry[f].client
      /\ <<m.client, m.ack>> \in acknowledged
  BY DEF handleAckHandshake, ConnectInv, DispatchedInv, Truthful
<1>4. CASE ~acksOurSyn(f, m)
  <2>1. serverIp' = Idle /\ UNCHANGED entry
    BY <1>4 DEF handleAckHandshake
  <2>. QED
    BY <1>2, <2>1, ClientsKept, EntriesKept, TruthKept
       DEF ConnectInv, TypeOK, DispatchedInv, Idle, clientVars, netVars
<1>5. CASE acksOurSyn(f, m)
  <2>1. /\ entry' = [entry EXCEPT ![f].seqNum = @ + 1, ![f].receivedSynAck = TRUE,
                                  ![f].timer = Stopped(@), ![f].state = "ESTABLISHED",
                                  ![f].rcvNxt = m.seq]
        /\ serverIp' = [pc |-> "handover", entry |-> f]
    BY <1>5 DEF handleAckHandshake
  <2>2. m.ack = ServerISN(f) + 1
    BY <1>1, <1>3, <1>5 DEF acksOurSyn, EntryInv
  <2>3. entry' \in [Entries -> ServerEntry]
    <3>1. m.seq \in Nat /\ entry[f].seqNum + 1 \in Nat /\ Stopped(entry[f].timer) \in Timer
      BY <1>1 DEF ServerEntry, Timer, Stopped, ClientMsg
    <3>. QED  BY <1>1, <2>1, <3>1 DEF ServerEntry
  <2>4. TypeOK'
    BY <1>1, <1>2, <2>1, <2>3 DEF ConnectInv, TypeOK, clientVars, netVars
  <2>5. \A d \in Entries : EntryInv(d)'
    BY <1>1, <1>2, <1>3, <2>1, <2>2, ZenonT(30) DEF EntryInv, ServerEntry
  <2>6. DispatchedInv'
    BY <2>1 DEF DispatchedInv
  <2>7. \A c \in Clients : ClientInv(c)'
    BY <1>2, ClientsKept DEF ConnectInv
  <2>8. \A p \in toServer' : Truthful(p)'
    BY <1>2, TruthKept DEF ConnectInv, netVars
  <2>. QED  BY <1>2, <2>4, <2>5, <2>6, <2>7, <2>8 DEF ConnectInv
<1>. QED  BY <1>4, <1>5

\* What the IP goroutine takes from the network without changing an entry, and
\* what the network loses.
LEMMA TakeStep ==
    ASSUME ConnectInv, ServerDiscard \/ DispatchAck \/ LoseToServer \/ LoseToClient
    PROVE  ConnectInv'
<1>1. /\ UNCHANGED <<clientVars, entry, listener, accept, accepted, panicked, acknowledged>>
      /\ toServer' \subseteq toServer /\ toClient' \subseteq toClient /\ losses' \in 0..MaxLoss
  <2>1. losses \in 0..MaxLoss
    BY DEF ConnectInv, TypeOK
  <2>2. CASE LoseToServer \/ LoseToClient
    BY <2>1, <2>2, HandshakeAssumption DEF LoseToServer, LoseToClient, serverVars
  <2>3. CASE ServerDiscard \/ DispatchAck
    BY <2>1, <2>3 DEF ServerDiscard, DispatchAck, TakeFrom, serverVars
  <2>. QED  BY <2>2, <2>3
<1>2. /\ serverIp' \in {Idle} \cup [pc : {"ack"}, entry : Entries, msg : ClientMsg]
                              \cup [pc : {"handover"}, entry : Entries]
      /\ DispatchedInv'
  <2>1. CASE DispatchAck
    <3>1. PICK m \in toServer, e \in Entries :
             /\ e \in tableMatch(m.client) /\ entry[e].state = "SYN_RECEIVED"
             /\ m.type \in {"ACK", "DATA"}
             /\ serverIp' = [pc |-> "ack", entry |-> e, msg |-> m]
      BY <2>1 DEF DispatchAck
    <3>2. m \in ClientMsg /\ Truthful(m)
      BY DEF ConnectInv, TypeOK
    <3>3. entry'[e].state = "SYN_RECEIVED" /\ entry'[e].client = m.client /\ Truthful(m)'
      BY <1>1, <3>1, <3>2 DEF tableMatch, Truthful
    <3>. QED  BY <3>1, <3>2, <3>3 DEF DispatchedInv
  <2>2. CASE ServerDiscard \/ LoseToServer \/ LoseToClient
    <3>1. serverIp' = serverIp
      BY <2>2 DEF ServerDiscard, LoseToServer, LoseToClient, serverVars
    <3>. QED  BY <1>1, <3>1, DispatchedKept DEF ConnectInv, TypeOK
  <2>. QED  BY <2>1, <2>2
<1>3. TypeOK'
  BY <1>1, <1>2 DEF ConnectInv, TypeOK, clientVars
<1>4. \A c \in Clients : ClientInv(c)'
  BY <1>1, ClientsKept DEF ConnectInv
<1>5. \A e \in Entries : EntryInv(e)'
  BY <1>1, EntriesKept DEF ConnectInv
<1>6. \A m \in toServer' : Truthful(m)'
  BY <1>1, TruthKept DEF ConnectInv
<1>. QED  BY <1>1, <1>2, <1>3, <1>4, <1>5, <1>6 DEF ConnectInv

\* connChan, VAccept and the closing of the listener: the entries are left alone.
LEMMA ListenerStep ==
    ASSUME ConnectInv, Handover \/ HandoverClosed \/ Program
    PROVE  ConnectInv'
<1>. USE DEF Program
<1>. /\ listener \in ListenerRecord /\ listener.connChan \in Seq(Entries)
     /\ Len(listener.connChan) <= Backlog /\ Len(listener.connChan) \in Nat
     /\ accept \in [pc : {"idle", "waiting"}, calls : 0..MaxAccepts] /\ accepted \in Seq(Entries)
     /\ serverIp \in {Idle} \cup [pc : {"ack"}, entry : Entries, msg : ClientMsg]
                            \cup [pc : {"handover"}, entry : Entries]
  BY DEF ConnectInv, TypeOK, ListenerRecord
<1>1. UNCHANGED <<clientVars, entry, netVars, acknowledged>> /\ serverIp' \in {serverIp, Idle}
  BY DEF Handover, HandoverClosed, VAccept, VAcceptReturn, VAcceptClosed, VCloseListener
<1>2. /\ listener' \in ListenerRecord /\ Len(listener'.connChan) <= Backlog
      /\ accept' \in [pc : {"idle", "waiting"}, calls : 0..MaxAccepts] /\ accepted' \in Seq(Entries)
      /\ panicked' \in BOOLEAN
  <2>. panicked \in BOOLEAN
    BY DEF ConnectInv, TypeOK
  <2>1. CASE Handover
    <3>1. serverIp.entry \in Entries
      BY <2>1 DEF Handover, Idle
    <3>2. listener' = [listener EXCEPT !.connChan = Append(listener.connChan, serverIp.entry)]
      BY <2>1 DEF Handover, queued
    <3>3. Append(listener.connChan, serverIp.entry) \in Seq(Entries)
          /\ Len(Append(listener.connChan, serverIp.entry)) <= Backlog
      BY <2>1, <3>1, HandshakeAssumption DEF Handover
    <3>. QED  BY <2>1, <3>2, <3>3 DEF Handover, ListenerRecord
  <2>2. CASE VAcceptReturn
    <3>1. /\ Head(listener.connChan) \in Entries /\ Tail(listener.connChan) \in Seq(Entries)
          /\ Len(Tail(listener.connChan)) <= Backlog
      BY <2>2, HeadTailProperties, HandshakeAssumption DEF VAcceptReturn
    <3>2. Append(accepted, Head(listener.connChan)) \in Seq(Entries)
      BY <3>1
    <3>. QED  BY <2>2, <3>1, <3>2 DEF VAcceptReturn, ListenerRecord
  <2>3. CASE VAccept
    <3>1. accept.calls \in 0..MaxAccepts /\ accept.calls + 1 \in 0..MaxAccepts
      BY <2>3, HandshakeAssumption DEF VAccept
    <3>2. listener' \in ListenerRecord /\ listener'.connChan = listener.connChan
      BY <2>3 DEF VAccept, ListenerRecord
    <3>. QED  BY <2>3, <3>1, <3>2 DEF VAccept
  <2>4. CASE VCloseListener
    BY <2>4 DEF VCloseListener, ListenerRecord
  <2>5. CASE HandoverClosed \/ VAcceptClosed
    BY <2>5 DEF HandoverClosed, VAcceptClosed
  <2>. QED  BY <2>1, <2>2, <2>3, <2>4, <2>5
<1>3. TypeOK'
  <2>1. /\ listener'.state \in {"LISTEN", "CLOSED"} /\ listener'.acceptingConns \in BOOLEAN
        /\ listener'.connChan \in Seq(Entries)
    BY <1>2 DEF ListenerRecord
  <2>. QED  BY <1>1, <1>2, <2>1 DEF ConnectInv, TypeOK, clientVars, netVars
<1>4. DispatchedInv'
  BY <1>1, DispatchedKept DEF ConnectInv, DispatchedInv, Idle
<1>5. \A c \in Clients : ClientInv(c)'
  BY <1>1, ClientsKept DEF ConnectInv
<1>6. \A e \in Entries : EntryInv(e)'
  BY <1>1, EntriesKept DEF ConnectInv
<1>7. \A m \in toServer' : Truthful(m)'
  BY <1>1, TruthKept DEF ConnectInv, netVars
<1>. QED  BY <1>2, <1>3, <1>4, <1>5, <1>6, <1>7 DEF ConnectInv

LEMMA ConnectStutter ==
    ASSUME ConnectInv, UNCHANGED vars
    PROVE  ConnectInv'
BY ClientsKept, EntriesKept, DispatchedKept, TruthKept
   DEF ConnectInv, TypeOK, vars, clientVars, serverVars, netVars

LEMMA ConnectInit ==
    ASSUME Init
    PROVE  ConnectInv
<1>1. TypeOK /\ listener \in ListenerRecord
  <2>1. conn \in [Clients -> ClientEntry] /\ entry \in [Entries -> ServerEntry]
    BY HandshakeAssumption DEF Init, ClientEntry, ServerEntry, Timer, ClientISN
  <2>2. /\ listener \in ListenerRecord /\ listener.connChan = <<>> /\ accepted = <<>>
        /\ accept \in [pc : {"idle", "waiting"}, calls : 0..MaxAccepts]
    BY HandshakeAssumption DEF Init, ListenerRecord
  <2>3. /\ listener.state \in {"LISTEN", "CLOSED"} /\ listener.acceptingConns \in BOOLEAN
        /\ listener.connChan \in Seq(Entries) /\ Len(listener.connChan) <= Backlog
        /\ accepted \in Seq(Entries) /\ losses \in 0..MaxLoss
    BY HandshakeAssumption DEF Init
  <2>4. clientIp \in [Clients -> ServerMsg \cup {NoMsg}] /\ panicked \in BOOLEAN
    BY DEF Init
  <2>5. /\ toServer \subseteq ClientMsg /\ toClient \subseteq ServerMsg
        /\ acknowledged \subseteq Clients \X Nat /\ serverIp = Idle
    BY DEF Init
  <2>. QED  BY <2>1, <2>2, <2>3, <2>4, <2>5 DEF TypeOK
<1>2. (\A c \in Clients : ClientInv(c)) /\ (\A e \in Entries : EntryInv(e)) /\ DispatchedInv
  BY DEF Init, ClientInv, EntryInv, DispatchedInv, Idle
<1>3. \A m \in toServer : Truthful(m)
  BY DEF Init
<1>. QED  BY <1>1, <1>2, <1>3 DEF ConnectInv

-----------------------------------------------------------------------------
(* The theorems *)

\* Every step of the clients, of the server and of the network keeps the inductive
\* invariant: what VConnect, HandleTCP, the callbacks of the handshake timers, VAccept
\* and the closing of the listener rely on of each other.
THEOREM ConnectInvariant == Spec => []ConnectInv
<1>1. Init => ConnectInv
  BY ConnectInit
<1>2. ConnectInv /\ [Next]_vars => ConnectInv'
  <2>. SUFFICES ASSUME ConnectInv, [Next]_vars
                PROVE  ConnectInv'
    OBVIOUS
  <2>1. ASSUME NEW c \in Clients,
               Connect(c) \/ ClientIP(c) \/ sendSynRetrans(c) \/ SendData(c) \/ RetransmitData(c)
        PROVE  ConnectInv'
    BY <2>1, SilentClientStep, SendingClientStep DEF Connect, ClientIP, sendSynRetrans
  <2>2. ASSUME NEW e \in Entries, sendSynAckRetrans(e)
        PROVE  ConnectInv'
    BY <2>2, SynAckTimerStep
  <2>3. CASE ServerIP
    BY <2>3, SynStep, TakeStep, AckHandshakeStep, ListenerStep DEF ServerIP
  <2>4. CASE Program
    BY <2>4, ListenerStep
  <2>5. CASE LoseToServer \/ LoseToClient
    BY <2>5, TakeStep
  <2>6. CASE UNCHANGED vars
    BY <2>6, ConnectStutter
  <2>. QED  BY <2>1, <2>2, <2>3, <2>4, <2>5, <2>6 DEF Next
<1>. QED  BY <1>1, <1>2, PTL DEF Spec

\* Type correctness, and connChan never holds more connections than its capacity: the
\* IP goroutine waits in handleAckHandshake until VAccept has taken one.
THEOREM HandshakeTypes == Spec => []TypeOK
<1>1. ConnectInv => TypeOK
  BY DEF ConnectInv
<1>. QED  BY <1>1, ConnectInvariant, PTL

\* handleAckHandshake establishes an entry only if its client has acknowledged this
\* entry's SYN-ACK, whatever is left in the network from entries given up before.
THEOREM ServerNotDeceived == Spec => []PassiveAnswered
<1>1. ConnectInv => PassiveAnswered
  BY DEF ConnectInv, EntryInv, PassiveAnswered
<1>. QED  BY <1>1, ConnectInvariant, PTL

\* Whoever waits for an answer to a SYN or a SYN-ACK has a timer that runs or a callback
\* that is under way, in every interleaving of VConnect, the IP goroutine and callbacks.
THEOREM NobodyWaitsUnarmed == Spec => []HandshakeArmed
<1>1. ConnectInv => HandshakeArmed
  BY DEF ConnectInv, ClientInv, EntryInv, HandshakeArmed, Armed
<1>. QED  BY <1>1, ConnectInvariant, PTL

=============================================================================
