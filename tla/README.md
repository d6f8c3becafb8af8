# A TLA+ model of MiniTLS

MiniTLS (`src/`) is a user-space network stack in Go: UDP sockets stand in for
links, and on top of them run IP forwarding with RIP, a TCP and a lightweight TLS:
a signed Diffie-Hellman exchange and records sealed with AES-GCM.
Hosts and routers are processes; inside a host the layers are goroutines that
share memory through mutexes and channels of capacity one.

## 1. Inventory

| Part | State | Operations | Interacts with |
|---|---|---|---|
| Link layer (`linkLayer`) | a UDP socket per interface | send, receive loop | IP: one goroutine per interface calls the IP handler |
| IP (`ipStack/ipStack.go`) | forwarding table, interfaces with up/down | `SendIP`, `RunIPLayer`, `ipForwarding`, `LongestPrefixMatch`, `SRCFilter`, `IFUp/IFDown` | calls the TCP and RIP handlers in the link goroutine |
| RIP (`ipStack/rip.go`) | forwarding-table entries with cost and time | periodic and triggered update, timeout check, `HandleRipMessage` | forwarding table, neighbours |
| TCP transfer (`doTcp.go`, `circleBuf.go`, `earlyArrivals.go`) | send buffer, receive buffer, retransmission queue, timer | `VWrite`, `sendLoop`, `handlePureAck`, `retransmitSegment`, `handlePayload`, `VRead` | three mutexes, five channels; the peer through packets |
| TCP handshake (`handshake.go`, `socketsAPI.go`) | socket table entry: state, seqNum, handshake timer, `establishedChan`; listener's `connChan` | `VListen`, `VAccept`, `VConnect`, `handleSyn`, `handleSynAck`, `handleAckHandshake`, retransmissions | creates the buffers and starts `sendLoop` |
| TCP closing (`closing.go`, `socketsAPI.go`) | state of the entry, `recvBuf.fin`, the FIN in the retransmission queue | `VClose`, `sendFin`, `handleFin`, `handleEarlyFin`, `timeWait`, `teardown`, RST | retransmission queue and send buffer of the transfer |
| TLS handshake (`tlsStack/handshake.go`, `messages.go`, `crypto.go`) | DH pairs and configured signature keys for one exchange; the keys of both directions | `VTLSDial`, `VTLSListen`, `VTLSAccept` | TCP: three messages on a new connection; the accept loop of `tlsa` |
| TLS records (`tlsApi.go`, `doTls.go`) | `writeSeq`, `readSeq`, `readBuf` of a `VTLSConn` | `VTLSWrite`, `VTLSRead`, `VTLSClose` | TCP: `VWrite`, `VRead`, `VClose` of the connection |
| TLS commands (`tlsRepl.go`) | `tlsConnMap` | `tlsa`, `tlsc`, `tlss`, `tlsr`, `tlscl`, `tlssf`, `tlsrf` | goroutines that call the two rows above; `tlscl` runs in the dispatcher itself |
| TCP and IP commands, configuration, mains | none that outlives a call | | |

What is hard: the goroutines of one connection (application, `sendLoop`, the IP
goroutine, timer callbacks) interleave between critical sections; timers fire
while they are being stopped; packets are lost, delayed and overtake each other;
two mutexes are taken in two orders; channels are closed by one goroutine while
others use them; a call of an upper layer is many calls of the lower one, and other
goroutines, the peer's close or a reset come in between.

What makes each part correct: a byte pipe (transfer); both ends agree on who is
connected and where the streams start (handshake); the end of the stream is the
end of the data and every connection ends once (closing); shortest paths and no
routing loop for ever (RIP); the longest matching prefix and a decreasing TTL
(IP); crossed keys only between two parties that have signed this exchange, and
records whole and in order (TLS).

## 2. Plan

1. `TCPTransfer`, `ReliableStream` and their proofs; `TCPHandshake`; `TCPClose`;
   `RIP` (done).
2. `IPForwarding`: validation, prefix match, TTL, filter and local delivery, with its
   proofs (done).
3. `TCPService`, and over it `TLSHandshake` with symbolic keys and `TLSRecord`:
   records, sequence numbers, several writers and readers, end of stream inside a record,
   files that fail (done).
4. Proofs about the handshakes, RIP, closing and the record layer, `InFlightQueued` and
   `RetransmissionArmed` (done).
5. The modular arithmetic of `CircleBuf` against the buffer of `TCPTransfer`, and
   sequence numbers modulo a small power of two in place of 2^32. RST during the TCP
   handshake.

## 3. Modules

| Module | Models |
|---|---|
| `TCPTransfer` | one direction of an established connection |
| `ReliableStream` | abstract specification: what `VWrite` and `VRead` promise together |
| `TCPTransferProofs`, `TCPFlowProofs` | proofs about `TCPTransfer` |
| `TCPHandshake` | clients in `VConnect`, a server in `VListen` and `VAccept` |
| `TCPHandshakeProofs` | proofs about `TCPHandshake` |
| `TCPClose` | both hosts of a connection that is closed or reset |
| `TCPCloseProofs` | proofs about `TCPClose` |
| `RIP` | routers, their forwarding tables, interfaces and update loops |
| `RIPProofs` | proofs about `RIP` |
| `IPForwarding` | packets on their way through hosts and routers whose tables and interfaces change |
| `IPForwardingProofs` | proofs about `IPForwarding` |
| `TCPService` | what `VRead`, `VWrite` and `VClose` of any number of connections promise together: the state and actions the TLS modules are built on |
| `TLSHandshake` | clients in `VTLSDial`, the accept loop of `tlsa`, over `TCPService` |
| `TLSHandshakeProofs` | proofs about `TLSHandshake` |
| `TLSRecord` | goroutines in `VTLSWrite`, `VTLSRead` and `VTLSClose`, over `TCPService` |
| `TLSRecordProofs` | proofs about `TLSRecord`, and that it implements `ReliableStream` |
| `MCTransfer`, `MCRIP`, `MCIPForwarding`, `MCTLSHandshake`, `MCTLSRecord` | instances for TLC, the refinement of `ReliableStream` by the record layer, and a statement of the code's comments that the model refutes |

The three TCP modules model the same `HandleTCP` in different states of the
socket table entry. `TCPHandshake` ends where `initBufs` has made the buffers,
which is the `Init` of the other two. `TCPTransfer` has the finest steps;
`TCPClose` takes `sendLoop`, `handlePureAck`, `retransmitSegment` and
`handlePayload` as single steps and cuts where `entry.state` is read and written
without a lock.

### TCPTransfer

Variables are the fields of `SendBuf`, `RecvBuf`, `RetransmissionQueue` and
`SocketTableEntry` under their own names. A channel of capacity one is a Boolean
(is there a token in it?). A byte is its own position in the stream, so that any
byte out of place shows; 0 is what a stale slot of the circular buffer holds. A
step is a critical section with the unlocked code up to the next one. `sendLoop`
is cut where it releases `sendBuf.mu` before sending, before queueing and before
moving `nxt`; `handlePureAck` where it takes `retransQueue.mu`;
`retransmitSegment` where `teardown` waits for `sendBuf.mu`. `timer.Stop` does
not cancel a callback that has started: `rtoTimer` is the timer, `callbacks`
counts what has already fired.

Merged or left out: the read of `entry.seqNum` at doTcp.go:692 is in the step of
the lock section before it; the state switch of `HandleTCP` is in the step of the
handler's first lock section; `retransmitSegment` reads the circular buffer
without `sendBuf.mu`, but what a torn read could return lies before the receiver's
`nxt` and is dropped there; RTO estimation only decides when timers expire, which
is left open; `dropForRetrans` is a loss of the network.

### TCPHandshake

Every client has one entry and a fresh port. The server makes an entry for each
SYN that matches none, up to `Entries`, and entries it gave up remain because
callbacks still point to them. Steps are cut between dispatch on `entry.state` and
the handler, between the check and the effect of a retransmission callback, and
between the store of a state and the removal from the table. Initial sequence
numbers, random in the code, are far apart. The branches of `handleSynAck` for
wrong flags or numbers cannot be reached with fresh ports and are left out, and so
is RST.

### TCPClose

`sock[h]` is the entry with its buffers. `closer[h]` is the application in
`VClose` and `sendFin` (send, queue, advance `nxt`, read the state, store the
state); `ip[h]` is the IP goroutine between taking in a FIN and storing
CLOSE_WAIT. FINs carry an acknowledgment since LAST_ACK treats them as ACKs. The
heap of early arrivals counts copies: a second copy of a byte stays in it and
keeps a remembered FIN from being taken in with the data. `teardown` closes
channels: twice is a panic, which ends the host. The receive window is never
full, a segment is one byte, packets under way form a set.

### RIP

`ForwardingTable[r]` is the map of router `r`, a function on the prefixes it knows.
`UpdateLoop`, `TimeoutLoop` and `HandleRipMessage` work under `ipStack.mu` and are
one step for each call. The goroutine that `CheckForTimeouts` starts is not:
`sending` holds what it still has to send, one step for each neighbour. An interface
has one RIP neighbour; `up` is its flag at either end, read by `LinkLayerSend` when
a message leaves and by `LinkLayerListen` when it comes in. A link keeps messages in
order, as UDP sockets on one machine do. Reading a packet and handling it are one
step; the packet that waits in `IncomingPacketChan` meanwhile is still on the link.
A message to a router that has not started is lost.

Time is counted in periods of `RipUpdateRate`: `LastUpdated` is the age of a route,
and 12 s at one update every 5 s is a `RipTimeout` of 3 (two updates missed). `Tick`
waits until messages have arrived and timeouts have been checked, which take
milliseconds and 2 s of a period of 5 s. Within a period any order is possible.
The history `silent` counts the periods since a router could last hear a neighbour:
since both interfaces were up, or since a message sent before arrived at an interface
that is up again. Counting from the last change of either interface alone would call
a neighbour dead whose old message has just been taken in.

### IPForwarding

`ForwardingTable[n]` and `up` are as in `RIP`, but an interface is known by its
address and may have several neighbours. What RIP does to the tables while a packet
is on its way is a step that stores any announcement a neighbour can make
(`RouteChanges`), with the check of `HandleRipMessage` that entries of other types
stay. A prefix is a member of a set with its length and the addresses it contains.
`LongestPrefixMatch` is recursive in the code; the model has two rounds, and
`MatchIsLocal` says that a third is never needed. Packets do not influence each
other, so each has a place of its own: on a link, in `IncomingPacketChan`, delivered
or dropped. A checksum is a value that depends on every field, and an invalid packet
ends the process, because `ipForwarding` uses the nil header it is given.

### TCPService

A connection is two ends with a state, a send buffer, a receive buffer and a FIN
each. A step of TCP moves one chunk, a piece of the stream that is not divided
further. `FIN_WAIT_1` and `FIN_WAIT_2` are one state, and so are those that take in no
more data. The errors of the calls are those of socketsAPI.go: an own close or a
teardown refuses later calls but does not wake one that waits, and a chunk stored by a
`VWrite` that passed its check before `VClose` takes the number of the FIN.

### TLSHandshake

Every dialer has a connection and runs `VTLSDial` with a configuration it chooses:
the configured keys, a user key the server does not trust, or trust in another
server. Or it is the command `c` of the same host stack, which speaks no TLS. One
goroutine serves the listener, as in `tlsa`. A read or write of a message is cut
where `VRead` and `VWrite` check the state and where they wait. Messages are one chunk
each; that `ReadFull` takes as many bytes as the type says is `MessageLen`. The user's
end is two steps, `UserSigns` and `UserRegisters`: between them the server may verify
the signature, derive its keys and register, so that a connection can be registered
at the server while the user's `VTLSDial` has not returned. `Authenticated` says what
the server may rely on then: the user has verified the server and signed (`Committed`).
Cryptography is symbolic, DH values are fresh, and nobody alters the stream.

### TLSRecord

The state is `writeSeq`, `readSeq` and `readBuf` of both ends, and the program counter
of each goroutine in `VTLSWrite`, `VTLSRead` or `VTLSClose`. Steps are the calls of
`VWrite` and `VRead` that `WriteFull` and `ReadFull` make, each cut after its check of
the state, and the load and the store of `c.writeSeq++`. A record is a length field
and sealed data of some chunks, so that two writers can mix them in every way. A
reader that takes other bytes for a length reads any length. An end is driven by the
commands (`ReplEnds`: `tlss` any time, `tlscl` in the dispatcher) or by a file transfer
(`tlssf`, `tlsrf`, with the deferred `VTLSClose`). A file transfer is the only goroutine
at its end, and its file can fail at any point: `os.Open` and `file.Read` in `tlssf`
(`SourceFails`), `os.Create` and `file.Write` in `tlsrf` (`DestFails`). Both return into
the deferred `VTLSClose`.

At an end in `tlsConnMap` any number of `tlss` and `tlsr` may be at work at once, since
each is a goroutine and no mutex guards a `VTLSConn`. `overlapped` remembers that two
calls of `VTLSRead` at an end have overlapped. Such calls interleave in the model at
their calls of `VRead`; `ReadLeftover` (the copy from `readBuf` and its new slice) and
`OpenData` (gcm.Open, `readSeq++`, copy and `readBuf`) are one step each, although
goroutines that overlap can come between the lines, read one nonce twice or slice
with stale bounds. No property claims anything of an end after an overlap, and calls
that do not overlap cannot come between. A goroutine of `tlsr` whose `VTLSRead` has
failed has ended; the next `tlsr` is another member of `Readers`.

## 4. Runs

Passing runs:

| Run | Properties | Instance |
|---|---|---|
| `transfer` | `TypeOK`, `StreamPrefix`, `FlowInv`, `NoOverrun`, `InFlightQueued`, `RetransmissionArmed`, `ImplementsStream`, `WindowEdgeMonotonic` | window 2, segments of 2, 4 bytes, reads of 1 and 2, two data segments that may change places, one callback waiting: the window closes, opens by part, and probes are sent |
| `transfer_live` | `WrittenIsDelivered` | window 1, 2 bytes, one loss: the second byte has to wait for a probe or a retransmission |
| `handshake_safe` | `TypeOK`, `PassiveAnswered`, `HandshakeArmed` | one client, two server entries, one loss, one retransmission, data before the final ACK, listener closed at any time |
| `handshake_live` | `ConnectReturns`, `HalfOpenEnds`, `EstablishedIsAccepted` | as above without data and closing, a queue of one, a program that calls `VAccept` twice |
| `close_half` | `TypeOK`, `EndOfStream`, `PeerLearns` | one side closes, both write a byte, one loss, timers |
| `close_race` | `FinAckGenuine` | both close, two bytes written during `VClose`, `isProbing` left set, one reset, no timers |
| `rip_ring` | `TypeOK`, `DeadRouteOffline`, `Converges` | three routers in a ring, two prefixes (one with two owners), cost 16 as in the code, two faults: a loss anywhere or an interface switched off or on |
| `ip_forward` | `TypeOK`, `MatchIsLocal`, `NobodyPanics`, `FilteredStays`, `ComesToAnEnd`, `Arrives` | three routers in a line, three hosts, nested prefixes and a host route, two pairs of stakeholders, TTL 4, two faults: a route announced, an interface switched, a loss |
| `tls_handshake` | `TypeOK`, `KeysCrossed`, `Authenticated`, `FirstRecordKept`, `RejectedIsTold`, `DialReturns` | two dialers of four kinds, one reset anywhere |
| `tls_file` | `TypeOK`, `EOFMeansWhole`, `ImplementsPipe`, `FileArrives` | `tlssf` to `tlsrf`: three records of two bytes and four chunks through buffers of three, reads of one and two bytes, one reset, either file may fail |
| `tls_repl` | `Genuine`, `CloseReturns` | two `tlss` at once, two `tlsr` at the peer, in turn, after an error or at once, `tlscl` at any time, records of two chunks, buffers of one |

`EndOfStream` is checked for an application that does not call `VWrite` during
`VClose`, on a connection whose last byte was no zero window probe. Simultaneous
close with data, losses and timers together is too large for one instance;
`close_race` has no timers. `Converges` is checked where every prefix stays
reachable, and for routers started one after the other.

The three TLS runs share `TCPService`, whose steps the mutants of `tls_file` and
`tls_repl` change as well: a `VClose` that does not wait for the send buffer breaks
`EOFMeansWhole`, a `VRead` that waits for a full buffer breaks `CloseReturns`.
`ImplementsPipe` is the same abstract specification that `TCPTransfer` implements:
with one writer and one reader the record layer adds nothing to the byte pipe and
loses nothing of it. With two writers only `Genuine` is left; `tls_repl` checks it for
two, and `RecordsGenuine` proves it for any number. With two readers that overlap
`Genuine` is gone too, so it is stated for ends where none have. `EOFMeansWhole` is
stated for `tlsrf` at the peer of `tlssf`, and leaves open whether the file that was
sent had ended or failed, because the code does not tell `tlsrf`.

A run that finds a disagreement of the code with its own comments:

| Run | What happens |
|---|---|
| `transfer_torndown` | `retransmitSegment` and `handlePureAck` wait for each other's mutex |

Further behaviours of the models that contradict comments or documents, found
while the modules were written and not kept as runs of their own:

- ACKs that change places restore an old, larger window, and the sender overruns the
  receive buffer (doTcp.go:465), which handlePayload takes for impossible
  (doTcp.go:284).
- When a data segment completes the handshake, the receive buffer starts at that
  segment, behind bytes that were lost (handshake.go:248).
- In a line of four routers that start together and where nothing fails, a route can
  become infinite: triggered updates carry the neighbour's cost instead of the own
  one, and go back to where they came from (rip.go:263).
- Two `tlss` on one connection seal two records with one nonce (tlsApi.go:84), against
  "Each side uses monotonically increasing sequence numbers to generate unique
  nonces" (spec/README-TLS.md); the reader then fails for good.
- Of two `tlsr` that wait on one connection, the second overwrites with the rest of its
  record what the first has left of its own in `readBuf`: that part is never returned
  (tlsApi.go:123).
- `tlssf` that cannot open or read its file closes the connection as it does at the
  end of the file (tlsRepl.go:183): `tlsrf` gets `io.EOF` between two records and
  reports a truncated or empty file as received. A `tlsrf` that cannot write its file
  closes without reading the rest (tlsRepl.go:281).
- The server may register a user who has sent its signature and has not yet derived
  its keys (handshake.go:86): `tlsa` then lists a connection that `VTLSDial` has not
  returned.
- A record cut short by the FIN of a `tlscl` entered while `tlss` runs is reported as
  `io.EOF`, like the end between two records (doTls.go:118).
- `tlsa` ends at the first handshake that fails, and the listener goes on to establish
  connections that nobody accepts (tlsRepl.go:92).
- Two users who enter `tlscl` while both have unread data wait for each other, and
  no TLS command can be entered at either host (tlsRepl.go:386).
- `SendIP` to an own address finds its own interface, where the address is no
  neighbour, and drops the packet without an error (ipStack.go:146).
- A packet with a bad checksum, if a link produced one, would end the process
  (ipStack.go:389).
- A retransmission callback that has fired when the last ACK comes indexes an empty
  queue and panics; the check that would prevent it is commented out as "no longer
  needed" (doTcp.go:755, step `RetransmitPanic`).
- A FIN still queued in TIME_WAIT can no longer be acknowledged: both the
  retransmission limit and TIME_WAIT run `teardown`, which panics (closing.go:216).
- When the owner of a prefix is cut off while a neighbour's old update is on its
  way, two routers can use each other and pass two triggered updates, one of cost 16
  and one old, back and forth for ever: the cost passed on does not grow (rip.go:275).
- With ACKs out of order a late zero window starts a probe between two steps of
  `sendLoop`; the retransmission queue then covers bytes never written, and `VRead`
  returns one of them (doTcp.go:699).
- The ACK of a probe can leave the head of the retransmission queue partly
  acknowledged (doTcp.go:505).
- `sendLoop` that waits for a window update never returns after teardown
  (doTcp.go:671 against closing.go:216).
- The last handshake timer and the answer cross: an entry is ESTABLISHED and
  removed from the table (handshake.go:298).
- An established client acknowledges the SYN-ACK of another server entry
  (doTcp.go:74), and the ends disagree on sequence numbers.
- With `connChan` full and no further `VAccept` the host handles no more packets
  (handshake.go:258); closing a listener panics a waiting `VAccept`
  (socketsAPI.go:65).
- The ACK of the passive side's FIN handled after closing.go:87 and before
  closing.go:95 leaves the connection in LAST_ACK for good; CLOSE_WAIT can be
  stored over FIN_WAIT_1 in a simultaneous close (closing.go:193).
- A reset stops no timer: with data in flight `teardown` runs again and panics.
- `VWrite` during `VClose` (`ConcurrentWriter = TRUE`) and a FIN after a probe
  (`ProbedBefore = TRUE`) break `EndOfStream`: the byte shares its sequence number
  with the FIN, or the ACK of the FIN is taken for that of a probe (doTcp.go:439).

Bounds. Two incarnations of an entry are what it takes to confuse one with
another; one retransmission allowed (`MaxRetrans = 1`) gives each callback a run
that resends and a run that gives up; one callback waiting while a timer runs is
the overlap that `Stop` cannot cancel; one loss per behaviour hits each packet in
turn. Windows of one and two bytes make every boundary (empty, full, partly free)
happen within four bytes. `transfer` checks a connection that is given up and a
process that has died, but does not go on from there (`Open` in `MCTransfer`);
`transfer_live` does, and the theorems cover both. Deadlock checking is off because a finished transfer, a
given-up handshake and a closed connection may stop; routers never do, and
`rip_ring` checks it. In the ring each fault leaves a second path, and two faults are
an interface that comes back, a loss while it is down, or two losses, which is what
it takes to miss a timeout. In `ip_forward` two changed routes are enough for a loop,
and a TTL of 4 lets a packet go round it and still cross the line when there is none;
one packet suffices since packets do not meet. Two dialers are one that is served and
one that waits behind it. Buffers smaller than a record make every `ReadFull` and
`WriteFull` take several calls.

Fairness. Goroutines that can run do run and timers expire (weak fairness of each
goroutine's steps: Go's scheduler and `time.AfterFunc`). The network loses at most
`MaxLoss` packets and delivers the others; in the handshake not even this is
assumed. Routers are started at some time, their loops run and time goes on.
`transfer_live` assumes an application that goes on reading, as its
receive loop does. In the TLS runs the goroutines of calls that were started run and
TCP delivers; `tlssf` and `tlsrf` close when they are done, and their files need not fail. The
user of `tls_repl` goes on with `tlss` and `tlsr`, but has to enter neither `tlscl` nor a
`tlsr` before the last one has returned: `CloseReturns` is about a peer that goes on
reading, which is what the fairness of its readers says. Elsewhere nobody is assumed
to write, close, connect or reset.

## 5. Proofs

Every theorem is about `Spec` without fairness and holds for all values of the
constants that satisfy the module's named assumptions (`WindowAssumption` and its
like), which TLC evaluates for each instance. A further assumption of a theorem is in
its statement and is named here. Each inductive invariant was model-checked before it
was proved.

**TCPTransfer**, for every window, segment size, set of write and read sizes, number
of bytes, losses and retransmissions:

- `TypeCorrect`: `Spec => []TypeOK`. The part that is not mere typing (`una <= nxt`,
  no buffer above its capacity) needs the relation between circular buffer and
  pointers, which is carried along.
- `FlowInvariant`: `FlowInv` is inductive when ACKs are not reordered
  (`"acks" \notin Reorder`; data segments may be).
- `StreamCorrect`, `FreedBytesCorrect`, `WindowRespected`, `WindowEdgeCorrect`
  follow from it, and `StreamRefinement`: `TCPTransfer` implements `ReliableStream`.
- `InFlightIsQueued` (`InFlightQueued`), under the same assumption. Next to `FlowInv` it
  needs `SentInv`: the queue covers also the segment that `sendLoop` has queued and not
  yet counted in `nxt`, since a probe or an ACK may come between.
- `RetransmissionAlwaysArmed` (`RetransmissionArmed`): an open connection whose queue is
  not empty has a timer that runs or a callback that has fired. It holds for ACKs in
  any order.

None of the properties is inductive alone. That `VRead` returns the right bytes
depends on what is in the receive buffer, that on the segments under way, those on
what the retransmission queue covers, and that on the window, which in turn is
right only if the ACKs under way form a chain. `FlowInv` has one conjunct for each:

- `SendBufInv`: the circular buffer is the region from `una` to `lbw`; a segment
  that `sendLoop` has sent but not yet queued is written and inside the window;
- `WindowInv`: the sender's right edge is not ahead of the receiver's;
- `RecvBufInv`: the receive buffer continues what was delivered;
- `QueueInv`, `SegsInv`, `EarlyInv`: queue entries, segments and early arrivals that
  can still be stored carry the stream's own bytes and lie inside the window (or
  are a probe's single byte);
- `AcksInv`: each ACK under way follows the one before it, in number and in right
  edge, from what the sender knows to what the receiver has.

The assumption on ACKs is needed: an ACK that is overtaken restores an old window
(section 4).

**IPForwarding**, for every network, address plan, set of stakeholders, TTL and
number of faults: `ForwardingTypeCorrect`, `MatchCorrect`, `NobodyPanicsCorrect` and
`FilterCorrect`. `ForwardingInv` has two parts. `TablesOK` says that the networks of a
node stay local entries and every other entry leads to a router on one of them; with
`AddressPlan` (no prefix that contains a router's address is longer than the router's
network) the second round of `LongestPrefixMatch` finds that network, and without it
a route to a next hop through itself would make the recursion endless. `PacketsOK`
says that a packet on its way has a valid header and, between stakeholders, is still
on the network it was sent from, since `SRCFilter` is asked before each forwarding
and not before the first link. The assumptions are those of `ForwardingAssumption`
and `AddressPlan`, which TLC evaluates for the instance.

**TCPHandshake**, for any number of clients, server entries, losses, retransmissions
and bytes of early data: `HandshakeTypes`, `ServerNotDeceived` (`PassiveAnswered`) and
`NobodyWaitsUnarmed` (`HandshakeArmed`). What is hard is that the server's entries
outlive their removal from the table, in callbacks and in what `HandleTCP` has already
chosen, and that ACKs of given-up entries stay in the network. `ConnectInv` records
which SYN-ACKs a client has acknowledged: all segments under way with the ACK flag
acknowledge one of those (`Truthful`), a client has acknowledged what it has taken
(`ClientInv`), an entry keeps its number until it is established (`EntryInv`), and an
entry for which `handleAckHandshake` has been called may be closed but is established
by nobody else (`DispatchedInv`). Timers are in the same conjuncts: a state in which
somebody waits is entered with the timer set, and the callback that gives up leaves
the state. Initial sequence numbers are far apart, as everywhere in this module.

**TCPClose**, for any number of bytes, retransmissions, callbacks, losses and resets:
`CloseTypes`, `FinAcksAreGenuine` (`FinAckGenuine`) and `EndOfStreamIsWhole`
(`EndOfStream`). The last one assumes `Sequential`: no `VWrite` runs beside `VClose` and
no zero window probe came before it; with either the code breaks it (section 4).
`CloseInv` has, for each direction:

- `DataInv`: a byte that is out, that is queued, under way or waiting at the peer, has
  been written and is counted in `nxt`;
- `AcksInv`: no acknowledgment, and no `una`, is ahead of what the peer has taken in;
- `GapInv`: until the FIN is taken in, `nxt` passes over a number that no byte has and
  the peer is not beyond it. An `AckNum` equal to `nxt` in FIN_WAIT_1 therefore is the
  FIN's acknowledgment. A late `VWrite` does no harm here: its byte may take the FIN's
  own number, but `nxt` then ends one further, and it is the next number that is missing;
- `FinInv`: no FIN is out before `sendFin`, and none has a number above the one after
  the last byte;
- `OrderInv`: under `Sequential` the FIN has exactly the number after the last byte.

`SocketInv` and `QueueInv` say the same of the entry's own fields (state, probing,
the queue). What `handlePureAck` acknowledges and how far `ReadEarlyArrivals` gets are
least numbers with a property (`Unacked`, `Drained`), which the lemma `Least` provides.

**RIP**, for every network of routers, `Infinity`, `RipTimeout`, number of faults and
owners: `RIPTypes` and `DeadRoutesGoOffline` (`DeadRouteOffline`). A route in use is
never younger than the silence of its next hop (`AgesInv`): it was confirmed by a
message from there. That this survives a message that comes late needs `SilenceInv`:
after a period of silence the router's own interface is down, or the neighbour's is and
nothing of it is on its way. `Tick` waits for the timeout check, so a route that
is too old is offline.

**TLSHandshake**, for any set of dialers with any configurations, and any number of
resets: `HandshakeTyped`, `HandshakeCrossesKeys` (`KeysCrossed`),
`HandshakeAuthenticates` (`Authenticated`) and `HandshakeKeepsFirstRecord`
(`FirstRecordKept`). `HandshakeInv` says what each of the two streams of a connection
may carry (`BuffersInv`), that what the dialer has sent is what the accept loop has
taken followed by what is under way (`StreamInv`, which also covers the record that
follows the signature), where both sides have to be when one is registered
(`DialerInv`, `ServerInv`), and that `connChan` holds every connection once
(`QueueInv`). Whether the user's signature is in the stream, and with it what the
server can rely on, depends on the dialer being behind `UserSigns`, not on its having
registered (`Signed`). Keys and signatures are symbolic and DH values fresh.

**TLSRecord**, for any number of senders and readers at any number of ends, any sizes
of records, frames and buffers, any closes, resets, file errors and reads after an
error. `RecordAssumption` has one goroutine at the ends of file transfers, and nothing
of the others:

- `RecordTypes`, and `RecordsGenuine` (`Genuine`) for several writers and readers at an
  end. In `RecordInv`, as long as no two calls of `VTLSRead` have overlapped, what was returned followed by `readBuf` is as many whole records as
  `readSeq` counts, each sealed with the nonce of its position. That GCM opens a record
  only with its nonce is all that is needed: nothing is said of the framing. A reader
  at a record has found `readBuf` empty, and it still is when the record is opened,
  because two readers in their calls are an overlap (`GoroutinesInv`).
- `RecordsFormPipe` (`ImplementsPipe`): an end with one sender and its peer with one
  reader implement `ReliableStream`. Assumed: nobody else sends at the one end or
  reads at the other (`SolePair`), as in a file transfer. `PipeInv` says that the nonces of the records are then 0, 1, 2 ...
- `EndOfFileIsWhole` (`EOFMeansWhole`): when `VTLSRead` returns `io.EOF` to `tlsrf`, it has
  returned all that `tlssf` has read from its file, and `tlssf` is at the end of the file
  or at an error of it. `ReadFull` passes `io.EOF` on from the middle of a
  record too, so `FileInv` has to follow the framing: what the reader has of its record,
  what is in the two buffers and what the sender has still to store continue each
  other chunk by chunk (`FramingInv`, `WritingInv`), and the FIN of `tlssf` goes out only
  when its sender has ended (`Ended`) and the send buffer is empty (`ClosingInv`). With the
  stream at its end and the sender in no record, the reader can only be between two records.

Only model-checked: liveness (outside the prover's reach: `WrittenIsDelivered`,
`ConnectReturns`, `HalfOpenEnds`, `EstablishedIsAccepted`, `PeerLearns`, `Converges`,
`ComesToAnEnd`, `Arrives`, `RejectedIsTold`, `DialReturns`, `FileArrives`,
`CloseReturns`).

## 6. Not modelled

For TCP the layers below are the network, which loses and reorders. Static routes and
hosts do not appear in `RIP`; in `IPForwarding` the messages of RIP are arbitrary
announcements of neighbours. Parsing and printing of commands, the listing of
tables, the configuration files, the layout of the TCP header and process start keep
no state. Keys are loaded from constants and cryptography is taken as ideal. Sequence
numbers do not wrap, and unsynchronised access to Go maps, which the runtime may
answer by ending the process, is taken as atomic.
