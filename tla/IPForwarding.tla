---------------------------- MODULE IPForwarding ----------------------------
(***************************************************************************)
(* pkg/ipStack/ipStack.go over pkg/linkLayer: SendIP, the goroutine of     *)
(* RunIPLayer on every host and router, LongestPrefixMatch, TTL, header    *)
(* checksum, the filter between stakeholders, and the commands up and      *)
(* down.  RIP, which is module RIP, appears as routes that change: any     *)
(* neighbour may have announced any cost for any prefix.                   *)
(*                                                                         *)
(* An interface is known by its address.  Packets do not influence each    *)
(* other, so each has its own place in the state: on its way to an         *)
(* interface, in IncomingPacketChan of a node, or at the end of its way.   *)
(***************************************************************************)
EXTENDS Naturals

CONSTANTS
    Packets,        \* packets that are sent
    Nodes, Routers,
    Addrs,          \* addresses, one for each interface
    Owner,          \* the node that an address belongs to
    Network,        \* the prefix of an interface
    Prefixes,       \* prefixes: networks and others
    Announced,      \* those that routers announce while packets are on their way
    Contains,       \* the addresses in a prefix
    Bits,           \* its length
    Default,        \* a prefix: 0.0.0.0/0
    Gateway,        \* next hop of the default route of each host
    Learned,        \* a RIP route to begin with: router and prefix to next hop
    FilterPairs,    \* pairs of prefixes between which nothing is forwarded
    Senders,        \* nodes that packets are sent from ...
    Destinations,   \* ... and addresses that they are sent to
    TTLNew,         \* TTL of a new packet
    Infinity,       \* the cost of a route that is offline
    MaxFaults       \* bound: changed routes, switched interfaces and lost packets

NoAddr == "none"

Interfaces(n) == {a \in Addrs : Owner[a] = n}
Neighbours(a) == {b \in Addrs : b # a /\ Network[b] = Network[a]}
RIPNeighbours(n) == UNION {{b \in Neighbours(a) : Owner[b] \in Routers} : a \in Interfaces(n)}

ASSUME ForwardingAssumption ==
    /\ Routers \subseteq Nodes /\ NoAddr \notin Addrs
    /\ Owner \in [Addrs -> Nodes] /\ Network \in [Addrs -> Prefixes]
    /\ Default \in Prefixes /\ Announced \subseteq Prefixes
    /\ \A a \in Addrs : Network[a] # Default
    /\ Contains \in [Prefixes -> SUBSET Addrs] /\ Bits \in [Prefixes -> Nat]
    /\ \A a \in Addrs : a \in Contains[Network[a]]
    /\ \A p, q \in Prefixes : p # q /\ Bits[p] = Bits[q] => Contains[p] \cap Contains[q] = {}
    /\ Gateway \in [Nodes \ Routers -> Addrs]
    /\ \A n \in Nodes \ Routers : Gateway[n] \in RIPNeighbours(n)
    /\ \A r \in Routers, p \in Prefixes : <<r, p>> \in DOMAIN Learned => Learned[<<r, p>>] \in RIPNeighbours(r)
    /\ \A n \in Nodes, p \in Prefixes : <<n, p>> \in DOMAIN Learned => n \in Routers
    /\ FilterPairs \subseteq Prefixes \X Prefixes
    /\ Senders \subseteq Nodes /\ Destinations \subseteq Addrs
    /\ TTLNew \in Nat \ {0} /\ Infinity \in Nat \ {0, 1} /\ MaxFaults \in Nat

\* Prefixes do not divide the network of a router: none that contains a router's
\* address is longer than the prefix that its neighbours have for it.
ASSUME AddressPlan ==
    \A a \in Addrs, p \in Prefixes :
        Owner[a] \in Routers /\ a \in Contains[p] => Bits[p] <= Bits[Network[a]]

VARIABLES
    ForwardingTable,    \* of each node
    up,                 \* Interface.Up
    packet,             \* each packet: header, and where it is
    alive,              \* nodes whose process has not panicked
    faults              \* history, for MaxFaults

vars == <<ForwardingTable, up, packet, alive, faults>>

FwdEntry == [Type : {"Local", "RIP", "Static"}, InterfaceName : Addrs \cup {NoAddr},
             NextHop : Addrs \cup {NoAddr}, Cost : 0 .. Infinity]
Local(a) == [Type |-> "Local", InterfaceName |-> a, NextHop |-> NoAddr, Cost |-> 0]
Static(a) == [Type |-> "Static", InterfaceName |-> NoAddr, NextHop |-> a, Cost |-> 0]
RIP(a, cost) == [Type |-> "RIP", InterfaceName |-> NoAddr, NextHop |-> a, Cost |-> cost]

\* (mutant) the checksum of the header as it came in
ChecksumBeforeTTL(h) == [src |-> h.src, dst |-> h.dst, ttl |-> TTLNew]

\* ComputeChecksum: a value that depends on every field.
ComputeChecksum(h) == [src |-> h.src, dst |-> h.dst, ttl |-> h.ttl]

\* (mutant) the addresses exchanged
SerializeSwapped(src, dst, ttl) ==
    LET h == [src |-> dst, dst |-> src, ttl |-> ttl]
    IN  [src |-> dst, dst |-> src, ttl |-> ttl, checksum |-> ComputeChecksum(h)]

\* SerializePacket
SerializePacket(src, dst, ttl) ==
    LET h == [src |-> src, dst |-> dst, ttl |-> ttl]
    IN  [src |-> src, dst |-> dst, ttl |-> ttl, checksum |-> ComputeChecksum(h)]
NoHeader == [src |-> NoAddr, dst |-> NoAddr, ttl |-> 0,
             checksum |-> [src |-> NoAddr, dst |-> NoAddr, ttl |-> 0]]

\* What DeserializeAndValidatePacket checks.  It reports a packet that fails with
\* a nil header and a nil error.
Valid(hdr) == hdr.checksum = [src |-> hdr.src, dst |-> hdr.dst, ttl |-> hdr.ttl] /\ hdr.ttl > 0

-----------------------------------------------------------------------------
(* Tables *)

\* initFwdTable, and the routes RIP has found so far.
InitTable(n) ==
    LET local == {Network[a] : a \in Interfaces(n)}
        static == IF n \in Routers THEN {} ELSE {Default}
        rip == {p \in Prefixes \ local : <<n, p>> \in DOMAIN Learned}
    IN  [p \in local \cup static \cup rip |->
            IF p \in local THEN Local(CHOOSE a \in Interfaces(n) : Network[a] = p)
            ELSE IF p \in static THEN Static(Gateway[n])
            ELSE RIP(Learned[<<n, p>>], 1)]

\* (mutant) the first match rather than the longest
AnyMatch(n, dest) == {p \in DOMAIN ForwardingTable[n] : dest \in Contains[p]}

\* What the loop over the table finds: the longest prefix, if any, that contains
\* dest.  No two prefixes of one length do.
LongestMatch(n, dest) ==
    LET matches == {p \in DOMAIN ForwardingTable[n] : dest \in Contains[p]}
    IN  {p \in matches : \A q \in matches : Bits[q] <= Bits[p]}

Via(e, dest) == [entry |-> e, dest |-> dest]
Offline(e) == e.InterfaceName = NoAddr /\ e.Cost >= Infinity

\* One round of LongestPrefixMatch: an entry with the address to look up or send to.
Lookup(n, dest) ==
    {Via(e, IF e.InterfaceName # NoAddr THEN dest ELSE e.NextHop) :
        e \in {ForwardingTable[n][p] : p \in LongestMatch(n, dest)}}

\* LongestPrefixMatch, a set of one match or none, looks up the next hop of an entry
\* without an interface in turn.  A next hop is on a network of the node, so the
\* second round is the last: MatchIsLocal says that there is none behind it.
LongestPrefixMatch(n, dest) ==
    UNION {IF m.entry.InterfaceName # NoAddr THEN {m}
           ELSE IF Offline(m.entry) THEN {} ELSE Lookup(n, m.dest) : m \in Lookup(n, dest)}

\* (mutant) without the check that only RIP entries are replaced
ReplacesAny(n, p, cost) == TRUE

\* HandleRipMessage leaves entries alone that are not its own.
Replaces(n, p, cost) ==
    p \in DOMAIN ForwardingTable[n] => ForwardingTable[n][p].Type = "RIP"

\* UpdateForwardingTable, with what neighbour a announces for prefix p.
RouteChanges(n, a, p, cost) ==
    /\ faults < MaxFaults
    /\ Replaces(n, p, cost)
    /\ ForwardingTable' = [ForwardingTable EXCEPT ![n] =
          [q \in DOMAIN @ \cup {p} |-> IF q = p THEN RIP(a, cost) ELSE @[q]]]
    /\ faults' = faults + 1
    /\ UNCHANGED <<up, packet, alive>>

-----------------------------------------------------------------------------
(* Packets *)

Place(i, where, at) == [packet EXCEPT ![i] = [where |-> where, at |-> at, hdr |-> @.hdr]]
Drop(i) == packet' = Place(i, "dropped", packet[i].at)

\* LinkLayerSend from interface a to the neighbour with address b.
LinkLayerSend(i, a, b, hdr) ==
    IF up[a] THEN packet' = [packet EXCEPT ![i] = [where |-> "link", at |-> b, hdr |-> hdr]]
             ELSE Drop(i)

\* A match that a packet can be sent to: a neighbour on an interface of this node.
Sendable(m) == m.entry.Type = "Local" /\ m.dest \in Neighbours(m.entry.InterfaceName)

\* SendIP, by the command send or by TCP.
SendIP(i, n, dst) ==
    /\ packet[i].where = "new" /\ n \in alive
    /\ \/ /\ ~\E m \in LongestPrefixMatch(n, dst) : Sendable(m)
          /\ Drop(i)
       \/ \E m \in LongestPrefixMatch(n, dst) :
             LET a == m.entry.InterfaceName
             IN  Sendable(m) /\ LinkLayerSend(i, a, m.dest, SerializePacket(a, dst, TTLNew))
    /\ UNCHANGED <<ForwardingTable, up, alive, faults>>

\* LinkLayerListen hands a packet to IncomingPacketChan if the interface is up.
LinkLayerListen(i) ==
    /\ packet[i].where = "link" /\ Owner[packet[i].at] \in alive
    /\ IF up[packet[i].at] THEN packet' = Place(i, "node", packet[i].at) ELSE Drop(i)
    /\ UNCHANGED <<ForwardingTable, up, alive, faults>>

\* (mutant) one direction only
FiltersOneWay(hdr) ==
    \E pair \in FilterPairs : hdr.src \in Contains[pair[1]] /\ hdr.dst \in Contains[pair[2]]

\* SRCFilter for every pair of stakeholders.
SRCFilter(hdr) ==
    \E pair \in FilterPairs :
        \/ hdr.src \in Contains[pair[1]] /\ hdr.dst \in Contains[pair[2]]
        \/ hdr.src \in Contains[pair[2]] /\ hdr.dst \in Contains[pair[1]]

\* (mutant) the TTL is looked at and not counted down
SameTTL(ttl) == ttl

DecrementTTL(ttl) == ttl - 1

\* The matches that node n forwards a packet to, one or none.
NextHops(n, hdr) ==
    IF SRCFilter(hdr) \/ DecrementTTL(hdr.ttl) <= 0 THEN {}
    ELSE {m \in LongestPrefixMatch(n, hdr.dst) : m.entry.Cost < Infinity /\ Sendable(m)}

\* The forwarding case of ipForwarding.
Forward(i, n, hdr) ==
    \/ NextHops(n, hdr) = {} /\ Drop(i)
    \/ \E m \in NextHops(n, hdr) :
          LinkLayerSend(i, m.entry.InterfaceName, m.dest,
                        SerializePacket(hdr.src, hdr.dst, DecrementTTL(hdr.ttl)))

\* RunIPLayer takes the packet.  A nil header is a nil pointer in ipForwarding.
RunIPLayer(i) ==
    LET n == Owner[packet[i].at]
        hdr == packet[i].hdr
    IN  /\ packet[i].where = "node" /\ n \in alive
        /\ IF ~Valid(hdr) THEN Drop(i)
           ELSE IF hdr.dst \in Interfaces(n) THEN packet' = Place(i, "delivered", hdr.dst)
           ELSE Forward(i, n, hdr)
        /\ alive' = IF Valid(hdr) THEN alive ELSE alive \ {n}
        /\ UNCHANGED <<ForwardingTable, up, faults>>

-----------------------------------------------------------------------------
(* Interfaces and links *)

\* The commands up and down.
IFUp(a) == up' = [up EXCEPT ![a] = TRUE]
IFDown(a) == up' = [up EXCEPT ![a] = FALSE]
Switch(a) ==
    /\ faults < MaxFaults
    /\ IF up[a] THEN IFDown(a) ELSE IFUp(a)
    /\ faults' = faults + 1
    /\ UNCHANGED <<ForwardingTable, packet, alive>>

Lose(i) ==
    /\ faults < MaxFaults
    /\ packet[i].where = "link"
    /\ Drop(i)
    /\ faults' = faults + 1
    /\ UNCHANGED <<ForwardingTable, up, alive>>

Init ==
    /\ ForwardingTable = [n \in Nodes |-> InitTable(n)]
    /\ up = [a \in Addrs |-> TRUE]
    /\ packet = [i \in Packets |-> [where |-> "new", at |-> NoAddr, hdr |-> NoHeader]]
    /\ alive = Nodes
    /\ faults = 0

Next ==
    \/ \E i \in Packets : \/ \E n \in Senders, dst \in Destinations : SendIP(i, n, dst)
                          \/ LinkLayerListen(i) \/ RunIPLayer(i) \/ Lose(i)
    \/ \E n \in Routers, p \in Announced, cost \in {1, Infinity} :
          \E a \in RIPNeighbours(n) : RouteChanges(n, a, p, cost)
    \/ \E a \in Addrs : Switch(a)

Spec == Init /\ [][Next]_vars

\* The listeners and RunIPLayer of every node run.
Fairness == \A i \in Packets : WF_vars(LinkLayerListen(i) \/ RunIPLayer(i))

FairSpec == Spec /\ Fairness

-----------------------------------------------------------------------------
(* Properties *)

\* The type invariant.
TypeOK ==
    /\ \A n \in Nodes : /\ DOMAIN ForwardingTable[n] \subseteq Prefixes
                        /\ \A p \in DOMAIN ForwardingTable[n] : ForwardingTable[n][p] \in FwdEntry
    /\ up \in [Addrs -> BOOLEAN]
    /\ \A i \in Packets :
          /\ packet[i].where \in {"new", "link", "node", "delivered", "dropped"}
          /\ packet[i].where \in {"link", "node", "delivered"} =>
                packet[i].at \in Addrs /\ packet[i].hdr.dst \in Destinations
          /\ packet[i].hdr.ttl \in 0 .. TTLNew
    /\ alive \subseteq Nodes
    /\ faults \in 0 .. MaxFaults

\* LongestPrefixMatch comes to an end on every node and for every address, at an
\* entry with an interface: ipForwarding never sees an entry of RIP ("SHOULDN'T
\* HAPPEN"), whatever the neighbours announce within the address plan.
MatchIsLocal ==
    \A n \in Nodes, dest \in Addrs :
        \A m \in LongestPrefixMatch(n, dest) :
            m.entry.Type = "Local" /\ m.dest \in Contains[Network[m.entry.InterfaceName]]

\* No node takes in a packet that it would dereference a nil header for: every hop
\* computes the checksum for its new TTL and sends no packet with TTL 0.
NobodyPanics == alive = Nodes

Opposed(a, b) ==
    \E pair \in FilterPairs : \E i \in {1, 2} : a \in Contains[pair[i]] /\ b \in Contains[pair[3 - i]]

\* Between two stakeholders nothing comes through a router, in either direction, on
\* any route: a packet reaches at most a node on the network it was sent from.
FilteredStays ==
    \A i \in Packets :
        LET hdr == packet[i].hdr
        IN  packet[i].where = "delivered" /\ Opposed(hdr.src, hdr.dst) =>
                \E a \in Interfaces(Owner[packet[i].at]) : Network[a] = Network[hdr.src]

\* A packet that is sent is delivered or dropped in the end, also when the routes
\* of several routers form a loop.
ComesToAnEnd ==
    \A i \in Packets : packet[i].where # "new" ~> packet[i].where \in {"delivered", "dropped"}

\* With the routes that RIP converges to and nothing failing, every packet that has
\* left its sender reaches the node that has its address, except between stakeholders.
Arrives ==
    [](faults = 0) =>
        \A i \in Packets :
            packet[i].where = "link" /\ ~Opposed(packet[i].hdr.src, packet[i].hdr.dst)
            ~> packet[i].where = "delivered"

=============================================================================
