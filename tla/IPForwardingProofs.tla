------------------------- MODULE IPForwardingProofs -------------------------
(***************************************************************************)
(* Theorems about IPForwarding, for every network, address plan, set of    *)
(* stakeholders, TTL and number of faults: type correctness, that every    *)
(* lookup ends at an interface, that no node sends a packet that ends      *)
(* another, and that the filter between stakeholders has no way round it.  *)
(***************************************************************************)
EXTENDS IPForwarding, TLAPS

\* (invariant) The table of node n: its own networks are local, and every other
\* entry leads to a router on one of them.
TableOK(n, T) ==
    /\ T = [p \in DOMAIN T |-> T[p]]
    /\ DOMAIN T \subseteq Prefixes
    /\ \A a \in Interfaces(n) : Network[a] \in DOMAIN T /\ T[Network[a]].Type = "Local"
    /\ \A p \in DOMAIN T :
          \/ \E a \in Interfaces(n) : Network[a] = p /\ T[p] = Local(a)
          \/ \E b \in RIPNeighbours(n) :
                T[p] = Static(b) \/ \E cost \in 0 .. Infinity : T[p] = RIP(b, cost)

TablesOK ==
    /\ ForwardingTable = [n \in Nodes |-> ForwardingTable[n]]
    /\ \A n \in Nodes : TableOK(n, ForwardingTable[n])

SomeAddr == Addrs \cup {NoAddr}
Header == [src : SomeAddr, dst : SomeAddr, ttl : 0 .. TTLNew,
           checksum : [src : SomeAddr, dst : SomeAddr, ttl : 0 .. TTLNew]]
Packet == [where : {"new", "link", "node", "delivered", "dropped"}, at : SomeAddr, hdr : Header]

\* (invariant) A packet on its way is valid, and between stakeholders it is on the
\* network it was sent from.
OnItsWay(pkt) ==
    /\ pkt.at \in Addrs /\ pkt.hdr.src \in Addrs /\ pkt.hdr.dst \in Addrs \cap Destinations
    /\ Valid(pkt.hdr)
    /\ Opposed(pkt.hdr.src, pkt.hdr.dst) => Network[pkt.at] = Network[pkt.hdr.src]

\* (invariant) A packet that has arrived.
Arrived(pkt) ==
    /\ pkt.at \in Addrs /\ pkt.hdr.dst \in Destinations
    /\ Opposed(pkt.hdr.src, pkt.hdr.dst) =>
          \E a \in Interfaces(Owner[pkt.at]) : Network[a] = Network[pkt.hdr.src]

PacketOK(pkt) ==
    /\ pkt \in Packet
    /\ pkt.where \in {"link", "node"} => OnItsWay(pkt)
    /\ pkt.where = "delivered" => Arrived(pkt)

PacketsOK == packet = [i \in Packets |-> packet[i]] /\ \A i \in Packets : PacketOK(packet[i])

\* The inductive invariant.
ForwardingInv ==
    /\ TablesOK
    /\ PacketsOK
    /\ up \in [Addrs -> BOOLEAN]
    /\ alive = Nodes
    /\ faults \in 0 .. MaxFaults

-----------------------------------------------------------------------------
(* Tables *)

\* A table entry that passes TableOK is of type FwdEntry.
LEMMA EntryType ==
    ASSUME NEW n \in Nodes, NEW T, TableOK(n, T), NEW p \in DOMAIN T
    PROVE  T[p] \in FwdEntry
<1>1. CASE \E a \in Interfaces(n) : Network[a] = p /\ T[p] = Local(a)
  BY <1>1, ForwardingAssumption DEF Local, FwdEntry, Interfaces
<1>2. CASE \E b \in RIPNeighbours(n) : T[p] = Static(b) \/ \E cost \in 0 .. Infinity : T[p] = RIP(b, cost)
  BY <1>2, ForwardingAssumption DEF Static, RIP, FwdEntry, RIPNeighbours, Neighbours
<1> QED BY <1>1, <1>2 DEF TableOK

\* What one round of LongestPrefixMatch returns: an entry of the table for the
\* longest prefix that contains the address.
LEMMA LookupResult ==
    ASSUME TablesOK, NEW n \in Nodes, NEW dest \in Addrs, NEW m \in Lookup(n, dest)
    PROVE  \/ \E a \in Interfaces(n) : m.entry = Local(a) /\ m.dest = dest /\ dest \in Contains[Network[a]]
           \/ \E b \in RIPNeighbours(n) : m.entry.InterfaceName = NoAddr /\ m.dest = b
<1>1. PICK p \in LongestMatch(n, dest) :
          LET e == ForwardingTable[n][p]
          IN  m = Via(e, IF e.InterfaceName # NoAddr THEN dest ELSE e.NextHop)
  BY DEF Lookup
<1>2. p \in DOMAIN ForwardingTable[n] /\ dest \in Contains[p]
  BY <1>1 DEF LongestMatch
<1>3. CASE \E a \in Interfaces(n) : Network[a] = p /\ ForwardingTable[n][p] = Local(a)
  BY <1>1, <1>2, <1>3, ForwardingAssumption DEF Local, Via, Interfaces
<1>4. CASE \E b \in RIPNeighbours(n) :
              \/ ForwardingTable[n][p] = Static(b)
              \/ \E cost \in 0 .. Infinity : ForwardingTable[n][p] = RIP(b, cost)
  <2> DEFINE e == ForwardingTable[n][p]
  <2>1. PICK b \in RIPNeighbours(n) : e = Static(b) \/ \E cost \in 0 .. Infinity : e = RIP(b, cost)
    BY <1>4
  <2>2. e.InterfaceName = NoAddr /\ e.NextHop = b
    <3>1. Static(b).InterfaceName = NoAddr /\ Static(b).NextHop = b
      BY DEF Static
    <3>2. ASSUME NEW cost PROVE RIP(b, cost).InterfaceName = NoAddr /\ RIP(b, cost).NextHop = b
      BY DEF RIP
    <3> QED BY <2>1, <3>1, <3>2
  <2>3. m = Via(e, b)
    BY <1>1, <2>2
  <2>4. m.entry = e /\ m.dest = b
    BY <2>3 DEF Via
  <2> QED BY <2>2, <2>4
<1> QED BY <1>2, <1>3, <1>4 DEF TablesOK, TableOK

\* For a router on one of the node's networks the first round ends at an interface:
\* by the address plan no learned prefix is longer than that network.
LEMMA NextHopIsLocal ==
    ASSUME TablesOK, NEW n \in Nodes, NEW b \in RIPNeighbours(n), NEW m \in Lookup(n, b)
    PROVE  \E a \in Interfaces(n) : m.entry = Local(a) /\ m.dest = b /\ b \in Contains[Network[a]]
<1> DEFINE T == ForwardingTable[n]
<1>1. PICK a \in Interfaces(n) : b \in Neighbours(a) /\ Owner[b] \in Routers
  BY DEF RIPNeighbours
<1>2. b \in Addrs /\ Network[b] = Network[a] /\ Network[a] \in Prefixes
  BY <1>1, ForwardingAssumption DEF Neighbours, Interfaces
<1>3. Network[a] \in DOMAIN T /\ T[Network[a]].Type = "Local" /\ DOMAIN T \subseteq Prefixes
  BY <1>1 DEF TablesOK, TableOK
<1>4. PICK p \in LongestMatch(n, b) : m = Via(T[p], IF T[p].InterfaceName # NoAddr THEN b ELSE T[p].NextHop)
  BY DEF Lookup
<1>5. p \in DOMAIN T /\ p \in Prefixes /\ b \in Contains[p]
  BY <1>3, <1>4 DEF LongestMatch
<1>6. Network[a] \in DOMAIN T /\ b \in Contains[Network[a]]
  BY <1>2, <1>3, ForwardingAssumption
<1>7. Bits[Network[a]] <= Bits[p]
  BY <1>4, <1>6 DEF LongestMatch
<1>8. Bits[p] <= Bits[Network[a]]
  BY <1>1, <1>2, <1>5, AddressPlan
<1>9. p = Network[a]
  <2>1. Bits[p] = Bits[Network[a]]
    BY <1>2, <1>5, <1>7, <1>8, ForwardingAssumption, SMTT(30)
  <2> QED BY <2>1, <1>2, <1>5, <1>6, ForwardingAssumption
<1>10. PICK c \in Interfaces(n) : Network[c] = p /\ T[p] = Local(c)
  <2>1. \/ \E c \in Interfaces(n) : Network[c] = p /\ T[p] = Local(c)
        \/ \E d \in RIPNeighbours(n) : T[p] = Static(d) \/ \E cost \in 0 .. Infinity : T[p] = RIP(d, cost)
    BY <1>5 DEF TablesOK, TableOK
  <2>2. T[p].Type = "Local"
    BY <1>3, <1>9
  <2>3. ASSUME NEW d \in RIPNeighbours(n), NEW cost \in 0 .. Infinity
        PROVE  Static(d).Type # "Local" /\ RIP(d, cost).Type # "Local"
    BY DEF Static, RIP
  <2>4. 0 \in 0 .. Infinity
    BY ForwardingAssumption
  <2> QED BY <2>1, <2>2, <2>3, <2>4
<1>11. T[p].InterfaceName # NoAddr
  BY <1>10, ForwardingAssumption DEF Local, Interfaces
<1> QED BY <1>4, <1>5, <1>10, <1>11 DEF Via

\* LongestPrefixMatch ends at an interface of the node, on whose network the
\* address to send to is.
LEMMA MatchResult ==
    ASSUME TablesOK, NEW n \in Nodes, NEW dest \in Addrs, NEW m \in LongestPrefixMatch(n, dest)
    PROVE  \E a \in Interfaces(n) : m.entry = Local(a) /\ m.dest \in Contains[Network[a]]
<1>1. PICK k \in Lookup(n, dest) :
          m \in (IF k.entry.InterfaceName # NoAddr THEN {k}
                 ELSE IF Offline(k.entry) THEN {} ELSE Lookup(n, k.dest))
  BY DEF LongestPrefixMatch
<1>2. CASE \E a \in Interfaces(n) : k.entry = Local(a) /\ k.dest = dest /\ dest \in Contains[Network[a]]
  <2>1. k.entry.InterfaceName # NoAddr
    BY <1>2, ForwardingAssumption DEF Local, Interfaces
  <2> QED BY <1>1, <1>2, <2>1
<1>3. CASE \E b \in RIPNeighbours(n) : k.entry.InterfaceName = NoAddr /\ k.dest = b
  <2>1. m \in Lookup(n, k.dest) /\ k.dest \in RIPNeighbours(n)
    BY <1>1, <1>3
  <2> QED BY <2>1, NextHopIsLocal
<1> QED BY <1>2, <1>3, LookupResult

-----------------------------------------------------------------------------
(* The tables are right in every behaviour *)

\* initFwdTable.
LEMMA InitTableOK == ASSUME NEW n \in Nodes PROVE TableOK(n, InitTable(n))
<1> DEFINE local == {Network[a] : a \in Interfaces(n)}
           static == IF n \in Routers THEN {} ELSE {Default}
           rip == {p \in Prefixes \ local : <<n, p>> \in DOMAIN Learned}
           T == InitTable(n)
<1>1. /\ DOMAIN T = local \cup static \cup rip
      /\ T = [p \in DOMAIN T |-> T[p]]
      /\ \A p \in DOMAIN T : T[p] = IF p \in local THEN Local(CHOOSE a \in Interfaces(n) : Network[a] = p)
                                   ELSE IF p \in static THEN Static(Gateway[n])
                                   ELSE RIP(Learned[<<n, p>>], 1)
  BY DEF InitTable
<1> HIDE DEF T
<1>2. DOMAIN T \subseteq Prefixes
  BY <1>1, ForwardingAssumption DEF Interfaces
<1>3. ASSUME NEW p \in local
      PROVE  \E a \in Interfaces(n) : Network[a] = p /\ T[p] = Local(a)
  <2>1. \E a \in Interfaces(n) : Network[a] = p
    OBVIOUS
  <2> QED BY <1>1, <2>1
<1>4. \A a \in Interfaces(n) : Network[a] \in DOMAIN T /\ T[Network[a]].Type = "Local"
  <2>1. ASSUME NEW a PROVE Local(a).Type = "Local"
    BY DEF Local
  <2>2. \A a \in Interfaces(n) : Network[a] \in local
    OBVIOUS
  <2> QED BY <1>1, <1>3, <2>1, <2>2
<1>5. ASSUME NEW p \in static, p \notin local
      PROVE  \E b \in RIPNeighbours(n) : T[p] = Static(b)
  BY <1>1, <1>5, ForwardingAssumption
<1>6. ASSUME NEW p \in rip, p \notin static
      PROVE  \E b \in RIPNeighbours(n) : \E cost \in 0 .. Infinity : T[p] = RIP(b, cost)
  <2>1. T[p] = RIP(Learned[<<n, p>>], 1)
    BY <1>1, <1>6
  <2>2. n \in Routers /\ p \in Prefixes
    BY ForwardingAssumption
  <2>3. Learned[<<n, p>>] \in RIPNeighbours(n) /\ 1 \in 0 .. Infinity
    BY <2>2, ForwardingAssumption
  <2> QED BY <2>1, <2>3
<1>7. ASSUME NEW p \in DOMAIN T
      PROVE  \/ \E a \in Interfaces(n) : Network[a] = p /\ T[p] = Local(a)
             \/ \E b \in RIPNeighbours(n) :
                   T[p] = Static(b) \/ \E cost \in 0 .. Infinity : T[p] = RIP(b, cost)
  BY <1>1, <1>3, <1>5, <1>6
<1>8. TableOK(n, T)
  BY <1>1, <1>2, <1>4, <1>7 DEF TableOK
<1> QED BY <1>8 DEF T

\* UpdateForwardingTable touches no local entry and stores neighbours only.
LEMMA RouteChangeOK ==
    ASSUME TablesOK, NEW n \in Routers, NEW p \in Announced, NEW cost \in {1, Infinity},
           NEW a \in RIPNeighbours(n), RouteChanges(n, a, p, cost)
    PROVE  TablesOK'
<1> DEFINE T == ForwardingTable[n]
           U == [q \in DOMAIN T \cup {p} |-> IF q = p THEN RIP(a, cost) ELSE T[q]]
<1>1. n \in Nodes /\ p \in Prefixes /\ cost \in 0 .. Infinity
  BY ForwardingAssumption
<1>2. ForwardingTable' = [ForwardingTable EXCEPT ![n] = U] /\ Replaces(n, p, cost)
  BY DEF RouteChanges
<1>3. DOMAIN U = DOMAIN T \cup {p} /\ U = [q \in DOMAIN U |-> U[q]]
  OBVIOUS
<1>4. \A q \in DOMAIN T : q # p => U[q] = T[q]
  OBVIOUS
<1>5. U[p] = RIP(a, cost)
  OBVIOUS
<1>6. TableOK(n, T)
  BY <1>1 DEF TablesOK
<1>7. ASSUME NEW c \in Interfaces(n) PROVE Network[c] # p
  <2>1. Network[c] \in DOMAIN T /\ T[Network[c]].Type = "Local"
    BY <1>6 DEF TableOK
  <2> QED BY <1>2, <2>1 DEF Replaces
<1> HIDE DEF U
<1>8. TableOK(n, U)
  <2>1. DOMAIN U \subseteq Prefixes
    BY <1>1, <1>3, <1>6 DEF TableOK
  <2>2. \A c \in Interfaces(n) : Network[c] \in DOMAIN U /\ U[Network[c]].Type = "Local"
    BY <1>3, <1>4, <1>6, <1>7 DEF TableOK
  <2>3. ASSUME NEW q \in DOMAIN U
        PROVE  \/ \E c \in Interfaces(n) : Network[c] = q /\ U[q] = Local(c)
               \/ \E b \in RIPNeighbours(n) :
                     U[q] = Static(b) \/ \E k \in 0 .. Infinity : U[q] = RIP(b, k)
    <3>1. CASE q = p
      BY <1>1, <1>5, <3>1
    <3>2. CASE q # p
      BY <1>3, <1>4, <1>6, <3>2 DEF TableOK
    <3> QED BY <3>1, <3>2
  <2> QED BY <1>3, <2>1, <2>2, <2>3 DEF TableOK
<1>9. ASSUME NEW r \in Nodes PROVE TableOK(r, ForwardingTable'[r])
  <2>1. CASE r = n
    BY <1>1, <1>2, <1>8, <2>1 DEF TablesOK
  <2>2. CASE r # n
    <3>1. ForwardingTable'[r] = ForwardingTable[r]
      BY <1>2, <2>2 DEF TablesOK
    <3> QED BY <3>1 DEF TablesOK
  <2> QED BY <2>1, <2>2
<1>10. ForwardingTable' = [r \in Nodes |-> ForwardingTable'[r]]
  BY <1>2 DEF TablesOK
<1> QED BY <1>9, <1>10 DEF TablesOK

-----------------------------------------------------------------------------
(* Packets *)

\* One packet changes.
LEMMA OneChanges ==
    ASSUME PacketsOK, NEW i \in Packets, NEW pkt, PacketOK(pkt), packet' = [packet EXCEPT ![i] = pkt]
    PROVE  PacketsOK'
<1>1. \A j \in Packets : packet'[j] = IF j = i THEN pkt ELSE packet[j]
  BY DEF PacketsOK
<1>2. packet' = [j \in Packets |-> packet'[j]]
  BY DEF PacketsOK
<1>3. \A j \in Packets : PacketOK(packet'[j])
  BY <1>1 DEF PacketsOK
<1> QED BY <1>2, <1>3 DEF PacketsOK, PacketOK, OnItsWay, Arrived, Valid, Opposed

\* Place keeps the header.
LEMMA PlaceResult ==
    ASSUME PacketsOK, NEW i \in Packets, NEW where, NEW at
    PROVE  /\ packet[i] \in Packet
           /\ Place(i, where, at) = [packet EXCEPT ![i] = [where |-> where, at |-> at, hdr |-> packet[i].hdr]]
BY DEF PacketsOK, PacketOK, Place

LEMMA DropOK ==
    ASSUME PacketsOK, NEW i \in Packets, Drop(i)
    PROVE  PacketsOK'
<1> DEFINE pkt == [where |-> "dropped", at |-> packet[i].at, hdr |-> packet[i].hdr]
<1>1. packet[i] \in Packet /\ packet' = [packet EXCEPT ![i] = pkt]
  BY PlaceResult DEF Drop
<1>2. PacketOK(pkt)
  BY <1>1 DEF PacketOK, Packet
<1> QED BY <1>1, <1>2, OneChanges

\* A packet leaves interface a for its neighbour b, or is dropped.
LEMMA SendOK ==
    ASSUME PacketsOK, NEW i \in Packets, NEW a \in Addrs, NEW b \in Addrs, NEW hdr \in Header,
           OnItsWay([where |-> "link", at |-> b, hdr |-> hdr]), LinkLayerSend(i, a, b, hdr)
    PROVE  PacketsOK'
<1> DEFINE pkt == [where |-> "link", at |-> b, hdr |-> hdr]
<1>1. CASE up[a]
  <2>1. packet' = [packet EXCEPT ![i] = pkt]
    BY <1>1 DEF LinkLayerSend
  <2>2. pkt \in Packet
    BY DEF Packet, SomeAddr
  <2>3. PacketOK(pkt)
    BY <2>2 DEF PacketOK
  <2> QED BY <2>1, <2>3, OneChanges
<1>2. CASE ~up[a]
  BY <1>2, DropOK DEF LinkLayerSend
<1> QED BY <1>1, <1>2

\* SerializePacket computes the checksum of the header it writes.
LEMMA SerializedIsValid ==
    ASSUME NEW src \in Addrs, NEW dst \in Addrs, NEW ttl \in 1 .. TTLNew
    PROVE  /\ SerializePacket(src, dst, ttl) \in Header
           /\ Valid(SerializePacket(src, dst, ttl))
           /\ SerializePacket(src, dst, ttl).src = src
           /\ SerializePacket(src, dst, ttl).dst = dst
<1>1. ttl \in 0 .. TTLNew /\ ttl > 0
  BY ForwardingAssumption
<1> QED BY <1>1 DEF SerializePacket, ComputeChecksum, Header, SomeAddr, Valid

\* The match that a packet is sent to is a neighbour on the interface it leaves by.
LEMMA SendableResult ==
    ASSUME TablesOK, NEW n \in Nodes, NEW dest \in Addrs, NEW m \in LongestPrefixMatch(n, dest), Sendable(m)
    PROVE  /\ m.entry.InterfaceName \in Interfaces(n) /\ m.entry.InterfaceName \in Addrs
           /\ m.dest \in Addrs /\ Network[m.dest] = Network[m.entry.InterfaceName]
<1>1. PICK a \in Interfaces(n) : m.entry = Local(a)
  BY MatchResult
<1>2. m.entry.InterfaceName = a /\ a \in Addrs
  BY <1>1 DEF Local, Interfaces
<1> QED BY <1>2 DEF Sendable, Neighbours

LEMMA SendIPOK ==
    ASSUME ForwardingInv, NEW i \in Packets, NEW n \in Senders, NEW dst \in Destinations, SendIP(i, n, dst)
    PROVE  PacketsOK'
<1>1. PacketsOK /\ TablesOK /\ n \in Nodes /\ dst \in Addrs
  BY ForwardingAssumption DEF ForwardingInv
<1>2. CASE Drop(i)
  BY <1>1, <1>2, DropOK
<1>3. ASSUME NEW m \in LongestPrefixMatch(n, dst), Sendable(m),
             LinkLayerSend(i, m.entry.InterfaceName, m.dest,
                           SerializePacket(m.entry.InterfaceName, dst, TTLNew))
      PROVE  PacketsOK'
  <2> DEFINE a == m.entry.InterfaceName
             hdr == SerializePacket(a, dst, TTLNew)
  <2>1. a \in Addrs /\ m.dest \in Addrs /\ Network[m.dest] = Network[a]
    BY <1>1, <1>3, SendableResult
  <2>2. TTLNew \in 1 .. TTLNew
    BY ForwardingAssumption
  <2>3. hdr \in Header /\ Valid(hdr) /\ hdr.src = a /\ hdr.dst = dst
    BY <1>1, <2>1, <2>2, SerializedIsValid
  <2> HIDE DEF hdr
  <2>4. OnItsWay([where |-> "link", at |-> m.dest, hdr |-> hdr])
    BY <1>1, <2>1, <2>3 DEF OnItsWay
  <2>5. LinkLayerSend(i, a, m.dest, hdr)
    BY <1>3 DEF hdr
  <2> QED BY <1>1, <2>1, <2>3, <2>4, <2>5, SendOK
<1> QED BY <1>2, <1>3 DEF SendIP

LEMMA ListenOK ==
    ASSUME ForwardingInv, NEW i \in Packets, LinkLayerListen(i)
    PROVE  PacketsOK'
<1> DEFINE pkt == [where |-> "node", at |-> packet[i].at, hdr |-> packet[i].hdr]
<1>1. PacketsOK
  BY DEF ForwardingInv
<1>2. CASE up[packet[i].at]
  <2>1. packet[i] \in Packet /\ packet' = [packet EXCEPT ![i] = pkt]
    BY <1>1, <1>2, PlaceResult DEF LinkLayerListen
  <2>2. OnItsWay(packet[i])
    BY <1>1 DEF PacketsOK, PacketOK, LinkLayerListen
  <2>3. pkt \in Packet
    BY <2>1 DEF Packet
  <2>4. PacketOK(pkt)
    BY <2>2, <2>3 DEF PacketOK, OnItsWay
  <2> QED BY <1>1, <2>1, <2>4, OneChanges
<1>3. CASE ~up[packet[i].at]
  BY <1>1, <1>3, DropOK DEF LinkLayerListen
<1> QED BY <1>2, <1>3

\* What the filter lets through is not between stakeholders.
LEMMA FilterComplete ==
    ASSUME NEW hdr, ~SRCFilter(hdr)
    PROVE  ~Opposed(hdr.src, hdr.dst)
BY DEF SRCFilter, Opposed

LEMMA RunOK ==
    ASSUME ForwardingInv, NEW i \in Packets, RunIPLayer(i)
    PROVE  PacketsOK' /\ alive' = alive
<1> DEFINE n == Owner[packet[i].at]
           hdr == packet[i].hdr
<1>1. PacketsOK /\ TablesOK /\ packet[i] \in Packet /\ OnItsWay(packet[i])
  BY DEF ForwardingInv, PacketsOK, PacketOK, RunIPLayer
<1>2. Valid(hdr) /\ hdr \in Header /\ hdr.src \in Addrs /\ hdr.dst \in Addrs /\ n \in Nodes
      /\ packet[i].at \in Addrs /\ hdr.dst \in Destinations
  BY <1>1, ForwardingAssumption DEF OnItsWay, Packet
<1>3. alive' = alive
  BY <1>2 DEF RunIPLayer
<1>4. CASE hdr.dst \in Interfaces(n)
  <2> DEFINE pkt == [where |-> "delivered", at |-> hdr.dst, hdr |-> hdr]
  <2>1. packet' = [packet EXCEPT ![i] = pkt]
    BY <1>1, <1>2, <1>4, PlaceResult DEF RunIPLayer
  <2>2. Owner[hdr.dst] = n /\ packet[i].at \in Interfaces(n)
    BY <1>2, <1>4 DEF Interfaces
  <2>3. Arrived(pkt)
    BY <1>1, <1>2, <2>2 DEF Arrived, OnItsWay
  <2>4. pkt \in Packet
    BY <1>2 DEF Packet, SomeAddr
  <2>5. PacketOK(pkt)
    BY <2>3, <2>4 DEF PacketOK
  <2> QED BY <1>1, <1>3, <2>1, <2>5, OneChanges
<1>5. CASE hdr.dst \notin Interfaces(n)
  <2>1. Forward(i, n, hdr)
    BY <1>2, <1>5 DEF RunIPLayer
  <2>2. CASE Drop(i)
    BY <1>1, <1>3, <2>2, DropOK
  <2>3. ASSUME NEW m \in NextHops(n, hdr),
               LinkLayerSend(i, m.entry.InterfaceName, m.dest,
                             SerializePacket(hdr.src, hdr.dst, DecrementTTL(hdr.ttl)))
        PROVE  PacketsOK'
    <3> DEFINE new == SerializePacket(hdr.src, hdr.dst, DecrementTTL(hdr.ttl))
    <3>1. /\ ~SRCFilter(hdr) /\ ~(DecrementTTL(hdr.ttl) <= 0)
          /\ m \in LongestPrefixMatch(n, hdr.dst) /\ Sendable(m)
      BY <2>3 DEF NextHops
    <3>2. DecrementTTL(hdr.ttl) \in 1 .. TTLNew
      BY <1>2, <3>1, ForwardingAssumption DEF Header, DecrementTTL
    <3>3. new \in Header /\ Valid(new) /\ new.src = hdr.src /\ new.dst = hdr.dst
      BY <1>2, <3>2, SerializedIsValid
    <3>4. m.entry.InterfaceName \in Addrs /\ m.dest \in Addrs
      BY <1>1, <1>2, <3>1, SendableResult
    <3>5. ~Opposed(hdr.src, hdr.dst)
      BY <3>1, FilterComplete
    <3> HIDE DEF new
    <3>6. OnItsWay([where |-> "link", at |-> m.dest, hdr |-> new])
      BY <1>2, <3>3, <3>4, <3>5 DEF OnItsWay
    <3>7. LinkLayerSend(i, m.entry.InterfaceName, m.dest, new)
      BY <2>3 DEF new
    <3> QED BY <1>1, <3>3, <3>4, <3>6, <3>7, SendOK
  <2> QED BY <1>3, <2>1, <2>2, <2>3 DEF Forward
<1> QED BY <1>4, <1>5

-----------------------------------------------------------------------------
(* Theorems *)

\* The initial state: every table is right and no packet has been sent.
LEMMA InitInv == Init => ForwardingInv
<1> SUFFICES ASSUME Init PROVE ForwardingInv
  OBVIOUS
<1>1. TablesOK
  BY InitTableOK DEF Init, TablesOK
<1>2. NoHeader \in Header
  BY ForwardingAssumption DEF NoHeader, Header, SomeAddr
<1>3. PacketOK([where |-> "new", at |-> NoAddr, hdr |-> NoHeader])
  BY <1>2 DEF PacketOK, Packet, SomeAddr
<1>4. PacketsOK
  BY <1>3 DEF Init, PacketsOK
<1> QED BY <1>1, <1>4, ForwardingAssumption DEF Init, ForwardingInv

\* Every step keeps the invariant.
LEMMA StepInv == ForwardingInv /\ [Next]_vars => ForwardingInv'
<1> SUFFICES ASSUME ForwardingInv, [Next]_vars PROVE ForwardingInv'
  OBVIOUS
<1> USE DEF ForwardingInv
<1>1. ASSUME NEW i \in Packets, NEW n \in Senders, NEW dst \in Destinations, SendIP(i, n, dst)
      PROVE  ForwardingInv'
  <2>1. PacketsOK'
    BY <1>1, SendIPOK
  <2>2. UNCHANGED <<ForwardingTable, up, alive, faults>>
    BY <1>1 DEF SendIP
  <2> QED BY <2>1, <2>2 DEF TablesOK, TableOK
<1>2. ASSUME NEW i \in Packets, LinkLayerListen(i) PROVE ForwardingInv'
  <2>1. PacketsOK'
    BY <1>2, ListenOK
  <2>2. UNCHANGED <<ForwardingTable, up, alive, faults>>
    BY <1>2 DEF LinkLayerListen
  <2> QED BY <2>1, <2>2 DEF TablesOK, TableOK
<1>3. ASSUME NEW i \in Packets, RunIPLayer(i) PROVE ForwardingInv'
  <2>1. PacketsOK' /\ alive' = alive
    BY <1>3, RunOK
  <2>2. UNCHANGED <<ForwardingTable, up, faults>>
    BY <1>3 DEF RunIPLayer
  <2> QED BY <2>1, <2>2 DEF TablesOK, TableOK
<1>4. ASSUME NEW i \in Packets, Lose(i) PROVE ForwardingInv'
  <2>1. PacketsOK'
    BY <1>4, DropOK DEF Lose
  <2>2. UNCHANGED <<ForwardingTable, up, alive>> /\ faults' \in 0 .. MaxFaults
    BY <1>4, ForwardingAssumption DEF Lose
  <2> QED BY <2>1, <2>2 DEF TablesOK, TableOK
<1>5. ASSUME NEW n \in Routers, NEW p \in Announced, NEW cost \in {1, Infinity},
             NEW a \in RIPNeighbours(n), RouteChanges(n, a, p, cost)
      PROVE  ForwardingInv'
  <2>1. TablesOK'
    BY <1>5, RouteChangeOK
  <2>2. UNCHANGED <<up, packet, alive>> /\ faults' \in 0 .. MaxFaults
    BY <1>5, ForwardingAssumption DEF RouteChanges
  <2> QED BY <2>1, <2>2 DEF PacketsOK, PacketOK, OnItsWay, Arrived, Valid, Opposed
<1>6. ASSUME NEW a \in Addrs, Switch(a) PROVE ForwardingInv'
  <2>1. up' \in [Addrs -> BOOLEAN]
    BY <1>6 DEF Switch, IFUp, IFDown
  <2>2. UNCHANGED <<ForwardingTable, packet, alive>> /\ faults' \in 0 .. MaxFaults
    BY <1>6, ForwardingAssumption DEF Switch
  <2> QED BY <2>1, <2>2 DEF TablesOK, TableOK, PacketsOK, PacketOK, OnItsWay, Arrived, Valid, Opposed
<1>7. CASE UNCHANGED vars
  BY <1>7 DEF vars, TablesOK, TableOK, PacketsOK, PacketOK, OnItsWay, Arrived, Valid, Opposed
<1> QED BY <1>1, <1>2, <1>3, <1>4, <1>5, <1>6, <1>7 DEF Next

\* ForwardingInv holds in every state of ipStack and linkLayer on all nodes.
THEOREM ForwardingInvariant == Spec => []ForwardingInv
BY InitInv, StepInv, PTL DEF Spec

\* Types: tables, packets and flags have the form that TypeOK gives them.
THEOREM ForwardingTypeCorrect == Spec => []TypeOK
<1>1. ForwardingInv => TypeOK
  <2> SUFFICES ASSUME ForwardingInv PROVE TypeOK
    OBVIOUS
  <2>1. \A n \in Nodes : /\ DOMAIN ForwardingTable[n] \subseteq Prefixes
                         /\ \A p \in DOMAIN ForwardingTable[n] : ForwardingTable[n][p] \in FwdEntry
    BY EntryType DEF ForwardingInv, TablesOK, TableOK
  <2>2. ASSUME NEW i \in Packets
        PROVE  /\ packet[i].where \in {"new", "link", "node", "delivered", "dropped"}
               /\ packet[i].where \in {"link", "node", "delivered"} =>
                     packet[i].at \in Addrs /\ packet[i].hdr.dst \in Destinations
               /\ packet[i].hdr.ttl \in 0 .. TTLNew
    <3>1. PacketOK(packet[i]) /\ packet[i] \in Packet
      BY DEF ForwardingInv, PacketsOK, PacketOK
    <3>2. packet[i].hdr \in Header
      BY <3>1 DEF Packet
    <3> QED BY <3>1, <3>2 DEF PacketOK, OnItsWay, Arrived, Packet, Header
  <2> QED BY <2>1, <2>2 DEF TypeOK, ForwardingInv
<1> QED BY <1>1, ForwardingInvariant, PTL

\* LongestPrefixMatch never needs a third round and never returns an entry without
\* an interface, whatever RIP stores within the address plan.
THEOREM MatchCorrect == Spec => []MatchIsLocal
<1>1. ForwardingInv => MatchIsLocal
  <2> SUFFICES ASSUME ForwardingInv, NEW n \in Nodes, NEW dest \in Addrs,
                      NEW m \in LongestPrefixMatch(n, dest)
               PROVE  m.entry.Type = "Local" /\ m.dest \in Contains[Network[m.entry.InterfaceName]]
    BY DEF MatchIsLocal
  <2>1. PICK a \in Interfaces(n) : m.entry = Local(a) /\ m.dest \in Contains[Network[a]]
    BY MatchResult DEF ForwardingInv
  <2> QED BY <2>1 DEF Local
<1> QED BY <1>1, ForwardingInvariant, PTL

\* RunIPLayer never dereferences the nil header of an invalid packet.
THEOREM NobodyPanicsCorrect == Spec => []NobodyPanics
<1>1. ForwardingInv => NobodyPanics
  BY DEF ForwardingInv, NobodyPanics
<1> QED BY <1>1, ForwardingInvariant, PTL

\* The filter of ipForwarding keeps stakeholders apart on every route.
THEOREM FilterCorrect == Spec => []FilteredStays
<1>1. ForwardingInv => FilteredStays
  BY DEF ForwardingInv, PacketsOK, PacketOK, Arrived, FilteredStays
<1> QED BY <1>1, ForwardingInvariant, PTL

=============================================================================
