----------------------------- MODULE RIPProofs -----------------------------
(***************************************************************************)
(* Theorems about RIP, for any network of routers and prefixes, any        *)
(* Infinity and RipTimeout, any interfaces switched and messages lost:     *)
(* type correctness of tables and messages, and that a route through a     *)
(* neighbour that cannot be heard goes offline.                            *)
(***************************************************************************)
EXTENDS RIP, SequenceTheorems, TLAPS

-----------------------------------------------------------------------------
(* The inductive invariant *)

RipEntries == UNION {[D -> 0 .. Infinity] : D \in SUBSET Prefixes}
Messages == {Request} \cup {Response(f) : f \in RipEntries}

\* What TypeOK says of one entry and of one table, as values.
EntryOK(r, p, e) ==
    /\ e \in FwdEntry
    /\ IF p \in LocalPrefixes[r]
       THEN e.Type = "Local" /\ e.Cost = 0
       ELSE e.Type = "RIP" /\ e.Cost > 0 /\ e.NextHop \in Neighbors[r]

TableOK(r, t) ==
    /\ LocalPrefixes[r] \subseteq DOMAIN t /\ DOMAIN t \subseteq Prefixes
    /\ \A p \in DOMAIN t : EntryOK(r, p, t[p])

TablesInv == DOMAIN ForwardingTable = Routers /\ \A r \in Routers : TableOK(r, ForwardingTable[r])
NetInv == net \in [Links -> Seq(Messages)] /\ sending \in [Links -> SUBSET RipEntries]
LinkInv ==
    /\ up \in [Links -> BOOLEAN] /\ silent \in [Links -> 0 .. RipTimeout + 1]
    /\ running \in [Routers -> BOOLEAN] /\ due \in [Routers -> BOOLEAN]
    /\ faults \in 0 .. MaxFaults

\* After a period of silence nothing can be heard before an interface comes up:
\* the router's own is down, or the neighbour's is and nothing is on its way.
SilenceInv ==
    \A l \in Links : silent[l] > 0 => ~up[l] \/ (~up[Reverse(l)] /\ net[Reverse(l)] = <<>>)

\* A route in use is at least as old as the silence of its next hop.
Confirmed(e, r) ==
    e.Type = "RIP" /\ e.Cost < Infinity => silent[<<r, e.NextHop>>] <= e.LastUpdated
AgesInv ==
    \A r \in Routers : \A p \in DOMAIN ForwardingTable[r] : Confirmed(ForwardingTable[r][p], r)

RIPInv == TablesInv /\ NetInv /\ LinkInv /\ SilenceInv /\ AgesInv

-----------------------------------------------------------------------------
(* Links, messages and tables *)

LEMMA LinkFacts ==
    /\ \A l \in Links : /\ Reverse(l) \in Links /\ Reverse(Reverse(l)) = l
                        /\ l[1] \in Routers /\ l[2] \in Routers
                        /\ l[2] \in Neighbors[l[1]] /\ l[1] \in Neighbors[l[2]]
                        /\ l = <<l[1], l[2]>>
    /\ \A r \in Routers : \A n \in Neighbors[r] : n \in Routers /\ <<r, n>> \in Links
BY RouterAssumption DEF Links, Reverse

LEMMA RipEntriesChar ==
    ASSUME NEW f
    PROVE  /\ f \in RipEntries => IsRipEntries(f)
           /\ f \in RipEntries => DOMAIN f \subseteq Prefixes /\ \A p \in DOMAIN f : f[p] \in 0 .. Infinity
BY DEF RipEntries, IsRipEntries

\* What is on its way is a message of the protocol.
LEMMA MessagesChar ==
    ASSUME NEW m \in Messages
    PROVE  /\ IsRipMessage(m)
           /\ m.Command = "RIPResponse" => m.Entries \in RipEntries
<1>1. CASE m = Request
  BY <1>1 DEF IsRipMessage, Request
<1>2. CASE \E f \in RipEntries : m = Response(f)
  BY <1>2, RipEntriesChar DEF IsRipMessage, Response
<1>. QED  BY <1>1, <1>2 DEF Messages

\* sendPeriodicUpdate sends a cost of every prefix of the table.
LEMMA PeriodicEntriesTyped ==
    ASSUME TablesInv, NEW r \in Routers, NEW n \in Neighbors[r]
    PROVE  Response(PeriodicEntries(r, n)) \in Messages
<1>1. DOMAIN ForwardingTable[r] \in SUBSET Prefixes
  BY DEF TablesInv, TableOK
<1>2. \A p \in DOMAIN ForwardingTable[r] : ForwardingTable[r][p].Cost \in 0 .. Infinity
  BY DEF TablesInv, TableOK, EntryOK, FwdEntry
<1>3. PeriodicEntries(r, n) \in [DOMAIN ForwardingTable[r] -> 0 .. Infinity]
  BY <1>2, NumberAssumption DEF PeriodicEntries
<1>. QED  BY <1>1, <1>3 DEF Messages, RipEntries

\* What is passed on is part of what was received.
LEMMA ChangedEntriesTyped ==
    ASSUME NEW t, NEW n, NEW entries \in RipEntries
    PROVE  Response(ChangedEntries(t, n, entries)) \in Messages
<1>. DEFINE D == {q \in DOMAIN entries : Replaces(t, q, n, CostThrough(entries[q]))}
<1>1. D \in SUBSET Prefixes /\ \A p \in D : entries[p] \in 0 .. Infinity
  BY RipEntriesChar
<1>2. ChangedEntries(t, n, entries) \in [D -> 0 .. Infinity]
  BY <1>1 DEF ChangedEntries
<1>. QED  BY <1>1, <1>2 DEF Messages, RipEntries

\* Sent appends only to links whose interface is up.
LEMMA SentKeepsNet ==
    ASSUME NetInv, NEW r \in Routers, NEW message,
           \A n \in Neighbors[r] : message[n] \in Messages
    PROVE  /\ Sent(r, message) \in [Links -> Seq(Messages)]
           /\ \A l \in Links : ~up[l] => Sent(r, message)[l] = net[l]
<1>1. ASSUME NEW l \in Links
      PROVE  /\ Sent(r, message)[l] \in Seq(Messages)
             /\ ~up[l] => Sent(r, message)[l] = net[l]
  <2>1. net[l] \in Seq(Messages)
    BY DEF NetInv
  <2>2. l[1] = r => Append(net[l], message[l[2]]) \in Seq(Messages)
    BY <2>1, LinkFacts
  <2>. QED  BY <2>1, <2>2 DEF Sent
<1>. QED  BY <1>1 DEF Sent

\* An entry that HandleRipMessage leaves or makes is in order.
LEMMA UpdatedTyped ==
    ASSUME NEW r \in Routers, NEW n \in Neighbors[r], NEW t, TableOK(r, t),
           NEW entries \in RipEntries
    PROVE  TableOK(r, Updated(t, n, entries))
<1>. DEFINE u == Updated(t, n, entries)
<1>1. DOMAIN u = DOMAIN t \cup DOMAIN entries
  BY DEF Updated
<1>2. n \in Routers
  BY LinkFacts
<1>3. ASSUME NEW p \in DOMAIN u
      PROVE  EntryOK(r, p, u[p])
  <2>1. CASE u[p] = t[p] /\ p \in DOMAIN t
    BY <2>1 DEF TableOK
  <2>2. CASE /\ p \in DOMAIN entries /\ Replaces(t, p, n, CostThrough(entries[p]))
             /\ u[p] = UpdateForwardingTable(n, CostThrough(entries[p]))
    <3>1. CostThrough(entries[p]) \in 0 .. Infinity /\ CostThrough(entries[p]) > 0
      BY <2>2, RipEntriesChar, NumberAssumption DEF CostThrough
    <3>2. p \notin LocalPrefixes[r]
      <4>1. CASE p \notin DOMAIN t
        BY <4>1 DEF TableOK
      <4>2. CASE p \in DOMAIN t /\ t[p].Type = "RIP"
        BY <4>2 DEF TableOK, EntryOK
      <4>. QED  BY <2>2, <4>1, <4>2 DEF Replaces
    <3>3. UpdateForwardingTable(n, CostThrough(entries[p])) \in FwdEntry
      BY <1>2, <3>1, NumberAssumption DEF UpdateForwardingTable, FwdEntry
    <3>. QED  BY <2>2, <3>1, <3>2, <3>3 DEF EntryOK, UpdateForwardingTable
  <2>3. CASE p \in DOMAIN t /\ u[p] = [t[p] EXCEPT !.LastUpdated = 0]
    <3>1. EntryOK(r, p, t[p])
      BY <2>3 DEF TableOK
    <3>. QED  BY <2>3, <3>1, NumberAssumption DEF EntryOK, FwdEntry
  <2>. QED  BY <1>1, <2>1, <2>2, <2>3 DEF Updated, Refreshes, Replaces
<1>. QED  BY <1>1, <1>3, RipEntriesChar DEF TableOK

-----------------------------------------------------------------------------
(* The steps *)

LEMMA SilenceKept ==
    ASSUME SilenceInv, UNCHANGED <<up, silent>>,
           \A l \in Links : ~up[l] /\ net[l] = <<>> => net'[l] = <<>>
    PROVE  SilenceInv'
BY LinkFacts DEF SilenceInv

LEMMA AgesKept ==
    ASSUME AgesInv, UNCHANGED <<ForwardingTable, silent>>
    PROVE  AgesInv'
BY DEF AgesInv, Confirmed

\* UpdateLoop asks for the neighbours' routes, or sends its own.
LEMMA UpdateLoopStep ==
    ASSUME RIPInv, NEW r \in Routers, Start(r) \/ PeriodicUpdate(r)
    PROVE  RIPInv'
<1>1. /\ UNCHANGED <<ForwardingTable, up, sending, silent, faults>>
      /\ running' \in [Routers -> BOOLEAN] /\ due' \in [Routers -> BOOLEAN]
  BY DEF Start, PeriodicUpdate, RIPInv, LinkInv
<1>2. PICK message : /\ net' = Sent(r, message)
                     /\ \A n \in Neighbors[r] : message[n] \in Messages
  <2>1. CASE Start(r)
    <3>. DEFINE message == [n \in Neighbors[r] |-> Request]
    <3>1. net' = Sent(r, message) /\ \A n \in Neighbors[r] : message[n] \in Messages
      BY <2>1 DEF Start, Messages
    <3>. QED  BY <3>1
  <2>2. CASE PeriodicUpdate(r)
    <3>. DEFINE message == [n \in Neighbors[r] |-> Response(PeriodicEntries(r, n))]
    <3>1. net' = Sent(r, message) /\ \A n \in Neighbors[r] : message[n] \in Messages
      BY <2>2, PeriodicEntriesTyped DEF PeriodicUpdate, sendPeriodicUpdate, RIPInv
    <3>. QED  BY <3>1
  <2>. QED  BY <2>1, <2>2
<1>3. net' \in [Links -> Seq(Messages)] /\ \A l \in Links : ~up[l] => net'[l] = net[l]
  BY <1>2, SentKeepsNet DEF RIPInv
<1>4. NetInv' /\ TablesInv' /\ LinkInv'
  BY <1>1, <1>3 DEF RIPInv, NetInv, TablesInv, LinkInv
<1>5. SilenceInv' /\ AgesInv'
  BY <1>1, <1>3, SilenceKept, AgesKept DEF RIPInv
<1>. QED  BY <1>4, <1>5 DEF RIPInv

\* CheckForTimeouts: the routes only go offline.
LEMMA TimeoutStep ==
    ASSUME RIPInv, NEW r \in Routers, CheckForTimeouts(r)
    PROVE  RIPInv'
<1>. DEFINE t == ForwardingTable[r]
            u == [p \in DOMAIN t |-> IF p \in TimedOut(r) THEN [t[p] EXCEPT !.Cost = Infinity] ELSE t[p]]
<1>1. UNCHANGED <<up, running, due, net, silent, faults>>
  BY DEF CheckForTimeouts
<1>2. ForwardingTable' = [ForwardingTable EXCEPT ![r] = u]
  BY DEF CheckForTimeouts
<1>3. DOMAIN ForwardingTable = Routers /\ TableOK(r, t)
  BY DEF RIPInv, TablesInv
<1>4. TableOK(r, u)
  <2>1. ASSUME NEW p \in TimedOut(r)
        PROVE  EntryOK(r, p, [t[p] EXCEPT !.Cost = Infinity])
    <3>1. EntryOK(r, p, t[p]) /\ t[p].Type = "RIP"
      BY <1>3 DEF TableOK, TimedOut
    <3>. QED  BY <3>1, NumberAssumption DEF EntryOK, FwdEntry
  <2>. QED  BY <1>3, <2>1 DEF TableOK
<1>5. TablesInv'
  BY <1>2, <1>3, <1>4 DEF RIPInv, TablesInv
<1>6. NetInv'
  <2>1. TimedOut(r) \in SUBSET Prefixes
    BY <1>3 DEF TimedOut, TableOK
  <2>2. [p \in TimedOut(r) |-> Infinity] \in RipEntries
    BY <2>1, NumberAssumption DEF RipEntries
  <2>3. sending' = [l \in Links |->
            IF l[1] = r THEN sending[l] \cup {[p \in TimedOut(r) |-> Infinity]} ELSE sending[l]]
    BY DEF CheckForTimeouts
  <2>. QED  BY <1>1, <2>2, <2>3 DEF RIPInv, NetInv
<1>7. AgesInv'
  <2>. SUFFICES ASSUME NEW s \in Routers, NEW p \in DOMAIN ForwardingTable'[s]
                PROVE  Confirmed(ForwardingTable[s][p], s)'
    BY DEF AgesInv
  <2>1. CASE s # r
    BY <1>1, <1>2, <1>3, <2>1 DEF RIPInv, AgesInv, Confirmed
  <2>2. CASE s = r
    <3>1. p \in DOMAIN t /\ ForwardingTable'[s][p] = u[p]
      BY <1>2, <1>3, <2>2
    <3>2. Confirmed(t[p], r) /\ EntryOK(r, p, t[p])
      BY <1>3, <3>1 DEF RIPInv, AgesInv, TableOK
    <3>3. u[p].Cost < Infinity => u[p] = t[p]
      BY <3>1, <3>2, NumberAssumption DEF EntryOK, FwdEntry
    <3>. QED  BY <1>1, <2>2, <3>1, <3>2, <3>3 DEF Confirmed
  <2>. QED  BY <2>1, <2>2
<1>8. LinkInv' /\ SilenceInv'
  BY <1>1, SilenceKept DEF RIPInv, LinkInv
<1>. QED  BY <1>5, <1>6, <1>7, <1>8 DEF RIPInv

LEMMA SendTimedOutStep ==
    ASSUME RIPInv, NEW l \in Links, SendTimedOut(l)
    PROVE  RIPInv'
<1>1. PICK entries \in sending[l] :
         /\ sending' = [sending EXCEPT ![l] = @ \ {entries}]
         /\ net' = IF up[l] /\ running[l[2]]
                   THEN [net EXCEPT ![l] = Append(@, Response(entries))] ELSE net
         /\ UNCHANGED <<ForwardingTable, up, running, due, silent, faults>>
  BY DEF SendTimedOut
<1>2. net \in [Links -> Seq(Messages)] /\ sending \in [Links -> SUBSET RipEntries]
  BY DEF RIPInv, NetInv
<1>3. Append(net[l], Response(entries)) \in Seq(Messages)
  BY <1>2 DEF Messages
<1>4. NetInv' /\ \A k \in Links : ~up[k] => net'[k] = net[k]
  BY <1>1, <1>2, <1>3 DEF NetInv
<1>5. TablesInv' /\ LinkInv'
  BY <1>1 DEF RIPInv, TablesInv, LinkInv
<1>6. SilenceInv' /\ AgesInv'
  BY <1>1, <1>4, SilenceKept, AgesKept DEF RIPInv
<1>. QED  BY <1>4, <1>5, <1>6 DEF RIPInv

\* What is dropped, or lost, is the first message of a link.
LEMMA DropStep ==
    ASSUME RIPInv, NEW l \in Links, ListenDrops(l) \/ Lose(l)
    PROVE  RIPInv'
<1>1. /\ net[l] # <<>> /\ net' = [net EXCEPT ![l] = Tail(@)]
      /\ UNCHANGED <<ForwardingTable, up, running, due, sending, silent>>
  BY DEF ListenDrops, Lose
<1>2. net[l] \in Seq(Messages) /\ net \in [Links -> Seq(Messages)]
  BY DEF RIPInv, NetInv
<1>3. Tail(net[l]) \in Seq(Messages)
  BY <1>1, <1>2, HeadTailProperties
<1>4. NetInv'
  BY <1>1, <1>2, <1>3 DEF RIPInv, NetInv
<1>5. faults' \in 0 .. MaxFaults
  BY NumberAssumption DEF ListenDrops, Lose, RIPInv, LinkInv
<1>6. TablesInv' /\ LinkInv'
  BY <1>1, <1>5 DEF RIPInv, TablesInv, LinkInv
<1>7. SilenceInv' /\ AgesInv'
  BY <1>1, <1>2, SilenceKept, AgesKept DEF RIPInv
<1>. QED  BY <1>4, <1>6, <1>7 DEF RIPInv

\* HandleRipMessage for a request: the table is sent, and the request taken.
LEMMA RequestStep ==
    ASSUME RIPInv, NEW l \in Links, HandleRequest(l)
    PROVE  RIPInv'
<1>. DEFINE r == l[2]
            message == [n \in Neighbors[r] |-> Response(PeriodicEntries(r, n))]
            sent == Sent(r, message)
<1>1. /\ net[l] # <<>> /\ net' = [sent EXCEPT ![l] = Tail(sent[l])]
      /\ UNCHANGED <<ForwardingTable, up, running, due, sending, silent, faults>>
  BY DEF HandleRequest, sendPeriodicUpdate
<1>2. r \in Routers /\ \A n \in Neighbors[r] : message[n] \in Messages
  BY LinkFacts, PeriodicEntriesTyped DEF RIPInv
<1>3. sent \in [Links -> Seq(Messages)] /\ \A k \in Links : ~up[k] => sent[k] = net[k]
  BY <1>2, SentKeepsNet DEF RIPInv
<1>4. sent[l] # <<>>
  <2>1. net[l] \in Seq(Messages)
    BY DEF RIPInv, NetInv
  <2>. HIDE DEF message
  <2>2. sent[l] = net[l] \/ sent[l] = Append(net[l], message[l[2]])
    BY DEF Sent
  <2>. QED  BY <1>1, <2>1, <2>2
<1>. HIDE DEF sent
<1>5. Tail(sent[l]) \in Seq(Messages)
  BY <1>3, <1>4, HeadTailProperties
<1>6. NetInv'
  BY <1>1, <1>3, <1>5 DEF RIPInv, NetInv
<1>7. TablesInv' /\ LinkInv'
  BY <1>1 DEF RIPInv, TablesInv, LinkInv
<1>8. \A k \in Links : ~up[k] /\ net[k] = <<>> => net'[k] = <<>>
  BY <1>1, <1>3
<1>9. SilenceInv' /\ AgesInv'
  BY <1>1, <1>8, SilenceKept, AgesKept DEF RIPInv
<1>. QED  BY <1>6, <1>7, <1>9 DEF RIPInv

\* What a table says after a response: what it said, or what the sender says now.
LEMMA UpdatedEntries ==
    ASSUME NEW t, NEW n, NEW entries, NEW p \in DOMAIN Updated(t, n, entries)
    PROVE  LET e == Updated(t, n, entries)[p]
           IN  \/ p \in DOMAIN t /\ e = t[p]
               \/ e = UpdateForwardingTable(n, CostThrough(entries[p]))
               \/ p \in DOMAIN t /\ t[p].NextHop = n /\ e = [t[p] EXCEPT !.LastUpdated = 0]
BY DEF Updated, Refreshes, Replaces

\* HandleRipMessage for a response: what changes in the table comes from a neighbour
\* that is heard right now, so it has not been silent for a period.
LEMMA ResponseStep ==
    ASSUME RIPInv, NEW l \in Links, HandleResponse(l)
    PROVE  RIPInv'
<1>. DEFINE n == l[1]
            r == l[2]
            t == ForwardingTable[r]
            entries == Head(net[l]).Entries
            changed == ChangedEntries(t, n, entries)
            message == [k \in Neighbors[r] |-> Response(changed)]
            sent == IF DOMAIN changed # {} THEN Sent(r, message) ELSE net
<1>1. /\ net[l] # <<>> /\ up[Reverse(l)] /\ Head(net[l]).Command = "RIPResponse"
      /\ ForwardingTable' = [ForwardingTable EXCEPT ![r] = Updated(t, n, entries)]
      /\ net' = [sent EXCEPT ![l] = Tail(sent[l])]
      /\ UNCHANGED <<up, running, due, sending, silent, faults>>
  BY DEF HandleResponse, SendTriggeredUpdate
<1>2. r \in Routers /\ n \in Neighbors[r] /\ net[l] \in Seq(Messages) /\ l = <<n, r>>
      /\ net \in [Links -> Seq(Messages)]
  BY LinkFacts DEF RIPInv, NetInv
<1>3. Head(net[l]) \in Messages /\ entries \in RipEntries
  BY <1>1, <1>2, HeadTailProperties, MessagesChar
<1>4. DOMAIN ForwardingTable = Routers /\ TableOK(r, t)
  BY <1>2 DEF RIPInv, TablesInv
<1>5. \A k \in Neighbors[r] : message[k] \in Messages
  BY <1>3, ChangedEntriesTyped
<1>6. /\ sent \in [Links -> Seq(Messages)] /\ sent[l] # <<>>
      /\ \A k \in Links : ~up[k] => sent[k] = net[k]
  <2>. HIDE DEF message
  <2>1. /\ Sent(r, message) \in [Links -> Seq(Messages)]
        /\ \A k \in Links : ~up[k] => Sent(r, message)[k] = net[k]
    BY <1>2, <1>5, SentKeepsNet DEF RIPInv
  <2>2. Sent(r, message)[l] = net[l] \/ Sent(r, message)[l] = Append(net[l], message[l[2]])
    BY DEF Sent
  <2>3. Sent(r, message)[l] # <<>>
    BY <1>1, <1>2, <2>2
  <2>. QED  BY <1>1, <1>2, <2>1, <2>3
<1>7. NetInv'
  <2>. HIDE DEF sent
  <2>1. Tail(sent[l]) \in Seq(Messages)
    BY <1>6, HeadTailProperties
  <2>. QED  BY <1>1, <1>6, <2>1 DEF RIPInv, NetInv
<1>8. TablesInv'
  <2>. HIDE DEF entries
  <2>1. TableOK(r, Updated(t, n, entries))
    BY <1>2, <1>3, <1>4, UpdatedTyped
  <2>. QED  BY <1>1, <1>4, <2>1 DEF RIPInv, TablesInv
<1>9. LinkInv'
  BY <1>1 DEF RIPInv, LinkInv
<1>10. SilenceInv'
  <2>. HIDE DEF sent
  <2>1. \A k \in Links : ~up[k] /\ net[k] = <<>> => net'[k] = <<>>
    BY <1>1, <1>6
  <2>. QED  BY <1>1, <2>1, SilenceKept DEF RIPInv
<1>11. silent[<<r, n>>] = 0
  <2>1. <<r, n>> = Reverse(l) /\ Reverse(l) \in Links /\ Reverse(Reverse(l)) = l
    BY LinkFacts DEF Reverse
  <2>2. silent[Reverse(l)] \in 0 .. RipTimeout + 1 /\ ~(silent[Reverse(l)] > 0)
    BY <1>1, <2>1 DEF RIPInv, SilenceInv, LinkInv
  <2>. QED  BY <2>1, <2>2, NumberAssumption
<1>12. AgesInv'
  <2>. HIDE DEF entries
  <2>. SUFFICES ASSUME NEW s \in Routers, NEW p \in DOMAIN ForwardingTable'[s]
                PROVE  Confirmed(ForwardingTable[s][p], s)'
    BY DEF AgesInv
  <2>1. CASE s # r
    BY <1>1, <1>4, <2>1 DEF RIPInv, AgesInv, Confirmed
  <2>2. CASE s = r
    <3>. DEFINE e == Updated(t, n, entries)[p]
    <3>1. p \in DOMAIN Updated(t, n, entries) /\ ForwardingTable'[s][p] = e
      BY <1>1, <1>4, <2>2
    <3>2. CASE p \in DOMAIN t /\ e = t[p]
      BY <1>1, <1>2, <2>2, <3>1, <3>2 DEF RIPInv, AgesInv, Confirmed
    <3>3. CASE e = UpdateForwardingTable(n, CostThrough(entries[p]))
      <4>1. e.NextHop = n /\ e.LastUpdated = 0
        BY <3>3 DEF UpdateForwardingTable
      <4>. QED  BY <1>1, <1>11, <2>2, <3>1, <4>1, SMTT(30) DEF Confirmed
    <3>4. CASE p \in DOMAIN t /\ t[p].NextHop = n /\ e = [t[p] EXCEPT !.LastUpdated = 0]
      <4>1. t[p] \in FwdEntry
        BY <1>4, <3>4 DEF TableOK, EntryOK
      <4>2. e.NextHop = n /\ e.LastUpdated = 0
        BY <3>4, <4>1 DEF FwdEntry
      <4>. QED  BY <1>1, <1>11, <2>2, <3>1, <4>2, SMTT(30) DEF Confirmed
    <3>. QED  BY <3>1, <3>2, <3>3, <3>4, UpdatedEntries
  <2>. QED  BY <2>1, <2>2
<1>. QED  BY <1>7, <1>8, <1>9, <1>10, <1>12 DEF RIPInv

\* The down and up commands.  An interface that comes up hears its neighbour again
\* when the neighbour's is up or a message is still on its way.
LEMMA SwitchStep ==
    ASSUME RIPInv, NEW l \in Links, IFDown(l) \/ IFUp(l)
    PROVE  RIPInv'
<1>. /\ up \in [Links -> BOOLEAN] /\ silent \in [Links -> 0 .. RipTimeout + 1]
     /\ faults \in 0 .. MaxFaults
  BY DEF RIPInv, LinkInv
<1>1. UNCHANGED <<ForwardingTable, running, due, sending, net>>
  BY DEF IFDown, IFUp
<1>2. NetInv' /\ TablesInv'
  BY <1>1 DEF RIPInv, NetInv, TablesInv
<1>3. \A k \in Links : silent'[k] \in {0, silent[k]}
  BY DEF IFDown, IFUp
<1>4. silent' \in [Links -> 0 .. RipTimeout + 1] /\ up' \in [Links -> BOOLEAN]
      /\ faults' \in 0 .. MaxFaults
  <2>1. 0 \in 0 .. RipTimeout + 1
    BY NumberAssumption
  <2>2. faults' \in 0 .. MaxFaults /\ up' \in [Links -> BOOLEAN]
    <3>1. faults' = faults + 1 /\ faults < MaxFaults
      BY DEF IFDown, IFUp
    <3>2. up' \in [Links -> BOOLEAN]
      BY DEF IFDown, IFUp
    <3>. QED  BY <3>1, <3>2, NumberAssumption
  <2>3. silent' \in [Links -> 0 .. RipTimeout + 1]
    BY <2>1 DEF IFDown, IFUp
  <2>. QED  BY <2>2, <2>3
<1>5. LinkInv'
  BY <1>1, <1>4 DEF RIPInv, LinkInv
<1>6. SilenceInv'
  <2>. SUFFICES ASSUME NEW k \in Links, silent'[k] > 0
                PROVE  ~up'[k] \/ (~up'[Reverse(k)] /\ net'[Reverse(k)] = <<>>)
    BY DEF SilenceInv
  <2>1. ~up[k] \/ (~up[Reverse(k)] /\ net[Reverse(k)] = <<>>)
    BY <1>3 DEF RIPInv, SilenceInv
  <2>2. CASE IFDown(l)
    BY <1>1, <2>1, <2>2, LinkFacts DEF IFDown
  <2>3. CASE IFUp(l)
    <3>1. /\ up' = [up EXCEPT ![l] = TRUE] /\ silent'[k] # 0
          /\ k = l => ~up[Reverse(l)] /\ net[Reverse(l)] = <<>>
          /\ k = Reverse(l) => ~up[k]
      BY <2>3 DEF IFUp
    <3>2. k # Reverse(k) /\ Reverse(k) \in Links /\ (Reverse(k) = l => k = Reverse(l))
      BY LinkFacts, RouterAssumption DEF Reverse
    <3>. QED  BY <1>1, <2>1, <3>1, <3>2
  <2>. QED  BY <2>2, <2>3
<1>7. AgesInv'
  <2>. SUFFICES ASSUME NEW r \in Routers, NEW p \in DOMAIN ForwardingTable[r],
                       ForwardingTable[r][p].Type = "RIP", ForwardingTable[r][p].Cost < Infinity
                PROVE  silent'[<<r, ForwardingTable[r][p].NextHop>>] <= ForwardingTable[r][p].LastUpdated
    BY <1>1 DEF AgesInv, Confirmed
  <2>. DEFINE e == ForwardingTable[r][p]
              k == <<r, e.NextHop>>
  <2>1. silent[k] <= e.LastUpdated /\ EntryOK(r, p, e)
    BY DEF RIPInv, AgesInv, Confirmed, TablesInv, TableOK
  <2>2. k \in Links /\ e.LastUpdated \in Nat
    BY <2>1, LinkFacts, NumberAssumption DEF EntryOK, FwdEntry
  <2>3. silent'[k] \in {0, silent[k]}
    BY <1>3, <2>2
  <2>. HIDE DEF e, k
  <2>. QED  BY <2>1, <2>2, <2>3 DEF e, k
<1>. QED  BY <1>2, <1>5, <1>6, <1>7 DEF RIPInv

\* A period: nothing is on its way and no route in use has reached RipTimeout, so a
\* route grows as old as the silence of its next hop does.
LEMMA TickStep ==
    ASSUME RIPInv, Tick
    PROVE  RIPInv'
<1>1. UNCHANGED <<up, running, sending, net, faults>> /\ due' = running
  BY DEF Tick
<1>2. ForwardingTable' = [r \in Routers |->
          [p \in DOMAIN ForwardingTable[r] |->
              IF ForwardingTable[r][p].Type = "RIP"
              THEN [ForwardingTable[r][p] EXCEPT !.LastUpdated = UpTo(RipTimeout, @)]
              ELSE ForwardingTable[r][p]]]
  BY DEF Tick
<1>3. silent' = [l \in Links |->
          IF up[l] /\ up[Reverse(l)] THEN 0 ELSE UpTo(RipTimeout + 1, silent[l])]
  BY DEF Tick
<1>4. ASSUME NEW r \in Routers
      PROVE  /\ DOMAIN ForwardingTable'[r] = DOMAIN ForwardingTable[r]
             /\ TableOK(r, ForwardingTable'[r])
             /\ \A p \in DOMAIN ForwardingTable[r] :
                   Confirmed(ForwardingTable[r][p], r)'
  <2>1. DOMAIN ForwardingTable'[r] = DOMAIN ForwardingTable[r] /\ TableOK(r, ForwardingTable[r])
    BY <1>2 DEF RIPInv, TablesInv
  <2>2. ASSUME NEW p \in DOMAIN ForwardingTable[r]
        PROVE  EntryOK(r, p, ForwardingTable'[r][p]) /\ Confirmed(ForwardingTable[r][p], r)'
    <3>. DEFINE e == ForwardingTable[r][p]
    <3>1. EntryOK(r, p, e) /\ Confirmed(e, r)
      BY <2>1 DEF TableOK, RIPInv, AgesInv
    <3>2. e \in FwdEntry /\ e.LastUpdated \in 0 .. RipTimeout
      BY <3>1 DEF EntryOK, FwdEntry
    <3>3. CASE e.Type # "RIP"
      <4>1. ForwardingTable'[r][p] = e
        BY <1>2, <3>3
      <4>. QED  BY <3>1, <3>3, <4>1 DEF Confirmed
    <3>4. CASE e.Type = "RIP"
      <4>1. ForwardingTable'[r][p] = [e EXCEPT !.LastUpdated = UpTo(RipTimeout, @)]
        BY <1>2, <3>4
      <4>2. UpTo(RipTimeout, e.LastUpdated) \in 0 .. RipTimeout
        BY <3>2, NumberAssumption DEF UpTo
      <4>3. EntryOK(r, p, ForwardingTable'[r][p])
        <5>. HIDE DEF e
        <5>. QED  BY <3>1, <3>2, <4>1, <4>2 DEF EntryOK, FwdEntry
      <4>4. ASSUME e.Cost < Infinity
            PROVE  silent'[<<r, e.NextHop>>] <= UpTo(RipTimeout, e.LastUpdated)
        <5>. DEFINE k == <<r, e.NextHop>>
        <5>1. e.LastUpdated < RipTimeout
          BY <3>2, <3>4, <4>4, NumberAssumption DEF Tick, Settled, TimedOut
        <5>2. k \in Links /\ silent[k] <= e.LastUpdated
          BY <3>1, <3>4, <4>4, LinkFacts DEF EntryOK, Confirmed
        <5>3. silent[k] \in 0 .. RipTimeout + 1
          BY <5>2 DEF RIPInv, LinkInv
        <5>4. silent'[k] \in {0, UpTo(RipTimeout + 1, silent[k])}
          BY <1>3, <5>2
        <5>5. UpTo(RipTimeout + 1, silent[k]) = silent[k] + 1
              /\ UpTo(RipTimeout, e.LastUpdated) = e.LastUpdated + 1
          BY <3>2, <5>1, <5>2, <5>3, NumberAssumption DEF UpTo
        <5>. HIDE DEF e, k
        <5>. QED  BY <3>2, <5>2, <5>3, <5>4, <5>5, NumberAssumption DEF k
      <4>5. /\ ForwardingTable'[r][p].Cost = e.Cost /\ ForwardingTable'[r][p].NextHop = e.NextHop
            /\ ForwardingTable'[r][p].LastUpdated = UpTo(RipTimeout, e.LastUpdated)
        <5>. HIDE DEF e
        <5>. QED  BY <3>2, <4>1 DEF FwdEntry
      <4>. QED  BY <4>3, <4>4, <4>5 DEF Confirmed
    <3>. QED  BY <3>3, <3>4
  <2>3. TableOK(r, ForwardingTable'[r])
    BY <2>1, <2>2 DEF TableOK
  <2>. QED  BY <2>1, <2>2, <2>3
<1>5. TablesInv'
  BY <1>2, <1>4 DEF TablesInv
<1>6. AgesInv'
  BY <1>4 DEF AgesInv
<1>7. silent' \in [Links -> 0 .. RipTimeout + 1]
  BY <1>3, NumberAssumption DEF RIPInv, LinkInv, UpTo
<1>8. LinkInv' /\ NetInv'
  BY <1>1, <1>7 DEF RIPInv, LinkInv, NetInv
<1>9. SilenceInv'
  <2>. SUFFICES ASSUME NEW l \in Links, ~(up[l] /\ up[Reverse(l)])
                PROVE  ~up[l] \/ (~up[Reverse(l)] /\ net[Reverse(l)] = <<>>)
    BY <1>1, <1>3 DEF SilenceInv
  <2>. QED  BY LinkFacts DEF Tick, Settled
<1>. QED  BY <1>5, <1>6, <1>8, <1>9 DEF RIPInv

LEMMA RIPInit ==
    ASSUME Init
    PROVE  RIPInv
<1>1. TablesInv
  <2>1. ASSUME NEW r \in Routers
        PROVE  TableOK(r, LocalRoutes(r))
    BY RouterAssumption, NumberAssumption DEF TableOK, LocalRoutes, EntryOK, FwdEntry
  <2>. QED  BY <2>1 DEF Init, TablesInv
<1>2. NetInv
  BY DEF Init, NetInv
<1>3. LinkInv /\ SilenceInv
  BY NumberAssumption DEF Init, LinkInv, SilenceInv
<1>4. AgesInv
  BY DEF Init, AgesInv, Confirmed, LocalRoutes
<1>. QED  BY <1>1, <1>2, <1>3, <1>4 DEF RIPInv

-----------------------------------------------------------------------------
(* The theorems *)

\* Every step of the routers, the users and the network keeps the inductive invariant:
\* a route that rip.go has in use is at least as old as the silence of its next hop.
THEOREM RIPInvariant == Spec => []RIPInv
<1>1. Init => RIPInv
  BY RIPInit
<1>2. RIPInv /\ [Next]_vars => RIPInv'
  <2>. SUFFICES ASSUME RIPInv, [Next]_vars
                PROVE  RIPInv'
    OBVIOUS
  <2>1. CASE UNCHANGED vars
    BY <2>1, SilenceKept, AgesKept DEF vars, RIPInv, TablesInv, NetInv, LinkInv
  <2>2. ASSUME NEW r \in Routers, Start(r) \/ PeriodicUpdate(r) \/ CheckForTimeouts(r)
        PROVE  RIPInv'
    BY <2>2, UpdateLoopStep, TimeoutStep
  <2>3. ASSUME NEW l \in Links, SendTimedOut(l) \/ Receive(l) \/ IFDown(l) \/ IFUp(l) \/ Lose(l)
        PROVE  RIPInv'
    BY <2>3, SendTimedOutStep, DropStep, RequestStep, ResponseStep, SwitchStep DEF Receive
  <2>4. CASE Tick
    BY <2>4, TickStep
  <2>. QED  BY <2>1, <2>2, <2>3, <2>4 DEF Next
<1>. QED  BY <1>1, <1>2, PTL DEF Spec

\* Type correctness of tables, messages and interfaces: no message makes HandleRipMessage
\* replace a local route, cost nothing or lead elsewhere than to its sender.
THEOREM RIPTypes == Spec => []TypeOK
<1>1. RIPInv => TypeOK
  <2>. SUFFICES ASSUME RIPInv
                PROVE  TypeOK
    OBVIOUS
  <2>1. ASSUME NEW l \in Links
        PROVE  /\ \A f \in sending[l] : IsRipEntries(f)
               /\ \A i \in 1 .. Len(net[l]) : IsRipMessage(net[l][i])
    <3>1. net[l] \in Seq(Messages) /\ sending[l] \in SUBSET RipEntries
      BY DEF RIPInv, NetInv
    <3>2. \A i \in 1 .. Len(net[l]) : net[l][i] \in Messages
      BY <3>1
    <3>. QED  BY <3>1, <3>2, MessagesChar, RipEntriesChar
  <2>2. DOMAIN net = Links /\ DOMAIN sending = Links
    BY DEF RIPInv, NetInv
  <2>. QED
    BY <2>1, <2>2 DEF RIPInv, TablesInv, TableOK, EntryOK, LinkInv, TypeOK
<1>. QED  BY <1>1, RIPInvariant, PTL

\* A route whose next hop could not be heard for RipTimeout periods is offline, whatever
\* HandleRipMessage is told by others and whatever was on its way when the link broke.
THEOREM DeadRoutesGoOffline == Spec => []DeadRouteOffline
<1>1. RIPInv => DeadRouteOffline
  <2>. SUFFICES ASSUME RIPInv, NEW r \in Routers, NEW p \in DOMAIN ForwardingTable[r],
                       ForwardingTable[r][p].Type = "RIP", ForwardingTable[r][p].Cost < Infinity
                PROVE  silent[<<r, ForwardingTable[r][p].NextHop>>] <= RipTimeout
    BY DEF DeadRouteOffline
  <2>. DEFINE e == ForwardingTable[r][p]
              k == <<r, e.NextHop>>
  <2>1. silent[k] <= e.LastUpdated /\ EntryOK(r, p, e)
    BY DEF RIPInv, AgesInv, Confirmed, TablesInv, TableOK
  <2>2. k \in Links /\ e.LastUpdated \in 0 .. RipTimeout
    BY <2>1, LinkFacts DEF EntryOK, FwdEntry
  <2>3. silent[k] \in 0 .. RipTimeout + 1
    BY <2>2 DEF RIPInv, LinkInv
  <2>. HIDE DEF e, k
  <2>. QED  BY <2>1, <2>2, <2>3, NumberAssumption DEF e, k
<1>. QED  BY <1>1, RIPInvariant, PTL

=============================================================================
