-------------------------------- MODULE RIP --------------------------------
(***************************************************************************)
(* The routers' side of pkg/ipStack: rip.go with the forwarding table and  *)
(* interfaces of ipStack.go and the link layer that carries the messages.  *)
(*                                                                         *)
(* A router is the goroutines UpdateLoop, TimeoutLoop, RunIPLayer and one  *)
(* listener for each interface.  The first three change the table and send *)
(* under ipStack.mu, so each such section is one step; what is not under   *)
(* the mutex is the goroutine that tells of timed out routes, which sends  *)
(* one message per step.  An interface leads to one RIP neighbour and is   *)
(* named by the pair <<router, neighbour>>, an address by its router.      *)
(***************************************************************************)
EXTENDS Naturals, Sequences, FiniteSets

CONSTANTS
    Routers,
    Neighbors,      \* RipInfo.Neighbors of each router
    Prefixes,
    LocalPrefixes,  \* the prefixes of each router's own interfaces
    Infinity,       \* the cost of an offline route, 16 in the code
    RipTimeout,     \* in periods of RipUpdateRate, rounded up
    ConcurrentStart, \* bound: FALSE if routers are started one after the other
    Switched,       \* bound: the interfaces that users switch on or off
    MaxFaults       \* bound: interfaces switched and messages lost, together

ASSUME RouterAssumption ==
    /\ Neighbors \in [Routers -> SUBSET Routers]
    /\ \A r \in Routers : r \notin Neighbors[r]
    /\ \A r, n \in Routers : n \in Neighbors[r] <=> r \in Neighbors[n]
    /\ LocalPrefixes \in [Routers -> SUBSET Prefixes]
    /\ Switched \subseteq Routers \X Routers
    /\ "none" \notin Routers

ASSUME NumberAssumption ==
    /\ Infinity \in Nat \ {0}
    /\ RipTimeout \in Nat \ {0}
    /\ ConcurrentStart \in BOOLEAN
    /\ MaxFaults \in Nat

VARIABLES
    ForwardingTable, \* each router's routes: a function from prefixes to entries
    up,              \* Interface.Up
    running,         \* has the process started?
    due,             \* UpdateLoop is to call sendPeriodicUpdate
    sending,         \* messages that goroutines started by CheckForTimeouts still send
    net,             \* UDP and IncomingPacketChan: messages on their way, in order
    silent,          \* history: periods since a router could last hear a neighbour
    faults           \* history, for MaxFaults

vars == <<ForwardingTable, up, running, due, sending, net, silent, faults>>

Links == {l \in Routers \X Routers : l[2] \in Neighbors[l[1]]}
Reverse(l) == <<l[2], l[1]>>

\* A table entry; LastUpdated is the number of periods since then, up to RipTimeout.
FwdEntry == [NextHop : Routers \cup {"none"}, Type : {"Local", "RIP"},
             Cost : 0 .. Infinity, LastUpdated : 0 .. RipTimeout]

\* What a message says of some prefixes: the cost of each.
IsRipEntries(f) == DOMAIN f \subseteq Prefixes /\ f \in [DOMAIN f -> 0 .. Infinity]

\* RipMessage
Request == [Command |-> "RIPRequest", Entries |-> <<>>]
Response(entries) == [Command |-> "RIPResponse", Entries |-> entries]
IsRipMessage(m) == m = Request \/ (m = Response(m.Entries) /\ IsRipEntries(m.Entries))

\* The type invariant.  A local route costs nothing and a learned one something,
\* and it leads to the neighbour it was learned from.
TypeOK ==
    /\ DOMAIN ForwardingTable = Routers
    /\ \A r \in Routers :
          /\ LocalPrefixes[r] \subseteq DOMAIN ForwardingTable[r]
          /\ DOMAIN ForwardingTable[r] \subseteq Prefixes
          /\ \A p \in DOMAIN ForwardingTable[r] :
                LET e == ForwardingTable[r][p]
                IN  /\ e \in FwdEntry
                    /\ IF p \in LocalPrefixes[r]
                       THEN e.Type = "Local" /\ e.Cost = 0
                       ELSE e.Type = "RIP" /\ e.Cost > 0 /\ e.NextHop \in Neighbors[r]
    /\ up \in [Links -> BOOLEAN]
    /\ running \in [Routers -> BOOLEAN]
    /\ due \in [Routers -> BOOLEAN]
    /\ DOMAIN sending = Links
    /\ \A l \in Links : \A f \in sending[l] : IsRipEntries(f)
    /\ DOMAIN net = Links
    /\ \A l \in Links : \A i \in 1 .. Len(net[l]) : IsRipMessage(net[l][i])
    /\ silent \in [Links -> 0 .. RipTimeout + 1]
    /\ faults \in 0 .. MaxFaults

-----------------------------------------------------------------------------
(* Sending *)

\* SendRipMessage of message[n] to each neighbour n of router r: LinkLayerSend
\* drops it when the interface is down; nobody listens at a router not started.
Sent(r, message) ==
    [l \in Links |->
        IF l[1] = r /\ up[l] /\ running[l[2]] THEN Append(net[l], message[l[2]]) ELSE net[l]]

\* Mutant of PeriodicEntries: every learned route is poisoned.
PeriodicEntriesAllPoisoned(r, n) ==
    [p \in DOMAIN ForwardingTable[r] |->
        IF ForwardingTable[r][p].Type = "RIP" THEN Infinity ELSE ForwardingTable[r][p].Cost]

\* What sendPeriodicUpdate tells neighbour n: the whole table, with the routes
\* that lead through n poisoned.
PeriodicEntries(r, n) ==
    [p \in DOMAIN ForwardingTable[r] |->
        LET e == ForwardingTable[r][p]
        IN  IF e.Type = "RIP" /\ e.NextHop = n THEN Infinity ELSE e.Cost]

sendPeriodicUpdate(r) ==
    Sent(r, [n \in Neighbors[r] |-> Response(PeriodicEntries(r, n))])

SendTriggeredUpdate(r, entries) ==
    Sent(r, [n \in Neighbors[r] |-> Response(entries)])

-----------------------------------------------------------------------------
(* UpdateLoop and TimeoutLoop *)

\* Learned routes nobody has confirmed in time and that are not offline yet.
TimedOut(r) ==
    {p \in DOMAIN ForwardingTable[r] :
        /\ ForwardingTable[r][p].Type = "RIP"
        /\ ForwardingTable[r][p].LastUpdated >= RipTimeout
        /\ ForwardingTable[r][p].Cost < Infinity}

\* Timing: what is to be done and on its way takes less than a period.
Settled ==
    /\ \A r \in Routers : ~due[r] /\ TimedOut(r) = {}
    /\ \A l \in Links : net[l] = <<>> /\ sending[l] = {}

\* initFwdTable, of a router that has started.
LocalRoutes(r) ==
    [p \in LocalPrefixes[r] |->
        [NextHop |-> "none", Type |-> "Local", Cost |-> 0, LastUpdated |-> 0]]

\* The process starts; UpdateLoop asks the neighbours for their routes and is
\* about to send its own.
Start(r) ==
    /\ ~running[r]
    /\ ConcurrentStart \/ Settled
    /\ running' = [running EXCEPT ![r] = TRUE]
    /\ due' = [due EXCEPT ![r] = TRUE]
    /\ net' = Sent(r, [n \in Neighbors[r] |-> Request])
    /\ UNCHANGED <<ForwardingTable, up, sending, silent, faults>>

PeriodicUpdate(r) ==
    /\ running[r] /\ due[r]
    /\ due' = [due EXCEPT ![r] = FALSE]
    /\ net' = sendPeriodicUpdate(r)
    /\ UNCHANGED <<ForwardingTable, up, running, sending, silent, faults>>

\* They go offline, and a goroutine is started that will say so to everyone.
CheckForTimeouts(r) ==
    /\ running[r] /\ TimedOut(r) # {}
    /\ ForwardingTable' = [ForwardingTable EXCEPT ![r] =
          [p \in DOMAIN @ |-> IF p \in TimedOut(r) THEN [@[p] EXCEPT !.Cost = Infinity] ELSE @[p]]]
    /\ sending' = [l \in Links |->
          IF l[1] = r THEN sending[l] \cup {[p \in TimedOut(r) |-> Infinity]} ELSE sending[l]]
    /\ UNCHANGED <<up, running, due, net, silent, faults>>

\* That goroutine's SendTriggeredUpdate holds no mutex: each neighbour is told
\* in a step of its own.
SendTimedOut(l) ==
    \E entries \in sending[l] :
        /\ sending' = [sending EXCEPT ![l] = @ \ {entries}]
        /\ net' = IF up[l] /\ running[l[2]]
                  THEN [net EXCEPT ![l] = Append(@, Response(entries))] ELSE net
        /\ UNCHANGED <<ForwardingTable, up, running, due, silent, faults>>

-----------------------------------------------------------------------------
(* Receiving *)

\* Mutant of CostThrough: Infinity is a cost like any other.
CostThroughUncapped(c) == c + 1

\* The cost of a route through a neighbour that has cost c.
CostThrough(c) == IF c < Infinity THEN c + 1 ELSE Infinity

\* Is the entry of table t for prefix p replaced when n offers cost c?
Replaces(t, p, n, c) ==
    \/ p \notin DOMAIN t
    \/ /\ t[p].Type = "RIP"
       /\ \/ c < t[p].Cost
          \/ c > t[p].Cost /\ n = t[p].NextHop

\* Mutant of Refreshes: any neighbour with the same cost confirms the route.
RefreshesFromAnyone(t, p, n, c) ==
    /\ p \in DOMAIN t
    /\ t[p].Type = "RIP"
    /\ c = t[p].Cost

\* The neighbour in use says what it said before.
Refreshes(t, p, n, c) ==
    /\ p \in DOMAIN t
    /\ t[p].Type = "RIP"
    /\ c = t[p].Cost
    /\ n = t[p].NextHop

UpdateForwardingTable(n, c) ==
    [NextHop |-> n, Type |-> "RIP", Cost |-> c, LastUpdated |-> 0]

\* The table after the entries neighbour n has sent.
Updated(t, n, entries) ==
    [p \in DOMAIN t \cup DOMAIN entries |->
        IF p \notin DOMAIN entries THEN t[p]
        ELSE LET c == CostThrough(entries[p])
             IN  IF Replaces(t, p, n, c) THEN UpdateForwardingTable(n, c)
                 ELSE IF Refreshes(t, p, n, c) THEN [t[p] EXCEPT !.LastUpdated = 0]
                 ELSE t[p]]

\* What is passed on: the entries that changed the table, as they were received.
ChangedEntries(t, n, entries) ==
    [p \in {q \in DOMAIN entries : Replaces(t, q, n, CostThrough(entries[q]))} |-> entries[p]]

\* LinkLayerListen drops what comes in on an interface that is down.
ListenDrops(l) ==
    /\ net[l] # <<>>
    /\ ~up[Reverse(l)]
    /\ net' = [net EXCEPT ![l] = Tail(@)]
    /\ UNCHANGED <<ForwardingTable, up, running, due, sending, silent, faults>>

\* HandleRipMessage for a request: everyone, not only who asks, gets the table.
HandleRequest(l) ==
    /\ net[l] # <<>>
    /\ up[Reverse(l)]
    /\ Head(net[l]).Command = "RIPRequest"
    /\ net' = [sendPeriodicUpdate(l[2]) EXCEPT ![l] = Tail(@)]
    /\ UNCHANGED <<ForwardingTable, up, running, due, sending, silent, faults>>

\* HandleRipMessage for a response.
HandleResponse(l) ==
    LET n == l[1]
        r == l[2]
        entries == Head(net[l]).Entries
        changed == ChangedEntries(ForwardingTable[r], n, entries)
    IN  /\ net[l] # <<>>
        /\ up[Reverse(l)]
        /\ Head(net[l]).Command = "RIPResponse"
        /\ ForwardingTable' =
              [ForwardingTable EXCEPT ![r] = Updated(@, n, entries)]
        /\ net' = [IF DOMAIN changed # {} THEN SendTriggeredUpdate(r, changed) ELSE net
                   EXCEPT ![l] = Tail(@)]
        /\ UNCHANGED <<up, running, due, sending, silent, faults>>

-----------------------------------------------------------------------------
(* The user, the network and time *)

\* The down and up commands.
IFDown(l) ==
    /\ faults < MaxFaults
    /\ l \in Switched /\ up[l]
    /\ up' = [up EXCEPT ![l] = FALSE]
    /\ faults' = faults + 1
    /\ UNCHANGED <<ForwardingTable, running, due, sending, net, silent>>

IFUp(l) ==
    /\ faults < MaxFaults
    /\ l \in Switched /\ ~up[l]
    /\ up' = [up EXCEPT ![l] = TRUE]
    /\ silent' = [k \in Links |->
          IF \/ k = l /\ (up[Reverse(l)] \/ net[Reverse(l)] # <<>>)
             \/ k = Reverse(l) /\ up[k]
          THEN 0 ELSE silent[k]]
    /\ faults' = faults + 1
    /\ UNCHANGED <<ForwardingTable, running, due, sending, net>>

Lose(l) ==
    /\ faults < MaxFaults
    /\ net[l] # <<>>
    /\ net' = [net EXCEPT ![l] = Tail(@)]
    /\ faults' = faults + 1
    /\ UNCHANGED <<ForwardingTable, up, running, due, sending, silent>>

UpTo(bound, k) == IF k < bound THEN k + 1 ELSE bound

\* A period of RipUpdateRate: the tickers fire and the routes age.
Tick ==
    /\ Settled
    /\ due' = running
    /\ ForwardingTable' = [r \in Routers |->
          [p \in DOMAIN ForwardingTable[r] |->
              IF ForwardingTable[r][p].Type = "RIP"
              THEN [ForwardingTable[r][p] EXCEPT !.LastUpdated = UpTo(RipTimeout, @)]
              ELSE ForwardingTable[r][p]]]
    /\ silent' = [l \in Links |->
          IF up[l] /\ up[Reverse(l)] THEN 0 ELSE UpTo(RipTimeout + 1, silent[l])]
    /\ UNCHANGED <<up, running, sending, net, faults>>

-----------------------------------------------------------------------------
Init ==
    /\ ForwardingTable = [r \in Routers |-> LocalRoutes(r)]
    /\ up = [l \in Links |-> TRUE]
    /\ running = [r \in Routers |-> FALSE]
    /\ due = [r \in Routers |-> FALSE]
    /\ sending = [l \in Links |-> {}]
    /\ net = [l \in Links |-> <<>>]
    /\ silent = [l \in Links |-> 0]
    /\ faults = 0

\* What the goroutine that handles packets does with the next one.
Receive(l) == ListenDrops(l) \/ HandleRequest(l) \/ HandleResponse(l)

Next ==
    \/ \E r \in Routers : Start(r) \/ PeriodicUpdate(r) \/ CheckForTimeouts(r)
    \/ \E l \in Links : \/ SendTimedOut(l) \/ Receive(l)
                        \/ IFDown(l) \/ IFUp(l) \/ Lose(l)
    \/ Tick

\* Routers are started, their goroutines run, packets arrive and time passes.
Fairness ==
    /\ \A r \in Routers :
          SF_vars(Start(r)) /\ WF_vars(PeriodicUpdate(r)) /\ WF_vars(CheckForTimeouts(r))
    /\ \A l \in Links : WF_vars(SendTimedOut(l)) /\ WF_vars(Receive(l))
    /\ WF_vars(Tick)

Spec == Init /\ [][Next]_vars
FairSpec == Spec /\ Fairness

-----------------------------------------------------------------------------
(* Properties *)

\* A route through a neighbour that could not be heard for RipTimeout periods is
\* offline: neither what other neighbours say of the prefix nor what was on its
\* way when the link broke keeps it in use (HandleRipMessage, CheckForTimeouts).
DeadRouteOffline ==
    \A r \in Routers : \A p \in DOMAIN ForwardingTable[r] :
        LET e == ForwardingTable[r][p]
        IN  e.Type = "RIP" /\ e.Cost < Infinity => silent[<<r, e.NextHop>>] <= RipTimeout

\* The routers at most k hops away from one that has prefix p on an interface,
\* over links that are up at both ends.
Within(p) ==
    LET near[k \in 0 .. Infinity] ==
          IF k = 0 THEN {r \in Routers : p \in LocalPrefixes[r]}
          ELSE LET nearer == near[k - 1]
               IN  nearer \cup {r \in Routers : \E n \in nearer \cap Neighbors[r] :
                                   up[<<r, n>>] /\ up[<<n, r>>]}
    IN  near

\* The cost of p is the distance everywhere, and p is unknown or offline where no
\* path of fewer than Infinity hops leads to it.
RoutesRight(p) ==
    LET near == Within(p)
    IN  \A r \in Routers :
            IF p \in DOMAIN ForwardingTable[r] /\ ForwardingTable[r][p].Cost < Infinity
            THEN LET c == ForwardingTable[r][p].Cost
                 IN  r \in near[c] /\ (c > 0 => r \notin near[c - 1])
            ELSE r \notin near[Infinity - 1]

\* Once interfaces stay as they are, the tables come to be the shortest paths and
\* stay so, from any tables that failures, losses and triggered updates on their
\* way have left behind (rip.go as a whole).
Converges == <>[](\A p \in Prefixes : RoutesRight(p))

=============================================================================
