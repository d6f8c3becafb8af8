------------------------------- MODULE MCRIP -------------------------------
(***************************************************************************)
(* RIP for TLC: a small network.                                           *)
(***************************************************************************)
EXTENDS RIP, TLC

\* Three routers in a ring; a network at one of them, and the subnet between it
\* and the second, which both have on an interface.
RingNeighbors == "A" :> {"B", "C"} @@ "B" :> {"A", "C"} @@ "C" :> {"A", "B"}
RingPrefixes == "A" :> {"lan", "subnet"} @@ "B" :> {"subnet"} @@ "C" :> {}

\* A switches its interface to C off and on.
SwitchAC == {<<"A", "C">>}

=============================================================================
