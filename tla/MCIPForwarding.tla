--------------------------- MODULE MCIPForwarding ---------------------------
(***************************************************************************)
(* IPForwarding for TLC: three routers in a line, hosts h1 and h3 at the   *)
(* first and h2 at the last, as in nets/linear-r3h2.json with one more     *)
(* host.  The last router has a wide network whose prefix contains those   *)
(* of h1 and h3, and RIP may also announce a route to h2 alone.  There are *)
(* two pairs of stakeholders, as in the code: the networks of h3 and h2,   *)
(* and the wide one with that between the first two routers.               *)
(***************************************************************************)
EXTENDS IPForwarding, TLC

\* The interfaces of each network, and the nodes they belong to.
NetworkOf ==
    "h1" :> "n1" @@ "r1h1" :> "n1" @@ "h3" :> "n3" @@ "r1h3" :> "n3" @@ "r1r2" :> "n12" @@
    "r2r1" :> "n12" @@ "r2r3" :> "n23" @@ "r3r2" :> "n23" @@ "r3h2" :> "n2" @@ "h2" :> "n2" @@
    "r3w" :> "wide"
OwnerOf ==
    "h1" :> "H1" @@ "h2" :> "H2" @@ "h3" :> "H3" @@ "r1h1" :> "R1" @@ "r1h3" :> "R1" @@
    "r1r2" :> "R1" @@ "r2r1" :> "R2" @@ "r2r3" :> "R2" @@ "r3r2" :> "R3" @@ "r3h2" :> "R3" @@
    "r3w" :> "R3"
AllAddrs == DOMAIN OwnerOf

BitsOf == "n1" :> 24 @@ "n2" :> 24 @@ "n3" :> 24 @@ "n12" :> 24 @@ "n23" :> 24 @@
          "wide" :> 16 @@ "h2only" :> 32 @@ "any" :> 0
AllPrefixes == DOMAIN BitsOf
ContainsOf ==
    "n1" :> {"h1", "r1h1"} @@ "n2" :> {"h2", "r3h2"} @@ "n3" :> {"h3", "r1h3"} @@
    "n12" :> {"r1r2", "r2r1"} @@ "n23" :> {"r2r3", "r3r2"} @@
    "wide" :> {"h1", "r1h1", "h3", "r1h3", "r3w"} @@ "h2only" :> {"h2"} @@ "any" :> AllAddrs

Gateways == "H1" :> "r1h1" @@ "H2" :> "r3h2" @@ "H3" :> "r1h3"

\* Shortest paths.
Converged ==
    <<"R1", "n2">> :> "r2r1" @@ <<"R1", "n23">> :> "r2r1" @@ <<"R1", "wide">> :> "r2r1" @@
    <<"R2", "n1">> :> "r1r2" @@ <<"R2", "n3">> :> "r1r2" @@ <<"R2", "n2">> :> "r3r2" @@
    <<"R2", "wide">> :> "r3r2" @@
    <<"R3", "n1">> :> "r2r3" @@ <<"R3", "n3">> :> "r2r3" @@ <<"R3", "n12">> :> "r2r3"

Stakeholders == {<<"n3", "n2">>, <<"wide", "n12">>}

=============================================================================
