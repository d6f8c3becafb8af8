---------------------------- MODULE MCTLSRecord ----------------------------
(***************************************************************************)
(* TLSRecord for TLC: a connection between the ends "user" and "server".   *)
(***************************************************************************)
EXTENDS TLSRecord

CONSTANTS s1, s2, r1, r2 \* goroutines

TwoEnds == {"user", "server"}
OtherEnd == [e \in TwoEnds |-> IF e = "user" THEN "server" ELSE "user"]
UserWrites == [g \in Senders \cup Readers |-> IF g \in Senders THEN "user" ELSE "server"]
ThreeEach == [g \in Senders |-> 3]
OneEach == [g \in Senders |-> 1]

Pipe == INSTANCE ReliableStream
        WITH Capacity <- PlainLen * Records[s1],
             written <- PlainLen * Len(sealed[At[s1]]),
             read <- returned[At[r1]]

\* With one sender, VTLSWrite and VTLSRead implement the same byte pipe as VWrite
\* and VRead do, with as much room as the sender needs: framing, readBuf and the
\* sequence numbers lose, repeat and reorder nothing.
ImplementsPipe == Pipe!StreamSpec

=============================================================================
