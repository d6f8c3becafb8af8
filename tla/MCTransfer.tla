----------------------------- MODULE MCTransfer -----------------------------
(***************************************************************************)
(* TCPTransfer for TLC, with what comments of the code and the documents   *)
(* say about it and the model refutes.                                     *)
(***************************************************************************)
EXTENDS TCPTransfer

\* Bound: a state in which the connection is given up, or the process has died,
\* is checked and not left.
Open == state = "ESTABLISHED" /\ ~panicked

\* closing.go:227: teardown is to "cleanup all resources associated with this
\* socket -> close channels, remove from TCB, stop goroutines"; a connection
\* that gives up gets that far.
ClosedIsTornDown == state = "CLOSED" ~> (torn \/ panicked)

=============================================================================
