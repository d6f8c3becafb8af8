--------------------------- MODULE ReliableStream ---------------------------
(***************************************************************************)
(* What VWrite and VRead promise together for one direction of a           *)
(* connection: a byte pipe.  The bytes VRead returns are the bytes VWrite  *)
(* took, in order, once each; the pipe holds at most what the two circular *)
(* buffers can hold.  The byte at position p of the stream is p itself.    *)
(***************************************************************************)
EXTENDS Integers, Sequences

CONSTANT Capacity      \* capacity of one circular buffer

VARIABLES written,     \* number of bytes VWrite has taken
          read         \* the bytes VRead has returned

StreamInit == written = 0 /\ read = <<>>

\* VWrite stores part of its argument as soon as there is room.
Write == /\ \E n \in 1..(2 * Capacity - (written - Len(read))) : written' = written + n
         /\ UNCHANGED read

\* VRead returns some of the bytes it has not returned yet.
Read == /\ \E n \in 1..(written - Len(read)) :
              read' = read \o [i \in 1..n |-> Len(read) + i]
        /\ UNCHANGED written

StreamSpec == StreamInit /\ [][Write \/ Read]_<<written, read>>

=============================================================================
