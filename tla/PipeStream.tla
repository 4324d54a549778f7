----------------------------- MODULE PipeStream -----------------------------
(***************************************************************************)
(* What a pipe promises: one stream of bytes.  Writers append to it, no    *)
(* more than capacity bytes ahead of the readers, and readers take the     *)
(* bytes in order, each byte once.                                         *)
(***************************************************************************)
EXTENDS Integers, Sequences

CONSTANTS Bytes, Capacity

VARIABLES
  written,   \* every byte accepted so far
  taken      \* how many of them readers have taken

StreamInit == written = <<>> /\ taken = 0

Write(bytes) ==
  /\ Len(written) + Len(bytes) - taken <= Capacity
  /\ written' = written \o bytes
  /\ UNCHANGED taken

Take(n) ==
  /\ taken + n <= Len(written)
  /\ taken' = taken + n
  /\ UNCHANGED written

(* The bytes that a step adds, if it adds any. *)
Added == SubSeq(written', Len(written) + 1, Len(written'))

StreamNext ==
  \/ Added \in Seq(Bytes) /\ Write(Added)
  \/ taken' \in Nat /\ Take(taken' - taken) /\ taken' > taken

StreamSpec == StreamInit /\ [][StreamNext]_<<written, taken>>

=============================================================================
