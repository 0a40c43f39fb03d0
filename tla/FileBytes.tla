------------------------------ MODULE FileBytes ------------------------------
(***************************************************************************)
(* The bytes of a file on the server, as a sequence, and what reading and  *)
(* writing at a position do to it.                                         *)
(***************************************************************************)
EXTENDS Naturals, Sequences

Hole == 0 \* what a byte is that was never written

Smaller(m, n) == IF m <= n THEN m ELSE n

\* file with bytes written after its first pos bytes
WriteAt(file, pos, bytes) ==
  LET end == pos + Len(bytes) IN
  [i \in 1..(IF end <= Len(file) THEN Len(file) ELSE end) |->
     IF i \in pos + 1 .. end THEN bytes[i - pos]
     ELSE IF i <= Len(file) THEN file[i] ELSE Hole]

\* n bytes of file after its first pos
ReadAt(file, pos, n) == SubSeq(file, pos + 1, pos + n)
=============================================================================
