----------------------------- MODULE FileBytes ------------------------------
(* The bytes of a file, as reads and writes at an offset see them. *)
EXTENDS Integers, Sequences, FiniteSetsExt

\* What read returns of b: nothing from beyond the end.
BytesAt(b, offset, length) == SubSeq(b, offset + 1, Min({offset + length, Len(b)}))

\* b cut off at, or filled up with zeros to, length.
Resized(b, length) == [i \in 1..length |-> IF i <= Len(b) THEN b[i] ELSE 0]

\* b after a write of data.
Overwritten(b, offset, data) ==
  [i \in 1..Max({Len(b), offset + Len(data)}) |->
     CASE i \in (offset + 1)..(offset + Len(data)) -> data[i - offset]
       [] i <= Len(b) -> b[i]
       [] OTHER -> 0]
=============================================================================
