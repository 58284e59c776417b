----------------------------- MODULE DedupArchive -----------------------------
(***************************************************************************)
(* What the encoder of dedup promises of its output: one record for each   *)
(* chunk of the input, in the order of the input; the first chunk with     *)
(* some contents is stored as data, every later one as a fingerprint.      *)
(***************************************************************************)
EXTENDS Naturals, Sequences

CONSTANT Stream     \* the contents of the chunks, in the order of the input
VARIABLE file

Record(i) ==
  [type |-> IF \E j \in 1..i - 1 : Stream[j] = Stream[i] THEN "fingerprint" ELSE "compress",
   content |-> Stream[i]]

Init == file = <<>>
Write == /\ Len(file) < Len(Stream)
         /\ file' = Append(file, Record(Len(file) + 1))
Spec == Init /\ [][Write]_file /\ WF_file(Write)
=============================================================================
