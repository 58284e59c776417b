--------------------------- MODULE MCDedupPipeline ---------------------------
(* Two coarse chunks whose fine chunks repeat each other's contents in the *)
(* opposite order, so that a duplicate can come before its original.       *)
EXTENDS DedupPipeline

CONSTANTS a, b

MCInput == <<<<a, b>>, <<b, a>>>>
=============================================================================
