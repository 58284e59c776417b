----------------------------- MODULE MCDedupStage -----------------------------
(* Two producers with coarse chunks of three bytes and of two, two         *)
(* consumers, and a queue of two places.                                   *)
EXTENDS DedupStage, TLC

CONSTANTS p1, p2

MCHandles == Producers \X (0..MaxSize - 1)
MCThreads == Producers \cup Consumers
MCChunkSize == p1 :> 3 @@ p2 :> 2
=============================================================================
