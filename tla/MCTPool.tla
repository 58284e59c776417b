------------------------------- MODULE MCTPool -------------------------------
(* Stage sequences for TLC, as map_reduce produces them for one pool.       *)
EXTENDS TPool

(* Two jobs on a pool created with three threads, the first over data that *)
(* makes only two map tasks: map and reduce use one or two pool threads,   *)
(* the merge of three reduce outputs is done by the main thread alone.     *)
SteadyStages == 6
SteadySize == <<1, 2, 0, 2, 2, 0>>

(* One job with num_map_threads = num_reduce_threads = 4: map and reduce   *)
(* use three pool threads, the two merge rounds one and none.              *)
ShrinkStages == 4
ShrinkSize == <<3, 3, 1, 0>>
=============================================================================
