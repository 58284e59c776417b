------------------------------ MODULE MCMapReduce ------------------------------
(***************************************************************************)
(* Calls of map_reduce for TLC.                                            *)
(***************************************************************************)
EXTENDS MapReduce

Call(n, one, map, reduce, merge, p) ==
    [units |-> n, oneQueue |-> one, mapThreads |-> map,
     reduceThreads |-> reduce, mergeThreads |-> merge, pool |-> p]

(* Two units for the key 1, in different map tasks, and unequal chunks.    *)
MCKeyOf == <<1, 3, 2, 1, 2>>
MCHash == [k \in 1 .. 3 |-> 2 * k]

(* As many map threads as reduce threads, as in the programs of tests/:    *)
(* few units, more map threads than map tasks, one or several merge rounds *)
(* with equal and unequal shares, and a pool that is larger than needed.   *)
ArgsSteady ==
    {Call(5, FALSE, 2, 2, 0, 0), Call(5, TRUE, 2, 2, 2, 0),
     Call(4, TRUE, 3, 3, 0, 4), Call(3, FALSE, 5, 5, 0, 0),
     Call(1, FALSE, 1, 1, 0, 0), Call(5, TRUE, 2, 2, 1, 0)}

=============================================================================
