------------------------------ MODULE GroupByKey ------------------------------
(***************************************************************************)
(* What a reduce task promises: the values emitted for a key are handed to *)
(* the reduce function in one call, all of them and each of them once, and *)
(* the calls are made in ascending order of the keys.                      *)
(***************************************************************************)
EXTENDS Integers, Sequences, FiniteSets

CONSTANTS Keys, Ids         \* keys are integers, every emit has its id

VARIABLES
    keyOf,      \* the emits made: a function from their ids to their keys
    calls       \* the calls made: their key, the emits whose values they were
                \* handed, and how many times they were handed one

groupVars == <<keyOf, calls>>

IdsOf(k) == {i \in DOMAIN keyOf : keyOf[i] = k}
Called(k) == \E c \in DOMAIN calls : calls[c].key = k

GroupInit ==
    /\ keyOf = [i \in {} |-> 0]
    /\ calls = <<>>

Emit(i, k) ==
    /\ calls = <<>>
    /\ i \notin DOMAIN keyOf
    /\ keyOf' = [j \in DOMAIN keyOf \cup {i} |-> IF j = i THEN k ELSE keyOf[j]]
    /\ UNCHANGED calls

Reduce(k) ==
    /\ IdsOf(k) # {} /\ ~Called(k)
    /\ \A l \in Keys : IdsOf(l) # {} /\ ~Called(l) => k <= l
    /\ calls' = Append(calls, [key |-> k, ids |-> IdsOf(k),
                               handed |-> Cardinality(IdsOf(k))])
    /\ UNCHANGED keyOf

GroupNext ==
    \/ \E i \in Ids, k \in Keys : Emit(i, k)
    \/ \E k \in Keys : Reduce(k)

AllReduced == \A k \in Keys : IdsOf(k) # {} => Called(k)

GroupSpec == GroupInit /\ [][GroupNext]_groupVars
=============================================================================
