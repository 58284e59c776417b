------------------------------ MODULE ForkJoin ------------------------------
(***************************************************************************)
(* What the callers of Phoenix's thread pool rely on: a stage is forked    *)
(* over some workers, each of them does its share exactly once, and the    *)
(* caller passes the join only when every share has been done.  TPool      *)
(* implements this specification when stage sizes do not shrink.           *)
(***************************************************************************)
EXTENDS Integers

CONSTANT Worker         \* the identities of the pool's threads

VARIABLES
    round,              \* number of stages forked so far
    forked,             \* TRUE between a fork and its join
    todo                \* workers that still owe their share of the round

fjVars == <<round, forked, todo>>

FJTypeOK ==
    /\ round \in Nat
    /\ forked \in BOOLEAN
    /\ todo \subseteq Worker

FJInit ==
    /\ round = 0
    /\ forked = FALSE
    /\ todo = {}

Fork ==
    /\ ~forked
    /\ round' = round + 1
    /\ forked' = TRUE
    /\ todo' \in SUBSET Worker

Share(w) ==
    /\ w \in todo
    /\ todo' = todo \ {w}
    /\ UNCHANGED <<round, forked>>

Join ==
    /\ forked
    /\ todo = {}
    /\ forked' = FALSE
    /\ UNCHANGED <<round, todo>>

FJNext == Fork \/ Join \/ \E w \in Worker : Share(w)

(* A forked round is worked off and joined; nothing forces a new fork. *)
FJFairness == WF_fjVars(Join \/ \E w \in Worker : Share(w))

FJSafety == FJInit /\ [][FJNext]_fjVars

FJSpec == FJSafety /\ FJFairness
=============================================================================
