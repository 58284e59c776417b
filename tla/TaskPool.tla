------------------------------- MODULE TaskPool -------------------------------
(***************************************************************************)
(* What the task queue promises to the workers of a stage: a task that was *)
(* put in is given out once; a worker is told that there is no more work   *)
(* only when nothing is left of the tasks put in before the stage began,   *)
(* and the last worker only when nothing is left at all.                   *)
(***************************************************************************)
EXTENDS Naturals

CONSTANTS
    Worker,
    Task,
    Late        \* the tasks that may be put in while workers take tasks

VARIABLES
    available,  \* tasks put in and not yet given out
    given,      \* how many times each task was given out
    idle        \* workers that have been told there is no more work

poolVars == <<available, given, idle>>

PoolInit ==
    /\ available = {}
    /\ given = [t \in Task |-> 0]
    /\ idle = {}

Put(t) ==
    /\ t \notin available /\ given[t] = 0
    /\ idle = {} \/ t \in Late
    /\ available' = available \cup {t}
    /\ UNCHANGED <<given, idle>>

Give(t) ==
    /\ t \in available
    /\ available' = available \ {t}
    /\ given' = [given EXCEPT ![t] = @ + 1]
    /\ UNCHANGED idle

NoMore(w) ==
    /\ w \notin idle
    /\ available \subseteq Late
    /\ idle \cup {w} = Worker => available = {}
    /\ idle' = idle \cup {w}
    /\ UNCHANGED <<available, given>>

PoolNext ==
    \/ \E t \in Task : Put(t) \/ Give(t)
    \/ \E w \in Worker : NoMore(w)

PoolSpec == PoolInit /\ [][PoolNext]_poolVars
=============================================================================
