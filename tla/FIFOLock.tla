------------------------------- MODULE FIFOLock -------------------------------
(***************************************************************************)
(* What Phoenix's queue lock promises: requests are granted one at a time, *)
(* in the order in which they were made.                                   *)
(***************************************************************************)
EXTENDS Sequences

CONSTANT Client

VARIABLES
    queue,      \* requests not yet released, oldest first
    held        \* TRUE when the oldest request has been granted

lockVars == <<queue, held>>

InQueue(c) == \E j \in DOMAIN queue : queue[j] = c

LockInit ==
    /\ queue = <<>>
    /\ held = FALSE

(* A request on a free lock is granted at once, any other one waits. *)
Request(c) ==
    /\ ~InQueue(c)
    /\ queue' = Append(queue, c)
    /\ held' = IF queue = <<>> THEN TRUE ELSE held

Grant ==
    /\ queue # <<>>
    /\ ~held
    /\ held' = TRUE
    /\ UNCHANGED queue

Release ==
    /\ held
    /\ queue' = Tail(queue)
    /\ held' = FALSE

LockNext == Grant \/ Release \/ \E c \in Client : Request(c)

(* The lock is always granted, and every holder releases it. *)
LockFairness == WF_lockVars(Grant) /\ WF_lockVars(Release)

LockSafety == LockInit /\ [][LockNext]_lockVars

LockSpec == LockSafety /\ LockFairness
=============================================================================
