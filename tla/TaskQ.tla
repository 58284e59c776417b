--------------------------------- MODULE TaskQ ---------------------------------
(***************************************************************************)
(* The task queues of Phoenix (phoenix-2.0/src/taskQ.c) as one stage of    *)
(* map_reduce.c uses them: the main thread fills them without locks, then  *)
(* the workers take tasks, stealing from the other queues when their own   *)
(* is empty, until tq_dequeue fails; tq_finalize frees the entries.        *)
(*                                                                         *)
(* A queue is a sequence of entries, an entry stands for its task.  Each   *)
(* queue has a lock (MCSLock and FIFOLock say what it promises) and a free *)
(* queue, which keeps the entries taken.  Inside a critical section the    *)
(* read of the head, its removal and its insertion in the free queue are   *)
(* separate steps.                                                         *)
(***************************************************************************)
EXTENDS Integers, Sequences, FiniteSets

CONSTANTS
    Worker,     \* the threads of the stage
    Task,       \* the tasks of the stage
    Spawned,    \* those put in by a running task with tq_enqueue
    NumQueues,  \* tq->num_queues
    NULL        \* no entry, no worker

(* A stage always has a worker, the main thread.                           *)
ASSUME WorkerAssumption == IsFiniteSet(Worker) /\ Worker # {}
ASSUME TaskAssumption == IsFiniteSet(Task)
ASSUME NumQueuesAssumption == NumQueues \in Nat \ {0}
ASSUME SpawnedAssumption == Spawned \subseteq Task
ASSUME NULLAssumption == NULL \notin Task \cup Worker

VARIABLES
    phase,      \* "gen": the queues are filled; "work"; "fini"
    queues,     \* tq->queues
    freeQueues, \* tq->free_queues
    lock,       \* lock[q]: the worker that holds the lock of queue q
    index,      \* index[w]: the queue where the search of w began
    cur,        \* cur[w]: the queue that w looks at
    elem,       \* elem[w]: the entry that w has in hand, NULL for none
    executed,   \* executed[t]: how often the task has been run
    freed,      \* freed[t]: how often its entry has been freed
    pc          \* pc[w]: control point of worker w

vars == <<phase, queues, freeQueues, lock, index, cur, elem, executed, freed, pc>>

Queue == 0 .. NumQueues - 1

Init ==
    /\ phase = "gen"
    /\ queues = [q \in Queue |-> <<>>]
    /\ freeQueues = [q \in Queue |-> <<>>]
    /\ lock = [q \in Queue |-> NULL]
    /\ index = [w \in Worker |-> 0]
    /\ cur = [w \in Worker |-> 0]
    /\ elem = [w \in Worker |-> NULL]
    /\ executed = [t \in Task |-> 0]
    /\ freed = [t \in Task |-> 0]
    /\ pc = [w \in Worker |-> "call"]

Goto(w, label) == pc' = [pc EXCEPT ![w] = label]

In(qs, t) == \E q \in Queue : \E i \in DOMAIN qs[q] : qs[q][i] = t

-----------------------------------------------------------------------------
(* The main thread: gen_map_tasks and gen_reduce_tasks put every task in a *)
(* queue of their choice, then start_workers lets the workers run.         *)

tq_enqueue_seq(t) ==
    /\ phase = "gen"
    /\ t \notin Spawned
    /\ ~In(queues, t)
    /\ \E q \in Queue : queues' = [queues EXCEPT ![q] = Append(@, t)]
    /\ UNCHANGED <<phase, freeQueues, lock, index, cur, elem, executed, freed, pc>>

start_workers ==
    /\ phase = "gen"
    /\ \A t \in Task \ Spawned : In(queues, t)
    /\ phase' = "work"
    /\ UNCHANGED <<queues, freeQueues, lock, index, cur, elem, executed, freed, pc>>

(* After the stage: every entry in a queue or a free queue is freed. *)
tq_finalize ==
    /\ phase = "work"
    /\ \A w \in Worker : pc[w] = "done"
    /\ phase' = "fini"
    /\ freed' = [t \in Task |->
                   Cardinality({q \in Queue : \E i \in DOMAIN queues[q] :
                                                 queues[q][i] = t})
                 + Cardinality({p \in Queue \X (1 .. Cardinality(Task)) :
                                   /\ p[2] \in DOMAIN freeQueues[p[1]]
                                   /\ freeQueues[p[1]][p[2]] = t})]
    /\ queues' = [q \in Queue |-> <<>>]
    /\ freeQueues' = [q \in Queue |-> <<>>]
    /\ UNCHANGED <<lock, index, cur, elem, executed, pc>>

-----------------------------------------------------------------------------
(* tq_dequeue *)

(* The first queue is the one of the locality group, or a random one. *)
tq_dequeue(w) ==
    /\ phase = "work"
    /\ pc[w] = "call"
    /\ \E q \in Queue :
          /\ index' = [index EXCEPT ![w] = q]
          /\ cur' = [cur EXCEPT ![w] = q]
    /\ Goto(w, "acquire")
    /\ UNCHANGED <<phase, queues, freeQueues, lock, elem, executed, freed>>

(* Mutant of LockAcquire: the queue is not locked. *)
LockAcquire_NoLock(w) ==
    /\ pc[w] = "acquire"
    /\ Goto(w, "pop")
    /\ UNCHANGED <<phase, queues, freeQueues, lock, index, cur, elem, executed, freed>>

LockAcquire(w) ==
    /\ pc[w] = "acquire"
    /\ lock[cur[w]] = NULL
    /\ lock' = [lock EXCEPT ![cur[w]] = w]
    /\ Goto(w, "pop")
    /\ UNCHANGED <<phase, queues, freeQueues, index, cur, elem, executed, freed>>

(* list_remove_head reads the first entry, if there is one ... *)
PopFront(w) ==
    /\ pc[w] = "pop"
    /\ IF queues[cur[w]] = <<>>
         THEN /\ elem' = [elem EXCEPT ![w] = NULL]
              /\ Goto(w, "release")
         ELSE /\ elem' = [elem EXCEPT ![w] = Head(queues[cur[w]])]
              /\ Goto(w, "unlink")
    /\ UNCHANGED <<phase, queues, freeQueues, lock, index, cur, executed, freed>>

(* ... and unlinks it.  Under the lock the entry read is still the head.   *)
Unlink(w) ==
    /\ pc[w] = "unlink"
    /\ queues' = [queues EXCEPT ![cur[w]] =
                     IF @ # <<>> /\ Head(@) = elem[w] THEN Tail(@) ELSE @]
    /\ Goto(w, "pushfree")
    /\ UNCHANGED <<phase, freeQueues, lock, index, cur, elem, executed, freed>>

PushFree(w) ==
    /\ pc[w] = "pushfree"
    /\ freeQueues' = [freeQueues EXCEPT ![cur[w]] = Append(@, elem[w])]
    /\ Goto(w, "release")
    /\ UNCHANGED <<phase, queues, lock, index, cur, elem, executed, freed>>

(* Mutants of Steal: no wrap-around, and a search that does not advance    *)
(* beyond the second queue.                                                *)
Steal_NoWrap(w) == cur[w] + 1
Steal_SecondOnly(w) == (index[w] + 1) % NumQueues

(* Where the search goes from an empty queue, index for nowhere. *)
Steal(w) == (cur[w] + 1) % NumQueues

(* The end of a try: the search has an entry, goes on, or has failed. *)
AfterTry(w) ==
    \/ /\ elem[w] # NULL
       /\ Goto(w, "run")
       /\ UNCHANGED cur
    \/ /\ elem[w] = NULL
       /\ Steal(w) # index[w]
       /\ cur' = [cur EXCEPT ![w] = Steal(w)]
       /\ Goto(w, "acquire")
    \/ /\ elem[w] = NULL
       /\ Steal(w) = index[w]
       /\ Goto(w, "done")
       /\ UNCHANGED cur

LockRelease(w) ==
    /\ pc[w] = "release"
    /\ lock' = [lock EXCEPT ![cur[w]] = NULL]
    /\ AfterTry(w)
    /\ UNCHANGED <<phase, queues, freeQueues, index, elem, executed, freed>>

-----------------------------------------------------------------------------
(* The worker runs the copy of the task that tq_dequeue made.              *)

Run(w) ==
    /\ pc[w] = "run"
    /\ executed' = [executed EXCEPT ![elem[w]] = @ + 1]
    /\ elem' = [elem EXCEPT ![w] = NULL]
    /\ Goto(w, "call")
    /\ UNCHANGED <<phase, queues, freeQueues, lock, index, cur, freed>>

(* A running task puts a new one into a queue.  The call is over before    *)
(* the task ends, so that it is one critical section of a running worker.  *)
tq_enqueue(w, t) ==
    /\ pc[w] = "run"
    /\ t \in Spawned
    /\ ~In(queues, t) /\ ~In(freeQueues, t) /\ \A v \in Worker : elem[v] # t
    /\ \E q \in Queue :
          /\ lock[q] = NULL
          /\ queues' = [queues EXCEPT ![q] = Append(@, t)]
    /\ UNCHANGED <<phase, freeQueues, lock, index, cur, elem, executed, freed, pc>>

Terminated == phase = "fini" /\ UNCHANGED vars

WorkerStep(w) ==
    tq_dequeue(w) \/ LockAcquire(w) \/ PopFront(w) \/ Unlink(w) \/ PushFree(w)
      \/ LockRelease(w) \/ Run(w)

Next ==
    \/ \E t \in Task : tq_enqueue_seq(t)
    \/ start_workers
    \/ tq_finalize
    \/ \E w \in Worker : WorkerStep(w) \/ \E t \in Task : tq_enqueue(w, t)
    \/ Terminated

Spec == Init /\ [][Next]_vars

(* The main thread and every worker keep running.  No fairness of the      *)
(* locks is needed: a stage acquires them finitely often.                  *)
Fairness ==
    /\ WF_vars((\E t \in Task : tq_enqueue_seq(t)) \/ start_workers \/ tq_finalize)
    /\ \A w \in Worker : WF_vars(WorkerStep(w))

FairSpec == Spec /\ Fairness

-----------------------------------------------------------------------------
(* Properties. *)

PC == {"call", "acquire", "pop", "unlink", "pushfree", "release", "run", "done"}
Critical == {"pop", "unlink", "pushfree", "release"}

TypeOK ==
    /\ phase \in {"gen", "work", "fini"}
    /\ queues \in [Queue -> Seq(Task)]
    /\ freeQueues \in [Queue -> Seq(Task)]
    /\ lock \in [Queue -> Worker \cup {NULL}]
    /\ index \in [Worker -> Queue]
    /\ cur \in [Worker -> Queue]
    /\ elem \in [Worker -> Task \cup {NULL}]
    /\ executed \in [Task -> Nat]
    /\ freed \in [Task -> Nat]
    /\ pc \in [Worker -> PC]

(* Every stage ends, and then the entry of each task that was run has been *)
(* freed once.                                                             *)
StageEnds == <>(phase = "fini" /\ freed = executed)

(* The queues of a stage implement TaskPool: when a worker whose search    *)
(* failed at every queue in turn, at different times, concludes that       *)
(* "there really is no more work", nothing is left that was there when the *)
(* stage began.  A task is given out when it is unlinked, and to one       *)
(* worker only, however their searches overlap.                            *)
TP == INSTANCE TaskPool WITH
        Late <- Spawned,
        available <- {t \in Task : phase # "fini" /\ In(queues, t)},
        given <- [t \in Task |->
                    executed[t] + Cardinality({w \in Worker :
                      elem[w] = t /\ pc[w] \in {"pushfree", "release", "run"}})],
        idle <- {w \in Worker : pc[w] = "done"}
ImplementsTaskPool == TP!PoolSpec

-----------------------------------------------------------------------------
(* The inductive invariant behind ImplementsTaskPool.                      *)

PhaseInv ==
    /\ phase = "gen" => /\ \A w \in Worker : pc[w] = "call"
                        /\ \A t \in Task : executed[t] = 0
    /\ phase = "fini" => \A w \in Worker : pc[w] = "done"

LockInv == \A w \in Worker : pc[w] \in Critical => lock[cur[w]] = w

(* The entry read under the lock stays the head until it is unlinked. *)
HeadInv ==
    \A w \in Worker :
        pc[w] = "unlink" => /\ queues[cur[w]] # <<>>
                            /\ elem[w] = Head(queues[cur[w]])

(* A task in hand has been given out, and one that was given out is found  *)
(* in a free queue as soon as it can run.                                  *)
HandInv ==
    /\ \A w \in Worker : pc[w] \in {"unlink", "pushfree", "run"} => elem[w] \in Task
    /\ \A w \in Worker : pc[w] \in {"release", "run"} /\ elem[w] # NULL =>
                             In(freeQueues, elem[w])
    /\ \A t \in Task : phase # "fini" /\ executed[t] # 0 => In(freeQueues, t)

(* A task is in the queues at most once. *)
Once(qs) ==
    \A q, r \in Queue : \A m \in DOMAIN qs[q], n \in DOMAIN qs[r] :
        qs[q][m] = qs[r][n] => q = r /\ m = n

OnceInv == Once(queues)

(* The queues that w found empty since its search began: those from index  *)
(* up to cur, around the end of the array.                                 *)
Searched(w) ==
    {q \in Queue : IF index[w] <= cur[w] THEN index[w] <= q /\ q < cur[w]
                                         ELSE index[w] <= q \/ q < cur[w]}

Passed(w) ==
    {q \in Queue : \/ pc[w] = "done"
                   \/ pc[w] \in {"acquire", "pop"} /\ q \in Searched(w)
                   \/ /\ pc[w] = "release" /\ elem[w] = NULL
                      /\ q \in Searched(w) \/ q = cur[w]}

(* What is left in a queue that a worker has passed was put in during the  *)
(* stage, and whatever is in a queue, some worker still comes there.       *)
SearchInv ==
    /\ \A w \in Worker : \A q \in Passed(w) : \A m \in DOMAIN queues[q] :
           queues[q][m] \in Spawned
    /\ \A q \in Queue :
           (\A w \in Worker : q \in Passed(w)) => queues[q] = <<>>

IInv ==
    /\ TypeOK
    /\ PhaseInv
    /\ LockInv
    /\ HeadInv
    /\ HandInv
    /\ OnceInv
    /\ SearchInv
=============================================================================
