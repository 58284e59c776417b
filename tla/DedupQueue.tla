------------------------------ MODULE DedupQueue ------------------------------
(***************************************************************************)
(* The queue between the stages of dedup (K/dedup/src/queue.c, queue.h): a *)
(* ring buffer, a count of the producers that have terminated, a mutex and *)
(* two condition variables.  Each call moves a batch and sends one signal  *)
(* for it.  A critical section is one step; a wait on a condition variable *)
(* ends it, and the thread runs the test of its loop again in a later one, *)
(* after a signal, a broadcast, or for no reason at all.                   *)
(*                                                                         *)
(* The modules of the stages conjoin these actions with their own.         *)
(***************************************************************************)
EXTENDS Naturals, Sequences

CONSTANTS QThreads,    \* threads that use the queue
          Items,       \* pointers that travel through it
          QueueSize,   \* QUEUE_SIZE
          NProducers,  \* the number of producers given to queue_init
          NoItem

ASSUME QueueAssumption ==
  QueueSize \in Nat \ {0} /\ NProducers \in Nat \ {0} /\ NoItem \notin Items

VARIABLES data, head, tail,   \* the ring buffer
          nTerminated,
          waits               \* for each thread: "no", "notEmpty" or "notFull"
                              \* while it waits, "woken" until it has the mutex
queueVars == <<data, head, tail, nTerminated, waits>>

Slots == QueueSize + 1        \* one slot stays unused, to tell full from empty

QueueInit ==
  /\ data = [i \in 0..QueueSize |-> NoItem]
  /\ head = 0 /\ tail = 0
  /\ nTerminated = 0
  /\ waits = [t \in QThreads |-> "no"]

(* The types; the stale pointers the ring keeps are not items any more.    *)
QueueTypeOK ==
  /\ data \in [0..QueueSize -> Items \cup {NoItem}]
  /\ head \in 0..QueueSize /\ tail \in 0..QueueSize
  /\ nTerminated \in 0..NProducers
  /\ waits \in [QThreads -> {"no", "notEmpty", "notFull", "woken"}]
-----------------------------------------------------------------------------
IsEmpty == tail = head
IsFull  == head = (tail + Slots - 1) % Slots

(* The items in the ring, oldest first. *)
Used     == (head + Slots - tail) % Slots
Contents == [i \in 1..Used |-> data[(tail + (i - 1)) % Slots]]
Room     == QueueSize - Used

Smallest(a, b) == IF a < b THEN a ELSE b

(* ringbuffer_insert, once for each item of s. *)
InsertAll(s) ==
  /\ data' = [i \in 0..QueueSize |->
                LET k == ((i + Slots - head) % Slots) + 1
                IN IF k <= Len(s) THEN s[k] ELSE data[i]]
  /\ head' = (head + Len(s)) % Slots
  /\ UNCHANGED tail

(* ringbuffer_remove, k times; the pointers stay in the array. *)
RemoveOldest(k) ==
  /\ tail' = (tail + k) % Slots
  /\ UNCHANGED <<data, head>>
-----------------------------------------------------------------------------
QueueTerminated == nTerminated = NProducers

Waiting(cv) == {t \in QThreads : waits[t] = cv}
MayRun(t)   == waits[t] \in {"no", "woken"}

(* t leaves its own wait and signals cv: one thread that waits wakes, if   *)
(* there is one.                                                           *)
LeaveAndSignal(t, cv) ==
  IF Waiting(cv) = {}
  THEN waits' = [waits EXCEPT ![t] = "no"]
  ELSE \E u \in Waiting(cv) : waits' = [waits EXCEPT ![t] = "no", ![u] = "woken"]

(* The test of the while loop in queue_enqueue, and in queue_dequeue. *)
MustWaitToEnqueue(t) == IsFull
\* Mutant: "if" for "while" around the wait of queue_dequeue.
MustWaitToDequeueOnce(t) == waits[t] # "woken" /\ IsEmpty /\ ~QueueTerminated
MustWaitToDequeue(t) == IsEmpty /\ ~QueueTerminated

WaitNotFull(t) ==
  /\ MayRun(t) /\ MustWaitToEnqueue(t)
  /\ waits' = [waits EXCEPT ![t] = "notFull"]
  /\ UNCHANGED <<data, head, tail, nTerminated>>

WaitNotEmpty(t) ==
  /\ MayRun(t) /\ MustWaitToDequeue(t)
  /\ waits' = [waits EXCEPT ![t] = "notEmpty"]
  /\ UNCHANGED <<data, head, tail, nTerminated>>

(* queue_enqueue moves as much of buf as fits, at most limit items.        *)
NumToEnqueue(buf, limit) == Smallest(limit, Smallest(Room, Len(buf)))

Enqueue(t, buf, limit) ==
  /\ MayRun(t) /\ ~MustWaitToEnqueue(t)
  /\ InsertAll(SubSeq(buf, 1, NumToEnqueue(buf, limit)))
  /\ LeaveAndSignal(t, "notEmpty")
  /\ UNCHANGED nTerminated

(* queue_dequeue moves at most limit items, or returns -1 at the end.      *)
NumToDequeue(limit) == Smallest(limit, Used)

Dequeue(t, limit) ==
  /\ MayRun(t) /\ ~MustWaitToDequeue(t) /\ ~IsEmpty
  /\ RemoveOldest(NumToDequeue(limit))
  /\ LeaveAndSignal(t, "notFull")
  /\ UNCHANGED nTerminated

DequeueEnd(t) ==
  /\ MayRun(t) /\ ~MustWaitToDequeue(t) /\ IsEmpty
  /\ waits' = [waits EXCEPT ![t] = "no"]
  /\ UNCHANGED <<data, head, tail, nTerminated>>

(* queue_terminate; the last producer wakes all consumers.                 *)
Terminate(t) ==
  /\ nTerminated' = nTerminated + 1
  /\ waits' = IF nTerminated' = NProducers
              THEN [u \in QThreads |-> IF waits[u] = "notEmpty" THEN "woken" ELSE waits[u]]
              ELSE waits
  /\ UNCHANGED <<data, head, tail>>

(* POSIX lets a wait end without a signal. *)
SpuriousWakeup(t) ==
  /\ waits[t] \in {"notEmpty", "notFull"}
  /\ waits' = [waits EXCEPT ![t] = "woken"]
  /\ UNCHANGED <<data, head, tail, nTerminated>>
=============================================================================
