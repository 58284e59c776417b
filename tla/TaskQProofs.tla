----------------------------- MODULE TaskQProofs -----------------------------
(***************************************************************************)
(* Proofs about TaskQ, for every number of workers, tasks and queues: type *)
(* correctness, that the queues with their locks and the search over them  *)
(* implement TaskPool, and that each entry is freed once.                  *)
(***************************************************************************)
EXTENDS TaskQ, FiniteSetTheorems, TLAPS

-----------------------------------------------------------------------------
(* Facts about arrays of queues. *)

(* Putting a task at the end of a queue. *)
LEMMA AppendQueue ==
  ASSUME NEW qs \in [Queue -> Seq(Task)], NEW q \in Queue, NEW t \in Task
  PROVE  /\ [qs EXCEPT ![q] = Append(@, t)] \in [Queue -> Seq(Task)]
         /\ \A r \in Queue : r # q => [qs EXCEPT ![q] = Append(@, t)][r] = qs[r]
         /\ [qs EXCEPT ![q] = Append(@, t)][q] = Append(qs[q], t)
OBVIOUS

LEMMA AppendIn ==
  ASSUME NEW qs \in [Queue -> Seq(Task)], NEW q \in Queue, NEW t \in Task, NEW u
  PROVE  In([qs EXCEPT ![q] = Append(@, t)], u) <=> In(qs, u) \/ u = t
<1> DEFINE new == [qs EXCEPT ![q] = Append(@, t)]
<1>1. /\ DOMAIN new[q] = 1 .. Len(qs[q]) + 1 /\ DOMAIN qs[q] = 1 .. Len(qs[q])
      /\ Len(qs[q]) \in Nat
      /\ new[q][Len(qs[q]) + 1] = t
      /\ \A n \in DOMAIN qs[q] : new[q][n] = qs[q][n]
      /\ \A r \in Queue : r # q => new[r] = qs[r]
  OBVIOUS
<1> HIDE DEF new
<1>2. ASSUME In(new, u) PROVE In(qs, u) \/ u = t
  <2>1. PICK r \in Queue : \E n \in DOMAIN new[r] : new[r][n] = u
    BY <1>2 DEF In
  <2>2. CASE r # q
    BY <1>1, <2>1, <2>2 DEF In
  <2>3. CASE r = q
    BY <1>1, <2>1, <2>3 DEF In
  <2> QED
    BY <2>2, <2>3
<1>3. ASSUME In(qs, u) PROVE In(new, u)
  <2>1. PICK r \in Queue : \E n \in DOMAIN qs[r] : qs[r][n] = u
    BY <1>3 DEF In
  <2>2. \E n \in DOMAIN new[r] : new[r][n] = u
    BY <1>1, <2>1
  <2> QED
    BY <2>2 DEF In
<1>4. ASSUME u = t PROVE In(new, u)
  BY <1>1, <1>4 DEF In
<1>5. In(new, u) <=> In(qs, u) \/ u = t
  BY <1>2, <1>3, <1>4
<1> QED
  BY <1>5 DEF new

(* It keeps the tasks of the queues distinct, if it was in none.           *)
LEMMA AppendOnce ==
  ASSUME NEW qs \in [Queue -> Seq(Task)], NEW q \in Queue, NEW t \in Task,
         Once(qs), ~In(qs, t)
  PROVE  Once([qs EXCEPT ![q] = Append(@, t)])
<1> DEFINE new == [qs EXCEPT ![q] = Append(@, t)]
<1>1. /\ DOMAIN new[q] = 1 .. Len(qs[q]) + 1 /\ DOMAIN qs[q] = 1 .. Len(qs[q])
      /\ Len(qs[q]) \in Nat
      /\ new[q][Len(qs[q]) + 1] = t
      /\ \A n \in DOMAIN qs[q] : new[q][n] = qs[q][n]
      /\ \A r \in Queue : r # q => new[r] = qs[r]
  OBVIOUS
<1> HIDE DEF new
<1> SUFFICES ASSUME NEW a \in Queue, NEW b \in Queue,
                    NEW m \in DOMAIN new[a], NEW n \in DOMAIN new[b],
                    new[a][m] = new[b][n]
             PROVE  a = b /\ m = n
  BY DEF Once, new
<1> DEFINE Last(r, k) == r = q /\ k = Len(qs[q]) + 1
<1>2. ASSUME NEW r \in Queue, NEW l \in DOMAIN new[r], ~Last(r, l)
      PROVE  l \in DOMAIN qs[r] /\ new[r][l] = qs[r][l]
  <2>1. CASE r = q
    BY <1>1, <1>2, <2>1
  <2>2. CASE r # q
    BY <1>1, <2>2
  <2> QED
    BY <2>1, <2>2
<1>3. \A r \in Queue : \A k \in DOMAIN qs[r] : qs[r][k] # t
  BY DEF In
<1>4. CASE Last(a, m) /\ Last(b, n)
  BY <1>4
<1>5. CASE ~Last(a, m) /\ ~Last(b, n)
  <2>1. qs[a][m] = qs[b][n] /\ m \in DOMAIN qs[a] /\ n \in DOMAIN qs[b]
    BY <1>2, <1>5
  <2> QED
    BY <2>1 DEF Once
<1>6. CASE Last(a, m) /\ ~Last(b, n)
  BY <1>1, <1>2, <1>3, <1>6
<1>7. CASE ~Last(a, m) /\ Last(b, n)
  BY <1>1, <1>2, <1>3, <1>7
<1> QED
  BY <1>4, <1>5, <1>6, <1>7

(* Taking the head of a queue whose tasks are distinct.                    *)
LEMMA TailQueue ==
  ASSUME NEW qs \in [Queue -> Seq(Task)], NEW q \in Queue, Once(qs),
         qs[q] # <<>>
  PROVE  /\ [qs EXCEPT ![q] = Tail(@)] \in [Queue -> Seq(Task)]
         /\ In(qs, Head(qs[q]))
         /\ \A r \in Queue : \A n \in DOMAIN [qs EXCEPT ![q] = Tail(@)][r] :
               \E m \in DOMAIN qs[r] : [qs EXCEPT ![q] = Tail(@)][r][n] = qs[r][m]
         /\ \A u : In([qs EXCEPT ![q] = Tail(@)], u) <=> In(qs, u) /\ u # Head(qs[q])
         /\ Once([qs EXCEPT ![q] = Tail(@)])
<1> DEFINE new == [qs EXCEPT ![q] = Tail(@)]
<1>1. /\ new \in [Queue -> Seq(Task)] /\ new[q] = Tail(qs[q])
      /\ \A r \in Queue : r # q => new[r] = qs[r]
  OBVIOUS
<1> HIDE DEF new
<1>2. /\ qs[q] \in Seq(Task) /\ Len(qs[q]) \in Nat /\ Len(qs[q]) > 0
      /\ DOMAIN qs[q] = 1 .. Len(qs[q]) /\ Head(qs[q]) = qs[q][1]
  OBVIOUS
<1>3. /\ DOMAIN new[q] = 1 .. Len(qs[q]) - 1
      /\ \A n \in 1 .. Len(qs[q]) - 1 : new[q][n] = qs[q][n + 1]
  BY <1>1, <1>2
<1> DEFINE Old(r, n) == IF r = q THEN n + 1 ELSE n
<1>4. \A r \in Queue : \A n \in DOMAIN new[r] :
         /\ Old(r, n) \in DOMAIN qs[r] /\ new[r][n] = qs[r][Old(r, n)]
         /\ r = q => n \in Nat /\ Old(r, n) # 1
  <2> SUFFICES ASSUME NEW r \in Queue, NEW n \in DOMAIN new[r]
               PROVE  /\ Old(r, n) \in DOMAIN qs[r] /\ new[r][n] = qs[r][Old(r, n)]
                      /\ r = q => n \in Nat /\ Old(r, n) # 1
    OBVIOUS
  <2>1. CASE r = q
    BY <1>2, <1>3, <2>1
  <2>2. CASE r # q
    BY <1>1, <2>2
  <2> QED
    BY <2>1, <2>2
<1>5. \A r \in Queue : \A n \in DOMAIN qs[r] :
         \/ r = q /\ n = 1
         \/ \E m \in DOMAIN new[r] : new[r][m] = qs[r][n]
  <2> SUFFICES ASSUME NEW r \in Queue, NEW n \in DOMAIN qs[r], ~(r = q /\ n = 1)
               PROVE  \E m \in DOMAIN new[r] : new[r][m] = qs[r][n]
    OBVIOUS
  <2>1. CASE r # q
    BY <1>1, <2>1
  <2>2. CASE r = q
    <3>1. n - 1 \in DOMAIN new[q] /\ new[q][n - 1] = qs[q][n]
      BY <1>2, <1>3, <2>2
    <3> QED
      BY <2>2, <3>1
  <2> QED
    BY <2>1, <2>2
<1>6. \A r \in Queue : \A n \in DOMAIN qs[r] :
         qs[r][n] = Head(qs[q]) => r = q /\ n = 1
  BY <1>2 DEF Once
<1>7. ASSUME NEW u PROVE In(new, u) <=> In(qs, u) /\ u # Head(qs[q])
  <2>1. ASSUME In(new, u) PROVE In(qs, u) /\ u # Head(qs[q])
    <3>1. PICK r \in Queue : \E n \in DOMAIN new[r] : new[r][n] = u
      BY <2>1 DEF In
    <3> QED
      BY <1>4, <1>6, <3>1 DEF In
  <2>2. ASSUME In(qs, u), u # Head(qs[q]) PROVE In(new, u)
    <3>1. PICK r \in Queue : \E n \in DOMAIN qs[r] : qs[r][n] = u
      BY <2>2 DEF In
    <3> QED
      BY <1>2, <1>5, <2>2, <3>1 DEF In
  <2> QED
    BY <2>1, <2>2
<1>8. Once(new)
  <2> SUFFICES ASSUME NEW a \in Queue, NEW b \in Queue,
                      NEW m \in DOMAIN new[a], NEW n \in DOMAIN new[b],
                      new[a][m] = new[b][n]
               PROVE  a = b /\ m = n
    BY DEF Once
  <2>1. qs[a][Old(a, m)] = qs[b][Old(b, n)]
    BY <1>4
  <2>2. a = b /\ Old(a, m) = Old(b, n)
    BY <1>4, <2>1 DEF Once
  <2> QED
    BY <1>4, <2>2
<1>9. In(qs, Head(qs[q]))
  BY <1>2 DEF In
<1>10. \A r \in Queue : \A n \in DOMAIN new[r] :
          \E m \in DOMAIN qs[r] : new[r][n] = qs[r][m]
  BY <1>4, Zenon
<1> QED
  BY <1>1, <1>7, <1>8, <1>9, <1>10 DEF new

\* Only what TailQueue says of the tasks in the queues.
LEMMA TailIn ==
  ASSUME NEW qs \in [Queue -> Seq(Task)], NEW q \in Queue, Once(qs),
         qs[q] # <<>>
  PROVE  /\ In(qs, Head(qs[q]))
         /\ \A u : In([qs EXCEPT ![q] = Tail(@)], u) <=> In(qs, u) /\ u # Head(qs[q])
BY TailQueue
-----------------------------------------------------------------------------
(* Types. *)

(* The search stays among the queues. *)
LEMMA StealType ==
  ASSUME TypeOK, NEW w \in Worker
  PROVE  /\ Steal(w) \in Queue
         /\ cur[w] \in 0 .. NumQueues - 1 /\ index[w] \in 0 .. NumQueues - 1
         /\ Steal(w) = IF cur[w] + 1 = NumQueues THEN 0 ELSE cur[w] + 1
<1>1. cur[w] \in 0 .. NumQueues - 1 /\ index[w] \in 0 .. NumQueues - 1
  BY DEF TypeOK, Queue
<1>2. (cur[w] + 1) % NumQueues = IF cur[w] + 1 = NumQueues THEN 0 ELSE cur[w] + 1
  BY <1>1, NumQueuesAssumption
<1> QED
  BY <1>1, <1>2, NumQueuesAssumption DEF Steal, Queue

(* Counting one more run of a task. *)
LEMMA CountType ==
  ASSUME NEW S, NEW f \in [S -> Nat], NEW x
  PROVE  [f EXCEPT ![x] = @ + 1] \in [S -> Nat]
<1>1. CASE x \in S
  BY <1>1
<1>2. CASE x \notin S
  <2>1. [f EXCEPT ![x] = @ + 1] = f
    BY <1>2, Zenon
  <2> QED
    BY <2>1
<1> QED
  BY <1>1, <1>2

LEMMA QueueFinite == IsFiniteSet(Queue) /\ 0 \in Queue
BY NumQueuesAssumption, FS_Interval DEF Queue

LEMMA TypeStep == IInv /\ [Next]_vars => TypeOK'
<1> SUFFICES ASSUME IInv, [Next]_vars PROVE TypeOK'
  OBVIOUS
<1>0. TypeOK
  BY DEF IInv
<1> USE <1>0 DEF TypeOK
<1>1. CASE \E t \in Task : tq_enqueue_seq(t)
  <2>1. PICK t \in Task : tq_enqueue_seq(t)
    BY <1>1
  <2>2. queues' \in [Queue -> Seq(Task)]
    BY <2>1, AppendQueue DEF tq_enqueue_seq
  <2> QED
    BY <2>1, <2>2 DEF tq_enqueue_seq
<1>2. CASE start_workers
  BY <1>2 DEF start_workers
<1>3. CASE tq_finalize
  <2> DEFINE InQueues(t) == {q \in Queue : \E i \in DOMAIN queues[q] : queues[q][i] = t}
             InFree(t) == {p \in Queue \X (1 .. Cardinality(Task)) :
                             /\ p[2] \in DOMAIN freeQueues[p[1]]
                             /\ freeQueues[p[1]][p[2]] = t}
  <2>1. \A t \in Task : /\ Cardinality(InQueues(t)) \in Nat
                        /\ Cardinality(InFree(t)) \in Nat
    <3> TAKE t \in Task
    <3>1. IsFiniteSet(InQueues(t))
      BY QueueFinite, FS_Subset
    <3>2. IsFiniteSet(1 .. Cardinality(Task))
      BY TaskAssumption, FS_CardinalityType, FS_Interval
    <3>3. IsFiniteSet(Queue \X (1 .. Cardinality(Task)))
      BY QueueFinite, <3>2, FS_Product
    <3>4. IsFiniteSet(InFree(t))
      BY <3>3, FS_Subset
    <3> QED
      BY <3>1, <3>4, FS_CardinalityType
  <2>2. freed' \in [Task -> Nat]
    <3>1. freed' = [t \in Task |-> Cardinality(InQueues(t)) + Cardinality(InFree(t))]
      BY <1>3 DEF tq_finalize
    <3> HIDE DEF InQueues, InFree
    <3> QED
      BY <2>1, <3>1
  <2>3. <<>> \in Seq(Task)
    OBVIOUS
  <2> QED
    BY <1>3, <2>2, <2>3 DEF tq_finalize
<1>4. ASSUME NEW w \in Worker, WorkerStep(w) PROVE TypeOK'
  <2>1. CASE tq_dequeue(w)
    BY <2>1 DEF tq_dequeue, Goto, PC
  <2>2. CASE LockAcquire(w)
    BY <2>2 DEF LockAcquire, Goto, PC
  <2>3. CASE PopFront(w)
    <3>1. queues[cur[w]] # <<>> => Head(queues[cur[w]]) \in Task
      OBVIOUS
    <3> QED
      BY <2>3, <3>1 DEF PopFront, Goto, PC
  <2>4. CASE Unlink(w)
    <3>1. PICK q \in Queue : q = cur[w]
      OBVIOUS
    <3>2. (IF queues[q] # <<>> /\ Head(queues[q]) = elem[w] THEN Tail(queues[q])
           ELSE queues[q]) \in Seq(Task)
      OBVIOUS
    <3>3. queues' \in [Queue -> Seq(Task)]
      BY <2>4, <3>1, <3>2 DEF Unlink
    <3>4. pc' \in [Worker -> PC]
      BY <2>4 DEF Unlink, Goto, PC
    <3> QED
      BY <2>4, <3>3, <3>4 DEF Unlink
  <2>5. CASE PushFree(w)
    <3>1. elem[w] \in Task
      BY <2>5 DEF PushFree, IInv, HandInv
    <3>2. freeQueues' \in [Queue -> Seq(Task)]
      BY <2>5, <3>1, AppendQueue DEF PushFree
    <3> QED
      BY <2>5, <3>2 DEF PushFree, Goto, PC
  <2>6. CASE LockRelease(w)
    <3>1. cur' \in [Worker -> Queue]
      BY <2>6, StealType DEF LockRelease, AfterTry
    <3>2. pc' \in [Worker -> PC]
      BY <2>6 DEF LockRelease, AfterTry, Goto, PC
    <3> QED
      BY <2>6, <3>1, <3>2 DEF LockRelease, AfterTry
  <2>7. CASE Run(w)
    <3>1. executed' \in [Task -> Nat]
      BY <2>7, CountType DEF Run
    <3> QED
      BY <2>7, <3>1 DEF Run, Goto, PC
  <2> QED
    BY <1>4, <2>1, <2>2, <2>3, <2>4, <2>5, <2>6, <2>7 DEF WorkerStep
<1>5. ASSUME NEW w \in Worker, NEW t \in Task, tq_enqueue(w, t) PROVE TypeOK'
  <2>1. queues' \in [Queue -> Seq(Task)]
    BY <1>5, AppendQueue DEF tq_enqueue
  <2> QED
    BY <1>5, <2>1 DEF tq_enqueue
<1>6. CASE UNCHANGED vars
  BY <1>6 DEF vars
<1> QED
  BY <1>1, <1>2, <1>3, <1>4, <1>5, <1>6 DEF Next, Terminated

-----------------------------------------------------------------------------
(* Phases, locks, and the entries in hand. *)

LEMMA PhaseStep == IInv /\ [Next]_vars => PhaseInv'
<1> SUFFICES ASSUME IInv, [Next]_vars PROVE PhaseInv'
  OBVIOUS
<1>1. TypeOK /\ PhaseInv
  BY DEF IInv
<1>2. CASE (\E t \in Task : tq_enqueue_seq(t)) \/ start_workers \/ tq_finalize
  BY <1>1, <1>2 DEF tq_enqueue_seq, start_workers, tq_finalize, PhaseInv
<1>3. ASSUME NEW w \in Worker, WorkerStep(w) PROVE PhaseInv'
  <2>1. phase' = phase /\ phase = "work"
    BY <1>1, <1>3
       DEF WorkerStep, tq_dequeue, LockAcquire, PopFront, Unlink, PushFree,
           LockRelease, AfterTry, Run, TypeOK, PhaseInv
  <2> QED
    BY <2>1 DEF PhaseInv
<1>4. ASSUME NEW w \in Worker, NEW t \in Task, tq_enqueue(w, t) PROVE PhaseInv'
  BY <1>1, <1>4 DEF tq_enqueue, PhaseInv
<1>5. CASE UNCHANGED vars
  BY <1>1, <1>5 DEF vars, PhaseInv
<1> QED
  BY <1>2, <1>3, <1>4, <1>5 DEF Next, Terminated

LEMMA LockStep == IInv /\ [Next]_vars => LockInv'
<1> SUFFICES ASSUME IInv, [Next]_vars PROVE LockInv'
  OBVIOUS
<1>1. TypeOK /\ LockInv
  BY DEF IInv
<1> USE DEF Critical, Goto
<1>2. CASE (\E t \in Task : tq_enqueue_seq(t)) \/ start_workers \/ tq_finalize
  BY <1>1, <1>2 DEF tq_enqueue_seq, start_workers, tq_finalize, LockInv
<1>3. ASSUME NEW w \in Worker, WorkerStep(w) PROVE LockInv'
  <2> USE <1>1 DEF TypeOK
  <2>1. CASE tq_dequeue(w)
    BY <2>1 DEF tq_dequeue, LockInv
  <2>2. CASE LockAcquire(w)
    <3> SUFFICES ASSUME NEW v \in Worker, pc'[v] \in Critical
                 PROVE  lock'[cur[v]] = v
      BY <2>2 DEF LockAcquire, LockInv
    <3>1. CASE v = w
      BY <2>2, <3>1 DEF LockAcquire
    <3>2. CASE v # w
      <4>1. lock[cur[v]] = v /\ lock[cur[w]] = NULL /\ v # NULL
        BY <2>2, <3>2, NULLAssumption DEF LockAcquire, LockInv
      <4> QED
        BY <2>2, <4>1 DEF LockAcquire
    <3> QED
      BY <3>1, <3>2
  <2>3. CASE PopFront(w) \/ Unlink(w) \/ PushFree(w) \/ Run(w)
    BY <2>3 DEF PopFront, Unlink, PushFree, Run, LockInv
  <2>4. CASE LockRelease(w)
    <3> SUFFICES ASSUME NEW v \in Worker, pc'[v] \in Critical
                 PROVE  lock'[cur'[v]] = v
      BY DEF LockInv
    <3>1. v # w /\ pc[v] \in Critical /\ cur'[v] = cur[v]
      BY <2>4 DEF LockRelease, AfterTry
    <3>2. lock[cur[v]] = v /\ lock[cur[w]] = w
      BY <2>4, <3>1 DEF LockRelease, AfterTry, LockInv
    <3> QED
      BY <2>4, <3>1, <3>2 DEF LockRelease, AfterTry
  <2> QED
    BY <1>3, <2>1, <2>2, <2>3, <2>4 DEF WorkerStep
<1>4. ASSUME NEW w \in Worker, NEW t \in Task, tq_enqueue(w, t) PROVE LockInv'
  BY <1>1, <1>4 DEF tq_enqueue, LockInv
<1>5. CASE UNCHANGED vars
  BY <1>1, <1>5 DEF vars, LockInv
<1> QED
  BY <1>2, <1>3, <1>4, <1>5 DEF Next, Terminated

(* Two workers in critical sections are at different queues. *)
LEMMA OneInside ==
  ASSUME LockInv, NEW v \in Worker, NEW w \in Worker, v # w,
         pc[v] \in Critical, pc[w] \in Critical
  PROVE  cur[v] # cur[w]
BY DEF LockInv

LEMMA HeadStep == IInv /\ [Next]_vars => HeadInv'
<1> SUFFICES ASSUME IInv, [Next]_vars PROVE HeadInv'
  OBVIOUS
<1>1. TypeOK /\ LockInv /\ HeadInv /\ PhaseInv
  BY DEF IInv
<1> USE DEF Goto
<1>2. CASE (\E t \in Task : tq_enqueue_seq(t)) \/ start_workers \/ tq_finalize
  <2>1. \A w \in Worker : pc'[w] # "unlink"
    BY <1>1, <1>2 DEF tq_enqueue_seq, start_workers, tq_finalize, PhaseInv
  <2> QED
    BY <2>1 DEF HeadInv
<1>3. ASSUME NEW w \in Worker, WorkerStep(w) PROVE HeadInv'
  <2> USE <1>1 DEF TypeOK
  <2>1. CASE tq_dequeue(w) \/ LockAcquire(w) \/ PushFree(w) \/ LockRelease(w) \/ Run(w)
    <3>1. /\ queues' = queues
          /\ \A v \in Worker \ {w} : pc'[v] = pc[v] /\ cur'[v] = cur[v] /\ elem'[v] = elem[v]
      BY <2>1 DEF tq_dequeue, LockAcquire, PushFree, LockRelease, AfterTry, Run
    <3>2. pc'[w] # "unlink"
      BY <2>1 DEF tq_dequeue, LockAcquire, PushFree, LockRelease, AfterTry, Run
    <3> QED
      BY <3>1, <3>2 DEF HeadInv
  <2>2. CASE PopFront(w)
    <3>1. /\ queues' = queues /\ cur' = cur
          /\ \A v \in Worker \ {w} : pc'[v] = pc[v] /\ elem'[v] = elem[v]
      BY <2>2 DEF PopFront
    <3>2. pc'[w] = "unlink" => queues[cur[w]] # <<>> /\ elem'[w] = Head(queues[cur[w]])
      BY <2>2 DEF PopFront
    <3> QED
      BY <3>1, <3>2 DEF HeadInv
  <2>3. CASE Unlink(w)
    <3> SUFFICES ASSUME NEW v \in Worker, pc'[v] = "unlink"
                 PROVE  /\ queues'[cur'[v]] # <<>>
                        /\ elem'[v] = Head(queues'[cur'[v]])
      BY DEF HeadInv
    <3>1. v # w /\ pc[v] = "unlink" /\ cur[v] # cur[w]
      BY <2>3, OneInside DEF Unlink, Critical
    <3>2. queues'[cur[v]] = queues[cur[v]] /\ cur' = cur /\ elem' = elem
      BY <2>3, <3>1 DEF Unlink
    <3> QED
      BY <3>1, <3>2 DEF HeadInv
  <2> QED
    BY <1>3, <2>1, <2>2, <2>3 DEF WorkerStep
<1>4. ASSUME NEW w \in Worker, NEW t \in Task, tq_enqueue(w, t) PROVE HeadInv'
  <2> SUFFICES ASSUME NEW v \in Worker, pc[v] = "unlink"
               PROVE  /\ queues'[cur[v]] # <<>>
                      /\ elem[v] = Head(queues'[cur[v]])
    BY <1>4 DEF HeadInv, tq_enqueue
  <2>1. lock[cur[v]] = v /\ v # NULL /\ cur[v] \in Queue
    BY <1>1, NULLAssumption DEF LockInv, Critical, TypeOK
  <2>2. queues'[cur[v]] = queues[cur[v]]
    BY <1>1, <1>4, <2>1 DEF tq_enqueue, TypeOK
  <2> QED
    BY <1>1, <2>2 DEF HeadInv
<1>5. CASE UNCHANGED vars
  BY <1>1, <1>5 DEF vars, HeadInv
<1> QED
  BY <1>2, <1>3, <1>4, <1>5 DEF Next, Terminated

(* A step that leaves the free queues alone takes nothing out of them. *)
LEMMA FreeFrame ==
  ASSUME freeQueues' = freeQueues
  PROVE  \A u : In(freeQueues, u)' <=> In(freeQueues, u)
BY DEF In

(* The step of Unlink: the head of the queue leaves it. *)
LEMMA UnlinkTakes ==
  ASSUME IInv, NEW w \in Worker, Unlink(w)
  PROVE  /\ queues' = [queues EXCEPT ![cur[w]] = Tail(@)]
         /\ queues[cur[w]] # <<>> /\ Head(queues[cur[w]]) = elem[w]
         /\ cur[w] \in Queue /\ elem[w] \in Task
BY DEF IInv, HeadInv, HandInv, Unlink, TypeOK

LEMMA HandStep == IInv /\ [Next]_vars => HandInv'
<1> SUFFICES ASSUME IInv, [Next]_vars PROVE HandInv'
  OBVIOUS
<1>1. TypeOK /\ HandInv /\ PhaseInv
  BY DEF IInv
<1> USE DEF Goto
<1>2. CASE (\E t \in Task : tq_enqueue_seq(t)) \/ start_workers
  BY <1>1, <1>2 DEF tq_enqueue_seq, start_workers, PhaseInv, HandInv, In
<1>3. CASE tq_finalize
  BY <1>1, <1>3 DEF tq_finalize, HandInv
<1>4. ASSUME NEW w \in Worker, WorkerStep(w) PROVE HandInv'
  <2> USE <1>1 DEF TypeOK
  <2>1. CASE tq_dequeue(w) \/ LockAcquire(w) \/ Unlink(w)
    <3>1. UNCHANGED <<phase, freeQueues, elem, executed>>
      BY <2>1 DEF tq_dequeue, LockAcquire, Unlink
    <3>2. /\ \A v \in Worker : v # w => pc'[v] = pc[v]
          /\ pc'[w] \in {"acquire", "pop", "pushfree"}
          /\ pc'[w] = "pushfree" => pc[w] = "unlink"
      BY <2>1 DEF tq_dequeue, LockAcquire, Unlink
    <3> QED
      BY <3>1, <3>2, FreeFrame DEF HandInv
  <2>2. CASE PopFront(w)
    <3>1. queues[cur[w]] # <<>> => Head(queues[cur[w]]) \in Task
      OBVIOUS
    <3>2. /\ UNCHANGED <<phase, freeQueues, executed>>
          /\ \A v \in Worker : v # w => pc'[v] = pc[v] /\ elem'[v] = elem[v]
      BY <2>2 DEF PopFront
    <3>3. \/ pc'[w] = "release" /\ elem'[w] = NULL
          \/ pc'[w] = "unlink" /\ elem'[w] \in Task
      BY <2>2, <3>1 DEF PopFront
    <3> QED
      BY <3>2, <3>3, FreeFrame DEF HandInv
  <2>3. CASE PushFree(w)
    <3>1. elem[w] \in Task
      BY <2>3 DEF PushFree, HandInv
    <3>2. \A u : In(freeQueues, u)' <=> In(freeQueues, u) \/ u = elem[w]
      <4>1. /\ freeQueues' = [freeQueues EXCEPT ![cur[w]] = Append(@, elem[w])]
            /\ cur[w] \in Queue
            /\ freeQueues \in [Queue -> Seq(Task)]
        BY <2>3 DEF PushFree
      <4>2. \A u : In([freeQueues EXCEPT ![cur[w]] = Append(@, elem[w])], u)
                     <=> In(freeQueues, u) \/ u = elem[w]
        BY <3>1, <4>1, AppendIn
      <4>3. \A u : In(freeQueues, u)' <=> In(freeQueues', u)
        BY DEF In
      <4> QED
        BY <4>1, <4>2, <4>3
    <3>3. /\ UNCHANGED <<phase, elem, executed>>
          /\ pc[w] = "pushfree" /\ pc' = [pc EXCEPT ![w] = "release"]
      BY <2>3 DEF PushFree
    <3> QED
      BY <3>1, <3>2, <3>3 DEF HandInv
  <2>4. CASE LockRelease(w)
    <3>1. \A u : In(freeQueues, u)' <=> In(freeQueues, u)
      BY <2>4 DEF LockRelease, AfterTry, In
    <3>2. /\ UNCHANGED <<phase, elem, executed>>
          /\ pc[w] = "release" /\ \A v \in Worker : v # w => pc'[v] = pc[v]
          /\ pc'[w] \in {"run", "acquire", "done"}
          /\ pc'[w] = "run" => elem[w] # NULL
      BY <2>4 DEF LockRelease, AfterTry
    <3> QED
      BY <3>1, <3>2 DEF HandInv
  <2>5. CASE Run(w)
    <3>1. In(freeQueues, elem[w]) /\ elem[w] \in Task
      BY <2>5, NULLAssumption DEF Run, HandInv
    <3>2. \A u : In(freeQueues, u)' <=> In(freeQueues, u)
      BY <2>5 DEF Run, In
    <3>3. \A t \in Task : t # elem[w] => executed'[t] = executed[t]
      BY <2>5 DEF Run
    <3>4. /\ phase' = phase /\ elem' = [elem EXCEPT ![w] = NULL]
          /\ pc' = [pc EXCEPT ![w] = "call"]
      BY <2>5 DEF Run
    <3> QED
      BY <3>1, <3>2, <3>3, <3>4 DEF HandInv
  <2> QED
    BY <1>4, <2>1, <2>2, <2>3, <2>4, <2>5 DEF WorkerStep
<1>5. ASSUME NEW w \in Worker, NEW t \in Task, tq_enqueue(w, t) PROVE HandInv'
  BY <1>1, <1>5 DEF tq_enqueue, HandInv, In
<1>6. CASE UNCHANGED vars
  BY <1>1, <1>6 DEF vars, HandInv, In
<1> QED
  BY <1>2, <1>3, <1>4, <1>5, <1>6 DEF Next, Terminated

-----------------------------------------------------------------------------
(* What the queues hold, and the search over them. *)

(* The steps of a worker inside tq_dequeue take the head of its queue, or  *)
(* leave the queues alone.                                                 *)
LEMMA WorkerQueues ==
  ASSUME IInv, NEW w \in Worker, WorkerStep(w)
  PROVE  queues' = queues \/ Unlink(w)
BY DEF WorkerStep, tq_dequeue, LockAcquire, PopFront, PushFree, LockRelease, AfterTry, Run

LEMMA OnceStep == IInv /\ [Next]_vars => OnceInv'
<1> SUFFICES ASSUME IInv, [Next]_vars PROVE Once(queues')
  BY DEF OnceInv, Once
<1>1. queues \in [Queue -> Seq(Task)] /\ Once(queues)
  BY DEF IInv, TypeOK, OnceInv
<1>2. ASSUME NEW t \in Task, tq_enqueue_seq(t) PROVE Once(queues')
  BY <1>1, <1>2, AppendOnce DEF tq_enqueue_seq
<1>3. CASE start_workers
  BY <1>1, <1>3 DEF start_workers
<1>4. CASE tq_finalize
  BY <1>4 DEF tq_finalize, Once
<1>5. ASSUME NEW w \in Worker, WorkerStep(w) PROVE Once(queues')
  <2>1. CASE queues' = queues
    BY <1>1, <2>1
  <2>2. CASE Unlink(w)
    <3>1. /\ queues' = [queues EXCEPT ![cur[w]] = Tail(@)]
          /\ queues[cur[w]] # <<>> /\ cur[w] \in Queue
      BY <2>2, UnlinkTakes
    <3>2. Once([queues EXCEPT ![cur[w]] = Tail(@)])
      BY <1>1, <3>1, TailQueue
    <3> QED
      BY <3>1, <3>2
  <2> QED
    BY <1>5, <2>1, <2>2, WorkerQueues
<1>6. ASSUME NEW w \in Worker, NEW t \in Task, tq_enqueue(w, t) PROVE Once(queues')
  BY <1>1, <1>6, AppendOnce DEF tq_enqueue
<1>7. CASE UNCHANGED vars
  BY <1>1, <1>7 DEF vars
<1> QED
  BY <1>2, <1>3, <1>4, <1>5, <1>6, <1>7 DEF Next, Terminated

(* The search moves on by one queue, and when it is back at the queue it   *)
(* began with it has passed them all.                                      *)
LEMMA SearchMoves ==
  ASSUME TypeOK, NEW w \in Worker, NEW q \in Queue,
         IF index[w] <= Steal(w) THEN index[w] <= q /\ q < Steal(w)
                                 ELSE index[w] <= q \/ q < Steal(w),
         Steal(w) # index[w]
  PROVE  q \in Searched(w) \/ q = cur[w]
BY StealType, NumQueuesAssumption DEF Searched, Queue

LEMMA SearchComplete ==
  ASSUME TypeOK, NEW w \in Worker, NEW q \in Queue, Steal(w) = index[w]
  PROVE  q \in Searched(w) \/ q = cur[w]
BY StealType, NumQueuesAssumption DEF Searched, Queue

(* A worker passes a queue only when that queue is empty. *)
LEMMA PassedOnlyEmpty ==
  ASSUME IInv, NEW w \in Worker, WorkerStep(w), NEW v \in Worker,
         NEW q \in Queue, q \in Passed(v)'
  PROVE  q \in Passed(v) \/ queues[q] = <<>>
<1>1. TypeOK
  BY DEF IInv
<1> USE DEF Goto
<1>2. CASE v # w
  <2>1. /\ pc'[v] = pc[v] /\ index'[v] = index[v] /\ cur'[v] = cur[v]
        /\ elem'[v] = elem[v]
    BY <1>1, <1>2
       DEF TypeOK, WorkerStep, tq_dequeue, LockAcquire, PopFront, Unlink,
           PushFree, LockRelease, AfterTry, Run
  <2> QED
    BY <2>1 DEF Passed, Searched
<1>3. CASE v = w
  <2> USE <1>1, <1>3 DEF TypeOK
  <2>1. CASE tq_dequeue(w)
    <3>1. pc'[w] = "acquire" /\ index'[w] = cur'[w] /\ cur'[w] \in Queue
      BY <2>1 DEF tq_dequeue
    <3>2. q \in Int /\ cur'[w] \in Int
      BY <3>1, NumQueuesAssumption DEF Queue
    <3>3. q \notin Searched(w)'
      BY <3>1, <3>2 DEF Searched
    <3> QED
      BY <3>1, <3>3 DEF Passed
  <2>2. CASE LockAcquire(w)
    BY <2>2 DEF LockAcquire, Passed, Searched
  <2>3. CASE PopFront(w)
    <3>1. /\ pc[w] = "pop" /\ UNCHANGED <<index, cur>>
          /\ pc'[w] \in {"release", "unlink"}
          /\ pc'[w] = "release" => queues[cur[w]] = <<>>
      BY <2>3 DEF PopFront
    <3> QED
      BY <3>1 DEF Passed, Searched
  <2>4. CASE Unlink(w) \/ Run(w)
    BY <2>4 DEF Unlink, Run, Passed
  <2>5. CASE PushFree(w)
    <3>1. pc'[w] = "release" /\ elem'[w] # NULL
      BY <2>5, NULLAssumption DEF PushFree, IInv, HandInv
    <3> QED
      BY <3>1 DEF Passed
  <2>6. CASE LockRelease(w)
    <3>1. pc[w] = "release" /\ UNCHANGED <<index, elem>>
      BY <2>6 DEF LockRelease, AfterTry
    <3>2. CASE pc'[w] = "run"
      BY <3>2 DEF Passed
    <3>3. CASE pc'[w] = "acquire"
      <4>1. elem[w] = NULL /\ Steal(w) # index[w] /\ cur'[w] = Steal(w)
        BY <2>6, <3>1, <3>3 DEF LockRelease, AfterTry
      <4>2. IF index[w] <= Steal(w) THEN index[w] <= q /\ q < Steal(w)
                                    ELSE index[w] <= q \/ q < Steal(w)
        BY <3>1, <3>3, <4>1 DEF Passed, Searched
      <4>3. q \in Searched(w) \/ q = cur[w]
        BY <4>1, <4>2, SearchMoves
      <4> QED
        BY <3>1, <4>1, <4>3 DEF Passed
    <3>4. CASE pc'[w] = "done"
      <4>1. elem[w] = NULL /\ Steal(w) = index[w]
        BY <2>6, <3>1, <3>4 DEF LockRelease, AfterTry
      <4> QED
        BY <3>1, <4>1, SearchComplete DEF Passed
    <3>5. pc'[w] \in {"run", "acquire", "done"}
      BY <2>6 DEF LockRelease, AfterTry
    <3> QED
      BY <3>2, <3>3, <3>4, <3>5
  <2> QED
    BY <2>1, <2>2, <2>3, <2>4, <2>5, <2>6 DEF WorkerStep
<1> QED
  BY <1>2, <1>3

LEMMA SearchStep == IInv /\ [Next]_vars => SearchInv'
<1> SUFFICES ASSUME IInv, [Next]_vars PROVE SearchInv'
  OBVIOUS
<1>1. TypeOK /\ PhaseInv /\ SearchInv
  BY DEF IInv
<1>2. CASE \E t \in Task : tq_enqueue_seq(t)
  <2>1. \A w \in Worker : Passed(w)' = {}
    BY <1>1, <1>2 DEF tq_enqueue_seq, PhaseInv, Passed
  <2> QED
    BY <2>1, WorkerAssumption DEF SearchInv
<1>3. CASE start_workers \/ UNCHANGED vars
  <2>1. queues' = queues /\ \A w : Passed(w)' = Passed(w)
    BY <1>3 DEF start_workers, vars, Passed, Searched
  <2> QED
    BY <1>1, <2>1 DEF SearchInv
<1>4. CASE tq_finalize
  <2>1. \A q \in Queue : queues'[q] = <<>>
    BY <1>4 DEF tq_finalize
  <2> QED
    BY <2>1 DEF SearchInv, Passed
<1>5. ASSUME NEW w \in Worker, WorkerStep(w) PROVE SearchInv'
  <2>1. \A q \in Queue :
          /\ \A n \in DOMAIN queues'[q] :
                \E m \in DOMAIN queues[q] : queues'[q][n] = queues[q][m]
          /\ queues[q] = <<>> => queues'[q] = <<>>
    <3>1. CASE queues' = queues
      BY <3>1
    <3>2. CASE Unlink(w)
      <4>1. \A q \in Queue : \A n \in DOMAIN queues'[q] :
              \E m \in DOMAIN queues[q] : queues'[q][n] = queues[q][m]
        <5>1. queues \in [Queue -> Seq(Task)] /\ Once(queues)
          BY DEF IInv, TypeOK, OnceInv
        <5>2. /\ queues' = [queues EXCEPT ![cur[w]] = Tail(@)]
              /\ queues[cur[w]] # <<>> /\ cur[w] \in Queue
          BY <3>2, UnlinkTakes
        <5>3. \A q \in Queue :
                \A n \in DOMAIN [queues EXCEPT ![cur[w]] = Tail(@)][q] :
                  \E m \in DOMAIN queues[q] :
                     [queues EXCEPT ![cur[w]] = Tail(@)][q][n] = queues[q][m]
          BY <5>1, <5>2, TailQueue
        <5> QED
          BY <5>2, <5>3
      <4>2. \A q \in Queue : queues[q] = <<>> => queues'[q] = <<>>
        BY <1>1, <3>2, UnlinkTakes DEF TypeOK
      <4> QED
        BY <4>1, <4>2
    <3> QED
      BY <1>5, <3>1, <3>2, WorkerQueues
  <2>2. ASSUME NEW v \in Worker, NEW q \in Queue, q \in Passed(v)',
               NEW n \in DOMAIN queues'[q]
        PROVE  queues'[q][n] \in Spawned
    <3>1. q \in Passed(v)
      BY <1>5, <2>1, <2>2, PassedOnlyEmpty
    <3> QED
      BY <1>1, <2>1, <3>1 DEF SearchInv
  <2>3. ASSUME NEW q \in Queue, \A v \in Worker : q \in Passed(v)'
        PROVE  queues'[q] = <<>>
    <3>1. (\A v \in Worker : q \in Passed(v)) \/ queues[q] = <<>>
      BY <1>5, <2>3, PassedOnlyEmpty
    <3> QED
      BY <1>1, <2>1, <3>1 DEF SearchInv
  <2>4. \A v \in Worker : Passed(v)' \subseteq Queue
    BY DEF Passed
  <2> QED
    BY <2>2, <2>3, <2>4 DEF SearchInv
<1>6. ASSUME NEW w \in Worker, NEW t \in Task, tq_enqueue(w, t)
      PROVE  SearchInv'
  <2>1. Passed(w)' = {} /\ \A v : Passed(v)' = Passed(v)
    BY <1>6 DEF tq_enqueue, Passed, Searched
  <2>2. ASSUME NEW q \in Queue, NEW n \in DOMAIN queues'[q],
               \A m \in DOMAIN queues[q] : queues[q][m] \in Spawned
        PROVE  queues'[q][n] \in Spawned
    BY <1>1, <1>6, <2>2 DEF tq_enqueue, TypeOK
  <2>3. \A v \in Worker : Passed(v) \subseteq Queue
    BY DEF Passed
  <2> QED
    BY <1>1, <2>1, <2>2, <2>3 DEF SearchInv
<1> QED
  BY <1>2, <1>3, <1>4, <1>5, <1>6 DEF Next, Terminated

LEMMA IInvInit == Init => IInv
<1> SUFFICES ASSUME Init PROVE IInv
  OBVIOUS
<1>1. TypeOK
  <2>1. <<>> \in Seq(Task)
    OBVIOUS
  <2> QED
    BY <2>1, QueueFinite DEF Init, TypeOK, PC
<1>2. \A w \in Worker : Passed(w) = {}
  BY DEF Init, Passed
<1>3. \A q \in Queue : queues[q] = <<>>
  BY DEF Init
<1>4. OnceInv
  BY <1>3 DEF OnceInv, Once
<1>5. SearchInv
  BY <1>2, WorkerAssumption DEF SearchInv
<1> QED
  BY <1>1, <1>4, <1>5
     DEF Init, IInv, PhaseInv, LockInv, HeadInv, HandInv, Critical

(* The inductive invariant holds throughout. *)
THEOREM Invariance == Spec => []IInv
<1>1. IInv /\ [Next]_vars => IInv'
  BY TypeStep, PhaseStep, LockStep, HeadStep, HandStep, OnceStep, SearchStep
     DEF IInv
<1> QED
  BY <1>1, IInvInit, PTL DEF Spec

(* Each variable of the queues and of their workers keeps its type. *)
THEOREM TypeCorrect == Spec => []TypeOK
<1>1. IInv => TypeOK
  BY DEF IInv
<1> QED
  BY <1>1, Invariance, PTL
-----------------------------------------------------------------------------
(* The queues implement TaskPool: the refinement mapping, and what its     *)
(* steps are in terms of it.                                               *)

Available == {t \in Task : phase # "fini" /\ In(queues, t)}
Holders(t) == {w \in Worker : elem[w] = t /\ pc[w] \in {"pushfree", "release", "run"}}
Given == [t \in Task |-> executed[t] + Cardinality(Holders(t))]
Idle == {w \in Worker : pc[w] = "done"}

LEMMA PutMapped ==
  ASSUME NEW t \in Task, t \notin Available, Given[t] = 0,
         Idle = {} \/ t \in Spawned,
         Available' = Available \cup {t}, Given' = Given, Idle' = Idle
  PROVE  TP!Put(t)
BY DEF TP!Put, Available, Given, Holders, Idle

LEMMA GiveMapped ==
  ASSUME NEW t \in Task, t \in Available, Available' = Available \ {t},
         Given' = [Given EXCEPT ![t] = @ + 1], Idle' = Idle
  PROVE  TP!Give(t)
BY DEF TP!Give, Available, Given, Holders, Idle

LEMMA NoMoreMapped ==
  ASSUME NEW w \in Worker, w \notin Idle, Available \subseteq Spawned,
         Idle \cup {w} = Worker => Available = {},
         Idle' = Idle \cup {w}, Available' = Available, Given' = Given
  PROVE  TP!NoMore(w)
BY DEF TP!NoMore, Available, Given, Holders, Idle

LEMMA StutterMapped ==
  ASSUME Available' = Available, Given' = Given, Idle' = Idle
  PROVE  UNCHANGED TP!poolVars
BY DEF TP!poolVars, Available, Given, Holders, Idle

LEMMA HoldersFinite ==
  \A t : IsFiniteSet(Holders(t)) /\ Cardinality(Holders(t)) \in Nat
<1> TAKE t
<1>1. Holders(t) \subseteq Worker
  BY DEF Holders
<1> QED
  BY <1>1, WorkerAssumption, FS_Subset, FS_CardinalityType

(* A task that nobody holds and that never ran has not been given out.     *)
LEMMA NotGiven ==
  ASSUME NEW t \in Task, executed[t] = 0, Holders(t) = {}
  PROVE  Given[t] = 0
BY FS_EmptySet DEF Given

(* Steps that change neither queues nor who holds what. *)
LEMMA AvailableFrame ==
  ASSUME queues' = queues, phase # "fini", phase' # "fini"
  PROVE  Available' = Available
BY DEF Available, In

LEMMA GivenFrame ==
  ASSUME executed' = executed, \A t \in Task : Holders(t)' = Holders(t)
  PROVE  Given' = Given
BY DEF Given
(* Putting a task in a queue makes it available. *)
LEMMA PutAvailable ==
  ASSUME TypeOK, NEW t \in Task, NEW q \in Queue,
         queues' = [queues EXCEPT ![q] = Append(@, t)],
         phase # "fini", phase' = phase
  PROVE  Available' = Available \cup {t}
<1>1. \A u : In([queues EXCEPT ![q] = Append(@, t)], u) <=> In(queues, u) \/ u = t
  BY AppendIn DEF TypeOK
<1>2. \A u : In(queues, u)' <=> In(queues', u)
  BY DEF In
<1>3. \A u : In(queues, u)' <=> In(queues, u) \/ u = t
  BY <1>1, <1>2
<1> QED
  BY <1>3 DEF Available

LEMMA EnqueueSeqIsPut ==
  ASSUME IInv, NEW t \in Task, tq_enqueue_seq(t)
  PROVE  TP!Put(t)
<1>1. /\ phase = "gen" /\ ~In(queues, t) /\ UNCHANGED <<phase, executed, elem, pc>>
      /\ \A w \in Worker : pc[w] = "call"
      /\ executed[t] = 0
  BY DEF tq_enqueue_seq, IInv, PhaseInv
<1>2. PICK q \in Queue : queues' = [queues EXCEPT ![q] = Append(@, t)]
  BY DEF tq_enqueue_seq
<1>3. Available' = Available \cup {t}
  BY <1>1, <1>2, PutAvailable DEF IInv
<1>4. \A u : Holders(u) = {} /\ Holders(u)' = {}
  BY <1>1 DEF Holders
<1>5. Given[t] = 0 /\ Given' = Given
  BY <1>1, <1>4, NotGiven, GivenFrame
<1>6. Idle = {} /\ Idle' = Idle /\ t \notin Available
  BY <1>1 DEF Idle, Available
<1> QED
  BY <1>3, <1>5, <1>6, PutMapped

LEMMA EnqueueIsPut ==
  ASSUME IInv, NEW w \in Worker, NEW t \in Task, tq_enqueue(w, t)
  PROVE  TP!Put(t)
<1>1. /\ pc[w] = "run" /\ t \in Spawned
      /\ ~In(queues, t) /\ ~In(freeQueues, t) /\ \A v \in Worker : elem[v] # t
      /\ UNCHANGED <<phase, executed, elem, pc>>
  BY DEF tq_enqueue
<1>2. PICK q \in Queue : queues' = [queues EXCEPT ![q] = Append(@, t)]
  BY DEF tq_enqueue
<1>3. phase # "fini"
  BY <1>1 DEF IInv, PhaseInv
<1>4. Available' = Available \cup {t}
  BY <1>1, <1>2, <1>3, PutAvailable DEF IInv
<1>5. executed[t] = 0 /\ Holders(t) = {}
  BY <1>1, <1>3 DEF IInv, HandInv, Holders
<1>6. \A u : Holders(u)' = Holders(u)
  BY <1>1 DEF Holders
<1>7. Given[t] = 0 /\ Given' = Given
  BY <1>1, <1>5, <1>6, NotGiven, GivenFrame
<1>8. Idle' = Idle /\ t \notin Available
  BY <1>1 DEF Idle, Available
<1> QED
  BY <1>1, <1>4, <1>7, <1>8, PutMapped

(* A task is given out when it is unlinked. *)
LEMMA UnlinkIsGive ==
  ASSUME IInv, NEW w \in Worker, Unlink(w)
  PROVE  \E t \in Task : TP!Give(t)
<1>0. PICK t \in Task : t = elem[w]
  BY UnlinkTakes
<1>1. /\ queues' = [queues EXCEPT ![cur[w]] = Tail(@)]
      /\ queues[cur[w]] # <<>> /\ Head(queues[cur[w]]) = t
      /\ cur[w] \in Queue
  BY <1>0, UnlinkTakes
<1>2. /\ queues \in [Queue -> Seq(Task)] /\ Once(queues)
      /\ pc \in [Worker -> PC] /\ executed \in [Task -> Nat]
  BY DEF IInv, TypeOK, OnceInv
<1>3. /\ pc[w] = "unlink" /\ pc' = [pc EXCEPT ![w] = "pushfree"]
      /\ UNCHANGED <<phase, elem, executed>>
  BY DEF Unlink, Goto
<1>4. phase # "fini"
  BY <1>3 DEF IInv, PhaseInv
<1>5. t \in Available /\ Available' = Available \ {t}
  <2>1. /\ In(queues, t)
        /\ \A u : In([queues EXCEPT ![cur[w]] = Tail(@)], u) <=> In(queues, u) /\ u # t
    <3>1. /\ In(queues, Head(queues[cur[w]]))
          /\ \A u : In([queues EXCEPT ![cur[w]] = Tail(@)], u) <=>
                      In(queues, u) /\ u # Head(queues[cur[w]])
      <4>1. PICK q \in Queue : q = cur[w] /\ queues[q] # <<>>
        BY <1>1
      <4>2. /\ In(queues, Head(queues[q]))
            /\ \A u : In([queues EXCEPT ![q] = Tail(@)], u) <=> In(queues, u) /\ u # Head(queues[q])
        BY <1>2, <4>1, TailIn
      <4> QED
        BY <4>1, <4>2
    <3> QED
      BY <1>1, <3>1
  <2>2. \A u : In(queues, u)' <=> In(queues, u) /\ u # t
    <3>1. \A u : In(queues', u) <=> In(queues, u) /\ u # t
      BY <1>1, <2>1
    <3> QED
      BY <3>1 DEF In
  <2> QED
    BY <1>1, <1>3, <1>4, <2>1, <2>2 DEF Available
<1>6. /\ w \notin Holders(t) /\ Holders(t)' = Holders(t) \cup {w}
      /\ \A u : u # t => Holders(u)' = Holders(u)
  BY <1>0, <1>2, <1>3 DEF Holders
<1>7. Cardinality(Holders(t)') = Cardinality(Holders(t)) + 1
  BY <1>6, HoldersFinite, FS_AddElement
<1>8. Given' = [Given EXCEPT ![t] = @ + 1]
  <2>1. executed[t] \in Nat /\ Cardinality(Holders(t)) \in Nat
    BY <1>2, HoldersFinite
  <2>2. executed' = executed /\ Given'[t] = Given[t] + 1
    BY <1>1, <1>3, <1>7, <2>1 DEF Given
  <2>3. \A u \in Task : u # t => Given'[u] = Given[u]
    BY <1>6, <2>2 DEF Given
  <2> QED
    BY <1>1, <2>2, <2>3 DEF Given
<1>9. Idle' = Idle
  BY <1>2, <1>3 DEF Idle
<1> QED
  BY <1>5, <1>8, <1>9, GiveMapped

(* A worker gives up after a search in which it found every queue empty.   *)
LEMMA ReleaseMapped ==
  ASSUME IInv, NEW w \in Worker, LockRelease(w)
  PROVE  TP!NoMore(w) \/ UNCHANGED TP!poolVars
<1>1. /\ pc[w] = "release" /\ UNCHANGED <<phase, queues, elem, executed>>
      /\ \A v \in Worker : v # w => pc'[v] = pc[v]
      /\ \/ elem[w] # NULL /\ pc'[w] = "run"
         \/ elem[w] = NULL /\ pc'[w] = "acquire"
         \/ elem[w] = NULL /\ pc'[w] = "done" /\ Steal(w) = index[w]
  BY DEF LockRelease, AfterTry, Goto, IInv, TypeOK
<1>2. phase # "fini" /\ TypeOK
  BY <1>1 DEF IInv, PhaseInv
<1>3. Available' = Available
  BY <1>1, <1>2, AvailableFrame
<1>4. \A t \in Task : Holders(t)' = Holders(t)
  BY <1>1, NULLAssumption DEF Holders
<1>5. Given' = Given
  BY <1>1, <1>4, GivenFrame
<1>6. CASE pc'[w] # "done"
  <2>1. Idle' = Idle
    BY <1>1, <1>6 DEF Idle
  <2> QED
    BY <1>3, <1>5, <2>1, StutterMapped
<1>7. CASE pc'[w] = "done"
  <2>1. w \notin Idle /\ Idle' = Idle \cup {w}
    BY <1>1, <1>7 DEF Idle
  <2>2. \A q \in Queue : q \in Passed(w)
    BY <1>1, <1>2, <1>7, SearchComplete DEF Passed
  <2>3. Available \subseteq Spawned
    BY <2>2 DEF Available, In, IInv, SearchInv
  <2>4. ASSUME Idle \cup {w} = Worker PROVE Available = {}
    <3>1. \A v \in Worker : \A q \in Queue : q \in Passed(v)
      BY <2>2, <2>4 DEF Idle, Passed
    <3>2. \A q \in Queue : queues[q] = <<>>
      BY <3>1 DEF IInv, SearchInv
    <3> QED
      BY <3>2 DEF Available, In
  <2> QED
    BY <1>3, <1>5, <2>1, <2>3, <2>4, NoMoreMapped
<1> QED
  BY <1>6, <1>7

(* A task that runs has been given out before. *)
LEMMA RunMapped ==
  ASSUME IInv, NEW w \in Worker, Run(w)
  PROVE  UNCHANGED TP!poolVars
<1>0. PICK t \in Task : t = elem[w]
  BY DEF Run, IInv, HandInv
<1>1. /\ pc[w] = "run" /\ pc' = [pc EXCEPT ![w] = "call"]
      /\ elem' = [elem EXCEPT ![w] = NULL] /\ UNCHANGED <<phase, queues>>
      /\ executed' = [executed EXCEPT ![t] = @ + 1]
  BY <1>0 DEF Run, Goto
<1>2. /\ pc \in [Worker -> PC] /\ elem \in [Worker -> Task \cup {NULL}]
      /\ executed \in [Task -> Nat]
  BY DEF IInv, TypeOK
<1>3. Available' = Available
  BY <1>1, AvailableFrame DEF IInv, PhaseInv
<1>4. /\ w \in Holders(t) /\ Holders(t)' = Holders(t) \ {w}
      /\ \A u \in Task : u # t => Holders(u)' = Holders(u)
  BY <1>0, <1>1, <1>2, NULLAssumption DEF Holders
<1>5. Cardinality(Holders(t)') = Cardinality(Holders(t)) - 1
  BY <1>4, HoldersFinite, FS_RemoveElement
<1>6. Given' = Given
  <2>1. executed'[t] = executed[t] + 1 /\ executed[t] \in Nat
        /\ Cardinality(Holders(t)) \in Nat
    BY <1>1, <1>2, HoldersFinite
  <2>2. Given'[t] = Given[t]
    BY <1>1, <1>5, <2>1 DEF Given
  <2>3. \A u \in Task : u # t => Given'[u] = Given[u]
    BY <1>1, <1>2, <1>4 DEF Given
  <2> QED
    BY <2>2, <2>3 DEF Given
<1>7. Idle' = Idle
  BY <1>1, <1>2 DEF Idle
<1> QED
  BY <1>3, <1>6, <1>7, StutterMapped

(* The other steps of a worker are steps towards one of these. *)
LEMMA OtherMapped ==
  ASSUME IInv, NEW w \in Worker,
         tq_dequeue(w) \/ LockAcquire(w) \/ PopFront(w) \/ PushFree(w)
  PROVE  UNCHANGED TP!poolVars
<1>1. /\ UNCHANGED <<phase, queues, executed>>
      /\ \A v \in Worker : v # w => pc'[v] = pc[v] /\ elem'[v] = elem[v]
      /\ pc[w] # "done" /\ pc'[w] # "done"
  BY DEF tq_dequeue, LockAcquire, PopFront, PushFree, Goto, IInv, TypeOK
<1>2. \/ /\ pc[w] \in {"call", "acquire", "pop"}
         /\ pc'[w] \in {"acquire", "pop", "unlink"}
      \/ pc[w] = "pop" /\ pc'[w] = "release" /\ elem'[w] = NULL
      \/ pc[w] = "pushfree" /\ pc'[w] = "release" /\ elem'[w] = elem[w]
  BY DEF tq_dequeue, LockAcquire, PopFront, PushFree, Goto, IInv, TypeOK
<1>3. Available' = Available
  BY <1>1, AvailableFrame DEF IInv, PhaseInv
<1>4. \A t \in Task : Holders(t)' = Holders(t)
  BY <1>1, <1>2, NULLAssumption DEF Holders
<1>5. Given' = Given
  BY <1>1, <1>4, GivenFrame
<1>6. Idle' = Idle
  BY <1>1 DEF Idle
<1> QED
  BY <1>3, <1>5, <1>6, StutterMapped

LEMMA FinalizeMapped ==
  ASSUME IInv, tq_finalize
  PROVE  UNCHANGED TP!poolVars
<1>1. \A w \in Worker : \A q \in Queue : q \in Passed(w)
  BY DEF tq_finalize, Passed
<1>2. \A q \in Queue : queues[q] = <<>>
  BY <1>1 DEF IInv, SearchInv
<1>3. Available = {} /\ Available' = {}
  BY <1>2 DEF Available, In, tq_finalize
<1>4. \A t \in Task : Holders(t)' = Holders(t)
  BY DEF Holders, tq_finalize
<1>5. Given' = Given
  BY <1>4, GivenFrame DEF tq_finalize
<1>6. Idle' = Idle
  BY DEF Idle, tq_finalize
<1> QED
  BY <1>3, <1>5, <1>6, StutterMapped

LEMMA StepMapped == IInv /\ [Next]_vars => [TP!PoolNext]_TP!poolVars
<1> SUFFICES ASSUME IInv, [Next]_vars PROVE [TP!PoolNext]_TP!poolVars
  OBVIOUS
<1>1. ASSUME NEW t \in Task, tq_enqueue_seq(t) PROVE TP!PoolNext
  BY <1>1, EnqueueSeqIsPut DEF TP!PoolNext
<1>2. CASE start_workers \/ UNCHANGED vars
  <2>1. UNCHANGED <<queues, executed, elem, pc>>
    BY <1>2 DEF start_workers, vars
  <2>2. Available' = Available
    BY <1>2, <2>1 DEF start_workers, vars, Available, In
  <2>3. Given' = Given /\ Idle' = Idle
    BY <2>1, GivenFrame DEF Holders, Idle
  <2> QED
    BY <2>2, <2>3, StutterMapped
<1>3. CASE tq_finalize
  BY <1>3, FinalizeMapped
<1>4. ASSUME NEW w \in Worker, WorkerStep(w)
      PROVE  [TP!PoolNext]_TP!poolVars
  <2>1. CASE tq_dequeue(w) \/ LockAcquire(w) \/ PopFront(w) \/ PushFree(w)
    BY <2>1, OtherMapped
  <2>2. CASE Unlink(w)
    BY <2>2, UnlinkIsGive DEF TP!PoolNext
  <2>3. CASE LockRelease(w)
    BY <2>3, ReleaseMapped DEF TP!PoolNext
  <2>4. CASE Run(w)
    BY <2>4, RunMapped
  <2> QED
    BY <1>4, <2>1, <2>2, <2>3, <2>4 DEF WorkerStep
<1>5. ASSUME NEW w \in Worker, NEW t \in Task, tq_enqueue(w, t) PROVE TP!PoolNext
  BY <1>5, EnqueueIsPut DEF TP!PoolNext
<1> QED
  BY <1>1, <1>2, <1>3, <1>4, <1>5 DEF Next, Terminated

(* The locked queues and the search over them implement TaskPool: every    *)
(* task is given out to one worker only, and a worker that was told that   *)
(* there is no more work leaves behind nothing that was there when the     *)
(* stage began, the last worker nothing at all.                            *)
THEOREM TaskPoolImplemented == Spec => ImplementsTaskPool
<1>1. Init => TP!PoolInit
  <2> SUFFICES ASSUME Init PROVE TP!PoolInit
    OBVIOUS
  <2>1. Available = {} /\ Idle = {}
    BY DEF Init, Available, Idle, In
  <2>2. \A t \in Task : Holders(t) = {}
    BY DEF Init, Holders
  <2>3. Given = [t \in Task |-> 0]
    <3>1. \A t \in Task : executed[t] + Cardinality(Holders(t)) = 0
      <4>1. \A t \in Task : executed[t] = 0 /\ Cardinality(Holders(t)) = 0
        BY <2>2, FS_EmptySet DEF Init
      <4> QED
        BY <4>1
    <3> QED
      BY <3>1 DEF Given
  <2> QED
    BY <2>1, <2>3 DEF TP!PoolInit, Available, Given, Holders, Idle
<1> QED
  BY <1>1, StepMapped, Invariance, PTL DEF Spec, ImplementsTaskPool, TP!PoolSpec

-----------------------------------------------------------------------------
(* What TaskPool's steps do to the tasks that have been given out. *)

OutOnce ==
    \A t \in Task : Given[t] \in {0, 1} /\ (t \in Available => Given[t] = 0)

LEMMA OutOnceStep ==
  ASSUME OutOnce, [TP!PoolNext]_TP!poolVars
  PROVE  OutOnce'
<1>1. ASSUME NEW t \in Task, TP!Put(t) PROVE OutOnce'
  <2>1. Given[t] = 0 /\ Available' = Available \cup {t} /\ Given' = Given
    BY <1>1 DEF TP!Put, Available, Given, Holders
  <2> QED
    BY <2>1 DEF OutOnce
<1>2. ASSUME NEW t \in Task, TP!Give(t) PROVE OutOnce'
  <2>1. /\ t \in Available /\ Available' = Available \ {t}
        /\ Given' = [Given EXCEPT ![t] = @ + 1]
    BY <1>2 DEF TP!Give, Available, Given, Holders
  <2>2. Given[t] = 0 /\ DOMAIN Given = Task
    BY <2>1 DEF OutOnce, Given
  <2>3. Given'[t] = 1 /\ \A u \in Task : u # t => Given'[u] = Given[u]
    BY <2>1, <2>2
  <2> QED
    BY <2>1, <2>3 DEF OutOnce
<1>3. ASSUME NEW w \in Worker, TP!NoMore(w) PROVE OutOnce'
  <2>1. Available' = Available /\ Given' = Given
    BY <1>3 DEF TP!NoMore, Available, Given, Holders
  <2> QED
    BY <2>1 DEF OutOnce
<1>4. CASE UNCHANGED TP!poolVars
  <2>1. Available' = Available /\ Given' = Given
    BY <1>4 DEF TP!poolVars, Available, Given, Holders
  <2> QED
    BY <2>1 DEF OutOnce
<1> QED
  BY <1>1, <1>2, <1>3, <1>4 DEF TP!PoolNext

(* A task is given out once at most, and then is in no queue.              *)
LEMMA OutOnceAlways == Spec => []OutOnce
<1>1. Init => OutOnce
  <2> SUFFICES ASSUME Init, NEW t \in Task PROVE Given[t] = 0
    BY DEF OutOnce
  <2>1. Holders(t) = {} /\ executed[t] = 0
    BY DEF Init, Holders
  <2> QED
    BY <2>1, NotGiven
<1>2. IInv /\ OutOnce /\ [Next]_vars => OutOnce'
  BY StepMapped, OutOnceStep
<1> QED
  BY <1>1, <1>2, Invariance, PTL DEF Spec

LEMMA AtMostOnce == IInv /\ OutOnce => \A t \in Task : executed[t] \in {0, 1}
<1> SUFFICES ASSUME IInv, OutOnce, NEW t \in Task PROVE executed[t] \in {0, 1}
  OBVIOUS
<1>1. executed[t] \in Nat /\ Cardinality(Holders(t)) \in Nat
  BY HoldersFinite DEF IInv, TypeOK
<1>2. executed[t] + Cardinality(Holders(t)) \in {0, 1}
  BY DEF OutOnce, Given
<1> QED
  BY <1>1, <1>2

(* No task is run twice: neither two workers that search the same queues   *)
(* at the same time nor a later search gets a task that was taken.         *)
THEOREM TasksRunAtMostOnce == Spec => [](\A t \in Task : executed[t] <= 1)
<1>1. IInv /\ OutOnce => \A t \in Task : executed[t] <= 1
  BY AtMostOnce
<1> QED
  BY <1>1, OutOnceAlways, Invariance, PTL

-----------------------------------------------------------------------------
(* The entries.  Each is in one free queue, once, from the moment its task *)
(* is taken, so that tq_finalize frees it once.                            *)

FreeInv ==
    /\ Once(freeQueues)
    /\ \A t \in Task : phase # "fini" /\ In(freeQueues, t) =>
          \/ executed[t] # 0
          \/ \E w \in Worker : elem[w] = t /\ pc[w] \in {"release", "run"}
    /\ phase = "fini" => freed = executed

(* The worker that puts an entry in a free queue is the only one to have   *)
(* it, and the task has not been run.                                      *)
LEMMA NotYetFree ==
  ASSUME IInv, OutOnce, FreeInv, NEW w \in Worker, pc[w] = "pushfree"
  PROVE  elem[w] \in Task /\ ~In(freeQueues, elem[w])
<1>1. PICK t \in Task : t = elem[w]
  BY DEF IInv, HandInv
<1>2. phase # "fini"
  BY DEF IInv, PhaseInv
<1>3. w \in Holders(t) /\ IsFiniteSet(Holders(t)) /\ Cardinality(Holders(t)) \in Nat
  BY <1>1, HoldersFinite DEF Holders
<1>4. executed[t] \in Nat /\ executed[t] + Cardinality(Holders(t)) \in {0, 1}
  BY DEF IInv, TypeOK, OutOnce, Given
<1>5. Cardinality(Holders(t)) # 0
  BY <1>3, FS_EmptySet
<1>6. Cardinality(Holders(t)) = 1 /\ executed[t] = 0
  BY <1>3, <1>4, <1>5
<1>7. PICK x : Holders(t) = {x}
  BY <1>3, <1>6, FS_Singleton
<1>8. ASSUME In(freeQueues, t) PROVE FALSE
  <2>1. PICK v \in Worker : elem[v] = t /\ pc[v] \in {"release", "run"}
    BY <1>2, <1>6, <1>8 DEF FreeInv
  <2>2. v \in Holders(t)
    BY <2>1 DEF Holders
  <2> QED
    BY <1>3, <1>7, <2>1, <2>2
<1> QED
  BY <1>1, <1>8

(* The step of PushFree: one more entry is free, and none is free twice.   *)
LEMMA PushFreeIn ==
  ASSUME IInv, OutOnce, FreeInv, NEW w \in Worker, PushFree(w)
  PROVE  /\ Once(freeQueues)'
         /\ \A u : In(freeQueues, u)' <=> In(freeQueues, u) \/ u = elem[w]
<1>1. PICK t \in Task : t = elem[w] /\ ~In(freeQueues, t)
  BY NotYetFree DEF PushFree
<1>2. PICK q \in Queue : q = cur[w] /\ freeQueues' = [freeQueues EXCEPT ![q] = Append(@, t)]
  BY <1>1 DEF PushFree, IInv, TypeOK
<1>3. freeQueues \in [Queue -> Seq(Task)] /\ Once(freeQueues)
  BY DEF IInv, TypeOK, FreeInv
<1>4. \A u : In([freeQueues EXCEPT ![q] = Append(@, t)], u) <=> In(freeQueues, u) \/ u = t
  BY <1>3, AppendIn
<1>5. Once([freeQueues EXCEPT ![q] = Append(@, t)])
  BY <1>1, <1>3, AppendOnce
<1>6. Once(freeQueues)' <=> Once(freeQueues')
  BY DEF Once
<1>7. \A u : In(freeQueues, u)' <=> In(freeQueues', u)
  BY DEF In
<1> QED
  BY <1>1, <1>2, <1>4, <1>5, <1>6, <1>7

(* An array of queues whose tasks are distinct has each of them at one     *)
(* place, and no queue is longer than the number of tasks.                 *)
LEMMA OnePlace ==
  ASSUME NEW qs \in [Queue -> Seq(Task)], Once(qs), NEW t \in Task
  PROVE  LET places == {p \in Queue \X (1 .. Cardinality(Task)) :
                          p[2] \in DOMAIN qs[p[1]] /\ qs[p[1]][p[2]] = t}
         IN  Cardinality(places) = IF In(qs, t) THEN 1 ELSE 0
<1> DEFINE places == {p \in Queue \X (1 .. Cardinality(Task)) :
                        p[2] \in DOMAIN qs[p[1]] /\ qs[p[1]][p[2]] = t}
<1>1. ASSUME ~In(qs, t) PROVE Cardinality(places) = 0
  <2>1. \A p \in Queue \X (1 .. Cardinality(Task)) :
           p[2] \in DOMAIN qs[p[1]] => qs[p[1]][p[2]] # t
    BY <1>1 DEF In
  <2>2. places = {}
    BY <2>1
  <2> QED
    BY <2>2, FS_EmptySet
<1>2. ASSUME In(qs, t) PROVE Cardinality(places) = 1
  <2>1. PICK q \in Queue : \E n \in DOMAIN qs[q] : qs[q][n] = t
    BY <1>2 DEF In
  <2>0. PICK m \in DOMAIN qs[q] : qs[q][m] = t
    BY <2>1
  <2>2. PICK N \in Nat : N = Len(qs[q]) /\ DOMAIN qs[q] = 1 .. N
    OBVIOUS
  <2>3. Cardinality(Task) \in Nat /\ N <= Cardinality(Task)
    <3>1. qs[q] \in [1 .. N -> Task]
      BY <2>2
    <3>2. \A i, j \in 1 .. N : qs[q][i] = qs[q][j] => i = j
      BY <2>2 DEF Once
    <3>3. qs[q] \in Injection(1 .. N, Task)
      BY <3>1, <3>2 DEF Injection, IsInjective
    <3>4. Cardinality(1 .. N) <= Cardinality(Task)
      BY <3>3, TaskAssumption, FS_Injection
    <3>5. \A n \in Nat : Cardinality(1 .. n) = n
      <4> TAKE n \in Nat
      <4>1. Cardinality(1 .. n) = IF 1 > n THEN 0 ELSE n - 1 + 1
        BY FS_Interval
      <4> QED
        BY <4>1
    <3> QED
      BY <3>4, <3>5, TaskAssumption, FS_CardinalityType
  <2>4. m \in 1 .. Cardinality(Task)
    BY <2>0, <2>2, <2>3
  <2>5. <<q, m>> \in places
    BY <2>0, <2>4
  <2>6. ASSUME NEW p \in places PROVE p = <<q, m>>
    <3>1. /\ p[1] \in Queue /\ p[2] \in DOMAIN qs[p[1]] /\ qs[p[1]][p[2]] = qs[q][m]
          /\ p = <<p[1], p[2]>>
      BY <2>0, <2>6
    <3>2. p[1] = q /\ p[2] = m
      BY <2>0, <3>1 DEF Once
    <3> QED
      BY <3>1, <3>2
  <2>7. places = {<<q, m>>}
    BY <2>5, <2>6
  <2> QED
    BY <2>7, FS_Singleton
<1> QED
  BY <1>1, <1>2

(* All queues are empty when the workers are done, and a task has been run *)
(* exactly if its entry is in a free queue.                                *)
LEMMA FinalizeFrees ==
  ASSUME IInv, OutOnce, FreeInv, tq_finalize
  PROVE  freed' = executed'
<1>1. /\ phase = "work" /\ executed' = executed /\ \A w \in Worker : pc[w] = "done"
  BY DEF tq_finalize
<1>2. \A q \in Queue : queues[q] = <<>>
  <2>1. \A w \in Worker : \A q \in Queue : q \in Passed(w)
    BY <1>1 DEF Passed
  <2> QED
    BY <2>1 DEF IInv, SearchInv
<1> DEFINE Queued(t) == {q \in Queue : \E i \in DOMAIN queues[q] : queues[q][i] = t}
           Places(t) == {p \in Queue \X (1 .. Cardinality(Task)) :
                           p[2] \in DOMAIN freeQueues[p[1]] /\ freeQueues[p[1]][p[2]] = t}
<1>3. ASSUME NEW t \in Task PROVE Cardinality(Queued(t)) = 0
  <2>1. Queued(t) = {}
    BY <1>2
  <2> QED
    BY <2>1, FS_EmptySet
<1>4. ASSUME NEW t \in Task PROVE Cardinality(Places(t)) = executed[t]
  <2>1. Cardinality(Places(t)) = IF In(freeQueues, t) THEN 1 ELSE 0
    BY OnePlace DEF IInv, TypeOK, FreeInv
  <2>2. executed[t] \in {0, 1}
    BY AtMostOnce
  <2>3. In(freeQueues, t) <=> executed[t] # 0
    BY <1>1 DEF IInv, HandInv, FreeInv
  <2> QED
    BY <2>1, <2>2, <2>3
<1>5. freed' = [t \in Task |-> Cardinality(Queued(t)) + Cardinality(Places(t))]
  BY DEF tq_finalize
<1>6. executed \in [Task -> Nat]
  BY DEF IInv, TypeOK
<1> HIDE DEF Queued, Places
<1>7. \A t \in Task : Cardinality(Queued(t)) + Cardinality(Places(t)) = executed[t]
  BY <1>3, <1>4, <1>6
<1> QED
  BY <1>1, <1>5, <1>6, <1>7

(* No step disturbs it.                                                    *)
LEMMA FreeStep == IInv /\ OutOnce /\ FreeInv /\ [Next]_vars => FreeInv'
<1> SUFFICES ASSUME IInv, OutOnce, FreeInv, [Next]_vars PROVE FreeInv'
  OBVIOUS
<1> USE DEF Goto
<1>1. /\ pc \in [Worker -> PC] /\ elem \in [Worker -> Task \cup {NULL}]
      /\ executed \in [Task -> Nat] /\ HandInv /\ PhaseInv
  BY DEF IInv, TypeOK
<1>2. freeQueues' = freeQueues =>
         Once(freeQueues)' /\ \A u : In(freeQueues, u)' <=> In(freeQueues, u)
  BY FreeFrame DEF FreeInv, Once
<1>3. CASE (\E t \in Task : tq_enqueue_seq(t)) \/ start_workers \/ UNCHANGED vars
  <2>1. /\ UNCHANGED <<freeQueues, elem, executed, freed, pc>>
        /\ phase' \in {phase, "work"} /\ (phase' # phase => phase = "gen")
    BY <1>3 DEF tq_enqueue_seq, start_workers, vars
  <2> QED
    BY <1>2, <2>1 DEF FreeInv
<1>4. CASE tq_finalize
  <2>1. freed' = executed' /\ phase' = "fini"
    BY <1>4, FinalizeFrees DEF tq_finalize
  <2>2. Once(freeQueues)'
    BY <1>4 DEF tq_finalize, Once
  <2> QED
    BY <2>1, <2>2 DEF FreeInv
<1>5. ASSUME NEW w \in Worker, WorkerStep(w) PROVE FreeInv'
  <2>1. phase' = phase /\ phase # "fini"
    BY <1>1, <1>5
       DEF WorkerStep, tq_dequeue, LockAcquire, PopFront, Unlink, PushFree,
           LockRelease, AfterTry, Run, PhaseInv
  <2>2. CASE tq_dequeue(w) \/ LockAcquire(w) \/ PopFront(w) \/ Unlink(w)
    <3>1. /\ UNCHANGED <<freeQueues, executed>> /\ pc[w] \notin {"release", "run"}
          /\ \A v \in Worker : v # w => pc'[v] = pc[v] /\ elem'[v] = elem[v]
      BY <1>1, <2>2 DEF tq_dequeue, LockAcquire, PopFront, Unlink
    <3> QED
      BY <1>2, <2>1, <3>1 DEF FreeInv
  <2>3. CASE PushFree(w)
    <3>1. /\ UNCHANGED <<executed, elem>> /\ pc'[w] = "release"
          /\ \A v \in Worker : v # w => pc'[v] = pc[v]
      BY <1>1, <2>3 DEF PushFree
    <3>2. /\ Once(freeQueues)'
          /\ \A u : In(freeQueues, u)' <=> In(freeQueues, u) \/ u = elem[w]
      BY <2>3, PushFreeIn
    <3>3. ASSUME NEW t \in Task, In(freeQueues, t)'
          PROVE  executed'[t] # 0
                   \/ \E v \in Worker : elem'[v] = t /\ pc'[v] \in {"release", "run"}
      <4>1. CASE t = elem[w]
        BY <3>1, <4>1
      <4>2. CASE t # elem[w]
        <5>1. executed[t] # 0
                \/ \E v \in Worker : elem[v] = t /\ pc[v] \in {"release", "run"}
          BY <2>1, <3>2, <3>3, <4>2 DEF FreeInv
        <5> QED
          BY <3>1, <4>2, <5>1
      <4> QED
        BY <4>1, <4>2
    <3> QED
      BY <2>1, <3>2, <3>3 DEF FreeInv
  <2>4. CASE LockRelease(w)
    <3>1. /\ UNCHANGED <<freeQueues, executed, elem>>
          /\ elem[w] # NULL => pc'[w] = "run"
          /\ \A v \in Worker : v # w => pc'[v] = pc[v]
      BY <1>1, <2>4 DEF LockRelease, AfterTry
    <3>2. \A t \in Task : t # NULL
      BY NULLAssumption
    <3> QED
      BY <1>2, <2>1, <3>1, <3>2 DEF FreeInv
  <2>5. CASE Run(w)
    <3>1. PICK t \in Task : t = elem[w]
      BY <1>1, <2>5 DEF Run, HandInv
    <3>2. /\ executed' = [executed EXCEPT ![t] = @ + 1]
          /\ freeQueues' = freeQueues
          /\ \A v \in Worker : v # w => pc'[v] = pc[v] /\ elem'[v] = elem[v]
      BY <1>1, <2>5, <3>1 DEF Run
    <3>3. executed'[t] # 0 /\ \A u \in Task : u # t => executed'[u] = executed[u]
      BY <1>1, <3>2
    <3> QED
      BY <1>2, <2>1, <3>1, <3>2, <3>3 DEF FreeInv
  <2> QED
    BY <1>5, <2>2, <2>3, <2>4, <2>5 DEF WorkerStep
<1>6. ASSUME NEW w \in Worker, NEW t \in Task, tq_enqueue(w, t) PROVE FreeInv'
  <2>1. UNCHANGED <<phase, freeQueues, elem, executed, freed, pc>>
    BY <1>6 DEF tq_enqueue
  <2> QED
    BY <1>2, <2>1 DEF FreeInv
<1> QED
  BY <1>3, <1>4, <1>5, <1>6 DEF Next, Terminated

(* Whenever a stage is over, tq_finalize has freed the entry of each task  *)
(* that was run exactly once, and no other: entries are neither lost when  *)
(* they move from a queue to a free queue nor put into two of them.        *)
THEOREM EntriesFreedOnce == Spec => [](phase = "fini" => freed = executed)
<1>1. Init => FreeInv
  <2>1. ASSUME Init PROVE Once(freeQueues) /\ \A t : ~In(freeQueues, t)
    BY <2>1 DEF Init, Once, In
  <2> QED
    BY <2>1 DEF Init, FreeInv
<1>2. FreeInv => (phase = "fini" => freed = executed)
  BY DEF FreeInv
<1> QED
  BY <1>1, <1>2, FreeStep, OutOnceAlways, Invariance, PTL DEF Spec
=============================================================================
