----------------------------- MODULE TPoolProofs -----------------------------
(***************************************************************************)
(* Proofs about TPool: type correctness for every sequence of stages, and  *)
(* for sequences that do not shrink, that the join is safe, that the pool  *)
(* is freed only after all its threads have left, and that every step is   *)
(* one of ForkJoin or none.                                                *)
(***************************************************************************)
EXTENDS TPool, FiniteSetTheorems, TLAPS

(* Posting one semaphore of an array of semaphores keeps the array's type. *)
LEMMA PostType ==
  ASSUME NEW S, NEW f \in [S -> Nat], NEW x
  PROVE  [f EXCEPT ![x] = @ + 1] \in [S -> Nat]
<1>1. CASE x \in S
  BY <1>1
<1>2. CASE x \notin S
  <2>1. [f EXCEPT ![x] = @ + 1] = f
    BY <1>2, Zenon
  <2> QED
    BY <2>1
<1> QED
  BY <1>1, <1>2

(* Each variable of the pool keeps its type. *)
THEOREM TypeCorrect == Spec => []TypeOK
<1>1. Init => TypeOK
  BY NumThreadsAssumption, NumStagesAssumption DEF Init, TypeOK, Threads, NoJob, Freed, Tags, MainPC, WorkerPC
<1>2. TypeOK /\ [Next]_vars => TypeOK'
  <2> SUFFICES ASSUME TypeOK, [Next]_vars PROVE TypeOK'
    OBVIOUS
  <2> USE DEF TypeOK
  <2>1. CASE tpool_set
    BY <2>1, NumStagesAssumption, SizeAssumption DEF tpool_set, workerVars, Tags, MainPC
  <2>2. CASE tpool_begin
    BY <2>2 DEF MainPC, tpool_begin, workerVars
  <2>3. CASE PostRun
    <3>1. sem_run' \in [Threads -> Nat]
      BY <2>3, PostType DEF PostRun
    <3>2. mpc' \in MainPC /\ i' \in Nat
      BY <2>3 DEF PostRun, MainPC
    <3> QED
      BY <2>3, <3>1, <3>2 DEF PostRun, workerVars
  <2>4. CASE start_my_work \/ tpool_wait \/ tpool_get_results
    BY <2>4 DEF MainPC, start_my_work, tpool_wait, tpool_get_results, workerVars
  <2>5. CASE tpool_destroy
    BY <2>5, NumThreadsAssumption DEF MainPC, tpool_destroy, workerVars
  <2>6. CASE PostDie
    <3>1. sem_run' \in [Threads -> Nat]
      BY <2>6, PostType DEF PostDie
    <3>2. ret' \in [Threads -> Tags \cup {Freed}]
      BY <2>6 DEF PostDie
    <3>3. mpc' \in MainPC /\ i' \in Nat /\ die' \in {0, 1}
      BY <2>6 DEF PostDie, MainPC
    <3> QED
      BY <2>6, <3>1, <3>2, <3>3 DEF PostDie, workerVars
  <2>7. CASE FreePool
    BY <2>7 DEF MainPC, FreePool, workerVars
  <2>8. ASSUME NEW w \in Threads, thread_loop(w) PROVE TypeOK'
    <3>1. CASE Wake(w)
      BY <3>1 DEF WorkerPC, Wake, mainVars
    <3>2. CASE Load(w)
      <4>1. wpc' \in [Threads -> WorkerPC]
        BY <3>2 DEF WorkerPC, Load
      <4>2. job' \in [Threads -> [func : Tags, arg : Tags]]
        <5> DEFINE new == [func |-> stage, arg |-> args[w]]
        <5>1. new \in [func : Tags, arg : Tags]
          OBVIOUS
        <5> HIDE DEF new
        <5>2. job' = job \/ job' = [job EXCEPT ![w] = new]
          BY <3>2 DEF Load, new
        <5> QED
          BY <5>1, <5>2
      <4> QED
        BY <3>2, <4>1, <4>2 DEF Load, mainVars
    <3>3. CASE Run(w)
      BY <3>3 DEF WorkerPC, Run, mainVars
    <3>4. CASE Inc(w) \/ ExitInc(w)
      BY <3>4 DEF WorkerPC, Inc, ExitInc, CountMe, mainVars
    <3>5. CASE Cmp(w) \/ ExitCmp(w)
      BY <3>5 DEF WorkerPC, Cmp, ExitCmp, CompareAndPost, mainVars
    <3> QED
      BY <2>8, <3>1, <3>2, <3>3, <3>4, <3>5 DEF thread_loop
  <2>9. CASE UNCHANGED vars
    BY <2>9 DEF vars
  <2> QED
    BY <2>1, <2>2, <2>3, <2>4, <2>5, <2>6, <2>7, <2>8, <2>9
       DEF Next, Main, Terminated
<1> QED
  BY <1>1, <1>2, PTL DEF Spec

-----------------------------------------------------------------------------
(* Facts about the inductive invariant. *)

InProgress == mpc \notin {"dpost", "dwait", "freed"}

(* A thread that is late with its comparison can no longer post: its count *)
(* is below the size of every later stage that uses the pool, and not 0.   *)
LEMMA LateNeverPosts ==
  ASSUME NonShrinking, TypeOK, StageInv, InProgress,
         NEW w \in Threads, Late(w)
  PROVE  k[w] # num_workers
<1>1. stage \in 1 .. NumStages /\ num_workers = Size[stage]
  BY DEF TypeOK, StageInv, InProgress, Late, Tags
<1>2. ret[w] \in 1 .. stage /\ k[w] \in 1 .. Size[ret[w]] - 1
  BY DEF Late
<1>3. Size[ret[w]] \in Nat /\ Size[stage] \in Nat
  BY <1>1, <1>2, SizeAssumption, NumStagesAssumption, NumThreadsAssumption
<1>4. Size[stage] # 0 => Size[ret[w]] <= Size[stage]
  BY <1>1, <1>2, <1>3, NumStagesAssumption DEF NonShrinking
<1> QED
  BY <1>1, <1>2, <1>3, <1>4

(* The threads of a stage are finitely many, and number num_workers. *)
LEMMA ParticipantsFinite ==
  ASSUME TypeOK
  PROVE  /\ IsFiniteSet(Participants)
         /\ Cardinality(Participants) = num_workers
         /\ Participants \subseteq Threads
<1>1. num_workers \in Nat /\ num_workers <= NumThreads
  BY NumThreadsAssumption DEF TypeOK
<1>2. IsFiniteSet(0 .. num_workers - 1)
      /\ Cardinality(0 .. num_workers - 1) =
           IF 0 > num_workers - 1 THEN 0 ELSE (num_workers - 1) - 0 + 1
  BY <1>1, FS_Interval
<1> QED
  BY <1>1, <1>2, NumThreadsAssumption DEF Participants, Threads

(* At most all participants have counted themselves, and when all have,    *)
(* Counted is the whole stage.                                             *)
LEMMA CountedBound ==
  ASSUME TypeOK, CountInv, Active
  PROVE  /\ IsFiniteSet(Counted)
         /\ num_workers_done = Cardinality(Counted)
         /\ num_workers_done <= num_workers
         /\ num_workers_done = num_workers => Counted = Participants
<1>1. Counted \subseteq Participants
  BY DEF Counted
<1>2. IsFiniteSet(Participants) /\ Cardinality(Participants) = num_workers
  BY ParticipantsFinite
<1>3. /\ IsFiniteSet(Counted)
      /\ Cardinality(Counted) <= Cardinality(Participants)
      /\ Cardinality(Counted) = Cardinality(Participants) =>
           Counted = Participants
  BY <1>1, <1>2, FS_Subset
<1>4. num_workers_done = Cardinality(Counted)
  BY DEF CountInv
<1> QED
  BY <1>2, <1>3, <1>4

-----------------------------------------------------------------------------
(* The main thread's steps preserve the inductive invariant.               *)

Parts == StageInv /\ QuietInv /\ ParticipantInv /\ BystanderInv /\ CountInv
            /\ PostInv

LEMMA InitParts == Init => Parts
BY NumThreadsAssumption, NumStagesAssumption
   DEF Init, Parts, StageInv, QuietInv, ParticipantInv, BystanderInv, CountInv,
       PostInv, Quiet, Active, Forked, Resting, NoJob, Threads, Participants

LEMMA SetStep == IInv /\ tpool_set => Parts'
<1> SUFFICES ASSUME IInv, tpool_set PROVE Parts'
  OBVIOUS
<1>1. /\ mpc = "set" /\ mpc' = "begin" /\ stage \in Nat /\ stage' = stage + 1
      /\ stage' \in 1 .. NumStages /\ num_workers' = Size[stage']
      /\ UNCHANGED <<ret, sem_run, sem_all_workers_done, die, wpc, k>>
  BY NumStagesAssumption DEF IInv, TypeOK, Tags, tpool_set, workerVars
<1>2. StageInv'
  <2>1. \A w \in Threads : ret[w] \in 0 .. stage
    BY <1>1 DEF IInv, StageInv
  <2>2. \A w \in Threads : ret'[w] \in 0 .. stage' /\ ret'[w] # stage'
    BY <1>1, <2>1
  <2>3. \A w \in Participants' : w \in Threads /\ args'[w] = stage'
    <3>1. num_workers' \in 0 .. NumThreads
      BY <1>1, SizeAssumption
    <3> QED
      BY <1>1, <3>1, NumThreadsAssumption DEF tpool_set, Participants, Threads
  <2> QED
    BY <1>1, <2>2, <2>3 DEF IInv, StageInv
<1>3. QuietInv'
  <2>1. \A w \in Threads : sem_run[w] = 0 /\ Resting(w)
    BY <1>1 DEF IInv, QuietInv, Quiet
  <2>2. \A w \in Threads : Resting(w)'
    BY <1>1, <2>1 DEF Resting, Late
  <2> QED
    BY <1>1, <2>1, <2>2 DEF IInv, QuietInv, Quiet
<1>4. ~Active'
  BY <1>1 DEF Active, Forked
<1> QED
  BY <1>2, <1>3, <1>4
     DEF Parts, ParticipantInv, BystanderInv, CountInv, PostInv

LEMMA BeginStep == IInv /\ tpool_begin => Parts'
<1> SUFFICES ASSUME IInv, tpool_begin PROVE Parts'
  OBVIOUS
<1>1. /\ mpc = "begin"
      /\ UNCHANGED <<stage, num_workers, args, ret, sem_run,
                     sem_all_workers_done, die, wpc, k>>
      /\ num_workers \in Nat
  BY NumThreadsAssumption DEF IInv, TypeOK, tpool_begin, workerVars
<1>2. /\ sem_all_workers_done = 0
      /\ \A w \in Threads : sem_run[w] = 0 /\ Resting(w) /\ ret[w] # stage
  BY <1>1 DEF IInv, QuietInv, Quiet, StageInv
<1>3. \A w \in Threads : Resting(w)'
  BY <1>1, <1>2 DEF Resting, Late
<1>4. Participants' = Participants /\ Participants \subseteq Threads
  BY <1>1, ParticipantsFinite DEF IInv, Participants
<1>5. StageInv'
  <2>1. mpc' = "post" => num_workers > 0 /\ i' = 0
    BY <1>1 DEF tpool_begin
  <2>2. mpc' = "post" => i' \in Participants'
    BY <1>1, <2>1 DEF Participants
  <2>3. mpc' \in {"post", "own"}
    BY DEF tpool_begin
  <2> QED
    BY <1>1, <1>4, <2>1, <2>2, <2>3 DEF IInv, StageInv
<1>6. CASE num_workers = 0
  <2>1. mpc' = "own" /\ ~Active'
    BY <1>1, <1>6 DEF tpool_begin, Active
  <2>2. QuietInv'
    BY <1>1, <1>2, <1>3 DEF QuietInv
  <2> QED
    BY <1>5, <2>1, <2>2
       DEF Parts, ParticipantInv, BystanderInv, CountInv, PostInv
<1>7. CASE num_workers # 0
  <2>1. mpc' = "post" /\ num_workers_done' = 0 /\ i' = 0
    BY <1>7 DEF tpool_begin
  <2>2. QuietInv'
    BY <2>1 DEF QuietInv, Quiet
  <2>3. ParticipantInv'
    <3>1. \A w \in Participants : ~Posted(w)'
      BY <2>1, <1>1 DEF Posted, Participants
    <3> QED
      BY <1>1, <1>2, <1>3, <1>4, <3>1 DEF ParticipantInv, Unstarted
  <2>4. BystanderInv'
    BY <1>1, <1>2, <1>3 DEF BystanderInv
  <2>5. CountInv'
    <3>1. Counted' = {}
      BY <1>1, <1>2, <1>4 DEF Counted
    <3> QED
      BY <2>1, <3>1, FS_EmptySet DEF CountInv
  <2>6. PostInv'
    BY <1>1, <1>2 DEF PostInv
  <2> QED
    BY <1>5, <2>2, <2>3, <2>4, <2>5, <2>6 DEF Parts
<1> QED
  BY <1>6, <1>7

LEMMA PostRunStep == IInv /\ PostRun => Parts'
<1> SUFFICES ASSUME IInv, PostRun PROVE Parts'
  OBVIOUS
<1>1. /\ mpc = "post" /\ mpc' \in {"post", "own"}
      /\ i' = i + 1
      /\ sem_run' = [sem_run EXCEPT ![i] = @ + 1]
      /\ UNCHANGED <<stage, num_workers, num_workers_done, args, ret,
                     sem_all_workers_done, die, wpc, job, k>>
  BY DEF PostRun, workerVars
<1>2. /\ num_workers \in Nat /\ num_workers > 0 /\ i \in Participants
      /\ Participants' = Participants /\ Participants \subseteq Threads
      /\ sem_run \in [Threads -> Nat]
  BY <1>1, ParticipantsFinite, NumThreadsAssumption
     DEF IInv, StageInv, TypeOK, Participants
<1>3. Active /\ Active'
  BY <1>1, <1>2 DEF Active, Forked
<1>4. \A w \in Threads : Resting(w) => Resting(w)'
  BY <1>1 DEF Resting, Late
<1>5. StageInv'
  <2>1. mpc' = "post" => i' \in Participants'
    BY <1>1, <1>2 DEF PostRun, Participants
  <2> QED
    BY <1>1, <1>2, <2>1 DEF IInv, StageInv
<1>6. QuietInv'
  BY <1>1, <1>2 DEF QuietInv, Quiet
<1>7. ParticipantInv'
  <2> SUFFICES ASSUME NEW w \in Participants
               PROVE  (Unstarted(w) \/ Busy(w) \/ Finished(w))'
    BY <1>2 DEF ParticipantInv
  <2>1. Unstarted(w) \/ Busy(w) \/ Finished(w)
    BY <1>3 DEF IInv, ParticipantInv
  <2>2. w \in Int /\ i \in Int /\ (w < i \/ w = i \/ w > i)
    BY <1>2 DEF Participants
  <2>3. CASE w = i
    <3>1. ~Posted(w) /\ Posted(w)'
      BY <1>1, <2>2, <2>3 DEF Posted
    <3>2. Unstarted(w) /\ sem_run[w] = 0
      BY <2>1, <3>1 DEF Busy, Finished, Unstarted
    <3>3. sem_run'[w] = 1
      BY <1>1, <1>2, <2>3, <3>2
    <3> QED
      BY <1>1, <1>2, <1>4, <3>1, <3>2, <3>3 DEF Unstarted
  <2>4. CASE w # i
    <3>1. sem_run'[w] = sem_run[w]
      BY <1>1, <1>2, <2>4
    <3>2. Posted(w) => Posted(w)'
      BY <1>1, <2>2 DEF Posted
    <3>3. Posted(w)' => Posted(w)
      BY <1>1, <1>2, <2>2, <2>4 DEF Posted, PostRun, Participants
    <3>4. Unstarted(w) => Unstarted(w)'
      BY <1>1, <1>2, <1>4, <3>1, <3>2, <3>3 DEF Unstarted
    <3>5. Busy(w) => Busy(w)'
      BY <1>1, <3>1, <3>2 DEF Busy
    <3>6. Finished(w) => Finished(w)'
      BY <1>1, <3>1, <3>2 DEF Finished
    <3> QED
      BY <2>1, <3>4, <3>5, <3>6
  <2> QED
    BY <2>3, <2>4
<1>8. BystanderInv'
  <2>1. \A w \in Threads \ Participants : sem_run'[w] = sem_run[w]
    BY <1>1, <1>2
  <2> QED
    BY <1>1, <1>2, <1>3, <1>4, <2>1 DEF IInv, BystanderInv
<1>9. CountInv' /\ PostInv'
  <2>1. Counted' = Counted
    BY <1>1, <1>2 DEF Counted
  <2> QED
    BY <1>1, <1>3, <2>1 DEF IInv, CountInv, PostInv
<1> QED
  BY <1>5, <1>6, <1>7, <1>8, <1>9 DEF Parts

LEMMA OwnStep == IInv /\ start_my_work => Parts'
<1> SUFFICES ASSUME IInv, start_my_work PROVE Parts'
  OBVIOUS
<1>1. /\ mpc = "own" /\ mpc' = "wait"
      /\ UNCHANGED <<stage, num_workers, num_workers_done, args, ret, i, sem_run,
                     sem_all_workers_done, die, wpc, job, k>>
  BY DEF start_my_work, workerVars
<1>2. /\ Participants' = Participants /\ (Active <=> Active')
      /\ (Quiet <=> Quiet') /\ Counted' = Counted
  BY <1>1 DEF Participants, Active, Forked, Quiet, Counted
<1>3. \A w : /\ Resting(w)' <=> Resting(w)
             /\ Posted(w)' <=> Posted(w)
  BY <1>1 DEF Resting, Late, Posted
<1>4. \A w : /\ Unstarted(w)' <=> Unstarted(w)
             /\ Busy(w)' <=> Busy(w)
             /\ Finished(w)' <=> Finished(w)
  BY <1>1, <1>3 DEF Unstarted, Busy, Finished
<1>5. StageInv'
  BY <1>1, <1>2 DEF IInv, StageInv
<1> QED
  BY <1>1, <1>2, <1>3, <1>4, <1>5
     DEF IInv, Parts, QuietInv, ParticipantInv, BystanderInv, CountInv, PostInv

(* When the post that announces the end of a stage is there, every         *)
(* participant has finished, and none can post again.                      *)
LEMMA StageOver ==
  ASSUME IInv, Active, sem_all_workers_done > 0
  PROVE  /\ sem_all_workers_done = 1
         /\ \A w \in Participants : Finished(w) /\ Resting(w)
<1>1. sem_all_workers_done = 1 /\ num_workers_done = num_workers
  BY DEF IInv, PostInv
<1>2. Counted = Participants
  BY <1>1, CountedBound DEF IInv
<1>3. ASSUME NEW w \in Participants PROVE Finished(w) /\ Resting(w)
  <2>1. ret[w] = stage /\ wpc[w] \in {"wait", "cmp"}
    BY <1>2 DEF Counted
  <2>2. Finished(w)
    BY <2>1 DEF IInv, ParticipantInv, Unstarted, Busy
  <2>3. wpc[w] = "cmp" => k[w] \in 1 .. num_workers - 1
    <3>1. wpc[w] = "cmp" => k[w] # num_workers
      BY <1>1, <1>2 DEF IInv, PostInv
    <3>2. wpc[w] = "cmp" => k[w] \in 1 .. num_workers_done
      BY <2>2 DEF Finished
    <3>3. num_workers \in Nat
      BY NumThreadsAssumption DEF IInv, TypeOK
    <3> QED
      BY <1>1, <3>1, <3>2, <3>3
  <2>4. stage \in 1 .. stage /\ num_workers = Size[stage]
    <3>1. stage \in Nat
      BY NumStagesAssumption DEF IInv, TypeOK, Tags
    <3>2. stage # 0 /\ (stage > 0 => num_workers = Size[stage])
      BY DEF IInv, StageInv, Active, Forked
    <3> QED
      BY <3>1, <3>2
  <2> QED
    BY <2>1, <2>2, <2>3, <2>4 DEF Resting, Late
<1> QED
  BY <1>1, <1>3

LEMMA WaitStep == IInv /\ tpool_wait => Parts'
<1> SUFFICES ASSUME IInv, tpool_wait PROVE Parts'
  OBVIOUS
<1>1. /\ mpc = "wait" /\ mpc' = "joined"
      /\ UNCHANGED <<stage, num_workers, num_workers_done, args, ret, i, sem_run,
                     die, wpc, job, k>>
      /\ num_workers \in Nat /\ sem_all_workers_done \in Nat
  BY NumThreadsAssumption DEF tpool_wait, workerVars, IInv, TypeOK
<1>2. \A w : Resting(w)' <=> Resting(w)
  BY <1>1 DEF Resting, Late
<1>3. Participants' = Participants /\ Participants \subseteq Threads /\ ~Active'
  BY <1>1, ParticipantsFinite DEF IInv, Participants, Active, Forked
<1>4. /\ sem_all_workers_done' = 0
      /\ \A w \in Threads : sem_run[w] = 0 /\ Resting(w)
      /\ \A w \in Participants : ret[w] = stage
  <2>1. CASE num_workers = 0
    <3>1. /\ sem_all_workers_done = 0
          /\ \A w \in Threads : sem_run[w] = 0 /\ Resting(w)
      BY <1>1, <2>1 DEF IInv, QuietInv, Quiet
    <3>2. sem_all_workers_done' = 0 /\ Participants = {}
      BY <3>1, <2>1 DEF tpool_wait, Participants
    <3> QED
      BY <3>1, <3>2
  <2>2. CASE num_workers # 0
    <3>1. Active /\ sem_all_workers_done > 0
          /\ sem_all_workers_done' = sem_all_workers_done - 1
      BY <1>1, <2>2 DEF Active, Forked, tpool_wait
    <3>2. /\ sem_all_workers_done = 1
          /\ \A w \in Participants : Finished(w) /\ Resting(w)
      BY <3>1, StageOver
    <3>3. \A w \in Threads \ Participants : sem_run[w] = 0 /\ Resting(w)
      BY <3>1 DEF IInv, BystanderInv
    <3> QED
      BY <1>3, <3>1, <3>2, <3>3 DEF Finished
  <2> QED
    BY <2>1, <2>2
<1>5. StageInv'
  BY <1>1, <1>3, <1>4 DEF IInv, StageInv
<1> QED
  BY <1>1, <1>2, <1>3, <1>4, <1>5
     DEF Parts, QuietInv, ParticipantInv, BystanderInv, CountInv, PostInv

LEMMA ResultsStep == IInv /\ tpool_get_results => Parts'
<1> SUFFICES ASSUME IInv, tpool_get_results PROVE Parts'
  OBVIOUS
<1>1. /\ mpc = "joined" /\ mpc' = "set"
      /\ UNCHANGED <<stage, num_workers, num_workers_done, args, ret, i, sem_run,
                     sem_all_workers_done, die, wpc, job, k>>
  BY DEF tpool_get_results, workerVars
<1>2. \A w : Resting(w)' <=> Resting(w)
  BY <1>1 DEF Resting, Late
<1>3. ~Active'
  BY <1>1 DEF Active, Forked
<1>4. QuietInv'
  BY <1>1, <1>2 DEF IInv, QuietInv, Quiet
<1>5. StageInv'
  BY <1>1 DEF IInv, StageInv
<1> QED
  BY <1>3, <1>4, <1>5
     DEF Parts, ParticipantInv, BystanderInv, CountInv, PostInv

(* Once the pool is being destroyed the invariant says nothing more. *)
LEMMA DestroySteps == 
  IInv /\ (tpool_destroy \/ PostDie \/ FreePool) => Parts'
<1> SUFFICES ASSUME IInv, tpool_destroy \/ PostDie \/ FreePool PROVE Parts'
  OBVIOUS
<1>1. mpc' \in {"dpost", "dwait", "freed"}
  BY DEF tpool_destroy, PostDie, FreePool
<1>2. ~Active' /\ ~Quiet'
  BY <1>1 DEF Active, Forked, Quiet
<1> QED
  BY <1>1, <1>2 DEF Parts, StageInv, QuietInv, ParticipantInv, BystanderInv,
                    CountInv, PostInv

-----------------------------------------------------------------------------
(* The pool threads' steps preserve the inductive invariant.               *)

(* A step of thread w that posts nothing and leaves the stage alone only   *)
(* has to be checked at w itself.                                          *)
LEMMA OtherThreads ==
  ASSUME IInv, NEW w \in Threads, NEW v \in Threads, v # w,
         UNCHANGED <<stage, num_workers, mpc, i>>,
         num_workers_done \in Nat, num_workers_done' \in Nat,
         num_workers_done <= num_workers_done',
         sem_run'[v] = sem_run[v], ret'[v] = ret[v], wpc'[v] = wpc[v],
         job'[v] = job[v], k'[v] = k[v]
  PROVE  /\ Resting(v)' <=> Resting(v)
         /\ Unstarted(v)' <=> Unstarted(v)
         /\ Busy(v)' <=> Busy(v)
         /\ Finished(v) => Finished(v)'
<1>1. /\ Resting(v)' <=> Resting(v)
      /\ Posted(v)' <=> Posted(v)
  BY DEF Resting, Late, Posted
<1>2. k[v] \in 1 .. num_workers_done => k[v] \in 1 .. num_workers_done'
  OBVIOUS
<1> QED
  BY <1>1, <1>2 DEF Unstarted, Busy, Finished

(* Late comparisons: the thread goes back to waiting and nobody is woken.  *)
LEMMA LateCmp ==
  ASSUME NonShrinking, IInv, InProgress, NEW w \in Threads, Cmp(w), Late(w)
  PROVE  UNCHANGED <<stage, num_workers, num_workers_done, die, args, ret,
                     sem_run, sem_all_workers_done, mpc, i, job, k>>
<1>1. k[w] # num_workers
  BY LateNeverPosts DEF IInv
<1> QED
  BY <1>1 DEF Cmp, CompareAndPost, mainVars

LEMMA QuietThreadStep ==
  ASSUME NonShrinking, IInv, Quiet, InProgress,
         NEW w \in Threads, thread_loop(w)
  PROVE  Parts'
<1>1. /\ sem_all_workers_done = 0
      /\ \A v \in Threads : sem_run[v] = 0 /\ Resting(v)
  BY DEF IInv, QuietInv
<1>2. wpc[w] = "cmp" /\ Cmp(w) /\ Late(w)
  BY <1>1 DEF Resting, thread_loop, Wake, Load, Run, Inc, Cmp, ExitInc, ExitCmp,
              CountMe, CompareAndPost
<1>3. UNCHANGED <<stage, num_workers, num_workers_done, die, args, ret,
                  sem_run, sem_all_workers_done, mpc, i, job, k>>
  BY <1>2, LateCmp
<1>4. wpc' = [wpc EXCEPT ![w] = "wait"] /\ wpc \in [Threads -> WorkerPC]
  BY <1>2 DEF Cmp, CompareAndPost, IInv, TypeOK
<1>5. \A v \in Threads : Resting(v)'
  BY <1>1, <1>3, <1>4 DEF Resting, Late
<1>6. QuietInv'
  BY <1>1, <1>3, <1>5 DEF QuietInv
<1>7. StageInv'
  BY <1>3 DEF IInv, StageInv, Participants
<1>8. ~Active'
  BY <1>3 DEF Quiet, Active, Forked
<1> QED
  BY <1>6, <1>7, <1>8
     DEF Parts, ParticipantInv, BystanderInv, CountInv, PostInv

(* The parts of the invariant that hold in a step of thread w once the     *)
(* changes at w itself have been checked.                                  *)
LEMMA ThreadFrame ==
  ASSUME IInv, Active, NEW w \in Threads,
         UNCHANGED <<stage, num_workers, mpc, i, die, args>>,
         num_workers_done' \in Nat, num_workers_done <= num_workers_done',
         \A v \in Threads \ {w} :
            /\ sem_run'[v] = sem_run[v] /\ ret'[v] = ret[v]
            /\ wpc'[v] = wpc[v] /\ job'[v] = job[v] /\ k'[v] = k[v],
         ret'[w] \in 0 .. stage,
         w \in Participants => (Unstarted(w) \/ Busy(w) \/ Finished(w))',
         w \notin Participants =>
            sem_run'[w] = 0 /\ ret'[w] # stage /\ Resting(w)'
  PROVE  StageInv' /\ QuietInv' /\ ParticipantInv' /\ BystanderInv'
<1>1. Participants' = Participants /\ Participants \subseteq Threads /\ Active'
  BY ParticipantsFinite DEF IInv, Participants, Active, Forked
<1>2. StageInv'
  <2>1. \A v \in Threads : ret'[v] \in 0 .. stage
    BY DEF IInv, StageInv, Active, Forked
  <2>2. mpc # "begin" /\ mpc # "joined" /\ mpc # "set"
    BY DEF Active, Forked
  <2> QED
    BY <1>1, <2>1, <2>2 DEF IInv, StageInv
<1>3. QuietInv'
  BY <1>1 DEF QuietInv, Quiet, Active, Forked
<1>4. num_workers_done \in Nat
  BY DEF IInv, TypeOK
<1>5. ParticipantInv'
  <2> SUFFICES ASSUME NEW v \in Participants, v # w
               PROVE  (Unstarted(v) \/ Busy(v) \/ Finished(v))'
    BY <1>1 DEF ParticipantInv
  <2>1. Unstarted(v) \/ Busy(v) \/ Finished(v)
    BY DEF IInv, ParticipantInv
  <2> QED
    BY <1>1, <1>4, <2>1, OtherThreads
<1>6. BystanderInv'
  <2> SUFFICES ASSUME NEW v \in Threads \ Participants, v # w
               PROVE  sem_run'[v] = 0 /\ ret'[v] # stage /\ Resting(v)'
    BY <1>1 DEF BystanderInv
  <2>1. sem_run[v] = 0 /\ ret[v] # stage /\ Resting(v)
    BY DEF IInv, BystanderInv
  <2> QED
    BY <1>1, <1>4, <2>1, OtherThreads
<1> QED
  BY <1>2, <1>3, <1>5, <1>6

(* CountInv and PostInv survive a step that counts and wakes nobody. *)
LEMMA CountFrame ==
  ASSUME IInv, Active, NEW w \in Threads,
         UNCHANGED <<stage, num_workers, num_workers_done, mpc, i,
                     sem_all_workers_done, k>>,
         Counted' = Counted,
         \A v \in Threads : v # w => wpc'[v] = wpc[v],
         wpc'[w] # "cmp"
  PROVE  CountInv' /\ PostInv'
<1>1. Active' /\ Counted \subseteq Threads
  BY ParticipantsFinite DEF Active, Forked, IInv, Counted
<1>2. \A v \in Counted : wpc'[v] = "cmp" => wpc[v] = "cmp"
  BY <1>1
<1>3. CountInv'
  BY <1>1, <1>2 DEF IInv, CountInv
<1>4. PostInv'
  BY <1>1, <1>2 DEF IInv, PostInv
<1> QED
  BY <1>3, <1>4

LEMMA ActiveTypes ==
  ASSUME IInv, Active, NEW w \in Threads
  PROVE  /\ die = 0 /\ InProgress /\ stage \in Nat /\ stage > 0
         /\ num_workers \in Nat /\ num_workers_done \in Nat
         /\ sem_run \in [Threads -> Nat] /\ wpc \in [Threads -> WorkerPC]
         /\ ret \in [Threads -> Tags \cup {Freed}] /\ k \in [Threads -> Nat]
         /\ job \in [Threads -> [func : Tags, arg : Tags]]
         /\ ret[w] \in 0 .. stage
         /\ w \in Participants => args[w] = stage
         /\ w \in Participants => Unstarted(w) \/ Busy(w) \/ Finished(w)
         /\ w \notin Participants =>
              sem_run[w] = 0 /\ ret[w] # stage /\ Resting(w)
<1>1. /\ num_workers \in Nat /\ num_workers_done \in Nat
      /\ sem_run \in [Threads -> Nat] /\ wpc \in [Threads -> WorkerPC]
      /\ ret \in [Threads -> Tags \cup {Freed}] /\ k \in [Threads -> Nat]
      /\ job \in [Threads -> [func : Tags, arg : Tags]] /\ stage \in Nat
  BY NumThreadsAssumption, NumStagesAssumption DEF IInv, TypeOK, Tags
<1>2. InProgress /\ mpc \in {"post", "own", "wait"}
  BY DEF Active, Forked, InProgress
<1>3. /\ die = 0 /\ stage # 0 /\ ret[w] \in 0 .. stage
      /\ w \in Participants => args[w] = stage
  BY <1>2 DEF IInv, StageInv, InProgress
<1>4. w \in Participants => Unstarted(w) \/ Busy(w) \/ Finished(w)
  BY DEF IInv, ParticipantInv
<1>5. w \notin Participants => sem_run[w] = 0 /\ ret[w] # stage /\ Resting(w)
  BY DEF IInv, BystanderInv
<1> QED
  BY <1>1, <1>2, <1>3, <1>4, <1>5

LEMMA ActiveWake ==
  ASSUME IInv, Active, NEW w \in Threads, Wake(w) PROVE Parts'
<1>1. /\ wpc[w] = "wait" /\ sem_run[w] > 0
      /\ wpc' = [wpc EXCEPT ![w] = "woken"]
      /\ sem_run' = [sem_run EXCEPT ![w] = @ - 1]
      /\ UNCHANGED <<stage, num_workers, num_workers_done, die, args, ret,
                     sem_all_workers_done, mpc, i, job, k>>
  BY DEF Wake, mainVars
<1>2. w \in Participants /\ Unstarted(w) /\ sem_run[w] = 1 /\ Posted(w)
  BY <1>1, ActiveTypes DEF Busy, Finished, Unstarted
<1>3. Busy(w)'
  BY <1>1, <1>2, ActiveTypes DEF Unstarted, Busy, Posted
<1>4. Counted' = Counted
  BY <1>1, <1>2, ActiveTypes, ParticipantsFinite
     DEF IInv, Unstarted, Counted, Participants
<1>5. StageInv' /\ QuietInv' /\ ParticipantInv' /\ BystanderInv'
  BY <1>1, <1>2, <1>3, ActiveTypes, ThreadFrame
<1>6. CountInv' /\ PostInv'
  BY <1>1, <1>4, ActiveTypes, CountFrame
<1> QED
  BY <1>5, <1>6 DEF Parts

LEMMA ActiveLoad ==
  ASSUME IInv, Active, NEW w \in Threads, Load(w) PROVE Parts'
<1>1. /\ wpc[w] = "woken"
      /\ wpc' = [wpc EXCEPT ![w] = "run"]
      /\ job' = [job EXCEPT ![w] = [func |-> stage, arg |-> args[w]]]
      /\ UNCHANGED <<stage, num_workers, num_workers_done, die, args, ret,
                     sem_run, sem_all_workers_done, mpc, i, k>>
  BY ActiveTypes DEF Load, mainVars
<1>2. w \in Participants /\ Busy(w) /\ ret[w] # stage
  BY <1>1, ActiveTypes DEF Busy, Finished, Unstarted, Resting
<1>3. Busy(w)'
  <2>1. job'[w] = [func |-> stage, arg |-> stage]
    BY <1>1, <1>2, ActiveTypes
  <2> QED
    BY <1>1, <1>2, <2>1, ActiveTypes DEF Busy, Posted
<1>4. Counted' = Counted
  BY <1>1, <1>2, ActiveTypes, ParticipantsFinite DEF IInv, Counted, Participants
<1>5. StageInv' /\ QuietInv' /\ ParticipantInv' /\ BystanderInv'
  BY <1>1, <1>2, <1>3, ActiveTypes, ThreadFrame
<1>6. CountInv' /\ PostInv'
  BY <1>1, <1>4, ActiveTypes, CountFrame
<1> QED
  BY <1>5, <1>6 DEF Parts

LEMMA ActiveRun ==
  ASSUME IInv, Active, NEW w \in Threads, Run(w) PROVE Parts'
<1>1. /\ wpc[w] = "run"
      /\ wpc' = [wpc EXCEPT ![w] = "inc"]
      /\ ret' = [ret EXCEPT ![w] = job[w].arg]
      /\ UNCHANGED <<stage, num_workers, num_workers_done, die, args, job,
                     sem_run, sem_all_workers_done, mpc, i, k>>
  BY DEF Run, mainVars
<1>2. w \in Participants /\ Busy(w) /\ job[w].arg = stage
  BY <1>1, ActiveTypes DEF Busy, Finished, Unstarted, Resting
<1>3. Busy(w)' /\ ret'[w] = stage
  BY <1>1, <1>2, ActiveTypes DEF Busy, Posted
<1>4. Counted' = Counted
  BY <1>1, <1>2, ActiveTypes, ParticipantsFinite DEF IInv, Counted, Participants
<1>5. StageInv' /\ QuietInv' /\ ParticipantInv' /\ BystanderInv'
  BY <1>1, <1>2, <1>3, ActiveTypes, ThreadFrame
<1>6. CountInv' /\ PostInv'
  BY <1>1, <1>4, ActiveTypes, CountFrame
<1> QED
  BY <1>5, <1>6 DEF Parts

LEMMA ActiveInc ==
  ASSUME IInv, Active, NEW w \in Threads, Inc(w) PROVE Parts'
<1>1. /\ wpc[w] = "inc"
      /\ wpc' = [wpc EXCEPT ![w] = "cmp"]
      /\ num_workers_done' = num_workers_done + 1
      /\ k' = [k EXCEPT ![w] = num_workers_done + 1]
      /\ UNCHANGED <<stage, num_workers, die, args, ret, job,
                     sem_run, sem_all_workers_done, mpc, i>>
  BY DEF Inc, CountMe, mainVars
<1>2. w \in Participants /\ Busy(w) /\ ret[w] = stage
  BY <1>1, ActiveTypes DEF Busy, Finished, Unstarted, Resting
<1>3. Finished(w)' /\ wpc'[w] = "cmp" /\ k'[w] = num_workers_done + 1
  BY <1>1, <1>2, ActiveTypes DEF Busy, Posted, Finished
<1>4. w \notin Counted /\ Counted' = Counted \cup {w}
  BY <1>1, <1>2, ActiveTypes, ParticipantsFinite DEF IInv, Counted, Participants
<1>5. /\ IsFiniteSet(Counted) /\ num_workers_done = Cardinality(Counted)
      /\ num_workers_done < num_workers
  <2>1. num_workers_done # num_workers
    BY <1>2, <1>4, CountedBound DEF IInv
  <2>2. /\ IsFiniteSet(Counted) /\ num_workers_done = Cardinality(Counted)
        /\ num_workers_done <= num_workers
    BY CountedBound DEF IInv
  <2>3. num_workers \in Nat /\ num_workers_done \in Nat
    BY ActiveTypes
  <2> QED
    BY <2>1, <2>2, <2>3
<1>6. StageInv' /\ QuietInv' /\ ParticipantInv' /\ BystanderInv'
  BY <1>1, <1>2, <1>3, ActiveTypes, ThreadFrame
<1>7. \A v \in Counted : v # w /\ wpc'[v] = wpc[v] /\ k'[v] = k[v]
  BY <1>1, <1>4, ActiveTypes, ParticipantsFinite DEF IInv, Counted
<1>8. CountInv'
  <2>1. Cardinality(Counted') = num_workers_done'
    BY <1>1, <1>4, <1>5, FS_AddElement
  <2>2. \A v \in Counted : wpc'[v] = "cmp" => k'[v] # k'[w]
    <3> SUFFICES ASSUME NEW v \in Counted, wpc[v] = "cmp"
                 PROVE  k[v] # num_workers_done + 1
      BY <1>3, <1>7
    <3>1. k[v] \in 1 .. num_workers_done
      BY ActiveTypes DEF IInv, ParticipantInv, Counted, Unstarted, Busy, Finished
    <3> QED
      BY <3>1, ActiveTypes
  <2>3. \A u, v \in Counted :
           u # v /\ wpc'[u] = "cmp" /\ wpc'[v] = "cmp" => k'[u] # k'[v]
    BY <1>7 DEF IInv, CountInv
  <2> QED
    BY <1>4, <2>1, <2>2, <2>3 DEF CountInv
<1>9. PostInv'
  BY <1>1, <1>5, ActiveTypes DEF IInv, PostInv
<1> QED
  BY <1>6, <1>8, <1>9 DEF Parts

LEMMA ActiveCmp ==
  ASSUME NonShrinking, IInv, Active, NEW w \in Threads, Cmp(w) PROVE Parts'
<1>1. /\ wpc[w] = "cmp"
      /\ wpc' = [wpc EXCEPT ![w] = "wait"]
      /\ UNCHANGED <<stage, num_workers, num_workers_done, die, args, ret, job,
                     k, sem_run, mpc, i>>
  BY DEF Cmp, CompareAndPost, mainVars
<1>2. wpc'[w] = "wait"
  BY <1>1, ActiveTypes
<1>3. \A v \in Threads : v # w => wpc'[v] = wpc[v]
  BY <1>1, ActiveTypes
<1>4. Counted' = Counted
  BY <1>1, <1>2, <1>3, ParticipantsFinite DEF IInv, Counted, Participants
<1>5. Resting(w) => Resting(w)'
  BY <1>1, <1>2 DEF Resting
<1>6. StageInv' /\ QuietInv' /\ ParticipantInv' /\ BystanderInv'
  <2>1. Unstarted(w) => Unstarted(w)'
    BY <1>1, <1>5 DEF Unstarted, Posted
  <2>2. Finished(w) => Finished(w)'
    BY <1>1, <1>2 DEF Finished, Posted
  <2>3. ~Busy(w)
    BY <1>1 DEF Busy
  <2> QED
    BY <1>1, <1>3, <1>5, <2>1, <2>2, <2>3, ActiveTypes, ThreadFrame
<1>7. CASE sem_all_workers_done' = sem_all_workers_done
  <2>1. CountInv' /\ PostInv'
    BY <1>1, <1>2, <1>3, <1>4, <1>7, CountFrame
  <2> QED
    BY <1>6, <2>1 DEF Parts
<1>8. CASE sem_all_workers_done' # sem_all_workers_done
  <2>1. /\ k[w] = num_workers
        /\ sem_all_workers_done' = sem_all_workers_done + 1
    BY <1>8 DEF Cmp, CompareAndPost
  <2>2. w \in Counted
    <3>1. ~Late(w)
      BY <2>1, ActiveTypes, LateNeverPosts DEF IInv
    <3>2. Finished(w) /\ w \in Participants
      BY <1>1, <3>1, ActiveTypes DEF Unstarted, Busy, Resting
    <3> QED
      BY <1>1, <3>2 DEF Finished, Counted
  <2>3. num_workers_done = num_workers
    <3>1. k[w] \in 1 .. num_workers_done
      BY <1>1, <2>2, ActiveTypes DEF Counted, Unstarted, Busy, Finished
    <3>2. num_workers_done <= num_workers
      BY CountedBound DEF IInv
    <3>3. num_workers \in Nat /\ num_workers_done \in Nat
      BY ActiveTypes
    <3> QED
      BY <2>1, <3>1, <3>2, <3>3
  <2>4. sem_all_workers_done = 0
    BY <1>1, <2>1, <2>2 DEF IInv, PostInv
  <2>5. Active' /\ Counted \subseteq Threads
    BY <1>1, ParticipantsFinite DEF Active, Forked, IInv, Counted
  <2>6. \A v \in Counted : wpc'[v] = "cmp" => v # w /\ wpc[v] = "cmp"
    BY <1>2, <1>3, <2>5
  <2>7. CountInv'
    BY <1>1, <1>4, <2>5, <2>6 DEF IInv, CountInv
  <2>8. \A v \in Counted : wpc'[v] = "cmp" => k[v] # num_workers
    BY <1>1, <2>1, <2>2, <2>6 DEF IInv, CountInv
  <2>9. PostInv'
    BY <1>1, <1>4, <2>1, <2>3, <2>4, <2>8 DEF PostInv
  <2> QED
    BY <1>6, <2>7, <2>9 DEF Parts
<1> QED
  BY <1>7, <1>8

LEMMA ThreadStep ==
  ASSUME NonShrinking, IInv, NEW w \in Threads, thread_loop(w)
  PROVE  Parts'
<1>1. CASE ~InProgress
  <2>1. mpc' = mpc
    BY DEF thread_loop, Wake, Load, Run, Inc, Cmp, ExitInc, ExitCmp, CountMe,
           CompareAndPost, mainVars
  <2> QED
    BY <1>1, <2>1 DEF InProgress, Parts, StageInv, QuietInv, ParticipantInv,
           BystanderInv, CountInv, PostInv, Quiet, Active, Forked
<1>2. CASE InProgress /\ Quiet
  BY <1>2, QuietThreadStep
<1>3. CASE InProgress /\ ~Quiet
  <2>1. Active
    BY <1>3, NumThreadsAssumption
       DEF InProgress, Quiet, Active, Forked, IInv, TypeOK, MainPC, StageInv
  <2>2. ~ExitInc(w) /\ ~ExitCmp(w)
    BY <2>1, ActiveTypes
       DEF ExitInc, ExitCmp, CountMe, CompareAndPost, Unstarted, Busy, Finished,
           Resting
  <2> QED
    BY <2>1, <2>2, ActiveWake, ActiveLoad, ActiveRun, ActiveInc, ActiveCmp
       DEF thread_loop
<1> QED
  BY <1>1, <1>2, <1>3

-----------------------------------------------------------------------------
(* Every step keeps the invariant of the stages. *)
LEMMA StageParts ==
  ASSUME NonShrinking, TypeOK, Parts, [Next]_vars
  PROVE  Parts'
<1>1. IInv
  BY DEF Parts, IInv
<1>2. CASE Main
  BY <1>1, <1>2, SetStep, BeginStep, PostRunStep, OwnStep, WaitStep,
     ResultsStep, DestroySteps DEF Main
<1>3. CASE \E w \in Threads : thread_loop(w)
  BY <1>1, <1>3, ThreadStep
<1>4. CASE UNCHANGED vars
  BY <1>4 DEF vars, Parts, StageInv, QuietInv, ParticipantInv, BystanderInv,
     CountInv, PostInv, Quiet, Active, Forked, Resting, Late, Participants,
     Counted, Unstarted, Busy, Finished, Posted
<1> QED
  BY <1>2, <1>3, <1>4 DEF Next, Terminated

(* The inductive invariant IInv holds throughout, when stage sizes do not  *)
(* shrink.                                                                 *)
THEOREM StageInvariant ==
  ASSUME NonShrinking
  PROVE  Spec => []IInv
<1>1. Init => Parts
  BY InitParts
<1>2. TypeOK /\ Parts /\ [Next]_vars => Parts'
  BY StageParts
<1>3. TypeOK /\ Parts => IInv
  BY DEF Parts, IInv
<1> QED
  BY <1>1, <1>2, <1>3, TypeCorrect, PTL DEF Spec

(* When stage sizes do not shrink, tpool_wait returns only after every     *)
(* participant has run its share and left its thread function.             *)
THEOREM JoinSafety ==
  ASSUME NonShrinking
  PROVE  Spec => []JoinSafe
<1>1. IInv => JoinSafe
  BY DEF IInv, StageInv, QuietInv, Quiet, Resting, JoinSafe
<1> QED
  BY <1>1, StageInvariant, PTL

-----------------------------------------------------------------------------
(* The destruction of the pool. *)

(* The pool's threads are finitely many. *)
LEMMA ThreadsFinite ==
  IsFiniteSet(Threads) /\ Cardinality(Threads) = NumThreads
<1>1. IsFiniteSet(0 .. NumThreads - 1)
      /\ Cardinality(0 .. NumThreads - 1) =
           IF 0 > NumThreads - 1 THEN 0 ELSE (NumThreads - 1) - 0 + 1
  BY NumThreadsAssumption, FS_Interval
<1> QED
  BY <1>1, NumThreadsAssumption DEF Threads

LEMMA ExitedBound ==
  /\ IsFiniteSet(Exited)
  /\ Cardinality(Exited) \in Nat
  /\ Cardinality(Exited) <= NumThreads
  /\ Cardinality(Exited) = NumThreads => Exited = Threads
<1>1. Exited \subseteq Threads
  BY DEF Exited
<1> QED
  BY <1>1, ThreadsFinite, FS_Subset, FS_CardinalityType

(* tpool_destroy finds the pool's threads at rest. *)
LEMMA DestroyStep ==
  ASSUME IInv, tpool_destroy
  PROVE  ShutdownInv'
<1>1. /\ mpc' = "dpost" /\ num_workers' = NumThreads /\ num_workers_done' = 0
      /\ i' = 0 /\ UNCHANGED <<sem_run, sem_all_workers_done, wpc, k>>
  BY DEF tpool_destroy, workerVars
<1>2. /\ sem_all_workers_done = 0
      /\ \A w \in Threads : sem_run[w] = 0 /\ Resting(w)
  BY DEF IInv, QuietInv, Quiet, tpool_destroy
<1>3. \A w \in Threads : wpc[w] = "cmp" => k[w] < NumThreads
  <2> SUFFICES ASSUME NEW w \in Threads, wpc[w] = "cmp"
               PROVE  k[w] < NumThreads
    OBVIOUS
  <2>1. ret[w] \in 1 .. stage /\ k[w] \in 1 .. Size[ret[w]] - 1
    BY <1>2 DEF Resting, Late
  <2>2. stage = NumStages /\ stage \in Nat
    BY NumStagesAssumption DEF tpool_destroy
  <2>3. Size[ret[w]] \in 0 .. NumThreads
    BY <2>1, <2>2, SizeAssumption
  <2> QED
    BY <2>1, <2>3, NumThreadsAssumption
<1>4. \A w \in Threads : ~Told(w)'
  BY <1>1 DEF Told, Threads
<1>5. DownThreadInv'
  BY <1>1, <1>2, <1>3, <1>4 DEF DownThreadInv, StillIn, Resting
<1>6. Exited' = {}
  BY <1>1, <1>2 DEF Exited, Resting
<1> QED
  BY <1>1, <1>2, <1>4, <1>5, <1>6, FS_EmptySet, NumThreadsAssumption
     DEF ShutdownInv, DownCountInv, PoolFreed, Threads

LEMMA PostDieStep ==
  ASSUME TypeOK, ShutdownInv, PostDie
  PROVE  ShutdownInv'
<1>1. /\ mpc = "dpost" /\ mpc' \in {"dpost", "dwait"}
      /\ i' = i + 1 /\ die' = 1
      /\ sem_run' = [sem_run EXCEPT ![i] = @ + 1]
      /\ UNCHANGED <<num_workers, num_workers_done, sem_all_workers_done, wpc, k>>
  BY DEF PostDie, workerVars
<1>2. i \in Threads /\ i \in Nat /\ sem_run \in [Threads -> Nat]
  BY <1>1 DEF ShutdownInv, DownCountInv, Down, TypeOK
<1>3. \A w \in Threads : w \in Nat /\ (Told(w)' <=> Told(w) \/ w = i)
  BY <1>1, <1>2, NumThreadsAssumption DEF Told, PostDie, Threads
<1>4. DownThreadInv'
  <2> SUFFICES ASSUME NEW w \in Threads
               PROVE  (StillIn(w) \/ Leaving(w) \/ Left(w))'
    BY DEF DownThreadInv
  <2>1. StillIn(w) \/ Leaving(w) \/ Left(w)
    BY <1>1 DEF ShutdownInv, DownThreadInv, Down
  <2>2. CASE w = i
    <3>1. ~Told(w) /\ Told(w)'
      BY <1>1, <1>2, <1>3, <2>2 DEF Told
    <3>2. StillIn(w) /\ sem_run'[w] = 1
      BY <1>1, <1>2, <2>1, <2>2, <3>1 DEF StillIn, Leaving, Left
    <3> QED
      BY <1>1, <3>1, <3>2 DEF StillIn
  <2>3. CASE w # i
    <3>1. sem_run'[w] = sem_run[w] /\ (Told(w)' <=> Told(w))
      BY <1>1, <1>2, <1>3, <2>3
    <3> QED
      BY <1>1, <2>1, <3>1 DEF StillIn, Leaving, Left
  <2> QED
    BY <2>2, <2>3
<1>5. mpc' = "dpost" => i' \in Threads
  BY <1>1, <1>2, NumThreadsAssumption DEF PostDie, Threads
<1>6. Exited' = Exited
  BY <1>1 DEF Exited
<1> QED
  BY <1>1, <1>4, <1>5, <1>6
     DEF ShutdownInv, DownCountInv, Down, PoolFreed

(* The last wait returns only when every thread has counted itself out.    *)
LEMMA FreePoolStep ==
  ASSUME ShutdownInv, FreePool
  PROVE  ShutdownInv'
<1>1. mpc = "dwait" /\ mpc' = "freed" /\ sem_all_workers_done > 0 /\ wpc' = wpc
  BY DEF FreePool, workerVars
<1>2. Exited = Threads /\ Exited' = Exited
  BY <1>1 DEF ShutdownInv, DownCountInv, Down, Exited
<1> QED
  BY <1>1, <1>2
     DEF ShutdownInv, DownThreadInv, DownCountInv, Down, PoolFreed

(* A step of thread w in the destruction only has to be checked at w, once *)
(* it is known what it does to the counter and the semaphore.              *)
LEMMA DownFrame ==
  ASSUME TypeOK, ShutdownInv, Down, NEW w \in Threads,
         UNCHANGED <<num_workers, mpc, i, die>>,
         num_workers_done' \in Nat, num_workers_done <= num_workers_done',
         \A v \in Threads \ {w} :
            sem_run'[v] = sem_run[v] /\ wpc'[v] = wpc[v] /\ k'[v] = k[v],
         (StillIn(w) \/ Leaving(w) \/ Left(w))',
         num_workers_done' = Cardinality(Exited'),
         sem_all_workers_done' > 0 => Exited' = Threads
  PROVE  ShutdownInv'
<1>1. Down' /\ ~PoolFreed' /\ \A v : Told(v)' <=> Told(v)
  BY DEF Down, PoolFreed, Told
<1>2. DownThreadInv'
  <2> SUFFICES ASSUME NEW v \in Threads, v # w
               PROVE  (StillIn(v) \/ Leaving(v) \/ Left(v))'
    BY DEF DownThreadInv
  <2>1. StillIn(v) \/ Leaving(v) \/ Left(v)
    BY DEF ShutdownInv, DownThreadInv
  <2>2. k[v] <= num_workers_done => k[v] <= num_workers_done'
    BY DEF TypeOK
  <2> QED
    BY <1>1, <2>1, <2>2 DEF StillIn, Leaving, Left
<1>3. DownCountInv'
  BY <1>1 DEF ShutdownInv, DownCountInv
<1> QED
  BY <1>1, <1>2, <1>3 DEF ShutdownInv

LEMMA DownThreadStep ==
  ASSUME TypeOK, ShutdownInv, Down, NEW w \in Threads, thread_loop(w)
  PROVE  ShutdownInv'
<1>1. /\ StillIn(w) \/ Leaving(w) \/ Left(w)
      /\ num_workers = NumThreads /\ NumThreads \in Nat
      /\ num_workers_done = Cardinality(Exited)
      /\ sem_all_workers_done > 0 => Exited = Threads
      /\ Told(w) => die = 1
      /\ ~PoolFreed
  BY NumThreadsAssumption
     DEF ShutdownInv, DownThreadInv, DownCountInv, Down, PoolFreed
<1>2. /\ num_workers_done \in Nat /\ wpc \in [Threads -> WorkerPC]
      /\ sem_run \in [Threads -> Nat] /\ k \in [Threads -> Nat]
      /\ sem_all_workers_done \in Nat
  BY DEF TypeOK
<1>3. CASE Wake(w)
  <2>1. /\ wpc[w] = "wait" /\ sem_run[w] > 0
        /\ wpc' = [wpc EXCEPT ![w] = "woken"]
        /\ sem_run' = [sem_run EXCEPT ![w] = @ - 1]
        /\ UNCHANGED <<num_workers, num_workers_done, die, mpc, i, k,
                       sem_all_workers_done>>
    BY <1>3 DEF Wake, mainVars
  <2>2. Leaving(w)'
    BY <1>1, <1>2, <2>1 DEF StillIn, Leaving, Left, Told
  <2>3. Exited' = Exited
    BY <1>2, <2>1 DEF Exited
  <2> QED
    BY <1>1, <1>2, <2>1, <2>2, <2>3, DownFrame
<1>4. CASE Load(w)
  <2>1. wpc[w] = "woken" /\ Leaving(w) /\ die = 1
    BY <1>1, <1>4 DEF Load, StillIn, Leaving, Left
  <2>2. /\ wpc' = [wpc EXCEPT ![w] = "exit"]
        /\ UNCHANGED <<num_workers, num_workers_done, die, mpc, i, k, sem_run,
                       sem_all_workers_done>>
    BY <1>4, <2>1 DEF Load, mainVars
  <2>3. Leaving(w)'
    BY <1>2, <2>1, <2>2 DEF Leaving, Told
  <2>4. Exited' = Exited
    BY <1>2, <2>1, <2>2 DEF Exited
  <2> QED
    BY <1>1, <1>2, <2>2, <2>3, <2>4, DownFrame
<1>5. CASE Cmp(w)
  <2>1. /\ wpc[w] = "cmp" /\ wpc' = [wpc EXCEPT ![w] = "wait"]
        /\ UNCHANGED <<num_workers, num_workers_done, die, mpc, i, k, sem_run>>
    BY <1>5 DEF Cmp, CompareAndPost, mainVars
  <2>2. StillIn(w)
    BY <1>1, <2>1 DEF StillIn, Leaving, Left
  <2>3. sem_all_workers_done' = sem_all_workers_done
    BY <1>1, <1>2, <1>5, <2>1, <2>2 DEF Cmp, CompareAndPost, StillIn
  <2>4. StillIn(w)'
    BY <1>2, <2>1, <2>2 DEF StillIn, Told
  <2>5. Exited' = Exited
    BY <1>2, <2>1 DEF Exited
  <2> QED
    BY <1>1, <1>2, <2>1, <2>3, <2>4, <2>5, DownFrame
<1>6. CASE ExitInc(w)
  <2>1. /\ wpc[w] = "exit" /\ wpc' = [wpc EXCEPT ![w] = "xcmp"]
        /\ num_workers_done' = num_workers_done + 1
        /\ k' = [k EXCEPT ![w] = num_workers_done + 1]
        /\ UNCHANGED <<num_workers, die, mpc, i, sem_run, sem_all_workers_done>>
    BY <1>6 DEF ExitInc, CountMe, mainVars
  <2>2. Leaving(w) /\ w \notin Exited
    BY <1>1, <2>1 DEF StillIn, Leaving, Left, Exited
  <2>3. Left(w)'
    BY <1>2, <2>1, <2>2 DEF Leaving, Left, Told
  <2>4. Exited' = Exited \cup {w}
    BY <1>2, <2>1 DEF Exited
  <2>5. num_workers_done' = Cardinality(Exited')
    BY <1>1, <2>1, <2>2, <2>4, ExitedBound, FS_AddElement
  <2>6. sem_all_workers_done' > 0 => Exited' = Threads
    BY <1>1, <2>1, <2>2
  <2> QED
    BY <1>1, <1>2, <2>1, <2>3, <2>5, <2>6, DownFrame
<1>7. CASE ExitCmp(w)
  <2>1. /\ wpc[w] = "xcmp" /\ wpc' = [wpc EXCEPT ![w] = "gone"]
        /\ UNCHANGED <<num_workers, num_workers_done, die, mpc, i, k, sem_run>>
    BY <1>7 DEF ExitCmp, CompareAndPost, mainVars
  <2>2. Left(w)
    BY <1>1, <2>1 DEF StillIn, Leaving, Left
  <2>3. Left(w)' /\ Exited' = Exited
    BY <1>2, <2>1, <2>2 DEF Left, Told, Exited
  <2>4. sem_all_workers_done' > 0 => Exited' = Threads
    <3>1. CASE k[w] = num_workers
      <4>1. Cardinality(Exited) = NumThreads
        BY <1>1, <1>2, <2>1, <2>2, <3>1, ExitedBound DEF Left
      <4> QED
        BY <2>3, <4>1, ExitedBound
    <3>2. CASE k[w] # num_workers
      <4>1. sem_all_workers_done' = sem_all_workers_done
        BY <1>7, <3>2 DEF ExitCmp, CompareAndPost
      <4> QED
        BY <1>1, <2>3, <4>1
    <3> QED
      BY <3>1, <3>2
  <2> QED
    BY <1>1, <1>2, <2>1, <2>3, <2>4, DownFrame
<1>8. ~Run(w) /\ ~Inc(w)
  BY <1>1 DEF Run, Inc, CountMe, StillIn, Leaving, Left
<1> QED
  BY <1>3, <1>4, <1>5, <1>6, <1>7, <1>8 DEF thread_loop

(* Once the pool is freed its threads have left, and stay out.             *)
LEMMA FreedThreadStep ==
  ASSUME TypeOK, ShutdownInv, PoolFreed, NEW w \in Threads, thread_loop(w)
  PROVE  ShutdownInv'
<1>1. Exited = Threads /\ mpc' = mpc /\ wpc \in [Threads -> WorkerPC]
  BY DEF ShutdownInv, TypeOK, thread_loop, Wake, Load, Run, Inc, Cmp, ExitInc,
         ExitCmp, CountMe, CompareAndPost, mainVars
<1>2. \A v \in Threads : wpc[v] \in {"xcmp", "gone"}
  BY <1>1 DEF Exited
<1>3. ExitCmp(w)
  BY <1>2 DEF thread_loop, Wake, Load, Run, Inc, Cmp, ExitInc, CountMe,
              CompareAndPost
<1>4. Exited' = Threads
  BY <1>1, <1>2, <1>3 DEF ExitCmp, CompareAndPost, Exited
<1> QED
  BY <1>1, <1>4
     DEF PoolFreed, ShutdownInv, DownThreadInv, DownCountInv, Down

LEMMA ShutdownStep ==
  ASSUME IInv, ShutdownInv, [Next]_vars
  PROVE  ShutdownInv'
<1>1. CASE ~Down /\ ~PoolFreed /\ ~Down' /\ ~PoolFreed'
  BY <1>1 DEF ShutdownInv, DownThreadInv, DownCountInv
<1>2. CASE tpool_destroy \/ PostDie \/ FreePool
  BY <1>2, DestroyStep, PostDieStep, FreePoolStep DEF IInv
<1>3. CASE tpool_set \/ tpool_begin \/ PostRun \/ start_my_work \/ tpool_wait
             \/ tpool_get_results
  BY <1>1, <1>3
     DEF tpool_set, tpool_begin, PostRun, start_my_work, tpool_wait,
         tpool_get_results, Down, PoolFreed
<1>4. ASSUME NEW w \in Threads, thread_loop(w) PROVE ShutdownInv'
  <2>1. mpc' = mpc
    BY <1>4 DEF thread_loop, Wake, Load, Run, Inc, Cmp, ExitInc, ExitCmp,
                CountMe, CompareAndPost, mainVars
  <2>2. Down \/ PoolFreed \/ (~Down /\ ~PoolFreed /\ ~Down' /\ ~PoolFreed')
    BY <2>1 DEF Down, PoolFreed
  <2> QED
    BY <1>1, <1>4, <2>2, DownThreadStep, FreedThreadStep DEF IInv
<1>5. CASE UNCHANGED vars
  BY <1>5
     DEF vars, ShutdownInv, DownThreadInv, DownCountInv, Down, Told, Exited,
         StillIn, Leaving, Left, PoolFreed
<1> QED
  BY <1>2, <1>3, <1>4, <1>5 DEF Next, Main, Terminated

(* When stage sizes do not shrink, tpool_destroy releases the pool only    *)
(* after every pool thread has left its loop, so that none waits on a      *)
(* semaphore of the released pool.                                         *)
THEOREM ShutdownIsComplete ==
  ASSUME NonShrinking
  PROVE  Spec => []ShutdownComplete
<1>1. Init => ShutdownInv
  BY DEF Init, ShutdownInv, DownThreadInv, DownCountInv, Down, PoolFreed
<1>2. IInv /\ ShutdownInv /\ [Next]_vars => ShutdownInv'
  BY ShutdownStep
<1>3. ShutdownInv => ShutdownComplete
  BY DEF ShutdownInv, ShutdownComplete, Exited
<1> QED
  BY <1>1, <1>2, <1>3, StageInvariant, PTL DEF Spec
-----------------------------------------------------------------------------
(* The pool implements ForkJoin, step by step. *)

Todo == {w \in Participants : ret[w] # stage}

(* Outside a stage a step is no step of ForkJoin, as long as it forks      *)
(* nothing.                                                                *)
LEMMA StutterOutside ==
  ASSUME ~Forked, ~Forked', mpc # "begin", mpc' # "begin", stage' = stage
  PROVE  UNCHANGED FJ!fjVars
BY DEF FJ!fjVars, Forked

(* Inside a stage a step that stores no result is no step of ForkJoin.     *)
LEMMA StutterInside ==
  ASSUME Forked, Forked', UNCHANGED <<stage, num_workers>>,
         \A w \in Participants : ret'[w] = ret[w]
  PROVE  UNCHANGED FJ!fjVars
<1>1. mpc # "begin" /\ mpc' # "begin"
  BY DEF Forked
<1>2. Participants' = Participants
  BY DEF Participants
<1> QED
  BY <1>1, <1>2 DEF FJ!fjVars, Forked

LEMMA SetIsStutter ==
  ASSUME IInv, tpool_set
  PROVE  UNCHANGED FJ!fjVars
<1>1. mpc = "set" /\ mpc' = "begin" /\ stage' = stage + 1 /\ stage \in Nat
  BY NumStagesAssumption DEF IInv, TypeOK, Tags, tpool_set
<1>2. ~Forked /\ ~Forked' /\ stage' - 1 = stage
  BY <1>1 DEF Forked
<1> QED
  BY <1>1, <1>2 DEF FJ!fjVars, Forked

(* tpool_begin forks the stage over threads of the pool. *)
LEMMA BeginIsFork ==
  ASSUME IInv, tpool_begin
  PROVE  FJ!Fork
<1>1. /\ mpc = "begin" /\ mpc' \in {"post", "own"} /\ stage \in Nat
      /\ UNCHANGED <<stage, num_workers, ret>>
  BY NumStagesAssumption DEF IInv, TypeOK, Tags, tpool_begin, workerVars
<1>2. ~Forked /\ Forked' /\ stage = (stage - 1) + 1
  BY <1>1 DEF Forked
<1>3. Participants' \subseteq Threads
  BY <1>1, ParticipantsFinite DEF IInv, Participants
<1>4. Todo' \in SUBSET Threads
  BY <1>3 DEF Todo
<1> QED
  BY <1>1, <1>2, <1>4 DEF FJ!Fork, Todo

(* A thread function that returns does the share of a participant that     *)
(* still owed it.                                                          *)
LEMMA RunIsShare ==
  ASSUME IInv, Forked, NEW w \in Threads, Run(w), num_workers > 0
  PROVE  FJ!Share(w)
<1>1. /\ wpc[w] = "run" /\ ret' = [ret EXCEPT ![w] = job[w].arg]
      /\ UNCHANGED <<stage, num_workers, mpc>>
      /\ Active
  BY DEF Run, mainVars, Active
<1>2. w \in Participants /\ Busy(w) /\ ret[w] # stage /\ job[w].arg = stage
  BY <1>1, ActiveTypes DEF Busy, Finished, Unstarted, Resting
<1>3. /\ ret'[w] = stage
      /\ \A v \in Participants : v # w => ret'[v] = ret[v]
  BY <1>1, <1>2, ActiveTypes, ParticipantsFinite DEF IInv
<1>4. w \in Todo /\ Todo' = Todo \ {w}
  BY <1>1, <1>2, <1>3 DEF Todo, Participants
<1>5. Forked' /\ mpc # "begin" /\ mpc' # "begin"
  BY <1>1 DEF Forked
<1> QED
  BY <1>1, <1>4, <1>5 DEF FJ!Share, Todo

(* tpool_wait returns when every participant has done its share. *)
LEMMA WaitIsJoin ==
  ASSUME IInv, tpool_wait
  PROVE  FJ!Join
<1>1. /\ mpc = "wait" /\ mpc' = "joined" /\ num_workers \in Nat
      /\ UNCHANGED stage
  BY NumThreadsAssumption DEF IInv, TypeOK, tpool_wait
<1>2. Forked /\ ~Forked'
  BY <1>1 DEF Forked
<1>3. Todo = {}
  <2>1. CASE num_workers = 0
    BY <2>1 DEF Todo, Participants
  <2>2. CASE num_workers # 0
    <3>1. Active /\ sem_all_workers_done > 0
      BY <1>1, <1>2, <2>2 DEF Active, tpool_wait
    <3> QED
      BY <3>1, StageOver DEF Finished, Todo
  <2> QED
    BY <2>1, <2>2
<1> QED
  BY <1>1, <1>2, <1>3 DEF FJ!Join, Todo

LEMMA ForkJoinStep ==
  ASSUME IInv, [Next]_vars
  PROVE  [FJ!FJNext]_FJ!fjVars
<1>1. CASE tpool_set
  BY <1>1, SetIsStutter
<1>2. CASE tpool_begin
  BY <1>2, BeginIsFork DEF FJ!FJNext
<1>3. CASE PostRun \/ start_my_work
  <2>1. Forked /\ Forked' /\ UNCHANGED <<stage, num_workers, ret>>
    BY <1>3 DEF PostRun, start_my_work, Forked
  <2> QED
    BY <2>1, StutterInside
<1>4. CASE tpool_wait
  BY <1>4, WaitIsJoin DEF FJ!FJNext
<1>5. CASE tpool_get_results \/ tpool_destroy \/ PostDie \/ FreePool
  <2>1. /\ ~Forked /\ ~Forked' /\ mpc # "begin" /\ mpc' # "begin"
        /\ stage' = stage
    BY <1>5 DEF tpool_get_results, tpool_destroy, PostDie, FreePool, Forked
  <2> QED
    BY <2>1, StutterOutside
<1>6. ASSUME NEW w \in Threads, thread_loop(w)
      PROVE  [FJ!FJNext]_FJ!fjVars
  <2>1. UNCHANGED mainVars
    BY <1>6 DEF thread_loop, Wake, Load, Run, Inc, Cmp, ExitInc, ExitCmp,
                CountMe, CompareAndPost
  <2>2. ret' = ret \/ Run(w)
    BY <1>6 DEF thread_loop, Wake, Load, Run, Inc, Cmp, ExitInc, ExitCmp,
                CountMe, CompareAndPost
  <2>3. CASE ~Forked
    BY <2>1, <2>3 DEF mainVars, Forked, FJ!fjVars
  <2>4. CASE Forked /\ (ret' = ret \/ Participants = {})
    BY <2>1, <2>4, StutterInside DEF mainVars, Forked
  <2>5. CASE Forked /\ Run(w) /\ Participants # {}
    <3>1. num_workers > 0
      BY <2>5, NumThreadsAssumption DEF IInv, TypeOK, Participants
    <3> QED
      BY <2>5, <3>1, RunIsShare DEF FJ!FJNext
  <2> QED
    BY <2>2, <2>3, <2>4, <2>5
<1>7. CASE UNCHANGED vars
  BY <1>7 DEF vars, FJ!fjVars, Forked, Participants
<1> QED
  BY <1>1, <1>2, <1>3, <1>4, <1>5, <1>6, <1>7 DEF Next, Main, Terminated

(* When stage sizes do not shrink, the pool's semaphores and counters      *)
(* implement the safety part of ForkJoin: each participant does its share  *)
(* of each stage once, between tpool_begin and the return of tpool_wait.   *)
THEOREM ForkJoinImplemented ==
  ASSUME NonShrinking
  PROVE  Spec => FJ!FJSafety
<1>1. Init => FJ!FJInit
  BY DEF Init, FJ!FJInit, Forked
<1>2. IInv /\ [Next]_vars => [FJ!FJNext]_FJ!fjVars
  BY ForkJoinStep
<1> QED
  BY <1>1, <1>2, StageInvariant, PTL DEF Spec, FJ!FJSafety
=============================================================================
