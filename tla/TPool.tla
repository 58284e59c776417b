-------------------------------- MODULE TPool --------------------------------
(***************************************************************************)
(* Phoenix's thread pool (phoenix-2.0/src/tpool.c) together with the code  *)
(* that drives it (start_workers and start_thread_pool of map_reduce.c).   *)
(*                                                                         *)
(* The main thread runs a sequence of stages.  For each it sets the pool   *)
(* (tpool_set), posts sem_run of the participating threads one by one      *)
(* (tpool_begin), does its own share, and waits on sem_all_workers_done    *)
(* (tpool_wait); after the last stage it destroys the pool.  Each pool     *)
(* thread runs thread_loop: it counts itself done with an atomic           *)
(* increment and, in a LATER step, compares its count with num_workers to  *)
(* decide whether it is the one that posts sem_all_workers_done.           *)
(***************************************************************************)
EXTENDS Integers, FiniteSets

CONSTANTS
    NumThreads,     \* tpool->num_threads, fixed by the first map_reduce call
    NumStages,      \* stages run before tpool_destroy
    Size            \* Size[s]: num_workers passed to tpool_set for stage s

(* tpool_set asserts num_workers <= num_threads, and map_reduce creates    *)
(* the pool with num_map_threads >= 1 threads.                             *)
ASSUME NumThreadsAssumption == NumThreads \in Nat \ {0}
ASSUME NumStagesAssumption == NumStages \in Nat
ASSUME SizeAssumption == Size \in [1 .. NumStages -> 0 .. NumThreads]

VARIABLES
    stage,              \* stages set so far; also the tag of thread_func
    num_workers,
    num_workers_done,
    die,
    args,               \* args[w]: tag of the stage whose argument is stored
    ret,                \* ret[w]: tag of the last result stored, or Freed
    sem_run,            \* sem_run[w]: value of the worker's semaphore
    sem_all_workers_done,
    mpc,                \* the main thread's control point
    i,                  \* index of the posting loops
    wpc,                \* wpc[w]: control point of pool thread w
    job,                \* job[w]: the function and argument w has read
    k                   \* k[w]: thread_loop's local num_workers_done

mainVars == <<stage, num_workers, args, mpc, i, die>>
workerVars == <<wpc, job, k>>
vars == <<stage, num_workers, num_workers_done, die, args, ret, sem_run,
          sem_all_workers_done, mpc, i, wpc, job, k>>

Threads == 0 .. NumThreads - 1
Participants == 0 .. num_workers - 1
NoJob == 0
Freed == -1

PoolFreed == mpc = "freed"

Init ==
    /\ stage = 0
    /\ num_workers = NumThreads
    /\ num_workers_done = 0
    /\ die = 0
    /\ args = [w \in Threads |-> NoJob]
    /\ ret = [w \in Threads |-> NoJob]
    /\ sem_run = [w \in Threads |-> 0]
    /\ sem_all_workers_done = 0
    /\ mpc = "set"
    /\ i = 0
    /\ wpc = [w \in Threads |-> "wait"]
    /\ job = [w \in Threads |-> [func |-> NoJob, arg |-> NoJob]]
    /\ k = [w \in Threads |-> 0]

-----------------------------------------------------------------------------
(* The main thread. *)

tpool_set ==
    /\ mpc = "set"
    /\ stage < NumStages
    /\ stage' = stage + 1
    /\ num_workers' = Size[stage + 1]
    /\ args' = [w \in Threads |->
                    IF w < Size[stage + 1] THEN stage + 1 ELSE args[w]]
    /\ mpc' = "begin"
    /\ UNCHANGED <<num_workers_done, die, ret, sem_run, sem_all_workers_done,
                   i, workerVars>>

(* Mutant of tpool_begin: the count of the last stage is not reset. *)
tpool_begin_NoReset ==
    /\ mpc = "begin"
    /\ IF num_workers = 0
         THEN mpc' = "own" /\ UNCHANGED i
         ELSE mpc' = "post" /\ i' = 0
    /\ UNCHANGED <<stage, num_workers, num_workers_done, die, args, ret, sem_run,
                   sem_all_workers_done, workerVars>>

(* The test and the reset before tpool_begin's loop. *)
tpool_begin ==
    /\ mpc = "begin"
    /\ IF num_workers = 0
         THEN /\ mpc' = "own"
              /\ UNCHANGED <<num_workers_done, i>>
         ELSE /\ mpc' = "post"
              /\ num_workers_done' = 0
              /\ i' = 0
    /\ UNCHANGED <<stage, num_workers, die, args, ret, sem_run,
                   sem_all_workers_done, workerVars>>

(* One iteration of tpool_begin's loop. *)
PostRun ==
    /\ mpc = "post"
    /\ sem_run' = [sem_run EXCEPT ![i] = @ + 1]
    /\ i' = i + 1
    /\ mpc' = IF i + 1 < num_workers THEN "post" ELSE "own"
    /\ UNCHANGED <<stage, num_workers, num_workers_done, die, args, ret,
                   sem_all_workers_done, workerVars>>

(* start_workers runs share 0 of the stage in the main thread. *)
start_my_work ==
    /\ mpc = "own"
    /\ mpc' = "wait"
    /\ UNCHANGED <<stage, num_workers, num_workers_done, die, args, ret,
                   sem_run, sem_all_workers_done, i, workerVars>>

(* Mutant of tpool_wait: it does not block. *)
tpool_wait_NoBlock ==
    /\ mpc = "wait"
    /\ IF num_workers = 0
         THEN UNCHANGED sem_all_workers_done
         ELSE sem_all_workers_done' = sem_all_workers_done - 1
    /\ mpc' = "joined"
    /\ UNCHANGED <<stage, num_workers, num_workers_done, die, args, ret,
                   sem_run, i, workerVars>>

tpool_wait ==
    /\ mpc = "wait"
    /\ IF num_workers = 0
         THEN UNCHANGED sem_all_workers_done
         ELSE /\ sem_all_workers_done > 0
              /\ sem_all_workers_done' = sem_all_workers_done - 1
    /\ mpc' = "joined"
    /\ UNCHANGED <<stage, num_workers, num_workers_done, die, args, ret,
                   sem_run, i, workerVars>>

(* start_workers collects the results, frees the thread arguments and      *)
(* env->tinfo, and goes on to the next stage or to tpool_destroy.          *)
tpool_get_results ==
    /\ mpc = "joined"
    /\ mpc' = "set"
    /\ UNCHANGED <<stage, num_workers, num_workers_done, die, args, ret,
                   sem_run, sem_all_workers_done, i, workerVars>>

(* Mutants of tpool_destroy: one of its two counters is not set. *)
tpool_destroy_KeepDone ==
    /\ mpc = "set"
    /\ stage = NumStages
    /\ num_workers' = NumThreads
    /\ i' = 0
    /\ mpc' = "dpost"
    /\ UNCHANGED <<stage, num_workers_done, die, args, ret, sem_run,
                   sem_all_workers_done, workerVars>>

tpool_destroy_KeepNumWorkers ==
    /\ mpc = "set"
    /\ stage = NumStages
    /\ num_workers_done' = 0
    /\ i' = 0
    /\ mpc' = "dpost"
    /\ UNCHANGED <<stage, num_workers, die, args, ret, sem_run,
                   sem_all_workers_done, workerVars>>

tpool_destroy ==
    /\ mpc = "set"
    /\ stage = NumStages
    /\ num_workers' = NumThreads
    /\ num_workers_done' = 0
    /\ i' = 0
    /\ mpc' = "dpost"
    /\ UNCHANGED <<stage, die, args, ret, sem_run, sem_all_workers_done,
                   workerVars>>

(* One iteration of tpool_destroy's loop. *)
PostDie ==
    /\ mpc = "dpost"
    /\ ret' = [ret EXCEPT ![i] = Freed]
    /\ die' = 1
    /\ sem_run' = [sem_run EXCEPT ![i] = @ + 1]
    /\ i' = i + 1
    /\ mpc' = IF i + 1 < NumThreads THEN "dpost" ELSE "dwait"
    /\ UNCHANGED <<stage, num_workers, num_workers_done, args,
                   sem_all_workers_done, workerVars>>

(* The wait at the end of tpool_destroy, and the release of the pool. *)
FreePool ==
    /\ mpc = "dwait"
    /\ sem_all_workers_done > 0
    /\ sem_all_workers_done' = sem_all_workers_done - 1
    /\ mpc' = "freed"
    /\ UNCHANGED <<stage, num_workers, num_workers_done, die, args, ret,
                   sem_run, i, workerVars>>

-----------------------------------------------------------------------------
(* The pool threads: the steps of thread_loop. *)

(* sem_wait (&thread_arg->sem_run) *)
Wake(w) ==
    /\ wpc[w] = "wait"
    /\ sem_run[w] > 0
    /\ sem_run' = [sem_run EXCEPT ![w] = @ - 1]
    /\ wpc' = [wpc EXCEPT ![w] = "woken"]
    /\ UNCHANGED <<mainVars, num_workers_done, ret, sem_all_workers_done,
                   job, k>>

(* Leave the loop when told to die, else read thread_func and its argument. *)
Load(w) ==
    /\ wpc[w] = "woken"
    /\ IF die # 0
         THEN /\ wpc' = [wpc EXCEPT ![w] = "exit"]
              /\ UNCHANGED job
         ELSE /\ wpc' = [wpc EXCEPT ![w] = "run"]
              /\ job' = [job EXCEPT ![w] = [func |-> stage, arg |-> args[w]]]
    /\ UNCHANGED <<mainVars, num_workers_done, ret, sem_run,
                   sem_all_workers_done, k>>

(* The thread function returns and its result is stored. *)
Run(w) ==
    /\ wpc[w] = "run"
    /\ ret' = [ret EXCEPT ![w] = job[w].arg]
    /\ wpc' = [wpc EXCEPT ![w] = "inc"]
    /\ UNCHANGED <<mainVars, num_workers_done, sem_run, sem_all_workers_done,
                   job, k>>

(* fetch_and_inc (thread_arg->num_workers_done) + 1, in the loop or after it *)
CountMe(w, from, to) ==
    /\ wpc[w] = from
    /\ num_workers_done' = num_workers_done + 1
    /\ k' = [k EXCEPT ![w] = num_workers_done + 1]
    /\ wpc' = [wpc EXCEPT ![w] = to]
    /\ UNCHANGED <<mainVars, ret, sem_run, sem_all_workers_done, job>>

(* The comparison with *thread_arg->num_workers and the post.  Once the    *)
(* pool is freed the value read is arbitrary and the post reaches nobody.  *)
CompareAndPost(w, from, to) ==
    /\ wpc[w] = from
    /\ sem_all_workers_done' = IF ~PoolFreed /\ k[w] = num_workers
                                 THEN sem_all_workers_done + 1
                                 ELSE sem_all_workers_done
    /\ wpc' = [wpc EXCEPT ![w] = to]
    /\ UNCHANGED <<mainVars, num_workers_done, ret, sem_run, job, k>>

Inc(w) == CountMe(w, "inc", "cmp")
Cmp(w) == CompareAndPost(w, "cmp", "wait")
ExitInc(w) == CountMe(w, "exit", "xcmp")
ExitCmp(w) == CompareAndPost(w, "xcmp", "gone")

-----------------------------------------------------------------------------
Main ==
    \/ tpool_set \/ tpool_begin \/ PostRun \/ start_my_work \/ tpool_wait
    \/ tpool_get_results \/ tpool_destroy \/ PostDie \/ FreePool

thread_loop(w) ==
    \/ Wake(w) \/ Load(w) \/ Run(w) \/ Inc(w) \/ Cmp(w)
    \/ ExitInc(w) \/ ExitCmp(w)

(* The program ends when the pool is freed and its threads have returned.  *)
Terminated ==
    /\ PoolFreed
    /\ \A w \in Threads : wpc[w] = "gone"
    /\ UNCHANGED vars

Next == Main \/ (\E w \in Threads : thread_loop(w)) \/ Terminated

(* The operating system schedules every thread, and map, reduce and merge  *)
(* functions return.                                                       *)
Fairness == WF_vars(Main) /\ \A w \in Threads : WF_vars(thread_loop(w))

Spec == Init /\ [][Next]_vars

FairSpec == Spec /\ Fairness

-----------------------------------------------------------------------------
(* Properties. *)

MainPC == {"set", "begin", "post", "own", "wait", "joined", "dpost", "dwait",
           "freed"}
WorkerPC == {"wait", "woken", "run", "inc", "cmp", "exit", "xcmp", "gone"}
Tags == 0 .. NumStages

(* Every variable keeps its type; num_workers_done is the code's unsigned  *)
(* counter, which never comes near its width here.                         *)
TypeOK ==
    /\ stage \in Tags
    /\ num_workers \in 0 .. NumThreads
    /\ num_workers_done \in Nat
    /\ die \in {0, 1}
    /\ args \in [Threads -> Tags]
    /\ ret \in [Threads -> Tags \cup {Freed}]
    /\ sem_run \in [Threads -> Nat]
    /\ sem_all_workers_done \in Nat
    /\ mpc \in MainPC
    /\ i \in Nat
    /\ wpc \in [Threads -> WorkerPC]
    /\ job \in [Threads -> [func : Tags, arg : Tags]]
    /\ k \in [Threads -> Nat]

(* The sizes this run's main thread uses never shrink, stages that use no  *)
(* pool thread aside.  Under this condition the pool's join is sound.      *)
NonShrinking ==
    \A s, t \in 1 .. NumStages :
        s < t /\ Size[t] # 0 => Size[s] <= Size[t]

(* When tpool_wait has returned, every participant of the stage has run    *)
(* its share of it and stored the result, and no pool thread is still      *)
(* inside a thread function: start_workers may free the arguments and      *)
(* env->tinfo ("Barrier, wait for all threads to finish").                 *)
JoinSafe ==
    mpc = "joined" =>
        /\ \A w \in Participants : ret[w] = stage
        /\ \A w \in Threads : sem_run[w] = 0 /\ wpc[w] \in {"wait", "cmp"}

(* When tpool_destroy releases the pool, every pool thread has left its    *)
(* loop: none waits on, or will again wait on, a semaphore of the pool.    *)
ShutdownComplete ==
    PoolFreed => \A w \in Threads : wpc[w] \in {"xcmp", "gone"}

(* The pool's threads all return after tpool_destroy: no post is lost.     *)
AllReturn == <>(PoolFreed /\ \A w \in Threads : wpc[w] = "gone")

(* The pool implements ForkJoin: a stage is forked by tpool_begin, a       *)
(* participant does its share when its thread function stores its result,  *)
(* and the join is the return of tpool_wait.                               *)
Forked == mpc \in {"post", "own", "wait"}
FJ == INSTANCE ForkJoin WITH
        Worker <- Threads,
        round <- IF mpc = "begin" THEN stage - 1 ELSE stage,
        forked <- Forked,
        todo <- IF Forked THEN {w \in Participants : ret[w] # stage} ELSE {}
ImplementsForkJoin == FJ!FJSpec

-----------------------------------------------------------------------------
(* The inductive invariant behind JoinSafe.                                *)

(* w has counted itself done in an earlier stage and has not compared yet; *)
(* its count is one that no later stage waits for.                         *)
Late(w) ==
    /\ ret[w] \in 1 .. stage
    /\ k[w] \in 1 .. Size[ret[w]] - 1

Resting(w) ==
    /\ wpc[w] \in {"wait", "cmp"}
    /\ wpc[w] = "cmp" => Late(w)

(* No stage is in progress on the pool. *)
Quiet ==
    \/ mpc \in {"set", "begin", "joined"}
    \/ mpc \in {"own", "wait"} /\ num_workers = 0

QuietInv ==
    Quiet =>
        /\ sem_all_workers_done = 0
        /\ \A w \in Threads : sem_run[w] = 0 /\ Resting(w)

(* A stage is in progress: what each participant can be doing. *)
Active == Forked /\ num_workers > 0
Posted(w) == mpc = "post" => w < i

Counted == {w \in Participants : ret[w] = stage /\ wpc[w] \in {"wait", "cmp"}}

Unstarted(w) ==
    /\ ret[w] # stage
    /\ Resting(w)
    /\ sem_run[w] = IF Posted(w) THEN 1 ELSE 0

Busy(w) ==
    /\ Posted(w)
    /\ sem_run[w] = 0
    /\ \/ wpc[w] = "woken" /\ ret[w] # stage
       \/ /\ wpc[w] = "run"
          /\ ret[w] # stage
          /\ job[w] = [func |-> stage, arg |-> stage]
       \/ wpc[w] = "inc" /\ ret[w] = stage

Finished(w) ==
    /\ Posted(w)
    /\ sem_run[w] = 0
    /\ ret[w] = stage
    /\ wpc[w] \in {"wait", "cmp"}
    /\ wpc[w] = "cmp" => k[w] \in 1 .. num_workers_done

ParticipantInv ==
    Active => \A w \in Participants : Unstarted(w) \/ Busy(w) \/ Finished(w)

BystanderInv ==
    Active => \A w \in Threads \ Participants :
                  sem_run[w] = 0 /\ ret[w] # stage /\ Resting(w)

CountInv ==
    Active =>
        /\ num_workers_done = Cardinality(Counted)
        /\ \A v, w \in Counted :
               v # w /\ wpc[v] = "cmp" /\ wpc[w] = "cmp" => k[v] # k[w]

PostInv ==
    Active =>
        /\ sem_all_workers_done \in {0, 1}
        /\ sem_all_workers_done = 1 =>
               /\ num_workers_done = num_workers
               /\ \A w \in Counted : wpc[w] = "cmp" => k[w] # num_workers

StageInv ==
    mpc \notin {"dpost", "dwait", "freed"} =>
        /\ die = 0
        /\ stage > 0 => num_workers = Size[stage]
        /\ stage = 0 => mpc = "set"
        /\ \A w \in Threads : ret[w] \in 0 .. stage
        /\ mpc = "begin" => \A w \in Threads : ret[w] # stage
        /\ mpc \in {"begin", "post", "own", "wait"} =>
               \A w \in Participants : args[w] = stage
        /\ mpc = "post" => num_workers > 0 /\ i \in Participants
        /\ mpc = "joined" => \A w \in Participants : ret[w] = stage

IInv ==
    /\ TypeOK
    /\ StageInv
    /\ QuietInv
    /\ ParticipantInv
    /\ BystanderInv
    /\ CountInv
    /\ PostInv

-----------------------------------------------------------------------------
(* The inductive invariant behind ShutdownComplete: what each thread can   *)
(* be doing while tpool_destroy posts and waits.                           *)
Down == mpc \in {"dpost", "dwait"}
Told(w) == mpc = "dpost" => w < i
Exited == {w \in Threads : wpc[w] \in {"xcmp", "gone"}}

StillIn(w) ==
    /\ wpc[w] \in {"wait", "cmp"}
    /\ wpc[w] = "cmp" => k[w] < NumThreads
    /\ sem_run[w] = IF Told(w) THEN 1 ELSE 0

Leaving(w) ==
    /\ Told(w)
    /\ sem_run[w] = 0
    /\ wpc[w] \in {"woken", "exit"}

Left(w) ==
    /\ Told(w)
    /\ sem_run[w] = 0
    /\ wpc[w] \in {"xcmp", "gone"}
    /\ wpc[w] = "xcmp" => k[w] <= num_workers_done

DownThreadInv == Down => \A w \in Threads : StillIn(w) \/ Leaving(w) \/ Left(w)

DownCountInv ==
    Down =>
        /\ num_workers = NumThreads
        /\ mpc = "dpost" => i \in Threads
        /\ \A w \in Threads : Told(w) => die = 1
        /\ num_workers_done = Cardinality(Exited)
        /\ sem_all_workers_done > 0 => Exited = Threads

ShutdownInv ==
    /\ DownThreadInv
    /\ DownCountInv
    /\ PoolFreed => Exited = Threads
=============================================================================
