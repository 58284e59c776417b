------------------------------- MODULE MapReduce -------------------------------
(***************************************************************************)
(* One call of map_reduce (phoenix-2.0/src/map_reduce.c): the parameters   *)
(* that env_init derives, the generation of map and reduce tasks, and the  *)
(* map, reduce and merge stages over the arrays they hand to each other.   *)
(*                                                                         *)
(* A stage is a fork-join of threads (ForkJoin, TPool) that take tasks     *)
(* from the task queues (TaskPool, TaskQ); a task is one step, as threads  *)
(* write only arrays of their own.  The steps inside a reduce task are in  *)
(* ReduceTask.  The reduce function is identity_reduce, which emits a pair *)
(* for each value; there is no combiner.  A data unit emits one pair, with *)
(* the unit as value.  Arrays are sequences of pairs <<key, unit>>.        *)
(***************************************************************************)
EXTENDS Integers, Sequences, FiniteSets, SequencesExt

CONSTANTS
    Args,           \* the calls, see ArgsAssumption
    KeyOf,          \* KeyOf[u]: the key that data unit u emits, an integer
    Hash,           \* Hash[k]: the value of the partition function
    ChunkSize,      \* env->chunk_size
    DefaultTasks,   \* DEFAULT_NUM_REDUCE_TASKS
    ExtendedTasks   \* EXTENDED_NUM_REDUCE_TASKS

ASSUME TasksAssumption ==
    /\ DefaultTasks \in Nat \ {0, 1}
    /\ ExtendedTasks \in Nat \ {0, 1}
    /\ ChunkSize \in Nat \ {0}
    /\ KeyOf \in Seq(Int)
    /\ \A u \in DOMAIN KeyOf : Hash[KeyOf[u]] \in Nat

(* Fields of map_reduce_args_t, and the number of threads of the pool that *)
(* an earlier call has left.  Zero merge threads and a zero pool stand for *)
(* an argument that is not given and for no pool.                          *)
ASSUME ArgsAssumption ==
    Args \subseteq [units : 0 .. Len(KeyOf), oneQueue : BOOLEAN,
                    mapThreads : Nat \ {0}, reduceThreads : Nat \ {0},
                    mergeThreads : Nat, pool : Nat]

VARIABLES
    phase,          \* "init", "map", "reduce", "merge", "done", "aborted"
    units,          \* the number of data units
    pool,           \* env->tpool->num_threads
    oneQueue,       \* env->oneOutputQueuePerReduceTask
    mapThreads,     \* env->num_map_threads
    reduceThreads,  \* env->num_reduce_threads
    mergeThreads,   \* env->num_merge_threads
    reduceTasks,    \* env->num_reduce_tasks
    taskQueue,      \* the tasks in env->taskQueue: sets of units, or buckets
    inter,          \* inter[t][b]: env->intermediate_vals[t][b]
    final,          \* env->final_vals
    mergeLen,       \* th_arg.merge_len
    mergeIn,        \* th_arg.merge_input
    mergePos,       \* mergePos[i]: th_arg.merge_input[i].pos
    mergeVals,      \* env->merge_vals; slots not written are empty
    merged,         \* the merge threads that have ended in this round
    result          \* args->result

config == <<units, pool, oneQueue, reduceThreads, reduceTasks>>
mergeVars == <<mergeThreads, mergeLen, mergeIn, mergePos, mergeVals, merged>>
vars == <<phase, config, mapThreads, taskQueue, inter, final, mergeVars, result>>

Upto(n) == 0 .. n - 1
NoArrays(n) == [i \in Upto(n) |-> <<>>]

-----------------------------------------------------------------------------
(* env_init, tq_init and tpool_create *)

Larger(a, b) == IF a < b THEN b ELSE a
Smaller(a, b) == IF a < b THEN a ELSE b

(* Mutant of MergeThreads: at least one merge thread is not assured.       *)
MergeThreads_NoFloor(a, tasks) ==
    LET asked == IF ~a.oneQueue THEN a.reduceThreads \div 2
                 ELSE IF a.mergeThreads > 0 THEN a.mergeThreads
                 ELSE a.reduceThreads
    IN  Smaller(asked, tasks \div 2)

MergeThreads(a, tasks) ==
    LET asked == IF ~a.oneQueue THEN a.reduceThreads \div 2
                 ELSE IF a.mergeThreads > 0 THEN a.mergeThreads
                 ELSE a.reduceThreads
    IN  Smaller(Larger(asked, 1), tasks \div 2)

OutputArrays == IF oneQueue THEN reduceTasks ELSE reduceThreads

Init ==
    \E a \in Args :
        /\ phase = "init"
        /\ units = a.units
        /\ pool = IF a.pool = 0 THEN a.mapThreads ELSE a.pool
        /\ oneQueue = a.oneQueue
        /\ mapThreads = a.mapThreads
        /\ reduceThreads = a.reduceThreads
        /\ reduceTasks = IF a.oneQueue THEN DefaultTasks ELSE ExtendedTasks
        /\ mergeThreads = MergeThreads(a, reduceTasks)
        /\ taskQueue = {}
        /\ inter = [t \in Upto(mapThreads) |-> NoArrays(reduceTasks)]
        /\ final = NoArrays(OutputArrays)
        /\ mergeLen = 0
        /\ mergeIn = NoArrays(0)
        /\ mergePos = [i \in Upto(0) |-> 0]
        /\ mergeVals = NoArrays(0)
        /\ merged = {}
        /\ result = <<>>

(* start_workers: the main thread and the pool run the stage; tpool_set    *)
(* asserts that the pool has the threads.                                  *)
StartWorkers(stage, threads) ==
    phase' = IF threads - 1 <= pool THEN stage ELSE "aborted"

-----------------------------------------------------------------------------
(* The map stage *)

(* gen_map_tasks with array_splitter: the units in chunks, the last one    *)
(* shorter when ChunkSize does not divide.                                 *)
MapTasks ==
    {(p + 1) .. Smaller(p + ChunkSize, units) :
        p \in {n \in Upto(units) : n % ChunkSize = 0}}

(* map: no task is an error of gen_map_tasks, which the assertion catches. *)
StartMap ==
    /\ phase = "init"
    /\ mapThreads' = Smaller(mapThreads, Cardinality(MapTasks))
    /\ taskQueue' = MapTasks
    /\ IF MapTasks = {} THEN phase' = "aborted"
                        ELSE StartWorkers("map", mapThreads')
    /\ UNCHANGED <<config, inter, final, mergeVars, result>>

ReducePos(u) == Hash[KeyOf[u]] % reduceTasks

(* The elements of S in the order R, a set of pairs.                       *)
InOrder(S, R) ==
    [i \in 1 .. Cardinality(S) |->
        CHOOSE x \in S : Cardinality({y \in S : <<y, x>> \in R}) = i - 1]

(* What a task emits into bucket b: its units go through map in order.     *)
Emitted(task, b) ==
    LET order == InOrder({u \in task : ReducePos(u) = b},
                         {p \in task \X task : p[1] < p[2]})
    IN  [i \in DOMAIN order |-> <<KeyOf[order[i]], order[i]>>]

(* map_worker_do_next_task and the calls of emit_intermediate by one task. *)
MapTask(t) ==
    /\ phase = "map"
    /\ \E task \in taskQueue :
        /\ taskQueue' = taskQueue \ {task}
        /\ inter' = [inter EXCEPT ![t] =
                        [b \in Upto(reduceTasks) |-> @[b] \o Emitted(task, b)]]
    /\ UNCHANGED <<phase, config, mapThreads, final, mergeVars, result>>

-----------------------------------------------------------------------------
(* The reduce stage *)

(* gen_reduce_tasks queues the tasks 0 .. QueuedTasks - 1.  The leftover   *)
(* is computed with num_map_threads.  A thread with no share of its own is *)
(* given all the tasks that remain, by the do-while loop.                  *)
QueuedTasks ==
    LET share == reduceTasks \div reduceThreads
        leftover == reduceTasks - share * mapThreads
        extra == Smaller(Larger(leftover, 0), reduceThreads)
    IN  IF share = 0 THEN reduceTasks
        ELSE Smaller(share * reduceThreads + extra, reduceTasks)

StartReduce ==
    /\ phase = "map"
    /\ taskQueue = {}
    /\ taskQueue' = Upto(QueuedTasks)
    /\ StartWorkers("reduce", reduceThreads)
    /\ UNCHANGED <<config, mapThreads, inter, final, mergeVars, result>>

(* Mutant of Insert: the array is not kept sorted.                         *)
Insert_Append(arr, pair) == Append(arr, pair)

(* insert_keyval where the array is kept sorted: after the smaller keys,   *)
(* and before the last pair with the same key unless the key is largest.   *)
Insert(arr, pair) ==
    LET low == Cardinality({i \in DOMAIN arr : arr[i][1] <= pair[1]})
    IN  IF low = Len(arr) THEN Append(arr, pair)
        ELSE IF low > 0 /\ arr[low][1] = pair[1] THEN InsertAt(arr, low, pair)
        ELSE InsertAt(arr, low + 1, pair)

InsertAll(arr, pairs) ==
    LET after[n \in 0 .. Len(pairs)] ==
            IF n = 0 THEN arr ELSE Insert(after[n - 1], pairs[n])
    IN  after[Len(pairs)]

(* The pairs that reduce emits for bucket b: keys in order, the values of  *)
(* a key by map thread.                                                    *)
Pairs(b) == UNION {{<<t, n>> : n \in DOMAIN inter[t][b]} : t \in Upto(mapThreads)}
PairAt(b, p) == inter[p[1]][b][p[2]]
Before(b, p, q) ==
    LET key(x) == PairAt(b, x)[1]
    IN  \/ key(p) < key(q)
        \/ key(p) = key(q) /\ (p[1] < q[1] \/ (p[1] = q[1] /\ p[2] < q[2]))

ReduceOutput(b) ==
    LET order == InOrder(Pairs(b), {x \in Pairs(b) \X Pairs(b) : Before(b, x[1], x[2])})
    IN  [i \in DOMAIN order |-> PairAt(b, order[i])]

(* reduce_worker_do_next_task with emit_inline.                            *)
ReduceTask(t) ==
    /\ phase = "reduce"
    /\ \E b \in taskQueue :
        /\ taskQueue' = taskQueue \ {b}
        /\ final' = IF oneQueue THEN [final EXCEPT ![b] = @ \o ReduceOutput(b)]
                    ELSE [final EXCEPT ![t] = InsertAll(@, ReduceOutput(b))]
    /\ UNCHANGED <<phase, config, mapThreads, inter, mergeVars, result>>

-----------------------------------------------------------------------------
(* The merge rounds *)

StartRound(len, threads, input) ==
    /\ mergeLen' = len
    /\ mergeThreads' = threads
    /\ mergeIn' = input
    /\ mergePos' = [i \in Upto(len) |-> 0]
    /\ mergeVals' = NoArrays(threads)
    /\ merged' = {}
    /\ StartWorkers("merge", threads)

(* The end of reduce, which frees the intermediate arrays, and merge up to *)
(* its first round.                                                        *)
StartMerge ==
    /\ phase = "reduce"
    /\ taskQueue = {}
    /\ inter' = NoArrays(0)
    /\ final' = NoArrays(0)
    /\ IF OutputArrays <= 1
       THEN /\ phase' = "done"
            /\ result' = final[0]
            /\ UNCHANGED mergeVars
       ELSE /\ StartRound(OutputArrays, mergeThreads, final)
            /\ UNCHANGED result
    /\ UNCHANGED <<config, mapThreads, taskQueue>>

(* merge_worker: the first input and the number of inputs of thread t.  A  *)
(* share of one input is made two.                                         *)
ShortRound == mergeLen \div mergeThreads <= 1
Length == IF ShortRound THEN 2 ELSE mergeLen \div mergeThreads
ModLen == IF ShortRound THEN mergeLen % 2 ELSE mergeLen % mergeThreads

(* Mutant of First: the larger shares before t are not counted.            *)
First_NoOffset(t) == t * Length

First(t) == t * Length + Smaller(t, ModLen)

Count(t) == IF First(t) < mergeLen THEN Length + (IF t < ModLen THEN 1 ELSE 0) ELSE 0
Inputs(t) == First(t) .. First(t) + Count(t) - 1

Live(t) == {i \in Inputs(t) : mergePos[i] < Len(mergeIn[i])}
HeadOf(i) == mergeIn[i][mergePos[i] + 1]

(* merge_results, one iteration of its loop: the pair with the smallest    *)
(* key among the heads of the inputs, the first one if keys are equal.     *)
MergeStep(t) ==
    /\ phase = "merge"
    /\ \E i \in Live(t) :
        /\ \A j \in Live(t) : \/ HeadOf(i)[1] < HeadOf(j)[1]
                              \/ HeadOf(i)[1] = HeadOf(j)[1] /\ i <= j
        /\ mergeVals' = [mergeVals EXCEPT ![t] = Append(@, HeadOf(i))]
        /\ mergePos' = [mergePos EXCEPT ![i] = @ + 1]
    /\ UNCHANGED <<phase, config, mapThreads, taskQueue, inter, final,
                   mergeThreads, mergeLen, mergeIn, merged, result>>

(* The end of merge_worker.                                                *)
MergeEnd(t) ==
    /\ phase = "merge"
    /\ t \notin merged
    /\ Live(t) = {}
    /\ merged' = merged \cup {t}
    /\ UNCHANGED <<phase, config, mapThreads, taskQueue, inter, final,
                   mergeThreads, mergeLen, mergeIn, mergePos, mergeVals, result>>

(* Mutant of NextMergeThreads: the floor is two threads.                   *)
NextMergeThreads_NeverOne == Larger(mergeThreads \div 2, 2)

NextMergeThreads == Larger(mergeThreads \div 2, 1)

(* The end of a round in merge: the next one, or the result.               *)
EndRound ==
    /\ phase = "merge"
    /\ merged = Upto(mergeThreads)
    /\ IF mergeThreads > 1
       THEN /\ StartRound(mergeThreads, NextMergeThreads, mergeVals)
            /\ UNCHANGED result
       ELSE /\ phase' = "done"
            /\ result' = mergeVals[0]
            /\ mergeLen' = mergeThreads
            /\ mergeThreads' = NextMergeThreads
            /\ UNCHANGED <<mergeIn, mergePos, mergeVals, merged>>
    /\ UNCHANGED <<config, mapThreads, taskQueue, inter, final>>

Terminated ==
    /\ phase \in {"done", "aborted"}
    /\ UNCHANGED vars

Step ==
    \/ StartMap
    \/ \E t \in Upto(mapThreads) : MapTask(t)
    \/ StartReduce
    \/ \E t \in Upto(reduceThreads) : ReduceTask(t)
    \/ StartMerge
    \/ \E t \in Upto(mergeThreads) : MergeStep(t) \/ MergeEnd(t)
    \/ EndRound

Next == Step \/ Terminated

Spec == Init /\ [][Next]_vars

(* The threads of a stage are scheduled, and each stage ends (see TPool).  *)
FairSpec == Spec /\ WF_vars(Step)

-----------------------------------------------------------------------------
Arrays == Seq(Int \X Int)

TypeOK ==
    /\ phase \in {"init", "map", "reduce", "merge", "done", "aborted"}
    /\ units \in 0 .. Len(KeyOf)
    /\ oneQueue \in BOOLEAN
    /\ \A n \in {pool, mapThreads, mergeLen} : n \in Nat
    /\ \A n \in {reduceThreads, reduceTasks, mergeThreads} : n \in Nat \ {0}
    /\ phase = "map" => taskQueue \subseteq SUBSET (1 .. units)
    /\ phase = "reduce" => taskQueue \subseteq Upto(reduceTasks)
    /\ merged \subseteq Upto(mergeThreads)

(* Where the value of unit u is on its way to the result: in map tasks, in *)
(* an intermediate array that a reduce task will read, in an output array, *)
(* in an input that a merge thread has still to read, or in its output.    *)
Held(u, arr) == {n \in DOMAIN arr : arr[n][2] = u}
Unread(u, i) == {n \in Held(u, mergeIn[i]) : n > mergePos[i]}
HeldInter(u, T, B) ==
    UNION {UNION {{<<t, b, n>> : n \in Held(u, inter[t][b])} : b \in B} : t \in T}
HeldUnread(u) ==
    UNION {UNION {{<<t, i, n>> : n \in Unread(u, i)} : i \in Inputs(t)} :
              t \in Upto(mergeThreads)}
HeldIn(u, arrays) == UNION {{<<i, n>> : n \in Held(u, arrays[i])} : i \in DOMAIN arrays}

Copies(u) ==
    CASE phase = "map"    -> {<<"task", task>> : task \in {x \in taskQueue : u \in x}}
                                \cup HeldInter(u, DOMAIN inter, Upto(reduceTasks))
      [] phase = "reduce" -> HeldInter(u, Upto(mapThreads), taskQueue) \cup HeldIn(u, final)
      [] phase = "merge"  -> HeldUnread(u) \cup HeldIn(u, mergeVals)
      [] phase = "done"   -> Held(u, result)

(* Each value is emitted, reduced and merged exactly once, whichever       *)
(* threads take the tasks.                                                 *)
EachUnitOnce ==
    phase \in {"map", "reduce", "merge", "done"} =>
        \A u \in 1 .. units : Cardinality(Copies(u)) = 1

KeysSorted(arr) == IsSorted(arr, LAMBDA p, q : p[1] <= q[1])

(* The output arrays of the reduce tasks are sorted by key.                *)
ReducedSorted ==
    phase = "reduce" =>
        \A i \in DOMAIN final : final[i] \in Arrays /\ KeysSorted(final[i])

(* They are, and so are the arrays that are merged, and the result.        *)
SortedOutput ==
    /\ ReducedSorted
    /\ phase = "merge" => \A i \in DOMAIN mergeIn : KeysSorted(mergeIn[i])
    /\ phase = "done" => KeysSorted(result)

(* In a merge round each thread has inputs, so that it writes its slot of  *)
(* merge_vals, and each input, which is freed, belongs to one thread.      *)
MergeCovers ==
    phase = "merge" =>
        /\ \A t \in Upto(mergeThreads) : Inputs(t) # {}
        /\ \A i \in Upto(mergeLen) : \E t \in Upto(mergeThreads) :
              /\ i \in Inputs(t)
              /\ \A s \in Upto(mergeThreads) \ {t} : i \notin Inputs(s)
        /\ \A t \in Upto(mergeThreads) : Inputs(t) \subseteq Upto(mergeLen)

(* gen_reduce_tasks queues a reduce task for each bucket that the map      *)
(* threads may have written.                                               *)
EveryTaskQueued == QueuedTasks = reduceTasks

(* The merge rounds end, as do the stages before.                          *)
Terminates == <>(phase = "done")

=============================================================================
