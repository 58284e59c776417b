# Verification of the concurrent runtimes of concord-benchmarks

This directory holds TLA+ models of the hand-written concurrent code in this
repository, the TLC configurations that check them on small instances, and
TLAPS proofs of their main invariants for every size. The repository is the
benchmark collection used to measure Concord's compiler interrupts: Phoenix,
PARSEC and Splash-2, with scripts that build, run and tabulate them. Most of
the 20 000 files are vendored libraries and numerical kernels. The code whose
correctness depends on interleavings and that is small enough to reason about
is in the runtimes: the thread pool, locks, task queues and MapReduce engine of
Phoenix, and the barrier, the dedup pipeline, the atomic pointers and the worker
groups of PARSEC.

Contents:

1. [Inventory of the system](#1-inventory-of-the-system)
2. [Modules and their correspondence to the code](#2-modules-and-their-correspondence-to-the-code)
3. [Runs, bounds and results](#3-runs-bounds-and-results)
4. [Fairness](#4-fairness)
5. [Proofs](#5-proofs)
6. [Findings](#6-findings)
7. [What is not modelled](#7-what-is-not-modelled)
8. [Plan](#8-plan)
9. [How to run](#9-how-to-run)

Paths below are relative to `src/`. `P/` stands for `phoenix/phoenix-2.0/src/`,
`K/` for `parsec-benchmark/pkgs/kernels/` and `A/` for `parsec-benchmark/pkgs/apps/`.

## 1. Inventory of the system

### Phoenix: how the parts work together

A program calls `map_reduce` with a splitter, a map function, a partition
function, a reduce function and thread counts. The call goes through stages:
map, reduce, and rounds of merge. For each stage the main thread fills the task
queues, then `start_workers` runs the stage on itself and on the threads of a
pool that lives across calls; it waits for them and goes on. Workers take tasks
from the queues, stealing from each other, under one lock per queue. Map workers
write intermediate arrays, one for each pair of map thread and bucket; a reduce
worker reads all arrays of its bucket; merge workers read the output arrays.
Nothing protects the arrays but the joins between stages.

```
 map_reduce ── gen_*_tasks ──> task queues <── tq_dequeue ── workers
     │                              │ lock (MCS or pthread mutex)
     └── start_workers ──> thread pool (set, begin, wait, get_results, destroy)
 emit_intermediate -> intermediate_vals -> reduce -> final_vals -> merge rounds -> result
```

| Component | State | Operations | What is hard | What makes it correct |
|---|---|---|---|---|
| Thread pool `P/tpool.c` | `num_workers`, `num_workers_done`, `die`, argument and result of each thread, semaphores `sem_run` and `sem_all_workers_done` | create, set, begin, wait, get_results, destroy; `thread_loop` | A thread counts itself done and compares in separate steps, with no lock; the fields are rewritten for the next stage | `tpool_wait` returns exactly when all participants are done; threads run the current function; all threads leave at destroy |
| MCS lock `P/mcs.c` | `head`, a private record (`next`, `locked`) for each thread | alloc, acquire, release | The hand-over between a thread that has swapped itself in but is not linked, and a holder that releases | Mutual exclusion, first-come first-served, no starvation |
| Task queues `P/taskQ.c` | queues, free queues, a lock for each queue, random seeds | init, enqueue (with and without lock), dequeue with stealing, finalize, reset | "No more work" is concluded from observations at different times; the same entry seen by two workers | Each task is given out once; nothing is left behind; each entry is freed once |
| Intermediate data and reduce tasks `P/map_reduce.c`, `P/iterator.c` | sorted arrays of keys, each with a list of chunks of values; the iterator | `emit_intermediate`, `run_combiner`, `reduce_worker_do_next_task`, `iter_*` | Binary search with corrections at both ends, chunks of doubling size, a merge over all map threads | Arrays sorted without repetition; one call of reduce for a key, in order, with all values |
| The call `P/map_reduce.c` | thread counts, arrays, queue parameters, the pool of an earlier call | `env_init`, `gen_map_tasks`, `gen_reduce_tasks`, `map`, `reduce`, `merge`, `merge_worker` | Divisions with remainders in three places; parameters of one stage used by another; rounds that must end | Every value emitted is in the result once, sorted; rounds partition their inputs; calls end |
| Scheduling and memory glue `P/processor.c`, `locality.c`, `scheduler.c`, `memory.c`, `pt_mutex.c` | none shared | wrappers of system calls | – | – |
| Tests `phoenix-2.0/tests/` | the data of a benchmark | map and reduce functions | – | – |

### PARSEC

| Component | State | Operations | What is hard | What makes it correct |
|---|---|---|---|---|
| Barrier `K/streamcluster/src/parsec_barrier.cpp` (identical in fluidanimate and netstreamcluster) | `n`, `max`, `is_arrival_phase`, mutex, condition | init, wait, destroy | A bounded spin on the flag without the mutex, then a fall-back to the condition variable; fast threads that come back while others leave | Rounds of `max` threads that do not overlap, one serial thread each, no lost wake-up |
| dedup queues and buffers `K/dedup/src/queue.c`, `queue.h`, `mbuffer.c` | ring buffers with a count of terminated producers; blocks with a reference counter | `queue_enqueue`, `queue_dequeue`, `queue_terminate`; `mbuffer_create`, `clone`, `copy`, `split`, `realloc`, `free` | One signal for a batch; end of stream; a counter shared by threads that free at the same time | Everything sent arrives once, in order, and everybody learns of the end; a block lives as long as a buffer uses it and is freed once |
| dedup encoder `K/dedup/src/encoder.c` | chunks with a state, the table of chunks, groups of queues, chunks held back by the writer | `Fragment`, `FragmentRefine`, `Deduplicate`, `Compress`, `Reorder`, `Encode` | The writer waits for a compression done elsewhere; sequence numbers whose bound is learnt on the way; queues that block each other | Output in the order of the input, duplicates refer to something already written, all threads return |
| bodytrack `A/bodytrack/src/TrackingBenchmark/` and its `threads/` | command, barriers, tickets; buffer of images, two condition variables with counts | `SendCmd`, `Run`, `Exec`, `getTicket`, `resetDispenser`; `AsyncImageLoader::Run`, `GetNextImageSet`; `Wait`, `NotifyOne`, `NotifyAll` | The command is reset between two barriers, the dispenser by one worker while others have begun; notifications without the mutex, size tests without the lock | Each command is executed once by all, each iteration by one; images of all frames arrive in order |
| facesim task queues `A/facesim/src/TaskQ/lib/` | distributed queues, counters of waiting threads | enqueue, get, `signalTasks`, `waitForEnd` | Counters read without the lock, condition wait without a loop | No task lost, the end is detected once |
| canneal `K/canneal/src/AtomicPtr.h`, `annealer_thread.cpp` | a pointer word with a reserved value; counts of moves, a flag shared by the threads | `Get`, `Set`, `Checkout`, `Checkin`, `Swap` and their `Try` forms; `Run`, `keep_going` | Swaps of two pointers in opposite orders; each thread decides by itself to leave a loop with a barrier in it | Each call takes effect at one instant; the elements remain a permutation; all threads return |
| ferret queue `A/ferret/src/src/queue.c` | bounded queue, count of terminated producers | enqueue, dequeue, terminate | as in dedup | as in dedup |
| Numerical programs, network versions | arrays divided among threads | – | use of barriers and of the runtimes above | – |

### The rest

`TriggerAction.h` (measurements taken in compiler interrupts), `run.py` and the
other scripts, Splash-2 (numerical programs over macros), vendored libraries
under `pkgs/libs` and `pkgs/tools`. They have no shared-memory protocol of their
own or are third-party code.

The hazards of this code, each with its source line, are listed in
`PROJECT.json`, together with the properties that cover them.

## 2. Modules and their correspondence to the code

| Module | Kind | Models |
|---|---|---|
| `ForkJoin` | abstract | what a stage promises its caller |
| `TPool`, `MCTPool`, `TPoolProofs` | model, instances, proofs | `P/tpool.c` and the way `start_workers` uses it |
| `FIFOLock` | abstract | a lock granted in the order of the requests |
| `MCSLock`, `SyncProofs` | model, proofs | `P/mcs.c` |
| `TaskPool` | abstract | what workers rely on when they take tasks |
| `TaskQ`, `TaskQProofs` | model, proofs | `P/taskQ.c` in one stage |
| `GroupByKey` | abstract | what a reduce task promises |
| `ReduceTask`, `MapReduceProofs` | model, proofs | insertion, combiner, reduce task and iterator for one bucket |
| `MapReduce`, `MCMapReduce`, `MapReduceProofs` | model, instances, proofs | one call of `map_reduce` |
| `BarrierRounds` | abstract | rounds of a barrier |
| `ParsecBarrier`, `SyncProofs` | model, proofs | `parsec_barrier.cpp` |
| `ClosableChannel` | abstract | what a queue between two stages promises |
| `DedupQueue` | model (actions only) | `K/dedup/src/queue.c`, `queue.h` |
| `MBuffer` | model | `K/dedup/src/mbuffer.c` |
| `DedupStage`, `MCDedupStage`, `DedupStageProofs` | composition, instance, proofs | a stage of `encoder.c` over `DedupQueue` and `MBuffer` |
| `DedupArchive` | abstract | what the encoder promises of its output |
| `DedupPipeline`, `MCDedupPipeline`, `DedupPipelineProofs` | model, instance, proofs | the parallel `Encode` of `encoder.c` |
| `AtomicSwaps` | abstract | pointers whose operations take effect at one instant |
| `AtomicPtr` | model | `K/canneal/src/AtomicPtr.h`, for any client |
| `Annealer`, `MCAnnealer`, `AnnealerProofs` | composition, instances, proofs | `K/canneal/src/annealer_thread.cpp` over `AtomicPtr` |
| `Condition` | model (actions only) | `threads/Condition.cpp` of bodytrack |
| `WorkerGroup` | model (actions only) | `threads/WorkerGroup.cpp` |
| `ImageLoader` | model (actions only) | `AsyncIO.cpp` |
| `BodyTrack`, `MCBodyTrack`, `BodyTrackProofs` | composition, instance, proofs | the main loop, the commands and the ticket dispenser of bodytrack over the two, as a `ForkJoin` |

Each concrete module instantiates its abstract one under a refinement mapping
(`FJ`, `FL`, `TP`, `GK`, `BR`, `Channel`, `Archive`, `Swaps`), and `MapReduce` uses the abstract behaviour of
the others: a stage is a fork-join (`TPool` implements `ForkJoin`), a task is
taken from a set (`TaskQ` implements `TaskPool`), a reduce task yields its keys
in order with all values (`ReduceTask` implements `GroupByKey`). `TaskQ` in turn
takes its queue lock as atomic (`MCSLock` implements `FIFOLock`). `DedupPipeline`
takes its queues as sequences that close (`DedupStage` implements `ClosableChannel`).

### TPool

The state is that of `tpool_t` and of each `thread_arg_t`. Functions, arguments
and results are represented by the number of the stage they belong to, so that
"the function of an old stage" is visible. `mpc` and `wpc` are control points.

The main thread: `tpool_set`; `tpool_begin` (the test and the reset) and
`PostRun` (one iteration of its loop); `start_my_work`; `tpool_wait`;
`tpool_get_results`; `tpool_destroy`, `PostDie` and `FreePool`. A pool thread:
`Wake`, `Load` (test `die`, read function and argument), `Run`, `Inc`
(`fetch_and_inc`) and `Cmp` (compare with `*num_workers` and post). `Inc` and
`Cmp` are separate since nothing keeps the main thread and other threads from
moving in between; so are `ExitInc` and `ExitCmp` at the end of the thread.
Stage sizes are a constant, since `map_reduce` determines them and not the pool.
After `FreePool` the comparison reads freed memory: the post then reaches nobody.

### MCSLock

One action for each access to shared memory: `ResetNext`, `SwapHead`,
`SetLocked`, `LinkBehindPrev`, `SpinOnLocked` for `mcs_acquire`; `TestNext`,
`SwapHeadToNull`, `SpinOnNext`, `UnlockNext` for `mcs_release`. `prev` is the
local variable of `mcs_acquire`. `order` is a history variable: the threads in
the order of their swaps of `head`, from the swap to the end of the release. It
gives the refinement mapping to `FIFOLock`.

### TaskQ

The main thread fills the queues (`tq_enqueue_seq`), starts the workers and
finalizes. A worker's `tq_dequeue` acquires a queue's lock, reads the head
(`PopFront`), unlinks it (`Unlink`), puts the entry into the free queue
(`PushFree`) and releases; when the queue was empty it goes on to the next one
until it is back at the first. These are separate steps so that the lock has
something to protect. `Run` runs the task. `tq_enqueue(w, t)` is the function of
the same name called by a running task; the tasks in `Spawned` are put in that
way. The first queue is chosen arbitrarily: by locality group or at random.

### ReduceTask

`emit_intermediate(t, k)` is one insertion by map thread `t` into its own array:
the binary search, the corrections at its ends, growing the array, and adding the
value to the newest chunk, all as the code does it. `EndMap` runs the combiner, if
there is one. The reduce worker's loop is split at its iterations:
`SkipExhausted`, `AddToItr`, `FindNextMin`, `EndPass`, `iter_next` (one value),
`EndReduceCall`, `Advance`. A value is the set of the emits it stands for, so that
losing, repeating or misplacing one shows.

### MapReduce

`Init` is `env_init`, `tq_init` and `tpool_create` for one of the calls in `Args`
(thread counts, kind of output queue, number of data units, size of the pool that
an earlier call left). `StartMap`, `MapTask(t)`, `StartReduce`, `ReduceTask(t)`,
`StartMerge`, `MergeStep(t)` (one iteration of `merge_results`), `MergeEnd(t)` and
`EndRound` follow. A task is one step because a worker writes only arrays of its
own: `Emitted` are the pairs a map task emits into a bucket, `ReduceOutput` those that
the passes of the reduce worker over a bucket emit, in the order they find them (`Before`),
and `InsertAll` puts these into an output array one after the other. `QueuedTasks` is the arithmetic of `gen_reduce_tasks`, with its use of
`num_map_threads`; `First`, `Count` and `Length` that of `merge_worker`. The
branch of `merge_worker` for a share of at most one input (`map_reduce.c:1227`)
is modelled, but `env_init` never lets it be taken: the number of merge threads
is at most half the number of arrays in the first round and halves afterwards.

### ParsecBarrier

One action for each critical section of the mutex: `Lock` (the first one),
`RetryDeparture` and `RetryArrival` (after a spin or a wake-up). `Enter` is the
call. Reading `is_arrival_phase` while spinning is not an action: the value read
is used only to end the spin, and the flag is read again under the mutex, so that
the spin may end at any time with any outcome. `SpuriousWakeup` is what POSIX
allows of `pthread_cond_wait`. `answer` and `round` are history variables.

### DedupQueue, MBuffer and DedupStage

`DedupQueue` has one action for each critical section of `queue.c`: `Enqueue` and
`Dequeue` move a batch and send one signal; `WaitNotFull` and `WaitNotEmpty` are the
iterations of the loops around `pthread_cond_wait`; `DequeueEnd`, `Terminate`,
`SpuriousWakeup`. The ring is kept as an array with `head` and `tail`, since full and
empty differ by the one unused slot.

`MBuffer` has the fields of `mbuffer_t` in `handle` and of `mcb_t` in `count`, with the
state of each block of memory. `mbuffer_free` is `FreeRef`, the critical section, and
`FreeBlock`, what the last one does after the unlock; the others are one action each.
`realloc` may move a block, and a handle remembers the number of the move its pointer is
from, so that a stale pointer shows.

`DedupStage` composes the two as the stages do: a producer reads a coarse chunk
(`ReadInput`, `Shrink`), cuts it as `FragmentRefine` does (`Cut`, `LastPiece`) and sends the
pieces (`EnqueueBatch`, `TerminateQueue`); a consumer dequeues and frees (`DequeueBatch`,
`Free`, `Release`). Where an anchor is found is arbitrary. `got` is a history variable.

### DedupPipeline

Fine chunk `<<i, j>>` is piece `j` of coarse chunk `i`; its contents are given by `Input`. Before
it is cut off, `<<i, j>>` is what is left of coarse chunk `i` from there on: `FragmentRefine` keeps the
rest in hand under the same sequence number.
`Fragment` feeds the groups in turn, `FragmentEnds` terminates them one by one. The workers of the middle stages
share `Fetch`, `FetchFails`, `Flush` and `Terminate`; their own work on one chunk is
`Refine`, `Deduplicate` (search and insertion under the lock of the table) and `Compress`.
`Reorder` is `ReorderFetch` (one `queue_dequeue` of its round-robin), `ReorderTake`,
`ReorderWrite` (one turn of the write loop) and `ReorderFlush`. `writer` holds its locals;
the tree of heaps is the set `writer.held`. A chunk that waits for its original's
compression makes `write_chunk_to_file` not enabled. A queue is a sequence with a count
of terminated producers, and a call that would block is an action that is not enabled.
`Decode` is the loop of `decoder.c`.

### AtomicPtr and Annealer

One action is one access to a shared pointer: `Load` (and `LoadFails` for the `Try`
forms), `Cas`/`CasFails`, the same on the second pointer of a swap (`LoadLast`, `CasLast`, ...),
`Checkin`. Loops of the code go back to the load. `PtrSpec` drives them with any client;
`Annealer` with the threads of canneal: `KeepGoing` (which reads the shared flag) and `Leave`
(which clears it), `Pick`, `ReadLocation` (one `Get` of
`swap_cost`), `Decide` (`accept_move` and the start of the swap), `Meet` (the barrier). `Mem`
is what the pointers mean: the value in the slot or the one its owner would check in.

### Condition, WorkerGroup, ImageLoader and BodyTrack

`Condition` has the two counts of `Condition.cpp` and the set of threads asleep in
`pthread_cond_wait`. `SendInternalCmd` calls `NotifyAll` with the mutex held: one step. The
loader and the main thread call `NotifyOne` without it, so that each access is a step:
`ReadSlack`, `PutTicket`, `SendSignal` on one side, `StartWait`, `LookForTicket`, `Block`, `TakeTicket`,
`LeaveWait` on the other.

`WorkerGroup`: a worker's `DetermineRank`, `RecvCmd` with its loop (`AwaitWork`, `Awake`), `WorkDone`
and `PoolReady` (the two barriers of `AckCmd`, with `ResetCmd` between them), and the main thread's
`SendInternalCmd` and `BossPoolReady`. A barrier is a pthread barrier: its last thread moves all, and
any one is told that it is the serial one.

`ImageLoader`: `LoadSet`, `PushImages`, `TestFull`, `NextFrame` of the loader's loop; `TestFailed`,
`TestEmpty`, `PopImages` of `GetNextImageSet`. A set of images is the number of its frame.

`BodyTrack` composes them. `Exec` is the function of the same name of the tracking model and
of the particle filter: `BeginExec` (worker 0 resets the dispenser, all meet at `workInit`),
`DrawTicket`, `Compute` (one row or particle). `script` is what the main thread will send for a
frame: edge maps for each camera, then rounds of sampling, of which there may be more when
too few particles are valid. `done` are the iterations that have been computed. `sent` and `last`
are history variables for the mapping to `ForkJoin`, the abstract specification that `TPool`
implements too: there the shares are those of threads, here they are iterations.

## 3. Runs, bounds and results

| Run | Configuration | Checks | Result |
|---|---|---|---|
| `tpool_steady` | 3 pool threads, stages of 1, 2, 0, 2, 2, 0 threads | `TypeOK`, `JoinSafe`, `ShutdownComplete`, `AllReturn`, `ImplementsForkJoin` | hold, 1 051 states |
| `tpool_shrink` | 4 threads, stages of 3, 3, 1, 0 | `JoinSafe` | violated |
| `mcs_lock` | 3 threads, any number of acquisitions | `TypeOK`, `MutualExclusion`, `AssertionsHold`, `ImplementsFIFOLock` | hold, 5 692 states |
| `taskq_stage` | 2 workers, 3 queues, 2 tasks and a spawned one | `TypeOK`, `StageEnds`, `ImplementsTaskPool` | hold, 233 255 states |
| `reduce_task` | 2 map threads, 3 keys, at most 5 emits, arrays and chunks of initial length 1, combiner or none | `BucketTypeOK`, `ImplementsGroupByKey`, `AllKeysReduced` | hold, 597 174 states |
| `mapreduce_steady` | six calls with 1 to 5 threads of each kind | `TypeOK`, `EachUnitOnce`, `SortedOutput`, `Terminates` | hold, 3 494 states |
| `parsec_barrier` | 3 threads, 3 crossings each | `BarrierTypeOK`, `NoOvertaking`, `ImplementsBarrierRounds`, `EverybodyLeaves` | hold, 1 562 states |
| `dedup_stage` | 2 producers with coarse chunks of 3 and 2 bytes, 2 consumers, queue of 2, batches of up to 2 | `TypeOK`, `NoHandleDangles`, `FreedByTheLast`, `ExclusiveAccess`, `ImplementsChannel` | hold, 48 828 states |
| `dedup_pipeline` | 3 threads per stage in groups of 2 and 1, queues of 1, buffers of 2, 2 coarse chunks of 2 fine ones | `TypeOK`, `AssertionsHold`, `Decodable`, `ImplementsArchive`, `EncodeReturns` | hold, 47 678 states |
| `canneal_steps` | 2 threads, 3 elements, 2 steps of 1 move | `TypeOK`, `LocationsDistinct`, `LinearizableSwaps`, `EverybodyReturns` | hold, 275 958 states |
| `bodytrack` | 2 workers, 3 frames, 1 camera, images of 4 rows, units of 1 and 3, a buffer of 2 | `TypeOK`, `FramesInOrder`, `ImplementsForkJoin` | hold, 545 906 states |
| `bodytrack_images` | 1 worker, the same loader | `ImagesArrive` | violated |

The violated ones are the [findings](#6-findings).

What the passing runs show, and why the bounds are enough:

- **tpool_steady.** Two jobs in a row on one pool: one that uses fewer threads
  than the pool has, then one that uses two; the zeros are merges that the main
  thread does alone. A late thread of one stage can be delayed through all later
  ones. Two participants are what a wrong count needs (one that posts early, one
  that is not done); the third pool thread is a bystander, woken only at destroy.
  The sizes do not shrink, which is the assumption `NonShrinking` of the proofs;
  the proofs cover any number of threads and stages.
- **mcs_lock.** Three threads: a holder, one waiting and linked, and one that has
  swapped `head` but is not linked. The state space is finite without any bound on
  acquisitions. The proofs cover any number of threads. `ImplementsFIFOLock` includes
  the fairness of `FIFOLock`: the first in line is granted the lock and releases it, so
  that nobody in line starves.
- **taskq_stage.** Two workers search three queues, so that a search may have passed
  one queue, be at the second and not have seen the third when the other worker
  takes or inserts something. `ImplementsTaskPool` counts how often each task is given
  out, and says that a worker that gives up does so when none of the initial tasks is
  left. It may miss a spawned task; the last worker never leaves one behind. `StageEnds`
  says that the stage ends with exactly the executed entries in the free queues. The proofs
  cover any number of workers, queues and tasks.
- **reduce_task.** Every sequence of at most five emits of two threads over three
  keys: enough to insert at the front, in the middle, at the end and at an equal
  key, to have a key in one array or in both, and to fill chunks of size 1 and 2.
  `ArrLen` and `ChunkLen` of 1 replace the code's 10 so that growing happens.
  `ImplementsGroupByKey` fixes the calls of the reduce function, their order and the
  number of values each is handed; an iterator without room aborts, which
  `AllKeysReduced` excludes (and `IteratorHasRoom` proves impossible). The
  proofs cover any number of threads, keys and emits and all initial sizes.
- **mapreduce_steady.** Calls with as many reduce as map threads, as in the
  programs under `tests/`: with both kinds of output queue, with one and several
  merge rounds, with equal and unequal shares in a round, with fewer map tasks than
  threads, with a pool that is larger than needed and with a single thread.
  `DefaultTasks = 5` and `ExtendedTasks = 4` replace 256 and 32 768, so that divisions by
  2 and 3 leave remainders; `ChunkSize = 2` so that the last chunk of five units is
  short. `EachUnitOnce` counts the places where each value is: map tasks, intermediate
  arrays, output arrays, unread inputs and merged outputs, in every state. `SortedOutput` looks at
  the arrays of the reduce tasks, at the inputs of every merge round and at the result.
- **parsec_barrier.** Three threads, of which one may spin, one may block and one may
  be a round ahead. Three crossings are needed for a thread to lap another one;
  the proofs cover any number.
- **dedup_stage.** Both producers may wait for room while both consumers free the last
  pieces of a block, and both consumers may wait when the last producer terminates.
  Batches of 2 in a queue of 2 are partly refused when it holds one item. A chunk of 3
  bytes is cut into one to three pieces; that of 2 bytes is shrunk first. `ImplementsChannel`
  includes the liveness of the channel: no wake-up is lost, though a whole batch sends one
  signal and threads wake for no reason. `ExclusiveAccess` is the promise that
  `mbuffer.h:9-13` asks of the callers and everything in `MBuffer` rests on: a handle in use
  is in one place (a coarse chunk, a send buffer, the queue, a receive buffer), and no place
  names a handle that was freed. The proofs cover any number of threads, coarse chunks of
  any size, and queues and batches of any size.
- **dedup_pipeline.** Two groups of unequal size, as any number of threads that is not a
  multiple of `MAX_THREADS_PER_QUEUE` gives; each coarse chunk goes through a group of its
  own. The inputs `ab` and `ba` make either chunk's first occurrence the one that is
  compressed, so that the writer meets a duplicate before its original, must wait for
  its compression, and holds chunks of both coarse chunks back. The proofs cover any input and
  all sizes; the run adds that `Encode` returns. `AnchorRoom = 1` makes the
  array of sizes grow. Queues of one place and buffers of two make every stage block on
  the next. Fine chunks get their contents from `Input`; hash collisions are left out.
- **canneal_steps.** Two threads pick any pairs of three elements, two of which are wired
  to each other, so that swaps meet in one or two pointers, in either order, and reads meet
  checked out pointers. `EverybodyReturns` excludes that two swaps wait for each other.
  The safety properties are proved for all sizes.
- **bodytrack.** Three frames fill a buffer of two while the main thread still waits for the
  first, and let a ticket be left over from one wait to the next. A unit of 3 in an image
  of 4 rows leaves a remainder; two workers share each command, and one may be a barrier
  ahead of the other. `ImplementsForkJoin` says that every iteration of a command is computed
  once and before `SendCmd` returns, that nobody computes anything outside a command, and
  that a command that has begun comes to its end. The proofs cover all sizes.

Deadlock is checked in every run that must hold but one; terminated states stutter explicitly
(`Terminated`, `Finished`, `Over`). The exception is `bodytrack`, which really may stop: see
`bodytrack_images`.

## 4. Fairness

- `TPool`: weak fairness of the main thread and of each pool thread. The operating
  system schedules threads; map, reduce and merge functions return. No fairness of
  semaphores is needed: one thread waits on each.
- `MCSLock`: a thread inside `mcs_acquire` or `mcs_release` keeps running, and the
  holder releases (its critical sections in `taskQ.c` are a few list operations).
  Starting an acquisition is not fair: nobody has to want the lock.
- `TaskQ`: weak fairness of the main thread and of each worker. A worker waiting for
  a queue's lock is enabled only while the lock is free; the lock needs no fairness
  of its own, since a stage acquires locks finitely often.
- `ReduceTask`: weak fairness of the reduce worker; emits and the end of map threads
  need none, since `AllKeysReduced` starts when they have ended.
- `MapReduce`: weak fairness of a step of the call as a whole.
- `ParsecBarrier`: weak fairness of each thread's call and next critical section: the
  mutex is granted, the spin is bounded by `SPIN_COUNTER_MAX`, and callers go on. A
  thread blocked on the condition variable has no fair action until a broadcast
  moves it, and spurious wake-ups are not fair, so that `EverybodyLeaves` depends on
  the broadcasts.
- `DedupStage`: weak fairness of each thread. A mutex is held for a bounded loop; a
  thread that waits on a condition variable has no fair action before it is signalled,
  and spurious wake-ups are not fair.
- `DedupPipeline`: weak fairness of each worker, of `Fragment` and of `Reorder`. A call that
  blocks is not enabled. Several threads of a group compete for its queue, but each of
  them would do the same, so that no strong fairness is needed.
- `Annealer`: weak fairness of each thread. A `Get` or `Checkout` of a checked out pointer
  spins, that is, is not enabled; a compare-and-swap that fails goes back to the load.
  With a bounded number of moves no thread can fail for ever. `AtomicSwaps` states the same
  for the effects of calls.
- `BodyTrack`: weak fairness of the main thread, the loader and each worker. A thread asleep
  has no fair action before it is signalled, and spurious wake-ups are not fair.

## 5. Proofs

All theorems are proved by TLAPS for every value of the constants that satisfies
the modules' assumptions; those are the ranges that the code guarantees, such as
"the pool has at least one thread" or "stage sizes are at most the pool's size".

**MCSLock** (`SyncProofs`). `TypeCorrect`, `MutualExclusionHolds`,
`AssertionsAlwaysHold`, and `FirstComeFirstServed`: every step of the lock is a step of
`FIFOLock` or a stutter. The inductive invariant is `IInv`: `LineInv` (the line `order` has
no repetition, contains exactly the threads between the swap and the end of release,
and `head` is its last one), `WaitInv` (each thread but the first waits behind its
predecessor, its flag set and the link in place as far as its control point says),
`FirstInv` (the first in line holds the lock or has its flag cleared), `EndInv` (the last
one has no successor). Mutual exclusion by itself is not inductive: it rests on who
points to whom. The steps fall into those that change one thread's record, those that
advance the first thread, and those that change the line; each kind has a lemma.

**TPool** (`TPoolProofs`). `TypeCorrect` for all sizes. If `NonShrinking`: `JoinSafety`,
`ShutdownIsComplete` and `ForkJoinImplemented`, the safety half of the refinement.
The invariant `IInv` says what each thread can be doing in each stage
(`QuietInv` between stages, `ParticipantInv` and `BystanderInv` within one), that the counter equals
the number of participants that have counted (`CountInv`), that counts are distinct, and
that the semaphore is posted only when the counter is full (`PostInv`). The part the code
leaves implicit is `Late`: a thread may be delayed between count and comparison for any
number of stages, but its count is smaller than the size of its own stage, and hence,
when sizes do not shrink, than that of any later stage. Without that assumption the
theorem is false (`tpool_shrink`). From `tpool_destroy` on, `ShutdownInv` takes over: a
thread has not seen `die` (perhaps because it is a late one, whose comparison fails), is
counting itself out, or has left; the counter is the number of those that have counted, and
the semaphore is posted by the one that counts last, so that the main thread passes it with
none inside. The steps of a stage are a `Fork` (`tpool_begin`), one `Share` for each
participant (the store of its result) and the `Join` (the return of `tpool_wait`).

**TaskQ** (`TaskQProofs`). `TypeCorrect`, `TaskPoolImplemented`, `TasksRunAtMostOnce` and `EntriesFreedOnce`, for
any number of workers, queues and tasks, put in before or during the stage. `ImplementsTaskPool`
is proved as it is checked: the abstract specification states no fairness. Locks give
`LockInv` and `HeadInv` (the head that was read is still the head when it is unlinked);
`OnceInv` says that no task is in the queues twice, `HandInv` where a task is that was given
out. What makes a worker's "no more work" right is `SearchInv`: what is left in a queue that a
worker has passed was put there during the stage, and a queue that all workers have passed is
empty, since a worker that puts in a task searches all queues again before it gives up. `EntriesFreedOnce`
is what `StageEnds` says of the end of a stage, without that it comes: `FreeInv` adds that an entry is
in one free queue, once, as soon as its task can run (the worker that puts it there is the only one to
have it), and at the end, when all queues are empty, exactly for the tasks that were run.

**MapReduce** (`MapReduceProofs`). `TypeCorrect`. `MergeRoundsCover`: in every merge round the slices
that merge threads compute partition the inputs, and each thread has at least one; by
arithmetic on quotient and remainder (`Division`, `SlicesCover`), for every number of threads
and arrays. `NoBucketLost`: if no call has more map than reduce threads, every bucket has
a reduce task. The invariant adds to `TypeOK` that there are at least two inputs for each
merge thread and, for `NoBucketLost`, that the number of map threads only shrinks.
`OutputSorted`: output arrays, the inputs of every merge round and the result are sorted,
whatever the keys. An output array is sorted because `Insert` keeps it so
(`InsertedSorted`) or because the passes of the reduce worker list the pairs of a bucket in a strict
order (`InOrder`). For the merge, `SortInv` adds that what a merge thread has written is sorted and
no key is larger than the head of any of its inputs; that the other threads do not move
those heads is `MergeRoundsCover`. `UnitsOnce`: under the condition of `NoBucketLost` every
value is in exactly one place of the current stage, so that the result has each value once. The
invariant says of each unit that it is in one place of what the stage empties or of what it fills, never
in both, that it is in its own bucket, and that all buckets with pairs are still queued; each
step moves places from one side to the other. What the recursive functions `InsertAll` and
`InOrder` yield is proved with a least counterexample, since the induction theorems
cannot be instantiated.

**ReduceTask** (`MapReduceProofs`). `BucketTypeCorrect`, `GroupByKeyImplemented`, `IteratorHasRoom` and
`BucketReduced`, for any number of threads, keys and emits and any initial sizes of arrays and
chunks, with and without a combiner. `ImplementsGroupByKey` is proved as it is checked: the abstract
specification states no fairness. The argument goes along the data:

- Insertion. `BinarySearchIs` says where the search of `insert_keyval_merged` ends (at an entry that is
  not larger than the key, before one that is), by the smallest range on which it would not, in place of
  an induction. With the corrections that follow the search this makes `InsertPos` exact, and gives
  `ArrayInv`: arrays are ascending, so that no key is twice in one.
- `EmitInv`: until its key is reduced, every emit is in the array of one thread, under its key, in
  one place of one chunk (`OnceIn`); adding a value, growing a chunk and the combiner keep that.
- The passes. `ReadInv`: what a thread's position has passed is called or is the minimum being
  called, what it has not passed is larger than all calls, and `next_min` is the least of the
  heads seen so far. This is why keys come in order and none is called twice.
- The iterator. `ListInv`: its lists are exactly the entries of the minimum that were passed, at most one of
  each thread since no array repeats a key, so that `iter_add` has room. `GotInv`: `iter_next` has handed
  out exactly the values in front of its position, each once (`NextPlace`, `HandOver`); when
  it stands at the end these are all values of the key (`AllHanded`), which is what `GroupByKey` asks of
  a call (`CallsReduce`).

**ParsecBarrier** (`SyncProofs`). `BarrierTypeCorrect`, `NobodyOvertakes`, `DestroySucceeds`, and
`ImplementsRounds`: `BarrierSpec` implements `BarrierRounds`, for any set of threads, any `Max` and any
number of crossings; also when more threads than `Max` share the barrier. The invariant:
`CountInv` (`n` is the number of threads inside), `PhaseInv` (a departure phase has somebody
inside, an arrival phase has room), `MasterInv` (one master among those that have arrived),
`BlockedInv` (a thread blocks only for a phase change that is still to come), `CallInv` and
`RoundInv` (which crossing each thread is in). All steps are of four kinds (a thread moves,
joins a round, completes it, departs), and the lemmas are stated for the kinds.

**DedupStage** (`DedupStageProofs`). First `MBuffer` alone (`MBufferSpec`): `BuffersNeverDangle` and
`BlocksFreedOnce`, for any client that respects exclusive access to a handle. The invariant
`BufferInv` says that the counter of a live block is the number of its handles (by cardinality lemmas for
adding and removing a holder), that handles are on live blocks, inside their size and
from their last move, and that a block without handles is in the hands of exactly one
thread. `realloc` is where they meet: only a block with one handle may move, and the
counter says so because it is exact.

Then the stage, whose threads must be such a client: `HandlesExclusive`, and from it
`PiecesNeverDangle` and `ChunksFreedOnce`; `TypeCorrect`; and `ChannelImplemented`, the safety half of
the refinement: each byte arrives once, in the order of its chunk, and no consumer stops
while something is left. The invariant `IInv` has a table of the places that can hold a handle
(`Places`, `Item`) with one handle in use for one place; batches move between the tables' rows,
which is arithmetic of the ring (`head`, `tail` and the unused slot). `ProducerInv` says that no handle
is in use for bytes that a producer has not come to, so that `mbuffer_split` always finds a new
one; `nTerminated` is the number of producers that have ended. The refinement needs that a
batch's bytes are the concatenation of the pieces' bytes; `FlattenSeq` is recursive, and its
laws (of the empty sequence, of one more element, of a concatenation) are proved
by the smallest counterexample, where an induction would be used otherwise.

**DedupPipeline** (`DedupPipelineProofs`). `TypeCorrect`, `AssertionsAlwaysHold`, `AlwaysDecodable` and
`ArchiveImplemented` (the safety half of the refinement of `DedupArchive`), for any input of non-empty
coarse chunks, any number of threads in groups of any size, and queues, batches and receive
buffers of any size. The invariant `IInv` sees all queues and buffers as one function from
places to sequences (`Belt`):

- `PlaceInv`: a chunk that has been read is in one place of the belt, once, or with the writer;
  what is left of a coarse chunk stands for all its chunks that are still to be cut. Each step
  moves, cuts, drops or adds items, and one lemma for each kind keeps this (`MoveKeeps`,
  `CutKeeps`, `DropKeeps`, `AddKeeps`).
- `PhaseInv`, `TableInv`: where a chunk is says what is known of it (whether it has been looked up,
  whether it is compressed); chunks with equal contents have one original, and it is flushed
  when the first of them is written, whichever it is. `FileInv`: the file is the beginning of
  the archive up to the writer's next chunk.
- `EndInv`, `TriesInv`, `BoundInv`: a queue is terminated by its producers, each after its last item, so
  that a reader that finds it drained has missed nothing; the writer has found its last `tries`
  queues drained, and knows the size of a coarse chunk once it has its last piece. Together they
  give what is hardest here: when the writer starts to flush, everything has come (`AllHaveCome`), and what
  it holds continues the file without a gap, so that the exit in `Reorder` is never taken.

Positions in the stream are lengths of concatenations (`Heads`, `Pos`); `FlattenSeq` is unfolded by the smallest
counterexample. The assumptions are those of the module: `InputIsCut` (an empty coarse chunk is never
sent), `SizesPositive`, and `InputFits`, the bound below which `chunks_per_anchor` is not overrun.

**Annealer** (`AnnealerProofs`). First `AtomicPtr`, for any client. `PtrSafe`: types, and a pointer is out of its slot
exactly while one thread owns it. `PtrLinearizable`: every step of `PtrSpec` is a step of
`AtomicSwaps` or a stutter. Reads and sets take effect at their load or compare-and-swap,
a swap at the one on its second pointer, though the first is checked in later: in between
`Mem` shows what the owner holds. The lemmas say how `Mem` changes with each kind of step.

Then the threads of canneal: `CannealTypes`, `CannealOneOwner`, `CannealDistinct`,
`CannealLinearizable`: the annealer's threads are a client of `AtomicPtr`, so its invariant
and its lemmas carry over; that locations are distinct needs besides that the threads
only read and swap (`CallsUsed`), since a `Set` or a foreign `Checkin` could repeat a pointer.

**BodyTrack** (`BodyTrackProofs`). `TypeCorrect`, `ImagesInOrder` and `ForkJoinImplemented` (the
safety half), for any number of workers, cameras, rounds and frames, images and units of any size, and
any length of the loader's buffer. For the images: the buffer holds the next ones in
order (`BufferInv`), and the counts of a condition are its waiting threads (`CountInv`). That
the loader does not test the size again after its wait, and that tickets are left over, does
no harm to the order. For the commands: the workers' ranks are distinct from 0 on (`RankInv`);
the main thread's script (`ScriptInv`, `CallInv`); and in `StageInv` the group as a
whole is `Resting`, `Gathering` (some have found the command and wait at `workInit`),
`Executing` or `Parting` (past the first barrier of `AckCmd`; one resets the command). The reset of
the dispenser by worker 0 falls between gathering and executing because of `workInit`.
`UnitInv` and `LoopInv`: what is drawn and not computed is divided among the workers, and a
worker comes to the end of the loop only when everything has been drawn, so that at the
second barrier all of it has been computed.

Which assumptions the proofs add to what TLC needs: threads, workers, handles and tasks are
finitely many; there is at least one worker (the main thread takes the first share
itself in Phoenix, and bodytrack's thread count is at least 1); producers and consumers
of a queue are different threads; sizes and batches are positive.

Only model-checked: liveness (`AllReturn`, `StageEnds`, `AllKeysReduced`, `Terminates`,
`EverybodyLeaves`, `EncodeReturns`, `EverybodyReturns`) and the fairness halves of
`ImplementsForkJoin`, `ImplementsFIFOLock`, `ImplementsChannel`, `ImplementsArchive` and
`LinearizableSwaps`, since the proof system has no rules for fairness and `ENABLED`.

## 6. Findings

Each of the first two is a run that TLC finds violated by what the code does.

1. **Late comparison, smaller stage** (`tpool_shrink`; `P/tpool.c:360`). A pool thread
   that is delayed between `fetch_and_inc` and the comparison reads the `num_workers` of a
   later stage. If that stage is smaller, its old count may be equal, and it
   posts `sem_all_workers_done` for a stage whose own worker has not finished. The main
   thread goes on, frees the arguments and the merge inputs. Merge rounds
   halve their threads, so shrinking stages are what `map_reduce` produces.
2. **Lost notification** (`bodytrack_images`; `AsyncIO.cpp:71`, `threads/Condition.cpp:119`). The
   loader calls `NotifyOne` without the mutex of the condition. If the main thread has found
   `nWakeupTickets` zero but does not sleep yet, the ticket is put and the signal reaches
   nobody. From then on as many tickets as waiting threads are counted, so that no later call
   signals. The main thread sleeps with images in the buffer, the loader goes to sleep when the
   buffer is full. The same can happen to the loader with the notification of the main thread.

Three more were seen while modelling and have no run among those kept here:

3. **Rows never computed** (`TrackingModelPthread.cpp:188`). The gradient command resets the ticket
   dispenser with `resetDispenser(WORKUNIT_SIZE_GRADIENT)`, which keeps the start of the command before.
   The column filter of the previous image has set it to `kernelSize / 2`, so that from the second
   image on rows 1 to 3 of the gradient are not computed and keep what `malloc` returned. The serial
   `GradientMagThreshold` (`TrackingModel.cpp:132`) computes them. To see it, check in `MCBodyTrack` that
   `main = "command" /\ last = GRADIENT => done = 0..Limit(GRADIENT) - 1`.
4. **Buckets without a task** (`P/map_reduce.c:1469`). `gen_reduce_tasks` multiplies by
   `num_map_threads` where it means `num_reduce_threads`. With more map threads than reduce threads the
   remainder is too small; keys in the last buckets are missing in the result. All programs in
   `tests/` use the defaults or give both stages the same number (`MR_NUMTHREADS`), for which
   `mapreduce_steady` passes. To see it, add `Call(5, TRUE, 3, 2, 0, 0)` to `ArgsSteady`: `EachUnitOnce` fails.
   `NoBucketLost` and `UnitsOnce` prove that nothing is lost otherwise.
5. **Convergence at a barrier** (`K/canneal/src/annealer_thread.cpp:90`, `:138`).
   Without a number of temperature steps each thread decides in `keep_going` whether
   to leave, from its own counts and a shared flag that the first to leave clears. A thread
   that looked before the flag was cleared goes on for another step and waits at
   `pthread_barrier_wait` for all threads, one of which has left. All input sets of the
   benchmark give a number of steps, for which `canneal_steps` passes. To see it, set
   `NumberTempSteps` to -1 and check that the return of one thread leads to that of all.

Read off the code on the way, without a run of their own: a pool thread that has counted
itself at destroy may read `num_workers` of a freed pool (`P/tpool.c:377`; its post then
reaches nobody); with more reduce than map threads a worker indexes past `seeds` and
the per-thread locks, since `tq_reset` is empty (`P/taskQ.c:86`); a later call of `map_reduce`
with more threads than the first stops at `assert (num_workers <= tpool->num_threads)`
(`P/tpool.c:192`); the comments at `P/taskQ.c:357` and `:380` say the opposite of what the functions
return; `AtomicPtr::Checkin` tests a misspelt macro and always is a plain store
(`K/canneal/src/AtomicPtr.h:293`), which x86 forgives; bodytrack's loader does not test the size again
after its wait, and a notification that comes late lets the buffer grow beyond `mBufferSize`
(`AsyncIO.cpp:72`).

## 7. What is not modelled

- Weak memory: the models are sequentially consistent. `mcs.c` uses atomic swaps and
  compare-and-swap with full fences on x86, and the remaining accesses need only the
  ordering x86 gives; semaphores and mutexes order the rest.
- Failures of allocation and of thread creation: the code stops at an assertion
  (`mem_malloc`) or at `CHECK_ERROR` and nothing goes on.
- The map, reduce, combiner and partition functions of the programs: `KeyOf` and `Hash` in
  `MapReduce`, arbitrary emits in `ReduceTask`. Splitters and locators other than the defaults.
- `oneOutputQueuePerMapTask`, which `env_init` sets to false, and the code only it enables.
- Processor binding, NUMA and locality groups: they decide which queue a task goes to
  and where a search begins, which `TaskQ` leaves open.
- `pt_mutex.c`, the other queue lock, is a pthread mutex: `TaskQ` assumes of the lock only
  mutual exclusion.
- The counter `num_map_tasks`, which map workers increment without a lock
  (`P/map_reduce.c:816`): nothing reads it unless `oneOutputQueuePerMapTask` is set. The
  thread-local index of `emit_intermediate` (`:1573`): thread `i` of the pool is given argument
  `i` in every stage, so that the cached index never is a stale one.
- dedup: contents are model values, and SHA1 sums are as distinct as the contents;
  the tree of heaps, the hash table and the compressors are abstracted to what they
  do; statistics and the serial pipeline are left out. `Fragment`'s way of finding coarse
  chunks across reads is part of `Input`. `QUEUE_SIZE` is 1M items: a deadlock between the
  round-robin of `Reorder` and the groups needs more items than that in one group while
  the other has none, and the instance's input is too short for it (an instance with two
  groups, queues of one item and coarse chunks of very unequal length does deadlock).
- canneal: routing costs (a decision is any of good, bad, rejected), reading the netlist,
  and `operator=` of `AtomicPtr`, which canneal does not use between threads. A pointer
  swapped with itself would never be checked in; `get_random_element` excludes it.
- ferret's queue is dedup's protocol with batches of one; its stages keep no shared state
  of their own. The task queues of facesim come next in the plan.
- bodytrack: numerical work, its exceptions, and reading files beyond success or failure.
  `SynchQueue.h` is used by no program; the versions for TBB and OpenMP share the numerical
  part only.
- The rest of the repository, by far the largest part (over three million lines), is
  vendored libraries and tools, numerical kernels and third-party programs (vips, x264,
  raytrace, freqmine, Splash-2): no protocol of this repository's own to model.

## 8. Plan

Done: the Phoenix runtime, the PARSEC barrier, dedup's queues, buffers and encoder,
canneal's atomic pointers and threads, and bodytrack's threads; the safety halves of the
refinements of `MCSLock`, `TPool`, `TaskQ`, `ReduceTask`, `ParsecBarrier`, `DedupStage`, `DedupPipeline`, `AtomicPtr`,
`Annealer` and `BodyTrack` are proved. What would come next, in this order:

| Step | Modules | Abstract specification | Theorems |
|---|---|---|---|
| 1 | `FaceTaskQ`: `signalTasks` and `waitForEnd` | a region ends when all tasks are done | – (liveness) |

## 9. How to run

In this directory, with TLC and TLAPS on the path:

```
tlc -config MCTPool_Steady.cfg MCTPool
tlc -config MCSLock.cfg MCSLock
tlc -config TaskQ_Stage.cfg TaskQ
tlc -config ReduceTask.cfg ReduceTask
tlc -config MCMapReduce_Steady.cfg MCMapReduce
tlc -config ParsecBarrier.cfg ParsecBarrier
tlc -config MCDedupStage.cfg MCDedupStage
tlc -config MCDedupPipeline.cfg MCDedupPipeline
tlc -config MCAnnealer_Steps.cfg MCAnnealer
tlc -config MCBodyTrack_Track.cfg MCBodyTrack
tlapm TPoolProofs.tla        # and the other modules whose names end in Proofs
```

`PROJECT.json` lists every run with what it shows, the source lines of every definition
that models code, the hazards with the properties that cover them, the main theorems,
and for each checked property a mutated definition (marked as mutant in the modules)
under which the property fails.
