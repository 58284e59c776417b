------------------------------ MODULE ReduceTask ------------------------------
(***************************************************************************)
(* One reduce task of Phoenix (phoenix-2.0/src/map_reduce.c, iterator.c):  *)
(* the intermediate arrays of one bucket, one for each map thread, from    *)
(* emit_intermediate and run_combiner in the map stage to the calls of the *)
(* reduce function in reduce_worker_do_next_task.                          *)
(*                                                                         *)
(* The map threads insert into arrays of their own, so that an insertion   *)
(* is one step.  A key is an integer, key_cmp compares integers.  A value  *)
(* is the set of the emits it stands for: one emit, or several once a      *)
(* combiner has merged them.                                               *)
(***************************************************************************)
EXTENDS Integers, Sequences, FiniteSets, SequencesExt

CONSTANTS
    NumThreads, \* num_map_threads
    Keys,       \* the keys, integers
    ArrLen,     \* DEFAULT_KEYVAL_ARR_LEN
    ChunkLen,   \* DEFAULT_VALS_ARR_LEN
    MaxEmits    \* bound: number of emits

ASSUME ParamsAssumption ==
    /\ NumThreads \in Nat \ {0}
    /\ Keys \subseteq Int
    /\ ArrLen \in Nat \ {0}
    /\ ChunkLen \in Nat \ {0}
    /\ MaxEmits \in Nat

VARIABLES
    combiner,   \* TRUE when args->combiner is given
    arr,        \* arr[t]: intermediate_vals[t][bucket].arr
    alloc,      \* alloc[t]: its alloc_len
    keyOf,      \* history: the key of each emit
    mapped,     \* mapped[t]: map thread t has ended
    pc,         \* control point of the reduce worker
    pos,        \* pos[t]: intermediate_vals[t][bucket].pos
    cur,        \* curr_thread
    minKey,     \* min_key_val, as <<thread, index>>, <<>> for NULL
    nextMin,    \* next_min, likewise
    itr,        \* the iterator: its lists, and current list, chunk and index
    got,        \* what iter_next gave to the current call of reduce
    out         \* history: the calls of reduce, as [key, vals]

bucketVars == <<combiner, arr, alloc, keyOf, mapped, pc, pos, cur, minKey, nextMin, itr, got, out>>

Threads == 0 .. NumThreads - 1

(* iter_reset; lists, chunks and entries are counted from 1, pos and index *)
(* are the numbers of entries passed.                                      *)
EmptyItr == [lists |-> <<>>, list |-> 1, chunk |-> 1, index |-> 0]

BucketInit ==
    /\ combiner \in BOOLEAN
    /\ arr = [t \in Threads |-> <<>>]
    /\ alloc = [t \in Threads |-> 0]
    /\ keyOf = <<>>
    /\ mapped = [t \in Threads |-> FALSE]
    /\ pc = "wait"
    /\ pos = [t \in Threads |-> 0]
    /\ cur = 0
    /\ minKey = <<>>
    /\ nextMin = <<>>
    /\ itr = EmptyItr
    /\ got = <<>>
    /\ out = <<>>

reduceVars == <<pc, pos, cur, minKey, nextMin, itr, got, out>>

-----------------------------------------------------------------------------
(* The map stage: emit_intermediate and run_combiner. *)

(* Mutant of BinarySearch: an equal key is passed over to the left.        *)
BinarySearch_Equal(a, k) ==
    LET search[r \in (-1 .. Len(a)) \X (0 .. Len(a))] ==
            LET low == r[1]
                high == r[2]
                next == (high + low) \div 2
            IN  IF high - low > 1
                  THEN IF a[next + 1].key >= k
                         THEN search[<<low, next>>]
                         ELSE search[<<next, high>>]
                  ELSE low
    IN  search[<<-1, Len(a)>>]

(* The binary search: the last entry whose key is at most k, -1 for none.  *)
BinarySearch(a, k) ==
    LET search[r \in (-1 .. Len(a)) \X (0 .. Len(a))] ==
            LET low == r[1]
                high == r[2]
                next == (high + low) \div 2
            IN  IF high - low > 1
                  THEN IF a[next + 1].key > k
                         THEN search[<<low, next>>]
                         ELSE search[<<next, high>>]
                  ELSE low
    IN  search[<<-1, Len(a)>>]

(* Where key k belongs in array a: the number of entries before it, and    *)
(* whether the entry there has that key.                                   *)
InsertPos(a, k) ==
    LET n == Len(a)
        low == IF BinarySearch(a, k) < 0 THEN 0 ELSE BinarySearch(a, k)
    IN  IF n = 0 THEN [low |-> 0, found |-> FALSE]
        ELSE IF a[n].key < k THEN [low |-> n, found |-> FALSE]
        ELSE IF a[n].key = k THEN [low |-> n - 1, found |-> TRUE]
        ELSE IF a[low + 1].key < k THEN [low |-> low + 1, found |-> FALSE]
        ELSE [low |-> low, found |-> a[low + 1].key = k]

(* A value goes into the newest chunk; a full one is followed by a chunk   *)
(* of twice its size, put in front.                                        *)
AddValue(chunks, v) ==
    LET full == chunks # <<>> /\ Len(chunks[1].array) >= chunks[1].size
        room == IF chunks = <<>> THEN <<[size |-> ChunkLen, array |-> <<>>]>>
                ELSE IF full
                  THEN <<[size |-> 2 * chunks[1].size, array |-> <<>>]>> \o chunks
                  ELSE chunks
    IN  [room EXCEPT ![1].array = Append(@, v)]

insert_keyval_merged(a, k, v) ==
    LET p == InsertPos(a, k)
        b == IF p.found THEN a
             ELSE InsertAt(a, p.low + 1, [key |-> k, len |-> 0, vals |-> <<>>])
    IN  [b EXCEPT ![p.low + 1].vals = AddValue(@, v),
                  ![p.low + 1].len = @ + 1]

(* Mutant of Grown: a full array is not enlarged.                          *)
Grown_Late(n, size) ==
    IF n <= size THEN size ELSE IF size = 0 THEN ArrLen ELSE 2 * size

Grown(n, size) == IF n < size THEN size ELSE IF size = 0 THEN ArrLen ELSE 2 * size

emit_intermediate(t, k) ==
    /\ ~mapped[t]
    /\ Len(keyOf) < MaxEmits
    /\ keyOf' = Append(keyOf, k)
    /\ arr' = [arr EXCEPT ![t] = insert_keyval_merged(@, k, {Len(keyOf) + 1})]
    /\ alloc' = [alloc EXCEPT ![t] =
                   IF InsertPos(arr[t], k).found THEN @ ELSE Grown(Len(arr[t]), @)]
    /\ UNCHANGED <<combiner, mapped, reduceVars>>

AllValues(e) == UNION {ToSet(e.vals[c].array) : c \in DOMAIN e.vals}

(* The combiner turns the values of an entry into one, kept in the newest  *)
(* chunk; the others are freed.                                            *)
run_combiner(a) ==
    [i \in DOMAIN a |->
        [key |-> a[i].key, len |-> 1,
         vals |-> <<[size |-> a[i].vals[1].size,
                     array |-> <<UNION AllValues(a[i])>>]>>]]

EndMap(t) ==
    /\ ~mapped[t]
    /\ mapped' = [mapped EXCEPT ![t] = TRUE]
    /\ arr' = [arr EXCEPT ![t] = IF combiner THEN run_combiner(@) ELSE @]
    /\ UNCHANGED <<combiner, alloc, keyOf, reduceVars>>

-----------------------------------------------------------------------------
(* reduce_worker_do_next_task *)

mapVars == <<combiner, arr, alloc, keyOf, mapped>>

StartBucket ==
    /\ pc = "wait"
    /\ \A t \in Threads : mapped[t]
    /\ pc' = "scan"
    /\ UNCHANGED <<mapVars, pos, cur, minKey, nextMin, itr, got, out>>

Exhausted(t) == pos[t] >= Len(arr[t])
KeyAt(ref) == arr[ref[1]][ref[2]].key
CurrKey == arr[cur][pos[cur] + 1].key
MatchesMin == minKey # <<>> /\ CurrKey = KeyAt(minKey)

SkipExhausted ==
    /\ pc = "scan" /\ cur < NumThreads
    /\ Exhausted(cur)
    /\ cur' = cur + 1
    /\ UNCHANGED <<mapVars, pc, pos, minKey, nextMin, itr, got, out>>

(* Mutant of AddToItr: the search goes on with the next array.             *)
AddToItr_NextArray ==
    /\ pc = "scan" /\ cur < NumThreads
    /\ ~Exhausted(cur)
    /\ MatchesMin
    /\ itr' = [itr EXCEPT !.lists = Append(@, <<cur, pos[cur] + 1>>)]
    /\ pos' = [pos EXCEPT ![cur] = @ + 1]
    /\ cur' = cur + 1
    /\ UNCHANGED <<mapVars, pc, minKey, nextMin, got, out>>

(* iter_add, and the same array is looked at again.  The iterator has room *)
(* for one list of each map thread; a failure of iter_add is an assertion. *)
AddToItr ==
    /\ pc = "scan" /\ cur < NumThreads
    /\ ~Exhausted(cur)
    /\ MatchesMin
    /\ pc' = IF Len(itr.lists) < NumThreads THEN pc ELSE "aborted"
    /\ itr' = [itr EXCEPT !.lists = Append(@, <<cur, pos[cur] + 1>>)]
    /\ pos' = [pos EXCEPT ![cur] = @ + 1]
    /\ UNCHANGED <<mapVars, cur, minKey, nextMin, got, out>>

FindNextMin ==
    /\ pc = "scan" /\ cur < NumThreads
    /\ ~Exhausted(cur)
    /\ ~MatchesMin
    /\ nextMin' = IF nextMin = <<>> \/ CurrKey < KeyAt(nextMin)
                    THEN <<cur, pos[cur] + 1>>
                    ELSE nextMin
    /\ cur' = cur + 1
    /\ UNCHANGED <<mapVars, pc, pos, minKey, itr, got, out>>

(* The end of a pass over the arrays: the first pass has no key to reduce. *)
EndPass ==
    /\ pc = "scan" /\ cur = NumThreads
    /\ pc' = IF minKey = <<>> THEN "advance" ELSE "reduce"
    /\ UNCHANGED <<mapVars, pos, cur, minKey, nextMin, itr, got, out>>

Chunks(list) == arr[itr.lists[list][1]][itr.lists[list][2]].vals

(* iter_next, called by the reduce function until it returns 0.            *)
iter_next ==
    /\ pc = "reduce"
    /\ LET here == [list |-> itr.list, chunk |-> itr.chunk, index |-> itr.index]
           there ==
             IF itr.index < Len(Chunks(itr.list)[itr.chunk].array) THEN here
             ELSE IF itr.chunk < Len(Chunks(itr.list))
               THEN [here EXCEPT !.chunk = @ + 1, !.index = 0]
             ELSE IF itr.list < Len(itr.lists)
               THEN [list |-> itr.list + 1, chunk |-> 1, index |-> 0]
             ELSE <<>>
       IN  IF there = <<>>
             THEN /\ pc' = "free"
                  /\ UNCHANGED <<itr, got>>
             ELSE /\ itr' = [lists |-> itr.lists, list |-> there.list,
                             chunk |-> there.chunk, index |-> there.index + 1]
                  /\ got' = Append(got, Chunks(there.list)[there.chunk].array
                                            [there.index + 1])
                  /\ UNCHANGED pc
    /\ UNCHANGED <<mapVars, pos, cur, minKey, nextMin, out>>

(* iter_rewind and iter_next_list to free the chunks, then iter_reset.     *)
EndReduceCall ==
    /\ pc = "free"
    /\ out' = Append(out, [key |-> KeyAt(minKey), vals |-> got])
    /\ got' = <<>>
    /\ arr' = [t \in Threads |->
                 [i \in DOMAIN arr[t] |->
                    IF <<t, i>> \in ToSet(itr.lists)
                      THEN [arr[t][i] EXCEPT !.vals = <<>>]
                      ELSE arr[t][i]]]
    /\ itr' = EmptyItr
    /\ pc' = "advance"
    /\ UNCHANGED <<combiner, alloc, keyOf, mapped, pos, cur, minKey, nextMin>>

(* On to the next key; the task is over when every array is exhausted.     *)
Advance ==
    /\ pc = "advance"
    /\ minKey' = nextMin
    /\ nextMin' = <<>>
    /\ cur' = 0
    /\ pc' = IF \A t \in Threads : Exhausted(t) THEN "done" ELSE "scan"
    /\ UNCHANGED <<mapVars, pos, itr, got, out>>

BucketEnded == pc = "done" /\ UNCHANGED bucketVars

reduce_worker_do_next_task ==
    StartBucket \/ SkipExhausted \/ AddToItr \/ FindNextMin \/ EndPass
      \/ iter_next \/ EndReduceCall \/ Advance

BucketNext ==
    \/ \E t \in Threads : EndMap(t) \/ \E k \in Keys : emit_intermediate(t, k)
    \/ reduce_worker_do_next_task
    \/ BucketEnded

BucketSpec == BucketInit /\ [][BucketNext]_bucketVars

(* The reduce worker keeps running.                                        *)
FairBucketSpec == BucketSpec /\ WF_bucketVars(reduce_worker_do_next_task)

-----------------------------------------------------------------------------
(* Properties. *)

BucketTypeOK ==
    /\ \A t \in Threads :
          /\ Len(arr[t]) <= alloc[t]
          /\ pos[t] \in 0 .. Len(arr[t])
    /\ Len(keyOf) <= MaxEmits
    /\ mapped \in [Threads -> BOOLEAN]
    /\ cur \in 0 .. NumThreads
    /\ pc \in {"wait", "scan", "reduce", "free", "advance", "done", "aborted"}

(* The calls of reduce implement GroupByKey: one call for a key, in        *)
(* ascending order, and the iterator hands it every value emitted for the  *)
(* key once, whatever the chunks and threads they were spread over.        *)
SumCard(vals) ==
    LET sum[n \in 0 .. Len(vals)] ==
            IF n = 0 THEN 0 ELSE sum[n - 1] + Cardinality(vals[n])
    IN  sum[Len(vals)]
GK == INSTANCE GroupByKey WITH
        Ids <- 1 .. MaxEmits,
        calls <- [c \in DOMAIN out |->
                    [key |-> out[c].key,
                     ids |-> UNION ToSet(out[c].vals),
                     handed |-> SumCard(out[c].vals)]]
ImplementsGroupByKey == GK!GroupSpec

(* Once the map threads have ended the task ends, with every key reduced:  *)
(* no key is twice in an array, which would overflow the iterator.         *)
AllKeysReduced ==
    (\A t \in Threads : mapped[t]) ~> (pc = "done" /\ GK!AllReduced)
=============================================================================
