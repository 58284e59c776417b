---------------------------- MODULE MapReduceProofs ----------------------------
(***************************************************************************)
(* Theorems about the distribution of work in map_reduce, the order of its *)
(* output and the way of each unit into it, and about the grouping of the  *)
(* pairs in one of its reduce tasks, for every number of threads, tasks,   *)
(* units and pairs.                                                        *)
(***************************************************************************)
EXTENDS MapReduce, ReduceTask, FiniteSetTheorems, FunctionTheorems, SequenceTheorems,
        WellFoundedInduction, TLAPS

-----------------------------------------------------------------------------
(* Sequences *)

(* The least element of a set of numbers.                                  *)
LEMMA Least ==
    ASSUME NEW S \in SUBSET Nat, S # {}
    PROVE  \E x \in S : \A y \in S : x <= y
<1>. DEFINE R == OpToRel(<, Nat)
<1>1. \A x \in Nat : \A y \in Nat : x < y => <<x, y>> \in R
    BY DEF OpToRel
<1>2. IsWellFoundedOn(R, Nat)
    BY NatLessThanWellFounded
<1>. HIDE DEF R
<1>3. PICK x \in S : \A y \in S : ~(<<y, x>> \in R)
    BY <1>2, WFMin
<1>4. \A y \in S : ~(y < x)
    BY <1>1, <1>3, Zenon
<1>. QED BY <1>4

LEMMA Elements ==
    ASSUME NEW S, NEW a \in Seq(S)
    PROVE  /\ Len(a) \in Nat /\ DOMAIN a = 1 .. Len(a)
           /\ \A n \in 1 .. Len(a) : a[n] \in S
    OBVIOUS

LEMMA Concat ==
    ASSUME NEW S, NEW a \in Seq(S), NEW o \in Seq(S)
    PROVE  /\ a \o o \in Seq(S)
           /\ Len(a \o o) = Len(a) + Len(o)
           /\ \A n \in 1 .. Len(a) : (a \o o)[n] = a[n]
           /\ \A n \in 1 .. Len(o) : (a \o o)[Len(a) + n] = o[n]
<1>1. PICK l \in Nat, m \in Nat : l = Len(a) /\ m = Len(o)
    BY Elements
<1>3. /\ a \o o \in Seq(S) /\ Len(a \o o) = l + m
      /\ \A i \in 1 .. l + m : (a \o o)[i] = IF i <= l THEN a[i] ELSE o[i - l]
    BY <1>1, ConcatProperties
<1>4. \A n \in 1 .. l : n \in 1 .. l + m /\ n <= l
    OBVIOUS
<1>5. \A n \in 1 .. m : l + n \in 1 .. l + m /\ ~(l + n <= l) /\ (l + n) - l = n
    OBVIOUS
<1>6. \A n \in 1 .. m : (a \o o)[l + n] = o[n]
    BY <1>3, <1>5, Zenon
<1>. QED BY <1>1, <1>3, <1>4, <1>6

LEMMA Part ==
    ASSUME NEW S, NEW a \in Seq(S), NEW i \in Int, NEW j \in Int,
           1 <= i, j <= Len(a), i <= j + 1
    PROVE  /\ SubSeq(a, i, j) \in Seq(S)
           /\ Len(SubSeq(a, i, j)) = j - i + 1
           /\ \A n \in 1 .. j - i + 1 : SubSeq(a, i, j)[n] = a[i + n - 1]
<1>1. PICK l \in Nat : l = Len(a)
    BY Elements
<1>2. \A n \in 1 .. l : a[n] \in S
    BY <1>1, Elements
<1>3. \A n \in i .. j : a[n] \in S
    <2>1. \A n \in i .. j : n \in 1 .. l
        BY <1>1
    <2>. QED BY <1>2, <2>1
<1>4. PICK x, m : x = SubSeq(a, i, j) /\ m = Len(x)
    OBVIOUS
<1>5. /\ x \in Seq(S)
      /\ m = IF i <= j THEN j - i + 1 ELSE 0
      /\ \A n \in 1 .. j - i + 1 : x[n] = a[i + n - 1]
    BY <1>3, <1>4, SubSeqProperties
<1>6. m = j - i + 1
    BY <1>5
<1>. QED BY <1>4, <1>5, <1>6

(* Sequence r over S is a with p in the place k.                           *)
PutIn(r, S, a, k, p) ==
    /\ r \in Seq(S) /\ Len(r) = Len(a) + 1
    /\ \A n \in 1 .. k - 1 : r[n] = a[n]
    /\ r[k] = p
    /\ \A n \in k .. Len(a) : r[n + 1] = a[n]

LEMMA InsertAtPuts ==
    ASSUME NEW S, NEW a \in Seq(S), NEW k \in 1 .. Len(a) + 1, NEW p \in S
    PROVE  PutIn(InsertAt(a, k, p), S, a, k, p)
<1>1. PICK l \in Nat : l = Len(a)
    BY Elements
<1>2. k \in 1 .. l + 1 /\ k - 1 \in 0 .. l
    BY <1>1
<1>3. PICK x, y, z : x = SubSeq(a, 1, k - 1) /\ y = x \o <<p>> /\ z = SubSeq(a, k, l)
    OBVIOUS
<1>4. /\ x \in Seq(S) /\ Len(x) = k - 1
      /\ \A n \in 1 .. k - 1 : x[n] = a[n]
    <2>1. 1 + (k - 1) - 1 = k - 1 /\ k - 1 \in Int /\ k - 1 <= l
          /\ \A n \in 1 .. k - 1 : 1 + n - 1 = n
        BY <1>2
    <2>2. PICK j \in Int : j = k - 1
        BY <2>1
    <2>3. /\ SubSeq(a, 1, j) \in Seq(S) /\ Len(SubSeq(a, 1, j)) = j
          /\ \A n \in 1 .. j : SubSeq(a, 1, j)[n] = a[1 + n - 1]
        <3>1. 1 <= j + 1 /\ j <= Len(a) /\ j - 1 + 1 = j
            BY <1>1, <1>2, <2>2
        <3>. QED BY <3>1, Part
    <2>. QED BY <1>3, <2>1, <2>2, <2>3
<1>5. /\ z \in Seq(S) /\ Len(z) = l - (k - 1)
      /\ \A n \in 1 .. l - (k - 1) : z[n] = a[(k - 1) + n]
    <2>1. l - k + 1 = l - (k - 1) /\ \A n \in 1 .. l - (k - 1) : k + n - 1 = (k - 1) + n
        BY <1>2
    <2>2. /\ SubSeq(a, k, l) \in Seq(S) /\ Len(SubSeq(a, k, l)) = l - k + 1
          /\ \A n \in 1 .. l - k + 1 : SubSeq(a, k, l)[n] = a[k + n - 1]
        <3>1. k \in Int /\ l \in Int /\ 1 <= k /\ l <= Len(a) /\ k <= l + 1
            BY <1>1, <1>2
        <3>. QED BY <3>1, Part
    <2>. QED BY <1>3, <2>1, <2>2
<1>6. <<p>> \in Seq(S) /\ Len(<<p>>) = 1 /\ <<p>>[1] = p
    OBVIOUS
<1>7. /\ y \in Seq(S) /\ Len(y) = k
      /\ \A n \in 1 .. k - 1 : y[n] = x[n]
      /\ y[k] = p
    <2>1. /\ x \o <<p>> \in Seq(S) /\ Len(x \o <<p>>) = Len(x) + Len(<<p>>)
          /\ \A n \in 1 .. Len(x) : (x \o <<p>>)[n] = x[n]
          /\ \A n \in 1 .. Len(<<p>>) : (x \o <<p>>)[Len(x) + n] = <<p>>[n]
        <3>1. x \in Seq(S) /\ <<p>> \in Seq(S)
            BY <1>4, <1>6
        <3>. QED BY <3>1, Concat
    <2>2. Len(x) = k - 1 /\ Len(<<p>>) = 1 /\ 1 \in 1 .. 1 /\ (k - 1) + 1 = k
        BY <1>2, <1>4, <1>6
    <2>3. y[k] = p
        BY <1>3, <1>6, <2>1, <2>2
    <2>. QED BY <1>3, <2>1, <2>2, <2>3
<1>8. PICK r : r = y \o z
    OBVIOUS
<1>9. /\ r \in Seq(S) /\ Len(r) = k + (l - (k - 1))
      /\ \A n \in 1 .. k : r[n] = y[n]
      /\ \A n \in 1 .. l - (k - 1) : r[k + n] = z[n]
    <2>1. /\ y \o z \in Seq(S) /\ Len(y \o z) = Len(y) + Len(z)
          /\ \A n \in 1 .. Len(y) : (y \o z)[n] = y[n]
          /\ \A n \in 1 .. Len(z) : (y \o z)[Len(y) + n] = z[n]
        <3>1. y \in Seq(S) /\ z \in Seq(S)
            BY <1>5, <1>7
        <3>. QED BY <3>1, Concat
    <2>2. Len(y) = k /\ Len(z) = l - (k - 1)
        BY <1>5, <1>7
    <2>. QED BY <1>8, <2>1, <2>2
<1>10. InsertAt(a, k, p) = r
    BY <1>1, <1>3, <1>8 DEF InsertAt
<1>11. \A n \in 1 .. k - 1 : r[n] = a[n]
    <2>1. \A n \in 1 .. k - 1 : n \in 1 .. k
        OBVIOUS
    <2>. QED BY <1>4, <1>7, <1>9, <2>1
<1>12. r[k] = p
    <2>1. k \in 1 .. k
        BY <1>2
    <2>. QED BY <1>7, <1>9, <2>1
<1>13. \A n \in k .. l : r[n + 1] = a[n]
    <2>. SUFFICES ASSUME NEW n \in k .. l
                  PROVE  r[n + 1] = a[n]
        OBVIOUS
    <2>1. PICK m \in 1 .. l - (k - 1) : m = n - (k - 1)
        BY <1>2
    <2>2. k + m = n + 1 /\ (k - 1) + m = n
        BY <1>2, <2>1
    <2>. QED BY <1>5, <1>9, <2>2
<1>14. Len(r) = l + 1
    BY <1>2, <1>9
<1>. QED BY <1>1, <1>9, <1>10, <1>11, <1>12, <1>13, <1>14 DEF PutIn

-----------------------------------------------------------------------------
(* Arithmetic *)

LEMMA Division ==
    ASSUME NEW L \in Nat, NEW M \in Nat \ {0}
    PROVE  /\ L \div M \in Nat
           /\ L % M \in Nat
           /\ L % M < M
           /\ L = (M * (L \div M)) + (L % M)
    BY SMT

(* Slices of length q, the first r of them one longer, as the merge        *)
(* threads take them: slice t begins where slice t - 1 ends.               *)
SliceStart(q, r, t) == t * q + Smaller(t, r)
SliceEnd(q, r, t) == SliceStart(q, r, t) + q + (IF t < r THEN 1 ELSE 0)

LEMMA SliceNext ==
    ASSUME NEW q \in Nat, NEW r \in Nat, NEW t \in Nat
    PROVE  /\ SliceStart(q, r, t) \in Nat
           /\ SliceEnd(q, r, t) = SliceStart(q, r, t + 1)
    BY DEF SliceStart, SliceEnd, Smaller

LEMMA SliceMonotone ==
    ASSUME NEW q \in Nat, NEW r \in Nat, NEW s \in Nat, NEW t \in Nat, s <= t
    PROVE  SliceStart(q, r, s) <= SliceStart(q, r, t)
<1>1. s * q <= t * q
    BY SMT
<1>2. s * q \in Nat /\ t * q \in Nat
    BY SMT
<1>3. Smaller(s, r) <= Smaller(t, r) /\ Smaller(s, r) \in Nat /\ Smaller(t, r) \in Nat
    BY DEF Smaller
<1>. QED BY <1>1, <1>2, <1>3 DEF SliceStart

(* The slices of M threads cover 0 .. M * q + r - 1 without a gap.         *)
LEMMA SlicesCover ==
    ASSUME NEW q \in Nat \ {0}, NEW r \in Nat, NEW M \in Nat, r <= M,
           NEW i \in Nat, i < M * q + r
    PROVE  \E t \in Upto(M) : SliceStart(q, r, t) <= i /\ i < SliceEnd(q, r, t)
<1>1. CASE i < r * (q + 1)
    <2>. DEFINE t == i \div (q + 1)
    <2>1. /\ t \in Nat
          /\ t * (q + 1) <= i
          /\ i < t * (q + 1) + q + 1
        BY SMT
    <2>2. t < r
        BY <1>1, <2>1, SMT
    <2>. HIDE DEF t
    <2>3. SliceStart(q, r, t) = t * (q + 1) /\ SliceEnd(q, r, t) = t * (q + 1) + q + 1
        BY <2>1, <2>2 DEF SliceStart, SliceEnd, Smaller
    <2>. QED BY <2>1, <2>2, <2>3 DEF Upto
<1>2. CASE ~(i < r * (q + 1))
    <2>. DEFINE j == i - r * (q + 1)
                k == j \div q
                t == r + k
    <2>1. j \in Nat /\ i = j + r * (q + 1)
        BY <1>2, SMT
    <2>. HIDE DEF j
    <2>2. k \in Nat /\ k * q <= j /\ j < k * q + q
        BY <2>1, SMT
    <2>. HIDE DEF k
    <2>3. t < M
        BY <2>1, <2>2, SMT
    <2>4. SliceStart(q, r, t) = t * q + r /\ SliceEnd(q, r, t) = t * q + r + q
        BY <2>2 DEF SliceStart, SliceEnd, Smaller
    <2>5. t * q + r = k * q + r * (q + 1)
        BY <2>2, SMT
    <2>. QED BY <2>1, <2>2, <2>3, <2>4, <2>5 DEF Upto
<1>. QED BY <1>1, <1>2

-----------------------------------------------------------------------------
(* The slices of a merge round *)

LEMMA InputsAreSlices ==
    ASSUME mergeThreads \in Nat \ {0}, mergeLen \in Nat,
           mergeLen >= 2 * mergeThreads
    PROVE  \E q \in Nat \ {0}, r \in Nat :
              /\ r < mergeThreads
              /\ mergeLen = mergeThreads * q + r
              /\ \A t \in Upto(mergeThreads) :
                    Inputs(t) = SliceStart(q, r, t) .. SliceEnd(q, r, t) - 1
<1>. DEFINE q == mergeLen \div mergeThreads
            r == mergeLen % mergeThreads
<1>1. /\ q \in Nat
      /\ r \in Nat
      /\ r < mergeThreads
      /\ mergeLen = mergeThreads * q + r
    BY Division, SMT
<1>2. q >= 2
    BY SMT
<1>3. Length = q /\ ModLen = r
    BY <1>1, <1>2 DEF Length, ModLen, ShortRound
<1>. HIDE DEF q, r
<1>4. ASSUME NEW t \in Upto(mergeThreads)
      PROVE  Inputs(t) = SliceStart(q, r, t) .. SliceEnd(q, r, t) - 1
    <2>1. t \in Nat /\ t + 1 \in Nat /\ t + 1 <= mergeThreads
        BY DEF Upto
    <2>2. First(t) = SliceStart(q, r, t)
        BY <1>3 DEF First, SliceStart
    <2>3. SliceEnd(q, r, t) <= SliceStart(q, r, mergeThreads)
        BY <1>1, <2>1, SliceNext, SliceMonotone
    <2>4. SliceStart(q, r, mergeThreads) = mergeLen
        BY <1>1 DEF SliceStart, Smaller
    <2>5. SliceStart(q, r, t) \in Nat
        BY <1>1, <2>1, SliceNext
    <2>6. SliceStart(q, r, t) < SliceEnd(q, r, t)
        BY <1>1, <1>2, <2>5 DEF SliceEnd
    <2>7. SliceEnd(q, r, t) \in Nat
        BY <1>1, <2>5 DEF SliceEnd
    <2>8. First(t) < mergeLen
        BY <2>2, <2>3, <2>4, <2>5, <2>6, <2>7
    <2>9. Count(t) = q + (IF t < r THEN 1 ELSE 0)
        BY <1>3, <2>8 DEF Count
    <2>10. First(t) + Count(t) - 1 = SliceEnd(q, r, t) - 1
        BY <1>1, <2>2, <2>5, <2>9 DEF SliceEnd
    <2>. QED BY <2>2, <2>10 DEF Inputs
<1>. QED BY <1>1, <1>2, <1>4

LEMMA LongRoundCovers ==
    ASSUME mergeThreads \in Nat \ {0}, mergeLen \in Nat,
           mergeLen >= 2 * mergeThreads
    PROVE  MergeCovers
<1>1. PICK q \in Nat \ {0}, r \in Nat :
          /\ r < mergeThreads
          /\ mergeLen = mergeThreads * q + r
          /\ \A t \in Upto(mergeThreads) :
                Inputs(t) = SliceStart(q, r, t) .. SliceEnd(q, r, t) - 1
    BY InputsAreSlices
<1>2. ASSUME NEW t \in Upto(mergeThreads)
      PROVE  /\ t \in Nat /\ t + 1 \in Nat /\ t + 1 <= mergeThreads
             /\ SliceStart(q, r, t) \in Nat
             /\ SliceEnd(q, r, t) \in Nat
             /\ SliceStart(q, r, t) < SliceEnd(q, r, t)
             /\ SliceEnd(q, r, t) = SliceStart(q, r, t + 1)
             /\ SliceEnd(q, r, t) <= mergeLen
    <2>1. t \in Nat /\ t + 1 \in Nat /\ t + 1 <= mergeThreads
        BY DEF Upto
    <2>2. SliceStart(q, r, t) \in Nat /\ SliceEnd(q, r, t) = SliceStart(q, r, t + 1)
        BY <2>1, SliceNext
    <2>3. SliceEnd(q, r, t) \in Nat /\ SliceStart(q, r, t) < SliceEnd(q, r, t)
        BY <2>2 DEF SliceEnd
    <2>4. SliceStart(q, r, mergeThreads) = mergeLen
        BY <1>1 DEF SliceStart, Smaller
    <2>. QED BY <2>1, <2>2, <2>3, <2>4, SliceMonotone
<1>3. ASSUME NEW t \in Upto(mergeThreads)
      PROVE  Inputs(t) # {} /\ Inputs(t) \subseteq Upto(mergeLen)
    <2>1. Inputs(t) = SliceStart(q, r, t) .. SliceEnd(q, r, t) - 1
        BY <1>1
    <2>2. /\ SliceStart(q, r, t) \in Nat
          /\ SliceEnd(q, r, t) \in Nat
          /\ SliceStart(q, r, t) < SliceEnd(q, r, t)
          /\ SliceEnd(q, r, t) <= mergeLen
        BY <1>2
    <2>3. SliceStart(q, r, t) \in Inputs(t)
        BY <2>1, <2>2
    <2>4. Inputs(t) \subseteq Upto(mergeLen)
        BY <2>1, <2>2 DEF Upto
    <2>. QED BY <2>3, <2>4
<1>4. ASSUME NEW s \in Upto(mergeThreads), NEW t \in Upto(mergeThreads),
             NEW i \in Inputs(s), s < t
      PROVE  i \notin Inputs(t)
    <2>1. SliceStart(q, r, s + 1) <= SliceStart(q, r, t)
        BY <1>2, <1>4, SliceMonotone
    <2>2. i \in SliceStart(q, r, s) .. SliceEnd(q, r, s) - 1
        BY <1>1
    <2>3. Inputs(t) = SliceStart(q, r, t) .. SliceEnd(q, r, t) - 1
        BY <1>1
    <2>4. /\ SliceEnd(q, r, s) \in Nat /\ SliceStart(q, r, t) \in Nat
          /\ SliceEnd(q, r, s) = SliceStart(q, r, s + 1)
        BY <1>2
    <2>. QED BY <2>1, <2>2, <2>3, <2>4
<1>5. ASSUME NEW i \in Upto(mergeLen)
      PROVE  \E t \in Upto(mergeThreads) :
                /\ i \in Inputs(t)
                /\ \A s \in Upto(mergeThreads) \ {t} : i \notin Inputs(s)
    <2>1. i \in Nat /\ i < mergeThreads * q + r
        BY <1>1 DEF Upto
    <2>2. PICK t \in Upto(mergeThreads) :
              SliceStart(q, r, t) <= i /\ i < SliceEnd(q, r, t)
        BY <1>1, <2>1, SlicesCover
    <2>3. i \in Inputs(t)
        BY <1>1, <1>2, <2>1, <2>2
    <2>4. ASSUME NEW s \in Upto(mergeThreads) \ {t}
          PROVE  i \notin Inputs(s)
        <3>1. s < t \/ t < s
            BY <1>2
        <3>. QED BY <1>4, <2>3, <3>1
    <2>. QED BY <2>3, <2>4
<1>. QED BY <1>3, <1>5 DEF MergeCovers

-----------------------------------------------------------------------------
(* The inductive invariant: a round never has fewer than two inputs for a  *)
(* thread, so that ShortRound is never the case.                           *)

Rounds ==
    /\ phase \in {"init", "map", "reduce"} /\ OutputArrays > 1 =>
          OutputArrays >= 2 * mergeThreads
    /\ phase = "merge" => mergeLen >= 2 * mergeThreads

IInv == TypeOK /\ Rounds

LEMMA TasksFinite ==
    ASSUME units \in Nat, ChunkSize \in Nat \ {0}
    PROVE  /\ Cardinality(MapTasks) \in Nat
           /\ MapTasks \subseteq SUBSET (1 .. units)
<1>1. MapTasks \subseteq SUBSET (1 .. units)
    BY DEF MapTasks, Upto, Smaller
<1>2. IsFiniteSet(SUBSET (1 .. units))
    <2>1. IsFiniteSet(1 .. units)
        BY FS_Interval
    <2>. QED BY <2>1, FS_SUBSET, Zenon
<1>3. IsFiniteSet(MapTasks)
    BY <1>1, <1>2, FS_Subset
<1>. QED BY <1>1, <1>3, FS_CardinalityType

LEMMA MergeThreadsBounds ==
    ASSUME NEW a \in Args, NEW tasks \in Nat \ {0, 1}
    PROVE  /\ MergeThreads(a, tasks) \in Nat \ {0}
           /\ a.oneQueue => tasks >= 2 * MergeThreads(a, tasks)
           /\ ~a.oneQueue /\ a.reduceThreads > 1 =>
                 a.reduceThreads >= 2 * MergeThreads(a, tasks)
<1>1. a.reduceThreads \in Nat \ {0} /\ a.mergeThreads \in Nat /\ a.oneQueue \in BOOLEAN
    BY ArgsAssumption
<1>2. /\ a.reduceThreads \div 2 \in Nat
      /\ 2 * (a.reduceThreads \div 2) <= a.reduceThreads
      /\ a.reduceThreads > 1 => a.reduceThreads \div 2 >= 1
    BY <1>1, SMT
<1>3. tasks \div 2 \in Nat \ {0} /\ 2 * (tasks \div 2) <= tasks
    BY SMT
<1>4. CASE a.oneQueue
    BY <1>1, <1>3, <1>4 DEF MergeThreads, Smaller, Larger
<1>5. CASE ~a.oneQueue
    BY <1>1, <1>2, <1>3, <1>5 DEF MergeThreads, Smaller, Larger
<1>. QED BY <1>4, <1>5

LEMMA QueuedTasksType ==
    ASSUME reduceTasks \in Nat \ {0}, reduceThreads \in Nat \ {0}, mapThreads \in Nat
    PROVE  Upto(QueuedTasks) \subseteq Upto(reduceTasks)
<1>1. QueuedTasks <= reduceTasks /\ QueuedTasks \in Int
    <2>1. reduceTasks \div reduceThreads \in Nat
        BY SMT
    <2>. DEFINE share == reduceTasks \div reduceThreads
    <2>2. share * mapThreads \in Nat /\ share * reduceThreads \in Nat
        BY <2>1, SMT
    <2>. HIDE DEF share
    <2>. QED BY <2>2 DEF QueuedTasks, Smaller, Larger, share
<1>. QED BY <1>1 DEF Upto

LEMMA Initially ==
    Init => IInv
<1>. SUFFICES ASSUME Init PROVE IInv
    OBVIOUS
<1>1. PICK a \in Args :
          /\ phase = "init"
          /\ units = a.units
          /\ pool = IF a.pool = 0 THEN a.mapThreads ELSE a.pool
          /\ oneQueue = a.oneQueue
          /\ mapThreads = a.mapThreads
          /\ reduceThreads = a.reduceThreads
          /\ reduceTasks = (IF a.oneQueue THEN DefaultTasks ELSE ExtendedTasks)
          /\ mergeThreads = MergeThreads(a, reduceTasks)
          /\ mergeLen = 0
          /\ merged = {}
    BY DEF Init
<1>2. /\ a.units \in 0 .. Len(KeyOf)
      /\ a.oneQueue \in BOOLEAN
      /\ a.mapThreads \in Nat \ {0}
      /\ a.reduceThreads \in Nat \ {0}
      /\ a.pool \in Nat
    BY ArgsAssumption
<1>3. reduceTasks \in Nat \ {0, 1}
    BY <1>1, TasksAssumption
<1>4. /\ mergeThreads \in Nat \ {0}
      /\ oneQueue => reduceTasks >= 2 * mergeThreads
      /\ ~oneQueue /\ reduceThreads > 1 => reduceThreads >= 2 * mergeThreads
    BY <1>1, <1>3, MergeThreadsBounds
<1>5. TypeOK
    BY <1>1, <1>2, <1>3, <1>4 DEF TypeOK
<1>6. Rounds
    BY <1>1, <1>4 DEF Rounds, OutputArrays
<1>. QED BY <1>5, <1>6 DEF IInv

-----------------------------------------------------------------------------
(* The invariant is inductive.  Outside of the merge rounds a step changes *)
(* only the phase, the task queue, the map threads and the data.           *)

LEMMA SettledStep ==
    ASSUME IInv,
           UNCHANGED <<config, mergeThreads, mergeLen, merged>>,
           mapThreads' \in Nat,
           phase' \in {"init", "map", "reduce", "merge", "done", "aborted"},
           phase' = "map" => taskQueue' \subseteq SUBSET (1 .. units),
           phase' = "reduce" => taskQueue' \subseteq Upto(reduceTasks),
           phase' \in {"init", "map", "reduce"} => phase \in {"init", "map", "reduce"},
           phase' = "merge" => phase = "merge"
    PROVE  IInv'
<1>1. /\ units' = units /\ pool' = pool
      /\ oneQueue' = oneQueue /\ reduceThreads' = reduceThreads
      /\ reduceTasks' = reduceTasks /\ mergeThreads' = mergeThreads
      /\ mergeLen' = mergeLen /\ merged' = merged
    BY DEF config
<1>2. TypeOK'
    BY <1>1 DEF IInv, TypeOK, Upto
<1>3. Rounds'
    BY <1>1 DEF IInv, Rounds, OutputArrays
<1>. QED BY <1>2, <1>3 DEF IInv

LEMMA RoundStep ==
    ASSUME IInv,
           NEW len \in Nat, NEW threads \in Nat \ {0}, NEW input,
           len >= 2 * threads,
           StartRound(len, threads, input),
           UNCHANGED <<config, mapThreads>>
    PROVE  IInv'
<1>1. /\ mergeLen' = len
      /\ mergeThreads' = threads
      /\ merged' = {}
      /\ phase' \in {"merge", "aborted"}
    BY DEF StartRound, StartWorkers
<1>2. /\ units' = units /\ pool' = pool
      /\ oneQueue' = oneQueue /\ reduceThreads' = reduceThreads
      /\ reduceTasks' = reduceTasks /\ mapThreads' = mapThreads
    BY DEF config
<1>3. TypeOK'
    BY <1>1, <1>2 DEF IInv, TypeOK, Upto
<1>4. Rounds'
    BY <1>1 DEF Rounds
<1>. QED BY <1>3, <1>4 DEF IInv

LEMMA Inductive ==
    IInv /\ [Next]_vars => IInv'
<1>. SUFFICES ASSUME IInv, [Next]_vars
              PROVE  IInv'
    OBVIOUS
<1>1. CASE StartMap
    <2>1. units \in Nat /\ mapThreads \in Nat
        BY DEF IInv, TypeOK
    <2>2. /\ phase = "init"
          /\ mapThreads' = Smaller(mapThreads, Cardinality(MapTasks))
          /\ taskQueue' = MapTasks
          /\ phase' \in {"map", "aborted"}
          /\ UNCHANGED <<config, mergeThreads, mergeLen, merged>>
        BY <1>1 DEF StartMap, StartWorkers, mergeVars
    <2>3. mapThreads' \in Nat /\ MapTasks \subseteq SUBSET (1 .. units)
        BY <2>1, <2>2, TasksFinite, TasksAssumption DEF Smaller
    <2>. QED BY <2>2, <2>3, SettledStep
<1>2. ASSUME NEW t \in Upto(mapThreads), MapTask(t)
      PROVE  IInv'
    <2>1. /\ phase = "map" /\ phase' = "map"
          /\ taskQueue' \subseteq taskQueue
          /\ UNCHANGED <<config, mapThreads, mergeThreads, mergeLen, merged>>
        BY <1>2 DEF MapTask, mergeVars
    <2>2. mapThreads \in Nat /\ taskQueue \subseteq SUBSET (1 .. units)
        BY <2>1 DEF IInv, TypeOK
    <2>. QED BY <2>1, <2>2, SettledStep
<1>3. CASE StartReduce
    <2>1. /\ phase = "map" /\ phase' \in {"reduce", "aborted"}
          /\ taskQueue' = Upto(QueuedTasks)
          /\ UNCHANGED <<config, mapThreads, mergeThreads, mergeLen, merged>>
        BY <1>3 DEF StartReduce, StartWorkers, mergeVars
    <2>2. /\ mapThreads \in Nat
          /\ reduceTasks \in Nat \ {0}
          /\ reduceThreads \in Nat \ {0}
        BY DEF IInv, TypeOK
    <2>3. taskQueue' \subseteq Upto(reduceTasks)
        BY <2>1, <2>2, QueuedTasksType
    <2>. QED BY <2>1, <2>2, <2>3, SettledStep
<1>4. ASSUME NEW t \in Upto(reduceThreads), ReduceTask(t)
      PROVE  IInv'
    <2>1. /\ phase = "reduce" /\ phase' = "reduce"
          /\ taskQueue' \subseteq taskQueue
          /\ UNCHANGED <<config, mapThreads, mergeThreads, mergeLen, merged>>
        BY <1>4 DEF ReduceTask, mergeVars
    <2>2. mapThreads \in Nat /\ taskQueue \subseteq Upto(reduceTasks)
        BY <2>1 DEF IInv, TypeOK
    <2>. QED BY <2>1, <2>2, SettledStep
<1>5. CASE StartMerge
    <2>1. /\ phase = "reduce"
          /\ UNCHANGED <<config, mapThreads>>
        BY <1>5 DEF StartMerge
    <2>2. /\ OutputArrays \in Nat
          /\ mergeThreads \in Nat \ {0}
          /\ mapThreads \in Nat
        BY DEF IInv, TypeOK, OutputArrays
    <2>3. CASE OutputArrays <= 1
        <3>1. phase' = "done" /\ UNCHANGED <<mergeThreads, mergeLen, merged>>
            BY <1>5, <2>3 DEF StartMerge, mergeVars
        <3>. QED BY <2>1, <2>2, <3>1, SettledStep
    <2>4. CASE ~(OutputArrays <= 1)
        <3>1. StartRound(OutputArrays, mergeThreads, final)
            BY <1>5, <2>4 DEF StartMerge
        <3>2. OutputArrays >= 2 * mergeThreads
            BY <2>1, <2>2, <2>4 DEF IInv, Rounds
        <3>. QED BY <2>1, <2>2, <3>1, <3>2, RoundStep
    <2>. QED BY <2>3, <2>4
<1>6. ASSUME NEW t \in Upto(mergeThreads), MergeStep(t)
      PROVE  IInv'
    <2>1. /\ phase = "merge" /\ phase' = "merge"
          /\ UNCHANGED <<config, mapThreads, mergeThreads, mergeLen, merged>>
        BY <1>6 DEF MergeStep
    <2>2. mapThreads \in Nat
        BY DEF IInv, TypeOK
    <2>. QED BY <2>1, <2>2, SettledStep
<1>7. ASSUME NEW t \in Upto(mergeThreads), MergeEnd(t)
      PROVE  IInv'
    <2>1. /\ phase = "merge" /\ phase' = "merge"
          /\ merged' = merged \cup {t}
          /\ UNCHANGED <<config, mapThreads, mergeThreads, mergeLen>>
        BY <1>7 DEF MergeEnd
    <2>2. /\ units' = units /\ pool' = pool
          /\ oneQueue' = oneQueue /\ reduceThreads' = reduceThreads
          /\ reduceTasks' = reduceTasks
        BY <2>1 DEF config
    <2>3. TypeOK'
        BY <1>7, <2>1, <2>2 DEF IInv, TypeOK, Upto
    <2>4. Rounds'
        BY <2>1 DEF IInv, Rounds
    <2>. QED BY <2>3, <2>4 DEF IInv
<1>8. CASE EndRound
    <2>1. /\ phase = "merge"
          /\ merged = Upto(mergeThreads)
          /\ UNCHANGED <<config, mapThreads>>
        BY <1>8 DEF EndRound
    <2>2. mergeThreads \in Nat \ {0} /\ mapThreads \in Nat
        BY DEF IInv, TypeOK
    <2>3. /\ NextMergeThreads \in Nat \ {0}
          /\ mergeThreads > 1 => mergeThreads >= 2 * NextMergeThreads
          /\ mergeThreads = 1 => NextMergeThreads = 1
        <3>1. mergeThreads \div 2 \in Nat /\ mergeThreads >= 2 * (mergeThreads \div 2)
            BY <2>2, SMT
        <3>2. mergeThreads = 1 => mergeThreads \div 2 = 0
            BY SMT
        <3>. QED BY <2>2, <3>1, <3>2 DEF NextMergeThreads, Larger
    <2>4. CASE mergeThreads > 1
        <3>1. StartRound(mergeThreads, NextMergeThreads, mergeVals)
            BY <1>8, <2>4 DEF EndRound
        <3>. QED BY <2>1, <2>2, <2>3, <2>4, <3>1, RoundStep
    <2>5. CASE mergeThreads = 1
        <3>1. /\ phase' = "done" /\ mergeLen' = mergeThreads
              /\ mergeThreads' = mergeThreads /\ merged' = merged
            BY <1>8, <2>2, <2>3, <2>5 DEF EndRound
        <3>2. /\ units' = units /\ pool' = pool
              /\ oneQueue' = oneQueue /\ reduceThreads' = reduceThreads
              /\ reduceTasks' = reduceTasks /\ mapThreads' = mapThreads
            BY <2>1 DEF config
        <3>3. TypeOK'
            BY <2>2, <3>1, <3>2 DEF IInv, TypeOK, Upto
        <3>4. Rounds'
            BY <3>1 DEF Rounds
        <3>. QED BY <3>3, <3>4 DEF IInv
    <2>. QED BY <2>2, <2>4, <2>5
<1>9. CASE UNCHANGED vars
    BY <1>9 DEF vars, config, mergeVars, IInv, TypeOK, Rounds, OutputArrays, Upto
<1>10. CASE Terminated
    BY <1>9, <1>10 DEF Terminated
<1>. QED BY <1>1, <1>2, <1>3, <1>4, <1>5, <1>6, <1>7, <1>8, <1>9, <1>10 DEF Next, Step

(* Every variable keeps its type, for all calls.                           *)
THEOREM TypeCorrect == Spec => []TypeOK
<1>1. IInv => TypeOK
    BY DEF IInv
<1>. QED BY <1>1, Initially, Inductive, PTL DEF Spec

(* In each merge round the threads take all the inputs, each of them once, *)
(* and every thread has inputs, for all numbers of threads and tasks.      *)
THEOREM MergeRoundsCover == Spec => []MergeCovers
<1>1. IInv => MergeCovers
    <2>1. CASE phase = "merge"
        BY <2>1, LongRoundCovers DEF IInv, TypeOK, Rounds
    <2>2. CASE phase # "merge"
        BY <2>2 DEF MergeCovers
    <2>. QED BY <2>1, <2>2
<1>. QED BY <1>1, Initially, Inductive, PTL DEF Spec

-----------------------------------------------------------------------------
(* Order of the keys in the merge rounds.                                  *)

KeysAtMost(a, k) == \A n \in 1 .. Len(a) : a[n][1] <= k

LEMMA AppendSorted ==
    ASSUME NEW a \in Arrays, KeysSorted(a), NEW p \in Int \X Int,
           KeysAtMost(a, p[1])
    PROVE  /\ Append(a, p) \in Arrays
           /\ KeysSorted(Append(a, p))
           /\ \A k \in Int : p[1] <= k => KeysAtMost(Append(a, p), k)
<1>. DEFINE new == Append(a, p)
<1>1. /\ new \in Arrays /\ a \in Seq(Int \X Int)
      /\ Len(new) = Len(a) + 1 /\ Len(a) \in Nat
      /\ \A n \in 1 .. Len(a) : new[n] = a[n]
      /\ new[Len(a) + 1] = p
    BY DEF Arrays
<1>2. \A n \in 1 .. Len(a) : a[n] \in Int \X Int /\ a[n][1] \in Int
    BY <1>1
<1>3. p[1] \in Int
    OBVIOUS
<1>. HIDE DEF new
<1>4. KeysSorted(new)
    <2>. SUFFICES ASSUME NEW i \in 1 .. Len(new), NEW j \in 1 .. Len(new), i < j
                  PROVE  new[i][1] <= new[j][1]
        BY DEF KeysSorted, IsSorted
    <2>1. i \in 1 .. Len(a)
        BY <1>1
    <2>2. CASE j \in 1 .. Len(a)
        BY <1>1, <2>1, <2>2 DEF KeysSorted, IsSorted
    <2>3. CASE j = Len(a) + 1
        BY <1>1, <2>1, <2>3 DEF KeysAtMost
    <2>. QED BY <1>1, <2>2, <2>3
<1>5. ASSUME NEW k \in Int, p[1] <= k
      PROVE  KeysAtMost(new, k)
    <2>. SUFFICES ASSUME NEW n \in 1 .. Len(new)
                  PROVE  new[n][1] <= k
        BY DEF KeysAtMost
    <2>1. CASE n \in 1 .. Len(a)
        <3>1. new[n] = a[n] /\ a[n][1] <= p[1] /\ a[n][1] \in Int
            BY <1>1, <1>2, <2>1 DEF KeysAtMost
        <3>. QED BY <1>3, <1>5, <3>1
    <2>2. CASE n = Len(a) + 1
        BY <1>1, <1>5, <2>2
    <2>. QED BY <1>1, <2>1, <2>2
<1>. QED BY <1>1, <1>4, <1>5 DEF new

(* The inputs of a round are sorted, what a thread has written is sorted,  *)
(* and no key that it has still to read is smaller.                        *)
InputsSorted ==
    /\ mergeIn \in [Upto(mergeLen) -> Arrays]
    /\ mergePos \in [Upto(mergeLen) -> Nat]
    /\ \A i \in Upto(mergeLen) : KeysSorted(mergeIn[i])

OutputsSorted ==
    /\ mergeVals \in [Upto(mergeThreads) -> Arrays]
    /\ \A t \in Upto(mergeThreads) :
          /\ KeysSorted(mergeVals[t])
          /\ \A i \in Live(t) : KeysAtMost(mergeVals[t], HeadOf(i)[1])

SortInv ==
    /\ phase \in {"init", "map"} => final = NoArrays(OutputArrays)
    /\ phase = "reduce" =>
          /\ final \in [Upto(OutputArrays) -> Arrays]
          /\ \A i \in Upto(OutputArrays) : KeysSorted(final[i])
    /\ phase = "merge" => InputsSorted /\ OutputsSorted
    /\ phase = "done" => KeysSorted(result)

LEMMA EmptySorted ==
    ASSUME NEW n
    PROVE  /\ NoArrays(n) \in [Upto(n) -> Arrays]
           /\ \A i \in Upto(n) : NoArrays(n)[i] = <<>> /\ KeysSorted(NoArrays(n)[i])
           /\ \A k : KeysAtMost(<<>>, k)
<1>1. /\ NoArrays(n) \in [Upto(n) -> Arrays]
      /\ \A i \in Upto(n) : NoArrays(n)[i] = <<>>
    BY DEF NoArrays, Arrays
<1>2. KeysSorted(<<>>) /\ \A k : KeysAtMost(<<>>, k)
    BY DEF KeysSorted, IsSorted, KeysAtMost
<1>. QED BY <1>1, <1>2

LEMMA RoundSorted ==
    ASSUME NEW len \in Nat, NEW threads \in Nat \ {0},
           NEW input \in [Upto(len) -> Arrays],
           \A i \in Upto(len) : KeysSorted(input[i]),
           StartRound(len, threads, input)
    PROVE  SortInv'
<1>1. /\ mergeLen' = len /\ mergeThreads' = threads /\ mergeIn' = input
      /\ mergePos' = [i \in Upto(len) |-> 0]
      /\ mergeVals' = NoArrays(threads)
      /\ phase' \in {"merge", "aborted"}
    BY DEF StartRound, StartWorkers
<1>2. InputsSorted'
    BY <1>1 DEF InputsSorted, Upto
<1>3. OutputsSorted'
    <2>1. mergeVals' \in [Upto(threads) -> Arrays]
        BY <1>1, EmptySorted
    <2>2. \A t \in Upto(threads) : mergeVals'[t] = <<>> /\ KeysSorted(mergeVals'[t])
        BY <1>1, EmptySorted
    <2>3. \A k : KeysAtMost(<<>>, k)
        BY EmptySorted
    <2>. QED BY <1>1, <2>1, <2>2, <2>3 DEF OutputsSorted, Upto
<1>. QED BY <1>1, <1>2, <1>3 DEF SortInv

(* One iteration of merge_results: the smallest head is appended to the    *)
(* output of the thread, and the other threads read other inputs.          *)
LEMMA MergeStepSorted ==
    ASSUME IInv, InputsSorted, OutputsSorted, phase = "merge",
           NEW t \in Upto(mergeThreads), MergeStep(t)
    PROVE  SortInv'
<1>1. PICK i \in Live(t) :
          /\ \A j \in Live(t) : \/ HeadOf(i)[1] < HeadOf(j)[1]
                                \/ HeadOf(i)[1] = HeadOf(j)[1] /\ i <= j
          /\ mergeVals' = [mergeVals EXCEPT ![t] = Append(@, HeadOf(i))]
          /\ mergePos' = [mergePos EXCEPT ![i] = @ + 1]
    BY DEF MergeStep
<1>2. /\ phase' = "merge" /\ mergeThreads' = mergeThreads
      /\ mergeLen' = mergeLen /\ mergeIn' = mergeIn
    BY DEF MergeStep
<1>3. /\ \A s \in Upto(mergeThreads) : Inputs(s) \subseteq Upto(mergeLen)
      /\ \A s \in Upto(mergeThreads) \ {t} : i \notin Inputs(s)
      /\ i \in Upto(mergeLen)
    <2>1. MergeCovers
        BY LongRoundCovers DEF IInv, TypeOK, Rounds
    <2>2. i \in Inputs(t) /\ i \in Upto(mergeLen)
        BY <2>1 DEF MergeCovers, Live
    <2>. QED BY <2>1, <2>2 DEF MergeCovers
<1>4. \A s : Inputs(s)' = Inputs(s)
    BY <1>2 DEF Inputs, First, Count, Length, ModLen, ShortRound
<1>5. InputsSorted'
    BY <1>1, <1>2, <1>3 DEF InputsSorted
<1>6. ASSUME NEW j \in Upto(mergeLen), mergePos[j] < Len(mergeIn[j])
      PROVE  HeadOf(j) \in Int \X Int /\ HeadOf(j)[1] \in Int
    <2>1. mergeIn[j] \in Seq(Int \X Int) /\ mergePos[j] \in Nat
        BY DEF InputsSorted, Arrays
    <2>2. mergePos[j] + 1 \in 1 .. Len(mergeIn[j])
        BY <1>6, <2>1
    <2>. QED BY <2>1, <2>2 DEF HeadOf
<1>7. HeadOf(i) \in Int \X Int /\ HeadOf(i)[1] \in Int
    BY <1>3, <1>6 DEF Live
<1>8. /\ mergeVals[t] \in Arrays /\ KeysSorted(mergeVals[t])
      /\ KeysAtMost(mergeVals[t], HeadOf(i)[1])
    BY DEF OutputsSorted
<1>9. /\ mergeVals'[t] \in Arrays /\ KeysSorted(mergeVals'[t])
      /\ \A k \in Int : HeadOf(i)[1] <= k => KeysAtMost(mergeVals'[t], k)
    <2>1. mergeVals'[t] = Append(mergeVals[t], HeadOf(i))
        BY <1>1 DEF OutputsSorted
    <2>. QED BY <1>7, <1>8, <2>1, AppendSorted
<1>10. ASSUME NEW j \in Live(t)'
       PROVE  HeadOf(j)'[1] \in Int /\ HeadOf(i)[1] <= HeadOf(j)'[1]
    <2>1. j \in Inputs(t) /\ j \in Upto(mergeLen) /\ mergePos'[j] < Len(mergeIn[j])
        BY <1>2, <1>3, <1>4 DEF Live
    <2>2. CASE j = i
        <3>1. /\ mergeIn[i] \in Seq(Int \X Int) /\ KeysSorted(mergeIn[i])
              /\ mergePos[i] \in Nat /\ mergePos'[i] = mergePos[i] + 1
            BY <1>1, <1>3 DEF InputsSorted, Arrays
        <3>2. /\ mergePos[i] + 1 \in 1 .. Len(mergeIn[i])
              /\ mergePos[i] + 2 \in 1 .. Len(mergeIn[i])
              /\ mergePos'[i] + 1 = mergePos[i] + 2
              /\ mergePos[i] + 1 < mergePos[i] + 2
            <4>1. mergePos[i] + 1 < Len(mergeIn[i]) /\ Len(mergeIn[i]) \in Nat
                BY <2>1, <2>2, <3>1
            <4>2. mergePos[i] \in Nat /\ mergePos'[i] = mergePos[i] + 1
                BY <3>1
            <4>. QED BY <4>1, <4>2
        <3>3. HeadOf(i) = mergeIn[i][mergePos[i] + 1]
              /\ HeadOf(i)' = mergeIn[i][mergePos[i] + 2]
            BY <1>2, <3>2 DEF HeadOf
        <3>4. mergeIn[i][mergePos[i] + 1][1] <= mergeIn[i][mergePos[i] + 2][1]
            BY <3>1, <3>2 DEF KeysSorted, IsSorted
        <3>5. mergeIn[i][mergePos[i] + 2][1] \in Int
            <4>1. \A n \in 1 .. Len(mergeIn[i]) : mergeIn[i][n] \in Int \X Int
                BY <3>1
            <4>2. mergeIn[i][mergePos[i] + 2] \in Int \X Int
                BY <3>2, <4>1
            <4>. QED BY <4>2
        <3>. QED BY <2>2, <3>3, <3>4, <3>5
    <2>3. CASE j # i
        <3>1. mergePos'[j] = mergePos[j]
            BY <1>1, <2>1, <2>3 DEF InputsSorted
        <3>2. HeadOf(j)' = HeadOf(j) /\ j \in Live(t)
            BY <1>2, <2>1, <3>1 DEF HeadOf, Live
        <3>3. HeadOf(j)[1] \in Int
            BY <1>6, <2>1, <3>1
        <3>. QED BY <1>1, <1>7, <3>2, <3>3
    <2>. QED BY <2>2, <2>3
<1>11. ASSUME NEW s \in Upto(mergeThreads), s # t
       PROVE  /\ mergeVals'[s] = mergeVals[s]
              /\ Live(s)' = Live(s)
              /\ \A j \in Live(s) : HeadOf(j)' = HeadOf(j)
    <2>1. mergeVals'[s] = mergeVals[s]
        BY <1>1, <1>11 DEF OutputsSorted
    <2>2. \A j \in Inputs(s) : mergePos'[j] = mergePos[j]
        BY <1>1, <1>3, <1>11 DEF InputsSorted
    <2>. QED BY <1>2, <1>4, <2>1, <2>2 DEF Live, HeadOf
<1>12. OutputsSorted'
    <2>1. mergeVals' \in [Upto(mergeThreads) -> Arrays]
        BY <1>1, <1>9 DEF OutputsSorted
    <2>2. ASSUME NEW s \in Upto(mergeThreads)
          PROVE  /\ KeysSorted(mergeVals'[s])
                 /\ \A j \in Live(s)' : KeysAtMost(mergeVals'[s], HeadOf(j)'[1])
        <3>1. CASE s = t
            BY <1>9, <1>10, <3>1
        <3>2. CASE s # t
            BY <1>11, <3>2 DEF OutputsSorted
        <3>. QED BY <3>1, <3>2
    <2>. QED BY <1>2, <2>1, <2>2 DEF OutputsSorted, Upto
<1>. QED BY <1>2, <1>5, <1>12 DEF SortInv

-----------------------------------------------------------------------------
(* gen_reduce_tasks computes the remainder with the number of map threads. *)
(* That is harmless when there are no more of them than reduce threads,    *)
(* and the map stage only ever lowers their number.                        *)

LEMMA AllQueued ==
    ASSUME reduceTasks \in Nat \ {0}, reduceThreads \in Nat \ {0},
           mapThreads \in Nat, mapThreads <= reduceThreads
    PROVE  EveryTaskQueued
<1>. DEFINE share == reduceTasks \div reduceThreads
            rest == reduceTasks % reduceThreads
            leftover == reduceTasks - share * mapThreads
            extra == Smaller(Larger(leftover, 0), reduceThreads)
<1>1. /\ share \in Nat
      /\ rest \in Nat
      /\ rest < reduceThreads
      /\ reduceTasks = (reduceThreads * share) + rest
    BY Division
<1>2. QueuedTasks = IF share = 0 THEN reduceTasks
                    ELSE Smaller(share * reduceThreads + extra, reduceTasks)
    BY DEF QueuedTasks
<1>. HIDE DEF share, rest
<1>3. /\ share * mapThreads \in Nat
      /\ share * mapThreads <= share * reduceThreads
      /\ share * reduceThreads = reduceThreads * share
      /\ share * reduceThreads \in Nat
    BY <1>1, SMT
<1>4. leftover \in Nat /\ rest <= leftover
    BY <1>1, <1>3
<1>. HIDE DEF leftover
<1>5. rest <= extra /\ extra \in Nat
    BY <1>1, <1>4 DEF Smaller, Larger
<1>. HIDE DEF extra
<1>6. Smaller(share * reduceThreads + extra, reduceTasks) = reduceTasks
    BY <1>1, <1>3, <1>5 DEF Smaller
<1>. QED BY <1>2, <1>6 DEF EveryTaskQueued

LEMMA MapThreadsShrink ==
    ASSUME IInv, [Next]_vars
    PROVE  /\ mapThreads' \in Nat
           /\ mapThreads' <= mapThreads
           /\ reduceThreads' = reduceThreads
<1>1. mapThreads \in Nat /\ units \in Nat
    BY DEF IInv, TypeOK
<1>2. CASE StartMap
    <2>1. /\ mapThreads' = Smaller(mapThreads, Cardinality(MapTasks))
          /\ reduceThreads' = reduceThreads
        BY <1>2 DEF StartMap, config
    <2>2. Cardinality(MapTasks) \in Nat
        BY <1>1, TasksFinite, TasksAssumption
    <2>. QED BY <1>1, <2>1, <2>2 DEF Smaller
<1>3. CASE ~StartMap
    <2>1. mapThreads' = mapThreads /\ reduceThreads' = reduceThreads
        BY <1>3 DEF Next, Step, MapTask, StartReduce, ReduceTask, StartMerge,
                    MergeStep, MergeEnd, EndRound, Terminated, vars, config
    <2>. QED BY <1>1, <2>1
<1>. QED BY <1>2, <1>3

(* If no call has more map threads than reduce threads, every bucket is    *)
(* given a reduce task.                                                    *)
THEOREM NoBucketLost ==
    ASSUME \A a \in Args : a.mapThreads <= a.reduceThreads
    PROVE  Spec => []EveryTaskQueued
<1>. DEFINE Inv == IInv /\ mapThreads <= reduceThreads
<1>1. Init => Inv
    BY Initially DEF Init
<1>2. Inv /\ [Next]_vars => Inv'
    <2>. SUFFICES ASSUME Inv, [Next]_vars PROVE Inv'
        OBVIOUS
    <2>1. IInv'
        BY Inductive
    <2>2. mapThreads \in Nat /\ reduceThreads \in Nat
        BY DEF IInv, TypeOK
    <2>3. mapThreads' <= reduceThreads'
        BY <2>2, MapThreadsShrink
    <2>. QED BY <2>1, <2>3
<1>3. Inv => EveryTaskQueued
    BY AllQueued DEF IInv, TypeOK
<1>. QED BY <1>1, <1>2, <1>3, PTL DEF Spec

-----------------------------------------------------------------------------
(* Arrays of pairs.  An array has unit u if one of its pairs is of u, and  *)
(* has it at most once if no two are; these are facts of any function.     *)

Has(s, u) == \E n \in DOMAIN s : s[n][2] = u
Single(s, u) ==
    \A m \in DOMAIN s : \A n \in DOMAIN s : s[m][2] = u /\ s[n][2] = u => m = n

(* Array r has the pairs of a and those of o.                              *)
Gathers(r, a, o) ==
    \A u : /\ Has(r, u) <=> Has(a, u) \/ Has(o, u)
           /\ Single(a, u) /\ Single(o, u) /\ ~(Has(a, u) /\ Has(o, u)) => Single(r, u)

LEMMA ArrayElements ==
    ASSUME NEW a \in Arrays
    PROVE  /\ a \in Seq(Int \X Int) /\ Len(a) \in Nat /\ DOMAIN a = 1 .. Len(a)
           /\ \A n \in 1 .. Len(a) : a[n] \in Int \X Int /\ a[n][1] \in Int
<1>1. a \in Seq(Int \X Int) /\ Len(a) \in Nat /\ DOMAIN a = 1 .. Len(a)
    BY DEF Arrays
<1>2. \A n \in 1 .. Len(a) : a[n] \in Int \X Int
    BY <1>1
<1>. QED BY <1>1, <1>2

LEMMA ArrayIs ==
    ASSUME NEW n \in Nat, NEW f \in [1 .. n -> Int \X Int]
    PROVE  f \in Arrays /\ Len(f) = n /\ DOMAIN f = 1 .. n
    BY DEF Arrays

LEMMA ConcatElements ==
    ASSUME NEW a \in Arrays, NEW o \in Arrays
    PROVE  /\ a \o o \in Arrays
           /\ Len(a \o o) = Len(a) + Len(o)
           /\ \A n \in 1 .. Len(a) : (a \o o)[n] = a[n]
           /\ \A n \in 1 .. Len(o) : (a \o o)[Len(a) + n] = o[n]
    BY Concat DEF Arrays

LEMMA ConcatGathers ==
    ASSUME NEW a \in Arrays, NEW o \in Arrays
    PROVE  a \o o \in Arrays /\ Gathers(a \o o, a, o)
<1>1. PICK l \in Nat, m \in Nat : l = Len(a) /\ m = Len(o)
    BY ArrayElements
<1>2. PICK r : r = a \o o
    OBVIOUS
<1>3. /\ r \in Arrays /\ DOMAIN r = 1 .. l + m /\ DOMAIN a = 1 .. l /\ DOMAIN o = 1 .. m
      /\ \A n \in 1 .. l : r[n] = a[n]
      /\ \A n \in 1 .. m : r[l + n] = o[n]
    BY <1>1, <1>2, ConcatElements, ArrayElements
<1>4. \A n \in 1 .. l + m : n \in 1 .. l \/ (n - l \in 1 .. m /\ l + (n - l) = n)
    OBVIOUS
<1>5. \A n \in 1 .. m : l + n \in 1 .. l + m
    OBVIOUS
<1>6. \A n \in 1 .. l : n \in 1 .. l + m
    OBVIOUS
<1>7. \A n \in 1 .. l + m : \/ n \in 1 .. l /\ r[n] = a[n]
                            \/ n - l \in 1 .. m /\ r[n] = o[n - l]
    BY <1>3, <1>4
<1>8. ASSUME NEW u
      PROVE  Has(r, u) <=> Has(a, u) \/ Has(o, u)
    <2>1. Has(r, u) => Has(a, u) \/ Has(o, u)
        BY <1>3, <1>7 DEF Has
    <2>2. Has(a, u) => Has(r, u)
        BY <1>3, <1>6 DEF Has
    <2>3. Has(o, u) => Has(r, u)
        BY <1>3, <1>5 DEF Has
    <2>. QED BY <2>1, <2>2, <2>3
<1>9. ASSUME NEW u, Single(a, u), Single(o, u), ~(Has(a, u) /\ Has(o, u))
      PROVE  Single(r, u)
    <2>. SUFFICES ASSUME NEW i \in 1 .. l + m, NEW j \in 1 .. l + m,
                         r[i][2] = u, r[j][2] = u
                  PROVE  i = j
        BY <1>3 DEF Single
    <2>1. CASE i \in 1 .. l /\ j \in 1 .. l
        BY <1>3, <1>9, <2>1 DEF Single
    <2>2. CASE i \notin 1 .. l /\ j \notin 1 .. l
        <3>1. i - l \in 1 .. m /\ j - l \in 1 .. m /\ o[i - l][2] = u /\ o[j - l][2] = u
            BY <1>7, <2>2
        <3>2. i - l = j - l
            BY <1>3, <1>9, <3>1 DEF Single
        <3>. QED BY <3>2
    <2>3. ASSUME NEW x \in 1 .. l + m, NEW y \in 1 .. l + m,
                 x \in 1 .. l, y \notin 1 .. l, r[x][2] = u, r[y][2] = u
          PROVE  FALSE
        <3>1. x \in DOMAIN a /\ a[x][2] = u
            BY <1>3, <2>3
        <3>2. y - l \in DOMAIN o /\ o[y - l][2] = u
            BY <1>3, <1>7, <2>3
        <3>. QED BY <1>9, <3>1, <3>2, Zenon DEF Has
    <2>4. ~(i \in 1 .. l /\ j \notin 1 .. l) /\ ~(i \notin 1 .. l /\ j \in 1 .. l)
        BY <2>3
    <2>. QED BY <2>1, <2>2, <2>3, <2>4
<1>. QED BY <1>2, <1>3, <1>8, <1>9 DEF Gathers

(* Array r is a with pair p in the place k.                                *)
Inserted(r, a, k, p) ==
    /\ r \in Arrays /\ Len(r) = Len(a) + 1
    /\ \A n \in 1 .. k - 1 : r[n] = a[n]
    /\ r[k] = p
    /\ \A n \in k .. Len(a) : r[n + 1] = a[n]

LEMMA InsertedElements ==
    ASSUME NEW a \in Arrays, NEW k \in 1 .. Len(a) + 1, NEW p \in Int \X Int, NEW r,
           Inserted(r, a, k, p)
    PROVE  /\ DOMAIN a = 1 .. Len(a) /\ DOMAIN r = 1 .. Len(a) + 1 /\ Len(a) \in Nat
           /\ \A n \in 1 .. Len(a) + 1 : \/ n < k /\ n \in 1 .. Len(a) /\ r[n] = a[n]
                                         \/ n = k /\ r[n] = p
                                         \/ n > k /\ n - 1 \in 1 .. Len(a) /\ r[n] = a[n - 1]
           /\ \A n \in 1 .. Len(a) : \/ n < k /\ r[n] = a[n]
                                     \/ n >= k /\ r[n + 1] = a[n]
<1>1. PICK l \in Nat : l = Len(a)
    BY ArrayElements
<1>2. k \in 1 .. l + 1
    BY <1>1
<1>3. /\ r \in Arrays /\ Len(r) = l + 1 /\ r[k] = p
      /\ \A n \in 1 .. k - 1 : r[n] = a[n]
      /\ \A n \in k .. l : r[n + 1] = a[n]
    BY <1>1 DEF Inserted
<1>4. DOMAIN a = 1 .. l /\ DOMAIN r = 1 .. l + 1
    BY <1>1, <1>3, ArrayElements
<1>5. ASSUME NEW n \in 1 .. l + 1
      PROVE  \/ n < k /\ n \in 1 .. l /\ r[n] = a[n]
             \/ n = k /\ r[n] = p
             \/ n > k /\ n - 1 \in 1 .. l /\ r[n] = a[n - 1]
    <2>1. CASE n < k
        <3>1. n \in 1 .. k - 1 /\ n \in 1 .. l
            BY <1>2, <2>1
        <3>. QED BY <1>3, <2>1, <3>1
    <2>2. CASE n > k
        <3>1. n - 1 \in k .. l /\ n - 1 \in 1 .. l /\ (n - 1) + 1 = n
            BY <1>2, <2>2
        <3>2. r[(n - 1) + 1] = a[n - 1]
            BY <1>3, <3>1
        <3>. QED BY <2>2, <3>1, <3>2
    <2>3. n < k \/ n = k \/ n > k
        BY <1>2
    <2>. QED BY <1>3, <2>1, <2>2, <2>3
<1>6. ASSUME NEW n \in 1 .. l
      PROVE  \/ n < k /\ r[n] = a[n]
             \/ n >= k /\ r[n + 1] = a[n]
    <2>1. n \in 1 .. k - 1 \/ n \in k .. l
        BY <1>2
    <2>2. n \in 1 .. k - 1 => n < k
        BY <1>2
    <2>3. n \in k .. l => n >= k
        BY <1>2
    <2>. QED BY <1>3, <2>1, <2>2, <2>3
<1>. QED BY <1>1, <1>4, <1>5, <1>6

LEMMA InsertedGathers ==
    ASSUME NEW a \in Arrays, NEW k \in 1 .. Len(a) + 1, NEW p \in Int \X Int, NEW r,
           Inserted(r, a, k, p)
    PROVE  Gathers(r, a, <<p>>)
<1>1. PICK l \in Nat : l = Len(a)
    BY ArrayElements
<1>2. k \in 1 .. l + 1 /\ r[k] = p
    BY <1>1 DEF Inserted
<1>3. /\ DOMAIN a = 1 .. l /\ DOMAIN r = 1 .. l + 1
      /\ \A n \in 1 .. l + 1 : \/ n < k /\ n \in 1 .. l /\ r[n] = a[n]
                               \/ n = k /\ r[n] = p
                               \/ n > k /\ n - 1 \in 1 .. l /\ r[n] = a[n - 1]
      /\ \A n \in 1 .. l : \/ n < k /\ r[n] = a[n]
                           \/ n >= k /\ r[n + 1] = a[n]
    <2>1. /\ DOMAIN a = 1 .. Len(a) /\ DOMAIN r = 1 .. Len(a) + 1
          /\ \A n \in 1 .. Len(a) + 1 : \/ n < k /\ n \in 1 .. Len(a) /\ r[n] = a[n]
                                        \/ n = k /\ r[n] = p
                                        \/ n > k /\ n - 1 \in 1 .. Len(a) /\ r[n] = a[n - 1]
          /\ \A n \in 1 .. Len(a) : \/ n < k /\ r[n] = a[n]
                                    \/ n >= k /\ r[n + 1] = a[n]
        BY InsertedElements
    <2>. QED BY <1>1, <2>1
<1>4. \A n \in 1 .. l : n \in 1 .. l + 1 /\ n + 1 \in 1 .. l + 1
    OBVIOUS
<1>5. \A u : Has(<<p>>, u) <=> p[2] = u
    <2>1. DOMAIN <<p>> = {1} /\ <<p>>[1] = p
        OBVIOUS
    <2>. QED BY <2>1 DEF Has
<1>6. ASSUME NEW u
      PROVE  Has(r, u) <=> Has(a, u) \/ p[2] = u
    <2>1. Has(r, u) => Has(a, u) \/ p[2] = u
        <3>. SUFFICES ASSUME NEW n \in 1 .. l + 1, r[n][2] = u
                      PROVE  Has(a, u) \/ p[2] = u
            BY <1>3 DEF Has
        <3>1. \/ n \in DOMAIN a /\ r[n] = a[n]
              \/ r[n] = p
              \/ n - 1 \in DOMAIN a /\ r[n] = a[n - 1]
            BY <1>3
        <3>. QED BY <3>1 DEF Has
    <2>2. Has(a, u) => Has(r, u)
        <3>. SUFFICES ASSUME NEW n \in 1 .. l, a[n][2] = u
                      PROVE  Has(r, u)
            BY <1>3 DEF Has
        <3>1. r[n][2] = u \/ r[n + 1][2] = u
            BY <1>3
        <3>. QED BY <1>3, <1>4, <3>1 DEF Has
    <2>3. p[2] = u => Has(r, u)
        BY <1>2, <1>3 DEF Has
    <2>. QED BY <2>1, <2>2, <2>3
<1>7. ASSUME NEW u, Single(a, u), ~(Has(a, u) /\ p[2] = u)
      PROVE  Single(r, u)
    <2>. SUFFICES ASSUME NEW i \in 1 .. l + 1, NEW j \in 1 .. l + 1,
                         r[i][2] = u, r[j][2] = u
                  PROVE  i = j
        BY <1>3 DEF Single
    <2>. DEFINE old(n) == IF n < k THEN n ELSE n - 1
    <2>1. CASE i = k \/ j = k
        <3>1. p[2] = u /\ ~Has(a, u)
            BY <1>2, <1>7, <2>1
        <3>2. ASSUME NEW n \in 1 .. l + 1, r[n][2] = u
              PROVE  n = k
            <4>1. \/ n \in DOMAIN a /\ r[n] = a[n]
                  \/ n = k
                  \/ n - 1 \in DOMAIN a /\ r[n] = a[n - 1]
                BY <1>3
            <4>. QED BY <3>1, <3>2, <4>1 DEF Has
        <3>. QED BY <3>2
    <2>2. CASE i # k /\ j # k
        <3>1. /\ old(i) \in 1 .. l /\ a[old(i)][2] = u
              /\ old(j) \in 1 .. l /\ a[old(j)][2] = u
            <4>1. old(i) \in 1 .. l /\ r[i] = a[old(i)]
                BY <1>2, <1>3, <2>2
            <4>2. old(j) \in 1 .. l /\ r[j] = a[old(j)]
                BY <1>2, <1>3, <2>2
            <4>. QED BY <4>1, <4>2
        <3>. HIDE DEF old
        <3>2. old(i) = old(j)
            BY <1>3, <1>7, <3>1 DEF Single
        <3>. QED BY <1>2, <2>2, <3>2 DEF old
    <2>. QED BY <2>1, <2>2
<1>. QED BY <1>5, <1>6, <1>7 DEF Gathers

LEMMA InsertedSorted ==
    ASSUME NEW a \in Arrays, NEW k \in 1 .. Len(a) + 1, NEW p \in Int \X Int, NEW r,
           Inserted(r, a, k, p), KeysSorted(a),
           \A n \in 1 .. Len(a) : /\ n < k => a[n][1] <= p[1]
                                  /\ n >= k => p[1] <= a[n][1]
    PROVE  KeysSorted(r)
<1>1. PICK l \in Nat : l = Len(a)
    BY ArrayElements
<1>2. k \in 1 .. l + 1 /\ Len(r) = l + 1 /\ p[1] \in Int
    BY <1>1 DEF Inserted
<1>3. \A n \in 1 .. l + 1 : \/ n < k /\ n \in 1 .. l /\ r[n] = a[n]
                            \/ n = k /\ r[n] = p
                            \/ n > k /\ n - 1 \in 1 .. l /\ r[n] = a[n - 1]
    BY <1>1, InsertedElements
<1>4. \A n \in 1 .. l : /\ a[n][1] \in Int
                        /\ n < k => a[n][1] <= p[1]
                        /\ n >= k => p[1] <= a[n][1]
    BY <1>1, ArrayElements
<1>5. \A m \in 1 .. l : \A n \in 1 .. l : m < n => a[m][1] <= a[n][1]
    BY <1>1 DEF KeysSorted, IsSorted
<1>. SUFFICES ASSUME NEW i \in 1 .. l + 1, NEW j \in 1 .. l + 1, i < j
              PROVE  r[i][1] <= r[j][1]
    BY <1>2 DEF KeysSorted, IsSorted
<1>6. CASE j < k
    <2>1. i < k
        BY <1>2, <1>6
    <2>2. i \in 1 .. l /\ r[i] = a[i] /\ j \in 1 .. l /\ r[j] = a[j]
        BY <1>3, <1>6, <2>1, <1>2
    <2>. QED BY <1>5, <2>2
<1>7. CASE i < k /\ j = k
    <2>1. i \in 1 .. l /\ r[i] = a[i] /\ r[j] = p
        BY <1>2, <1>3, <1>7
    <2>. QED BY <1>4, <1>7, <2>1
<1>8. CASE i < k /\ j > k
    <2>1. i \in 1 .. l /\ r[i] = a[i] /\ j - 1 \in 1 .. l /\ r[j] = a[j - 1]
        BY <1>2, <1>3, <1>8
    <2>2. j - 1 >= k
        BY <1>2, <1>8
    <2>3. /\ a[i][1] <= p[1] /\ p[1] <= a[j - 1][1]
          /\ a[i][1] \in Int /\ a[j - 1][1] \in Int
        BY <1>4, <1>8, <2>1, <2>2
    <2>4. a[i][1] <= a[j - 1][1]
        BY <1>2, <2>3
    <2>. QED BY <2>1, <2>4
<1>9. CASE i = k /\ j > k
    <2>1. r[i] = p /\ j - 1 \in 1 .. l /\ r[j] = a[j - 1]
        BY <1>2, <1>3, <1>9
    <2>2. j - 1 >= k
        BY <1>2, <1>9
    <2>. QED BY <1>4, <2>1, <2>2
<1>10. CASE i > k /\ j > k
    <2>1. i - 1 \in 1 .. l /\ r[i] = a[i - 1] /\ j - 1 \in 1 .. l /\ r[j] = a[j - 1]
        BY <1>2, <1>3, <1>10
    <2>2. i - 1 < j - 1
        OBVIOUS
    <2>. QED BY <1>5, <2>1, <2>2
<1>. QED BY <1>2, <1>6, <1>7, <1>8, <1>9, <1>10

LEMMA InsertAtIs ==
    ASSUME NEW a \in Arrays, NEW k \in 1 .. Len(a) + 1, NEW p \in Int \X Int
    PROVE  Inserted(InsertAt(a, k, p), a, k, p)
<1>1. PICK S : S = Int \X Int
    OBVIOUS
<1>2. a \in Seq(S) /\ p \in S /\ Arrays = Seq(S)
    BY <1>1 DEF Arrays
<1>3. PutIn(InsertAt(a, k, p), S, a, k, p)
    BY <1>2, InsertAtPuts
<1>. QED BY <1>2, <1>3 DEF PutIn, Inserted

(* insert_keyval puts the pair where it belongs in a sorted array.         *)
LEMMA InsertIs ==
    ASSUME NEW a \in Arrays, KeysSorted(a), NEW p \in Int \X Int
    PROVE  \E k \in 1 .. Len(a) + 1 :
              /\ Inserted(Insert(a, p), a, k, p)
              /\ \A n \in 1 .. Len(a) : /\ n < k => a[n][1] <= p[1]
                                        /\ n >= k => p[1] <= a[n][1]
<1>1. PICK l \in Nat : l = Len(a)
    BY ArrayElements
<1>2. /\ DOMAIN a = 1 .. l /\ p[1] \in Int
      /\ \A n \in 1 .. l : a[n][1] \in Int
      /\ \A m \in 1 .. l : \A n \in 1 .. l : m < n => a[m][1] <= a[n][1]
    BY <1>1, ArrayElements DEF KeysSorted, IsSorted
<1>3. PICK c \in 0 .. l : /\ \A n \in 1 .. c : a[n][1] <= p[1]
                          /\ \A n \in c + 1 .. l : a[n][1] > p[1]
    <2>. DEFINE S == {n \in 1 .. l : a[n][1] > p[1]}
    <2>1. CASE S = {}
        <3>1. \A n \in 1 .. l : a[n][1] <= p[1]
            BY <1>2, <2>1
        <3>2. l \in 0 .. l /\ \A n \in l + 1 .. l : FALSE
            OBVIOUS
        <3>. QED BY <3>1, <3>2
    <2>2. CASE S # {}
        <3>1. PICK m \in S : \A n \in S : m <= n
            BY <2>2, Least, S \in SUBSET Nat
        <3>2. m \in 1 .. l /\ a[m][1] > p[1]
            OBVIOUS
        <3>3. ASSUME NEW n \in 1 .. m - 1
              PROVE  a[n][1] <= p[1]
            <4>1. n \in 1 .. l /\ ~(m <= n)
                BY <3>2
            <4>2. n \notin S
                BY <3>1, <4>1
            <4>. QED BY <1>2, <4>1, <4>2
        <3>4. ASSUME NEW n \in (m - 1) + 1 .. l
              PROVE  a[n][1] > p[1]
            <4>1. n \in 1 .. l /\ (n = m \/ m < n)
                BY <3>2
            <4>2. a[n][1] \in Int /\ a[m][1] \in Int /\ a[m][1] <= a[n][1]
                BY <1>2, <3>2, <4>1
            <4>. QED BY <1>2, <3>2, <4>2
        <3>5. m - 1 \in 0 .. l
            BY <3>2
        <3>. QED BY <3>3, <3>4, <3>5
    <2>. QED BY <2>1, <2>2
<1>4. Cardinality({i \in DOMAIN a : a[i][1] <= p[1]}) = c
    <2>1. ASSUME NEW i \in 1 .. l
          PROVE  a[i][1] <= p[1] <=> i \in 1 .. c
        <3>1. i \in 1 .. c \/ i \in c + 1 .. l
            OBVIOUS
        <3>2. i \in c + 1 .. l => ~(a[i][1] <= p[1]) /\ i \notin 1 .. c
            BY <1>2, <1>3
        <3>. QED BY <1>3, <3>1, <3>2
    <2>2. {i \in DOMAIN a : a[i][1] <= p[1]} = 1 .. c
        BY <1>2, <2>1
    <2>3. Cardinality(1 .. c) = c
        BY FS_Interval
    <2>. QED BY <2>2, <2>3
<1>5. Insert(a, p) = IF c = l THEN Append(a, p)
                     ELSE IF c > 0 /\ a[c][1] = p[1] THEN InsertAt(a, c, p)
                     ELSE InsertAt(a, c + 1, p)
    BY <1>1, <1>4 DEF Insert
<1>6. CASE c = l
    <2>1. /\ Append(a, p) \in Arrays /\ Len(Append(a, p)) = l + 1
          /\ \A n \in 1 .. l : Append(a, p)[n] = a[n]
          /\ Append(a, p)[l + 1] = p
        BY <1>1 DEF Arrays
    <2>2. (l + 1) - 1 = l /\ \A n \in l + 1 .. l : FALSE
        OBVIOUS
    <2>3. Inserted(Append(a, p), a, l + 1, p)
        BY <1>1, <2>1, <2>2 DEF Inserted
    <2>4. \A n \in 1 .. l : /\ n < l + 1 => a[n][1] <= p[1]
                            /\ ~(n >= l + 1)
        BY <1>3, <1>6
    <2>5. l + 1 \in 1 .. l + 1
        OBVIOUS
    <2>. QED BY <1>1, <1>5, <1>6, <2>3, <2>4, <2>5
<1>7. CASE c # l /\ c > 0 /\ a[c][1] = p[1]
    <2>1. c \in 1 .. l + 1 /\ c \in 1 .. l
        BY <1>7
    <2>2. Inserted(InsertAt(a, c, p), a, c, p)
        BY <1>1, <2>1, InsertAtIs
    <2>3. ASSUME NEW n \in 1 .. l
          PROVE  /\ n < c => a[n][1] <= p[1]
                 /\ n >= c => p[1] <= a[n][1]
        <3>1. n < c => n \in 1 .. c
            OBVIOUS
        <3>2. n >= c => n = c \/ c < n
            OBVIOUS
        <3>3. a[c][1] \in Int /\ a[n][1] \in Int
            BY <1>2, <2>1
        <3>4. n >= c => p[1] <= a[n][1]
            BY <1>2, <1>7, <2>1, <3>2, <3>3
        <3>. QED BY <1>3, <3>1, <3>4
    <2>. QED BY <1>1, <1>5, <1>7, <2>1, <2>2, <2>3
<1>8. CASE c # l /\ ~(c > 0 /\ a[c][1] = p[1])
    <2>1. c + 1 \in 1 .. l + 1
        BY <1>8
    <2>2. Inserted(InsertAt(a, c + 1, p), a, c + 1, p)
        BY <1>1, <2>1, InsertAtIs
    <2>3. ASSUME NEW n \in 1 .. l
          PROVE  /\ n < c + 1 => a[n][1] <= p[1]
                 /\ n >= c + 1 => p[1] <= a[n][1]
        <3>1. n < c + 1 => n \in 1 .. c
            OBVIOUS
        <3>2. n >= c + 1 => n \in c + 1 .. l
            OBVIOUS
        <3>3. n >= c + 1 => p[1] <= a[n][1]
            <4>1. a[n][1] \in Int
                BY <1>2
            <4>. QED BY <1>2, <1>3, <3>2, <4>1
        <3>. QED BY <1>3, <3>1, <3>3
    <2>. QED BY <1>1, <1>5, <1>8, <2>1, <2>2, <2>3
<1>. QED BY <1>6, <1>7, <1>8

(* A reduce worker that inserts the pairs of o one by one.                 *)
InsertSteps(a, o, N) ==
    CHOOSE f : f = [n \in 0 .. N |-> IF n = 0 THEN a ELSE Insert(f[n - 1], o[n])]

LEMMA InsertStepsExist ==
    ASSUME NEW a, NEW o, NEW N \in Nat
    PROVE  InsertSteps(a, o, N) =
             [n \in 0 .. N |-> IF n = 0 THEN a ELSE Insert(InsertSteps(a, o, N)[n - 1], o[n])]
<1>. DEFINE To(n) == \E f : f = [i \in 0 .. n |-> IF i = 0 THEN a ELSE Insert(f[i - 1], o[i])]
            Bad == {n \in 0 .. N : ~To(n)}
<1>1. To(0)
    <2>. DEFINE g == [i \in 0 .. 0 |-> a]
    <2>1. g = [i \in 0 .. 0 |-> IF i = 0 THEN a ELSE Insert(g[i - 1], o[i])]
        OBVIOUS
    <2>. HIDE DEF g
    <2>. QED BY <2>1
<1>2. ASSUME NEW n \in Nat, To(n)
      PROVE  To(n + 1)
    <2>1. PICK f : f = [i \in 0 .. n |-> IF i = 0 THEN a ELSE Insert(f[i - 1], o[i])]
        BY <1>2
    <2>. DEFINE g == [i \in 0 .. n + 1 |-> IF i <= n THEN f[i] ELSE Insert(f[i - 1], o[i])]
    <2>2. ASSUME NEW i \in 0 .. n + 1
          PROVE  g[i] = IF i = 0 THEN a ELSE Insert(g[i - 1], o[i])
        <3>1. CASE i <= n
            <4>1. g[i] = f[i] /\ (i # 0 => g[i - 1] = f[i - 1]) /\ i \in 0 .. n
                BY <3>1
            <4>2. f[i] = IF i = 0 THEN a ELSE Insert(f[i - 1], o[i])
                BY <2>1, <4>1
            <4>. QED BY <4>1, <4>2
        <3>2. CASE i = n + 1
            <4>1. g[i - 1] = f[i - 1] /\ g[i] = Insert(f[i - 1], o[i]) /\ i # 0
                BY <3>2
            <4>. QED BY <4>1
        <3>. QED BY <3>1, <3>2
    <2>3. g = [i \in 0 .. n + 1 |-> IF i = 0 THEN a ELSE Insert(g[i - 1], o[i])]
        BY <2>2
    <2>. HIDE DEF g
    <2>. QED BY <2>3
<1>. HIDE DEF To
<1>3. Bad = {}
    <2>. SUFFICES ASSUME Bad # {}
                  PROVE  FALSE
        OBVIOUS
    <2>1. PICK n \in Bad : \A m \in Bad : n <= m
        BY Least, Bad \in SUBSET Nat
    <2>2. n \in Nat /\ n # 0 /\ n \in 0 .. N /\ ~To(n)
        BY <1>1
    <2>3. n - 1 \in 0 .. N /\ n - 1 \in Nat /\ ~(n <= n - 1) /\ (n - 1) + 1 = n
        BY <2>2
    <2>4. To(n - 1)
        BY <2>1, <2>3
    <2>. QED BY <1>2, <2>2, <2>3, <2>4
<1>4. To(N)
    BY <1>3
<1>. QED BY <1>4, Zenon DEF To, InsertSteps

LEMMA InsertAllIs ==
    ASSUME NEW a \in Arrays, KeysSorted(a), NEW o \in Arrays
    PROVE  /\ InsertAll(a, o) \in Arrays /\ KeysSorted(InsertAll(a, o))
           /\ Gathers(InsertAll(a, o), a, o)
<1>1. PICK N \in Nat : N = Len(o) /\ DOMAIN o = 1 .. N /\ \A n \in 1 .. N : o[n] \in Int \X Int
    BY ArrayElements
<1>2. PICK f : f = InsertSteps(a, o, N)
    OBVIOUS
<1>3. f = [n \in 0 .. N |-> IF n = 0 THEN a ELSE Insert(f[n - 1], o[n])]
    BY <1>2, InsertStepsExist
<1>4. InsertAll(a, o) = f[N]
    BY <1>1, <1>2 DEF InsertAll, InsertSteps
<1>. DEFINE Begin(n) == [m \in 1 .. n |-> o[m]]
            Good(n) == f[n] \in Arrays /\ KeysSorted(f[n]) /\ Gathers(f[n], a, Begin(n))
            Bad == {n \in 0 .. N : ~Good(n)}
<1>5. f[0] = a /\ \A n \in 1 .. N : f[n] = Insert(f[n - 1], o[n])
    <2>1. 0 \in 0 .. N /\ \A n \in 1 .. N : n \in 0 .. N /\ n # 0
        OBVIOUS
    <2>. QED BY <1>3, <2>1
<1>6. Good(0)
    <2>1. \A u : ~Has(Begin(0), u)
        BY DEF Has
    <2>2. Gathers(a, a, Begin(0))
        BY <2>1 DEF Gathers
    <2>. QED BY <1>5, <2>2
<1>7. ASSUME NEW n \in 1 .. N, Good(n - 1)
      PROVE  Good(n)
    <2>1. PICK b \in Arrays : b = f[n - 1] /\ KeysSorted(b) /\ Gathers(b, a, Begin(n - 1))
        BY <1>7
    <2>2. PICK p \in Int \X Int : p = o[n]
        BY <1>1
    <2>3. PICK r : r = Insert(b, p) /\ r = f[n]
        BY <1>5, <2>1, <2>2
    <2>4. PICK k \in 1 .. Len(b) + 1 :
              /\ Inserted(r, b, k, p)
              /\ \A i \in 1 .. Len(b) : /\ i < k => b[i][1] <= p[1]
                                        /\ i >= k => p[1] <= b[i][1]
        BY <2>1, <2>3, InsertIs
    <2>5. r \in Arrays /\ KeysSorted(r) /\ Gathers(r, b, <<p>>)
        BY <2>1, <2>4, InsertedSorted, InsertedGathers DEF Inserted
    <2>6. /\ DOMAIN Begin(n) = 1 .. n /\ DOMAIN Begin(n - 1) = 1 .. n - 1
          /\ \A m \in 1 .. n - 1 : Begin(n - 1)[m] = o[m]
          /\ \A m \in 1 .. n : Begin(n)[m] = o[m]
          /\ \A m \in 1 .. n : m \in 1 .. n - 1 \/ m = n
          /\ n \in 1 .. n /\ \A m \in 1 .. n - 1 : m \in 1 .. n /\ m # n
        OBVIOUS
    <2>7. PICK x, y : x = Begin(n - 1) /\ y = Begin(n)
        OBVIOUS
    <2>8. /\ DOMAIN y = 1 .. n /\ DOMAIN x = 1 .. n - 1 /\ y[n] = p /\ n \in 1 .. n
          /\ \A m \in 1 .. n - 1 : x[m] = y[m] /\ m \in 1 .. n /\ m # n
          /\ \A m \in 1 .. n : m \in 1 .. n - 1 \/ m = n
        BY <2>2, <2>6, <2>7
    <2>. HIDE DEF Begin
    <2>9. \A u : /\ Has(y, u) <=> Has(x, u) \/ p[2] = u
                 /\ Single(y, u) => Single(x, u) /\ ~(Has(x, u) /\ p[2] = u)
        <3>. TAKE u
        <3>1. Has(y, u) <=> Has(x, u) \/ p[2] = u
            BY <2>8 DEF Has
        <3>2. Single(y, u) => Single(x, u)
            BY <2>8 DEF Single
        <3>3. Single(y, u) => ~(Has(x, u) /\ p[2] = u)
            BY <2>8 DEF Single, Has
        <3>. QED BY <3>1, <3>2, <3>3
    <2>10. \A u : (Has(<<p>>, u) <=> p[2] = u) /\ Single(<<p>>, u)
        <3>1. DOMAIN <<p>> = {1} /\ <<p>>[1] = p
            OBVIOUS
        <3>. QED BY <3>1 DEF Has, Single
    <2>11. Gathers(r, a, y)
        BY <2>1, <2>5, <2>7, <2>9, <2>10, Zenon DEF Gathers
    <2>. QED BY <2>3, <2>5, <2>7, <2>11
<1>8. Good(N)
    <2>. HIDE DEF Good
    <2>1. CASE Bad = {}
        BY <2>1
    <2>2. CASE Bad # {}
        <3>1. PICK n \in Bad : \A m \in Bad : n <= m
            BY <2>2, Least, Bad \in SUBSET Nat
        <3>2. n \in 1 .. N /\ ~Good(n)
            BY <1>6
        <3>3. n - 1 \in 0 .. N /\ ~(n <= n - 1)
            BY <3>2
        <3>4. Good(n - 1)
            BY <3>1, <3>3
        <3>. QED BY <1>7, <3>2, <3>4
    <2>. QED BY <2>1, <2>2
<1>9. Gathers(f[N], a, o)
    <2>1. PICK x : x = Begin(N)
        OBVIOUS
    <2>2. DOMAIN x = 1 .. N /\ \A m \in 1 .. N : x[m] = o[m]
        BY <2>1
    <2>3. \A u : (Has(x, u) <=> Has(o, u)) /\ (Single(x, u) <=> Single(o, u))
        BY <1>1, <2>2 DEF Has, Single
    <2>4. Gathers(f[N], a, x)
        BY <1>8, <2>1
    <2>. QED BY <2>3, <2>4, Zenon DEF Gathers
<1>. QED BY <1>4, <1>8, <1>9

-----------------------------------------------------------------------------
(* The elements of a finite set in a strict order *)

StrictOrder(S, R) ==
    /\ \A x \in S : <<x, x>> \notin R
    /\ \A x \in S : \A y \in S : \A z \in S :
          <<x, y>> \in R /\ <<y, z>> \in R => <<x, z>> \in R
    /\ \A x \in S : \A y \in S : x # y => <<x, y>> \in R \/ <<y, x>> \in R

(* f lists the elements of S, each of them once, in the order R.           *)
Lists(f, S, R) ==
    \E N \in Nat :
        /\ f \in [1 .. N -> S]
        /\ \A x \in S : \E i \in 1 .. N : f[i] = x
        /\ \A i \in 1 .. N : \A j \in 1 .. N : i < j => <<f[i], f[j]>> \in R

LEMMA InOrderLists ==
    ASSUME NEW S, IsFiniteSet(S), NEW R, StrictOrder(S, R)
    PROVE  Lists(InOrder(S, R), S, R)
<1>. DEFINE Below(x) == {y \in S : <<y, x>> \in R}
            rank == [x \in S |-> Cardinality(Below(x)) + 1]
<1>1. PICK N \in Nat : N = Cardinality(S)
    BY FS_CardinalityType
<1>2. ASSUME NEW x \in S
      PROVE  /\ IsFiniteSet(Below(x)) /\ Cardinality(Below(x)) \in Nat
             /\ Cardinality(Below(x)) < N
    <2>1. Below(x) \in SUBSET S /\ Below(x) # S
        BY DEF StrictOrder
    <2>. HIDE DEF Below
    <2>2. /\ IsFiniteSet(Below(x)) /\ Cardinality(Below(x)) <= Cardinality(S)
          /\ Cardinality(S) = Cardinality(Below(x)) => S = Below(x)
        BY <2>1, FS_Subset
    <2>3. Cardinality(Below(x)) \in Nat
        BY <2>2, FS_CardinalityType
    <2>. QED BY <1>1, <2>1, <2>2, <2>3
<1>3. ASSUME NEW x \in S, NEW y \in S, <<x, y>> \in R
      PROVE  Cardinality(Below(x)) < Cardinality(Below(y))
    <2>1. Below(x) \in SUBSET Below(y) /\ Below(x) # Below(y)
        <3>1. x \in Below(y) /\ x \notin Below(x)
            BY <1>3 DEF StrictOrder
        <3>2. \A z \in Below(x) : z \in Below(y)
            BY <1>3 DEF StrictOrder
        <3>. QED BY <3>1, <3>2
    <2>. HIDE DEF Below
    <2>2. /\ Cardinality(Below(x)) <= Cardinality(Below(y))
          /\ Cardinality(Below(y)) = Cardinality(Below(x)) => Below(y) = Below(x)
        BY <1>2, <2>1, FS_Subset
    <2>. QED BY <1>2, <2>1, <2>2
<1>. HIDE DEF Below
<1>4. /\ rank \in [S -> 1 .. N]
      /\ \A x \in S : rank[x] = Cardinality(Below(x)) + 1
      /\ \A x \in S : \A y \in S : <<x, y>> \in R => rank[x] < rank[y]
    BY <1>2, <1>3
<1>. HIDE DEF rank
<1>5. \A x \in S : \A y \in S : rank[x] = rank[y] => x = y
    <2>. SUFFICES ASSUME NEW x \in S, NEW y \in S, x # y
                  PROVE  rank[x] # rank[y]
        OBVIOUS
    <2>1. <<x, y>> \in R \/ <<y, x>> \in R
        BY DEF StrictOrder
    <2>2. rank[x] \in Int /\ rank[y] \in Int
        BY <1>4
    <2>3. rank[x] < rank[y] \/ rank[y] < rank[x]
        BY <1>4, <2>1
    <2>. QED BY <2>2, <2>3
<1>6. \A i \in 1 .. N : \E x \in S : rank[x] = i
    <2>1. rank \in Injection(S, 1 .. N)
        BY <1>4, <1>5 DEF Injection, IsInjective
    <2>2. IsFiniteSet(1 .. N) /\ Cardinality(1 .. N) = N
        BY FS_Interval
    <2>3. rank \in Surjection(S, 1 .. N)
        BY <1>1, <2>1, <2>2, FS_Injection
    <2>. QED BY <2>3 DEF Surjection
<1>7. PICK f : f = InOrder(S, R)
    OBVIOUS
<1>8. f = [i \in 1 .. N |-> CHOOSE x \in S : Cardinality(Below(x)) = i - 1]
    BY <1>1, <1>7, Zenon DEF InOrder, Below
<1>9. ASSUME NEW i \in 1 .. N
      PROVE  f[i] \in S /\ rank[f[i]] = i
    <2>1. PICK x \in S : rank[x] = i
        BY <1>6
    <2>2. Cardinality(Below(x)) = i - 1
        BY <1>2, <1>4, <2>1
    <2>3. f[i] = CHOOSE y \in S : Cardinality(Below(y)) = i - 1
        BY <1>8
    <2>4. f[i] \in S /\ Cardinality(Below(f[i])) = i - 1
        BY <2>2, <2>3
    <2>. QED BY <1>4, <2>4
<1>10. f \in [1 .. N -> S]
    BY <1>8, <1>9
<1>11. ASSUME NEW x \in S
       PROVE  \E i \in 1 .. N : f[i] = x
    <2>1. rank[x] \in 1 .. N
        BY <1>4
    <2>. QED BY <1>5, <1>9, <2>1
<1>12. ASSUME NEW i \in 1 .. N, NEW j \in 1 .. N, i < j
       PROVE  <<f[i], f[j]>> \in R
    <2>1. f[i] \in S /\ f[j] \in S /\ rank[f[i]] = i /\ rank[f[j]] = j
        BY <1>9
    <2>2. f[i] # f[j] /\ ~(<<f[j], f[i]>> \in R)
        BY <1>4, <1>12, <2>1
    <2>. QED BY <2>1, <2>2 DEF StrictOrder
<1>. QED BY <1>7, <1>10, <1>11, <1>12 DEF Lists

LEMMA ImageFinite ==
    ASSUME NEW S, IsFiniteSet(S), NEW F
    PROVE  IsFiniteSet({F[x] : x \in S})
<1>. DEFINE T == {F[x] : x \in S}
            g == [x \in S |-> F[x]]
<1>1. g \in Surjection(S, T)
    BY DEF Surjection
<1>. HIDE DEF g, T
<1>2. IsFiniteSet(T)
    BY <1>1, FS_Surjection
<1>. QED BY <1>2 DEF T

-----------------------------------------------------------------------------
(* What the map tasks emit *)

LEMMA UnitKeys ==
    ASSUME IInv, NEW u \in 1 .. units
    PROVE  /\ u \in Int /\ KeyOf[u] \in Int /\ <<KeyOf[u], u>> \in Int \X Int
           /\ ReducePos(u) \in Upto(reduceTasks)
<1>1. units \in 0 .. Len(KeyOf) /\ reduceTasks \in Nat \ {0}
    BY DEF IInv, TypeOK
<1>2. KeyOf \in Seq(Int) /\ \A v \in DOMAIN KeyOf : Hash[KeyOf[v]] \in Nat
    BY TasksAssumption
<1>3. u \in DOMAIN KeyOf /\ KeyOf[u] \in Int
    BY <1>1, <1>2
<1>4. PICK h \in Nat : h = Hash[KeyOf[u]]
    BY <1>2, <1>3
<1>5. h % reduceTasks \in 0 .. reduceTasks - 1
    BY <1>1
<1>. QED BY <1>3, <1>4, <1>5 DEF ReducePos, Upto

LEMMA EmittedIs ==
    ASSUME IInv, NEW task \in SUBSET (1 .. units), NEW b
    PROVE  /\ Emitted(task, b) \in Arrays
           /\ \A u : /\ Has(Emitted(task, b), u) <=> u \in task /\ ReducePos(u) = b
                     /\ Single(Emitted(task, b), u)
<1>1. PICK S : S = {u \in task : ReducePos(u) = b}
    OBVIOUS
<1>2. PICK R : R = {p \in task \X task : p[1] < p[2]}
    OBVIOUS
<1>3. /\ S \subseteq 1 .. units /\ S \subseteq task
      /\ \A x \in S : \A y \in S : <<x, y>> \in R <=> x < y
    BY <1>1, <1>2
<1>4. IsFiniteSet(S)
    <2>1. units \in Int
        BY DEF IInv, TypeOK
    <2>2. IsFiniteSet(1 .. units)
        BY <2>1, FS_Interval
    <2>. QED BY <1>3, <2>2, FS_Subset
<1>5. StrictOrder(S, R)
    <2>1. S \subseteq Int
        BY <1>3
    <2>. QED BY <1>3, <2>1 DEF StrictOrder
<1>6. PICK f : f = InOrder(S, R)
    OBVIOUS
<1>7. Lists(f, S, R)
    BY <1>4, <1>5, <1>6, InOrderLists
<1>8. PICK N \in Nat :
          /\ f \in [1 .. N -> S]
          /\ \A x \in S : \E i \in 1 .. N : f[i] = x
          /\ \A i \in 1 .. N : \A j \in 1 .. N : i < j => <<f[i], f[j]>> \in R
    BY <1>7 DEF Lists
<1>9. PICK e : e = [i \in 1 .. N |-> <<KeyOf[f[i]], f[i]>>]
    OBVIOUS
<1>10. Emitted(task, b) = e
    <2>1. DOMAIN f = 1 .. N
        BY <1>8
    <2>. QED BY <1>1, <1>2, <1>6, <1>9, <2>1, Zenon DEF Emitted
<1>11. e \in [1 .. N -> Int \X Int] /\ \A i \in 1 .. N : e[i] = <<KeyOf[f[i]], f[i]>> /\ e[i][2] = f[i]
    <2>1. \A i \in 1 .. N : f[i] \in 1 .. units
        BY <1>3, <1>8
    <2>2. \A i \in 1 .. N : <<KeyOf[f[i]], f[i]>> \in Int \X Int
        BY <2>1, UnitKeys
    <2>. QED BY <1>9, <2>2
<1>12. e \in Arrays /\ DOMAIN e = 1 .. N
    BY <1>11, ArrayIs
<1>13. \A u : Has(e, u) <=> u \in S
    BY <1>8, <1>11, <1>12 DEF Has
<1>14. \A u : Single(e, u)
    <2>. SUFFICES ASSUME NEW i \in 1 .. N, NEW j \in 1 .. N, f[i] = f[j]
                  PROVE  i = j
        BY <1>11, <1>12 DEF Single
    <2>1. ~(<<f[i], f[j]>> \in R) /\ ~(<<f[j], f[i]>> \in R)
        BY <1>5, <1>8 DEF StrictOrder
    <2>. QED BY <1>8, <2>1
<1>. QED BY <1>1, <1>10, <1>12, <1>13, <1>14

-----------------------------------------------------------------------------
(* What a reduce task emits *)

InterTypes(T, b) == \A t \in T : inter[t][b] \in Arrays

LEMMA PairTypes ==
    ASSUME mapThreads \in Nat, NEW b, InterTypes(Upto(mapThreads), b)
    PROVE  /\ IsFiniteSet(Pairs(b))
           /\ \A x \in Pairs(b) : /\ x[1] \in Upto(mapThreads) /\ x[1] \in Int /\ x[2] \in Int
                                  /\ x[2] \in DOMAIN inter[x[1]][b] /\ x = <<x[1], x[2]>>
                                  /\ PairAt(b, x) \in Int \X Int /\ PairAt(b, x)[1] \in Int
           /\ \A t \in Upto(mapThreads) : \A n \in DOMAIN inter[t][b] :
                 <<t, n>> \in Pairs(b) /\ PairAt(b, <<t, n>>) = inter[t][b][n]
<1>1. Upto(mapThreads) = 0 .. mapThreads - 1
    BY DEF Upto
<1>2. ASSUME NEW t \in Upto(mapThreads)
      PROVE  \E l \in Nat : /\ DOMAIN inter[t][b] = 1 .. l
                            /\ \A n \in 1 .. l : inter[t][b][n] \in Int \X Int
    BY ArrayElements DEF InterTypes
<1>. DEFINE F == [t \in Upto(mapThreads) |-> {<<t, n>> : n \in DOMAIN inter[t][b]}]
<1>3. Pairs(b) = UNION {F[t] : t \in Upto(mapThreads)}
    BY DEF Pairs
<1>4. ASSUME NEW t \in Upto(mapThreads)
      PROVE  IsFiniteSet(F[t])
    <2>1. PICK l \in Nat : DOMAIN inter[t][b] = 1 .. l
        BY <1>2
    <2>2. IsFiniteSet(1 .. l)
        BY FS_Interval
    <2>. DEFINE h == [n \in 1 .. l |-> <<t, n>>]
    <2>3. F[t] = {h[n] : n \in 1 .. l}
        BY <2>1
    <2>. HIDE DEF h, F
    <2>4. IsFiniteSet({h[n] : n \in 1 .. l})
        BY <2>2, ImageFinite
    <2>. QED BY <2>3, <2>4
<1>5. IsFiniteSet(Pairs(b))
    <2>. HIDE DEF F
    <2>1. IsFiniteSet(Upto(mapThreads))
        BY <1>1, FS_Interval
    <2>2. IsFiniteSet({F[t] : t \in Upto(mapThreads)})
        BY <2>1, ImageFinite
    <2>3. PICK G : G = {F[t] : t \in Upto(mapThreads)}
        OBVIOUS
    <2>4. \A A \in G : IsFiniteSet(A)
        BY <1>4, <2>3
    <2>5. IsFiniteSet(UNION G)
        BY <2>2, <2>3, <2>4, FS_UNION
    <2>. QED BY <1>3, <2>3, <2>5
<1>6. ASSUME NEW x \in Pairs(b)
      PROVE  /\ x[1] \in Upto(mapThreads) /\ x[1] \in Int /\ x[2] \in Int
             /\ x[2] \in DOMAIN inter[x[1]][b] /\ x = <<x[1], x[2]>>
             /\ PairAt(b, x) \in Int \X Int /\ PairAt(b, x)[1] \in Int
    <2>1. PICK t \in Upto(mapThreads) : \E n \in DOMAIN inter[t][b] : x = <<t, n>>
        BY DEF Pairs
    <2>2. PICK n \in DOMAIN inter[t][b] : x = <<t, n>>
        BY <2>1
    <2>3. t \in Int /\ n \in Int /\ inter[t][b][n] \in Int \X Int /\ x[1] = t /\ x[2] = n
        BY <1>1, <1>2, <2>2
    <2>4. PairAt(b, x) = inter[t][b][n]
        BY <2>3 DEF PairAt
    <2>. QED BY <2>2, <2>3, <2>4
<1>7. ASSUME NEW t \in Upto(mapThreads), NEW n \in DOMAIN inter[t][b]
      PROVE  <<t, n>> \in Pairs(b) /\ PairAt(b, <<t, n>>) = inter[t][b][n]
    BY DEF Pairs, PairAt
<1>. QED BY <1>5, <1>6, <1>7

LEMMA BeforeIsStrict ==
    ASSUME mapThreads \in Nat, NEW b, InterTypes(Upto(mapThreads), b)
    PROVE  StrictOrder(Pairs(b), {x \in Pairs(b) \X Pairs(b) : Before(b, x[1], x[2])})
<1>. DEFINE key(x) == PairAt(b, x)[1]
<1>1. \A x \in Pairs(b) : key(x) \in Int /\ x[1] \in Int /\ x[2] \in Int /\ x = <<x[1], x[2]>>
    BY PairTypes
<1>2. \A x \in Pairs(b) : \A y \in Pairs(b) :
          Before(b, x, y) <=> \/ key(x) < key(y)
                              \/ key(x) = key(y) /\ (x[1] < y[1] \/ (x[1] = y[1] /\ x[2] < y[2]))
    BY DEF Before
<1>. HIDE DEF key
<1>3. \A x \in Pairs(b) : ~Before(b, x, x)
    BY <1>1, <1>2
<1>4. \A x \in Pairs(b) : \A y \in Pairs(b) : \A z \in Pairs(b) :
          Before(b, x, y) /\ Before(b, y, z) => Before(b, x, z)
    BY <1>1, <1>2
<1>5. \A x \in Pairs(b) : \A y \in Pairs(b) : x # y => Before(b, x, y) \/ Before(b, y, x)
    <2>. TAKE x \in Pairs(b)
    <2>. TAKE y \in Pairs(b)
    <2>1. x # y => x[1] # y[1] \/ x[2] # y[2]
        BY <1>1
    <2>. QED BY <1>1, <1>2, <2>1
<1>6. PICK R : R = {x \in Pairs(b) \X Pairs(b) : Before(b, x[1], x[2])}
    OBVIOUS
<1>7. \A x \in Pairs(b) : \A y \in Pairs(b) : <<x, y>> \in R <=> Before(b, x, y)
    BY <1>6
<1>8. StrictOrder(Pairs(b), R)
    BY <1>3, <1>4, <1>5, <1>7 DEF StrictOrder
<1>. QED BY <1>6, <1>8

(* Its pairs are those of the map threads, sorted by key, and a unit is    *)
(* there once if one map thread has emitted it once.                       *)
LEMMA ReduceOutputIs ==
    ASSUME mapThreads \in Nat, NEW b, InterTypes(Upto(mapThreads), b)
    PROVE  /\ ReduceOutput(b) \in Arrays /\ KeysSorted(ReduceOutput(b))
           /\ \A u : Has(ReduceOutput(b), u) <=> \E t \in Upto(mapThreads) : Has(inter[t][b], u)
           /\ \A u : /\ \A t \in Upto(mapThreads) : Single(inter[t][b], u)
                     /\ \A s \in Upto(mapThreads) : \A t \in Upto(mapThreads) :
                           Has(inter[s][b], u) /\ Has(inter[t][b], u) => s = t
                     => Single(ReduceOutput(b), u)
<1>1. PICK P, R : P = Pairs(b) /\ R = {x \in Pairs(b) \X Pairs(b) : Before(b, x[1], x[2])}
    OBVIOUS
<1>2. /\ IsFiniteSet(P) /\ StrictOrder(P, R)
      /\ \A x \in P : \A y \in P : <<x, y>> \in R <=> Before(b, x, y)
    BY <1>1, PairTypes, BeforeIsStrict
<1>3. PICK f : f = InOrder(P, R)
    OBVIOUS
<1>4. Lists(f, P, R)
    BY <1>2, <1>3, InOrderLists
<1>5. PICK N \in Nat :
          /\ f \in [1 .. N -> P]
          /\ \A x \in P : \E i \in 1 .. N : f[i] = x
          /\ \A i \in 1 .. N : \A j \in 1 .. N : i < j => <<f[i], f[j]>> \in R
    BY <1>4 DEF Lists
<1>6. PICK e : e = [i \in 1 .. N |-> PairAt(b, f[i])]
    OBVIOUS
<1>7. ReduceOutput(b) = e
    <2>1. DOMAIN f = 1 .. N
        BY <1>5
    <2>. QED BY <1>1, <1>3, <1>6, <2>1, Zenon DEF ReduceOutput
<1>8. \A x \in P : /\ x[1] \in Upto(mapThreads) /\ x[2] \in DOMAIN inter[x[1]][b]
                   /\ x = <<x[1], x[2]>> /\ PairAt(b, x) = inter[x[1]][b][x[2]]
                   /\ PairAt(b, x) \in Int \X Int /\ PairAt(b, x)[1] \in Int
    BY <1>1, PairTypes DEF PairAt
<1>9. \A t \in Upto(mapThreads) : \A n \in DOMAIN inter[t][b] :
          <<t, n>> \in P /\ PairAt(b, <<t, n>>) = inter[t][b][n]
    BY <1>1, PairTypes
<1>10. e \in [1 .. N -> Int \X Int] /\ \A i \in 1 .. N : e[i] = PairAt(b, f[i]) /\ f[i] \in P
    BY <1>5, <1>6, <1>8
<1>11. e \in Arrays /\ DOMAIN e = 1 .. N /\ Len(e) = N
    BY <1>10, ArrayIs
<1>12. KeysSorted(e)
    <2>. SUFFICES ASSUME NEW i \in 1 .. N, NEW j \in 1 .. N, i < j
                  PROVE  e[i][1] <= e[j][1]
        BY <1>11 DEF KeysSorted, IsSorted
    <2>1. Before(b, f[i], f[j])
        BY <1>2, <1>5, <1>10
    <2>2. PairAt(b, f[i])[1] \in Int /\ PairAt(b, f[j])[1] \in Int
        BY <1>8, <1>10
    <2>3. PairAt(b, f[i])[1] < PairAt(b, f[j])[1] \/ PairAt(b, f[i])[1] = PairAt(b, f[j])[1]
        BY <2>1 DEF Before
    <2>. QED BY <1>10, <2>2, <2>3
<1>13. ASSUME NEW u
       PROVE  Has(e, u) <=> \E t \in Upto(mapThreads) : Has(inter[t][b], u)
    <2>1. ASSUME Has(e, u)
          PROVE  \E t \in Upto(mapThreads) : Has(inter[t][b], u)
        <3>1. PICK i \in 1 .. N : e[i][2] = u
            BY <1>11, <2>1 DEF Has
        <3>2. PICK x \in P : x = f[i]
            BY <1>10
        <3>3. inter[x[1]][b][x[2]][2] = u
            BY <1>8, <1>10, <3>1, <3>2
        <3>. QED BY <1>8, <3>2, <3>3 DEF Has
    <2>2. ASSUME NEW t \in Upto(mapThreads), Has(inter[t][b], u)
          PROVE  Has(e, u)
        <3>1. PICK n \in DOMAIN inter[t][b] : inter[t][b][n][2] = u
            BY <2>2 DEF Has
        <3>2. PICK i \in 1 .. N : f[i] = <<t, n>>
            BY <1>5, <1>9
        <3>3. e[i] = inter[t][b][n]
            BY <1>9, <1>10, <3>2
        <3>. QED BY <1>11, <3>1, <3>3 DEF Has
    <2>. QED BY <2>1, <2>2
<1>14. ASSUME NEW u,
              \A t \in Upto(mapThreads) : Single(inter[t][b], u),
              \A s \in Upto(mapThreads) : \A t \in Upto(mapThreads) :
                 Has(inter[s][b], u) /\ Has(inter[t][b], u) => s = t
       PROVE  Single(e, u)
    <2>. SUFFICES ASSUME NEW i \in 1 .. N, NEW j \in 1 .. N, e[i][2] = u, e[j][2] = u
                  PROVE  i = j
        BY <1>11 DEF Single
    <2>1. PICK x \in P, y \in P : x = f[i] /\ y = f[j]
        BY <1>10
    <2>2. inter[x[1]][b][x[2]][2] = u /\ inter[y[1]][b][y[2]][2] = u
        BY <1>8, <1>10, <2>1
    <2>3. Has(inter[x[1]][b], u) /\ Has(inter[y[1]][b], u)
        BY <1>8, <2>2 DEF Has
    <2>4. x[1] = y[1]
        BY <1>8, <1>14, <2>3
    <2>5. x[2] = y[2]
        BY <1>8, <1>14, <2>2, <2>4 DEF Single
    <2>6. x = y
        BY <1>8, <2>4, <2>5
    <2>7. ~(<<f[i], f[j]>> \in R) /\ ~(<<f[j], f[i]>> \in R)
        BY <1>2, <2>1, <2>6 DEF StrictOrder
    <2>. QED BY <1>5, <2>7
<1>. QED BY <1>7, <1>11, <1>12, <1>13, <1>14

-----------------------------------------------------------------------------
(* What the map and reduce tasks do to the arrays *)

(* The intermediate arrays: none is written before the map stage, and in   *)
(* it only those of the map threads that remain.                           *)
InterInv ==
    phase \in {"init", "map", "reduce"} =>
        /\ inter \in [DOMAIN inter -> [Upto(reduceTasks) -> Arrays]]
        /\ Upto(mapThreads) \subseteq DOMAIN inter
        /\ phase = "init" =>
              \A t \in DOMAIN inter : \A b \in Upto(reduceTasks) : inter[t][b] = <<>>
        /\ phase = "map" =>
              \A t \in DOMAIN inter \ Upto(mapThreads) :
                 \A b \in Upto(reduceTasks) : inter[t][b] = <<>>

(* With an output array for each reduce task, a task finds its own empty.  *)
QueueInv ==
    phase = "reduce" /\ oneQueue => \A b \in taskQueue : final[b] = <<>>

KInv == IInv /\ SortInv /\ InterInv /\ QueueInv

LEMMA MapTaskIs ==
    ASSUME IInv, InterInv, NEW t \in Upto(mapThreads), MapTask(t)
    PROVE  \E task \in taskQueue :
              /\ task \in SUBSET (1 .. units)
              /\ taskQueue' = taskQueue \ {task}
              /\ DOMAIN inter' = DOMAIN inter
              /\ inter' \in [DOMAIN inter -> [Upto(reduceTasks) -> Arrays]]
              /\ \A s \in DOMAIN inter : \A b \in Upto(reduceTasks) :
                    inter'[s][b] = IF s = t THEN inter[t][b] \o Emitted(task, b)
                                            ELSE inter[s][b]
<1>1. /\ phase = "map" /\ taskQueue \subseteq SUBSET (1 .. units)
      /\ t \in DOMAIN inter /\ inter \in [DOMAIN inter -> [Upto(reduceTasks) -> Arrays]]
    BY DEF MapTask, IInv, TypeOK, InterInv
<1>2. PICK task \in taskQueue :
          /\ taskQueue' = taskQueue \ {task}
          /\ inter' = [inter EXCEPT ![t] = [b \in Upto(reduceTasks) |-> @[b] \o Emitted(task, b)]]
    BY DEF MapTask
<1>3. task \in SUBSET (1 .. units)
    BY <1>1
<1>4. PICK g : g = [b \in Upto(reduceTasks) |-> inter[t][b] \o Emitted(task, b)]
    OBVIOUS
<1>5. inter' = [inter EXCEPT ![t] = g]
    BY <1>2, <1>4
<1>6. g \in [Upto(reduceTasks) -> Arrays]
    <2>1. ASSUME NEW b \in Upto(reduceTasks)
          PROVE  inter[t][b] \o Emitted(task, b) \in Arrays
        <3>1. inter[t][b] \in Arrays
            BY <1>1
        <3>2. Emitted(task, b) \in Arrays
            BY <1>3, EmittedIs
        <3>. QED BY <3>1, <3>2, ConcatElements
    <2>. QED BY <1>4, <2>1
<1>7. DOMAIN inter' = DOMAIN inter /\ \A s \in DOMAIN inter : inter'[s] = IF s = t THEN g ELSE inter[s]
    BY <1>1, <1>5
<1>8. inter' \in [DOMAIN inter -> [Upto(reduceTasks) -> Arrays]]
    BY <1>1, <1>5, <1>6
<1>9. \A b \in Upto(reduceTasks) : g[b] = inter[t][b] \o Emitted(task, b)
    BY <1>4
<1>10. \A s \in DOMAIN inter : \A b \in Upto(reduceTasks) :
          inter'[s][b] = IF s = t THEN inter[t][b] \o Emitted(task, b) ELSE inter[s][b]
    BY <1>7, <1>9
<1>. QED BY <1>2, <1>3, <1>7, <1>8, <1>10

LEMMA ReduceTaskIs ==
    ASSUME KInv, NEW t \in Upto(reduceThreads), ReduceTask(t)
    PROVE  \E b \in taskQueue : \E i \in Upto(OutputArrays) :
              /\ b \in Upto(reduceTasks) /\ InterTypes(Upto(mapThreads), b)
              /\ taskQueue' = taskQueue \ {b}
              /\ oneQueue => i = b
              /\ final' \in [Upto(OutputArrays) -> Arrays]
              /\ \A j \in Upto(OutputArrays) \ {i} : final'[j] = final[j]
              /\ KeysSorted(final'[i])
              /\ Gathers(final'[i], final[i], ReduceOutput(b))
<1>1. /\ phase = "reduce" /\ taskQueue \subseteq Upto(reduceTasks) /\ mapThreads \in Nat
      /\ final \in [Upto(OutputArrays) -> Arrays]
      /\ \A i \in Upto(OutputArrays) : KeysSorted(final[i])
      /\ oneQueue => \A b \in taskQueue : final[b] = <<>>
      /\ \A b \in Upto(reduceTasks) : InterTypes(Upto(mapThreads), b)
    BY DEF ReduceTask, KInv, IInv, TypeOK, SortInv, InterInv, QueueInv, InterTypes
<1>2. PICK b \in taskQueue :
          /\ taskQueue' = taskQueue \ {b}
          /\ final' = IF oneQueue THEN [final EXCEPT ![b] = @ \o ReduceOutput(b)]
                      ELSE [final EXCEPT ![t] = InsertAll(@, ReduceOutput(b))]
    BY DEF ReduceTask
<1>3. b \in Upto(reduceTasks) /\ InterTypes(Upto(mapThreads), b)
    BY <1>1
<1>4. PICK given : given = ReduceOutput(b)
    OBVIOUS
<1>5. given \in Arrays /\ KeysSorted(given)
    BY <1>1, <1>3, <1>4, ReduceOutputIs
<1>6. CASE oneQueue
    <2>1. b \in Upto(OutputArrays) /\ final[b] \in Arrays /\ final[b] = <<>>
        BY <1>1, <1>3, <1>6 DEF OutputArrays
    <2>2. PICK r : r = final[b] \o given
        OBVIOUS
    <2>3. r \in Arrays /\ Gathers(r, final[b], given)
        BY <1>5, <2>1, <2>2, ConcatGathers
    <2>4. r = given
        BY <1>5, <2>1, <2>2, ConcatEmptySeq DEF Arrays
    <2>5. final' = [final EXCEPT ![b] = r]
        BY <1>2, <1>4, <1>6, <2>2
    <2>6. /\ final' \in [Upto(OutputArrays) -> Arrays] /\ final'[b] = r
          /\ \A j \in Upto(OutputArrays) \ {b} : final'[j] = final[j]
        BY <1>1, <2>1, <2>3, <2>5
    <2>7. KeysSorted(final'[b]) /\ Gathers(final'[b], final[b], given)
        BY <1>5, <2>3, <2>4, <2>6
    <2>. QED BY <1>2, <1>3, <1>4, <2>1, <2>6, <2>7
<1>7. CASE ~oneQueue
    <2>1. t \in Upto(OutputArrays) /\ final[t] \in Arrays /\ KeysSorted(final[t])
        BY <1>1, <1>7 DEF OutputArrays
    <2>2. PICK r : r = InsertAll(final[t], given)
        OBVIOUS
    <2>3. r \in Arrays /\ KeysSorted(r) /\ Gathers(r, final[t], given)
        BY <1>5, <2>1, <2>2, InsertAllIs
    <2>4. final' = [final EXCEPT ![t] = r]
        BY <1>2, <1>4, <1>7, <2>2
    <2>5. /\ final' \in [Upto(OutputArrays) -> Arrays] /\ final'[t] = r
          /\ \A j \in Upto(OutputArrays) \ {t} : final'[j] = final[j]
        BY <1>1, <2>1, <2>3, <2>4
    <2>6. KeysSorted(final'[t]) /\ Gathers(final'[t], final[t], given)
        BY <2>3, <2>5
    <2>. QED BY <1>2, <1>3, <1>4, <1>7, <2>1, <2>5, <2>6
<1>. QED BY <1>6, <1>7

LEMMA UptoSmaller ==
    ASSUME NEW m \in Nat, NEW n \in Nat, m <= n
    PROVE  Upto(m) \subseteq Upto(n)
    BY DEF Upto

LEMMA DataInitially ==
    Init => InterInv /\ QueueInv
<1>. SUFFICES ASSUME Init PROVE InterInv /\ QueueInv
    OBVIOUS
<1>1. phase = "init" /\ inter = [t \in Upto(mapThreads) |-> NoArrays(reduceTasks)]
    BY DEF Init
<1>2. /\ NoArrays(reduceTasks) \in [Upto(reduceTasks) -> Arrays]
      /\ \A b \in Upto(reduceTasks) : NoArrays(reduceTasks)[b] = <<>>
    BY EmptySorted
<1>3. DOMAIN inter = Upto(mapThreads) /\ \A t \in DOMAIN inter : inter[t] = NoArrays(reduceTasks)
    BY <1>1
<1>. QED BY <1>1, <1>2, <1>3 DEF InterInv, QueueInv

LEMMA DataStep ==
    ASSUME KInv, [Next]_vars
    PROVE  InterInv' /\ QueueInv'
<1>0. IInv /\ SortInv /\ InterInv /\ QueueInv
    BY DEF KInv
<1>1. CASE StartMap
    <2>1. /\ phase = "init" /\ phase' \in {"map", "aborted"} /\ inter' = inter
          /\ reduceTasks' = reduceTasks
        BY <1>1 DEF StartMap, StartWorkers, config
    <2>2. mapThreads \in Nat /\ mapThreads' \in Nat /\ mapThreads' <= mapThreads
        BY <1>0, MapThreadsShrink DEF IInv, TypeOK
    <2>3. Upto(mapThreads)' \subseteq Upto(mapThreads)
        BY <2>2, UptoSmaller
    <2>. QED BY <1>0, <2>1, <2>3 DEF InterInv, QueueInv, Upto
<1>2. ASSUME NEW t \in Upto(mapThreads), MapTask(t)
      PROVE  InterInv' /\ QueueInv'
    <2>1. /\ phase = "map" /\ phase' = "map" /\ mapThreads' = mapThreads
          /\ reduceTasks' = reduceTasks
        BY <1>2 DEF MapTask, config
    <2>2. PICK task \in taskQueue :
              /\ DOMAIN inter' = DOMAIN inter
              /\ inter' \in [DOMAIN inter -> [Upto(reduceTasks) -> Arrays]]
              /\ \A s \in DOMAIN inter : \A b \in Upto(reduceTasks) :
                    inter'[s][b] = IF s = t THEN inter[t][b] \o Emitted(task, b)
                                            ELSE inter[s][b]
        BY <1>0, <1>2, MapTaskIs
    <2>3. InterInv'
        BY <1>0, <2>1, <2>2 DEF InterInv, Upto
    <2>. QED BY <2>1, <2>3 DEF QueueInv
<1>3. CASE StartReduce
    <2>1. /\ phase = "map" /\ phase' \in {"reduce", "aborted"} /\ inter' = inter
          /\ mapThreads' = mapThreads /\ reduceTasks' = reduceTasks /\ final' = final
          /\ oneQueue' = oneQueue /\ taskQueue' = Upto(QueuedTasks)
        BY <1>3 DEF StartReduce, StartWorkers, config
    <2>2. InterInv'
        BY <1>0, <2>1 DEF InterInv, Upto
    <2>3. Upto(QueuedTasks) \subseteq Upto(reduceTasks)
        BY <1>0, QueuedTasksType DEF IInv, TypeOK
    <2>4. oneQueue => \A b \in Upto(reduceTasks) : final[b] = <<>>
        BY <1>0, <2>1, EmptySorted DEF SortInv, OutputArrays
    <2>. QED BY <2>1, <2>2, <2>3, <2>4 DEF QueueInv
<1>4. ASSUME NEW t \in Upto(reduceThreads), ReduceTask(t)
      PROVE  InterInv' /\ QueueInv'
    <2>1. /\ phase = "reduce" /\ phase' = "reduce" /\ mapThreads' = mapThreads
          /\ reduceTasks' = reduceTasks /\ inter' = inter /\ oneQueue' = oneQueue
          /\ taskQueue \subseteq Upto(reduceTasks)
        BY <1>0, <1>4 DEF ReduceTask, config, IInv, TypeOK
    <2>2. InterInv'
        BY <1>0, <2>1 DEF InterInv, Upto
    <2>3. PICK b \in taskQueue, i \in Upto(OutputArrays) :
              /\ taskQueue' = taskQueue \ {b}
              /\ oneQueue => i = b
              /\ \A j \in Upto(OutputArrays) \ {i} : final'[j] = final[j]
        BY <1>4, ReduceTaskIs
    <2>4. QueueInv'
        BY <1>0, <2>1, <2>3 DEF QueueInv, OutputArrays
    <2>. QED BY <2>2, <2>4
<1>5. CASE StartMerge
    BY <1>5 DEF StartMerge, StartRound, StartWorkers, InterInv, QueueInv
<1>6. CASE \E t \in Upto(mergeThreads) : MergeStep(t) \/ MergeEnd(t)
    BY <1>6 DEF MergeStep, MergeEnd, InterInv, QueueInv
<1>7. CASE EndRound
    BY <1>7 DEF EndRound, StartRound, StartWorkers, InterInv, QueueInv
<1>8. CASE UNCHANGED vars
    BY <1>0, <1>8 DEF vars, config, InterInv, QueueInv, Upto
<1>9. CASE Terminated
    BY <1>8, <1>9 DEF Terminated
<1>. QED BY <1>1, <1>2, <1>3, <1>4, <1>5, <1>6, <1>7, <1>8, <1>9 DEF Next, Step

LEMMA SortStep ==
    ASSUME IInv, SortInv, InterInv, QueueInv, [Next]_vars
    PROVE  SortInv'
<1>0. KInv
    BY DEF KInv
<1>1. CASE StartMap
    BY <1>1 DEF StartMap, StartWorkers, SortInv, OutputArrays, config
<1>2. ASSUME NEW t \in Upto(mapThreads), MapTask(t)
      PROVE  SortInv'
    BY <1>2 DEF MapTask, SortInv, OutputArrays, config
<1>3. CASE StartReduce
    <2>1. /\ phase = "map" /\ phase' \in {"reduce", "aborted"}
          /\ final' = NoArrays(OutputArrays) /\ OutputArrays' = OutputArrays
        BY <1>3 DEF StartReduce, StartWorkers, SortInv, OutputArrays, config
    <2>. QED BY <2>1, EmptySorted DEF SortInv
<1>4. ASSUME NEW t \in Upto(reduceThreads), ReduceTask(t)
      PROVE  SortInv'
    <2>1. /\ phase = "reduce" /\ phase' = "reduce" /\ OutputArrays' = OutputArrays
          /\ \A i \in Upto(OutputArrays) : KeysSorted(final[i])
        BY <1>4 DEF ReduceTask, SortInv, OutputArrays, config
    <2>2. PICK b \in taskQueue, i \in Upto(OutputArrays) :
              /\ final' \in [Upto(OutputArrays) -> Arrays]
              /\ \A j \in Upto(OutputArrays) \ {i} : final'[j] = final[j]
              /\ KeysSorted(final'[i])
        BY <1>0, <1>4, ReduceTaskIs
    <2>3. \A j \in Upto(OutputArrays) : KeysSorted(final'[j])
        BY <2>1, <2>2
    <2>. QED BY <2>1, <2>2, <2>3 DEF SortInv
<1>5. CASE StartMerge
    <2>1. /\ phase = "reduce" /\ OutputArrays \in Nat \ {0} /\ mergeThreads \in Nat \ {0}
          /\ final \in [Upto(OutputArrays) -> Arrays]
          /\ \A i \in Upto(OutputArrays) : KeysSorted(final[i])
        BY <1>5 DEF StartMerge, SortInv, IInv, TypeOK, OutputArrays
    <2>2. CASE OutputArrays <= 1
        <3>1. phase' = "done" /\ result' = final[0]
            BY <1>5, <2>2 DEF StartMerge
        <3>2. 0 \in Upto(OutputArrays)
            BY <2>1 DEF Upto
        <3>. QED BY <2>1, <3>1, <3>2 DEF SortInv
    <2>3. CASE ~(OutputArrays <= 1)
        <3>1. StartRound(OutputArrays, mergeThreads, final)
            BY <1>5, <2>3 DEF StartMerge
        <3>. QED BY <2>1, <3>1, RoundSorted
    <2>. QED BY <2>2, <2>3
<1>6. ASSUME NEW t \in Upto(mergeThreads), MergeStep(t)
      PROVE  SortInv'
    <2>1. phase = "merge"
        BY <1>6 DEF MergeStep
    <2>. QED BY <1>6, <2>1, MergeStepSorted DEF SortInv
<1>7. ASSUME NEW t \in Upto(mergeThreads), MergeEnd(t)
      PROVE  SortInv'
    <2>1. /\ phase = "merge" /\ phase' = "merge"
          /\ UNCHANGED <<mergeThreads, mergeLen, mergeIn, mergePos, mergeVals>>
        BY <1>7 DEF MergeEnd
    <2>2. \A s : Live(s)' = Live(s)
        BY <2>1 DEF Live, Inputs, First, Count, Length, ModLen, ShortRound
    <2>3. \A i : HeadOf(i)' = HeadOf(i)
        BY <2>1 DEF HeadOf
    <2>. QED BY <2>1, <2>2, <2>3 DEF SortInv, InputsSorted, OutputsSorted
<1>8. CASE EndRound
    <2>1. /\ phase = "merge" /\ mergeThreads \in Nat \ {0}
          /\ mergeVals \in [Upto(mergeThreads) -> Arrays]
          /\ \A t \in Upto(mergeThreads) : KeysSorted(mergeVals[t])
        BY <1>8 DEF EndRound, SortInv, OutputsSorted, IInv, TypeOK
    <2>2. CASE mergeThreads > 1
        <3>1. StartRound(mergeThreads, NextMergeThreads, mergeVals)
            BY <1>8, <2>2 DEF EndRound
        <3>2. NextMergeThreads \in Nat \ {0}
            <4>1. mergeThreads \div 2 \in Nat
                BY <2>1, SMT
            <4>. QED BY <4>1 DEF NextMergeThreads, Larger
        <3>. QED BY <2>1, <3>1, <3>2, RoundSorted
    <2>3. CASE ~(mergeThreads > 1)
        <3>1. phase' = "done" /\ result' = mergeVals[0]
            BY <1>8, <2>3 DEF EndRound
        <3>2. 0 \in Upto(mergeThreads)
            BY <2>1 DEF Upto
        <3>. QED BY <2>1, <3>1, <3>2 DEF SortInv
    <2>. QED BY <2>2, <2>3
<1>9. CASE UNCHANGED vars
    <2>1. UNCHANGED <<phase, final, result, mergeThreads, mergeLen, mergeIn,
                      mergePos, mergeVals, oneQueue, reduceTasks, reduceThreads>>
        BY <1>9 DEF vars, config, mergeVars
    <2>2. \A s : Live(s)' = Live(s)
        BY <2>1 DEF Live, Inputs, First, Count, Length, ModLen, ShortRound
    <2>3. \A i : HeadOf(i)' = HeadOf(i)
        BY <2>1 DEF HeadOf
    <2>. QED BY <2>1, <2>2, <2>3 DEF SortInv, InputsSorted, OutputsSorted, OutputArrays
<1>10. CASE Terminated
    BY <1>9, <1>10 DEF Terminated
<1>. QED BY <1>1, <1>2, <1>3, <1>4, <1>5, <1>6, <1>7, <1>8, <1>9, <1>10 DEF Next, Step

(* What reduce tasks and merge rounds leave is sorted, whatever the keys.  *)
THEOREM OutputSorted == Spec => []SortedOutput
<1>1. Init => KInv
    <2>1. Init => SortInv
        BY DEF Init, SortInv, OutputArrays
    <2>. QED BY <2>1, Initially, DataInitially DEF KInv
<1>2. KInv /\ [Next]_vars => KInv'
    <2>1. IInv /\ [Next]_vars => IInv'
        BY Inductive
    <2>. QED BY <2>1, SortStep, DataStep DEF KInv
<1>3. KInv => SortedOutput
    BY DEF KInv, SortInv, InputsSorted, SortedOutput, ReducedSorted
<1>. QED BY <1>1, <1>2, <1>3, PTL DEF Spec

-----------------------------------------------------------------------------
(* Every unit is in one place: a set A of places that a stage empties, or  *)
(* a set B of places that it fills.                                        *)

OneOf(A, B) == \/ \E x : A = {x} /\ B = {}
               \/ \E x : B = {x} /\ A = {}

LEMMA Moves ==
    ASSUME NEW A, NEW B, NEW x \in A, NEW y, OneOf(A, B)
    PROVE  /\ A = {x} /\ B = {}
           /\ OneOf(A \ {x}, B \cup {y})
<1>1. A = {x} /\ B = {}
    BY DEF OneOf
<1>2. A \ {x} = {} /\ B \cup {y} = {y}
    BY <1>1
<1>. QED BY <1>1, <1>2 DEF OneOf

InTasks(u) == {x \in taskQueue : u \in x}
InInter(u, T, B) == {p \in T \X B : Has(inter[p[1]][p[2]], u)}
InFinal(u) == {i \in Upto(OutputArrays) : Has(final[i], u)}
InRest(u) == {i \in Upto(mergeLen) : Unread(u, i) # {}}
InVals(u) == {t \in Upto(mergeThreads) : Has(mergeVals[t], u)}

InterOnce(u) ==
    \A t \in DOMAIN inter : \A b \in Upto(reduceTasks) : Single(inter[t][b], u)

MapUnit(u) ==
    /\ OneOf(InTasks(u), InInter(u, DOMAIN inter, Upto(reduceTasks)))
    /\ InterOnce(u)

ReduceUnit(u) ==
    /\ OneOf(InInter(u, Upto(mapThreads), taskQueue), InFinal(u))
    /\ InterOnce(u)
    /\ \A i \in Upto(OutputArrays) : Single(final[i], u)

MergeUnit(u) ==
    /\ OneOf(InRest(u), InVals(u))
    /\ \A i \in Upto(mergeLen) : Single(mergeIn[i], u)
    /\ \A t \in Upto(mergeThreads) : Single(mergeVals[t], u)

UnitAt(u) ==
    /\ phase = "map" => MapUnit(u)
    /\ phase = "reduce" => ReduceUnit(u)
    /\ phase = "merge" => MergeUnit(u)
    /\ phase = "done" => Has(result, u) /\ Single(result, u)

(* A merge thread that has ended has read its inputs.                      *)
EndedInv == phase = "merge" => \A t \in merged : Live(t) = {}

\* Multiples of c that are less than c apart are equal.
LEMMA SameMultiple ==
    ASSUME NEW c \in Nat \ {0}, NEW m \in Int, NEW n \in Int,
           c * m < c * n + c, c * n < c * m + c
    PROVE  m = n
<1>1. CASE m < n
    <2>1. c * (m + 1) <= c * n
        BY <1>1, SMT
    <2>2. c * (m + 1) = c * m + c
        BY SMT
    <2>. QED BY <2>1, <2>2, SMT
<1>2. CASE n < m
    <2>1. c * (n + 1) <= c * m
        BY <1>2, SMT
    <2>2. c * (n + 1) = c * n + c
        BY SMT
    <2>. QED BY <2>1, <2>2, SMT
<1>. QED BY <1>1, <1>2

(* The splitter puts each unit into one map task.                          *)
LEMMA OneMapTask ==
    ASSUME IInv, NEW u \in 1 .. units
    PROVE  \E x : {y \in MapTasks : u \in y} = {x}
<1>1. units \in Nat /\ ChunkSize \in Nat \ {0} /\ u \in Nat \ {0}
    BY TasksAssumption DEF IInv, TypeOK
<1>. DEFINE Task(p) == (p + 1) .. Smaller(p + ChunkSize, units)
<1>2. MapTasks = {Task(p) : p \in {n \in Upto(units) : n % ChunkSize = 0}}
    BY DEF MapTasks
<1>3. PICK v \in Nat : v = u - 1
    BY <1>1
<1>4. PICK q \in Nat, r \in Nat : r < ChunkSize /\ v = (ChunkSize * q) + r
    <2>1. PICK d, m : d = v \div ChunkSize /\ m = v % ChunkSize
        OBVIOUS
    <2>2. d \in Nat /\ m \in Nat /\ m < ChunkSize /\ v = (ChunkSize * d) + m
        BY <1>1, <2>1, Division
    <2>. QED BY <2>2
<1>5. PICK p \in Nat : p = ChunkSize * q
    BY <1>1, SMT
<1>6. p \in Upto(units) /\ p % ChunkSize = 0 /\ u \in Task(p)
    <2>1. p <= v /\ v < p + ChunkSize /\ v < units
        BY <1>1, <1>3, <1>4, <1>5
    <2>2. p % ChunkSize = 0
        BY <1>1, <1>5, SMT
    <2>. QED BY <1>1, <1>3, <2>1, <2>2 DEF Upto, Smaller
<1>7. ASSUME NEW n \in Upto(units), n % ChunkSize = 0, u \in Task(n)
      PROVE  n = p
    <2>1. n \in Nat
        BY <1>1 DEF Upto
    <2>2. PICK m \in Nat : n = ChunkSize * m
        <3>1. PICK d : d = n \div ChunkSize
            OBVIOUS
        <3>2. d \in Nat /\ n = (ChunkSize * d) + 0
            BY <1>1, <1>7, <2>1, <3>1, Division
        <3>3. ChunkSize * d \in Nat
            BY <1>1, <3>2, SMT
        <3>. QED BY <3>2, <3>3
    <2>3. n <= v /\ v < n + ChunkSize
        BY <1>1, <1>3, <1>7, <2>1 DEF Smaller
    <2>4. n < p + ChunkSize /\ p < n + ChunkSize
        BY <1>1, <1>3, <1>4, <1>5, <2>1, <2>3
    <2>5. m = q
        BY <1>1, <1>5, <2>2, <2>4, SameMultiple
    <2>. QED BY <1>5, <2>2, <2>5
<1>. HIDE DEF Task
<1>8. {y \in MapTasks : u \in y} = {Task(p)}
    BY <1>2, <1>6, <1>7
<1>. QED BY <1>8

-----------------------------------------------------------------------------
(* The stages keep each unit *)

LEMMA EmptyHolds ==
    /\ \A u : ~Has(<<>>, u) /\ Single(<<>>, u)
    /\ \A u, n : \A i \in Upto(n) : ~Has(NoArrays(n)[i], u) /\ Single(NoArrays(n)[i], u)
<1>1. \A u : ~Has(<<>>, u) /\ Single(<<>>, u)
    BY DEF Has, Single
<1>. QED BY <1>1, EmptySorted

LEMMA MapStarts ==
    ASSUME KInv, StartMap, phase' = "map", NEW u \in 1 .. units
    PROVE  MapUnit(u)'
<1>1. /\ phase = "init" /\ taskQueue' = MapTasks /\ inter' = inter /\ reduceTasks' = reduceTasks
    BY DEF StartMap, config
<1>2. \A t \in DOMAIN inter : \A b \in Upto(reduceTasks) : inter[t][b] = <<>>
    BY <1>1 DEF KInv, InterInv
<1>3. PICK x : {y \in MapTasks : u \in y} = {x}
    BY OneMapTask DEF KInv
<1>4. InTasks(u)' = {x}
    BY <1>1, <1>3 DEF InTasks
<1>5. InInter(u, DOMAIN inter, Upto(reduceTasks))' = {}
    BY <1>1, <1>2, EmptyHolds DEF InInter, Upto
<1>6. InterOnce(u)'
    BY <1>1, <1>2, EmptyHolds DEF InterOnce, Upto
<1>. QED BY <1>4, <1>5, <1>6 DEF MapUnit, OneOf

LEMMA MapKeeps ==
    ASSUME KInv, NEW u \in 1 .. units, MapUnit(u), NEW t \in Upto(mapThreads), MapTask(t)
    PROVE  MapUnit(u)'
<1>1. /\ t \in DOMAIN inter /\ inter \in [DOMAIN inter -> [Upto(reduceTasks) -> Arrays]]
      /\ reduceTasks' = reduceTasks
    BY DEF MapTask, config, KInv, InterInv
<1>2. PICK task \in taskQueue :
          /\ task \in SUBSET (1 .. units)
          /\ taskQueue' = taskQueue \ {task}
          /\ DOMAIN inter' = DOMAIN inter
          /\ \A s \in DOMAIN inter : \A b \in Upto(reduceTasks) :
                inter'[s][b] = IF s = t THEN inter[t][b] \o Emitted(task, b)
                                        ELSE inter[s][b]
    BY MapTaskIs DEF KInv
<1>3. PICK c \in Upto(reduceTasks) : c = ReducePos(u)
    BY UnitKeys DEF KInv
<1>4. ASSUME NEW s \in DOMAIN inter, NEW b \in Upto(reduceTasks)
      PROVE  /\ Has(inter'[s][b], u) <=> Has(inter[s][b], u) \/ (u \in task /\ s = t /\ b = c)
             /\ Single(inter[s][b], u) /\ (u \in task => ~Has(inter[s][b], u))
                   => Single(inter'[s][b], u)
    <2>1. CASE s = t
        <3>1. PICK a, o, r : a = inter[t][b] /\ o = Emitted(task, b) /\ r = a \o o
            OBVIOUS
        <3>2. inter'[s][b] = r
            BY <1>2, <2>1, <3>1
        <3>3. a \in Arrays
            BY <1>1, <3>1
        <3>4. o \in Arrays /\ (Has(o, u) <=> u \in task /\ b = c) /\ Single(o, u)
            BY <1>2, <1>3, <3>1, EmittedIs DEF KInv
        <3>5. Gathers(r, a, o)
            BY <3>1, <3>3, <3>4, ConcatGathers
        <3>. QED BY <2>1, <3>1, <3>2, <3>4, <3>5, Zenon DEF Gathers
    <2>2. CASE s # t
        BY <1>2, <2>2
    <2>. QED BY <2>1, <2>2
<1>. DEFINE A == InTasks(u)
            B == InInter(u, DOMAIN inter, Upto(reduceTasks))
<1>5. OneOf(A, B) /\ \A s \in DOMAIN inter : \A b \in Upto(reduceTasks) : Single(inter[s][b], u)
    BY DEF MapUnit, InterOnce
<1>6. A' = A \ {task}
    BY <1>2 DEF InTasks
<1>7. B' = IF u \in task THEN B \cup {<<t, c>>} ELSE B
    <2>1. Upto(reduceTasks)' = Upto(reduceTasks) /\ (DOMAIN inter)' = DOMAIN inter
        BY <1>1, <1>2 DEF Upto
    <2>2. B' = {p \in (DOMAIN inter) \X Upto(reduceTasks) : Has(inter'[p[1]][p[2]], u)}
        BY <2>1 DEF InInter
    <2>3. \A p \in (DOMAIN inter) \X Upto(reduceTasks) :
             Has(inter'[p[1]][p[2]], u) <=> Has(inter[p[1]][p[2]], u) \/ (u \in task /\ p = <<t, c>>)
        BY <1>4
    <2>4. <<t, c>> \in (DOMAIN inter) \X Upto(reduceTasks)
        BY <1>1
    <2>. QED BY <2>2, <2>3, <2>4 DEF InInter
<1>8. CASE u \in task
    <2>1. task \in A
        BY <1>8 DEF InTasks
    <2>. HIDE DEF A, B
    <2>2. B = {} /\ OneOf(A \ {task}, B \cup {<<t, c>>})
        BY <1>5, <2>1, Moves
    <2>3. OneOf(A', B')
        BY <1>6, <1>7, <1>8, <2>2
    <2>4. \A s \in DOMAIN inter : \A b \in Upto(reduceTasks) : ~Has(inter[s][b], u)
        <3>1. \A p \in (DOMAIN inter) \X Upto(reduceTasks) : ~Has(inter[p[1]][p[2]], u)
            BY <2>2 DEF B, InInter
        <3>. TAKE s \in DOMAIN inter
        <3>. TAKE b \in Upto(reduceTasks)
        <3>2. <<s, b>> \in (DOMAIN inter) \X Upto(reduceTasks)
            OBVIOUS
        <3>3. ~Has(inter[<<s, b>>[1]][<<s, b>>[2]], u)
            BY <3>1, <3>2
        <3>. QED BY <3>3
    <2>5. InterOnce(u)'
        BY <1>1, <1>2, <1>4, <1>5, <2>4 DEF InterOnce, Upto
    <2>. QED BY <2>3, <2>5 DEF MapUnit, A, B
<1>9. CASE u \notin task
    <2>1. A' = A /\ B' = B
        BY <1>6, <1>7, <1>9 DEF InTasks
    <2>. HIDE DEF A, B
    <2>2. OneOf(A', B')
        BY <1>5, <2>1
    <2>3. InterOnce(u)'
        BY <1>1, <1>2, <1>4, <1>5, <1>9 DEF InterOnce, Upto
    <2>. QED BY <2>2, <2>3 DEF MapUnit, A, B
<1>. QED BY <1>8, <1>9

(* The reduce tasks read every bucket of the threads that have written.    *)
LEMMA ReduceStarts ==
    ASSUME KInv, EveryTaskQueued, StartReduce, NEW u \in 1 .. units, MapUnit(u)
    PROVE  ReduceUnit(u)'
<1>1. /\ phase = "map" /\ taskQueue = {} /\ taskQueue' = Upto(reduceTasks)
      /\ inter' = inter /\ final' = final /\ mapThreads' = mapThreads
      /\ reduceTasks' = reduceTasks /\ OutputArrays' = OutputArrays
    BY DEF StartReduce, config, OutputArrays, EveryTaskQueued
<1>2. final = NoArrays(OutputArrays)
    BY <1>1 DEF KInv, SortInv
<1>3. /\ Upto(mapThreads) \subseteq DOMAIN inter
      /\ \A t \in DOMAIN inter \ Upto(mapThreads) :
            \A b \in Upto(reduceTasks) : inter[t][b] = <<>>
    BY <1>1 DEF KInv, InterInv
<1>4. PICK x : InInter(u, DOMAIN inter, Upto(reduceTasks)) = {x}
    BY <1>1 DEF MapUnit, OneOf, InTasks
<1>5. InInter(u, Upto(mapThreads), taskQueue)' = {x}
    <2>1. \A t \in DOMAIN inter \ Upto(mapThreads) : \A b \in Upto(reduceTasks) : ~Has(inter[t][b], u)
        BY <1>3, EmptyHolds
    <2>2. InInter(u, Upto(mapThreads), taskQueue)'
             = {p \in Upto(mapThreads) \X Upto(reduceTasks) : Has(inter[p[1]][p[2]], u)}
        BY <1>1 DEF InInter, Upto
    <2>3. \A p : p \in Upto(mapThreads) \X Upto(reduceTasks) /\ Has(inter[p[1]][p[2]], u)
                 <=> p \in (DOMAIN inter) \X Upto(reduceTasks) /\ Has(inter[p[1]][p[2]], u)
        BY <1>3, <2>1
    <2>4. InInter(u, DOMAIN inter, Upto(reduceTasks))
             = {p \in Upto(mapThreads) \X Upto(reduceTasks) : Has(inter[p[1]][p[2]], u)}
        BY <2>3 DEF InInter
    <2>. QED BY <1>4, <2>2, <2>4
<1>6. \A i \in Upto(OutputArrays) : ~Has(final[i], u) /\ Single(final[i], u)
    BY <1>2, EmptyHolds
<1>7. InFinal(u)' = {}
    BY <1>1, <1>6 DEF InFinal, Upto
<1>8. InterOnce(u)'
    BY <1>1 DEF MapUnit, InterOnce, Upto
<1>9. \A i \in Upto(OutputArrays)' : Single(final[i], u)'
    BY <1>1, <1>6 DEF Upto, Single
<1>. QED BY <1>5, <1>7, <1>8, <1>9 DEF ReduceUnit, OneOf

LEMMA ReduceKeeps ==
    ASSUME KInv, NEW u \in 1 .. units, ReduceUnit(u), NEW t \in Upto(reduceThreads), ReduceTask(t)
    PROVE  ReduceUnit(u)'
<1>1. /\ phase = "reduce" /\ mapThreads' = mapThreads /\ reduceTasks' = reduceTasks
      /\ inter' = inter /\ OutputArrays' = OutputArrays /\ mapThreads \in Nat
      /\ taskQueue \subseteq Upto(reduceTasks) /\ Upto(mapThreads) \subseteq DOMAIN inter
    BY DEF ReduceTask, config, OutputArrays, KInv, IInv, TypeOK, InterInv
<1>2. PICK b \in taskQueue, i \in Upto(OutputArrays) :
          /\ b \in Upto(reduceTasks) /\ InterTypes(Upto(mapThreads), b)
          /\ taskQueue' = taskQueue \ {b}
          /\ \A j \in Upto(OutputArrays) \ {i} : final'[j] = final[j]
          /\ Gathers(final'[i], final[i], ReduceOutput(b))
    BY ReduceTaskIs
<1>. DEFINE A == InInter(u, Upto(mapThreads), taskQueue)
            B == InFinal(u)
<1>3. /\ OneOf(A, B)
      /\ \A s \in Upto(mapThreads) : \A d \in Upto(reduceTasks) : Single(inter[s][d], u)
      /\ \A j \in Upto(OutputArrays) : Single(final[j], u)
    BY <1>1 DEF ReduceUnit, InterOnce
<1>4. PICK given : given = ReduceOutput(b)
    OBVIOUS
<1>5. /\ Has(given, u) <=> \E s \in Upto(mapThreads) : <<s, b>> \in A
      /\ Single(given, u)
    <2>1. \A s \in Upto(mapThreads) : <<s, b>> \in A <=> Has(inter[s][b], u)
        BY DEF InInter
    <2>. HIDE DEF A, B
    <2>2. \A s \in Upto(mapThreads) : \A v \in Upto(mapThreads) : <<s, b>> \in A /\ <<v, b>> \in A => s = v
        BY <1>3 DEF OneOf
    <2>3. \A s \in Upto(mapThreads) : \A v \in Upto(mapThreads) :
             Has(inter[s][b], u) /\ Has(inter[v][b], u) => s = v
        BY <2>1, <2>2
    <2>4. \A s \in Upto(mapThreads) : Single(inter[s][b], u)
        BY <1>2, <1>3
    <2>5. Single(given, u)
        BY <1>1, <1>2, <1>4, <2>3, <2>4, ReduceOutputIs
    <2>6. Has(given, u) <=> \E s \in Upto(mapThreads) : Has(inter[s][b], u)
        BY <1>1, <1>2, <1>4, ReduceOutputIs
    <2>. QED BY <2>1, <2>5, <2>6
<1>6. A' = {p \in A : p[2] # b}
    <2>1. A' = {p \in Upto(mapThreads) \X (taskQueue \ {b}) : Has(inter[p[1]][p[2]], u)}
        BY <1>1, <1>2 DEF InInter, Upto
    <2>. QED BY <2>1 DEF InInter
<1>7. B' = IF Has(given, u) THEN B \cup {i} ELSE B
    <2>1. B' = {j \in Upto(OutputArrays) : Has(final'[j], u)}
        BY <1>1 DEF InFinal, Upto
    <2>2. Has(final'[i], u) <=> Has(final[i], u) \/ Has(given, u)
        BY <1>2, <1>4, Zenon DEF Gathers
    <2>. QED BY <1>2, <2>1, <2>2 DEF InFinal
<1>8. \A p \in A : p[1] \in Upto(mapThreads) /\ p = <<p[1], p[2]>>
    BY DEF InInter
<1>9. InterOnce(u)'
    BY <1>1 DEF ReduceUnit, InterOnce, Upto
<1>10. ASSUME ~(Has(final[i], u) /\ Has(given, u))
       PROVE  \A j \in Upto(OutputArrays)' : Single(final[j], u)'
    <2>1. Single(final'[i], u)
        BY <1>2, <1>3, <1>4, <1>5, <1>10, Zenon DEF Gathers
    <2>2. \A j \in Upto(OutputArrays) : Single(final'[j], u)
        BY <1>2, <1>3, <2>1
    <2>. QED BY <1>1, <2>2 DEF Upto, Single
<1>11. Has(final[i], u) => i \in B
    BY DEF InFinal
<1>12. CASE Has(given, u)
    <2>. HIDE DEF A, B
    <2>1. PICK s \in Upto(mapThreads) : <<s, b>> \in A
        BY <1>5, <1>12
    <2>2. A = {<<s, b>>} /\ B = {} /\ OneOf(A \ {<<s, b>>}, B \cup {i})
        BY <1>3, <2>1, Moves
    <2>3. A' = A \ {<<s, b>>} /\ B' = B \cup {i}
        BY <1>6, <1>7, <1>12, <2>2
    <2>4. OneOf(A', B')
        BY <2>2, <2>3
    <2>. QED BY <1>9, <1>10, <1>11, <2>2, <2>4 DEF ReduceUnit, A, B
<1>13. CASE ~Has(given, u)
    <2>. HIDE DEF A, B
    <2>1. A' = A
        BY <1>5, <1>6, <1>8, <1>13
    <2>2. B' = B
        BY <1>7, <1>13
    <2>3. OneOf(A', B')
        BY <1>3, <2>1, <2>2
    <2>. QED BY <1>9, <1>10, <1>13, <2>3 DEF ReduceUnit, A, B
<1>. QED BY <1>12, <1>13

(* A merge round starts with the output of the stage before.               *)
LEMMA RoundStarts ==
    ASSUME NEW len \in Nat, NEW threads \in Nat, NEW input \in [Upto(len) -> Arrays],
           StartRound(len, threads, input), NEW u, NEW x,
           {i \in Upto(len) : Has(input[i], u)} = {x},
           \A i \in Upto(len) : Single(input[i], u)
    PROVE  MergeUnit(u)'
<1>1. /\ mergeLen' = len /\ mergeThreads' = threads /\ mergeIn' = input
      /\ mergePos' = [i \in Upto(len) |-> 0] /\ mergeVals' = NoArrays(threads)
    BY DEF StartRound
<1>2. ASSUME NEW i \in Upto(len)
      PROVE  Unread(u, i)' # {} <=> Has(input[i], u)
    <2>1. mergePos'[i] = 0 /\ \A n \in DOMAIN input[i] : n > 0
        BY <1>1, ArrayElements
    <2>. QED BY <1>1, <2>1 DEF Unread, Held, Has
<1>3. InRest(u)' = {x}
    <2>1. InRest(u)' = {i \in Upto(len) : Unread(u, i)' # {}}
        BY <1>1 DEF InRest, Upto
    <2>. QED BY <1>2, <2>1
<1>4. \A t \in Upto(threads) : ~Has(mergeVals'[t], u) /\ Single(mergeVals'[t], u)
    BY <1>1, EmptyHolds
<1>5. InVals(u)' = {}
    BY <1>1, <1>4 DEF InVals, Upto
<1>6. \A i \in Upto(mergeLen)' : Single(mergeIn[i], u)'
    BY <1>1 DEF Upto, Single
<1>7. \A t \in Upto(mergeThreads)' : Single(mergeVals[t], u)'
    BY <1>1, <1>4 DEF Upto, Single
<1>. QED BY <1>3, <1>5, <1>6, <1>7 DEF MergeUnit, OneOf

LEMMA MergeStarts ==
    ASSUME KInv, NEW u \in 1 .. units, ReduceUnit(u), StartMerge
    PROVE  UnitAt(u)'
<1>1. /\ phase = "reduce" /\ taskQueue = {} /\ OutputArrays \in Nat \ {0}
      /\ mergeThreads \in Nat /\ final \in [Upto(OutputArrays) -> Arrays]
    BY DEF StartMerge, KInv, IInv, TypeOK, SortInv, OutputArrays
<1>2. PICK x : {i \in Upto(OutputArrays) : Has(final[i], u)} = {x}
    BY <1>1 DEF ReduceUnit, OneOf, InInter, InFinal
<1>3. \A i \in Upto(OutputArrays) : Single(final[i], u)
    BY DEF ReduceUnit
<1>4. CASE OutputArrays <= 1
    <2>1. phase' = "done" /\ result' = final[0]
        BY <1>4 DEF StartMerge
    <2>2. x \in Upto(OutputArrays) /\ Has(final[x], u)
        BY <1>2
    <2>3. x = 0
        BY <1>1, <1>4, <2>2 DEF Upto
    <2>. QED BY <1>3, <2>1, <2>2, <2>3 DEF UnitAt, Has, Single
<1>5. CASE ~(OutputArrays <= 1)
    <2>1. StartRound(OutputArrays, mergeThreads, final)
        BY <1>5 DEF StartMerge
    <2>2. phase' \in {"merge", "aborted"}
        BY <2>1 DEF StartRound, StartWorkers
    <2>3. MergeUnit(u)'
        BY <1>1, <1>2, <1>3, <2>1, RoundStarts
    <2>. QED BY <2>2, <2>3 DEF UnitAt
<1>. QED BY <1>4, <1>5

LEMMA RoundCovers ==
    ASSUME KInv, phase = "merge"
    PROVE  /\ \A t \in Upto(mergeThreads) : Inputs(t) \subseteq Upto(mergeLen)
           /\ \A i \in Upto(mergeLen) : \E t \in Upto(mergeThreads) :
                 /\ i \in Inputs(t)
                 /\ \A s \in Upto(mergeThreads) \ {t} : i \notin Inputs(s)
<1>1. MergeCovers
    BY LongRoundCovers DEF KInv, IInv, TypeOK, Rounds
<1>. QED BY <1>1 DEF MergeCovers

LEMMA AppendGathers ==
    ASSUME NEW a \in Arrays, NEW p \in Int \X Int
    PROVE  \A u : /\ Has(Append(a, p), u) <=> Has(a, u) \/ p[2] = u
                  /\ Single(a, u) /\ ~(Has(a, u) /\ p[2] = u) => Single(Append(a, p), u)
<1>1. PICK r : r = Append(a, p)
    OBVIOUS
<1>2. <<p>> \in Arrays /\ DOMAIN <<p>> = {1} /\ <<p>>[1] = p
    BY DEF Arrays
<1>3. r = a \o <<p>>
    BY <1>1, AppendIsConcat DEF Arrays
<1>4. Gathers(r, a, <<p>>)
    BY <1>2, <1>3, ConcatGathers
<1>5. \A u : (Has(<<p>>, u) <=> p[2] = u) /\ Single(<<p>>, u)
    BY <1>2 DEF Has, Single
<1>. QED BY <1>1, <1>4, <1>5, Zenon DEF Gathers

LEMMA MergeKeeps ==
    ASSUME KInv, NEW u \in 1 .. units, MergeUnit(u), NEW t \in Upto(mergeThreads), MergeStep(t)
    PROVE  MergeUnit(u)'
<1>1. /\ phase = "merge" /\ mergeThreads' = mergeThreads /\ mergeLen' = mergeLen
      /\ mergeIn' = mergeIn /\ mergeIn \in [Upto(mergeLen) -> Arrays]
      /\ mergePos \in [Upto(mergeLen) -> Nat] /\ mergeVals \in [Upto(mergeThreads) -> Arrays]
    BY DEF MergeStep, KInv, SortInv, InputsSorted, OutputsSorted
<1>2. PICK i \in Live(t) :
          /\ mergeVals' = [mergeVals EXCEPT ![t] = Append(@, HeadOf(i))]
          /\ mergePos' = [mergePos EXCEPT ![i] = @ + 1]
    BY DEF MergeStep
<1>3. i \in Upto(mergeLen) /\ mergePos[i] < Len(mergeIn[i])
    BY <1>1, RoundCovers DEF Live
<1>4. PICK a \in Arrays, n \in Nat, l \in Nat :
          a = mergeIn[i] /\ n = mergePos[i] + 1 /\ l = Len(a) /\ DOMAIN a = 1 .. l
    <2>1. mergeIn[i] \in Arrays /\ mergePos[i] \in Nat
        BY <1>1, <1>3
    <2>2. Len(mergeIn[i]) \in Nat /\ DOMAIN mergeIn[i] = 1 .. Len(mergeIn[i])
        BY <2>1, ArrayElements
    <2>3. mergePos[i] + 1 \in Nat
        BY <2>1
    <2>. QED BY <2>1, <2>2, <2>3
<1>5. PICK p \in Int \X Int : p = HeadOf(i) /\ p = a[n] /\ n \in DOMAIN a
    <2>1. n \in 1 .. l
        BY <1>1, <1>3, <1>4
    <2>2. a[n] \in Int \X Int
        BY <1>4, <2>1, ArrayElements
    <2>. QED BY <1>4, <2>1, <2>2 DEF HeadOf
<1>6. /\ mergePos'[i] = n /\ \A j \in Upto(mergeLen) \ {i} : mergePos'[j] = mergePos[j]
      /\ mergePos[i] \in Nat /\ n = mergePos[i] + 1
    BY <1>1, <1>2, <1>3, <1>4
<1>7. /\ mergeVals'[t] = Append(mergeVals[t], p) /\ mergeVals[t] \in Arrays
      /\ \A s \in Upto(mergeThreads) \ {t} : mergeVals'[s] = mergeVals[s]
    BY <1>1, <1>2, <1>5
<1>8. \A j \in Upto(mergeLen) \ {i} : Unread(u, j)' = Unread(u, j)
    BY <1>1, <1>6 DEF Unread, Held
<1>9. Unread(u, i)' = Unread(u, i) \ {n}
    <2>1. Unread(u, i) = {m \in DOMAIN a : a[m][2] = u /\ m > mergePos[i]}
        BY <1>4 DEF Unread, Held
    <2>2. Unread(u, i)' = {m \in DOMAIN a : a[m][2] = u /\ m > n}
        BY <1>1, <1>4, <1>6 DEF Unread, Held
    <2>3. \A m \in DOMAIN a : m > n <=> m > mergePos[i] /\ m # n
        BY <1>4, <1>6
    <2>. QED BY <2>1, <2>2, <2>3
<1>10. n \in Unread(u, i) <=> p[2] = u
    BY <1>4, <1>5, <1>6 DEF Unread, Held
<1>. DEFINE A == InRest(u)
            B == InVals(u)
<1>11. /\ OneOf(A, B) /\ Single(a, u)
       /\ \A s \in Upto(mergeThreads) : Single(mergeVals[s], u)
    BY <1>3, <1>4 DEF MergeUnit
<1>12. \A j \in Upto(mergeLen)' : Single(mergeIn[j], u)'
    BY <1>1 DEF MergeUnit, Upto, Single
<1>13. /\ Has(mergeVals'[t], u) <=> Has(mergeVals[t], u) \/ p[2] = u
       /\ ~(Has(mergeVals[t], u) /\ p[2] = u) => Single(mergeVals'[t], u)
    BY <1>7, <1>11, AppendGathers
<1>14. B' = IF p[2] = u THEN B \cup {t} ELSE B
    <2>1. B' = {s \in Upto(mergeThreads) : Has(mergeVals'[s], u)}
        BY <1>1 DEF InVals, Upto
    <2>. QED BY <1>7, <1>13, <2>1 DEF InVals
<1>15. ASSUME ~(Has(mergeVals[t], u) /\ p[2] = u)
       PROVE  \A s \in Upto(mergeThreads)' : Single(mergeVals[s], u)'
    <2>1. \A s \in Upto(mergeThreads) : Single(mergeVals'[s], u)
        BY <1>7, <1>11, <1>13, <1>15
    <2>. QED BY <1>1, <2>1 DEF Upto, Single
<1>16. A' = {j \in Upto(mergeLen) : Unread(u, j)' # {}}
    BY <1>1 DEF InRest, Upto
<1>17. CASE p[2] = u
    <2>1. Unread(u, i) = {n}
        <3>1. \A m \in Unread(u, i) : m = n
            BY <1>4, <1>5, <1>11, <1>17 DEF Unread, Held, Single
        <3>. QED BY <1>10, <1>17, <3>1
    <2>2. i \in A /\ Unread(u, i)' = {}
        BY <1>3, <1>9, <2>1 DEF InRest
    <2>3. A' = A \ {i}
        BY <1>8, <1>16, <2>2 DEF InRest
    <2>. HIDE DEF A, B
    <2>4. B = {} /\ OneOf(A \ {i}, B \cup {t})
        BY <1>11, <2>2, Moves
    <2>5. ~Has(mergeVals[t], u)
        BY <2>4 DEF B, InVals
    <2>6. OneOf(A', B')
        BY <1>14, <1>17, <2>3, <2>4
    <2>. QED BY <1>12, <1>15, <2>5, <2>6 DEF MergeUnit, A, B
<1>18. CASE p[2] # u
    <2>1. Unread(u, i)' = Unread(u, i)
        BY <1>9, <1>10, <1>18
    <2>2. A' = A
        BY <1>8, <1>16, <2>1 DEF InRest
    <2>3. B' = B
        BY <1>14, <1>18
    <2>. HIDE DEF A, B
    <2>4. OneOf(A', B')
        BY <1>11, <2>2, <2>3
    <2>. QED BY <1>12, <1>15, <1>18, <2>4 DEF MergeUnit, A, B
<1>. QED BY <1>17, <1>18

LEMMA RoundEnds ==
    ASSUME KInv, EndedInv, NEW u \in 1 .. units, MergeUnit(u), EndRound
    PROVE  UnitAt(u)'
<1>1. /\ phase = "merge" /\ merged = Upto(mergeThreads) /\ mergeThreads \in Nat \ {0}
      /\ mergeLen \in Nat /\ mergeIn \in [Upto(mergeLen) -> Arrays]
      /\ mergePos \in [Upto(mergeLen) -> Nat] /\ mergeVals \in [Upto(mergeThreads) -> Arrays]
    BY DEF EndRound, KInv, IInv, TypeOK, SortInv, InputsSorted, OutputsSorted
<1>2. ASSUME NEW i \in Upto(mergeLen)
      PROVE  Unread(u, i) = {}
    <2>1. PICK t \in Upto(mergeThreads) : i \in Inputs(t)
        BY <1>1, RoundCovers
    <2>2. ~(mergePos[i] < Len(mergeIn[i]))
        BY <1>1, <2>1 DEF EndedInv, Live
    <2>3. PICK l \in Nat, k \in Nat : l = Len(mergeIn[i]) /\ k = mergePos[i] /\ DOMAIN mergeIn[i] = 1 .. l
        BY <1>1, ArrayElements
    <2>4. \A n \in 1 .. l : ~(n > k)
        BY <2>2, <2>3
    <2>. QED BY <2>3, <2>4 DEF Unread, Held
<1>3. InRest(u) = {}
    BY <1>2 DEF InRest
<1>4. PICK x : {t \in Upto(mergeThreads) : Has(mergeVals[t], u)} = {x}
    BY <1>3 DEF MergeUnit, OneOf, InVals
<1>5. \A t \in Upto(mergeThreads) : Single(mergeVals[t], u)
    BY DEF MergeUnit
<1>6. CASE mergeThreads > 1
    <2>1. StartRound(mergeThreads, NextMergeThreads, mergeVals)
        BY <1>6 DEF EndRound
    <2>2. NextMergeThreads \in Nat
        <3>1. mergeThreads \div 2 \in Nat
            BY <1>1, SMT
        <3>. QED BY <3>1 DEF NextMergeThreads, Larger
    <2>3. phase' \in {"merge", "aborted"}
        BY <2>1 DEF StartRound, StartWorkers
    <2>4. MergeUnit(u)'
        BY <1>1, <1>4, <1>5, <2>1, <2>2, RoundStarts
    <2>. QED BY <2>3, <2>4 DEF UnitAt
<1>7. CASE ~(mergeThreads > 1)
    <2>1. phase' = "done" /\ result' = mergeVals[0]
        BY <1>7 DEF EndRound
    <2>2. x \in Upto(mergeThreads) /\ Has(mergeVals[x], u)
        BY <1>4
    <2>3. x = 0
        BY <1>1, <1>7, <2>2 DEF Upto
    <2>. QED BY <1>5, <2>1, <2>2, <2>3 DEF UnitAt, Has, Single
<1>. QED BY <1>6, <1>7

LEMMA EndedStep ==
    ASSUME KInv, EndedInv, [Next]_vars
    PROVE  EndedInv'
<1>1. ASSUME NEW t \in Upto(mergeThreads), MergeStep(t)
      PROVE  EndedInv'
    <2>1. /\ phase = "merge" /\ UNCHANGED <<mergeThreads, mergeLen, mergeIn, merged>>
          /\ mergePos \in [Upto(mergeLen) -> Nat] /\ merged \subseteq Upto(mergeThreads)
        BY <1>1 DEF MergeStep, KInv, IInv, TypeOK, SortInv, InputsSorted
    <2>2. PICK i \in Live(t) : mergePos' = [mergePos EXCEPT ![i] = @ + 1]
        BY <1>1 DEF MergeStep
    <2>3. \A s : Inputs(s)' = Inputs(s)
        BY <2>1 DEF Inputs, First, Count, Length, ModLen, ShortRound
    <2>4. i \in Inputs(t) /\ \A s \in Upto(mergeThreads) : Inputs(s) \subseteq Upto(mergeLen)
        BY <2>1, RoundCovers DEF Live
    <2>5. \A s \in Upto(mergeThreads) \ {t} : i \notin Inputs(s)
        BY <2>1, <2>4, RoundCovers
    <2>6. ASSUME NEW s \in merged
          PROVE  Live(s)' = {}
        <3>1. Live(s) = {} /\ s \in Upto(mergeThreads)
            BY <2>1 DEF EndedInv
        <3>2. s # t
            BY <2>2, <3>1
        <3>3. \A j \in Inputs(s) : mergePos'[j] = mergePos[j]
            BY <2>1, <2>2, <2>4, <2>5, <3>1, <3>2
        <3>. QED BY <2>1, <2>3, <3>1, <3>3 DEF Live
    <2>. QED BY <2>1, <2>6 DEF EndedInv
<1>2. ASSUME NEW t \in Upto(mergeThreads), MergeEnd(t)
      PROVE  EndedInv'
    <2>1. /\ phase = "merge" /\ Live(t) = {} /\ merged' = merged \cup {t}
          /\ UNCHANGED <<mergeThreads, mergeLen, mergeIn, mergePos>>
        BY <1>2 DEF MergeEnd
    <2>2. \A s : Live(s)' = Live(s)
        BY <2>1 DEF Live, Inputs, First, Count, Length, ModLen, ShortRound
    <2>. QED BY <2>1, <2>2 DEF EndedInv
<1>3. CASE StartMerge \/ EndRound
    <2>1. phase' = "done" \/ merged' = {}
        BY <1>3 DEF StartMerge, EndRound, StartRound
    <2>. QED BY <2>1 DEF EndedInv
<1>4. CASE \/ StartMap \/ StartReduce \/ \E t \in Upto(mapThreads) : MapTask(t)
           \/ \E t \in Upto(reduceThreads) : ReduceTask(t)
    <2>1. phase' # "merge"
        BY <1>4 DEF StartMap, StartReduce, MapTask, ReduceTask, StartWorkers
    <2>. QED BY <2>1 DEF EndedInv
<1>5. CASE UNCHANGED vars
    <2>1. UNCHANGED <<phase, mergeThreads, mergeLen, mergeIn, mergePos, merged>>
        BY <1>5 DEF vars, mergeVars
    <2>2. \A s : Live(s)' = Live(s)
        BY <2>1 DEF Live, Inputs, First, Count, Length, ModLen, ShortRound
    <2>. QED BY <2>1, <2>2 DEF EndedInv
<1>6. CASE Terminated
    BY <1>5, <1>6 DEF Terminated
<1>. QED BY <1>1, <1>2, <1>3, <1>4, <1>5, <1>6 DEF Next, Step

LEMMA UnitStep ==
    ASSUME KInv, EndedInv, EveryTaskQueued, NEW u \in 1 .. units, UnitAt(u), [Next]_vars
    PROVE  UnitAt(u)'
<1>1. CASE StartMap
    <2>1. phase' \in {"map", "aborted"}
        BY <1>1 DEF StartMap, StartWorkers
    <2>2. phase' = "map" => MapUnit(u)'
        BY <1>1, MapStarts
    <2>. QED BY <2>1, <2>2 DEF UnitAt
<1>2. ASSUME NEW t \in Upto(mapThreads), MapTask(t)
      PROVE  UnitAt(u)'
    <2>1. phase = "map" /\ phase' = "map"
        BY <1>2 DEF MapTask
    <2>2. MapUnit(u)'
        BY <1>2, <2>1, MapKeeps DEF UnitAt
    <2>. QED BY <2>1, <2>2 DEF UnitAt
<1>3. CASE StartReduce
    <2>1. phase = "map" /\ phase' \in {"reduce", "aborted"}
        BY <1>3 DEF StartReduce, StartWorkers
    <2>2. ReduceUnit(u)'
        BY <1>3, <2>1, ReduceStarts DEF UnitAt
    <2>. QED BY <2>1, <2>2 DEF UnitAt
<1>4. ASSUME NEW t \in Upto(reduceThreads), ReduceTask(t)
      PROVE  UnitAt(u)'
    <2>1. phase = "reduce" /\ phase' = "reduce"
        BY <1>4 DEF ReduceTask
    <2>2. ReduceUnit(u)'
        BY <1>4, <2>1, ReduceKeeps DEF UnitAt
    <2>. QED BY <2>1, <2>2 DEF UnitAt
<1>5. CASE StartMerge
    <2>1. phase = "reduce"
        BY <1>5 DEF StartMerge
    <2>. QED BY <1>5, <2>1, MergeStarts DEF UnitAt
<1>6. ASSUME NEW t \in Upto(mergeThreads), MergeStep(t)
      PROVE  UnitAt(u)'
    <2>1. phase = "merge" /\ phase' = "merge"
        BY <1>6 DEF MergeStep
    <2>2. MergeUnit(u)'
        BY <1>6, <2>1, MergeKeeps DEF UnitAt
    <2>. QED BY <2>1, <2>2 DEF UnitAt
<1>7. ASSUME NEW t \in Upto(mergeThreads), MergeEnd(t)
      PROVE  UnitAt(u)'
    <2>1. /\ phase = "merge" /\ phase' = "merge"
          /\ UNCHANGED <<mergeThreads, mergeLen, mergeIn, mergePos, mergeVals>>
        BY <1>7 DEF MergeEnd
    <2>2. MergeUnit(u)'
        BY <2>1 DEF UnitAt, MergeUnit, InRest, InVals, Unread, Held, Upto, Has, Single
    <2>. QED BY <2>1, <2>2 DEF UnitAt
<1>8. CASE EndRound
    <2>1. phase = "merge"
        BY <1>8 DEF EndRound
    <2>. QED BY <1>8, <2>1, RoundEnds DEF UnitAt
<1>9. CASE UNCHANGED vars
    BY <1>9 DEF vars, config, mergeVars, UnitAt, MapUnit, ReduceUnit, MergeUnit, InTasks,
                InInter, InFinal, InRest, InVals, InterOnce, Unread, Held, Upto, Has, Single,
                OutputArrays
<1>10. CASE Terminated
    BY <1>9, <1>10 DEF Terminated
<1>. QED BY <1>1, <1>2, <1>3, <1>4, <1>5, <1>6, <1>7, <1>8, <1>9, <1>10 DEF Next, Step

-----------------------------------------------------------------------------
(* One place means one copy *)

LEMMA HeldOne ==
    ASSUME NEW a, NEW u
    PROVE  /\ ~Has(a, u) => Held(u, a) = {}
           /\ Has(a, u) /\ Single(a, u) => \E n : Held(u, a) = {n}
    BY DEF Has, Single, Held

LEMMA InterCopies ==
    ASSUME NEW u, NEW T, NEW B
    PROVE  /\ InInter(u, T, B) = {} => HeldInter(u, T, B) = {}
           /\ \A x : InInter(u, T, B) = {x} /\ Single(inter[x[1]][x[2]], u)
                 => \E y : HeldInter(u, T, B) = {y}
<1>1. \A y : y \in HeldInter(u, T, B) <=>
               \E t \in T : \E b \in B : \E n \in Held(u, inter[t][b]) : y = <<t, b, n>>
    BY DEF HeldInter
<1>2. \A t \in T : \A b \in B : <<t, b>> \notin InInter(u, T, B) => Held(u, inter[t][b]) = {}
    BY HeldOne DEF InInter
<1>3. CASE InInter(u, T, B) = {}
    BY <1>1, <1>2, <1>3
<1>4. ASSUME NEW x, InInter(u, T, B) = {x}, Single(inter[x[1]][x[2]], u)
      PROVE  \E y : HeldInter(u, T, B) = {y}
    <2>1. PICK t \in T, b \in B : x = <<t, b>> /\ Has(inter[t][b], u)
        BY <1>4 DEF InInter
    <2>2. PICK n : Held(u, inter[t][b]) = {n}
        BY <1>4, <2>1, HeldOne
    <2>3. \A s \in T : \A c \in B : s # t \/ c # b => Held(u, inter[s][c]) = {}
        BY <1>2, <1>4, <2>1
    <2>4. \A y : y \in HeldInter(u, T, B) <=> y = <<t, b, n>>
        BY <1>1, <2>2, <2>3
    <2>5. HeldInter(u, T, B) = {<<t, b, n>>}
        BY <2>4
    <2>. QED BY <2>5
<1>5. \A x : InInter(u, T, B) = {x} => InInter(u, T, B) # {}
    OBVIOUS
<1>. QED BY <1>3, <1>4, <1>5

LEMMA ArraysCopies ==
    ASSUME NEW u, NEW arrays, NEW I, DOMAIN arrays = I
    PROVE  /\ {i \in I : Has(arrays[i], u)} = {} => HeldIn(u, arrays) = {}
           /\ \A x : {i \in I : Has(arrays[i], u)} = {x} /\ Single(arrays[x], u)
                 => \E y : HeldIn(u, arrays) = {y}
<1>1. \A y : y \in HeldIn(u, arrays) <=> \E i \in I : \E n \in Held(u, arrays[i]) : y = <<i, n>>
    BY DEF HeldIn
<1>2. \A i \in I : ~Has(arrays[i], u) => Held(u, arrays[i]) = {}
    BY HeldOne
<1>3. ASSUME {i \in I : Has(arrays[i], u)} = {}
      PROVE  HeldIn(u, arrays) = {}
    BY <1>1, <1>2, <1>3
<1>4. ASSUME NEW x, {i \in I : Has(arrays[i], u)} = {x}, Single(arrays[x], u)
      PROVE  \E y : HeldIn(u, arrays) = {y}
    <2>1. x \in I /\ Has(arrays[x], u) /\ \A i \in I \ {x} : ~Has(arrays[i], u)
        BY <1>4
    <2>2. PICK n : Held(u, arrays[x]) = {n}
        BY <1>4, <2>1, HeldOne
    <2>3. \A y : y \in HeldIn(u, arrays) <=> y = <<x, n>>
        BY <1>1, <1>2, <2>1, <2>2
    <2>4. HeldIn(u, arrays) = {<<x, n>>}
        BY <2>3
    <2>. QED BY <2>4
<1>. QED BY <1>3, <1>4

LEMMA RestCopies ==
    ASSUME KInv, phase = "merge", NEW u
    PROVE  /\ InRest(u) = {} => HeldUnread(u) = {}
           /\ \A x : InRest(u) = {x} /\ Single(mergeIn[x], u) => \E y : HeldUnread(u) = {y}
<1>1. \A y : y \in HeldUnread(u) <=>
               \E t \in Upto(mergeThreads) : \E i \in Inputs(t) : \E n \in Unread(u, i) : y = <<t, i, n>>
    BY DEF HeldUnread
<1>2. \A t \in Upto(mergeThreads) : \A i \in Inputs(t) :
          i \in Upto(mergeLen) /\ (i \notin InRest(u) => Unread(u, i) = {})
    BY RoundCovers DEF InRest
<1>3. ASSUME InRest(u) = {}
      PROVE  HeldUnread(u) = {}
    BY <1>1, <1>2, <1>3
<1>4. ASSUME NEW x, InRest(u) = {x}, Single(mergeIn[x], u)
      PROVE  \E y : HeldUnread(u) = {y}
    <2>1. x \in Upto(mergeLen) /\ Unread(u, x) # {}
        BY <1>4 DEF InRest
    <2>2. PICK t \in Upto(mergeThreads) :
              x \in Inputs(t) /\ \A s \in Upto(mergeThreads) \ {t} : x \notin Inputs(s)
        BY <2>1, RoundCovers
    <2>3. PICK n : Unread(u, x) = {n}
        <3>1. PICK n : n \in Unread(u, x)
            BY <2>1
        <3>2. \A m \in Unread(u, x) : m = n
            BY <1>4, <3>1 DEF Unread, Held, Single
        <3>3. Unread(u, x) = {n}
            BY <3>1, <3>2
        <3>. QED BY <3>3
    <2>4. \A y : y \in HeldUnread(u) <=> y = <<t, x, n>>
        BY <1>1, <1>2, <1>4, <2>2, <2>3
    <2>5. HeldUnread(u) = {<<t, x, n>>}
        BY <2>4
    <2>. QED BY <2>5
<1>. QED BY <1>3, <1>4

LEMMA OneCopy ==
    ASSUME KInv, phase \in {"map", "reduce", "merge", "done"},
           NEW u \in 1 .. units, UnitAt(u)
    PROVE  Cardinality(Copies(u)) = 1
<1>1. SUFFICES \E y : Copies(u) = {y}
    BY FS_Singleton
<1>2. CASE phase = "map"
    <2>1. PICK A, H : /\ A = {<<"task", task>> : task \in InTasks(u)}
                      /\ H = HeldInter(u, DOMAIN inter, Upto(reduceTasks))
        OBVIOUS
    <2>2. Copies(u) = A \cup H
        BY <1>2, <2>1 DEF Copies, InTasks
    <2>3. CASE \E x : InTasks(u) = {x} /\ InInter(u, DOMAIN inter, Upto(reduceTasks)) = {}
        <3>1. PICK x : InTasks(u) = {x}
            BY <2>3
        <3>2. A = {<<"task", x>>} /\ H = {}
            BY <2>1, <2>3, <3>1, InterCopies
        <3>. QED BY <2>2, <3>2
    <2>4. CASE \E x : InInter(u, DOMAIN inter, Upto(reduceTasks)) = {x} /\ InTasks(u) = {}
        <3>1. PICK x : InInter(u, DOMAIN inter, Upto(reduceTasks)) = {x}
            BY <2>4
        <3>2. Single(inter[x[1]][x[2]], u)
            <4>1. x[1] \in DOMAIN inter /\ x[2] \in Upto(reduceTasks)
                BY <3>1 DEF InInter
            <4>. QED BY <1>2, <4>1 DEF UnitAt, MapUnit, InterOnce
        <3>3. PICK y : H = {y}
            BY <2>1, <3>1, <3>2, InterCopies
        <3>4. A = {}
            BY <2>1, <2>4
        <3>. QED BY <2>2, <3>3, <3>4
    <2>. QED BY <1>2, <2>3, <2>4 DEF UnitAt, MapUnit, OneOf
<1>3. CASE phase = "reduce"
    <2>1. PICK H, G : H = HeldInter(u, Upto(mapThreads), taskQueue) /\ G = HeldIn(u, final)
        OBVIOUS
    <2>2. Copies(u) = H \cup G
        BY <1>3, <2>1 DEF Copies
    <2>3. /\ DOMAIN final = Upto(OutputArrays)
          /\ InFinal(u) = {i \in Upto(OutputArrays) : Has(final[i], u)}
          /\ Upto(mapThreads) \subseteq DOMAIN inter /\ taskQueue \subseteq Upto(reduceTasks)
        BY <1>3 DEF KInv, SortInv, InterInv, IInv, TypeOK, InFinal
    <2>4. CASE \E x : InInter(u, Upto(mapThreads), taskQueue) = {x} /\ InFinal(u) = {}
        <3>1. PICK x : InInter(u, Upto(mapThreads), taskQueue) = {x}
            BY <2>4
        <3>2. Single(inter[x[1]][x[2]], u)
            <4>1. x[1] \in DOMAIN inter /\ x[2] \in Upto(reduceTasks)
                BY <2>3, <3>1 DEF InInter
            <4>. QED BY <1>3, <4>1 DEF UnitAt, ReduceUnit, InterOnce
        <3>3. PICK y : H = {y}
            BY <2>1, <3>1, <3>2, InterCopies
        <3>4. G = {}
            BY <2>1, <2>3, <2>4, ArraysCopies
        <3>. QED BY <2>2, <3>3, <3>4
    <2>5. CASE \E x : InFinal(u) = {x} /\ InInter(u, Upto(mapThreads), taskQueue) = {}
        <3>1. PICK x : InFinal(u) = {x}
            BY <2>5
        <3>2. Single(final[x], u)
            BY <1>3, <3>1 DEF UnitAt, ReduceUnit, InFinal
        <3>3. PICK y : G = {y}
            BY <2>1, <2>3, <3>1, <3>2, ArraysCopies
        <3>4. H = {}
            BY <2>1, <2>5, InterCopies
        <3>. QED BY <2>2, <3>3, <3>4
    <2>. QED BY <1>3, <2>4, <2>5 DEF UnitAt, ReduceUnit, OneOf
<1>4. CASE phase = "merge"
    <2>1. PICK H, G : H = HeldUnread(u) /\ G = HeldIn(u, mergeVals)
        OBVIOUS
    <2>2. Copies(u) = H \cup G
        BY <1>4, <2>1 DEF Copies
    <2>3. /\ DOMAIN mergeVals = Upto(mergeThreads)
          /\ InVals(u) = {t \in Upto(mergeThreads) : Has(mergeVals[t], u)}
        BY <1>4 DEF KInv, SortInv, OutputsSorted, InVals
    <2>4. CASE \E x : InRest(u) = {x} /\ InVals(u) = {}
        <3>1. PICK x : InRest(u) = {x}
            BY <2>4
        <3>2. Single(mergeIn[x], u)
            BY <1>4, <3>1 DEF UnitAt, MergeUnit, InRest
        <3>3. PICK y : H = {y}
            BY <1>4, <2>1, <3>1, <3>2, RestCopies
        <3>4. G = {}
            BY <2>1, <2>3, <2>4, ArraysCopies
        <3>. QED BY <2>2, <3>3, <3>4
    <2>5. CASE \E x : InVals(u) = {x} /\ InRest(u) = {}
        <3>1. PICK x : InVals(u) = {x}
            BY <2>5
        <3>2. Single(mergeVals[x], u)
            BY <1>4, <3>1 DEF UnitAt, MergeUnit, InVals
        <3>3. PICK y : G = {y}
            BY <2>1, <2>3, <3>1, <3>2, ArraysCopies
        <3>4. H = {}
            BY <1>4, <2>1, <2>5, RestCopies
        <3>. QED BY <2>2, <3>3, <3>4
    <2>. QED BY <1>4, <2>4, <2>5 DEF UnitAt, MergeUnit, OneOf
<1>5. CASE phase = "done"
    <2>1. Copies(u) = Held(u, result)
        BY <1>5 DEF Copies
    <2>. QED BY <1>5, <2>1, HeldOne DEF UnitAt
<1>. QED BY <1>2, <1>3, <1>4, <1>5

(* If no call has more map threads than reduce threads, each unit is       *)
(* emitted, reduced and merged exactly once.                               *)
THEOREM UnitsOnce ==
    ASSUME \A a \in Args : a.mapThreads <= a.reduceThreads
    PROVE  Spec => []EachUnitOnce
<1>. DEFINE Inv == /\ KInv /\ EndedInv /\ mapThreads <= reduceThreads
                   /\ \A u \in 1 .. units : UnitAt(u)
<1>1. Init => Inv
    <2>1. Init => SortInv
        BY DEF Init, SortInv, OutputArrays
    <2>2. Init => mapThreads <= reduceThreads /\ phase = "init"
        BY DEF Init
    <2>. QED BY <2>1, <2>2, Initially, DataInitially DEF KInv, EndedInv, UnitAt
<1>2. Inv /\ [Next]_vars => Inv'
    <2>. SUFFICES ASSUME Inv, [Next]_vars PROVE Inv'
        OBVIOUS
    <2>1. KInv'
        <3>1. IInv'
            BY Inductive DEF KInv
        <3>. QED BY <3>1, SortStep, DataStep DEF KInv
    <2>2. EndedInv'
        BY EndedStep
    <2>3. mapThreads' <= reduceThreads' /\ EveryTaskQueued
        <3>1. IInv /\ mapThreads \in Nat /\ reduceThreads \in Nat \ {0} /\ reduceTasks \in Nat \ {0}
            BY DEF KInv, IInv, TypeOK
        <3>. QED BY <3>1, MapThreadsShrink, AllQueued
    <2>4. ASSUME NEW u \in 1 .. units'
          PROVE  UnitAt(u)'
        <3>1. units' = units
            BY DEF Next, Step, StartMap, MapTask, StartReduce, ReduceTask, StartMerge,
                   MergeStep, MergeEnd, EndRound, Terminated, vars, config
        <3>. QED BY <2>3, <3>1, UnitStep
    <2>. QED BY <2>1, <2>2, <2>3, <2>4
<1>3. Inv => EachUnitOnce
    BY OneCopy DEF EachUnitOnce
<1>. QED BY <1>1, <1>2, <1>3, PTL DEF Spec

-----------------------------------------------------------------------------
(* The binary search *)

(* The ranges [low, high] of at most n positions in an array of N entries. *)
Ranges(N, n) == {r \in (-1 .. N) \X (0 .. N) : r[2] - r[1] <= n}

Middle(r) == (r[2] + r[1]) \div 2

SearchFrom(a, k, f, r) ==
    IF r[2] - r[1] > 1
      THEN IF a[Middle(r) + 1].key > k THEN f[<<r[1], Middle(r)>>] ELSE f[<<Middle(r), r[2]>>]
      ELSE r[1]

Search(a, k, N) ==
    CHOOSE f : f = [r \in (-1 .. N) \X (0 .. N) |-> SearchFrom(a, k, f, r)]

LEMMA Halves ==
    ASSUME NEW N \in Nat, NEW r \in (-1 .. N) \X (0 .. N), r[2] - r[1] > 1
    PROVE  /\ Middle(r) \in Int /\ r[1] < Middle(r) /\ Middle(r) < r[2]
           /\ <<r[1], Middle(r)>> \in (-1 .. N) \X (0 .. N)
           /\ <<Middle(r), r[2]>> \in (-1 .. N) \X (0 .. N)
           /\ Middle(r) - r[1] < r[2] - r[1]
           /\ r[2] - Middle(r) < r[2] - r[1]
<1>1. PICK low \in -1 .. N, high \in 0 .. N : r = <<low, high>>
    OBVIOUS
<1>2. high - low > 1
    BY <1>1
<1>3. PICK m \in Int : m = (high + low) \div 2
    OBVIOUS
<1>4. low < m /\ m < high
    BY <1>2, <1>3
<1>5. Middle(r) = m
    BY <1>1, <1>3 DEF Middle
<1>. QED BY <1>1, <1>4, <1>5

LEMMA SearchExists ==
    ASSUME NEW a, NEW k, NEW N \in Nat
    PROVE  \A r \in (-1 .. N) \X (0 .. N) :
              Search(a, k, N)[r] = SearchFrom(a, k, Search(a, k, N), r)
<1>. DEFINE To(n) == \E f : f = [r \in Ranges(N, n) |-> SearchFrom(a, k, f, r)]
            Bad == {n \in 0 .. N + 1 : ~To(n)}
<1>1. To(0)
    <2>. DEFINE g == [r \in Ranges(N, 0) |-> r[1]]
    <2>1. ASSUME NEW r \in Ranges(N, 0)
          PROVE  g[r] = SearchFrom(a, k, g, r)
        <3>1. PICK low \in -1 .. N, high \in 0 .. N : r = <<low, high>>
            BY DEF Ranges
        <3>2. ~(r[2] - r[1] > 1)
            BY <3>1 DEF Ranges
        <3>. QED BY <3>2 DEF SearchFrom
    <2>2. g = [r \in Ranges(N, 0) |-> SearchFrom(a, k, g, r)]
        BY <2>1
    <2>. HIDE DEF g
    <2>. QED BY <2>2
<1>2. ASSUME NEW n \in Nat, To(n)
      PROVE  To(n + 1)
    <2>1. PICK f : f = [r \in Ranges(N, n) |-> SearchFrom(a, k, f, r)]
        BY <1>2
    <2>. DEFINE g == [r \in Ranges(N, n + 1) |->
                        IF r \in Ranges(N, n) THEN f[r] ELSE SearchFrom(a, k, f, r)]
    <2>2. ASSUME NEW r \in Ranges(N, n + 1)
          PROVE  g[r] = SearchFrom(a, k, g, r)
        <3>1. g[r] = SearchFrom(a, k, f, r)
            BY <2>1
        <3>2. CASE r[2] - r[1] > 1
            <4>1. PICK low \in -1 .. N, high \in 0 .. N : r = <<low, high>>
                BY DEF Ranges
            <4>2. r[2] - r[1] <= n + 1 /\ r \in (-1 .. N) \X (0 .. N)
                BY DEF Ranges
            <4>3. /\ <<r[1], Middle(r)>> \in Ranges(N, n)
                  /\ <<Middle(r), r[2]>> \in Ranges(N, n)
                <5>1. PICK m \in Int : m = Middle(r)
                    BY <3>2, <4>2, Halves
                <5>2. /\ <<low, m>> \in (-1 .. N) \X (0 .. N) /\ m - low < high - low
                      /\ <<m, high>> \in (-1 .. N) \X (0 .. N) /\ high - m < high - low
                    BY <3>2, <4>1, <4>2, <5>1, Halves
                <5>3. m - low <= n /\ high - m <= n
                    BY <4>1, <4>2, <5>2
                <5>. QED BY <4>1, <5>1, <5>2, <5>3 DEF Ranges
            <4>4. Ranges(N, n) \subseteq Ranges(N, n + 1)
                BY DEF Ranges
            <4>5. /\ g[<<r[1], Middle(r)>>] = f[<<r[1], Middle(r)>>]
                  /\ g[<<Middle(r), r[2]>>] = f[<<Middle(r), r[2]>>]
                BY <4>3, <4>4
            <4>. QED BY <3>1, <4>5 DEF SearchFrom
        <3>3. CASE ~(r[2] - r[1] > 1)
            BY <3>1, <3>3 DEF SearchFrom
        <3>. QED BY <3>2, <3>3
    <2>3. g = [r \in Ranges(N, n + 1) |-> SearchFrom(a, k, g, r)]
        BY <2>2
    <2>. HIDE DEF g
    <2>. QED BY <2>3
<1>. HIDE DEF To
<1>3. Bad = {}
    <2>. SUFFICES ASSUME Bad # {}
                  PROVE  FALSE
        OBVIOUS
    <2>1. PICK n \in Bad : \A m \in Bad : n <= m
        BY Least, Bad \in SUBSET Nat
    <2>2. n \in Nat /\ n # 0 /\ n \in 0 .. N + 1 /\ ~To(n)
        BY <1>1
    <2>3. n - 1 \in 0 .. N + 1 /\ n - 1 \in Nat /\ ~(n <= n - 1) /\ (n - 1) + 1 = n
        BY <2>2
    <2>4. To(n - 1)
        BY <2>1, <2>3
    <2>. QED BY <1>2, <2>2, <2>3, <2>4
<1>4. To(N + 1)
    BY <1>3
<1>5. Ranges(N, N + 1) = (-1 .. N) \X (0 .. N)
    BY DEF Ranges
<1>6. PICK f : f = Search(a, k, N)
    OBVIOUS
<1>7. f = [r \in (-1 .. N) \X (0 .. N) |-> SearchFrom(a, k, f, r)]
    BY <1>4, <1>5, <1>6, Zenon DEF To, Search
<1>8. \A r \in (-1 .. N) \X (0 .. N) : f[r] = SearchFrom(a, k, f, r)
    BY <1>7, Zenon
<1>. QED BY <1>6, <1>8

(* The position found: keys up to it are not larger than k, the next is.   *)
SearchFound(a, k, N, low) ==
    /\ low \in -1 .. N - 1
    /\ low # -1 => a[low + 1].key <= k
    /\ low + 1 # N => a[low + 2].key > k

(* The loop of the binary search keeps that the keys at its lower end are  *)
(* not larger than k and those at its upper end are; the smallest range on *)
(* which it would end elsewhere does not exist.                            *)
LEMMA SearchIs ==
    ASSUME NEW a, NEW k \in Int, NEW N \in Nat, \A n \in 1 .. N : a[n].key \in Int
    PROVE  SearchFound(a, k, N, Search(a, k, N)[<<-1, N>>])
<1>1. PICK f : f = Search(a, k, N)
    OBVIOUS
<1>2. \A r \in (-1 .. N) \X (0 .. N) : f[r] = SearchFrom(a, k, f, r)
    BY <1>1, SearchExists
<1>. DEFINE Pre(r) == /\ r[1] < r[2]
                      /\ r[1] # -1 => a[r[1] + 1].key <= k
                      /\ r[2] # N => a[r[2] + 1].key > k
            Bad == {n \in Nat : \E r \in (-1 .. N) \X (0 .. N) :
                        n = r[2] - r[1] /\ Pre(r) /\ ~SearchFound(a, k, N, f[r])}
<1>3. Bad = {}
    <2>. SUFFICES ASSUME Bad # {}
                  PROVE  FALSE
        OBVIOUS
    <2>1. PICK n \in Bad : \A m \in Bad : n <= m
        BY Least, Bad \in SUBSET Nat
    <2>2. PICK r \in (-1 .. N) \X (0 .. N) :
             n = r[2] - r[1] /\ Pre(r) /\ ~SearchFound(a, k, N, f[r])
        OBVIOUS
    <2>3. PICK low \in -1 .. N, high \in 0 .. N : r = <<low, high>>
        OBVIOUS
    <2>4. n = high - low /\ low < high /\ n \in Nat
        BY <2>2, <2>3
    <2>5. \A s \in (-1 .. N) \X (0 .. N) :
             Pre(s) /\ s[2] - s[1] \in Nat /\ s[2] - s[1] < n => SearchFound(a, k, N, f[s])
        <3>. SUFFICES ASSUME NEW s \in (-1 .. N) \X (0 .. N), Pre(s),
                             s[2] - s[1] \in Nat, s[2] - s[1] < n,
                             ~SearchFound(a, k, N, f[s])
                      PROVE  FALSE
            OBVIOUS
        <3>1. s[2] - s[1] \in Bad
            OBVIOUS
        <3>. QED BY <2>1, <2>4, <3>1
    <2>6. CASE high - low > 1
        <3>1. PICK m \in Int : m = Middle(r)
            BY <2>3, <2>6, Halves
        <3>2. /\ low < m /\ m < high
              /\ <<low, m>> \in (-1 .. N) \X (0 .. N) /\ m - low < high - low
              /\ <<m, high>> \in (-1 .. N) \X (0 .. N) /\ high - m < high - low
            BY <2>3, <2>6, <3>1, Halves
        <3>3. m + 1 \in 1 .. N /\ m # -1 /\ m # N /\ m - low \in Nat /\ high - m \in Nat
            BY <3>2
        <3>4. PICK v \in Int : v = a[m + 1].key
            BY <3>3
        <3>5. CASE v > k
            <4>1. Pre(<<low, m>>)
                BY <2>2, <2>3, <3>2, <3>4, <3>5
            <4>2. SearchFound(a, k, N, f[<<low, m>>])
                BY <2>4, <2>5, <3>2, <3>3, <4>1
            <4>3. f[r] = f[<<low, m>>]
                BY <1>2, <2>3, <2>6, <3>1, <3>4, <3>5 DEF SearchFrom
            <4>. QED BY <2>2, <4>2, <4>3
        <3>6. CASE ~(v > k)
            <4>1. Pre(<<m, high>>)
                BY <2>2, <2>3, <3>2, <3>4, <3>6
            <4>2. SearchFound(a, k, N, f[<<m, high>>])
                BY <2>4, <2>5, <3>2, <3>3, <4>1
            <4>3. f[r] = f[<<m, high>>]
                BY <1>2, <2>3, <2>6, <3>1, <3>4, <3>6 DEF SearchFrom
            <4>. QED BY <2>2, <4>2, <4>3
        <3>. QED BY <3>5, <3>6
    <2>7. CASE ~(high - low > 1)
        <3>1. f[r] = low
            BY <1>2, <2>3, <2>7 DEF SearchFrom
        <3>2. high = low + 1 /\ low \in -1 .. N - 1
            BY <2>4, <2>7
        <3>3. (low # -1 => a[low + 1].key <= k) /\ (high # N => a[high + 1].key > k)
            BY <2>2, <2>3
        <3>4. high + 1 = low + 2 /\ (low + 1 # N => high # N)
            BY <3>2
        <3>. QED BY <2>2, <3>1, <3>2, <3>3, <3>4 DEF SearchFound
    <2>. QED BY <2>6, <2>7
<1>4. Pre(<<-1, N>>) /\ N - (-1) \in Nat /\ <<-1, N>> \in (-1 .. N) \X (0 .. N)
    OBVIOUS
<1>. HIDE DEF Pre
<1>. QED BY <1>1, <1>3, <1>4

LEMMA BinarySearchIs ==
    ASSUME NEW a, NEW k \in Int, NEW N \in Nat, N = Len(a), \A n \in 1 .. N : a[n].key \in Int
    PROVE  SearchFound(a, k, N, BinarySearch(a, k))
<1>1. BinarySearch(a, k) = Search(a, k, Len(a))[<<-1, Len(a)>>]
    BY Zenon DEF BinarySearch, Search, SearchFrom, Middle
<1>. QED BY <1>1, SearchIs

(* In an array in ascending order InsertPos tells where the key is or goes. *)
Ascending(a) == \A m, n \in DOMAIN a : m < n => a[m].key < a[n].key

Position(a, k, N, low, found) ==
    /\ InsertPos(a, k) = [low |-> low, found |-> found]
    /\ \A n \in 1 .. low : a[n].key < k
    /\ found => low < N /\ a[low + 1].key = k
    /\ ~found => \A n \in low + 1 .. N : k < a[n].key

(* The corrections that insert_keyval_merged makes after its search find   *)
(* the place of every key, at both ends of an array too.                   *)
LEMMA InsertPosIs ==
    ASSUME NEW a, NEW k \in Int, NEW N \in Nat, N = Len(a), DOMAIN a = 1 .. N,
           \A n \in 1 .. N : a[n].key \in Int, Ascending(a)
    PROVE  \E low \in 0 .. N : \E found \in BOOLEAN : Position(a, k, N, low, found)
<1>1. PICK b : b = BinarySearch(a, k)
    OBVIOUS
<1>2. SearchFound(a, k, N, b)
    BY <1>1, BinarySearchIs
<1>3. \A m, n \in 1 .. N : m < n => a[m].key < a[n].key
    BY DEF Ascending
<1>4. CASE N = 0
    <2>1. InsertPos(a, k) = [low |-> 0, found |-> FALSE]
        BY <1>4 DEF InsertPos
    <2>2. Position(a, k, N, 0, FALSE) /\ 0 \in 0 .. N
        BY <1>4, <2>1 DEF Position
    <2>. QED BY <2>2
<1>5. CASE N # 0 /\ a[N].key < k
    <2>1. InsertPos(a, k) = [low |-> N, found |-> FALSE]
        BY <1>5 DEF InsertPos
    <2>2. \A n \in 1 .. N : a[n].key < k
        BY <1>3, <1>5
    <2>3. Position(a, k, N, N, FALSE) /\ N \in 0 .. N
        BY <2>1, <2>2 DEF Position
    <2>. QED BY <2>3
<1>6. CASE N # 0 /\ ~(a[N].key < k) /\ a[N].key = k
    <2>1. InsertPos(a, k) = [low |-> N - 1, found |-> TRUE]
        BY <1>6 DEF InsertPos
    <2>2. \A n \in 1 .. N - 1 : a[n].key < k
        BY <1>3, <1>6
    <2>3. Position(a, k, N, N - 1, TRUE) /\ N - 1 \in 0 .. N
        <3>1. N - 1 < N /\ (N - 1) + 1 = N /\ N - 1 \in 0 .. N
            BY <1>6
        <3>. QED BY <1>6, <2>1, <2>2, <3>1 DEF Position
    <2>. QED BY <2>3
<1>7. CASE N # 0 /\ ~(a[N].key < k) /\ a[N].key # k
    <2>1. PICK low \in 0 .. N - 1 : low = IF b < 0 THEN 0 ELSE b
        BY <1>2, <1>7 DEF SearchFound
    <2>2. InsertPos(a, k) = IF a[low + 1].key < k THEN [low |-> low + 1, found |-> FALSE]
                            ELSE [low |-> low, found |-> a[low + 1].key = k]
        BY <1>1, <1>7, <2>1 DEF InsertPos
    <2>3. CASE b = -1
        <3>1. low = 0 /\ a[1].key > k
            BY <1>2, <1>7, <2>1, <2>3 DEF SearchFound
        <3>2. \A n \in 1 .. N : k < a[n].key
            BY <1>3, <1>7, <3>1
        <3>3. InsertPos(a, k) = [low |-> 0, found |-> FALSE]
            <4>1. low + 1 = 1 /\ ~(a[1].key < k) /\ a[1].key # k
                BY <1>7, <3>1, <3>2
            <4>. QED BY <2>2, <3>1, <4>1
        <3>4. Position(a, k, N, 0, FALSE) /\ 0 \in 0 .. N
            BY <3>2, <3>3 DEF Position
        <3>. QED BY <3>4
    <2>4. CASE b # -1
        <3>1. b = low /\ a[low + 1].key <= k /\ (low + 1 # N => a[low + 2].key > k)
            BY <1>2, <2>1, <2>4 DEF SearchFound
        <3>2. low + 1 # N
            BY <1>7, <3>1
        <3>3. \A n \in low + 2 .. N : k < a[n].key
            <4>. SUFFICES ASSUME NEW n \in low + 2 .. N
                          PROVE  k < a[n].key
                OBVIOUS
            <4>1. low + 2 \in 1 .. N /\ n \in 1 .. N /\ a[low + 2].key > k
                BY <2>1, <3>1, <3>2
            <4>2. low + 2 = n \/ a[low + 2].key < a[n].key
                BY <1>3, <4>1
            <4>3. a[low + 2].key \in Int /\ a[n].key \in Int
                BY <4>1
            <4>. QED BY <4>1, <4>2, <4>3
        <3>4. CASE a[low + 1].key < k
            <4>1. InsertPos(a, k) = [low |-> low + 1, found |-> FALSE]
                BY <2>2, <3>4
            <4>2. \A n \in 1 .. low + 1 : a[n].key < k
                BY <1>3, <2>1, <3>4
            <4>3. (low + 1) + 1 = low + 2 /\ low + 1 \in 0 .. N
                BY <2>1
            <4>4. Position(a, k, N, low + 1, FALSE)
                BY <3>3, <4>1, <4>2, <4>3 DEF Position
            <4>. QED BY <4>3, <4>4
        <3>5. CASE ~(a[low + 1].key < k)
            <4>1. a[low + 1].key = k
                <5>1. a[low + 1].key \in Int
                    BY <2>1
                <5>. QED BY <3>1, <3>5, <5>1
            <4>2. InsertPos(a, k) = [low |-> low, found |-> TRUE]
                BY <2>2, <3>5, <4>1
            <4>3. \A n \in 1 .. low : a[n].key < k
                BY <1>3, <2>1, <4>1
            <4>4. low < N /\ low \in 0 .. N
                BY <2>1
            <4>5. Position(a, k, N, low, TRUE)
                BY <4>1, <4>2, <4>3, <4>4 DEF Position
            <4>. QED BY <4>4, <4>5
        <3>. QED BY <3>4, <3>5
    <2>. QED BY <2>3, <2>4
<1>. QED BY <1>4, <1>5, <1>6, <1>7

-----------------------------------------------------------------------------
(* The values of an entry.  A list of chunks has slots for values, each of *)
(* which stands for some emits.                                            *)

Chunk == [size : Nat, array : Seq(SUBSET Nat)]
Slot(s, c, m) == c \in DOMAIN s /\ m \in DOMAIN s[c].array
ValueAt(s, c, m) == s[c].array[m]
SlotHas(s, c, m, i) == Slot(s, c, m) /\ i \in ValueAt(s, c, m)
Holds(s, i) == \E c, m \in Nat : SlotHas(s, c, m, i)
Once(s, i) ==
    \A c, m, d, l \in Nat : SlotHas(s, c, m, i) /\ SlotHas(s, d, l, i) => c = d /\ m = l
Full(s) ==
    /\ \A c \in DOMAIN s : s[c].array # <<>>
    /\ \A c, m \in Nat : Slot(s, c, m) => ValueAt(s, c, m) # {}

LEMMA ChunkElements ==
    ASSUME NEW s \in Seq(Chunk)
    PROVE  /\ Len(s) \in Nat /\ DOMAIN s = 1 .. Len(s)
           /\ \A c \in 1 .. Len(s) :
                 /\ s[c] \in Chunk /\ s[c].size \in Nat
                 /\ s[c].array \in Seq(SUBSET Nat)
                 /\ Len(s[c].array) \in Nat /\ DOMAIN s[c].array = 1 .. Len(s[c].array)
                 /\ \A m \in 1 .. Len(s[c].array) : s[c].array[m] \in SUBSET Nat
<1>1. Len(s) \in Nat /\ DOMAIN s = 1 .. Len(s)
    OBVIOUS
<1>2. ASSUME NEW c \in 1 .. Len(s)
      PROVE  /\ s[c] \in Chunk /\ s[c].size \in Nat
             /\ s[c].array \in Seq(SUBSET Nat)
             /\ Len(s[c].array) \in Nat /\ DOMAIN s[c].array = 1 .. Len(s[c].array)
             /\ \A m \in 1 .. Len(s[c].array) : s[c].array[m] \in SUBSET Nat
    <2>1. s[c] \in Chunk
        OBVIOUS
    <2>2. s[c].size \in Nat /\ s[c].array \in Seq(SUBSET Nat)
        BY <2>1 DEF Chunk
    <2>. QED BY <2>1, <2>2, Elements
<1>. QED BY <1>1, <1>2

LEMMA SlotIn ==
    ASSUME NEW s \in Seq(Chunk), NEW c, NEW m, Slot(s, c, m)
    PROVE  /\ c \in 1 .. Len(s) /\ c \in Nat \ {0}
           /\ m \in 1 .. Len(s[c].array) /\ m \in Nat \ {0}
           /\ ValueAt(s, c, m) \in SUBSET Nat
<1>1. c \in 1 .. Len(s) /\ c \in Nat \ {0}
    BY ChunkElements DEF Slot
<1>2. m \in 1 .. Len(s[c].array) /\ s[c].array[m] \in SUBSET Nat
    BY <1>1, ChunkElements DEF Slot
<1>. QED BY <1>1, <1>2, ChunkElements DEF ValueAt

(* An empty chunk is put in front. *)
WithChunk(s, size) == <<[size |-> size, array |-> <<>>]>> \o s

(* A new, empty chunk in front of the others changes no value.             *)
LEMMA FrontChunk ==
    ASSUME NEW s \in Seq(Chunk), NEW size \in Nat, NEW r, r = WithChunk(s, size)
    PROVE  /\ r \in Seq(Chunk) /\ Len(r) = Len(s) + 1
           /\ \A i : (Holds(r, i) <=> Holds(s, i)) /\ (Once(s, i) => Once(r, i))
           /\ Full(s) => /\ \A c \in DOMAIN r : c # 1 => r[c].array # <<>>
                         /\ \A c, m \in Nat : Slot(r, c, m) => ValueAt(r, c, m) # {}
<1>. DEFINE x == [size |-> size, array |-> <<>>]
<1>1. <<x>> \in Seq(Chunk) /\ Len(<<x>>) = 1 /\ <<x>>[1] = x
    BY DEF Chunk
<1>2. PICK N \in Nat : N = Len(s) /\ DOMAIN s = 1 .. N
    OBVIOUS
<1>3. /\ r \in Seq(Chunk) /\ Len(r) = 1 + N
      /\ \A n \in 1 .. 1 : r[n] = <<x>>[n]
      /\ \A n \in 1 .. N : r[1 + n] = s[n]
    <2>1. PICK o : o = <<x>>
        OBVIOUS
    <2>2. o \in Seq(Chunk) /\ Len(o) = 1 /\ r = o \o s
        BY <1>1, <2>1 DEF WithChunk
    <2>3. /\ o \o s \in Seq(Chunk)
          /\ Len(o \o s) = Len(o) + Len(s)
          /\ \A n \in 1 .. Len(o) : (o \o s)[n] = o[n]
          /\ \A n \in 1 .. Len(s) : (o \o s)[Len(o) + n] = s[n]
        <3>1. o \in Seq(Chunk) /\ s \in Seq(Chunk)
            BY <2>2
        <3>. QED BY <3>1, Concat
    <2>. QED BY <1>2, <2>1, <2>2, <2>3
<1>4. DOMAIN r = 1 .. N + 1 /\ r[1].array = <<>>
    BY <1>1, <1>3
<1>5. ASSUME NEW c \in Nat, NEW m \in Nat, Slot(r, c, m)
      PROVE  c - 1 \in Nat /\ Slot(s, c - 1, m) /\ ValueAt(r, c, m) = ValueAt(s, c - 1, m)
    <2>1. c # 1
        BY <1>4, <1>5 DEF Slot
    <2>2. PICK d \in 1 .. N : d = c - 1 /\ c = 1 + d
        BY <1>4, <1>5, <2>1 DEF Slot
    <2>3. r[c] = s[d]
        BY <1>3, <2>2
    <2>. QED BY <1>2, <1>5, <2>2, <2>3 DEF Slot, ValueAt
<1>6. ASSUME NEW c \in Nat, NEW m \in Nat, Slot(s, c, m)
      PROVE  Slot(r, c + 1, m) /\ ValueAt(r, c + 1, m) = ValueAt(s, c, m)
    <2>1. c \in 1 .. N /\ c + 1 \in 1 .. N + 1 /\ c + 1 = 1 + c
        BY <1>2, <1>6 DEF Slot
    <2>2. r[c + 1] = s[c]
        BY <1>3, <2>1
    <2>. QED BY <1>4, <1>6, <2>1, <2>2 DEF Slot, ValueAt
<1>7. ASSUME NEW i
      PROVE  (Holds(r, i) <=> Holds(s, i)) /\ (Once(s, i) => Once(r, i))
    <2>1. ASSUME Holds(r, i) PROVE Holds(s, i)
        BY <1>5, <2>1 DEF Holds, SlotHas
    <2>2. ASSUME Holds(s, i) PROVE Holds(r, i)
        <3>1. PICK c \in Nat, m \in Nat : SlotHas(s, c, m, i)
            BY <2>2 DEF Holds
        <3>2. SlotHas(r, c + 1, m, i) /\ c + 1 \in Nat
            BY <1>6, <3>1 DEF SlotHas
        <3>. QED BY <3>2 DEF Holds
    <2>3. ASSUME Once(s, i) PROVE Once(r, i)
        <3>1. ASSUME NEW c \in Nat, NEW m \in Nat, NEW d \in Nat, NEW l \in Nat,
                     SlotHas(r, c, m, i), SlotHas(r, d, l, i)
              PROVE  c = d /\ m = l
            <4>1. /\ c - 1 \in Nat /\ SlotHas(s, c - 1, m, i)
                  /\ d - 1 \in Nat /\ SlotHas(s, d - 1, l, i)
                BY <1>5, <3>1 DEF SlotHas
            <4>2. c - 1 = d - 1 /\ m = l
                BY <2>3, <4>1 DEF Once
            <4>. QED BY <4>2
        <3>. QED BY <3>1 DEF Once
    <2>. QED BY <2>1, <2>2, <2>3
<1>8. ASSUME Full(s)
      PROVE  /\ \A c \in DOMAIN r : c # 1 => r[c].array # <<>>
             /\ \A c, m \in Nat : Slot(r, c, m) => ValueAt(r, c, m) # {}
    <2>1. ASSUME NEW c \in DOMAIN r, c # 1
          PROVE  r[c].array # <<>>
        <3>1. PICK d \in 1 .. N : c = 1 + d
            <4>1. c \in 1 .. N + 1 /\ c # 1
                BY <1>4, <2>1
            <4>2. c - 1 \in 1 .. N /\ c = 1 + (c - 1)
                BY <4>1
            <4>. QED BY <4>2
        <3>2. r[c] = s[d]
            BY <1>3, <3>1
        <3>. QED BY <1>2, <1>8, <3>2 DEF Full
    <2>2. ASSUME NEW c \in Nat, NEW m \in Nat, Slot(r, c, m)
          PROVE  ValueAt(r, c, m) # {}
        BY <1>5, <1>8, <2>2 DEF Full
    <2>. QED BY <2>1, <2>2
<1>. QED BY <1>2, <1>3, <1>7, <1>8

(* A value is put into the first chunk. *)
WithValue(s, v) == [s EXCEPT ![1].array = Append(@, v)]

(* A value put into the newest chunk is held once, the others stay.        *)
LEMMA FirstChunk ==
    ASSUME NEW s \in Seq(Chunk), s # <<>>, NEW v \in SUBSET Nat, NEW r,
           r = WithValue(s, v)
    PROVE  /\ r \in Seq(Chunk) /\ Len(r) = Len(s)
           /\ \A i : /\ Holds(r, i) <=> Holds(s, i) \/ i \in v
                     /\ Once(s, i) /\ ~(Holds(s, i) /\ i \in v) => Once(r, i)
           /\ /\ v # {}
              /\ \A c \in DOMAIN s : c # 1 => s[c].array # <<>>
              /\ \A c, m \in Nat : Slot(s, c, m) => ValueAt(s, c, m) # {}
              => Full(r)
<1>1. PICK N \in Nat : N = Len(s) /\ DOMAIN s = 1 .. N /\ 1 \in 1 .. N
    OBVIOUS
<1>2. PICK L \in Nat : L = Len(s[1].array)
    <2>1. Len(s[1].array) \in Nat
        BY <1>1, ChunkElements
    <2>. QED BY <2>1
<1>. DEFINE x == s[1].array
<1>3. x \in Seq(SUBSET Nat) /\ DOMAIN x = 1 .. L /\ s[1] \in Chunk
    BY <1>1, <1>2, ChunkElements
<1>. HIDE DEF x
<1>4. PICK y : y = Append(s[1].array, v)
    OBVIOUS
<1>5. /\ y \in Seq(SUBSET Nat) /\ DOMAIN y = 1 .. L + 1
      /\ \A m \in 1 .. L : y[m] = x[m]
      /\ y[L + 1] = v
    BY <1>2, <1>3, <1>4 DEF x
<1>6. PICK z : z = [s[1] EXCEPT !.array = y]
    OBVIOUS
<1>7. z \in Chunk /\ z.array = y
    BY <1>3, <1>5, <1>6 DEF Chunk
<1>8. r = [s EXCEPT ![1] = z]
    BY <1>2, <1>4, <1>6 DEF WithValue
<1>9. r \in Seq(Chunk) /\ Len(r) = N /\ DOMAIN r = 1 .. N
      /\ r[1] = z /\ \A c \in 1 .. N : c # 1 => r[c] = s[c]
    <2>1. s \in [1 .. N -> Chunk]
        BY <1>1
    <2>2. r \in [1 .. N -> Chunk] /\ r[1] = z /\ \A c \in 1 .. N : c # 1 => r[c] = s[c]
        BY <1>1, <1>7, <1>8, <2>1
    <2>. QED BY <2>2
<1>10. ASSUME NEW c \in Nat, NEW m \in Nat, ~(c = 1 /\ m = L + 1)
       PROVE  /\ Slot(r, c, m) <=> Slot(s, c, m)
              /\ Slot(s, c, m) => ValueAt(r, c, m) = ValueAt(s, c, m)
    <2>1. CASE c = 1
        <3>1. m \in 1 .. L + 1 <=> m \in 1 .. L
            BY <1>10, <2>1
        <3>. QED BY <1>1, <1>2, <1>3, <1>5, <1>7, <1>9, <2>1, <3>1 DEF Slot, ValueAt, x
    <2>2. CASE c # 1
        BY <1>1, <1>9, <2>2 DEF Slot, ValueAt
    <2>. QED BY <2>1, <2>2
<1>11. Slot(r, 1, L + 1) /\ ValueAt(r, 1, L + 1) = v /\ ~Slot(s, 1, L + 1)
    <2>1. L + 1 \in 1 .. L + 1 /\ L + 1 \notin 1 .. L
        OBVIOUS
    <2>. QED BY <1>1, <1>2, <1>3, <1>5, <1>7, <1>9, <2>1 DEF Slot, ValueAt, x
<1>12. ASSUME NEW i
       PROVE  /\ Holds(r, i) <=> Holds(s, i) \/ i \in v
              /\ Once(s, i) /\ ~(Holds(s, i) /\ i \in v) => Once(r, i)
    <2>1. \A c, m \in Nat : SlotHas(r, c, m, i) <=>
             \/ SlotHas(s, c, m, i)
             \/ c = 1 /\ m = L + 1 /\ i \in v
        <3>. SUFFICES ASSUME NEW c \in Nat, NEW m \in Nat
                      PROVE  SlotHas(r, c, m, i) <=>
                               \/ SlotHas(s, c, m, i)
                               \/ c = 1 /\ m = L + 1 /\ i \in v
            OBVIOUS
        <3>1. CASE c = 1 /\ m = L + 1
            BY <1>11, <3>1 DEF SlotHas
        <3>2. CASE ~(c = 1 /\ m = L + 1)
            BY <1>10, <3>2 DEF SlotHas
        <3>. QED BY <3>1, <3>2
    <2>2. 1 \in Nat /\ L + 1 \in Nat
        OBVIOUS
    <2>3. Holds(r, i) <=> Holds(s, i) \/ i \in v
        BY <2>1, <2>2 DEF Holds
    <2>4. ASSUME Once(s, i), ~(Holds(s, i) /\ i \in v)
          PROVE  Once(r, i)
        <3>1. ASSUME NEW c \in Nat, NEW m \in Nat, NEW d \in Nat, NEW l \in Nat,
                     SlotHas(r, c, m, i), SlotHas(r, d, l, i)
              PROVE  c = d /\ m = l
            <4>1. CASE i \in v
                <5>1. ~SlotHas(s, c, m, i) /\ ~SlotHas(s, d, l, i)
                    BY <2>4, <4>1 DEF Holds
                <5>. QED BY <2>1, <3>1, <5>1
            <4>2. CASE i \notin v
                BY <2>1, <2>4, <3>1, <4>2 DEF Once
            <4>. QED BY <4>1, <4>2
        <3>. QED BY <3>1 DEF Once
    <2>. QED BY <2>3, <2>4
<1>13. ASSUME v # {},
              \A c \in DOMAIN s : c # 1 => s[c].array # <<>>,
              \A c, m \in Nat : Slot(s, c, m) => ValueAt(s, c, m) # {}
       PROVE  Full(r)
    <2>1. ASSUME NEW c \in DOMAIN r PROVE r[c].array # <<>>
        <3>1. CASE c = 1
            <4>1. y # <<>>
                <5>1. 1 \in 1 .. L + 1
                    OBVIOUS
                <5>. QED BY <1>5, <5>1
            <4>. QED BY <1>7, <1>9, <3>1, <4>1
        <3>2. CASE c # 1
            BY <1>1, <1>9, <1>13, <3>2
        <3>. QED BY <3>1, <3>2
    <2>2. ASSUME NEW c \in Nat, NEW m \in Nat, Slot(r, c, m) PROVE ValueAt(r, c, m) # {}
        <3>1. CASE c = 1 /\ m = L + 1
            BY <1>11, <1>13, <3>1
        <3>2. CASE ~(c = 1 /\ m = L + 1)
            BY <1>10, <1>13, <2>2, <3>2
        <3>. QED BY <3>1, <3>2
    <2>. QED BY <2>1, <2>2 DEF Full
<1>. QED BY <1>1, <1>9, <1>12, <1>13

(* Adding a value to the chunks of an entry, whether or not the newest of  *)
(* them is full, adds that value and loses none.                           *)
LEMMA AddValueIs ==
    ASSUME NEW s \in Seq(Chunk), Full(s), NEW v \in SUBSET Nat, v # {}
    PROVE  /\ AddValue(s, v) \in Seq(Chunk) /\ AddValue(s, v) # <<>> /\ Full(AddValue(s, v))
           /\ \A i : /\ Holds(AddValue(s, v), i) <=> Holds(s, i) \/ i \in v
                     /\ Once(s, i) /\ ~(Holds(s, i) /\ i \in v) => Once(AddValue(s, v), i)
<1>1. PICK room : room = IF s = <<>> THEN <<[size |-> ChunkLen, array |-> <<>>]>>
                         ELSE IF s # <<>> /\ Len(s[1].array) >= s[1].size
                           THEN <<[size |-> 2 * s[1].size, array |-> <<>>]>> \o s
                           ELSE s
    OBVIOUS
<1>2. AddValue(s, v) = [room EXCEPT ![1].array = Append(@, v)]
    BY <1>1 DEF AddValue
<1>3. /\ room \in Seq(Chunk) /\ room # <<>>
      /\ \A i : (Holds(room, i) <=> Holds(s, i)) /\ (Once(s, i) => Once(room, i))
      /\ \A c \in DOMAIN room : c # 1 => room[c].array # <<>>
      /\ \A c, m \in Nat : Slot(room, c, m) => ValueAt(room, c, m) # {}
    <2>1. CASE room = s /\ s # <<>>
        BY <2>1 DEF Full
    <2>2. CASE \E size \in Nat : room = WithChunk(s, size)
        <3>1. PICK size \in Nat : room = WithChunk(s, size)
            BY <2>2
        <3>2. /\ room \in Seq(Chunk) /\ Len(room) = Len(s) + 1
              /\ \A i : (Holds(room, i) <=> Holds(s, i)) /\ (Once(s, i) => Once(room, i))
              /\ Full(s) => /\ \A c \in DOMAIN room : c # 1 => room[c].array # <<>>
                            /\ \A c, m \in Nat : Slot(room, c, m) => ValueAt(room, c, m) # {}
            BY <3>1, FrontChunk
        <3>3. room # <<>>
            BY <3>2
        <3>. QED BY <3>2, <3>3
    <2>3. CASE s = <<>>
        <3>1. ChunkLen \in Nat
            BY ParamsAssumption
        <3>2. room = <<[size |-> ChunkLen, array |-> <<>>]>>
            BY <1>1, <2>3
        <3>3. <<[size |-> ChunkLen, array |-> <<>>]>> \o s = <<[size |-> ChunkLen, array |-> <<>>]>>
            <4>1. PICK x : x = [size |-> ChunkLen, array |-> <<>>]
                OBVIOUS
            <4>2. <<x>> \o <<>> = <<x>>
                OBVIOUS
            <4>. QED BY <2>3, <4>1, <4>2
        <3>. QED BY <2>2, <3>1, <3>2, <3>3 DEF WithChunk
    <2>4. CASE s # <<>> /\ Len(s[1].array) >= s[1].size
        <3>1. 1 \in 1 .. Len(s)
            BY <2>4
        <3>2. s[1].size \in Nat
            BY <3>1, ChunkElements
        <3>3. 2 * s[1].size \in Nat /\ room = WithChunk(s, 2 * s[1].size)
            BY <1>1, <2>4, <3>2 DEF WithChunk
        <3>. QED BY <2>2, <3>3
    <2>5. CASE s # <<>> /\ ~(Len(s[1].array) >= s[1].size)
        BY <1>1, <2>1, <2>5
    <2>. QED BY <2>3, <2>4, <2>5
<1>4. PICK r : r = WithValue(room, v)
    OBVIOUS
<1>5. /\ r \in Seq(Chunk) /\ Len(r) = Len(room)
      /\ \A i : /\ Holds(r, i) <=> Holds(room, i) \/ i \in v
                /\ Once(room, i) /\ ~(Holds(room, i) /\ i \in v) => Once(r, i)
      /\ /\ v # {}
         /\ \A c \in DOMAIN room : c # 1 => room[c].array # <<>>
         /\ \A c, m \in Nat : Slot(room, c, m) => ValueAt(room, c, m) # {}
         => Full(r)
    BY <1>3, <1>4, FirstChunk
<1>6. r # <<>>
    BY <1>3, <1>5
<1>7. AddValue(s, v) = r
    BY <1>2, <1>4 DEF WithValue
<1>. QED BY <1>3, <1>5, <1>6, <1>7

-----------------------------------------------------------------------------
(* The array of a map thread *)

Entries == [key : Keys, len : Nat, vals : Seq(Chunk)]
InArray(a, k, i) == \E n \in DOMAIN a : a[n].key = k /\ Holds(a[n].vals, i)
OnceIn(a, i) == \A n \in DOMAIN a : Once(a[n].vals, i)
Sound(a) == Ascending(a) /\ \A n \in DOMAIN a : Full(a[n].vals)
Unfreed(a) == \A n \in DOMAIN a : a[n].vals # <<>>

LEMMA EntryElements ==
    ASSUME NEW a \in Seq(Entries)
    PROVE  /\ Len(a) \in Nat /\ DOMAIN a = 1 .. Len(a)
           /\ \A n \in 1 .. Len(a) : /\ a[n] \in Entries
                                     /\ a[n].key \in Keys /\ a[n].key \in Int
                                     /\ a[n].len \in Nat
                                     /\ a[n].vals \in Seq(Chunk)
<1>1. Len(a) \in Nat /\ DOMAIN a = 1 .. Len(a)
    OBVIOUS
<1>2. ASSUME NEW n \in 1 .. Len(a)
      PROVE  /\ a[n] \in Entries /\ a[n].key \in Keys /\ a[n].key \in Int
             /\ a[n].len \in Nat /\ a[n].vals \in Seq(Chunk)
    <2>1. a[n] \in Entries
        OBVIOUS
    <2>. QED BY <2>1, ParamsAssumption DEF Entries
<1>. QED BY <1>1, <1>2

LEMMA NoChunks ==
    /\ Full(<<>>)
    /\ \A i : ~Holds(<<>>, i) /\ Once(<<>>, i)
<1>1. \A c, m : ~Slot(<<>>, c, m)
    BY DEF Slot
<1>2. \A c \in DOMAIN <<>> : FALSE
    OBVIOUS
<1>. QED BY <1>1, <1>2, Zenon DEF Full, Holds, Once, SlotHas

(* An entry without values is put where its key belongs.                   *)
LEMMA NewEntry ==
    ASSUME NEW a \in Seq(Entries), Sound(a), NEW N \in Nat, N = Len(a),
           NEW low \in 0 .. N, NEW e \in Entries, e.vals = <<>>,
           \A n \in 1 .. low : a[n].key < e.key,
           \A n \in low + 1 .. N : e.key < a[n].key,
           NEW b, PutIn(b, Entries, a, low + 1, e)
    PROVE  /\ b \in Seq(Entries) /\ Len(b) = N + 1 /\ b[low + 1].key = e.key
           /\ Sound(b)
           /\ \A k, i : InArray(b, k, i) <=> InArray(a, k, i)
           /\ \A i : OnceIn(a, i) => OnceIn(b, i)
           /\ Unfreed(a) => \A n \in 1 .. N + 1 : n # low + 1 => b[n].vals # <<>>
<1>1. /\ b \in Seq(Entries) /\ Len(b) = N + 1 /\ DOMAIN b = 1 .. N + 1 /\ DOMAIN a = 1 .. N
      /\ b[low + 1] = e
    <2>1. b \in Seq(Entries) /\ Len(b) = Len(a) + 1 /\ b[low + 1] = e
        BY DEF PutIn
    <2>. QED BY <2>1
<1>2. /\ \A n \in 1 .. low : b[n] = a[n]
      /\ \A n \in low + 1 .. N : b[n + 1] = a[n]
    <2>1. (low + 1) - 1 = low
        OBVIOUS
    <2>. QED BY <2>1 DEF PutIn
<1>3. \A n \in 1 .. N : a[n].key \in Int
    BY EntryElements
<1>4. e.key \in Int
    BY ParamsAssumption DEF Entries
<1>5. \A m, n \in 1 .. N : m < n => a[m].key < a[n].key
    BY <1>1 DEF Sound, Ascending
<1>6. ASSUME NEW n \in 1 .. N + 1
      PROVE  \/ n \in 1 .. low /\ b[n] = a[n]
             \/ n = low + 1 /\ b[n] = e
             \/ n - 1 \in low + 1 .. N /\ b[n] = a[n - 1]
    <2>1. CASE n <= low
        BY <1>2, <2>1
    <2>2. CASE n = low + 1
        BY <1>1, <2>2
    <2>3. CASE n > low + 1
        <3>1. n - 1 \in low + 1 .. N /\ (n - 1) + 1 = n
            BY <2>3
        <3>. QED BY <1>2, <3>1
    <2>. QED BY <2>1, <2>2, <2>3
<1>7. \A n \in 1 .. N : (n \in 1 .. low \/ n \in low + 1 .. N) /\ n + 1 \in 1 .. N + 1 /\ n \in 1 .. N + 1
    OBVIOUS
<1>8. Ascending(b)
    <2>1. ASSUME NEW m \in 1 .. N + 1, NEW n \in 1 .. N + 1, m < n
          PROVE  b[m].key < b[n].key
        <3>1. CASE m \in 1 .. low /\ b[m] = a[m]
            <4>1. m \in 1 .. N
                BY <3>1
            <4>2. CASE n \in 1 .. low /\ b[n] = a[n]
                BY <1>5, <2>1, <3>1, <4>1, <4>2
            <4>3. CASE n = low + 1 /\ b[n] = e
                BY <3>1, <4>3
            <4>4. CASE n - 1 \in low + 1 .. N /\ b[n] = a[n - 1]
                <5>1. n - 1 \in 1 .. N /\ m < n - 1
                    BY <3>1, <4>4
                <5>. QED BY <1>5, <3>1, <4>1, <4>4, <5>1
            <4>. QED BY <1>6, <4>2, <4>3, <4>4
        <3>2. CASE m = low + 1 /\ b[m] = e
            <4>1. n - 1 \in low + 1 .. N /\ b[n] = a[n - 1]
                BY <1>6, <2>1, <3>2
            <4>. QED BY <3>2, <4>1
        <3>3. CASE m - 1 \in low + 1 .. N /\ b[m] = a[m - 1]
            <4>1. n - 1 \in low + 1 .. N /\ b[n] = a[n - 1]
                BY <1>6, <2>1, <3>3
            <4>2. m - 1 \in 1 .. N /\ n - 1 \in 1 .. N /\ m - 1 < n - 1
                BY <2>1, <3>3, <4>1
            <4>. QED BY <1>5, <3>3, <4>1, <4>2
        <3>. QED BY <1>6, <3>1, <3>2, <3>3
    <2>. QED BY <1>1, <2>1 DEF Ascending
<1>9. \A n \in 1 .. N + 1 : \/ b[n] = e
                            \/ \E m \in 1 .. N : b[n] = a[m]
    <2>1. \A n \in 1 .. low : n \in 1 .. N
        OBVIOUS
    <2>2. \A n \in low + 1 .. N : n \in 1 .. N
        OBVIOUS
    <2>. QED BY <1>6, <2>1, <2>2
<1>10. \A n \in 1 .. N : \E m \in 1 .. N + 1 : b[m] = a[n]
    BY <1>2, <1>7
<1>11. Full(e.vals) /\ \A i : ~Holds(e.vals, i) /\ Once(e.vals, i)
    BY NoChunks
<1>12. \A n \in 1 .. N + 1 : Full(b[n].vals)
    BY <1>1, <1>9, <1>11 DEF Sound
<1>13. \A k, i : InArray(b, k, i) <=> InArray(a, k, i)
    <2>. SUFFICES ASSUME NEW k, NEW i
                  PROVE  InArray(b, k, i) <=> InArray(a, k, i)
        OBVIOUS
    <2>1. ASSUME InArray(b, k, i) PROVE InArray(a, k, i)
        <3>1. PICK n \in 1 .. N + 1 : b[n].key = k /\ Holds(b[n].vals, i)
            BY <1>1, <2>1 DEF InArray
        <3>2. PICK m \in 1 .. N : b[n] = a[m]
            BY <1>9, <1>11, <3>1
        <3>. QED BY <1>1, <3>1, <3>2 DEF InArray
    <2>2. ASSUME InArray(a, k, i) PROVE InArray(b, k, i)
        <3>1. PICK n \in 1 .. N : a[n].key = k /\ Holds(a[n].vals, i)
            BY <1>1, <2>2 DEF InArray
        <3>2. PICK m \in 1 .. N + 1 : b[m] = a[n]
            BY <1>10
        <3>. QED BY <1>1, <3>1, <3>2 DEF InArray
    <2>. QED BY <2>1, <2>2
<1>14. \A i : OnceIn(a, i) => OnceIn(b, i)
    BY <1>1, <1>9, <1>11, Zenon DEF OnceIn
<1>15. ASSUME Unfreed(a), NEW n \in 1 .. N + 1, n # low + 1
       PROVE  b[n].vals # <<>>
    <2>1. n \in 1 .. low \/ n - 1 \in low + 1 .. N
        BY <1>15
    <2>2. PICK m \in 1 .. N : b[n] = a[m]
        BY <1>2, <1>6, <1>15
    <2>. QED BY <1>1, <1>15, <2>2 DEF Unfreed
<1>16. b[low + 1].key = e.key
    BY <1>1
<1>17. Sound(b)
    BY <1>1, <1>8, <1>12 DEF Sound
<1>. QED BY <1>1, <1>13, <1>14, <1>15, <1>16, <1>17

(* A value is put into the entry of its key.                               *)
ValuePut(b, p, v) == [b EXCEPT ![p].vals = AddValue(@, v), ![p].len = @ + 1]

(* A value added to one entry leaves the keys and the other entries.       *)
LEMMA EntryUpdate ==
    ASSUME NEW b \in Seq(Entries), Sound(b), NEW p \in 1 .. Len(b),
           NEW v \in SUBSET Nat, v # {}, NEW r, r = ValuePut(b, p, v)
    PROVE  /\ r \in Seq(Entries) /\ Len(r) = Len(b)
           /\ Sound(r)
           /\ \A k, i : InArray(r, k, i) <=> InArray(b, k, i) \/ (k = b[p].key /\ i \in v)
           /\ \A i : /\ OnceIn(b, i)
                     /\ i \in v => \A k : ~InArray(b, k, i)
                     => OnceIn(r, i)
           /\ (\A n \in 1 .. Len(b) : n # p => b[n].vals # <<>>) => Unfreed(r)
<1>1. PICK N \in Nat : N = Len(b) /\ DOMAIN b = 1 .. N /\ p \in 1 .. N
    OBVIOUS
<1>2. PICK s : s = b[p].vals
    OBVIOUS
<1>3. s \in Seq(Chunk) /\ Full(s) /\ b[p] \in Entries /\ b[p].len \in Nat
    BY <1>1, <1>2, EntryElements DEF Sound
<1>4. PICK x : x = AddValue(s, v)
    OBVIOUS
<1>5. /\ x \in Seq(Chunk) /\ x # <<>> /\ Full(x)
      /\ \A i : /\ Holds(x, i) <=> Holds(s, i) \/ i \in v
                /\ Once(s, i) /\ ~(Holds(s, i) /\ i \in v) => Once(x, i)
    BY <1>3, <1>4, AddValueIs
<1>6. PICK e : e = [b[p] EXCEPT !.vals = x, !.len = @ + 1]
    OBVIOUS
<1>7. e \in Entries /\ e.key = b[p].key /\ e.vals = x
    <2>1. PICK g \in [key : Keys, len : Nat, vals : Seq(Chunk)] : g = b[p]
        BY <1>3 DEF Entries
    <2>2. g.len + 1 \in Nat
        OBVIOUS
    <2>3. e = [g EXCEPT !.vals = x, !.len = g.len + 1]
        BY <1>6, <2>1
    <2>4. e = [key |-> g.key, len |-> g.len + 1, vals |-> x]
        BY <2>3
    <2>. QED BY <1>5, <2>1, <2>2, <2>4 DEF Entries
<1>8. r = [b EXCEPT ![p] = e]
    <2>1. r = [b EXCEPT ![p] = [b[p] EXCEPT !.vals = AddValue(b[p].vals, v), !.len = @ + 1]]
        <3>1. b \in [1 .. N -> Entries]
            BY <1>1
        <3>2. b[p] \in [key : Keys, len : Nat, vals : Seq(Chunk)]
            BY <1>3 DEF Entries
        <3>. QED BY <1>1, <3>1, <3>2 DEF ValuePut
    <2>. QED BY <1>2, <1>4, <1>6, <2>1
<1>9. /\ r \in Seq(Entries) /\ Len(r) = N /\ DOMAIN r = 1 .. N
      /\ r[p] = e /\ \A n \in 1 .. N : n # p => r[n] = b[n]
    <2>1. b \in [1 .. N -> Entries]
        BY <1>1
    <2>2. r \in [1 .. N -> Entries] /\ r[p] = e /\ \A n \in 1 .. N : n # p => r[n] = b[n]
        BY <1>1, <1>7, <1>8, <2>1
    <2>. QED BY <2>2
<1>10. \A n \in 1 .. N : r[n].key = b[n].key
    BY <1>7, <1>9
<1>11. Sound(r)
    <2>1. Ascending(r)
        BY <1>1, <1>9, <1>10 DEF Sound, Ascending
    <2>2. \A n \in 1 .. N : Full(r[n].vals)
        BY <1>1, <1>5, <1>7, <1>9 DEF Sound
    <2>. QED BY <1>9, <2>1, <2>2 DEF Sound
<1>12. \A n \in 1 .. N : \A i : Holds(r[n].vals, i) <=> Holds(b[n].vals, i) \/ (n = p /\ i \in v)
    BY <1>2, <1>5, <1>7, <1>9
<1>13. ASSUME NEW k, NEW i
       PROVE  InArray(r, k, i) <=> InArray(b, k, i) \/ (k = b[p].key /\ i \in v)
    BY <1>1, <1>9, <1>10, <1>12, Zenon DEF InArray
<1>14. ASSUME NEW i, OnceIn(b, i), i \in v => \A k : ~InArray(b, k, i)
       PROVE  OnceIn(r, i)
    <2>1. ~(Holds(s, i) /\ i \in v)
        BY <1>1, <1>2, <1>14 DEF InArray
    <2>2. Once(x, i)
        BY <1>1, <1>2, <1>5, <1>14, <2>1 DEF OnceIn
    <2>3. ASSUME NEW n \in 1 .. N PROVE Once(r[n].vals, i)
        <3>1. CASE n = p
            BY <1>7, <1>9, <2>2, <3>1
        <3>2. CASE n # p
            BY <1>1, <1>9, <1>14, <3>2 DEF OnceIn
        <3>. QED BY <3>1, <3>2
    <2>. QED BY <1>9, <2>3 DEF OnceIn
<1>15. (\A n \in 1 .. N : n # p => b[n].vals # <<>>) => Unfreed(r)
    BY <1>5, <1>7, <1>9 DEF Unfreed
<1>16. \A i : /\ OnceIn(b, i)
              /\ i \in v => \A k : ~InArray(b, k, i)
              => OnceIn(r, i)
    BY <1>14
<1>. QED BY <1>1, <1>9, <1>11, <1>13, <1>15, <1>16

(* insert_keyval_merged keeps an array ascending and without repetition,   *)
(* and adds exactly the one value under its key.                           *)
LEMMA MergedIs ==
    ASSUME NEW a \in Seq(Entries), Sound(a), Unfreed(a), NEW k \in Keys,
           NEW v \in SUBSET Nat, v # {}, NEW r, r = insert_keyval_merged(a, k, v)
    PROVE  /\ r \in Seq(Entries)
           /\ Len(r) = IF InsertPos(a, k).found THEN Len(a) ELSE Len(a) + 1
           /\ Sound(r) /\ Unfreed(r)
           /\ \A x, i : InArray(r, x, i) <=> InArray(a, x, i) \/ (x = k /\ i \in v)
           /\ \A i : /\ OnceIn(a, i)
                     /\ i \in v => \A x : ~InArray(a, x, i)
                     => OnceIn(r, i)
<1>1. PICK N \in Nat : N = Len(a) /\ DOMAIN a = 1 .. N
    OBVIOUS
<1>2. k \in Int /\ \A n \in 1 .. N : a[n].key \in Int
    BY <1>1, ParamsAssumption, EntryElements
<1>3. PICK low \in 0 .. N, found \in BOOLEAN : Position(a, k, N, low, found)
    BY <1>1, <1>2, InsertPosIs DEF Sound
<1>4. PICK p : p = InsertPos(a, k)
    OBVIOUS
<1>5. p.low = low /\ p.found = found
    BY <1>3, <1>4 DEF Position
<1>6. PICK b : b = IF found THEN a
                   ELSE InsertAt(a, low + 1, [key |-> k, len |-> 0, vals |-> <<>>])
    OBVIOUS
<1>7. r = ValuePut(b, low + 1, v)
    BY <1>4, <1>5, <1>6 DEF insert_keyval_merged, ValuePut
<1>8. /\ b \in Seq(Entries) /\ Len(b) = (IF found THEN N ELSE N + 1)
      /\ low + 1 \in 1 .. Len(b) /\ b[low + 1].key = k
      /\ Sound(b)
      /\ \A x, i : InArray(b, x, i) <=> InArray(a, x, i)
      /\ \A i : OnceIn(a, i) => OnceIn(b, i)
      /\ \A n \in 1 .. Len(b) : n # low + 1 => b[n].vals # <<>>
    <2>1. CASE found
        <3>1. b = a /\ low < N /\ a[low + 1].key = k
            BY <1>3, <1>6, <2>1 DEF Position
        <3>2. low + 1 \in 1 .. N
            BY <3>1
        <3>. QED BY <1>1, <2>1, <3>1, <3>2 DEF Unfreed
    <2>2. CASE ~found
        <3>1. PICK e : e = [key |-> k, len |-> 0, vals |-> <<>>]
            OBVIOUS
        <3>2. e \in Entries /\ e.key = k /\ e.vals = <<>>
            BY <3>1 DEF Entries
        <3>3. low + 1 \in 1 .. N + 1
            OBVIOUS
        <3>4. PutIn(b, Entries, a, low + 1, e)
            BY <1>1, <1>6, <2>2, <3>1, <3>2, <3>3, InsertAtPuts
        <3>5. /\ \A n \in 1 .. low : a[n].key < e.key
              /\ \A n \in low + 1 .. N : e.key < a[n].key
            BY <1>3, <2>2, <3>2 DEF Position
        <3>6. /\ b \in Seq(Entries) /\ Len(b) = N + 1 /\ b[low + 1].key = e.key
              /\ Sound(b)
              /\ \A x, i : InArray(b, x, i) <=> InArray(a, x, i)
              /\ \A i : OnceIn(a, i) => OnceIn(b, i)
              /\ Unfreed(a) => \A n \in 1 .. N + 1 : n # low + 1 => b[n].vals # <<>>
            BY <1>1, <3>2, <3>4, <3>5, NewEntry
        <3>. QED BY <2>2, <3>2, <3>3, <3>6
    <2>. QED BY <2>1, <2>2
<1>9. PICK q : q = low + 1
    OBVIOUS
<1>10. q \in 1 .. Len(b) /\ r = ValuePut(b, q, v) /\ b[q].key = k
    BY <1>7, <1>8, <1>9
<1>11. /\ r \in Seq(Entries) /\ Len(r) = Len(b)
       /\ Sound(r)
       /\ \A x, i : InArray(r, x, i) <=> InArray(b, x, i) \/ (x = b[q].key /\ i \in v)
       /\ \A i : /\ OnceIn(b, i)
                 /\ i \in v => \A x : ~InArray(b, x, i)
                 => OnceIn(r, i)
       /\ (\A n \in 1 .. Len(b) : n # q => b[n].vals # <<>>) => Unfreed(r)
    BY <1>8, <1>10, EntryUpdate
<1>12. Len(r) = IF InsertPos(a, k).found THEN Len(a) ELSE Len(a) + 1
    BY <1>1, <1>4, <1>5, <1>8, <1>11
<1>13. Unfreed(r)
    BY <1>8, <1>9, <1>11
<1>14. \A x, i : InArray(r, x, i) <=> InArray(a, x, i) \/ (x = k /\ i \in v)
    BY <1>8, <1>10, <1>11
<1>15. ASSUME NEW i, OnceIn(a, i), i \in v => \A x : ~InArray(a, x, i)
       PROVE  OnceIn(r, i)
    BY <1>8, <1>11, <1>15
<1>. QED BY <1>11, <1>12, <1>13, <1>14, <1>15

(* The combiner merges the values of each entry into one.                  *)
LEMMA AllValuesAre ==
    ASSUME NEW e \in Entries
    PROVE  \A i : i \in UNION AllValues(e) <=> Holds(e.vals, i)
<1>1. PICK s : s = e.vals
    OBVIOUS
<1>2. s \in Seq(Chunk)
    BY <1>1 DEF Entries
<1>. SUFFICES ASSUME NEW i
              PROVE  i \in UNION AllValues(e) <=> Holds(s, i)
    BY <1>1
<1>3. i \in UNION AllValues(e) <=>
        \E c \in DOMAIN s : \E m \in DOMAIN s[c].array : i \in s[c].array[m]
    BY <1>1 DEF AllValues, ToSet
<1>4. \A c \in DOMAIN s : c \in Nat /\ \A m \in DOMAIN s[c].array : m \in Nat
    <2>. SUFFICES ASSUME NEW c \in DOMAIN s
                  PROVE  c \in Nat /\ \A m \in DOMAIN s[c].array : m \in Nat
        OBVIOUS
    <2>1. c \in 1 .. Len(s)
        BY <1>2
    <2>2. DOMAIN s[c].array = 1 .. Len(s[c].array) /\ Len(s[c].array) \in Nat
        BY <1>2, <2>1, ChunkElements
    <2>. QED BY <2>1, <2>2
<1>. QED BY <1>3, <1>4, Zenon DEF Holds, SlotHas, Slot, ValueAt

(* The combiner changes neither the keys of an array nor which emits are   *)
(* under them.                                                             *)
LEMMA CombinedIs ==
    ASSUME NEW a \in Seq(Entries), Sound(a), Unfreed(a), NEW r, r = run_combiner(a)
    PROVE  /\ r \in Seq(Entries) /\ Len(r) = Len(a)
           /\ Sound(r) /\ Unfreed(r)
           /\ \A k, i : InArray(r, k, i) <=> InArray(a, k, i)
           /\ \A i : OnceIn(r, i)
<1>1. PICK N \in Nat : N = Len(a) /\ DOMAIN a = 1 .. N
    OBVIOUS
<1>2. ASSUME NEW n \in 1 .. N
      PROVE  /\ r[n] \in Entries /\ r[n].key = a[n].key /\ r[n].vals # <<>>
             /\ Full(r[n].vals)
             /\ \A i : (Holds(r[n].vals, i) <=> Holds(a[n].vals, i)) /\ Once(r[n].vals, i)
    <2>1. PICK s, v, size : s = a[n].vals /\ v = UNION AllValues(a[n]) /\ size = s[1].size
        OBVIOUS
    <2>2. /\ a[n] \in Entries /\ a[n].key \in Keys
          /\ s \in Seq(Chunk) /\ s # <<>> /\ Full(s)
        BY <1>1, <2>1, EntryElements DEF Sound, Unfreed
    <2>3. \A i : i \in v <=> Holds(s, i)
        BY <2>1, <2>2, AllValuesAre
    <2>4. v \in SUBSET Nat
        <3>. SUFFICES ASSUME NEW i \in v
                      PROVE  i \in Nat
            OBVIOUS
        <3>1. PICK c \in Nat, m \in Nat : Slot(s, c, m) /\ i \in ValueAt(s, c, m)
            BY <2>3 DEF Holds, SlotHas
        <3>. QED BY <2>2, <3>1, SlotIn
    <2>5. v # {}
        <3>1. 1 \in DOMAIN s /\ 1 \in 1 .. Len(s)
            BY <2>2
        <3>2. s[1].array # <<>> /\ s[1].array \in Seq(SUBSET Nat)
            BY <2>2, <3>1, ChunkElements DEF Full
        <3>3. 1 \in DOMAIN s[1].array
            BY <3>2
        <3>4. Slot(s, 1, 1) /\ 1 \in Nat
            BY <3>1, <3>3 DEF Slot
        <3>5. PICK i : i \in ValueAt(s, 1, 1)
            BY <2>2, <3>4 DEF Full
        <3>. QED BY <2>3, <3>4, <3>5 DEF Holds, SlotHas
    <2>6. size \in Nat
        <3>1. 1 \in 1 .. Len(s)
            BY <2>2
        <3>. QED BY <2>1, <2>2, <3>1, ChunkElements
    <2>7. PICK x, q : x = [size |-> size, array |-> <<v>>] /\ q = <<x>>
        OBVIOUS
    <2>8. /\ x \in Chunk /\ q \in Seq(Chunk) /\ DOMAIN q = 1 .. 1 /\ q[1] = x
          /\ x.array = <<v>> /\ DOMAIN <<v>> = 1 .. 1 /\ <<v>>[1] = v
        BY <2>4, <2>6, <2>7 DEF Chunk
    <2>9. r[n] = [key |-> a[n].key, len |-> 1, vals |-> q]
        BY <1>1, <2>1, <2>7 DEF run_combiner
    <2>10. r[n] \in Entries /\ r[n].key = a[n].key /\ r[n].vals = q /\ q # <<>>
        <3>1. q # <<>>
            BY <2>7
        <3>2. r[n] \in [key : Keys, len : Nat, vals : Seq(Chunk)]
            BY <2>2, <2>8, <2>9
        <3>3. r[n].key = a[n].key /\ r[n].vals = q
            BY <2>9
        <3>. QED BY <3>1, <3>2, <3>3 DEF Entries
    <2>11. \A c, m \in Nat : Slot(q, c, m) <=> c = 1 /\ m = 1
        BY <2>8 DEF Slot
    <2>12. ValueAt(q, 1, 1) = v
        BY <2>8 DEF ValueAt
    <2>13. Full(q)
        <3>1. \A c \in DOMAIN q : q[c].array # <<>>
            <4>1. <<v>> # <<>>
                OBVIOUS
            <4>2. \A c \in DOMAIN q : q[c] = x
                BY <2>8
            <4>. QED BY <2>8, <4>1, <4>2
        <3>. QED BY <2>5, <2>11, <2>12, <3>1 DEF Full
    <2>14. ASSUME NEW i
           PROVE  (Holds(q, i) <=> Holds(s, i)) /\ Once(q, i)
        <3>1. \A c, m \in Nat : SlotHas(q, c, m, i) <=> c = 1 /\ m = 1 /\ i \in v
            BY <2>11, <2>12 DEF SlotHas
        <3>. QED BY <2>3, <3>1 DEF Holds, Once
    <2>. QED BY <2>1, <2>10, <2>13, <2>14
<1>3. r \in Seq(Entries) /\ Len(r) = N /\ DOMAIN r = 1 .. N
    <2>1. DOMAIN r = 1 .. N /\ r = [n \in 1 .. N |-> r[n]]
        BY <1>1 DEF run_combiner
    <2>2. r \in [1 .. N -> Entries]
        BY <1>2, <2>1
    <2>. QED BY <2>2
<1>4. Ascending(r)
    BY <1>1, <1>2, <1>3 DEF Sound, Ascending
<1>5. Sound(r) /\ Unfreed(r)
    BY <1>2, <1>3, <1>4 DEF Sound, Unfreed
<1>6. \A i : OnceIn(r, i)
    BY <1>2, <1>3 DEF OnceIn
<1>7. \A k, i : InArray(r, k, i) <=> InArray(a, k, i)
    <2>. SUFFICES ASSUME NEW k, NEW i
                  PROVE  InArray(r, k, i) <=> InArray(a, k, i)
        OBVIOUS
    <2>1. \A n \in 1 .. N : r[n].key = a[n].key /\ (Holds(r[n].vals, i) <=> Holds(a[n].vals, i))
        BY <1>2
    <2>. QED BY <1>1, <1>3, <2>1, Zenon DEF InArray
<1>. QED BY <1>1, <1>3, <1>5, <1>6, <1>7

(* How many emits the values of a call stand for.                          *)
Sums(s, N) ==
    CHOOSE f : f = [n \in 0 .. N |-> IF n = 0 THEN 0 ELSE f[n - 1] + Cardinality(s[n])]

(* The recursive function of SumCard is defined on every prefix.           *)
LEMMA SumsExist ==
    ASSUME NEW s, NEW N \in Nat
    PROVE  /\ Sums(s, N)[0] = 0
           /\ \A n \in 1 .. N : Sums(s, N)[n] = Sums(s, N)[n - 1] + Cardinality(s[n])
<1>. DEFINE To(n) == \E f : f = [i \in 0 .. n |-> IF i = 0 THEN 0 ELSE f[i - 1] + Cardinality(s[i])]
            Bad == {n \in 0 .. N : ~To(n)}
<1>1. To(0)
    <2>. DEFINE g == [i \in 0 .. 0 |-> 0]
    <2>1. g = [i \in 0 .. 0 |-> IF i = 0 THEN 0 ELSE g[i - 1] + Cardinality(s[i])]
        OBVIOUS
    <2>. HIDE DEF g
    <2>. QED BY <2>1
<1>2. ASSUME NEW n \in Nat, To(n)
      PROVE  To(n + 1)
    <2>1. PICK f : f = [i \in 0 .. n |-> IF i = 0 THEN 0 ELSE f[i - 1] + Cardinality(s[i])]
        BY <1>2
    <2>. DEFINE g == [i \in 0 .. n + 1 |-> IF i <= n THEN f[i] ELSE f[i - 1] + Cardinality(s[i])]
    <2>2. ASSUME NEW i \in 0 .. n + 1
          PROVE  g[i] = IF i = 0 THEN 0 ELSE g[i - 1] + Cardinality(s[i])
        <3>1. CASE i <= n
            <4>1. g[i] = f[i] /\ (i # 0 => g[i - 1] = f[i - 1]) /\ i \in 0 .. n
                BY <3>1
            <4>2. f[i] = IF i = 0 THEN 0 ELSE f[i - 1] + Cardinality(s[i])
                BY <2>1, <4>1
            <4>. QED BY <4>1, <4>2
        <3>2. CASE i = n + 1
            <4>1. g[i - 1] = f[i - 1] /\ g[i] = f[i - 1] + Cardinality(s[i]) /\ i # 0
                BY <3>2
            <4>. QED BY <4>1
        <3>. QED BY <3>1, <3>2
    <2>3. g = [i \in 0 .. n + 1 |-> IF i = 0 THEN 0 ELSE g[i - 1] + Cardinality(s[i])]
        BY <2>2
    <2>. HIDE DEF g
    <2>. QED BY <2>3
<1>. HIDE DEF To
<1>3. Bad = {}
    <2>. SUFFICES ASSUME Bad # {}
                  PROVE  FALSE
        OBVIOUS
    <2>1. PICK n \in Bad : \A m \in Bad : n <= m
        BY Least, Bad \in SUBSET Nat
    <2>2. n \in Nat /\ n # 0 /\ n \in 0 .. N /\ ~To(n)
        BY <1>1
    <2>3. n - 1 \in 0 .. N /\ n - 1 \in Nat /\ ~(n <= n - 1) /\ (n - 1) + 1 = n
        BY <2>2
    <2>4. To(n - 1)
        BY <2>1, <2>3
    <2>. QED BY <1>2, <2>2, <2>3, <2>4
<1>4. To(N)
    BY <1>3
<1>5. PICK f : f = Sums(s, N)
    OBVIOUS
<1>6. f = [n \in 0 .. N |-> IF n = 0 THEN 0 ELSE f[n - 1] + Cardinality(s[n])]
    BY <1>4, <1>5, Zenon DEF To, Sums
<1>7. \A n \in 0 .. N : f[n] = IF n = 0 THEN 0 ELSE f[n - 1] + Cardinality(s[n])
    BY <1>6, Zenon
<1>8. f[0] = 0 /\ \A n \in 1 .. N : f[n] = f[n - 1] + Cardinality(s[n])
    <2>1. 0 \in 0 .. N /\ \A n \in 1 .. N : n \in 0 .. N /\ n # 0
        OBVIOUS
    <2>. QED BY <1>7, <2>1, Zenon
<1>. QED BY <1>5, <1>8

LEMMA SumCardIs ==
    /\ SumCard(<<>>) = 0
    /\ \A S : \A s \in Seq(S), v \in S :
          SumCard(Append(s, v)) = SumCard(s) + Cardinality(v)
<1>1. \A s : SumCard(s) = Sums(s, Len(s))[Len(s)]
    BY Zenon DEF SumCard, Sums
<1>2. SumCard(<<>>) = 0
    <2>1. SumCard(<<>>) = Sums(<<>>, Len(<<>>))[Len(<<>>)] /\ Len(<<>>) = 0
        BY <1>1
    <2>. QED BY <2>1, SumsExist
<1>3. ASSUME NEW S, NEW s \in Seq(S), NEW v \in S
      PROVE  SumCard(Append(s, v)) = SumCard(s) + Cardinality(v)
    <2>1. PICK N \in Nat : N = Len(s)
        OBVIOUS
    <2>2. PICK r : r = Append(s, v)
        OBVIOUS
    <2>3. Len(r) = N + 1 /\ r[N + 1] = v /\ \A n \in 1 .. N : r[n] = s[n]
        BY <2>1, <2>2
    <2>4. PICK f, g : f = Sums(s, N) /\ g = Sums(r, N + 1)
        OBVIOUS
    <2>5. f[0] = 0 /\ \A n \in 1 .. N : f[n] = f[n - 1] + Cardinality(s[n])
        BY <2>4, SumsExist
    <2>6. g[0] = 0 /\ \A n \in 1 .. N + 1 : g[n] = g[n - 1] + Cardinality(r[n])
        BY <2>4, SumsExist
    <2>. DEFINE Bad == {n \in 0 .. N : f[n] # g[n]}
    <2>7. Bad = {}
        <3>. SUFFICES ASSUME Bad # {}
                      PROVE  FALSE
            OBVIOUS
        <3>1. PICK n \in Bad : \A m \in Bad : n <= m
            BY Least, Bad \in SUBSET Nat
        <3>2. n \in 1 .. N /\ n - 1 \in 0 .. N /\ ~(n <= n - 1) /\ n \in 1 .. N + 1 /\ f[n] # g[n]
            BY <2>5, <2>6
        <3>3. f[n - 1] = g[n - 1]
            BY <3>1, <3>2
        <3>4. r[n] = s[n]
            BY <2>3, <3>2
        <3>. QED BY <2>5, <2>6, <3>2, <3>3, <3>4
    <2>8. f[N] = g[N]
        <3>1. N \in 0 .. N
            OBVIOUS
        <3>. QED BY <2>7, <3>1
    <2>9. g[N + 1] = g[N] + Cardinality(v)
        <3>1. N + 1 \in 1 .. N + 1 /\ (N + 1) - 1 = N
            OBVIOUS
        <3>. QED BY <2>3, <2>6, <3>1
    <2>10. SumCard(r) = g[N + 1] /\ SumCard(s) = f[N]
        BY <1>1, <2>1, <2>3, <2>4
    <2>. QED BY <2>2, <2>8, <2>9, <2>10
<1>. QED BY <1>2, <1>3

-----------------------------------------------------------------------------
(* The invariant *)

IsCalled(k) == \E c \in DOMAIN out : out[c].key = k
MinKey == KeyAt(minKey)
Refs == {<<>>} \cup (Threads \X (Nat \ {0}))
Counts == Nat \ {0}

BucketTypes ==
    /\ combiner \in BOOLEAN
    /\ arr \in [Threads -> Seq(Entries)]
    /\ alloc \in [Threads -> Nat] /\ \A t \in Threads : Len(arr[t]) <= alloc[t]
    /\ keyOf \in Seq(Keys) /\ Len(keyOf) <= MaxEmits
    /\ mapped \in [Threads -> BOOLEAN]
    /\ pc \in {"wait", "scan", "reduce", "free", "advance", "done"}
    /\ pos \in [Threads -> Nat] /\ \A t \in Threads : pos[t] <= Len(arr[t])
    /\ cur \in 0 .. NumThreads
    /\ minKey \in Refs /\ (minKey # <<>> => minKey[2] \in DOMAIN arr[minKey[1]])
    /\ nextMin \in Refs /\ (nextMin # <<>> => nextMin[2] \in DOMAIN arr[nextMin[1]])
    /\ itr \in [lists : Seq(Threads \X Counts), list : Counts, chunk : Counts, index : Nat]
    /\ got \in Seq(SUBSET Nat)
    /\ out \in Seq([key : Keys, vals : Seq(SUBSET Nat)])

(* No key is twice in an array, and the values of a key are there until it *)
(* is reduced.                                                             *)
ArrayInv ==
    \A t \in Threads :
        /\ Sound(arr[t])
        /\ \A i : OnceIn(arr[t], i)
        /\ \A n \in DOMAIN arr[t] : IsCalled(arr[t][n].key) \/ arr[t][n].vals # <<>>

(* An emit is in the array of one thread, under its key, until it is       *)
(* reduced.                                                                *)
EmitInv ==
    /\ \A t \in Threads : \A k, i :
          InArray(arr[t], k, i) => i \in DOMAIN keyOf /\ keyOf[i] = k
    /\ \A t, u \in Threads : \A k, i :
          InArray(arr[t], k, i) /\ InArray(arr[u], k, i) => t = u
    /\ \A i \in DOMAIN keyOf :
          IsCalled(keyOf[i]) \/ \E t \in Threads : InArray(arr[t], keyOf[i], i)

(* The reduce worker starts when all map threads have ended.               *)
WaitInv ==
    /\ pc = "wait" => /\ pos = [t \in Threads |-> 0] /\ cur = 0
                      /\ minKey = <<>> /\ nextMin = <<>>
                      /\ itr = EmptyItr /\ got = <<>> /\ out = <<>>
    /\ pc # "wait" => \A t \in Threads : mapped[t]

(* What a thread's pos has passed is called or being called; what it has   *)
(* not is larger than all calls, and than the minimum once it was looked   *)
(* at in this pass; next_min is the least of the heads that were.          *)
ReadInv ==
    /\ \A t \in Threads : \A n \in DOMAIN arr[t] :
          n <= pos[t] => \/ IsCalled(arr[t][n].key)
                         \/ minKey # <<>> /\ arr[t][n].key = MinKey
    /\ \A t \in Threads : \A n \in DOMAIN arr[t] :
          n > pos[t] =>
             /\ \A c \in DOMAIN out : out[c].key < arr[t][n].key
             /\ minKey # <<>> => MinKey <= arr[t][n].key
             /\ t < cur /\ minKey # <<>> => MinKey < arr[t][n].key
             /\ t < cur => nextMin # <<>> /\ KeyAt(nextMin) <= arr[t][n].key
    /\ nextMin # <<>> => nextMin[1] < cur /\ nextMin[2] = pos[nextMin[1]] + 1

OutInv ==
    /\ pc \in {"scan", "reduce", "free"} /\ minKey # <<>> =>
          \A c \in DOMAIN out : out[c].key < MinKey
    /\ pc \in {"reduce", "free", "advance"} => cur = NumThreads
    /\ pc \in {"reduce", "free"} => minKey # <<>>
    /\ pc = "advance" => minKey = <<>> \/ IsCalled(MinKey)
    /\ pc = "done" => minKey = <<>>

(* The lists of the iterator are the entries of the minimum that were      *)
(* passed, in the order of the threads.                                    *)
ListInv ==
    /\ \A l \in DOMAIN itr.lists :
          /\ itr.lists[l][1] <= cur
          /\ itr.lists[l][2] \in DOMAIN arr[itr.lists[l][1]]
          /\ itr.lists[l][2] <= pos[itr.lists[l][1]]
          /\ minKey # <<>> /\ KeyAt(itr.lists[l]) = MinKey
    /\ \A l, m \in DOMAIN itr.lists : l < m => itr.lists[l][1] < itr.lists[m][1]
    /\ pc \in {"scan", "reduce", "free"} /\ minKey # <<>> =>
          \A t \in Threads : \A n \in DOMAIN arr[t] :
              n <= pos[t] /\ arr[t][n].key = MinKey =>
                  \E l \in DOMAIN itr.lists : itr.lists[l] = <<t, n>>
    /\ pc \notin {"reduce", "free"} =>
          itr.list = 1 /\ itr.chunk = 1 /\ itr.index = 0 /\ got = <<>>
    /\ pc \in {"advance", "done"} => itr.lists = <<>>

(* The iterator has handed out the values in front of its position.        *)
Entry(l) == arr[itr.lists[l][1]][itr.lists[l][2]]
Passed(l, c, m) ==
    \/ l < itr.list
    \/ l = itr.list /\ (c < itr.chunk \/ (c = itr.chunk /\ m <= itr.index))
Handed(i) == \E j \in DOMAIN got : i \in got[j]
AllOf(g) == UNION {g[j] : j \in DOMAIN g}
GotInv ==
    pc \in {"reduce", "free"} =>
        /\ itr.list \in DOMAIN itr.lists
        /\ itr.chunk \in DOMAIN Entry(itr.list).vals
        /\ itr.index \in 0 .. Len(Entry(itr.list).vals[itr.chunk].array)
        /\ pc = "free" => /\ itr.list = Len(itr.lists)
                          /\ itr.chunk = Len(Entry(itr.list).vals)
                          /\ itr.index = Len(Entry(itr.list).vals[itr.chunk].array)
        /\ \A i : Handed(i) <=>
             \E l \in DOMAIN itr.lists : \E c, m \in Nat :
                 Passed(l, c, m) /\ SlotHas(Entry(l).vals, c, m, i)
        /\ SumCard(got) = Cardinality(AllOf(got))

BucketInv ==
    /\ BucketTypes /\ ArrayInv /\ EmitInv /\ WaitInv
    /\ ReadInv /\ OutInv /\ ListInv /\ GotInv

LEMMA ThreadNumbers ==
    /\ NumThreads \in Nat \ {0} /\ 0 \in Threads
    /\ \A t \in Threads : t \in Nat /\ t < NumThreads
    /\ \A c \in 0 .. NumThreads : c < NumThreads => c \in Threads /\ c + 1 \in 0 .. NumThreads
    BY ParamsAssumption DEF Threads

LEMMA ArrayTypes ==
    ASSUME BucketTypes, NEW t \in Threads
    PROVE  /\ arr[t] \in Seq(Entries) /\ Len(arr[t]) \in Nat /\ DOMAIN arr[t] = 1 .. Len(arr[t])
           /\ \A n \in DOMAIN arr[t] : /\ n \in Nat \ {0} /\ arr[t][n] \in Entries
                                       /\ arr[t][n].key \in Keys /\ arr[t][n].key \in Int
                                       /\ arr[t][n].vals \in Seq(Chunk)
           /\ pos[t] \in Nat /\ pos[t] <= Len(arr[t])
<1>1. arr[t] \in Seq(Entries) /\ pos[t] \in Nat /\ pos[t] <= Len(arr[t])
    BY DEF BucketTypes
<1>. QED BY <1>1, EntryElements

LEMMA MinTypes ==
    ASSUME BucketTypes, minKey # <<>>
    PROVE  /\ minKey[1] \in Threads /\ minKey[2] \in DOMAIN arr[minKey[1]]
           /\ minKey = <<minKey[1], minKey[2]>>
           /\ MinKey \in Keys /\ MinKey \in Int
<1>1. /\ minKey[1] \in Threads /\ minKey[2] \in DOMAIN arr[minKey[1]]
      /\ minKey = <<minKey[1], minKey[2]>>
    BY DEF BucketTypes, Refs
<1>. QED BY <1>1, ArrayTypes DEF MinKey, KeyAt

LEMMA NextTypes ==
    ASSUME BucketTypes, nextMin # <<>>
    PROVE  /\ nextMin[1] \in Threads /\ nextMin[2] \in DOMAIN arr[nextMin[1]]
           /\ KeyAt(nextMin) \in Keys /\ KeyAt(nextMin) \in Int
<1>1. nextMin[1] \in Threads /\ nextMin[2] \in DOMAIN arr[nextMin[1]]
    BY DEF BucketTypes, Refs
<1>. QED BY <1>1, ArrayTypes DEF KeyAt

LEMMA OutTypes ==
    ASSUME BucketTypes
    PROVE  \A c \in DOMAIN out : out[c].key \in Keys /\ out[c].key \in Int
<1>1. ASSUME NEW c \in DOMAIN out
      PROVE  out[c].key \in Keys
    <2>1. out[c] \in [key : Keys, vals : Seq(SUBSET Nat)]
        <3>1. PICK R : R = [key : Keys, vals : Seq(SUBSET Nat)]
            OBVIOUS
        <3>2. out \in Seq(R)
            BY <3>1 DEF BucketTypes
        <3>3. out[c] \in R
            BY <3>2, Elements
        <3>. QED BY <3>1, <3>3
    <2>. QED BY <2>1
<1>. QED BY <1>1, ParamsAssumption

LEMMA ListTypes ==
    ASSUME BucketTypes
    PROVE  /\ itr.lists \in Seq(Threads \X Counts)
           /\ Len(itr.lists) \in Nat /\ DOMAIN itr.lists = 1 .. Len(itr.lists)
           /\ \A l \in DOMAIN itr.lists :
                 /\ itr.lists[l][1] \in Threads /\ itr.lists[l][2] \in Counts
                 /\ itr.lists[l] = <<itr.lists[l][1], itr.lists[l][2]>>
           /\ itr.list \in Counts /\ itr.chunk \in Counts /\ itr.index \in Nat
<1>1. /\ itr.lists \in Seq(Threads \X Counts)
      /\ itr.list \in Counts /\ itr.chunk \in Counts /\ itr.index \in Nat
    BY DEF BucketTypes
<1>2. \A l \in DOMAIN itr.lists : itr.lists[l] \in Threads \X Counts
    BY <1>1
<1>. QED BY <1>1, <1>2

-----------------------------------------------------------------------------
(* The initial state and the map stage *)

(* The invariant holds of the empty arrays that env_init leaves.           *)
LEMMA BucketInitially == BucketInit => BucketInv
<1>. SUFFICES ASSUME BucketInit PROVE BucketInv
    OBVIOUS
<1>1. \A t \in Threads : arr[t] = <<>>
    BY DEF BucketInit
<1>2. <<>> \in Seq(Entries) /\ Len(<<>>) = 0 /\ DOMAIN <<>> = {} /\ <<>> \in Seq(Keys)
      /\ <<>> \in Seq(SUBSET Nat) /\ <<>> \in Seq([key : Keys, vals : Seq(SUBSET Nat)])
      /\ <<>> \in Seq(Threads \X Counts)
    OBVIOUS
<1>3. \A c : c \notin DOMAIN <<>>
    BY <1>2
<1>4. itr = EmptyItr /\ itr \in [lists : Seq(Threads \X Counts), list : Counts, chunk : Counts, index : Nat]
      /\ itr.lists = <<>> /\ itr.list = 1 /\ itr.chunk = 1 /\ itr.index = 0
    BY <1>2 DEF BucketInit, EmptyItr, Counts
<1>5. BucketTypes
    <2>1. arr \in [Threads -> Seq(Entries)] /\ alloc \in [Threads -> Nat] /\ pos \in [Threads -> Nat]
          /\ mapped \in [Threads -> BOOLEAN]
        BY <1>2 DEF BucketInit
    <2>2. \A t \in Threads : Len(arr[t]) <= alloc[t] /\ pos[t] <= Len(arr[t])
        BY <1>1, <1>2 DEF BucketInit
    <2>3. Len(keyOf) <= MaxEmits /\ cur \in 0 .. NumThreads
        BY <1>2, ParamsAssumption DEF BucketInit
    <2>. QED BY <1>2, <1>4, <2>1, <2>2, <2>3 DEF BucketInit, BucketTypes, Refs
<1>6. ArrayInv
    BY <1>1, <1>3 DEF ArrayInv, Sound, Ascending, OnceIn
<1>7. EmitInv
    BY <1>1, <1>3 DEF EmitInv, InArray, BucketInit
<1>8. WaitInv
    BY <1>4 DEF WaitInv, BucketInit
<1>9. ReadInv /\ OutInv /\ GotInv
    BY <1>1, <1>3 DEF ReadInv, OutInv, GotInv, BucketInit
<1>10. ListInv
    BY <1>1, <1>3, <1>4 DEF ListInv, BucketInit
<1>. QED BY <1>5, <1>6, <1>7, <1>8, <1>9, <1>10 DEF BucketInv

(* In the map stage the invariant says nothing of the reduce worker. *)
LEMMA MapStage ==
    ASSUME BucketInv, pc = "wait", UNCHANGED reduceVars, UNCHANGED combiner,
           arr' \in [Threads -> Seq(Entries)],
           alloc' \in [Threads -> Nat], \A t \in Threads : Len(arr'[t]) <= alloc'[t],
           keyOf' \in Seq(Keys), Len(keyOf') <= MaxEmits,
           mapped' \in [Threads -> BOOLEAN],
           ArrayInv', EmitInv'
    PROVE  BucketInv'
<1>1. /\ pos' = [t \in Threads |-> 0] /\ cur' = 0 /\ minKey' = <<>> /\ nextMin' = <<>>
      /\ itr' = EmptyItr /\ got' = <<>> /\ out' = <<>> /\ pc' = "wait"
    BY DEF BucketInv, WaitInv, reduceVars
<1>2. BucketTypes'
    <2>1. \A t \in Threads : Len(arr'[t]) \in Nat /\ pos'[t] = 0
        BY <1>1
    <2>2. \A t \in Threads : pos'[t] <= Len(arr'[t])
        BY <2>1
    <2>. QED BY <1>1, <2>2 DEF BucketInv, BucketTypes, reduceVars, Refs
<1>3. WaitInv'
    BY <1>1 DEF WaitInv
<1>4. \A t \in Threads : t \in Nat /\ ~(t < 0)
    BY ThreadNumbers
<1>5. \A c : c \notin DOMAIN <<>>
    OBVIOUS
<1>6. ReadInv'
    <2>1. \A t \in Threads : \A n \in DOMAIN arr'[t] : n \in Nat \ {0} /\ ~(n <= pos'[t])
        <3>. SUFFICES ASSUME NEW t \in Threads, NEW n \in DOMAIN arr'[t]
                      PROVE  n \in Nat \ {0} /\ ~(n <= pos'[t])
            OBVIOUS
        <3>1. arr'[t] \in Seq(Entries) /\ pos'[t] = 0
            BY <1>1
        <3>. QED BY <3>1
    <2>. QED BY <1>1, <1>4, <1>5, <2>1 DEF ReadInv
<1>7. OutInv' /\ GotInv'
    BY <1>1 DEF OutInv, GotInv
<1>8. ListInv'
    BY <1>1, <1>5 DEF ListInv, EmptyItr
<1>. QED BY <1>2, <1>3, <1>6, <1>7, <1>8 DEF BucketInv

(* While map threads run nothing has been reduced and no entry is freed.   *)
LEMMA UnfreedArrays ==
    ASSUME BucketInv, pc = "wait", NEW t \in Threads
    PROVE  Unfreed(arr[t])
<1>1. \A k : ~IsCalled(k)
    BY DEF BucketInv, WaitInv, IsCalled
<1>. QED BY <1>1 DEF BucketInv, ArrayInv, Unfreed

(* The invariant, one lemma for each action. An emit adds its value to the *)
(* array of the thread that makes it, and to no other.                     *)
LEMMA EmitStep ==
    ASSUME BucketInv, NEW t \in Threads, NEW k \in Keys, emit_intermediate(t, k)
    PROVE  BucketInv'
<1>1. pc = "wait" /\ ~mapped[t]
    BY DEF emit_intermediate, BucketInv, WaitInv
<1>2. PICK E \in Nat : E = Len(keyOf) /\ DOMAIN keyOf = 1 .. E
    BY DEF BucketInv, BucketTypes
<1>3. /\ keyOf' \in Seq(Keys) /\ Len(keyOf') = E + 1 /\ Len(keyOf') <= MaxEmits
      /\ DOMAIN keyOf' = 1 .. E + 1 /\ keyOf'[E + 1] = k
      /\ \A i \in 1 .. E : keyOf'[i] = keyOf[i]
    <2>1. keyOf \in Seq(Keys) /\ keyOf' = Append(keyOf, k) /\ E < MaxEmits
        BY <1>2 DEF emit_intermediate, BucketInv, BucketTypes
    <2>2. keyOf' \in Seq(Keys) /\ Len(keyOf') = E + 1 /\ DOMAIN keyOf' = 1 .. E + 1
          /\ keyOf'[E + 1] = k /\ \A i \in 1 .. E : keyOf'[i] = keyOf[i]
        BY <1>2, <2>1
    <2>3. E + 1 <= MaxEmits
        BY <2>1, ParamsAssumption
    <2>. QED BY <2>2, <2>3
<1>4. /\ \A u \in Threads : arr[u] \in Seq(Entries) /\ Sound(arr[u]) /\ Unfreed(arr[u])
      /\ \A u \in Threads : \A i : OnceIn(arr[u], i)
      /\ arr \in [Threads -> Seq(Entries)]
    BY <1>1, UnfreedArrays DEF BucketInv, BucketTypes, ArrayInv
<1>5. PICK r, v : v = {E + 1} /\ r = insert_keyval_merged(arr[t], k, v)
    OBVIOUS
<1>6. v \in SUBSET Nat /\ v # {} /\ \A i : i \in v <=> i = E + 1
    BY <1>5
<1>7. /\ r \in Seq(Entries)
      /\ Len(r) = IF InsertPos(arr[t], k).found THEN Len(arr[t]) ELSE Len(arr[t]) + 1
      /\ Sound(r) /\ Unfreed(r)
      /\ \A x, i : InArray(r, x, i) <=> InArray(arr[t], x, i) \/ (x = k /\ i \in v)
      /\ \A i : /\ OnceIn(arr[t], i)
                /\ i \in v => \A x : ~InArray(arr[t], x, i)
                => OnceIn(r, i)
    <2>1. arr[t] \in Seq(Entries) /\ Sound(arr[t]) /\ Unfreed(arr[t])
        BY <1>4
    <2>2. PICK a : a = arr[t]
        OBVIOUS
    <2>3. a \in Seq(Entries) /\ Sound(a) /\ Unfreed(a) /\ r = insert_keyval_merged(a, k, v)
        BY <1>5, <2>1, <2>2
    <2>4. /\ r \in Seq(Entries)
          /\ Len(r) = IF InsertPos(a, k).found THEN Len(a) ELSE Len(a) + 1
          /\ Sound(r) /\ Unfreed(r)
          /\ \A x, i : InArray(r, x, i) <=> InArray(a, x, i) \/ (x = k /\ i \in v)
          /\ \A i : /\ OnceIn(a, i)
                    /\ i \in v => \A x : ~InArray(a, x, i)
                    => OnceIn(r, i)
        BY <1>6, <2>3, MergedIs
    <2>. QED BY <2>2, <2>4
<1>8. /\ arr' \in [Threads -> Seq(Entries)] /\ arr'[t] = r
      /\ \A u \in Threads : u # t => arr'[u] = arr[u]
    BY <1>2, <1>4, <1>5, <1>7 DEF emit_intermediate
<1>9. \A u \in Threads : \A x, i : InArray(arr[u], x, i) => i \in 1 .. E /\ keyOf[i] = x
    BY <1>2 DEF BucketInv, EmitInv
<1>10. \A u \in Threads : \A x : ~InArray(arr[u], x, E + 1)
    <2>1. E + 1 \notin 1 .. E
        OBVIOUS
    <2>. QED BY <1>9, <2>1
<1>11. /\ alloc' \in [Threads -> Nat]
       /\ \A u \in Threads : Len(arr'[u]) <= alloc'[u]
    <2>1. PICK a, l : a = alloc[t] /\ l = Len(arr[t])
        OBVIOUS
    <2>2. a \in Nat /\ l \in Nat /\ l <= a
        BY <1>4, <2>1 DEF BucketInv, BucketTypes
    <2>3. PICK b : b = IF InsertPos(arr[t], k).found THEN a ELSE Grown(l, a)
        OBVIOUS
    <2>4. b \in Nat /\ Len(r) <= b
        BY <1>7, <2>1, <2>2, <2>3, ParamsAssumption DEF Grown
    <2>5. alloc' = [alloc EXCEPT ![t] = b]
        BY <2>1, <2>3 DEF emit_intermediate
    <2>. QED BY <1>8, <2>4, <2>5 DEF BucketInv, BucketTypes
<1>12. UNCHANGED <<combiner, mapped, reduceVars>> /\ out' = out
    BY DEF emit_intermediate, reduceVars
<1>13. ArrayInv'
    <2>. SUFFICES ASSUME NEW u \in Threads
                  PROVE  /\ Sound(arr'[u]) /\ \A i : OnceIn(arr'[u], i)
                         /\ Unfreed(arr'[u])
        BY DEF ArrayInv, Unfreed
    <2>1. \A i : OnceIn(r, i)
        BY <1>4, <1>6, <1>7, <1>10
    <2>. QED BY <1>4, <1>7, <1>8, <2>1
<1>14. EmitInv'
    <2>1. \A u \in Threads : \A x, i :
             InArray(arr'[u], x, i) <=>
               InArray(arr[u], x, i) \/ (u = t /\ x = k /\ i = E + 1)
        BY <1>6, <1>7, <1>8
    <2>2. \A u \in Threads : \A x, i :
             InArray(arr'[u], x, i) => i \in DOMAIN keyOf' /\ keyOf'[i] = x
        <3>. SUFFICES ASSUME NEW u \in Threads, NEW x, NEW i, InArray(arr'[u], x, i)
                      PROVE  i \in 1 .. E + 1 /\ keyOf'[i] = x
            BY <1>3
        <3>1. CASE InArray(arr[u], x, i)
            <4>1. i \in 1 .. E /\ keyOf[i] = x
                BY <1>9, <3>1
            <4>. QED BY <1>3, <4>1
        <3>2. CASE x = k /\ i = E + 1
            BY <1>3, <3>2
        <3>. QED BY <2>1, <3>1, <3>2
    <2>3. \A u, w \in Threads : \A x, i :
             InArray(arr'[u], x, i) /\ InArray(arr'[w], x, i) => u = w
        <3>. SUFFICES ASSUME NEW u \in Threads, NEW w \in Threads, NEW x, NEW i,
                             InArray(arr'[u], x, i), InArray(arr'[w], x, i)
                      PROVE  u = w
            OBVIOUS
        <3>1. CASE i = E + 1
            BY <1>10, <2>1, <3>1
        <3>2. CASE i # E + 1
            <4>1. InArray(arr[u], x, i) /\ InArray(arr[w], x, i)
                BY <2>1, <3>2
            <4>2. \A a, b \in Threads : \A y, j : InArray(arr[a], y, j) /\ InArray(arr[b], y, j) => a = b
                BY DEF BucketInv, EmitInv
            <4>. QED BY <4>1, <4>2, Zenon
        <3>. QED BY <3>1, <3>2
    <2>4. \A i \in 1 .. E + 1 : \E u \in Threads : InArray(arr'[u], keyOf'[i], i)
        <3>. SUFFICES ASSUME NEW i \in 1 .. E + 1
                      PROVE  \E u \in Threads : InArray(arr'[u], keyOf'[i], i)
            OBVIOUS
        <3>1. CASE i = E + 1
            BY <1>3, <2>1, <3>1
        <3>2. CASE i # E + 1
            <4>1. i \in 1 .. E
                BY <3>2
            <4>2. ~IsCalled(keyOf[i])
                BY <1>1 DEF BucketInv, WaitInv, IsCalled
            <4>3. \E u \in Threads : InArray(arr[u], keyOf[i], i)
                BY <1>2, <4>1, <4>2 DEF BucketInv, EmitInv
            <4>. QED BY <1>3, <2>1, <4>1, <4>3
        <3>. QED BY <3>1, <3>2
    <2>. QED BY <1>3, <2>2, <2>3, <2>4 DEF EmitInv
<1>. QED BY <1>1, <1>3, <1>8, <1>11, <1>12, <1>13, <1>14, MapStage DEF BucketInv, BucketTypes

LEMMA EndMapStep ==
    ASSUME BucketInv, NEW t \in Threads, EndMap(t)
    PROVE  BucketInv'
<1>1. pc = "wait" /\ ~mapped[t]
    BY DEF EndMap, BucketInv, WaitInv
<1>2. /\ \A u \in Threads : arr[u] \in Seq(Entries) /\ Sound(arr[u]) /\ Unfreed(arr[u])
      /\ \A u \in Threads : \A i : OnceIn(arr[u], i)
      /\ arr \in [Threads -> Seq(Entries)]
    BY <1>1, UnfreedArrays DEF BucketInv, BucketTypes, ArrayInv
<1>3. PICK r : r = IF combiner THEN run_combiner(arr[t]) ELSE arr[t]
    OBVIOUS
<1>4. /\ r \in Seq(Entries) /\ Len(r) = Len(arr[t])
      /\ Sound(r) /\ Unfreed(r)
      /\ \A k, i : InArray(r, k, i) <=> InArray(arr[t], k, i)
      /\ \A i : OnceIn(r, i)
    <2>1. CASE combiner
        <3>1. r = run_combiner(arr[t]) /\ arr[t] \in Seq(Entries) /\ Sound(arr[t]) /\ Unfreed(arr[t])
            BY <1>2, <1>3, <2>1
        <3>. QED BY <3>1, CombinedIs
    <2>2. CASE ~combiner
        <3>1. r = arr[t]
            BY <1>3, <2>2
        <3>. QED BY <1>2, <3>1
    <2>. QED BY <2>1, <2>2
<1>5. /\ arr' \in [Threads -> Seq(Entries)] /\ arr'[t] = r
      /\ \A u \in Threads : u # t => arr'[u] = arr[u]
    BY <1>2, <1>3, <1>4 DEF EndMap
<1>6. UNCHANGED <<combiner, alloc, keyOf, reduceVars>> /\ out' = out
    BY DEF EndMap, reduceVars
<1>7. mapped' \in [Threads -> BOOLEAN]
    BY DEF EndMap, BucketInv, BucketTypes
<1>8. \A u \in Threads : Len(arr'[u]) <= alloc'[u]
    BY <1>4, <1>5, <1>6 DEF BucketInv, BucketTypes
<1>9. ArrayInv'
    <2>. SUFFICES ASSUME NEW u \in Threads
                  PROVE  /\ Sound(arr'[u]) /\ \A i : OnceIn(arr'[u], i)
                         /\ Unfreed(arr'[u])
        BY DEF ArrayInv, Unfreed
    <2>. QED BY <1>2, <1>4, <1>5
<1>10. EmitInv'
    <2>1. \A u \in Threads : \A k, i : InArray(arr'[u], k, i) <=> InArray(arr[u], k, i)
        BY <1>4, <1>5
    <2>2. \A k : IsCalled(k)' <=> IsCalled(k)
        BY <1>6 DEF IsCalled
    <2>3. \A u \in Threads : \A k, i :
             InArray(arr'[u], k, i) => i \in DOMAIN keyOf' /\ keyOf'[i] = k
        BY <1>6, <2>1 DEF BucketInv, EmitInv
    <2>4. \A u, w \in Threads : \A k, i :
             InArray(arr'[u], k, i) /\ InArray(arr'[w], k, i) => u = w
        <3>1. \A u, w \in Threads : \A k, i : InArray(arr[u], k, i) /\ InArray(arr[w], k, i) => u = w
            BY DEF BucketInv, EmitInv
        <3>. QED BY <2>1, <3>1, Zenon
    <2>5. \A i \in DOMAIN keyOf' :
             IsCalled(keyOf[i])' \/ \E u \in Threads : InArray(arr'[u], keyOf'[i], i)
        <3>1. \A i \in DOMAIN keyOf : IsCalled(keyOf[i]) \/ \E u \in Threads : InArray(arr[u], keyOf[i], i)
            BY DEF BucketInv, EmitInv
        <3>2. ASSUME NEW i \in DOMAIN keyOf
              PROVE  IsCalled(keyOf[i]) \/ \E u \in Threads : InArray(arr'[u], keyOf[i], i)
            BY <2>1, <3>1
        <3>. QED BY <1>6, <3>2 DEF IsCalled
    <2>. QED BY <2>3, <2>4, <2>5 DEF EmitInv
<1>11. keyOf' \in Seq(Keys) /\ Len(keyOf') <= MaxEmits /\ alloc' \in [Threads -> Nat]
    BY <1>6 DEF BucketInv, BucketTypes
<1>. QED BY <1>1, <1>5, <1>6, <1>7, <1>8, <1>9, <1>10, <1>11, MapStage

-----------------------------------------------------------------------------
(* The passes of the reduce worker over the arrays *)

(* What the steps of the reduce worker between two calls leave alone.      *)
LEMMA SameData ==
    ASSUME BucketInv, UNCHANGED mapVars, UNCHANGED out, pc' # "wait",
           \A t \in Threads : mapped[t]
    PROVE  /\ ArrayInv' /\ EmitInv' /\ WaitInv'
           /\ \A r : KeyAt(r)' = KeyAt(r)
           /\ \A k : IsCalled(k)' <=> IsCalled(k)
<1>1. arr' = arr /\ keyOf' = keyOf /\ out' = out /\ mapped' = mapped
    BY DEF mapVars
<1>2. ArrayInv'
    BY <1>1 DEF BucketInv, ArrayInv, IsCalled
<1>3. EmitInv'
    BY <1>1 DEF BucketInv, EmitInv, IsCalled
<1>4. WaitInv'
    BY <1>1 DEF WaitInv
<1>. QED BY <1>1, <1>2, <1>3, <1>4 DEF KeyAt, IsCalled

LEMMA Started == ASSUME BucketInv, pc # "wait" PROVE \A t \in Threads : mapped[t]
    BY DEF BucketInv, WaitInv

LEMMA StartStep ==
    ASSUME BucketInv, StartBucket
    PROVE  BucketInv'
<1>1. /\ pc = "wait" /\ pc' = "scan" /\ UNCHANGED mapVars /\ \A t \in Threads : mapped[t]
      /\ UNCHANGED <<arr, out, pos, cur, minKey, nextMin, itr, got, combiner, alloc, keyOf, mapped>>
    BY DEF StartBucket, mapVars
<1>2. ArrayInv' /\ EmitInv' /\ WaitInv'
    BY <1>1, SameData
<1>3. BucketTypes'
    BY <1>1 DEF BucketInv, BucketTypes
<1>4. /\ minKey = <<>> /\ itr = EmptyItr /\ out = <<>> /\ got = <<>>
    BY <1>1 DEF BucketInv, WaitInv
<1>5. ReadInv'
    BY <1>1 DEF BucketInv, ReadInv, IsCalled, MinKey, KeyAt
<1>6. OutInv' /\ GotInv'
    BY <1>1, <1>4 DEF OutInv, GotInv
<1>7. ListInv'
    <2>1. itr.list = 1 /\ itr.chunk = 1 /\ itr.index = 0 /\ itr.lists = <<>>
        BY <1>4 DEF EmptyItr
    <2>2. \A l : l \notin DOMAIN <<>>
        OBVIOUS
    <2>. QED BY <1>1, <1>4, <2>1, <2>2 DEF ListInv
<1>. QED BY <1>2, <1>3, <1>5, <1>6, <1>7 DEF BucketInv

(* The array of cur is exhausted, so that nothing in it could be the       *)
(* minimum.                                                                *)
LEMMA SkipStep ==
    ASSUME BucketInv, SkipExhausted
    PROVE  BucketInv'
<1>1. /\ pc = "scan" /\ cur < NumThreads /\ pos[cur] >= Len(arr[cur]) /\ cur' = cur + 1
      /\ UNCHANGED mapVars
      /\ UNCHANGED <<arr, out, pos, minKey, nextMin, itr, got, combiner, alloc, keyOf, mapped, pc>>
    BY DEF SkipExhausted, mapVars, Exhausted
<1>2. ArrayInv' /\ EmitInv' /\ WaitInv'
    BY <1>1, SameData, Started
<1>3. cur \in Threads /\ cur \in Nat /\ cur' \in 0 .. NumThreads
    BY <1>1, ThreadNumbers DEF BucketInv, BucketTypes
<1>4. BucketTypes'
    BY <1>1, <1>3 DEF BucketInv, BucketTypes
<1>5. \A n \in DOMAIN arr[cur] : ~(n > pos[cur])
    <2>1. arr[cur] \in Seq(Entries) /\ pos[cur] \in Nat
        BY <1>3, ArrayTypes DEF BucketInv
    <2>. QED BY <1>1, <2>1
<1>6. \A t \in Threads : t < cur' => t < cur \/ t = cur
    BY <1>1, <1>3, ThreadNumbers
<1>7. ReadInv'
    <2>1. \A t \in Threads : \A n \in DOMAIN arr[t] :
             n <= pos[t] => IsCalled(arr[t][n].key) \/ (minKey # <<>> /\ arr[t][n].key = MinKey)
        BY DEF BucketInv, ReadInv
    <2>2. \A t \in Threads : \A n \in DOMAIN arr[t] :
             n > pos[t] =>
                /\ \A c \in DOMAIN out : out[c].key < arr[t][n].key
                /\ minKey # <<>> => MinKey <= arr[t][n].key
                /\ t < cur + 1 /\ minKey # <<>> => MinKey < arr[t][n].key
                /\ t < cur + 1 => nextMin # <<>> /\ KeyAt(nextMin) <= arr[t][n].key
        BY <1>1, <1>5, <1>6 DEF BucketInv, ReadInv
    <2>3. nextMin # <<>> => nextMin[1] < cur + 1 /\ nextMin[2] = pos[nextMin[1]] + 1
        <3>1. nextMin # <<>> => nextMin[1] \in Nat /\ nextMin[1] < cur
            BY NextTypes, ThreadNumbers DEF BucketInv, ReadInv
        <3>. QED BY <1>3, <3>1 DEF BucketInv, ReadInv
    <2>. QED BY <1>1, <2>1, <2>2, <2>3 DEF ReadInv, IsCalled, MinKey, KeyAt
<1>8. OutInv' /\ GotInv'
    BY <1>1 DEF BucketInv, OutInv, GotInv, MinKey, KeyAt
<1>9. ListInv'
    <2>1. \A l \in DOMAIN itr.lists : itr.lists[l][1] <= cur + 1
        <3>1. \A l \in DOMAIN itr.lists : itr.lists[l][1] \in Nat
            BY ListTypes, ThreadNumbers DEF BucketInv
        <3>. QED BY <1>3, <3>1 DEF BucketInv, ListInv
    <2>. QED BY <1>1, <2>1 DEF BucketInv, ListInv, MinKey, KeyAt
<1>. QED BY <1>2, <1>4, <1>7, <1>8, <1>9 DEF BucketInv

(* Threads in ascending order below c are at most c.                       *)
LEMMA StrictlyBelow ==
    ASSUME NEW s, NEW L \in Nat, NEW c \in Nat,
           \A l \in 1 .. L : s[l] \in Nat /\ s[l] < c,
           \A l, m \in 1 .. L : l < m => s[l] < s[m]
    PROVE  L <= c
<1>. DEFINE Bad == {l \in 1 .. L : ~(s[l] >= l - 1)}
<1>1. Bad = {}
    <2>. SUFFICES ASSUME Bad # {}
                  PROVE  FALSE
        OBVIOUS
    <2>1. PICK l \in Bad : \A m \in Bad : l <= m
        BY Least, Bad \in SUBSET Nat
    <2>2. l \in 1 .. L /\ s[l] \in Nat /\ ~(s[l] >= l - 1)
        OBVIOUS
    <2>3. l # 1
        BY <2>2
    <2>4. PICK m \in 1 .. L : m = l - 1
        BY <2>2, <2>3
    <2>5. m \notin Bad /\ m < l
        BY <2>1, <2>4
    <2>6. s[m] \in Nat /\ s[m] >= m - 1 /\ s[m] < s[l]
        BY <2>2, <2>5
    <2>. QED BY <2>2, <2>4, <2>6
<1>2. CASE L = 0
    BY <1>2
<1>3. CASE L # 0
    <2>1. L \in 1 .. L
        BY <1>3
    <2>2. s[L] \in Nat /\ s[L] < c /\ s[L] >= L - 1
        BY <1>1, <2>1
    <2>. QED BY <2>2
<1>. QED BY <1>2, <1>3

(* In the array that is looked at no list was added of the same key.       *)
LEMMA ListsBefore ==
    ASSUME BucketInv, cur < NumThreads, ~Exhausted(cur), minKey # <<>>, CurrKey = MinKey
    PROVE  /\ \A l \in DOMAIN itr.lists : itr.lists[l][1] \in Nat /\ itr.lists[l][1] < cur
           /\ Len(itr.lists) <= cur
<1>1. cur \in Threads /\ cur \in Nat
    BY ThreadNumbers DEF BucketInv, BucketTypes
<1>2. PICK p : p = pos[cur]
    OBVIOUS
<1>3. p \in Nat /\ p + 1 \in DOMAIN arr[cur] /\ CurrKey = arr[cur][p + 1].key
    <2>1. arr[cur] \in Seq(Entries) /\ p \in Nat /\ p < Len(arr[cur])
        BY <1>1, <1>2, ArrayTypes DEF Exhausted, BucketInv
    <2>. QED BY <1>2, <2>1 DEF CurrKey
<1>4. \A m, n \in DOMAIN arr[cur] : m < n => arr[cur][m].key < arr[cur][n].key
    BY <1>1 DEF BucketInv, ArrayInv, Sound, Ascending
<1>5. ASSUME NEW l \in DOMAIN itr.lists
      PROVE  itr.lists[l][1] \in Nat /\ itr.lists[l][1] < cur
    <2>1. PICK t \in Threads, n \in Counts : itr.lists[l] = <<t, n>>
        BY ListTypes DEF BucketInv
    <2>2. t \in Nat /\ t <= cur /\ n \in DOMAIN arr[t] /\ n <= pos[t] /\ arr[t][n].key = MinKey
        BY <2>1, ThreadNumbers DEF BucketInv, ListInv, KeyAt
    <2>3. t # cur
        <3>. SUFFICES ASSUME t = cur PROVE FALSE
            OBVIOUS
        <3>1. n < p + 1 /\ n \in DOMAIN arr[cur]
            BY <1>2, <1>3, <2>2 DEF Counts
        <3>2. arr[cur][n].key < arr[cur][p + 1].key
            BY <1>3, <1>4, <3>1
        <3>3. arr[cur][n].key = MinKey /\ arr[cur][p + 1].key = MinKey
            BY <1>3, <2>2
        <3>4. MinKey \in Int
            BY MinTypes DEF BucketInv
        <3>. QED BY <3>2, <3>3, <3>4
    <2>. QED BY <1>1, <2>1, <2>2, <2>3
<1>6. PICK s, L : L = Len(itr.lists) /\ s = [l \in 1 .. L |-> itr.lists[l][1]]
    OBVIOUS
<1>7. L \in Nat /\ DOMAIN itr.lists = 1 .. L
    BY <1>6, ListTypes DEF BucketInv
<1>8. \A l, m \in 1 .. L : l < m => s[l] < s[m]
    BY <1>6, <1>7 DEF BucketInv, ListInv
<1>9. L <= cur
    BY <1>1, <1>5, <1>6, <1>7, <1>8, StrictlyBelow
<1>. QED BY <1>5, <1>6, <1>9

(* An entry of the minimum is added to the iterator: it is the first of    *)
(* its array, since no array has a key twice.                              *)
LEMMA AddStep ==
    ASSUME BucketInv, AddToItr
    PROVE  BucketInv'
<1>1. /\ pc = "scan" /\ cur < NumThreads /\ ~Exhausted(cur) /\ minKey # <<>> /\ CurrKey = MinKey
      /\ pc' = (IF Len(itr.lists) < NumThreads THEN pc ELSE "aborted")
      /\ itr' = [itr EXCEPT !.lists = Append(@, <<cur, pos[cur] + 1>>)]
      /\ pos' = [pos EXCEPT ![cur] = @ + 1]
      /\ UNCHANGED mapVars
      /\ UNCHANGED <<arr, out, cur, minKey, nextMin, got, combiner, alloc, keyOf, mapped>>
    BY DEF AddToItr, mapVars, MatchesMin, MinKey
<1>2. cur \in Threads /\ cur \in Nat
    BY <1>1, ThreadNumbers DEF BucketInv, BucketTypes
<1>3. PICK p : p = pos[cur]
    OBVIOUS
<1>4. /\ p \in Nat /\ p + 1 \in DOMAIN arr[cur] /\ arr[cur][p + 1].key = MinKey
      /\ p + 1 <= Len(arr[cur])
    <2>1. arr[cur] \in Seq(Entries) /\ p \in Nat /\ p < Len(arr[cur])
        BY <1>1, <1>2, <1>3, ArrayTypes DEF Exhausted, BucketInv
    <2>. QED BY <1>1, <1>3, <2>1 DEF CurrKey
<1>5. /\ \A l \in DOMAIN itr.lists : itr.lists[l][1] \in Nat /\ itr.lists[l][1] < cur
      /\ Len(itr.lists) <= cur
    BY <1>1, ListsBefore
<1>6. PICK L \in Nat : L = Len(itr.lists) /\ DOMAIN itr.lists = 1 .. L
    BY ListTypes DEF BucketInv
<1>7. pc' = "scan"
    BY <1>1, <1>2, <1>5, <1>6, ThreadNumbers
<1>8. /\ itr'.lists \in Seq(Threads \X Counts) /\ Len(itr'.lists) = L + 1
      /\ DOMAIN itr'.lists = 1 .. L + 1
      /\ \A l \in 1 .. L : itr'.lists[l] = itr.lists[l]
      /\ itr'.lists[L + 1] = <<cur, p + 1>>
      /\ itr'.list = itr.list /\ itr'.chunk = itr.chunk /\ itr'.index = itr.index
      /\ itr' \in [lists : Seq(Threads \X Counts), list : Counts, chunk : Counts, index : Nat]
    <2>1. <<cur, p + 1>> \in Threads \X Counts
        BY <1>2, <1>4 DEF Counts
    <2>2. PICK x, y : x = itr.lists /\ y = Append(x, <<cur, p + 1>>)
        OBVIOUS
    <2>3. x \in Seq(Threads \X Counts) /\ Len(x) = L
        BY <1>6, <2>2, ListTypes DEF BucketInv
    <2>4. PICK S, e : S = Threads \X Counts /\ e = <<cur, p + 1>>
        OBVIOUS
    <2>5. x \in Seq(S) /\ e \in S /\ y = Append(x, e)
        BY <2>1, <2>2, <2>3, <2>4
    <2>6. y \in Seq(S) /\ Len(y) = L + 1 /\ DOMAIN y = 1 .. L + 1
          /\ (\A l \in 1 .. L : y[l] = x[l]) /\ y[L + 1] = e
        BY <2>3, <2>5
    <2>7. itr \in [lists : Seq(Threads \X Counts), list : Counts, chunk : Counts, index : Nat]
        BY DEF BucketInv, BucketTypes
    <2>8. itr' = [itr EXCEPT !.lists = y]
        BY <1>1, <1>3, <2>2
    <2>9. /\ itr' \in [lists : Seq(S), list : Counts, chunk : Counts, index : Nat]
          /\ itr'.lists = y
          /\ itr'.list = itr.list /\ itr'.chunk = itr.chunk /\ itr'.index = itr.index
        BY <2>4, <2>6, <2>7, <2>8
    <2>. QED BY <2>2, <2>4, <2>6, <2>9
<1>9. ArrayInv' /\ EmitInv' /\ WaitInv'
    BY <1>1, <1>7, SameData, Started
<1>10. /\ pos' \in [Threads -> Nat] /\ pos'[cur] = p + 1
       /\ \A t \in Threads : t # cur => pos'[t] = pos[t]
    <2>1. pos \in [Threads -> Nat] /\ p + 1 \in Nat /\ pos' = [pos EXCEPT ![cur] = p + 1]
        <3>1. pos \in [Threads -> Nat]
            BY DEF BucketInv, BucketTypes
        <3>2. p + 1 \in Nat
            BY <1>4
        <3>3. pos' = [pos EXCEPT ![cur] = pos[cur] + 1]
            BY <1>1
        <3>. QED BY <1>3, <3>1, <3>2, <3>3
    <2>. QED BY <1>2, <2>1
<1>11. BucketTypes'
    <2>1. \A t \in Threads : pos'[t] <= Len(arr[t])
        BY <1>4, <1>10 DEF BucketInv, BucketTypes
    <2>. QED BY <1>1, <1>7, <1>8, <1>10, <2>1 DEF BucketInv, BucketTypes
<1>12. \A t \in Threads : \A n \in DOMAIN arr[t] :
          /\ n \in Nat
          /\ n <= pos'[t] => n <= pos[t] \/ (t = cur /\ n = p + 1)
          /\ n > pos'[t] => n > pos[t]
    <2>. SUFFICES ASSUME NEW t \in Threads, NEW n \in DOMAIN arr[t]
                  PROVE  /\ n \in Nat
                         /\ n <= pos'[t] => n <= pos[t] \/ (t = cur /\ n = p + 1)
                         /\ n > pos'[t] => n > pos[t]
        OBVIOUS
    <2>1. n \in Nat
        BY ArrayTypes DEF BucketInv
    <2>2. CASE t = cur
        BY <1>3, <1>4, <1>10, <2>1, <2>2
    <2>3. CASE t # cur
        BY <1>10, <2>1, <2>3
    <2>. QED BY <2>2, <2>3
<1>13. ReadInv'
    <2>1. \A t \in Threads : \A n \in DOMAIN arr[t] :
             n <= pos'[t] => IsCalled(arr[t][n].key) \/ (minKey # <<>> /\ arr[t][n].key = MinKey)
        BY <1>1, <1>4, <1>12 DEF BucketInv, ReadInv
    <2>2. \A t \in Threads : \A n \in DOMAIN arr[t] :
             n > pos'[t] =>
                /\ \A c \in DOMAIN out : out[c].key < arr[t][n].key
                /\ minKey # <<>> => MinKey <= arr[t][n].key
                /\ t < cur /\ minKey # <<>> => MinKey < arr[t][n].key
                /\ t < cur => nextMin # <<>> /\ KeyAt(nextMin) <= arr[t][n].key
        BY <1>12 DEF BucketInv, ReadInv
    <2>3. nextMin # <<>> => nextMin[1] < cur /\ nextMin[2] = pos'[nextMin[1]] + 1
        <3>. SUFFICES ASSUME nextMin # <<>>
                      PROVE  nextMin[1] < cur /\ nextMin[2] = pos'[nextMin[1]] + 1
            OBVIOUS
        <3>1. nextMin[1] < cur /\ nextMin[2] = pos[nextMin[1]] + 1 /\ nextMin[1] \in Threads
            BY NextTypes DEF BucketInv, ReadInv
        <3>2. nextMin[1] # cur
            BY <1>2, <3>1
        <3>. QED BY <1>10, <3>1, <3>2
    <2>. QED BY <1>1, <2>1, <2>2, <2>3 DEF ReadInv, IsCalled, MinKey, KeyAt
<1>14. OutInv' /\ GotInv'
    BY <1>1, <1>7 DEF BucketInv, OutInv, GotInv, MinKey, KeyAt
<1>15. ListInv'
    <2>1. ASSUME NEW l \in 1 .. L + 1
          PROVE  /\ itr'.lists[l][1] <= cur
                 /\ itr'.lists[l][2] \in DOMAIN arr[itr'.lists[l][1]]
                 /\ itr'.lists[l][2] <= pos'[itr'.lists[l][1]]
                 /\ KeyAt(itr'.lists[l]) = MinKey
        <3>1. CASE l = L + 1
            BY <1>2, <1>4, <1>8, <1>10, <3>1 DEF KeyAt
        <3>2. CASE l # L + 1
            <4>1. l \in 1 .. L
                BY <3>2
            <4>2. PICK x : x = itr.lists[l] /\ x = itr'.lists[l]
                BY <1>8, <4>1
            <4>3. /\ x[1] \in Threads /\ x[1] < cur /\ x[1] <= cur /\ x[2] \in DOMAIN arr[x[1]] /\ x[2] <= pos[x[1]]
                  /\ KeyAt(x) = MinKey
                BY <1>5, <1>6, <4>1, <4>2, ListTypes DEF BucketInv, ListInv
            <4>4. x[1] # cur
                BY <1>2, <4>3
            <4>5. pos'[x[1]] = pos[x[1]]
                BY <1>10, <4>3, <4>4
            <4>. QED BY <4>2, <4>3, <4>5
        <3>. QED BY <3>1, <3>2
    <2>2. \A l, m \in 1 .. L + 1 : l < m => itr'.lists[l][1] < itr'.lists[m][1]
        <3>. SUFFICES ASSUME NEW l \in 1 .. L + 1, NEW m \in 1 .. L + 1, l < m
                      PROVE  itr'.lists[l][1] < itr'.lists[m][1]
            OBVIOUS
        <3>1. l \in 1 .. L /\ itr'.lists[l] = itr.lists[l]
            BY <1>8
        <3>2. CASE m = L + 1
            BY <1>5, <1>6, <1>8, <3>1, <3>2
        <3>3. CASE m # L + 1
            <4>1. m \in 1 .. L /\ itr'.lists[m] = itr.lists[m]
                BY <1>8, <3>3
            <4>. QED BY <1>6, <3>1, <4>1 DEF BucketInv, ListInv
        <3>. QED BY <3>2, <3>3
    <2>3. ASSUME NEW t \in Threads, NEW n \in DOMAIN arr[t], n <= pos'[t], arr[t][n].key = MinKey
          PROVE  \E l \in 1 .. L + 1 : itr'.lists[l] = <<t, n>>
        <3>1. CASE t = cur /\ n = p + 1
            <4>1. L + 1 \in 1 .. L + 1
                OBVIOUS
            <4>. QED BY <1>8, <3>1, <4>1
        <3>2. CASE n <= pos[t]
            <4>1. PICK l \in 1 .. L : itr.lists[l] = <<t, n>>
                BY <1>1, <1>6, <2>3, <3>2 DEF BucketInv, ListInv
            <4>2. l \in 1 .. L + 1
                OBVIOUS
            <4>. QED BY <1>8, <4>1, <4>2
        <3>. QED BY <1>12, <2>3, <3>1, <3>2
    <2>4. itr.list = 1 /\ itr.chunk = 1 /\ itr.index = 0 /\ got = <<>>
        BY <1>1 DEF BucketInv, ListInv
    <2>5. /\ \A x : KeyAt(x)' = KeyAt(x)
          /\ MinKey' = MinKey
        BY <1>1 DEF MinKey, KeyAt
    <2>6. PICK s : s = itr'.lists
        OBVIOUS
    <2>7. \A l \in DOMAIN s :
             /\ s[l][1] <= cur' /\ s[l][2] \in DOMAIN arr'[s[l][1]]
             /\ s[l][2] <= pos'[s[l][1]]
             /\ minKey' # <<>> /\ KeyAt(s[l])' = MinKey'
        BY <1>1, <1>8, <2>1, <2>5, <2>6
    <2>8. \A l, m \in DOMAIN s : l < m => s[l][1] < s[m][1]
        BY <1>8, <2>2, <2>6
    <2>9. \A t \in Threads : \A n \in DOMAIN arr'[t] :
             n <= pos'[t] /\ arr'[t][n].key = MinKey' => \E l \in DOMAIN s : s[l] = <<t, n>>
        BY <1>1, <1>8, <2>3, <2>5, <2>6
    <2>10. itr'.list = 1 /\ itr'.chunk = 1 /\ itr'.index = 0 /\ got' = <<>>
        BY <1>1, <1>8, <2>4
    <2>. QED BY <1>7, <2>6, <2>7, <2>8, <2>9, <2>10 DEF ListInv
<1>. QED BY <1>9, <1>11, <1>13, <1>14, <1>15 DEF BucketInv

(* The head of an array that is not the minimum is larger; the least of    *)
(* these heads is kept for the next pass.                                  *)
LEMMA FindStep ==
    ASSUME BucketInv, FindNextMin
    PROVE  BucketInv'
<1>1. /\ pc = "scan" /\ cur < NumThreads /\ ~Exhausted(cur)
      /\ ~(minKey # <<>> /\ CurrKey = MinKey)
      /\ nextMin' = (IF nextMin = <<>> \/ CurrKey < KeyAt(nextMin)
                       THEN <<cur, pos[cur] + 1>> ELSE nextMin)
      /\ cur' = cur + 1
      /\ UNCHANGED mapVars
      /\ UNCHANGED <<arr, out, pc, pos, minKey, itr, got, combiner, alloc, keyOf, mapped>>
    BY DEF FindNextMin, mapVars, MatchesMin, MinKey
<1>2. cur \in Threads /\ cur \in Nat /\ cur' \in 0 .. NumThreads
    BY <1>1, ThreadNumbers DEF BucketInv, BucketTypes
<1>3. PICK p, h : p = pos[cur] /\ h = CurrKey
    OBVIOUS
<1>4. /\ p \in Nat /\ p + 1 \in DOMAIN arr[cur] /\ p + 1 \in Nat \ {0}
      /\ h = arr[cur][p + 1].key /\ h \in Int /\ h = KeyAt(<<cur, p + 1>>)
      /\ \A n \in DOMAIN arr[cur] : n > p => n = p + 1 \/ p + 1 < n
    <2>1. arr[cur] \in Seq(Entries) /\ p \in Nat /\ p < Len(arr[cur])
        BY <1>1, <1>2, <1>3, ArrayTypes DEF Exhausted, BucketInv
    <2>2. p + 1 \in DOMAIN arr[cur]
        BY <2>1
    <2>3. \A n \in DOMAIN arr[cur] : n > p => n = p + 1 \/ p + 1 < n
        BY <2>1
    <2>. QED BY <1>2, <1>3, <2>1, <2>2, <2>3, ArrayTypes DEF CurrKey, KeyAt, BucketInv
<1>5. ArrayInv' /\ EmitInv' /\ WaitInv'
    BY <1>1, SameData, Started
<1>6. BucketTypes'
    <2>1. nextMin' \in Refs /\ (nextMin' # <<>> => nextMin'[2] \in DOMAIN arr[nextMin'[1]])
        <3>1. CASE nextMin' = <<cur, p + 1>>
            BY <1>2, <1>4, <3>1 DEF Refs
        <3>2. CASE nextMin' = nextMin
            BY <3>2 DEF BucketInv, BucketTypes
        <3>. QED BY <1>1, <1>3, <3>1, <3>2
    <2>. QED BY <1>1, <1>2, <2>1 DEF BucketInv, BucketTypes
<1>7. \A t \in Threads : t < cur' => t < cur \/ t = cur
    BY <1>1, <1>2, ThreadNumbers
<1>8. /\ \A n \in DOMAIN arr[cur] : n > p => h <= arr[cur][n].key /\ arr[cur][n].key \in Int
      /\ minKey # <<>> => MinKey < h /\ MinKey \in Int
    <2>1. \A m, n \in DOMAIN arr[cur] : m < n => arr[cur][m].key < arr[cur][n].key
        BY <1>2 DEF BucketInv, ArrayInv, Sound, Ascending
    <2>2. \A n \in DOMAIN arr[cur] : arr[cur][n].key \in Int
        BY <1>2, ArrayTypes DEF BucketInv
    <2>3. \A n \in DOMAIN arr[cur] : n > p => h <= arr[cur][n].key
        <3>. SUFFICES ASSUME NEW n \in DOMAIN arr[cur], n > p
                      PROVE  h <= arr[cur][n].key
            OBVIOUS
        <3>1. n = p + 1 \/ p + 1 < n
            BY <1>4
        <3>2. h = arr[cur][n].key \/ h < arr[cur][n].key
            BY <1>4, <2>1, <3>1
        <3>3. arr[cur][n].key \in Int
            BY <2>2
        <3>. QED BY <1>4, <3>2, <3>3
    <2>4. ASSUME minKey # <<>> PROVE MinKey < h /\ MinKey \in Int
        <3>1. p + 1 > p
            BY <1>4
        <3>2. MinKey <= h
            BY <1>2, <1>3, <1>4, <2>4, <3>1 DEF BucketInv, ReadInv
        <3>3. MinKey # h /\ MinKey \in Int
            BY <1>1, <1>3, <2>4, MinTypes DEF BucketInv
        <3>. QED BY <1>4, <3>2, <3>3
    <2>. QED BY <2>2, <2>3, <2>4
<1>9. /\ nextMin' # <<>> /\ KeyAt(nextMin') \in Int /\ KeyAt(nextMin') <= h
      /\ nextMin # <<>> => KeyAt(nextMin') <= KeyAt(nextMin) /\ KeyAt(nextMin) \in Int
    <2>1. nextMin # <<>> => KeyAt(nextMin) \in Int
        BY NextTypes DEF BucketInv
    <2>2. CASE nextMin = <<>> \/ h < KeyAt(nextMin)
        <3>1. nextMin' = <<cur, p + 1>>
            BY <1>1, <1>3, <2>2
        <3>2. nextMin' # <<>> /\ KeyAt(nextMin') = h
            BY <1>4, <3>1
        <3>. QED BY <1>4, <2>1, <2>2, <3>2
    <2>3. CASE ~(nextMin = <<>> \/ h < KeyAt(nextMin))
        <3>1. nextMin' = nextMin
            BY <1>1, <1>3, <2>3
        <3>. QED BY <1>4, <2>1, <2>3, <3>1
    <2>. QED BY <2>2, <2>3
<1>10. \A t \in Threads : \A n \in DOMAIN arr[t] :
             n > pos[t] =>
                /\ \A c \in DOMAIN out : out[c].key < arr[t][n].key
                /\ minKey # <<>> => MinKey <= arr[t][n].key
                /\ t < cur + 1 /\ minKey # <<>> => MinKey < arr[t][n].key
                /\ t < cur + 1 => nextMin' # <<>> /\ KeyAt(nextMin') <= arr[t][n].key
    <2>. SUFFICES ASSUME NEW t \in Threads, NEW n \in DOMAIN arr[t], n > pos[t]
                  PROVE  /\ t < cur + 1 /\ minKey # <<>> => MinKey < arr[t][n].key
                         /\ t < cur + 1 => nextMin' # <<>> /\ KeyAt(nextMin') <= arr[t][n].key
        BY DEF BucketInv, ReadInv
    <2>0. arr[t][n].key \in Int
        BY ArrayTypes DEF BucketInv
    <2>1. CASE t < cur
        <3>1. /\ minKey # <<>> => MinKey < arr[t][n].key
              /\ nextMin # <<>> /\ KeyAt(nextMin) <= arr[t][n].key
            BY <2>1 DEF BucketInv, ReadInv
        <3>2. KeyAt(nextMin') <= arr[t][n].key
            BY <1>9, <2>0, <3>1
        <3>. QED BY <1>9, <3>1, <3>2
    <2>2. CASE t = cur
        <3>1. h <= arr[t][n].key
            BY <1>3, <1>8, <2>2
        <3>. QED BY <1>4, <1>8, <1>9, <2>0, <3>1
    <2>. QED BY <1>1, <1>7, <2>1, <2>2
<1>11. nextMin' # <<>> => nextMin'[1] < cur + 1 /\ nextMin'[2] = pos[nextMin'[1]] + 1
    <2>1. CASE nextMin' = <<cur, p + 1>>
        BY <1>2, <1>3, <2>1
    <2>2. CASE nextMin' = nextMin /\ nextMin # <<>>
        <3>1. nextMin[1] \in Nat /\ nextMin[1] < cur /\ nextMin[2] = pos[nextMin[1]] + 1
            BY <2>2, NextTypes, ThreadNumbers DEF BucketInv, ReadInv
        <3>. QED BY <1>2, <2>2, <3>1
    <2>. QED BY <1>1, <1>3, <2>1, <2>2
<1>12. (\A x : KeyAt(x)' = KeyAt(x)) /\ MinKey' = MinKey /\ (\A k : IsCalled(k)' <=> IsCalled(k))
    BY <1>1 DEF MinKey, KeyAt, IsCalled
<1>13. ReadInv'
    <2>1. \A t \in Threads : \A n \in DOMAIN arr[t] :
             n <= pos[t] => IsCalled(arr[t][n].key) \/ (minKey # <<>> /\ arr[t][n].key = MinKey)
        BY DEF BucketInv, ReadInv
    <2>2. KeyAt(nextMin)' = KeyAt(nextMin')
        BY <1>1 DEF KeyAt
    <2>. QED BY <1>1, <1>10, <1>11, <1>12, <2>1, <2>2 DEF ReadInv
<1>14. OutInv' /\ GotInv'
    BY <1>1 DEF BucketInv, OutInv, GotInv, MinKey, KeyAt
<1>15. ListInv'
    <2>1. \A l \in DOMAIN itr.lists : itr.lists[l][1] <= cur + 1
        <3>1. \A l \in DOMAIN itr.lists : itr.lists[l][1] \in Nat
            BY ListTypes, ThreadNumbers DEF BucketInv
        <3>. QED BY <1>2, <3>1 DEF BucketInv, ListInv
    <2>. QED BY <1>1, <2>1 DEF BucketInv, ListInv, MinKey, KeyAt
<1>. QED BY <1>5, <1>6, <1>13, <1>14, <1>15 DEF BucketInv

(* After a pass the entry of the minimum is the first list or a later one, *)
(* and has values.                                                         *)
LEMMA MinListed ==
    ASSUME BucketInv, pc \in {"scan", "reduce", "free"}, cur = NumThreads, minKey # <<>>
    PROVE  /\ 1 \in DOMAIN itr.lists
           /\ ~IsCalled(MinKey)
           /\ \A l \in DOMAIN itr.lists :
                 /\ Entry(l).key = MinKey /\ Entry(l).vals \in Seq(Chunk)
                 /\ Entry(l).vals # <<>> /\ Full(Entry(l).vals)
                 /\ \A i : Once(Entry(l).vals, i)
<1>1. /\ minKey[1] \in Threads /\ minKey[2] \in DOMAIN arr[minKey[1]] /\ MinKey \in Int
    BY MinTypes DEF BucketInv
<1>2. PICK t, n : t \in Threads /\ t = minKey[1] /\ n = minKey[2] /\ n \in DOMAIN arr[t]
    BY <1>1
<1>3. arr[t][n].key = MinKey /\ t < cur /\ n \in Nat /\ pos[t] \in Nat
    BY <1>2, ThreadNumbers, ArrayTypes DEF MinKey, KeyAt, BucketInv
<1>4. ~(n > pos[t])
    <2>1. n > pos[t] => MinKey < arr[t][n].key
        BY <1>2, <1>3 DEF BucketInv, ReadInv
    <2>. QED BY <1>1, <1>3, <2>1
<1>5. \E l \in DOMAIN itr.lists : itr.lists[l] = <<t, n>>
    <2>1. n <= pos[t] /\ arr[t][n].key = MinKey
        BY <1>3, <1>4
    <2>2. \A u \in Threads : \A m \in DOMAIN arr[u] :
             m <= pos[u] /\ arr[u][m].key = MinKey => \E l \in DOMAIN itr.lists : itr.lists[l] = <<u, m>>
        BY DEF BucketInv, ListInv
    <2>. QED BY <1>2, <2>1, <2>2
<1>6. 1 \in DOMAIN itr.lists
    BY <1>5, ListTypes DEF BucketInv
<1>7. ~IsCalled(MinKey)
    <2>1. \A c \in DOMAIN out : out[c].key < MinKey
        BY DEF BucketInv, OutInv
    <2>. QED BY <1>1, <2>1, OutTypes DEF BucketInv, IsCalled
<1>8. ASSUME NEW l \in DOMAIN itr.lists
      PROVE  /\ Entry(l).key = MinKey /\ Entry(l).vals \in Seq(Chunk)
             /\ Entry(l).vals # <<>> /\ Full(Entry(l).vals)
             /\ \A i : Once(Entry(l).vals, i)
    <2>1. PICK u, m : u \in Threads /\ itr.lists[l] = <<u, m>> /\ m \in DOMAIN arr[u]
        BY ListTypes DEF BucketInv, ListInv
    <2>2. Entry(l) = arr[u][m] /\ Entry(l).key = MinKey
        BY <2>1 DEF Entry, BucketInv, ListInv, KeyAt
    <2>3. /\ arr[u][m].vals \in Seq(Chunk)
          /\ Full(arr[u][m].vals)
          /\ \A i : Once(arr[u][m].vals, i)
          /\ IsCalled(arr[u][m].key) \/ arr[u][m].vals # <<>>
        BY <2>1, ArrayTypes DEF BucketInv, ArrayInv, Sound, OnceIn
    <2>. QED BY <1>7, <2>2, <2>3
<1>. QED BY <1>6, <1>7, <1>8

(* At the end of a pass all entries of the minimum are in the iterator.    *)
LEMMA EndPassStep ==
    ASSUME BucketInv, EndPass
    PROVE  BucketInv'
<1>1. /\ pc = "scan" /\ cur = NumThreads
      /\ pc' = (IF minKey = <<>> THEN "advance" ELSE "reduce")
      /\ UNCHANGED mapVars
      /\ UNCHANGED <<arr, out, cur, pos, minKey, nextMin, itr, got, combiner, alloc, keyOf, mapped>>
    BY DEF EndPass, mapVars
<1>2. ArrayInv' /\ EmitInv' /\ WaitInv'
    BY <1>1, SameData, Started
<1>3. BucketTypes'
    BY <1>1 DEF BucketInv, BucketTypes
<1>4. ReadInv'
    BY <1>1 DEF BucketInv, ReadInv, IsCalled, MinKey, KeyAt
<1>5. OutInv'
    BY <1>1 DEF BucketInv, OutInv, MinKey, KeyAt
<1>6. itr.list = 1 /\ itr.chunk = 1 /\ itr.index = 0 /\ got = <<>>
    BY <1>1 DEF BucketInv, ListInv
<1>7. minKey = <<>> => itr.lists = <<>>
    <2>1. minKey = <<>> => DOMAIN itr.lists = {}
        BY DEF BucketInv, ListInv
    <2>2. DOMAIN itr.lists = 1 .. Len(itr.lists) /\ Len(itr.lists) \in Nat /\ itr.lists \in Seq(Threads \X Counts)
        BY ListTypes DEF BucketInv
    <2>3. PICK S, x : S = Threads \X Counts /\ x = itr.lists
        OBVIOUS
    <2>4. x \in Seq(S) /\ DOMAIN x = 1 .. Len(x) /\ Len(x) \in Nat
        BY <2>2, <2>3
    <2>5. DOMAIN x = {} => x = <<>>
        BY <2>4
    <2>. QED BY <2>1, <2>3, <2>5
<1>8. ListInv'
    BY <1>1, <1>6, <1>7 DEF BucketInv, ListInv, MinKey, KeyAt
<1>9. GotInv'
    <2>1. CASE minKey = <<>>
        BY <1>1, <2>1 DEF GotInv
    <2>2. CASE minKey # <<>>
        <3>1. 1 \in DOMAIN itr.lists /\ Entry(1).vals \in Seq(Chunk) /\ Entry(1).vals # <<>>
            BY <1>1, <2>2, MinListed
        <3>2. 1 \in DOMAIN Entry(1).vals /\ 1 \in 1 .. Len(Entry(1).vals)
            BY <3>1
        <3>3. Len(Entry(1).vals[1].array) \in Nat
            BY <3>1, <3>2, ChunkElements
        <3>4. 0 \in 0 .. Len(Entry(1).vals[1].array)
            BY <3>3
        <3>5. \A i : ~Handed(i)
            BY <1>6 DEF Handed
        <3>6. ASSUME NEW i, NEW l \in DOMAIN itr.lists, NEW c \in Nat, NEW m \in Nat,
                     Passed(l, c, m), SlotHas(Entry(l).vals, c, m, i)
              PROVE  FALSE
            <4>1. l \in Nat \ {0}
                BY ListTypes DEF BucketInv
            <4>2. l = 1 /\ (c < 1 \/ (c = 1 /\ m <= 0))
                BY <1>6, <3>6, <4>1 DEF Passed
            <4>3. Entry(1).vals \in Seq(Chunk) /\ Slot(Entry(1).vals, c, m)
                BY <3>1, <3>6, <4>2 DEF SlotHas
            <4>4. c \in Nat \ {0} /\ m \in Nat \ {0}
                BY <4>3, SlotIn
            <4>. QED BY <4>2, <4>4
        <3>7. SumCard(got) = Cardinality(AllOf(got))
            <4>1. AllOf(got) = {}
                BY <1>6 DEF AllOf
            <4>. QED BY <1>6, <4>1, SumCardIs, FS_EmptySet
        <3>8. /\ 1 \in DOMAIN itr'.lists /\ itr' = itr /\ got' = got /\ pc' = "reduce"
              /\ arr' = arr
            BY <1>1, <2>2, <3>1
        <3>. QED BY <1>6, <3>1, <3>2, <3>4, <3>5, <3>6, <3>7, <3>8 DEF GotInv, Entry, Handed, Passed
    <2>. QED BY <2>1, <2>2
<1>. QED BY <1>2, <1>3, <1>4, <1>5, <1>8, <1>9 DEF BucketInv

(* The least head becomes the minimum: it is larger than every key called, *)
(* and no head is smaller.                                                 *)
LEMMA AdvanceStep ==
    ASSUME BucketInv, Advance
    PROVE  BucketInv'
<1>1. /\ pc = "advance" /\ minKey' = nextMin /\ nextMin' = <<>> /\ cur' = 0
      /\ pc' = (IF \A t \in Threads : Exhausted(t) THEN "done" ELSE "scan")
      /\ UNCHANGED mapVars
      /\ UNCHANGED <<arr, out, pos, itr, got, combiner, alloc, keyOf, mapped>>
    BY DEF Advance, mapVars
<1>2. ArrayInv' /\ EmitInv' /\ WaitInv'
    BY <1>1, SameData, Started
<1>3. BucketTypes'
    <2>1. cur' \in 0 .. NumThreads /\ nextMin' \in Refs /\ pc' \in {"scan", "done"}
        BY <1>1, ThreadNumbers DEF Refs
    <2>2. minKey' \in Refs /\ (minKey' # <<>> => minKey'[2] \in DOMAIN arr[minKey'[1]])
        BY <1>1 DEF BucketInv, BucketTypes
    <2>. QED BY <1>1, <2>1, <2>2 DEF BucketInv, BucketTypes
<1>4. cur = NumThreads /\ (minKey = <<>> \/ IsCalled(MinKey))
    BY <1>1 DEF BucketInv, OutInv
<1>5. \A t \in Threads : t < cur /\ t \in Nat /\ ~(t < 0)
    BY <1>4, ThreadNumbers
<1>6. /\ MinKey' = KeyAt(nextMin)
      /\ \A k : IsCalled(k)' <=> IsCalled(k)
    BY <1>1 DEF MinKey, KeyAt, IsCalled
<1>7. \A t \in Threads : \A n \in DOMAIN arr[t] : n <= pos[t] => IsCalled(arr[t][n].key)
    BY <1>4 DEF BucketInv, ReadInv
<1>8. \A t \in Threads : \A n \in DOMAIN arr[t] :
         n > pos[t] => /\ \A c \in DOMAIN out : out[c].key < arr[t][n].key
                       /\ nextMin # <<>> /\ KeyAt(nextMin) <= arr[t][n].key
    BY <1>5 DEF BucketInv, ReadInv
<1>9. ReadInv'
    BY <1>1, <1>5, <1>6, <1>7, <1>8 DEF ReadInv
<1>10. nextMin # <<>> => /\ nextMin[1] \in Threads /\ nextMin[2] \in DOMAIN arr[nextMin[1]]
                         /\ nextMin[2] > pos[nextMin[1]]
                         /\ ~Exhausted(nextMin[1])
    <2>. SUFFICES ASSUME nextMin # <<>>
                  PROVE  /\ nextMin[1] \in Threads /\ nextMin[2] \in DOMAIN arr[nextMin[1]]
                         /\ nextMin[2] > pos[nextMin[1]]
                         /\ ~Exhausted(nextMin[1])
        OBVIOUS
    <2>1. /\ nextMin[1] \in Threads /\ nextMin[2] \in DOMAIN arr[nextMin[1]]
          /\ nextMin[2] = pos[nextMin[1]] + 1
        BY NextTypes DEF BucketInv, ReadInv
    <2>2. PICK t, n : t \in Threads /\ t = nextMin[1] /\ n = nextMin[2] /\ n \in DOMAIN arr[t] /\ n = pos[t] + 1
        BY <2>1
    <2>3. arr[t] \in Seq(Entries) /\ pos[t] \in Nat
        BY <2>2, ArrayTypes DEF BucketInv
    <2>4. n > pos[t] /\ ~(pos[t] >= Len(arr[t]))
        BY <2>2, <2>3
    <2>. QED BY <2>1, <2>2, <2>4 DEF Exhausted
<1>11. nextMin # <<>> => \A c \in DOMAIN out : out[c].key < KeyAt(nextMin)
    BY <1>8, <1>10 DEF KeyAt
<1>12. OutInv'
    BY <1>1, <1>6, <1>10, <1>11 DEF OutInv
<1>13. itr.lists = <<>> /\ itr.list = 1 /\ itr.chunk = 1 /\ itr.index = 0 /\ got = <<>>
    BY <1>1 DEF BucketInv, ListInv
<1>14. ListInv'
    <2>1. \A l : l \notin DOMAIN <<>>
        OBVIOUS
    <2>2. ASSUME nextMin # <<>>, NEW t \in Threads, NEW n \in DOMAIN arr[t],
                 n <= pos[t], arr[t][n].key = KeyAt(nextMin)
          PROVE  FALSE
        <3>1. PICK c \in DOMAIN out : out[c].key = KeyAt(nextMin)
            BY <1>7, <2>2 DEF IsCalled
        <3>2. out[c].key < KeyAt(nextMin) /\ KeyAt(nextMin) \in Int
            BY <1>11, <2>2, NextTypes DEF BucketInv
        <3>. QED BY <3>1, <3>2
    <2>. QED BY <1>1, <1>6, <1>13, <2>1, <2>2 DEF ListInv
<1>15. GotInv'
    BY <1>1 DEF GotInv
<1>. QED BY <1>2, <1>3, <1>9, <1>12, <1>14, <1>15 DEF BucketInv

-----------------------------------------------------------------------------
(* The calls of reduce *)

(* Place l, c, m of the iterator is not behind place k, d, n.              *)
UpTo(l, c, m, k, d, n) == k < l \/ (k = l /\ (d < c \/ (d = c /\ n <= m)))

(* Where the iterator is.                                                  *)
LEMMA PlaceTypes ==
    ASSUME BucketInv, pc \in {"reduce", "free"}
    PROVE  /\ DOMAIN itr.lists = 1 .. Len(itr.lists) /\ Len(itr.lists) \in Nat
           /\ itr.list \in 1 .. Len(itr.lists)
           /\ \A l \in 1 .. Len(itr.lists) :
                 /\ Entry(l).vals \in Seq(Chunk) /\ Full(Entry(l).vals)
                 /\ Len(Entry(l).vals) \in Nat \ {0}
                 /\ \A c \in 1 .. Len(Entry(l).vals) : Len(Entry(l).vals[c].array) \in Nat \ {0}
                 /\ \A c, m : Slot(Entry(l).vals, c, m) <=>
                       /\ c \in 1 .. Len(Entry(l).vals)
                       /\ m \in 1 .. Len(Entry(l).vals[c].array)
           /\ itr.chunk \in 1 .. Len(Entry(itr.list).vals)
           /\ itr.index \in 0 .. Len(Entry(itr.list).vals[itr.chunk].array)
           /\ cur = NumThreads /\ minKey # <<>>
<1>1. cur = NumThreads /\ minKey # <<>>
    BY DEF BucketInv, OutInv
<1>2. /\ itr.list \in DOMAIN itr.lists /\ itr.chunk \in DOMAIN Entry(itr.list).vals
      /\ itr.index \in 0 .. Len(Entry(itr.list).vals[itr.chunk].array)
    BY DEF BucketInv, GotInv
<1>3. DOMAIN itr.lists = 1 .. Len(itr.lists) /\ Len(itr.lists) \in Nat
    BY ListTypes DEF BucketInv
<1>4. ASSUME NEW l \in DOMAIN itr.lists
      PROVE  /\ Entry(l).vals \in Seq(Chunk) /\ Full(Entry(l).vals)
             /\ Len(Entry(l).vals) \in Nat \ {0}
             /\ DOMAIN Entry(l).vals = 1 .. Len(Entry(l).vals)
             /\ \A c \in 1 .. Len(Entry(l).vals) : Len(Entry(l).vals[c].array) \in Nat \ {0}
             /\ \A c, m : Slot(Entry(l).vals, c, m) <=>
                   /\ c \in 1 .. Len(Entry(l).vals)
                   /\ m \in 1 .. Len(Entry(l).vals[c].array)
    <2>1. Entry(l).vals \in Seq(Chunk) /\ Entry(l).vals # <<>> /\ Full(Entry(l).vals)
        BY <1>1, MinListed
    <2>2. PICK s : s = Entry(l).vals
        OBVIOUS
    <2>3. s \in Seq(Chunk) /\ s # <<>> /\ Full(s)
        BY <2>1, <2>2
    <2>4. Len(s) \in Nat \ {0} /\ DOMAIN s = 1 .. Len(s)
        BY <2>3
    <2>5. \A c \in 1 .. Len(s) : /\ Len(s[c].array) \in Nat \ {0}
                                 /\ DOMAIN s[c].array = 1 .. Len(s[c].array)
        <3>. SUFFICES ASSUME NEW c \in 1 .. Len(s)
                      PROVE  /\ Len(s[c].array) \in Nat \ {0}
                             /\ DOMAIN s[c].array = 1 .. Len(s[c].array)
            OBVIOUS
        <3>1. PICK x : x = s[c].array
            OBVIOUS
        <3>2. x \in Seq(SUBSET Nat) /\ x # <<>>
            BY <2>3, <2>4, <3>1, ChunkElements DEF Full
        <3>3. Len(x) \in Nat \ {0} /\ DOMAIN x = 1 .. Len(x)
            BY <3>2
        <3>. QED BY <3>1, <3>3
    <2>6. \A c, m : Slot(s, c, m) <=> c \in 1 .. Len(s) /\ m \in 1 .. Len(s[c].array)
        BY <2>4, <2>5, Zenon DEF Slot
    <2>. QED BY <2>2, <2>3, <2>4, <2>5, <2>6
<1>. QED BY <1>1, <1>2, <1>3, <1>4

(* iter_next goes on to the next slot, or has given out all of them.       *)
LEMMA NextPlace ==
    ASSUME BucketInv, iter_next
    PROVE  \/ /\ pc' = "free" /\ itr' = itr /\ got' = got
              /\ itr.list = Len(itr.lists)
              /\ itr.chunk = Len(Entry(itr.list).vals)
              /\ itr.index = Len(Entry(itr.list).vals[itr.chunk].array)
           \/ /\ pc' = pc
              /\ \E l, c, m \in Nat :
                    /\ l \in DOMAIN itr.lists /\ Slot(Entry(l).vals, c, m)
                    /\ itr' = [lists |-> itr.lists, list |-> l, chunk |-> c, index |-> m]
                    /\ got' = Append(got, ValueAt(Entry(l).vals, c, m))
                    /\ ~Passed(l, c, m)
                    /\ \A k \in DOMAIN itr.lists : \A d, n \in Nat :
                          Slot(Entry(k).vals, d, n) =>
                             (UpTo(l, c, m, k, d, n) <=>
                                Passed(k, d, n) \/ (k = l /\ d = c /\ n = m))
<1>1. pc = "reduce"
    BY DEF iter_next
<1>2. PICK l, c, m, L, C, M : /\ l = itr.list /\ c = itr.chunk /\ m = itr.index
                              /\ L = Len(itr.lists) /\ C = Len(Entry(l).vals)
                              /\ M = Len(Entry(l).vals[c].array)
    OBVIOUS
<1>3. /\ DOMAIN itr.lists = 1 .. L /\ L \in Nat /\ l \in 1 .. L
      /\ C \in Nat /\ c \in 1 .. C /\ M \in Nat /\ m \in 0 .. M
      /\ \A k \in 1 .. L : \A d, n : Slot(Entry(k).vals, d, n) <=>
            d \in 1 .. Len(Entry(k).vals) /\ n \in 1 .. Len(Entry(k).vals[d].array)
      /\ \A k \in 1 .. L : /\ Len(Entry(k).vals) \in Nat \ {0}
                           /\ \A d \in 1 .. Len(Entry(k).vals) :
                                 Len(Entry(k).vals[d].array) \in Nat \ {0}
    BY <1>1, <1>2, PlaceTypes
<1>4. \A k, d, n : Passed(k, d, n) <=> UpTo(l, c, m, k, d, n)
    BY <1>2 DEF Passed, UpTo
<1>. DEFINE here == [list |-> l, chunk |-> c, index |-> m]
            there == IF m < M THEN here
                     ELSE IF c < C THEN [here EXCEPT !.chunk = @ + 1, !.index = 0]
                     ELSE IF l < L THEN [list |-> l + 1, chunk |-> 1, index |-> 0]
                     ELSE <<>>
<1>5. IF there = <<>>
        THEN pc' = "free" /\ itr' = itr /\ got' = got
        ELSE /\ itr' = [lists |-> itr.lists, list |-> there.list,
                        chunk |-> there.chunk, index |-> there.index + 1]
             /\ got' = Append(got, Entry(there.list).vals[there.chunk].array[there.index + 1])
             /\ pc' = pc
    BY <1>2 DEF iter_next, Chunks, Entry
<1>6. \A x, y, z : [list |-> x, chunk |-> y, index |-> z] # <<>>
    <2>1. \A x, y, z : "list" \in DOMAIN [list |-> x, chunk |-> y, index |-> z]
        OBVIOUS
    <2>2. "list" \notin DOMAIN <<>>
        OBVIOUS
    <2>. QED BY <2>1, <2>2
<1>7. ASSUME NEW x \in Nat, NEW y \in Nat, NEW z \in Nat,
             there = [list |-> x, chunk |-> y, index |-> z],
             x \in 1 .. L, Slot(Entry(x).vals, y, z + 1),
             ~UpTo(l, c, m, x, y, z + 1),
             \A k \in 1 .. L : \A d, n \in Nat :
                Slot(Entry(k).vals, d, n) =>
                   (UpTo(x, y, z + 1, k, d, n) <=>
                      UpTo(l, c, m, k, d, n) \/ (k = x /\ d = y /\ n = z + 1))
      PROVE  /\ pc' = pc
             /\ \E p, q, r \in Nat :
                   /\ p \in DOMAIN itr.lists /\ Slot(Entry(p).vals, q, r)
                   /\ itr' = [lists |-> itr.lists, list |-> p, chunk |-> q, index |-> r]
                   /\ got' = Append(got, ValueAt(Entry(p).vals, q, r))
                   /\ ~Passed(p, q, r)
                   /\ \A k \in DOMAIN itr.lists : \A d, n \in Nat :
                         Slot(Entry(k).vals, d, n) =>
                            (UpTo(p, q, r, k, d, n) <=>
                               Passed(k, d, n) \/ (k = p /\ d = q /\ n = r))
    <2>1. there # <<>> /\ there.list = x /\ there.chunk = y /\ there.index = z
        BY <1>6, <1>7
    <2>. HIDE DEF there
    <2>2. PICK r \in Nat : r = z + 1
        OBVIOUS
    <2>3. /\ itr' = [lists |-> itr.lists, list |-> x, chunk |-> y, index |-> r]
          /\ got' = Append(got, ValueAt(Entry(x).vals, y, r))
          /\ pc' = pc
        BY <1>5, <2>1, <2>2 DEF ValueAt
    <2>4. /\ x \in DOMAIN itr.lists /\ Slot(Entry(x).vals, y, r) /\ ~Passed(x, y, r)
          /\ \A k \in DOMAIN itr.lists : \A d, n \in Nat :
                Slot(Entry(k).vals, d, n) =>
                   (UpTo(x, y, r, k, d, n) <=> Passed(k, d, n) \/ (k = x /\ d = y /\ n = r))
        BY <1>3, <1>4, <1>7, <2>2, Zenon
    <2>. QED BY <2>3, <2>4
<1>8. CASE m < M
    <2>1. there = [list |-> l, chunk |-> c, index |-> m] /\ Slot(Entry(l).vals, c, m + 1)
        <3>1. m + 1 \in 1 .. M
            BY <1>3, <1>8
        <3>. QED BY <1>2, <1>3, <1>8, <3>1
    <2>2. ~UpTo(l, c, m, l, c, m + 1)
        BY <1>3 DEF UpTo
    <2>3. \A k \in 1 .. L : \A d, n \in Nat :
             UpTo(l, c, m + 1, k, d, n) <=> UpTo(l, c, m, k, d, n) \/ (k = l /\ d = c /\ n = m + 1)
        BY <1>3 DEF UpTo
    <2>4. l \in Nat /\ c \in Nat /\ m \in Nat /\ l \in 1 .. L
        BY <1>3
    <2>. HIDE DEF there
    <2>. QED BY <1>7, <2>1, <2>2, <2>3, <2>4, Zenon
<1>9. CASE ~(m < M) /\ c < C
    <2>1. there = [list |-> l, chunk |-> c + 1, index |-> 0] /\ Slot(Entry(l).vals, c + 1, 0 + 1)
        <3>1. c + 1 \in 1 .. C
            BY <1>3, <1>9
        <3>2. 1 \in 1 .. Len(Entry(l).vals[c + 1].array)
            <4>1. Len(Entry(l).vals[c + 1].array) \in Nat \ {0}
                BY <1>2, <1>3, <3>1
            <4>. QED BY <4>1
        <3>3. Slot(Entry(l).vals, c + 1, 1)
            BY <1>2, <1>3, <3>1, <3>2
        <3>4. there = [list |-> l, chunk |-> c + 1, index |-> 0]
            BY <1>9
        <3>5. 0 + 1 = 1
            OBVIOUS
        <3>. QED BY <3>3, <3>4, <3>5
    <2>2. ~UpTo(l, c, m, l, c + 1, 0 + 1)
        BY <1>3 DEF UpTo
    <2>3. ASSUME NEW k \in 1 .. L, NEW d \in Nat, NEW n \in Nat, Slot(Entry(k).vals, d, n)
          PROVE  UpTo(l, c + 1, 0 + 1, k, d, n) <=>
                    UpTo(l, c, m, k, d, n) \/ (k = l /\ d = c + 1 /\ n = 0 + 1)
        <3>1. n >= 1 /\ (k = l /\ d = c => n <= M)
            <4>1. n \in 1 .. Len(Entry(k).vals[d].array)
                BY <1>3, <2>3
            <4>2. k = l /\ d = c => n \in 1 .. M
                BY <1>2, <4>1
            <4>3. n >= 1
                BY <4>1
            <4>4. k = l /\ d = c => n <= M
                BY <1>3, <4>2
            <4>. QED BY <4>3, <4>4
        <3>. QED BY <1>3, <1>9, <3>1 DEF UpTo
    <2>. QED BY <1>3, <1>7, <2>1, <2>2, <2>3
<1>10. CASE ~(m < M) /\ ~(c < C) /\ l < L
    <2>1. there = [list |-> l + 1, chunk |-> 1, index |-> 0] /\ l + 1 \in 1 .. L
          /\ Slot(Entry(l + 1).vals, 1, 0 + 1)
        <3>1. l + 1 \in 1 .. L
            BY <1>3, <1>10
        <3>2. 1 \in 1 .. Len(Entry(l + 1).vals)
            <4>1. Len(Entry(l + 1).vals) \in Nat \ {0}
                BY <1>3, <3>1
            <4>. QED BY <4>1
        <3>3. 1 \in 1 .. Len(Entry(l + 1).vals[1].array)
            <4>1. Len(Entry(l + 1).vals[1].array) \in Nat \ {0}
                BY <1>3, <3>1, <3>2
            <4>. QED BY <4>1
        <3>. QED BY <1>3, <1>10, <3>1, <3>2, <3>3
    <2>2. ~UpTo(l, c, m, l + 1, 1, 0 + 1)
        BY <1>3 DEF UpTo
    <2>3. ASSUME NEW k \in 1 .. L, NEW d \in Nat, NEW n \in Nat, Slot(Entry(k).vals, d, n)
          PROVE  UpTo(l + 1, 1, 0 + 1, k, d, n) <=>
                    UpTo(l, c, m, k, d, n) \/ (k = l + 1 /\ d = 1 /\ n = 0 + 1)
        <3>1. n >= 1 /\ d >= 1 /\ (k = l => d <= C) /\ (k = l /\ d = c => n <= M)
            <4>1. d \in 1 .. Len(Entry(k).vals) /\ n \in 1 .. Len(Entry(k).vals[d].array)
                BY <1>3, <2>3
            <4>2. (k = l => d \in 1 .. C) /\ (k = l /\ d = c => n \in 1 .. M)
                BY <1>2, <4>1
            <4>3. n >= 1 /\ d >= 1
                BY <4>1
            <4>4. (k = l => d <= C) /\ (k = l /\ d = c => n <= M)
                BY <1>3, <4>2
            <4>. QED BY <4>3, <4>4
        <3>. QED BY <1>3, <1>10, <3>1 DEF UpTo
    <2>. QED BY <1>3, <1>7, <2>1, <2>2, <2>3
<1>11. CASE ~(m < M) /\ ~(c < C) /\ ~(l < L)
    <2>1. there = <<>> /\ m = M /\ c = C /\ l = L
        BY <1>3, <1>11
    <2>. QED BY <1>2, <1>5, <2>1
<1>. QED BY <1>8, <1>9, <1>10, <1>11

(* An emit is in one slot of one list.                                     *)
LEMMA ListedOnce ==
    ASSUME BucketInv, pc \in {"reduce", "free"},
           NEW l \in DOMAIN itr.lists, NEW c \in Nat, NEW m \in Nat, NEW i,
           SlotHas(Entry(l).vals, c, m, i)
    PROVE  /\ i \in DOMAIN keyOf /\ keyOf[i] = MinKey
           /\ \A k \in DOMAIN itr.lists : \A d, n \in Nat :
                 SlotHas(Entry(k).vals, d, n, i) => k = l /\ d = c /\ n = m
<1>1. cur = NumThreads /\ minKey # <<>>
    BY PlaceTypes
<1>2. ASSUME NEW k \in DOMAIN itr.lists, NEW d \in Nat, NEW n \in Nat,
             SlotHas(Entry(k).vals, d, n, i)
      PROVE  itr.lists[k][1] \in Threads /\ InArray(arr[itr.lists[k][1]], MinKey, i)
    <2>1. PICK t, p : t \in Threads /\ itr.lists[k] = <<t, p>> /\ p \in DOMAIN arr[t]
        BY ListTypes DEF BucketInv, ListInv
    <2>2. Entry(k) = arr[t][p]
        BY <2>1 DEF Entry
    <2>3. arr[t][p].key = MinKey /\ Holds(arr[t][p].vals, i)
        BY <1>1, <1>2, <2>2, MinListed DEF Holds
    <2>. QED BY <2>1, <2>3 DEF InArray
<1>3. \A t \in Threads : \A k, j : InArray(arr[t], k, j) => j \in DOMAIN keyOf /\ keyOf[j] = k
    BY DEF BucketInv, EmitInv
<1>4. \A t, u \in Threads : \A k, j : InArray(arr[t], k, j) /\ InArray(arr[u], k, j) => t = u
    BY DEF BucketInv, EmitInv
<1>5. ASSUME NEW k \in DOMAIN itr.lists, NEW d \in Nat, NEW n \in Nat,
             SlotHas(Entry(k).vals, d, n, i)
      PROVE  k = l /\ d = c /\ n = m
    <2>1. itr.lists[k][1] = itr.lists[l][1]
        BY <1>2, <1>4, <1>5, Zenon
    <2>2. \A x, y \in DOMAIN itr.lists : x < y => itr.lists[x][1] < itr.lists[y][1]
        BY DEF BucketInv, ListInv
    <2>3. k \in Nat /\ l \in Nat /\ itr.lists[l][1] \in Nat
        BY ListTypes, ThreadNumbers DEF BucketInv
    <2>4. ~(k < l) /\ ~(l < k)
        <3>1. ~(itr.lists[l][1] < itr.lists[l][1])
            BY <2>3
        <3>. QED BY <2>1, <2>2, <3>1
    <2>5. k = l
        BY <2>3, <2>4
    <2>6. Once(Entry(l).vals, i)
        BY <1>1, MinListed
    <2>. QED BY <1>5, <2>5, <2>6 DEF Once
<1>. QED BY <1>2, <1>3, <1>5

(* A value that is handed out adds its emits, none of them a second time.  *)
LEMMA HandOver ==
    ASSUME BucketInv, pc = "reduce",
           NEW l \in DOMAIN itr.lists, NEW c \in Nat, NEW m \in Nat, NEW v,
           Slot(Entry(l).vals, c, m), ~Passed(l, c, m), v = ValueAt(Entry(l).vals, c, m),
           NEW g, g = Append(got, v)
    PROVE  /\ \A i : (\E j \in DOMAIN g : i \in g[j]) <=> Handed(i) \/ i \in v
           /\ SumCard(g) = Cardinality(AllOf(g))
<1>1. v \in SUBSET Nat
    <2>1. Entry(l).vals \in Seq(Chunk)
        BY PlaceTypes
    <2>. QED BY <2>1, SlotIn
<1>2. got \in Seq(SUBSET Nat)
    BY DEF BucketInv, BucketTypes
<1>3. PICK G \in Nat : G = Len(got) /\ DOMAIN got = 1 .. G
    BY <1>2
<1>4. /\ g \in Seq(SUBSET Nat) /\ DOMAIN g = 1 .. G + 1 /\ g[G + 1] = v
      /\ \A j \in 1 .. G : g[j] = got[j]
    BY <1>1, <1>2, <1>3
<1>5. \A i : (\E j \in DOMAIN g : i \in g[j]) <=> Handed(i) \/ i \in v
    <2>. SUFFICES ASSUME NEW i
                  PROVE  (\E j \in 1 .. G + 1 : i \in g[j]) <=> (\E j \in 1 .. G : i \in got[j]) \/ i \in v
        BY <1>3, <1>4 DEF Handed
    <2>1. \A j \in 1 .. G + 1 : j \in 1 .. G \/ j = G + 1
        OBVIOUS
    <2>2. G + 1 \in 1 .. G + 1 /\ \A j \in 1 .. G : j \in 1 .. G + 1
        OBVIOUS
    <2>. QED BY <1>4, <2>1, <2>2, Zenon
<1>. DEFINE U == AllOf(got)
<1>6. \A i : i \in U <=> Handed(i)
    BY DEF Handed, AllOf
<1>7. AllOf(g) = U \cup v
    BY <1>5, <1>6 DEF AllOf
<1>8. /\ \A i : Handed(i) <=>
           \E k \in DOMAIN itr.lists : \E d, n \in Nat :
               Passed(k, d, n) /\ SlotHas(Entry(k).vals, d, n, i)
      /\ SumCard(got) = Cardinality(U)
    BY DEF BucketInv, GotInv
<1>9. \A i \in v : SlotHas(Entry(l).vals, c, m, i)
    BY DEF SlotHas
<1>10. v \subseteq DOMAIN keyOf
    BY <1>9, ListedOnce
<1>11. U \subseteq DOMAIN keyOf
    <2>. SUFFICES ASSUME NEW i, i \in U
                  PROVE  i \in DOMAIN keyOf
        OBVIOUS
    <2>1. PICK k \in DOMAIN itr.lists, d \in Nat, n \in Nat : SlotHas(Entry(k).vals, d, n, i)
        BY <1>6, <1>8
    <2>. QED BY <2>1, ListedOnce
<1>12. U \cap v = {}
    <2>. SUFFICES ASSUME NEW i \in U, i \in v
                  PROVE  FALSE
        OBVIOUS
    <2>1. PICK k \in DOMAIN itr.lists, d \in Nat, n \in Nat :
             Passed(k, d, n) /\ SlotHas(Entry(k).vals, d, n, i)
        BY <1>6, <1>8
    <2>2. SlotHas(Entry(l).vals, c, m, i)
        BY <1>9
    <2>3. \A x \in DOMAIN itr.lists : \A y, z \in Nat :
             SlotHas(Entry(x).vals, y, z, i) => x = l /\ y = c /\ z = m
        BY <2>2, ListedOnce
    <2>4. k = l /\ d = c /\ n = m
        BY <2>1, <2>3
    <2>. QED BY <2>1, <2>4
<1>13. IsFiniteSet(U) /\ IsFiniteSet(v)
    <2>1. DOMAIN keyOf = 1 .. Len(keyOf) /\ Len(keyOf) \in Nat
        BY DEF BucketInv, BucketTypes
    <2>2. IsFiniteSet(DOMAIN keyOf)
        BY <2>1, FS_Interval
    <2>. HIDE DEF U
    <2>. QED BY <1>10, <1>11, <2>2, FS_Subset
<1>. HIDE DEF U
<1>14. Cardinality(U \cup v) = Cardinality(U) + Cardinality(v)
    <2>1. Cardinality(U \cup v) = Cardinality(U) + Cardinality(v) - Cardinality(U \cap v)
        BY <1>13, FS_Union
    <2>2. Cardinality(U) \in Nat /\ Cardinality(v) \in Nat
        BY <1>13, FS_CardinalityType
    <2>3. Cardinality(U \cap v) = 0
        BY <1>12, FS_EmptySet
    <2>. QED BY <2>1, <2>2, <2>3
<1>15. SumCard(g) = SumCard(got) + Cardinality(v)
    <2>1. PICK S : S = SUBSET Nat
        OBVIOUS
    <2>2. got \in Seq(S) /\ v \in S
        BY <1>1, <1>2, <2>1
    <2>. QED BY <2>2, SumCardIs
<1>16. SumCard(g) = Cardinality(AllOf(g))
    BY <1>7, <1>8, <1>14, <1>15
<1>. QED BY <1>5, <1>16

(* iter_next hands out the value at its position and goes to the next one. *)
LEMMA IterStep ==
    ASSUME BucketInv, iter_next
    PROVE  BucketInv'
<1>1. /\ pc = "reduce"
      /\ UNCHANGED mapVars
      /\ UNCHANGED <<arr, out, pos, cur, minKey, nextMin, combiner, alloc, keyOf, mapped>>
    BY DEF iter_next, mapVars
<1>2. /\ cur = NumThreads /\ minKey # <<>>
      /\ DOMAIN itr.lists = 1 .. Len(itr.lists)
    BY <1>1, PlaceTypes
<1>3. /\ itr \in [lists : Seq(Threads \X Counts), list : Counts, chunk : Counts, index : Nat]
      /\ got \in Seq(SUBSET Nat)
    BY DEF BucketInv, BucketTypes
<1>4. \A l : Entry(l) = arr[itr.lists[l][1]][itr.lists[l][2]]
    BY DEF Entry
<1>5. CASE /\ pc' = "free" /\ itr' = itr /\ got' = got
           /\ itr.list = Len(itr.lists)
           /\ itr.chunk = Len(Entry(itr.list).vals)
           /\ itr.index = Len(Entry(itr.list).vals[itr.chunk].array)
    <2>1. ArrayInv' /\ EmitInv' /\ WaitInv'
        BY <1>1, <1>5, SameData, Started
    <2>2. BucketTypes'
        BY <1>1, <1>5 DEF BucketInv, BucketTypes
    <2>3. ReadInv' /\ OutInv'
        BY <1>1, <1>2, <1>5 DEF BucketInv, ReadInv, OutInv, IsCalled, MinKey, KeyAt
    <2>4. ListInv'
        BY <1>1, <1>5 DEF BucketInv, ListInv, MinKey, KeyAt
    <2>5. GotInv'
        BY <1>1, <1>5 DEF BucketInv, GotInv, Entry, Passed, Handed
    <2>. QED BY <2>1, <2>2, <2>3, <2>4, <2>5 DEF BucketInv
<1>6. CASE /\ pc' = pc
           /\ \E l, c, m \in Nat :
                 /\ l \in DOMAIN itr.lists /\ Slot(Entry(l).vals, c, m)
                 /\ itr' = [lists |-> itr.lists, list |-> l, chunk |-> c, index |-> m]
                 /\ got' = Append(got, ValueAt(Entry(l).vals, c, m))
                 /\ ~Passed(l, c, m)
                 /\ \A k \in DOMAIN itr.lists : \A d, n \in Nat :
                       Slot(Entry(k).vals, d, n) =>
                          (UpTo(l, c, m, k, d, n) <=>
                             Passed(k, d, n) \/ (k = l /\ d = c /\ n = m))
    <2>1. PICK l \in Nat, c \in Nat, m \in Nat :
                 /\ l \in DOMAIN itr.lists /\ Slot(Entry(l).vals, c, m)
                 /\ itr' = [lists |-> itr.lists, list |-> l, chunk |-> c, index |-> m]
                 /\ got' = Append(got, ValueAt(Entry(l).vals, c, m))
                 /\ ~Passed(l, c, m)
                 /\ \A k \in DOMAIN itr.lists : \A d, n \in Nat :
                       Slot(Entry(k).vals, d, n) =>
                          (UpTo(l, c, m, k, d, n) <=>
                             Passed(k, d, n) \/ (k = l /\ d = c /\ n = m))
        BY <1>6
    <2>2. PICK v, g : v = ValueAt(Entry(l).vals, c, m) /\ g = got'
        OBVIOUS
    <2>3. /\ g = Append(got, v) /\ l \in DOMAIN itr.lists
          /\ Slot(Entry(l).vals, c, m) /\ ~Passed(l, c, m)
        BY <2>1, <2>2
    <2>4. /\ v \in SUBSET Nat /\ g \in Seq(SUBSET Nat)
          /\ \A i : (\E j \in DOMAIN g : i \in g[j]) <=> Handed(i) \/ i \in v
          /\ SumCard(g) = Cardinality(AllOf(g))
        <3>1. pc = "reduce"
            BY <1>1
        <3>2. v = ValueAt(Entry(l).vals, c, m)
            BY <2>2
        <3>3. ASSUME NEW i
              PROVE  (\E j \in DOMAIN g : i \in g[j]) <=> Handed(i) \/ i \in v
            BY <2>3, <3>1, <3>2, HandOver
        <3>5. SumCard(g) = Cardinality(AllOf(g))
            BY <2>3, <3>1, <3>2, HandOver
        <3>4. v \in SUBSET Nat /\ g \in Seq(SUBSET Nat)
            <4>1. Entry(l).vals \in Seq(Chunk)
                BY <2>3, <3>1, PlaceTypes
            <4>2. v \in SUBSET Nat
                BY <2>3, <3>2, <4>1, SlotIn
            <4>. QED BY <1>3, <2>3, <4>2
        <3>. QED BY <3>3, <3>4, <3>5
    <2>5. pc' = "reduce" /\ itr'.lists = itr.lists /\ itr'.list = l /\ itr'.chunk = c /\ itr'.index = m
        BY <1>1, <1>6, <2>1
    <2>6. /\ l \in 1 .. Len(itr.lists) /\ c \in 1 .. Len(Entry(l).vals)
          /\ m \in 1 .. Len(Entry(l).vals[c].array)
          /\ DOMAIN Entry(l).vals = 1 .. Len(Entry(l).vals)
          /\ Len(itr.lists) \in Nat /\ Len(Entry(l).vals) \in Nat /\ Len(Entry(l).vals[c].array) \in Nat
        <3>1. l \in 1 .. Len(itr.lists) /\ Len(itr.lists) \in Nat
            BY <1>1, <2>1, PlaceTypes
        <3>2. /\ Entry(l).vals \in Seq(Chunk)
              /\ \A d, n : Slot(Entry(l).vals, d, n) <=>
                    d \in 1 .. Len(Entry(l).vals) /\ n \in 1 .. Len(Entry(l).vals[d].array)
            BY <1>1, <3>1, PlaceTypes
        <3>3. c \in 1 .. Len(Entry(l).vals) /\ m \in 1 .. Len(Entry(l).vals[c].array)
            BY <2>1, <3>2
        <3>. QED BY <3>1, <3>2, <3>3, ChunkElements
    <2>7. /\ l \in Counts /\ c \in Counts /\ m \in Nat
          /\ m \in 0 .. Len(Entry(l).vals[c].array)
        BY <2>6 DEF Counts
    <2>8. itr' \in [lists : Seq(Threads \X Counts), list : Counts, chunk : Counts, index : Nat]
        <3>1. PICK S, x : S = Seq(Threads \X Counts) /\ x = itr.lists
            OBVIOUS
        <3>2. x \in S /\ itr' = [lists |-> x, list |-> l, chunk |-> c, index |-> m]
            BY <1>3, <2>1, <3>1
        <3>. QED BY <2>7, <3>1, <3>2
    <2>9. ArrayInv' /\ EmitInv' /\ WaitInv'
        BY <1>1, <2>5, SameData, Started
    <2>10. BucketTypes'
        BY <1>1, <2>2, <2>4, <2>5, <2>8 DEF BucketInv, BucketTypes
    <2>11. ReadInv' /\ OutInv'
        BY <1>1, <1>2, <2>5 DEF BucketInv, ReadInv, OutInv, IsCalled, MinKey, KeyAt
    <2>12. ListInv'
        <3>1. /\ \A k \in DOMAIN itr.lists :
                    /\ itr.lists[k][1] <= cur
                    /\ itr.lists[k][2] \in DOMAIN arr[itr.lists[k][1]]
                    /\ itr.lists[k][2] <= pos[itr.lists[k][1]]
                    /\ minKey # <<>> /\ KeyAt(itr.lists[k]) = MinKey
              /\ \A k, n \in DOMAIN itr.lists : k < n => itr.lists[k][1] < itr.lists[n][1]
              /\ \A t \in Threads : \A n \in DOMAIN arr[t] :
                    n <= pos[t] /\ arr[t][n].key = MinKey =>
                       \E k \in DOMAIN itr.lists : itr.lists[k] = <<t, n>>
            BY <1>1, <1>2 DEF BucketInv, ListInv
        <3>. QED BY <1>1, <2>5, <3>1 DEF ListInv, MinKey, KeyAt
    <2>13. GotInv'
        <3>1. \A k : Entry(k)' = Entry(k)
            BY <1>1, <2>5 DEF Entry
        <3>2. \A k, d, n : Passed(k, d, n)' <=> UpTo(l, c, m, k, d, n)
            BY <2>5 DEF Passed, UpTo
        <3>3. \A i : Handed(i)' <=> Handed(i) \/ i \in v
            BY <2>2, <2>4 DEF Handed
        <3>4. \A i : Handed(i) <=>
                 \E k \in DOMAIN itr.lists : \E d, n \in Nat :
                     Passed(k, d, n) /\ SlotHas(Entry(k).vals, d, n, i)
            BY <1>1 DEF BucketInv, GotInv
        <3>5. \A i : i \in v <=> SlotHas(Entry(l).vals, c, m, i)
            BY <2>1, <2>2 DEF SlotHas
        <3>6. ASSUME NEW i
              PROVE  (Handed(i) \/ i \in v) <=>
                       \E k \in DOMAIN itr.lists : \E d, n \in Nat :
                           UpTo(l, c, m, k, d, n) /\ SlotHas(Entry(k).vals, d, n, i)
            <4>1. \A k \in DOMAIN itr.lists : \A d, n \in Nat :
                     SlotHas(Entry(k).vals, d, n, i) =>
                        (UpTo(l, c, m, k, d, n) <=> Passed(k, d, n) \/ (k = l /\ d = c /\ n = m))
                BY <2>1 DEF SlotHas
            <4>2. l \in DOMAIN itr.lists
                BY <2>1
            <4>. QED BY <3>4, <3>5, <4>1, <4>2, Zenon
        <3>7. SumCard(got') = Cardinality(AllOf(got'))
            BY <2>2, <2>4
        <3>8. /\ itr'.list \in DOMAIN itr'.lists
              /\ itr'.chunk \in DOMAIN Entry(itr'.list).vals
              /\ itr'.index \in 0 .. Len(Entry(itr'.list).vals[itr'.chunk].array)
            BY <2>1, <2>5, <2>6, <2>7
        <3>9. \A i : Handed(i)' <=>
                 \E k \in DOMAIN itr'.lists : \E d, n \in Nat :
                     Passed(k, d, n)' /\ SlotHas(Entry(k)'.vals, d, n, i)
            BY <2>5, <3>1, <3>2, <3>3, <3>6
        <3>10. /\ itr'.list \in DOMAIN itr'.lists
               /\ itr'.chunk \in DOMAIN Entry(itr.list)'.vals
               /\ itr'.index \in 0 .. Len(Entry(itr.list)'.vals[itr'.chunk].array)
            BY <1>1, <2>5, <3>8 DEF Entry
        <3>. QED BY <2>5, <3>7, <3>9, <3>10 DEF GotInv, SlotHas, Slot, ValueAt, AllOf
    <2>. QED BY <2>9, <2>10, <2>11, <2>12, <2>13 DEF BucketInv
<1>. QED BY <1>5, <1>6, NextPlace

(* The lists are the entries of the minimum in all arrays.                 *)
LEMMA ListedAre ==
    ASSUME BucketInv, pc \in {"reduce", "free"}, NEW t \in Threads, NEW n \in DOMAIN arr[t]
    PROVE  /\ <<t, n>> \in ToSet(itr.lists) <=> arr[t][n].key = MinKey
           /\ arr[t][n].key = MinKey => \E l \in DOMAIN itr.lists : itr.lists[l] = <<t, n>>
           /\ n > pos[t] => MinKey < arr[t][n].key
<1>1. cur = NumThreads /\ minKey # <<>> /\ t < cur /\ n \in Nat /\ pos[t] \in Nat
    BY PlaceTypes, ThreadNumbers, ArrayTypes DEF BucketInv
<1>2. MinKey \in Int
    BY <1>1, MinTypes DEF BucketInv
<1>3. n > pos[t] => MinKey < arr[t][n].key
    BY <1>1 DEF BucketInv, ReadInv
<1>4. ASSUME arr[t][n].key = MinKey
      PROVE  \E l \in DOMAIN itr.lists : itr.lists[l] = <<t, n>>
    <2>1. ~(n > pos[t])
        BY <1>2, <1>3, <1>4
    <2>2. n <= pos[t]
        BY <1>1, <2>1
    <2>. QED BY <1>1, <1>4, <2>2 DEF BucketInv, ListInv
<1>5. <<t, n>> \in ToSet(itr.lists) => arr[t][n].key = MinKey
    <2>1. \A l \in DOMAIN itr.lists : itr.lists[l] = <<t, n>> => KeyAt(itr.lists[l]) = MinKey
        BY DEF BucketInv, ListInv
    <2>. QED BY <2>1 DEF ToSet, KeyAt
<1>. QED BY <1>3, <1>4, <1>5 DEF ToSet

(* At the end of a call its values are the emits of the key.               *)
LEMMA AllHanded ==
    ASSUME BucketInv, pc = "free"
    PROVE  \A i : Handed(i) <=> i \in DOMAIN keyOf /\ keyOf[i] = MinKey
<1>1. \A i : Handed(i) <=>
         \E l \in DOMAIN itr.lists : \E c, m \in Nat :
             Passed(l, c, m) /\ SlotHas(Entry(l).vals, c, m, i)
    BY DEF BucketInv, GotInv
<1>2. ASSUME NEW i, Handed(i)
      PROVE  i \in DOMAIN keyOf /\ keyOf[i] = MinKey
    BY <1>1, <1>2, ListedOnce
<1>3. ASSUME NEW i \in DOMAIN keyOf, keyOf[i] = MinKey
      PROVE  Handed(i)
    <2>1. cur = NumThreads /\ minKey # <<>>
        BY PlaceTypes
    <2>2. ~IsCalled(MinKey)
        BY <2>1, MinListed
    <2>3. PICK t \in Threads : InArray(arr[t], MinKey, i)
        BY <1>3, <2>2 DEF BucketInv, EmitInv
    <2>4. PICK n \in DOMAIN arr[t] : arr[t][n].key = MinKey /\ Holds(arr[t][n].vals, i)
        BY <2>3 DEF InArray
    <2>5. PICK l \in DOMAIN itr.lists : itr.lists[l] = <<t, n>>
        BY <2>4, ListedAre
    <2>6. Entry(l) = arr[t][n]
        BY <2>5 DEF Entry
    <2>7. PICK c \in Nat, m \in Nat : SlotHas(Entry(l).vals, c, m, i)
        BY <2>4, <2>6 DEF Holds
    <2>8. PICK L, C, M : /\ L = Len(itr.lists) /\ C = Len(Entry(L).vals)
                         /\ M = Len(Entry(L).vals[C].array)
        OBVIOUS
    <2>9. itr.list = L /\ itr.chunk = C /\ itr.index = M
        BY <2>8 DEF BucketInv, GotInv
    <2>10. /\ l \in 1 .. L /\ L \in Nat
           /\ c \in 1 .. Len(Entry(l).vals) /\ m \in 1 .. Len(Entry(l).vals[c].array)
        <3>1. DOMAIN itr.lists = 1 .. L /\ L \in Nat /\ l \in 1 .. L
            BY <2>8, PlaceTypes
        <3>2. \A d, n1 : Slot(Entry(l).vals, d, n1) <=>
                 d \in 1 .. Len(Entry(l).vals) /\ n1 \in 1 .. Len(Entry(l).vals[d].array)
            BY <2>8, <3>1, PlaceTypes
        <3>. QED BY <2>7, <3>1, <3>2 DEF SlotHas
    <2>11. C \in Nat /\ M \in Nat
        <3>1. C \in Counts /\ M \in Nat
            BY <2>9, ListTypes DEF BucketInv
        <3>. QED BY <3>1 DEF Counts
    <2>12. l < L \/ (l = L /\ (c < C \/ (c = C /\ m <= M)))
        <3>1. l = L => c \in 1 .. C
            BY <2>8, <2>10
        <3>2. l = L /\ c = C => m \in 1 .. M
            BY <2>8, <2>10
        <3>. QED BY <2>10, <2>11, <3>1, <3>2
    <2>13. Passed(l, c, m)
        BY <2>9, <2>12 DEF Passed
    <2>. QED BY <1>1, <2>7, <2>13
<1>. QED BY <1>2, <1>3

(* After a call the entries of its key are freed; the other entries and    *)
(* all keys remain.                                                        *)
LEMMA FreedArrays ==
    ASSUME BucketInv, EndReduceCall
    PROVE  /\ arr' \in [Threads -> Seq(Entries)]
           /\ \A t \in Threads :
                 /\ DOMAIN arr'[t] = DOMAIN arr[t] /\ Len(arr'[t]) = Len(arr[t])
                 /\ \A n \in DOMAIN arr[t] :
                       /\ arr'[t][n].key = arr[t][n].key
                       /\ arr'[t][n].vals = IF arr[t][n].key = MinKey THEN <<>> ELSE arr[t][n].vals
<1>1. pc = "free"
    BY DEF EndReduceCall
<1>2. arr' = [t \in Threads |->
                 [n \in DOMAIN arr[t] |->
                    IF <<t, n>> \in ToSet(itr.lists)
                      THEN [arr[t][n] EXCEPT !.vals = <<>>]
                      ELSE arr[t][n]]]
    BY DEF EndReduceCall
<1>3. ASSUME NEW t \in Threads
      PROVE  /\ arr'[t] \in Seq(Entries)
             /\ DOMAIN arr'[t] = DOMAIN arr[t] /\ Len(arr'[t]) = Len(arr[t])
             /\ \A n \in DOMAIN arr[t] :
                   /\ arr'[t][n].key = arr[t][n].key
                   /\ arr'[t][n].vals = IF arr[t][n].key = MinKey THEN <<>> ELSE arr[t][n].vals
    <2>1. PICK a, b : a = arr[t] /\ b = arr'[t]
        OBVIOUS
    <2>2. PICK N \in Nat : N = Len(a) /\ DOMAIN a = 1 .. N
        BY <2>1, ArrayTypes DEF BucketInv
    <2>3. /\ a \in Seq(Entries)
          /\ \A n \in 1 .. N : a[n] \in Entries
        BY <2>1, <2>2, ArrayTypes DEF BucketInv
    <2>4. \A n \in 1 .. N : <<t, n>> \in ToSet(itr.lists) <=> a[n].key = MinKey
        BY <1>1, <2>1, <2>2, ListedAre
    <2>5. b = [n \in 1 .. N |-> IF <<t, n>> \in ToSet(itr.lists)
                                  THEN [a[n] EXCEPT !.vals = <<>>] ELSE a[n]]
        BY <1>2, <2>1, <2>2
    <2>6. \A n \in 1 .. N : b[n] = IF a[n].key = MinKey THEN [a[n] EXCEPT !.vals = <<>>] ELSE a[n]
        BY <2>4, <2>5
    <2>7. \A n \in 1 .. N : /\ b[n] \in Entries /\ b[n].key = a[n].key
                            /\ b[n].vals = IF a[n].key = MinKey THEN <<>> ELSE a[n].vals
        <3>. SUFFICES ASSUME NEW n \in 1 .. N
                      PROVE  /\ b[n] \in Entries /\ b[n].key = a[n].key
                             /\ b[n].vals = IF a[n].key = MinKey THEN <<>> ELSE a[n].vals
            OBVIOUS
        <3>1. PICK e, f : e = a[n] /\ f = b[n]
            OBVIOUS
        <3>2. e \in [key : Keys, len : Nat, vals : Seq(Chunk)]
            BY <2>3, <3>1 DEF Entries
        <3>3. f = IF e.key = MinKey THEN [e EXCEPT !.vals = <<>>] ELSE e
            BY <2>6, <3>1
        <3>4. <<>> \in Seq(Chunk)
            OBVIOUS
        <3>5. PICK S : S = Seq(Chunk)
            OBVIOUS
        <3>6. f \in [key : Keys, len : Nat, vals : S] /\ f.key = e.key
              /\ f.vals = IF e.key = MinKey THEN <<>> ELSE e.vals
            <4>1. e \in [key : Keys, len : Nat, vals : S] /\ <<>> \in S
                BY <3>2, <3>4, <3>5
            <4>2. PICK z : z = <<>>
                OBVIOUS
            <4>3. f = IF e.key = MinKey THEN [e EXCEPT !.vals = z] ELSE e
                BY <3>3, <4>2
            <4>4. z \in S
                BY <4>1, <4>2
            <4>. QED BY <4>1, <4>2, <4>3, <4>4
        <3>. QED BY <3>1, <3>5, <3>6 DEF Entries
    <2>8. b \in Seq(Entries) /\ DOMAIN b = 1 .. N /\ Len(b) = N
        <3>1. DOMAIN b = 1 .. N /\ b \in [1 .. N -> Entries]
            <4>1. DOMAIN b = 1 .. N /\ b = [n \in 1 .. N |-> b[n]]
                BY <2>5
            <4>. QED BY <2>7, <4>1
        <3>. QED BY <3>1
    <2>. QED BY <2>1, <2>2, <2>7, <2>8
<1>4. DOMAIN arr' = Threads /\ arr' = [t \in Threads |-> arr'[t]]
    BY <1>2
<1>. QED BY <1>3, <1>4

(* The call that ends is put on record; its key is called from now on.     *)
LEMMA EndCallStep ==
    ASSUME BucketInv, EndReduceCall
    PROVE  BucketInv'
<1>1. /\ pc = "free" /\ pc' = "advance" /\ itr' = EmptyItr /\ got' = <<>>
      /\ out' = Append(out, [key |-> MinKey, vals |-> got])
      /\ UNCHANGED <<combiner, alloc, keyOf, mapped, pos, cur, minKey, nextMin>>
    BY DEF EndReduceCall, MinKey
<1>2. /\ cur = NumThreads /\ minKey # <<>>
      /\ \A t \in Threads : t < cur
    BY <1>1, PlaceTypes, ThreadNumbers
<1>3. MinKey \in Keys /\ MinKey \in Int /\ ~IsCalled(MinKey)
    BY <1>1, <1>2, MinTypes, MinListed DEF BucketInv
<1>4. /\ arr' \in [Threads -> Seq(Entries)]
      /\ \A t \in Threads :
            /\ DOMAIN arr'[t] = DOMAIN arr[t] /\ Len(arr'[t]) = Len(arr[t])
            /\ \A n \in DOMAIN arr[t] :
                  /\ arr'[t][n].key = arr[t][n].key
                  /\ arr'[t][n].vals = IF arr[t][n].key = MinKey THEN <<>> ELSE arr[t][n].vals
    BY FreedArrays
<1>5. /\ \A r : r[1] \in Threads /\ r[2] \in DOMAIN arr[r[1]] => KeyAt(r)' = KeyAt(r)
      /\ MinKey' = MinKey
    <2>1. minKey[1] \in Threads /\ minKey[2] \in DOMAIN arr[minKey[1]]
        BY <1>2, MinTypes DEF BucketInv
    <2>. QED BY <1>1, <1>4, <2>1 DEF KeyAt, MinKey
<1>6. PICK O \in Nat : O = Len(out) /\ DOMAIN out = 1 .. O
    BY DEF BucketInv, BucketTypes
<1>7. /\ out' \in Seq([key : Keys, vals : Seq(SUBSET Nat)])
      /\ DOMAIN out' = 1 .. O + 1 /\ out'[O + 1].key = MinKey
      /\ \A c \in 1 .. O : out'[c] = out[c]
    <2>1. PICK R, e : R = [key : Keys, vals : Seq(SUBSET Nat)] /\ e = [key |-> MinKey, vals |-> got]
        OBVIOUS
    <2>2. e \in R /\ e.key = MinKey
        <3>1. got \in Seq(SUBSET Nat)
            BY DEF BucketInv, BucketTypes
        <3>2. PICK S : S = Seq(SUBSET Nat)
            OBVIOUS
        <3>. QED BY <1>3, <2>1, <3>1, <3>2
    <2>3. out \in Seq(R) /\ out' = Append(out, e)
        BY <1>1, <2>1 DEF BucketInv, BucketTypes
    <2>4. /\ out' \in Seq(R) /\ DOMAIN out' = 1 .. O + 1 /\ out'[O + 1] = e
          /\ \A c \in 1 .. O : out'[c] = out[c]
        BY <1>6, <2>2, <2>3
    <2>. QED BY <2>1, <2>2, <2>4
<1>8. \A k : IsCalled(k)' <=> IsCalled(k) \/ k = MinKey
    <2>. SUFFICES ASSUME NEW k
                  PROVE  (\E c \in 1 .. O + 1 : out'[c].key = k) <=> (\E c \in 1 .. O : out[c].key = k) \/ k = MinKey
        BY <1>6, <1>7 DEF IsCalled
    <2>1. \A c \in 1 .. O + 1 : c \in 1 .. O \/ c = O + 1
        OBVIOUS
    <2>2. O + 1 \in 1 .. O + 1 /\ \A c \in 1 .. O : c \in 1 .. O + 1
        OBVIOUS
    <2>. QED BY <1>7, <2>1, <2>2, Zenon
<1>9. \A t \in Threads : \A k, i : InArray(arr'[t], k, i) <=> InArray(arr[t], k, i) /\ k # MinKey
    <2>. SUFFICES ASSUME NEW t \in Threads, NEW k, NEW i
                  PROVE  InArray(arr'[t], k, i) <=> InArray(arr[t], k, i) /\ k # MinKey
        OBVIOUS
    <2>1. PICK a, b : a = arr[t] /\ b = arr'[t]
        OBVIOUS
    <2>2. /\ DOMAIN b = DOMAIN a
          /\ \A n \in DOMAIN a : b[n].key = a[n].key
          /\ \A n \in DOMAIN a : a[n].key # MinKey => b[n].vals = a[n].vals
          /\ \A n \in DOMAIN a : a[n].key = MinKey => b[n].vals = <<>>
        BY <1>4, <2>1
    <2>3. ~Holds(<<>>, i)
        BY NoChunks
    <2>4. InArray(b, k, i) <=> InArray(a, k, i) /\ k # MinKey
        BY <2>2, <2>3, Zenon DEF InArray
    <2>. QED BY <2>1, <2>4
<1>10. ArrayInv'
    <2>. SUFFICES ASSUME NEW t \in Threads
                  PROVE  /\ Sound(arr'[t])
                         /\ \A i : OnceIn(arr'[t], i)
                         /\ \A n \in DOMAIN arr'[t] :
                               \/ \E c \in DOMAIN out' : out'[c].key = arr'[t][n].key
                               \/ arr'[t][n].vals # <<>>
        BY DEF ArrayInv, IsCalled
    <2>1. PICK a, b : a = arr[t] /\ b = arr'[t]
        OBVIOUS
    <2>2. /\ DOMAIN b = DOMAIN a
          /\ \A n \in DOMAIN a : b[n].key = a[n].key
          /\ \A n \in DOMAIN a : b[n].vals = IF a[n].key = MinKey THEN <<>> ELSE a[n].vals
        BY <1>4, <2>1
    <2>3. /\ Ascending(a) /\ \A n \in DOMAIN a : Full(a[n].vals)
          /\ \A i : \A n \in DOMAIN a : Once(a[n].vals, i)
          /\ \A n \in DOMAIN a : IsCalled(a[n].key) \/ a[n].vals # <<>>
        BY <2>1 DEF BucketInv, ArrayInv, Sound, OnceIn
    <2>4. Ascending(b)
        BY <2>2, <2>3 DEF Ascending
    <2>5. (\A n \in DOMAIN b : Full(b[n].vals)) /\ \A i : \A n \in DOMAIN b : Once(b[n].vals, i)
        BY <2>2, <2>3, NoChunks
    <2>6. \A n \in DOMAIN b : (\E c \in DOMAIN out' : out'[c].key = b[n].key) \/ b[n].vals # <<>>
        <3>1. \A k : IsCalled(k) \/ k = MinKey => \E c \in DOMAIN out' : out'[c].key = k
            BY <1>8 DEF IsCalled
        <3>. QED BY <2>2, <2>3, <3>1
    <2>. QED BY <2>1, <2>4, <2>5, <2>6 DEF Sound, OnceIn
<1>11. EmitInv'
    <2>1. \A t \in Threads : \A k, i :
             InArray(arr'[t], k, i) => i \in DOMAIN keyOf' /\ keyOf'[i] = k
        BY <1>1, <1>9 DEF BucketInv, EmitInv
    <2>2. \A t, u \in Threads : \A k, i :
             InArray(arr'[t], k, i) /\ InArray(arr'[u], k, i) => t = u
        <3>1. \A t, u \in Threads : \A k, i : InArray(arr[t], k, i) /\ InArray(arr[u], k, i) => t = u
            BY DEF BucketInv, EmitInv
        <3>. QED BY <1>9, <3>1, Zenon
    <2>3. \A i \in DOMAIN keyOf :
             IsCalled(keyOf[i])' \/ \E t \in Threads : InArray(arr'[t], keyOf[i], i)
        <3>1. \A i \in DOMAIN keyOf :
                 IsCalled(keyOf[i]) \/ \E t \in Threads : InArray(arr[t], keyOf[i], i)
            BY DEF BucketInv, EmitInv
        <3>. SUFFICES ASSUME NEW i \in DOMAIN keyOf
                      PROVE  IsCalled(keyOf[i])' \/ \E t \in Threads : InArray(arr'[t], keyOf[i], i)
            OBVIOUS
        <3>2. PICK k : k = keyOf[i]
            OBVIOUS
        <3>3. IsCalled(k) \/ k = MinKey \/ (k # MinKey /\ \E t \in Threads : InArray(arr[t], k, i))
            BY <3>1, <3>2
        <3>4. IsCalled(k)' \/ \E t \in Threads : InArray(arr'[t], k, i)
            BY <1>8, <1>9, <3>3, Zenon
        <3>. QED BY <1>1, <3>2, <3>4 DEF IsCalled
    <2>. QED BY <1>1, <2>1, <2>2, <2>3 DEF EmitInv, IsCalled
<1>12. WaitInv'
    BY <1>1 DEF BucketInv, WaitInv
<1>13. BucketTypes'
    <2>1. \A t \in Threads : Len(arr'[t]) <= alloc'[t] /\ pos'[t] <= Len(arr'[t])
        BY <1>1, <1>4 DEF BucketInv, BucketTypes
    <2>2. itr' \in [lists : Seq(Threads \X Counts), list : Counts, chunk : Counts, index : Nat]
        <3>1. <<>> \in Seq(Threads \X Counts)
            OBVIOUS
        <3>. QED BY <1>1, <3>1 DEF EmptyItr, Counts
    <2>3. got' \in Seq(SUBSET Nat)
        BY <1>1
    <2>4. /\ minKey' \in Refs /\ (minKey' # <<>> => minKey'[2] \in DOMAIN arr'[minKey'[1]])
          /\ nextMin' \in Refs /\ (nextMin' # <<>> => nextMin'[2] \in DOMAIN arr'[nextMin'[1]])
        <3>1. minKey[1] \in Threads /\ (nextMin # <<>> => nextMin[1] \in Threads)
            BY <1>2, MinTypes, NextTypes DEF BucketInv
        <3>. QED BY <1>1, <1>4, <3>1 DEF BucketInv, BucketTypes
    <2>. QED BY <1>1, <1>4, <1>7, <2>1, <2>2, <2>3, <2>4 DEF BucketInv, BucketTypes
<1>14. ReadInv'
    <2>1. ASSUME NEW t \in Threads, NEW n \in DOMAIN arr[t], n <= pos[t]
          PROVE  IsCalled(arr[t][n].key)'
        <3>1. IsCalled(arr[t][n].key) \/ arr[t][n].key = MinKey
            BY <2>1 DEF BucketInv, ReadInv
        <3>2. \A k : IsCalled(k) \/ k = MinKey => \E c \in DOMAIN out' : out'[c].key = k
            BY <1>8 DEF IsCalled
        <3>. QED BY <1>4, <3>1, <3>2 DEF IsCalled
    <2>2. ASSUME NEW t \in Threads, NEW n \in DOMAIN arr[t], n > pos[t]
          PROVE  /\ \A c \in 1 .. O + 1 : out'[c].key < arr[t][n].key
                 /\ MinKey < arr[t][n].key /\ MinKey <= arr[t][n].key
                 /\ nextMin # <<>> /\ KeyAt(nextMin)' <= arr[t][n].key
        <3>1. MinKey < arr[t][n].key
            BY <1>1, <2>2, ListedAre
        <3>2. /\ \A c \in 1 .. O : out[c].key < arr[t][n].key
              /\ MinKey <= arr[t][n].key
              /\ nextMin # <<>> /\ KeyAt(nextMin) <= arr[t][n].key
            BY <1>2, <1>6, <2>2 DEF BucketInv, ReadInv
        <3>3. \A c \in 1 .. O + 1 : out'[c].key < arr[t][n].key
            <4>1. \A c \in 1 .. O + 1 : c \in 1 .. O \/ c = O + 1
                OBVIOUS
            <4>. QED BY <1>7, <3>1, <3>2, <4>1
        <3>4. nextMin[1] \in Threads /\ nextMin[2] \in DOMAIN arr[nextMin[1]]
            BY <3>2, NextTypes DEF BucketInv
        <3>5. KeyAt(nextMin)' = KeyAt(nextMin)
            BY <1>1, <1>4, <3>4 DEF KeyAt
        <3>. QED BY <3>1, <3>2, <3>3, <3>5
    <2>3. nextMin # <<>> => nextMin[1] < cur /\ nextMin[2] = pos[nextMin[1]] + 1
        BY DEF BucketInv, ReadInv
    <2>4. \A t \in Threads : \A n \in DOMAIN arr'[t] : n <= pos'[t] => IsCalled(arr[t][n].key)'
        BY <1>1, <1>4, <2>1
    <2>5. \A t \in Threads : \A n \in DOMAIN arr'[t] : n > pos'[t] =>
             /\ \A c \in DOMAIN out' : out'[c].key < arr'[t][n].key
             /\ MinKey' < arr'[t][n].key /\ MinKey' <= arr'[t][n].key
             /\ nextMin' # <<>> /\ KeyAt(nextMin)' <= arr'[t][n].key
        BY <1>1, <1>4, <1>5, <1>7, <2>2
    <2>6. nextMin' # <<>> => nextMin'[1] < cur' /\ nextMin'[2] = pos'[nextMin'[1]] + 1
        BY <1>1, <2>3
    <2>. QED BY <2>4, <2>5, <2>6 DEF ReadInv
<1>15. OutInv'
    <2>1. \A k : IsCalled(k) \/ k = MinKey => \E c \in DOMAIN out' : out'[c].key = k
        BY <1>8 DEF IsCalled
    <2>2. \E c \in DOMAIN out' : out'[c].key = MinKey'
        BY <1>5, <2>1
    <2>. QED BY <1>1, <1>2, <2>2 DEF OutInv, IsCalled
<1>16. ListInv'
    <2>1. \A l : l \notin DOMAIN <<>>
        OBVIOUS
    <2>2. itr'.lists = <<>> /\ itr'.list = 1 /\ itr'.chunk = 1 /\ itr'.index = 0
        BY <1>1 DEF EmptyItr
    <2>. QED BY <1>1, <2>1, <2>2 DEF ListInv
<1>17. GotInv'
    BY <1>1 DEF GotInv
<1>. QED BY <1>10, <1>11, <1>12, <1>13, <1>14, <1>15, <1>16, <1>17 DEF BucketInv

LEMMA BucketStep == BucketInv /\ [BucketNext]_bucketVars => BucketInv'
<1>. SUFFICES ASSUME BucketInv, [BucketNext]_bucketVars
              PROVE  BucketInv'
    OBVIOUS
<1>1. CASE \E t \in Threads : EndMap(t)
    BY <1>1, EndMapStep
<1>2. CASE \E t \in Threads : \E k \in Keys : emit_intermediate(t, k)
    BY <1>2, EmitStep
<1>3. CASE reduce_worker_do_next_task
    BY <1>3, StartStep, SkipStep, AddStep, FindStep, EndPassStep, IterStep, EndCallStep,
       AdvanceStep DEF reduce_worker_do_next_task
<1>4. CASE UNCHANGED bucketVars
    <2>1. UNCHANGED <<combiner, arr, alloc, keyOf, mapped, pc, pos, cur, minKey, nextMin, itr, got, out>>
        BY <1>4 DEF bucketVars
    <2>2. BucketTypes' /\ WaitInv'
        BY <2>1 DEF BucketInv, BucketTypes, WaitInv
    <2>3. ArrayInv' /\ EmitInv'
        BY <2>1 DEF BucketInv, ArrayInv, EmitInv, IsCalled
    <2>4. ReadInv' /\ OutInv'
        BY <2>1 DEF BucketInv, ReadInv, OutInv, IsCalled, MinKey, KeyAt
    <2>5. ListInv'
        BY <2>1 DEF BucketInv, ListInv, MinKey, KeyAt
    <2>6. GotInv'
        BY <2>1 DEF BucketInv, GotInv, Entry, Passed, Handed
    <2>. QED BY <2>2, <2>3, <2>4, <2>5, <2>6 DEF BucketInv
<1>. QED BY <1>1, <1>2, <1>3, <1>4 DEF BucketNext, BucketEnded

LEMMA BucketAlways == BucketSpec => []BucketInv
<1>. QED BY BucketInitially, BucketStep, PTL DEF BucketSpec

(* The counters of a bucket stay in their arrays, an array in what was     *)
(* allocated for it: emit_intermediate enlarges it before the entry that   *)
(* would not fit, reduce_worker_do_next_task reads no entry that is not.   *)
THEOREM BucketTypeCorrect == BucketSpec => []BucketTypeOK
<1>1. BucketInv => BucketTypeOK
    <2>. SUFFICES ASSUME BucketInv
                  PROVE  BucketTypeOK
        OBVIOUS
    <2>1. \A t \in Threads : Len(arr[t]) <= alloc[t] /\ pos[t] \in 0 .. Len(arr[t])
        BY ArrayTypes DEF BucketInv, BucketTypes
    <2>. QED BY <2>1 DEF BucketInv, BucketTypes, BucketTypeOK
<1>. QED BY <1>1, BucketAlways, PTL

(* The iterator has room for all lists of a key, one of each map thread:   *)
(* no array has a key twice, and the assertion on iter_add holds.          *)
THEOREM IteratorHasRoom == BucketSpec => [](pc # "aborted")
<1>1. BucketInv => pc # "aborted"
    BY DEF BucketInv, BucketTypes
<1>. QED BY <1>1, BucketAlways, PTL

-----------------------------------------------------------------------------
(* The calls of reduce group the emits by their keys. *)

CallOf(r) == [key |-> r.key, ids |-> UNION ToSet(r.vals), handed |-> SumCard(r.vals)]
CallsOf(s) == [c \in DOMAIN s |-> CallOf(s[c])]

(* The record of calls grows by the call that ends.                        *)
LEMMA AppendCall ==
    ASSUME NEW R, NEW s \in Seq(R), NEW e \in R
    PROVE  CallsOf(Append(s, e)) = Append(CallsOf(s), CallOf(e))
<1>1. PICK N \in Nat : N = Len(s) /\ DOMAIN s = 1 .. N
    OBVIOUS
<1>2. PICK r : r = Append(s, e)
    OBVIOUS
<1>3. DOMAIN r = 1 .. N + 1 /\ r[N + 1] = e /\ \A n \in 1 .. N : r[n] = s[n]
    BY <1>1, <1>2
<1>4. PICK S : S = {CallOf(x) : x \in R}
    OBVIOUS
<1>5. PICK a, x : a = CallsOf(s) /\ x = CallOf(e)
    OBVIOUS
<1>6. x \in S /\ \A n \in 1 .. N : CallOf(s[n]) \in S
    <2>1. \A n \in 1 .. N : s[n] \in R
        BY <1>1, Elements
    <2>. QED BY <1>4, <1>5, <2>1
<1>7. a = [n \in 1 .. N |-> CallOf(s[n])]
    BY <1>1, <1>5 DEF CallsOf
<1>8. a \in Seq(S) /\ Len(a) = N /\ \A n \in 1 .. N : a[n] = CallOf(s[n])
    BY <1>6, <1>7
<1>9. /\ Append(a, x) = [n \in 1 .. N + 1 |-> Append(a, x)[n]]
      /\ Append(a, x)[N + 1] = x /\ \A n \in 1 .. N : Append(a, x)[n] = a[n]
    <2>1. PICK f : f = Append(a, x)
        OBVIOUS
    <2>2. /\ f \in Seq(S) /\ Len(f) = N + 1
          /\ f[N + 1] = x /\ \A n \in 1 .. N : f[n] = a[n]
        BY <1>6, <1>8, <2>1
    <2>3. f \in [1 .. N + 1 -> S]
        BY <2>2
    <2>4. f = [n \in 1 .. N + 1 |-> f[n]]
        BY <2>3
    <2>. QED BY <2>1, <2>2, <2>4
<1>10. \A n \in 1 .. N + 1 : Append(a, x)[n] = CallOf(r[n])
    <2>1. \A n \in 1 .. N + 1 : n \in 1 .. N \/ n = N + 1
        OBVIOUS
    <2>. QED BY <1>3, <1>5, <1>8, <1>9, <2>1, Zenon
<1>11. CallsOf(r) = [n \in 1 .. N + 1 |-> CallOf(r[n])]
    BY <1>3 DEF CallsOf
<1>12. CallsOf(r) = Append(a, x)
    BY <1>9, <1>10, <1>11, Zenon
<1>. QED BY <1>2, <1>5, <1>12

LEMMA EmitsGroup ==
    ASSUME BucketInv, NEW t \in Threads, NEW k \in Keys, emit_intermediate(t, k)
    PROVE  \E i \in 1 .. MaxEmits : GK!Emit(i, k)
<1>1. pc = "wait" /\ out = <<>> /\ out' = out
    BY DEF emit_intermediate, BucketInv, WaitInv, reduceVars
<1>2. PICK E \in Nat : E = Len(keyOf) /\ DOMAIN keyOf = 1 .. E
    BY DEF BucketInv, BucketTypes
<1>3. keyOf' = Append(keyOf, k) /\ keyOf \in Seq(Keys) /\ E < MaxEmits
    BY <1>2 DEF emit_intermediate, BucketInv, BucketTypes
<1>4. E + 1 \in 1 .. MaxEmits /\ E + 1 \notin DOMAIN keyOf
    BY <1>2, <1>3, ParamsAssumption
<1>5. keyOf' = [j \in DOMAIN keyOf \cup {E + 1} |-> IF j = E + 1 THEN k ELSE keyOf[j]]
    <2>1. /\ keyOf' = [j \in 1 .. E + 1 |-> keyOf'[j]]
          /\ keyOf'[E + 1] = k /\ \A j \in 1 .. E : keyOf'[j] = keyOf[j]
        <3>1. PICK f : f = keyOf'
            OBVIOUS
        <3>2. /\ f \in Seq(Keys) /\ Len(f) = E + 1
              /\ f[E + 1] = k /\ \A j \in 1 .. E : f[j] = keyOf[j]
            BY <1>2, <1>3, <3>1
        <3>3. f \in [1 .. E + 1 -> Keys]
            BY <3>2
        <3>4. f = [j \in 1 .. E + 1 |-> f[j]]
            BY <3>3
        <3>. QED BY <3>1, <3>2, <3>4
    <2>2. \A j \in 1 .. E + 1 : keyOf'[j] = IF j = E + 1 THEN k ELSE keyOf[j]
        <3>1. \A j \in 1 .. E + 1 : j \in 1 .. E \/ j = E + 1
            OBVIOUS
        <3>2. E + 1 \notin 1 .. E
            OBVIOUS
        <3>. QED BY <2>1, <3>1, <3>2
    <2>3. 1 .. E + 1 = (1 .. E) \cup {E + 1}
        OBVIOUS
    <2>. QED BY <1>2, <2>1, <2>2, <2>3, Zenon
<1>6. [c \in DOMAIN out |-> CallOf(out[c])] = <<>>
    BY <1>1
<1>. QED BY <1>1, <1>4, <1>5, <1>6 DEF GK!Emit, CallOf

LEMMA CallsReduce ==
    ASSUME BucketInv, EndReduceCall
    PROVE  \E k \in Keys : GK!Reduce(k)
<1>1. pc = "free" /\ keyOf' = keyOf
    BY DEF EndReduceCall
<1>2. cur = NumThreads /\ minKey # <<>>
    BY <1>1, PlaceTypes
<1>3. MinKey \in Keys /\ MinKey \in Int /\ ~IsCalled(MinKey)
    BY <1>1, <1>2, MinTypes, MinListed DEF BucketInv
<1>4. \A k : GK!Called(k) <=> IsCalled(k)
    BY DEF GK!Called, IsCalled
<1>5. \A k, i : i \in GK!IdsOf(k) <=> i \in DOMAIN keyOf /\ keyOf[i] = k
    BY DEF GK!IdsOf
<1>6. GK!IdsOf(MinKey) # {}
    <2>1. 1 \in 1 .. Len(itr.lists) /\ 1 \in DOMAIN itr.lists
        <3>1. 1 \in DOMAIN itr.lists
            BY <1>1, <1>2, MinListed
        <3>. QED BY <1>1, <3>1, PlaceTypes
    <2>2. PICK s : s = Entry(1).vals
        OBVIOUS
    <2>3. /\ Len(s) \in Nat \ {0} /\ Full(s)
          /\ \A c \in 1 .. Len(s) : Len(s[c].array) \in Nat \ {0}
          /\ \A c, m : Slot(s, c, m) <=> c \in 1 .. Len(s) /\ m \in 1 .. Len(s[c].array)
        BY <1>1, <2>1, <2>2, PlaceTypes
    <2>4. Slot(s, 1, 1)
        <3>1. 1 \in 1 .. Len(s)
            BY <2>3
        <3>2. Len(s[1].array) \in Nat \ {0}
            BY <2>3, <3>1
        <3>3. 1 \in 1 .. Len(s[1].array)
            BY <3>2
        <3>. QED BY <2>3, <3>1, <3>3
    <2>5. ValueAt(s, 1, 1) # {}
        BY <2>3, <2>4 DEF Full
    <2>6. PICK i : SlotHas(Entry(1).vals, 1, 1, i)
        BY <2>2, <2>4, <2>5 DEF SlotHas
    <2>7. i \in DOMAIN keyOf /\ keyOf[i] = MinKey
        BY <1>1, <2>1, <2>6, ListedOnce
    <2>. QED BY <1>5, <2>7
<1>7. ASSUME NEW l \in Keys, GK!IdsOf(l) # {}, ~GK!Called(l)
      PROVE  MinKey <= l
    <2>1. PICK i \in DOMAIN keyOf : keyOf[i] = l
        BY <1>5, <1>7
    <2>2. ~IsCalled(l) /\ l \in Int
        BY <1>4, <1>7, ParamsAssumption
    <2>3. PICK t \in Threads : InArray(arr[t], l, i)
        BY <2>1, <2>2 DEF BucketInv, EmitInv
    <2>4. PICK n \in DOMAIN arr[t] : arr[t][n].key = l
        BY <2>3 DEF InArray
    <2>5. n \in Nat /\ pos[t] \in Nat
        BY ArrayTypes DEF BucketInv
    <2>6. CASE n <= pos[t]
        <3>1. l = MinKey
            BY <2>2, <2>4, <2>6 DEF BucketInv, ReadInv
        <3>. QED BY <1>3, <3>1
    <2>7. CASE n > pos[t]
        <3>1. MinKey < l
            BY <1>1, <2>4, <2>7, ListedAre
        <3>. QED BY <1>3, <2>2, <3>1
    <2>. QED BY <2>5, <2>6, <2>7
<1>8. UNION ToSet(got) = GK!IdsOf(MinKey) /\ SumCard(got) = Cardinality(GK!IdsOf(MinKey))
    <2>1. AllOf(got) = GK!IdsOf(MinKey)
        BY <1>1, <1>5, AllHanded DEF Handed, AllOf
    <2>2. UNION ToSet(got) = AllOf(got)
        BY DEF ToSet, AllOf
    <2>3. SumCard(got) = Cardinality(AllOf(got))
        BY <1>1 DEF BucketInv, GotInv
    <2>. QED BY <2>1, <2>2, <2>3
<1>9. CallsOf(out') = Append(CallsOf(out), [key |-> MinKey, ids |-> GK!IdsOf(MinKey),
                                            handed |-> Cardinality(GK!IdsOf(MinKey))])
    <2>1. PICK R, e : R = [key : Keys, vals : Seq(SUBSET Nat)] /\ e = [key |-> MinKey, vals |-> got]
        OBVIOUS
    <2>2. e \in R /\ e.key = MinKey /\ e.vals = got
        <3>1. got \in Seq(SUBSET Nat)
            BY DEF BucketInv, BucketTypes
        <3>2. PICK S : S = Seq(SUBSET Nat)
            OBVIOUS
        <3>. QED BY <1>3, <2>1, <3>1, <3>2
    <2>3. out \in Seq(R) /\ out' = Append(out, e)
        BY <2>1 DEF BucketInv, BucketTypes, EndReduceCall, MinKey
    <2>4. CallsOf(out') = Append(CallsOf(out), CallOf(e))
        BY <2>2, <2>3, AppendCall
    <2>5. CallOf(e) = [key |-> MinKey, ids |-> GK!IdsOf(MinKey),
                       handed |-> Cardinality(GK!IdsOf(MinKey))]
        BY <1>8, <2>2 DEF CallOf
    <2>. QED BY <2>4, <2>5
<1>10. PICK k \in Keys : k = MinKey
    BY <1>3
<1>11. /\ GK!IdsOf(k) # {} /\ ~GK!Called(k)
       /\ \A l \in Keys : GK!IdsOf(l) # {} /\ ~GK!Called(l) => k <= l
       /\ CallsOf(out') = Append(CallsOf(out), [key |-> k, ids |-> GK!IdsOf(k),
                                                 handed |-> Cardinality(GK!IdsOf(k))])
    BY <1>3, <1>4, <1>6, <1>7, <1>9, <1>10
<1>12. GK!Cardinality(GK!IdsOf(k)) = Cardinality(GK!IdsOf(k))
    BY DEF GK!Cardinality, Cardinality
<1>13. CallsOf(out') = Append(CallsOf(out), [key |-> k, ids |-> GK!IdsOf(k),
                                             handed |-> GK!Cardinality(GK!IdsOf(k))])
    BY <1>11, <1>12
<1>14. GK!Reduce(k)
    BY <1>1, <1>11, <1>13 DEF GK!Reduce, CallsOf, CallOf
<1>. QED BY <1>14

(* Each key is reduced in one call, in ascending order, and its iterator   *)
(* hands out every value that was emitted for it once: however the emits   *)
(* were spread over the map threads and the chunks, whether or not a       *)
(* combiner merged them.                                                   *)
THEOREM GroupByKeyImplemented == BucketSpec => ImplementsGroupByKey
<1>1. BucketInit => GK!GroupInit
    <2>. SUFFICES ASSUME BucketInit
                  PROVE  GK!GroupInit
        OBVIOUS
    <2>1. keyOf = <<>> /\ out = <<>>
        BY DEF BucketInit
    <2>2. keyOf = [i \in {} |-> 0]
        BY <2>1
    <2>3. [c \in DOMAIN out |-> CallOf(out[c])] = <<>>
        BY <2>1
    <2>. QED BY <2>2, <2>3 DEF GK!GroupInit, CallOf
<1>2. BucketInv /\ [BucketNext]_bucketVars => [GK!GroupNext]_(GK!groupVars)
    <2>. SUFFICES ASSUME BucketInv, [BucketNext]_bucketVars
                  PROVE  [GK!GroupNext]_(GK!groupVars)
        OBVIOUS
    <2>1. CASE \E t \in Threads : \E k \in Keys : emit_intermediate(t, k)
        BY <2>1, EmitsGroup DEF GK!GroupNext
    <2>2. CASE EndReduceCall
        BY <2>2, CallsReduce DEF GK!GroupNext
    <2>3. CASE UNCHANGED <<keyOf, out>>
        BY <2>3 DEF GK!groupVars
    <2>4. ASSUME \/ \E t \in Threads : EndMap(t)
                 \/ StartBucket \/ SkipExhausted \/ AddToItr \/ FindNextMin
                 \/ EndPass \/ iter_next \/ Advance
          PROVE  UNCHANGED <<keyOf, out>>
        BY <2>4 DEF EndMap, StartBucket, SkipExhausted, AddToItr, FindNextMin, EndPass,
                    iter_next, Advance, mapVars, reduceVars
    <2>5. CASE UNCHANGED bucketVars
        BY <2>3, <2>5 DEF bucketVars
    <2>. QED BY <2>1, <2>2, <2>3, <2>4, <2>5 DEF BucketNext, reduce_worker_do_next_task, BucketEnded
<1>. QED BY <1>1, <1>2, BucketAlways, PTL DEF BucketSpec, ImplementsGroupByKey, GK!GroupSpec

(* When the task is over it has passed all entries. *)
AllPassed == pc = "done" => \A t \in Threads : Exhausted(t)

(* The worker is done only when it has passed the end of every array.      *)
LEMMA PassedStep ==
    BucketInv /\ AllPassed /\ [BucketNext]_bucketVars => AllPassed'
<1>. SUFFICES ASSUME BucketInv, AllPassed, [BucketNext]_bucketVars, pc' = "done"
              PROVE  \A t \in Threads : Exhausted(t)'
    BY DEF AllPassed
<1>1. CASE Advance
    <2>1. pos' = pos /\ arr' = arr /\ \A t \in Threads : Exhausted(t)
        BY <1>1 DEF Advance, mapVars
    <2>. QED BY <2>1 DEF Exhausted
<1>2. ASSUME NEW t \in Threads, mapped[t] = FALSE
      PROVE  pc # "done"
    BY <1>2 DEF BucketInv, WaitInv
<1>3. CASE \E t \in Threads : EndMap(t) \/ \E k \in Keys : emit_intermediate(t, k)
    <2>1. PICK t \in Threads : EndMap(t) \/ \E k \in Keys : emit_intermediate(t, k)
        BY <1>3
    <2>2. pc' = pc /\ ~mapped[t]
        BY <2>1 DEF EndMap, emit_intermediate, reduceVars
    <2>. QED BY <2>2 DEF BucketInv, WaitInv
<1>4. CASE BucketEnded \/ UNCHANGED bucketVars
    BY <1>4 DEF BucketEnded, bucketVars, AllPassed, Exhausted
<1>5. ~(StartBucket \/ SkipExhausted \/ AddToItr \/ FindNextMin \/ EndPass
          \/ iter_next \/ EndReduceCall)
    <2>1. iter_next => pc' \in {"reduce", "free"}
        BY NextPlace DEF iter_next
    <2>. QED BY <2>1 DEF StartBucket, SkipExhausted, AddToItr, FindNextMin, EndPass, EndReduceCall
<1>. QED BY <1>1, <1>3, <1>4, <1>5 DEF BucketNext, reduce_worker_do_next_task

(* A reduce task that is over has reduced every key that was emitted.      *)
THEOREM BucketReduced == BucketSpec => [](pc = "done" => GK!AllReduced)
<1>1. BucketInit => AllPassed
    BY DEF BucketInit, AllPassed
<1>2. BucketInv /\ AllPassed => (pc = "done" => GK!AllReduced)
    <2>. SUFFICES ASSUME BucketInv, AllPassed, pc = "done",
                         NEW i \in DOMAIN keyOf
                  PROVE  IsCalled(keyOf[i])
        BY DEF GK!AllReduced, GK!IdsOf, GK!Called, IsCalled
    <2>1. minKey = <<>>
        BY DEF BucketInv, OutInv
    <2>2. IsCalled(keyOf[i]) \/ \E t \in Threads : InArray(arr[t], keyOf[i], i)
        BY DEF BucketInv, EmitInv
    <2>3. ASSUME NEW t \in Threads, NEW n \in DOMAIN arr[t]
          PROVE  IsCalled(arr[t][n].key)
        <3>1. pos[t] >= Len(arr[t])
            BY DEF AllPassed, Exhausted
        <3>2. n \in 1 .. Len(arr[t]) /\ pos[t] \in Nat /\ Len(arr[t]) \in Nat
            BY ArrayTypes DEF BucketInv
        <3>3. n <= pos[t]
            BY <3>1, <3>2
        <3>. QED BY <2>1, <3>3 DEF BucketInv, ReadInv
    <2>. QED BY <2>2, <2>3 DEF InArray
<1>. QED BY <1>1, <1>2, PassedStep, BucketAlways, PTL DEF BucketSpec
=============================================================================
