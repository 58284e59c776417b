-------------------------- MODULE DedupPipelineProofs --------------------------
(***************************************************************************)
(* Proofs about DedupPipeline, for every input, every number of threads    *)
(* and queues and all sizes of queues and buffers: the types, what the     *)
(* encoder asserts, that the file can always be decoded, and that every    *)
(* step that writes is a step of DedupArchive.                             *)
(***************************************************************************)
EXTENDS DedupPipeline, FiniteSetTheorems, SequenceTheorems, WellFoundedInduction, TLAPS

-----------------------------------------------------------------------------
(* The inductive invariant *)

(* Types, and what the control points of Reorder say of its variables;     *)
(* Reorder does not abort.                                                 *)
Positions == Chunks \cup {<<Len(Input), 0>>}
Writers == [pc : {"fetch", "take", "write", "flush", "done"}, qid : Groups, tries : Nat,
            recv : Seq(Chunks), next : Positions, room : Nat, bound : [0..Len(Input) -> Nat],
            held : SUBSET Chunks, chunk : Chunks \cup {NoChunk}]

QueueTypes ==
  /\ sent \in 0..Len(Input) + NQueues
  /\ queue \in [Queues \X Groups -> Seq(Chunks)]
  /\ \A x \in Queues \X Groups : Len(queue[x]) <= QueueSize
  /\ ended \in [Queues \X Groups -> Nat]

WorkerTypes ==
  /\ pc \in [Workers -> {"work", "drain", "done"}]
  /\ recv \in [Workers -> Seq(Chunks)]
  /\ send = [w \in Workers |-> send[w]]
  /\ \A w \in Workers : /\ send[w] \in [SendsTo(w) -> Seq(Chunks)]
                        /\ \A out \in SendsTo(w) : Len(send[w][out]) <= PerInsert

ChunkTypes ==
  /\ original \in [Chunks -> Chunks \cup {NoChunk}]
  /\ table \in [Contents -> Chunks \cup {NoChunk}]
  /\ state \in [Chunks -> {"uncompressed", "compressed", "flushed"}]

WriterTypes ==
  /\ writer \in Writers
  /\ writer.room >= AnchorRoom
  /\ writer.pc = "take" => writer.recv # <<>>
  /\ writer.pc \notin {"take", "write"} => writer.recv = <<>>
  /\ writer.pc = "write" => writer.chunk = writer.next /\ writer.next \in Chunks

Types == QueueTypes /\ WorkerTypes /\ ChunkTypes /\ WriterTypes

(* The places that hold items, and what they hold as one function.         *)
QueueAt(q, g) == <<"queue", q, g>>
RecvAt(w) == <<"recv", w, "in">>
SendAt(w, out) == <<"send", w, out>>
WriterAt == <<"writer", "reorder", "in">>
Places == ({"queue"} \X Queues \X Groups) \cup ({"recv"} \X Workers \X {"in"})
          \cup {p \in {"send"} \X Workers \X Queues : p[3] \in SendsTo(p[2])} \cup {WriterAt}

Belt == [p \in Places |-> IF p[1] = "queue" THEN queue[<<p[2], p[3]>>]
                          ELSE IF p[1] = "recv" THEN recv[p[2]]
                          ELSE IF p[1] = "send" THEN send[p[2]][p[3]]
                          ELSE writer.recv]

(* Before it is cut an item stands for the rest of a coarse chunk.         *)
Raw(p) == \/ p[1] = "queue" /\ p[2] = "refine"
          \/ p[1] = "recv" /\ p[2][1] = "refine"
Covers(p, x, k) == IF Raw(p) THEN x[1] = k[1] /\ x[2] <= k[2] ELSE x = k

At(belt, p, k) == \E n \in DOMAIN belt[p] : Covers(p, belt[p][n], k)
On(belt, k) == \E p \in Places : At(belt, p, k)
Once(belt) ==
  \A k \in Chunks : \A p \in Places : \A q \in Places :
  \A m \in DOMAIN belt[p] : \A n \in DOMAIN belt[q] :
     Covers(p, belt[p][m], k) /\ Covers(q, belt[q][n], k) => p = q /\ m = n

Before(k, l) == k[1] < l[1] \/ (k[1] = l[1] /\ k[2] < l[2])
Written(k) == Before(k, writer.next)
AtWriter(k) == \/ k \in writer.held
               \/ Written(k)
               \/ writer.pc = "write" /\ k = writer.chunk

(* A chunk that has been read is in one place.                             *)
PlaceInv ==
  /\ Once(Belt)
  /\ \A k \in Chunks : /\ On(Belt, k) => k[1] < sent
                       /\ AtWriter(k) => k[1] < sent /\ ~On(Belt, k)
                       /\ k[1] < sent => On(Belt, k) \/ AtWriter(k)
  /\ \A k \in writer.held : ~Written(k)
  /\ writer.pc = "write" => writer.chunk \notin writer.held

(* The size of a coarse chunk is known once Reorder has its last piece.    *)
BoundInv ==
  \A k \in Chunks : IsLastL2Chunk(k) =>
     writer.bound[k[1]] = IF AtWriter(k) THEN k[2] + 1 ELSE 0

(* A queue is terminated by those who put items into it, after the last.   *)
Terminators(q, g) == {w \in Workers : Terminates(w) = q /\ Qid(w) = g}
EndInv ==
  /\ \A g \in Groups :
        /\ ended[<<"refine", g>>] = IF sent > Len(Input) + g THEN 1 ELSE 0
        /\ \A q \in Queues \ {"refine"} :
              ended[<<q, g>>] = Cardinality({w \in Terminators(q, g) : pc[w] = "done"})
  /\ \A w \in Workers :
        /\ pc[w] # "work" => recv[w] = <<>> /\ Drained(Stage(w), Qid(w))
        /\ pc[w] = "done" => \A out \in SendsTo(w) : send[w][out] = <<>>

(* Reorder has found its last writer.tries queues drained.                 *)
TriesInv ==
  /\ writer.tries <= NQueues
  /\ writer.pc = "fetch" => writer.tries < NQueues
  /\ writer.pc \in {"take", "write"} => writer.tries = 0
  /\ writer.pc \in {"flush", "done"} => writer.tries = NQueues
  /\ \A g \in Groups :
        (IF g < writer.qid THEN writer.qid <= g + writer.tries
                           ELSE writer.qid + NQueues <= g + writer.tries)
        => Drained("reorder", g)

(* Where a chunk is says what is known of it.                              *)
ToDedup(p) == \/ p[1] = "queue" /\ p[2] \in {"refine", "dedup"}
              \/ p[1] = "recv" /\ p[2][1] \in {"refine", "dedup"}
              \/ p[1] = "send" /\ p[2][1] = "refine"
ToCompress(p) == \/ p[1] = "queue" /\ p[2] = "compress"
                 \/ p[1] = "recv" /\ p[2][1] = "compress"
                 \/ p[1] = "send" /\ p[3] = "compress"
New(k) == original[k] = NoChunk /\ state[k] = "uncompressed"
PhaseInv ==
  /\ \A k \in Chunks : \A p \in Places : At(Belt, p, k) =>
        /\ ToDedup(p) => New(k)
        /\ ToCompress(p) => original[k] = k /\ state[k] = "uncompressed"
        /\ ~ToDedup(p) => original[k] # NoChunk
  /\ \A k \in Chunks : /\ k[1] >= sent => New(k)
                       /\ AtWriter(k) => original[k] # NoChunk

(* Equal chunks have one original, and it is flushed when the first of     *)
(* them is written.                                                        *)
TableInv ==
  /\ \A k \in Chunks : original[k] # NoChunk => table[Content(k)] = original[k]
  /\ \A c \in Contents : table[c] # NoChunk =>
        Content(table[c]) = c /\ original[table[c]] = table[c]
  /\ \A o \in Chunks : state[o] # "uncompressed" => original[o] = o
  /\ \A o \in Chunks : state[o] = "flushed" <=>
        \E k \in Chunks : Written(k) /\ original[k] = o

(* The stream, coarse chunk by coarse chunk.                               *)
Heads ==
  CHOOSE f \in [0..Len(Input) -> Seq(Contents)] :
     /\ f[0] = <<>> /\ f[Len(Input)] = Stream
     /\ \A i \in L1 : f[i + 1] = f[i] \o Input[i + 1]
Pos(k) == Len(Heads[k[1]]) + k[2]

FileInv ==
  /\ file \in Seq([type : {"compress", "fingerprint"}, content : Contents])
  /\ Len(file) = Pos(writer.next)
  /\ \A n \in 1..Len(file) : file[n] = Archive!Record(n)

IInv == /\ Types /\ PlaceInv /\ BoundInv /\ EndInv /\ TriesInv
        /\ PhaseInv /\ TableInv /\ FileInv

-----------------------------------------------------------------------------
(* Numbers *)

LEMMA Division ==
  ASSUME NEW n \in Nat, NEW m \in Nat \ {0}
  PROVE  /\ n \div m \in Nat /\ n % m \in Nat /\ n % m < m
         /\ n = (m * (n \div m)) + (n % m)
  BY SMT

LEMMA MinOfTwo ==
  ASSUME NEW m \in Nat, NEW n \in Nat
  PROVE  /\ Min({m, n}) \in Nat
         /\ Min({m, n}) <= m /\ Min({m, n}) <= n
         /\ Min({m, n}) = m \/ Min({m, n}) = n
<1>1. \E x \in {m, n} : \A y \in {m, n} : x <= y
  OBVIOUS
<1> QED
  BY <1>1 DEF Min

LEMMA Least ==
  ASSUME NEW S \in SUBSET Nat, S # {}
  PROVE  \E x \in S : \A y \in S : x <= y
<1> DEFINE R == OpToRel(<, Nat)
<1>1. \A x, y \in Nat : x < y => <<x, y>> \in R
  BY DEF OpToRel
<1>2. IsWellFoundedOn(R, Nat)
  BY NatLessThanWellFounded
<1> HIDE DEF R
<1>3. PICK x \in S : \A y \in S : ~(<<y, x>> \in R)
  BY <1>2, WFMin
<1>4. \A y \in S : ~(y < x)
  BY <1>1, <1>3, Zenon
<1> QED
  BY <1>4

LEMMA ConcatElements ==
  ASSUME NEW S, NEW s \in Seq(S), NEW t \in Seq(S)
  PROVE  /\ s \o t \in Seq(S)
         /\ Len(s) \in Nat /\ Len(t) \in Nat
         /\ Len(s \o t) = Len(s) + Len(t)
         /\ \A n \in 1..Len(s) : (s \o t)[n] = s[n]
         /\ \A n \in 1..Len(t) : (s \o t)[Len(s) + n] = t[n]
<1>1. PICK l \in Nat : l = Len(s)
  BY LenProperties
<1>2. PICK m \in Nat : m = Len(t)
  BY LenProperties
<1>3. /\ s \o t \in Seq(S) /\ Len(s \o t) = l + m
      /\ \A i \in 1..l + m : (s \o t)[i] = IF i <= l THEN s[i] ELSE t[i - l]
  BY <1>1, <1>2, ConcatProperties
<1>4. \A n \in 1..l : n \in 1..l + m /\ n <= l
  OBVIOUS
<1>5. \A n \in 1..m : l + n \in 1..l + m /\ ~(l + n <= l) /\ (l + n) - l = n
  OBVIOUS
<1>6. \A n \in 1..m : (s \o t)[l + n] = t[n]
  BY <1>3, <1>5, Zenon
<1> QED
  BY <1>1, <1>2, <1>3, <1>4, <1>6

LEMMA Sizes ==
  /\ NThreads \in Nat \ {0} /\ ThreadsPerQueue \in Nat \ {0} /\ QueueSize \in Nat \ {0}
  /\ PerInsert \in Nat \ {0} /\ PerFetch \in Nat \ {0}
  BY SizesPositive

-----------------------------------------------------------------------------
(* The input and its chunks *)

LEMMA InputTypes ==
  /\ Len(Input) \in Nat
  /\ \A i \in L1 : /\ i \in Nat /\ i < Len(Input) /\ i + 1 \in DOMAIN Input
                   /\ Len(Input[i + 1]) \in Nat \ {0}
                   /\ DOMAIN Input[i + 1] = 1..Len(Input[i + 1])
                   /\ Input[i + 1] \in Seq(Contents)
<1> DEFINE C == UNION {Range(c) : c \in Range(Input)}
<1>1. Input \in Seq(Seq(C) \ {<<>>})
  BY InputIsCut
<1> HIDE DEF C
<1>2. Len(Input) \in Nat /\ DOMAIN Input = 1..Len(Input)
  BY <1>1
<1>3. ASSUME NEW i \in L1
      PROVE  /\ i \in Nat /\ i < Len(Input) /\ i + 1 \in DOMAIN Input
             /\ Len(Input[i + 1]) \in Nat \ {0}
             /\ DOMAIN Input[i + 1] = 1..Len(Input[i + 1])
             /\ Input[i + 1] \in Seq(Contents)
  <2>1. i \in Nat /\ i < Len(Input) /\ i + 1 \in DOMAIN Input
    BY <1>2 DEF L1
  <2>2. Input[i + 1] \in Seq(C) /\ Input[i + 1] # <<>>
    BY <1>1, <2>1
  <2>3. Len(Input[i + 1]) \in Nat \ {0} /\ DOMAIN Input[i + 1] = 1..Len(Input[i + 1])
    BY <2>2
  <2>4. ASSUME NEW n \in 1..Len(Input[i + 1])
        PROVE  Input[i + 1][n] \in Contents
    <3>1. n - 1 \in L2(i) /\ (n - 1) + 1 = n
      BY <2>3 DEF L2
    <3>2. <<i, n - 1>> \in Chunks
      BY <3>1 DEF Chunks
    <3>3. Content(<<i, n - 1>>) = Input[i + 1][n]
      BY <3>1 DEF Content
    <3> QED
      BY <3>2, <3>3 DEF Contents
  <2>5. Input[i + 1] \in Seq(Contents)
    BY <2>2, <2>3, <2>4
  <2> QED
    BY <2>1, <2>3, <2>5
<1> QED
  BY <1>2, <1>3

LEMMA ChunkTypesOf ==
  ASSUME NEW k \in Chunks
  PROVE  /\ k = <<k[1], k[2]>>
         /\ k[1] \in L1 /\ k[1] \in Nat /\ k[1] < Len(Input)
         /\ k[2] \in L2(k[1]) /\ k[2] \in Nat /\ k[2] < Len(Input[k[1] + 1])
         /\ Content(k) \in Contents
         /\ k # NoChunk
<1>1. PICK i \in L1 : k \in {i} \X L2(i)
  BY DEF Chunks
<1>2. k = <<k[1], k[2]>> /\ k[1] = i /\ k[2] \in L2(i)
  BY <1>1
<1>3. i \in Nat /\ i < Len(Input) /\ Len(Input[i + 1]) \in Nat
  BY InputTypes
<1>4. k[2] \in Nat /\ k[2] < Len(Input[i + 1])
  BY <1>2, <1>3 DEF L2
<1>5. Content(k) \in Contents
  BY DEF Contents
<1> QED
  BY <1>2, <1>3, <1>4, <1>5, NoChunkIsNone

LEMMA ChunkAt ==
  ASSUME NEW i \in L1, NEW j \in Nat, j < Len(Input[i + 1])
  PROVE  <<i, j>> \in Chunks
<1>1. Len(Input[i + 1]) \in Nat
  BY InputTypes
<1>2. j \in L2(i)
  BY <1>1 DEF L2
<1> QED
  BY <1>2 DEF Chunks

(* After a chunk comes the next of the same coarse chunk or the first of   *)
(* the next coarse chunk.                                                  *)
LEMMA ChunkOrNext ==
  ASSUME NEW k \in Chunks
  PROVE  /\ ~IsLastL2Chunk(k) => <<k[1], k[2] + 1>> \in Chunks
         /\ IsLastL2Chunk(k) => <<k[1] + 1, 0>> \in Positions
<1>1. /\ k[1] \in L1 /\ k[1] \in Nat /\ k[1] < Len(Input)
      /\ k[2] \in Nat /\ k[2] < Len(Input[k[1] + 1])
  BY ChunkTypesOf
<1>2. Len(Input[k[1] + 1]) \in Nat /\ Len(Input) \in Nat
  BY <1>1, InputTypes
<1>3. ASSUME ~IsLastL2Chunk(k) PROVE <<k[1], k[2] + 1>> \in Chunks
  <2>1. k[2] + 1 < Len(Input[k[1] + 1]) /\ k[2] + 1 \in Nat
    BY <1>1, <1>2, <1>3 DEF IsLastL2Chunk
  <2> QED
    BY <1>1, <2>1, ChunkAt
<1>4. <<k[1] + 1, 0>> \in Positions
  <2>1. CASE k[1] + 1 = Len(Input)
    BY <2>1 DEF Positions
  <2>2. CASE k[1] + 1 # Len(Input)
    <3>1. k[1] + 1 \in L1
      BY <1>1, <1>2, <2>2 DEF L1
    <3>2. 0 < Len(Input[(k[1] + 1) + 1])
      BY <3>1, InputTypes
    <3> QED
      BY <3>1, <3>2, ChunkAt DEF Positions
  <2> QED
    BY <2>1, <2>2
<1> QED
  BY <1>3, <1>4

LEMMA PositionTypes ==
  ASSUME NEW k \in Positions
  PROVE  /\ k = <<k[1], k[2]>>
         /\ k[1] \in Nat /\ k[1] <= Len(Input) /\ k[1] \in 0..Len(Input)
         /\ k[2] \in Nat
  BY ChunkTypesOf, InputTypes DEF Positions

(* A set of chunks has a first one, which Reorder finds.                   *)
LEMMA FirstExists ==
  ASSUME NEW H \in SUBSET Chunks, H # {}
  PROVE  FirstHeld(H) \in H /\ \A l \in H : LessEq(FirstHeld(H), l)
<1> DEFINE I == {k[1] : k \in H}
<1>1. \A k \in H : k = <<k[1], k[2]>> /\ k[1] \in Nat /\ k[2] \in Nat
  BY ChunkTypesOf
<1>2. PICK i \in I : \A x \in I : i <= x
  <2>1. I \in SUBSET Nat /\ I # {}
    BY <1>1
  <2> HIDE DEF I
  <2> QED
    BY <2>1, Least
<1> DEFINE J == {k[2] : k \in {l \in H : l[1] = i}}
<1>3. PICK j \in J : \A x \in J : j <= x
  <2>1. J \in SUBSET Nat /\ J # {}
    BY <1>1, <1>2
  <2> HIDE DEF J
  <2> QED
    BY <2>1, Least
<1>4. PICK k \in H : k[1] = i /\ k[2] = j
  BY <1>3
<1>5. ASSUME NEW l \in H PROVE LessEq(k, l)
  <2>1. i <= l[1] /\ (l[1] = i => j <= l[2])
    BY <1>2, <1>3
  <2> QED
    BY <1>1, <1>4, <2>1 DEF LessEq
<1> QED
  BY <1>5 DEF FirstHeld

LEMMA BeforeOrder ==
  ASSUME NEW k \in Positions, NEW l \in Positions
  PROVE  /\ ~Before(k, k)
         /\ Before(k, l) \/ Before(l, k) \/ k = l
         /\ Before(k, l) => ~Before(l, k)
         /\ LessEq(k, l) => Before(k, l) \/ k = l
  BY PositionTypes DEF Before, LessEq

-----------------------------------------------------------------------------
(* The stream: Heads[i] is what the first i coarse chunks come to.         *)

LEMMA ConcatenationExists ==
  \E f : f = [i \in 1..Len(Input) |-> IF i = 1 THEN Input[i] ELSE f[i - 1] \o Input[i]]
<1> DEFINE Upto(n) == \E f : f = [i \in 1..n |-> IF i = 1 THEN Input[i] ELSE f[i - 1] \o Input[i]]
           Bad == {n \in 0..Len(Input) : ~Upto(n)}
<1>1. Upto(0)
  <2>1. [i \in 1..0 |-> {}] = [i \in 1..0 |-> IF i = 1 THEN Input[i] ELSE [j \in 1..0 |-> {}][i - 1] \o Input[i]]
    OBVIOUS
  <2> QED
    BY <2>1
<1>2. ASSUME NEW n \in Nat, Upto(n)
      PROVE  Upto(n + 1)
  <2>1. PICK f : f = [i \in 1..n |-> IF i = 1 THEN Input[i] ELSE f[i - 1] \o Input[i]]
    BY <1>2
  <2> DEFINE g == [i \in 1..n + 1 |-> IF i <= n THEN f[i] ELSE
                                      IF i = 1 THEN Input[i] ELSE f[i - 1] \o Input[i]]
  <2>2. ASSUME NEW i \in 1..n + 1
        PROVE  g[i] = IF i = 1 THEN Input[i] ELSE g[i - 1] \o Input[i]
    <3>1. CASE i <= n
      <4>1. g[i] = f[i] /\ (i # 1 => g[i - 1] = f[i - 1])
        BY <3>1
      <4>2. i \in 1..n
        BY <3>1
      <4>3. f[i] = IF i = 1 THEN Input[i] ELSE f[i - 1] \o Input[i]
        BY <2>1, <4>2
      <4> QED
        BY <4>1, <4>3
    <3>2. CASE i = n + 1
      <4>1. i # 1 => g[i - 1] = f[i - 1]
        BY <3>2
      <4> QED
        BY <3>2, <4>1
    <3> QED
      BY <3>1, <3>2
  <2>3. g = [i \in 1..n + 1 |-> IF i = 1 THEN Input[i] ELSE g[i - 1] \o Input[i]]
    BY <2>2
  <2> HIDE DEF g
  <2> QED
    BY <2>3
<1> HIDE DEF Upto
<1>3. Len(Input) \in Nat
  BY InputTypes
<1>4. Bad = {}
  <2> SUFFICES ASSUME Bad # {}
               PROVE  FALSE
    OBVIOUS
  <2>1. PICK n \in Bad : \A m \in Bad : n <= m
    BY Least, Bad \in SUBSET Nat
  <2>2. n \in Nat /\ n # 0 /\ ~Upto(n)
    BY <1>1
  <2>3. n - 1 \in 0..Len(Input) /\ ~(n <= n - 1)
    BY <2>2
  <2>4. Upto(n - 1)
    BY <2>1, <2>3
  <2>5. Upto((n - 1) + 1)
    BY <1>2, <2>3, <2>4
  <2>6. (n - 1) + 1 = n
    BY <2>2
  <2> QED
    BY <2>2, <2>5, <2>6
<1>5. Upto(Len(Input))
  BY <1>3, <1>4
<1> QED
  BY <1>5 DEF Upto

LEMMA FlattenIs ==
  ASSUME Len(Input) # 0
  PROVE  \E f : /\ Stream = f[Len(Input)]
                /\ f = [i \in 1..Len(Input) |-> IF i = 1 THEN Input[i] ELSE f[i - 1] \o Input[i]]
<1> DEFINE f == CHOOSE g : g = [i \in 1..Len(Input) |-> IF i = 1 THEN Input[i] ELSE g[i - 1] \o Input[i]]
<1>1. Stream = f[Len(Input)]
  BY DEF Stream, FlattenSeq
<1>2. f = [i \in 1..Len(Input) |-> IF i = 1 THEN Input[i] ELSE f[i - 1] \o Input[i]]
  BY ConcatenationExists, Zenon
<1> HIDE DEF f
<1> QED
  BY <1>1, <1>2

LEMMA HeadsAre ==
  /\ Heads \in [0..Len(Input) -> Seq(Contents)]
  /\ Heads[0] = <<>> /\ Heads[Len(Input)] = Stream
  /\ \A i \in L1 : Heads[i + 1] = Heads[i] \o Input[i + 1]
<1> DEFINE Is(f) == /\ f[0] = <<>> /\ f[Len(Input)] = Stream
                    /\ \A i \in L1 : f[i + 1] = f[i] \o Input[i + 1]
<1>1. <<>> \in Seq(Contents)
  BY EmptySeq
<1>2. \E h \in [0..Len(Input) -> Seq(Contents)] : Is(h)
  <2>1. CASE Len(Input) = 0
    <3>1. Input = <<>>
      BY <2>1, InputIsCut
    <3>2. Stream = <<>>
      BY <2>1, <3>1 DEF Stream, FlattenSeq
    <3> DEFINE h == [i \in 0..Len(Input) |-> <<>>]
    <3>3. h \in [0..Len(Input) -> Seq(Contents)]
      BY <1>1
    <3>4. Is(h)
      BY <2>1, <3>2 DEF L1
    <3> QED
      BY <3>3, <3>4
  <2>2. CASE Len(Input) # 0
    <3>1. PICK f : /\ Stream = f[Len(Input)]
                   /\ f = [i \in 1..Len(Input) |-> IF i = 1 THEN Input[i] ELSE f[i - 1] \o Input[i]]
      BY <2>2, FlattenIs
    <3>2. ASSUME NEW i \in 1..Len(Input)
          PROVE  f[i] = IF i = 1 THEN Input[i] ELSE f[i - 1] \o Input[i]
      BY <3>1
    <3>3. Len(Input) \in Nat /\ \A i \in 1..Len(Input) : Input[i] \in Seq(Contents)
      <4>1. \A i \in 1..Len(Input) : i - 1 \in L1 /\ (i - 1) + 1 = i
        BY InputTypes DEF L1
      <4> QED
        BY <4>1, InputTypes
    <3> DEFINE Bad == {n \in 1..Len(Input) : f[n] \notin Seq(Contents)}
    <3>4. Bad = {}
      <4> SUFFICES ASSUME Bad # {}
                   PROVE  FALSE
        OBVIOUS
      <4>1. PICK n \in Bad : \A m \in Bad : n <= m
        BY <3>3, Least, Bad \in SUBSET Nat
      <4>2. f[n] = IF n = 1 THEN Input[n] ELSE f[n - 1] \o Input[n]
        BY <3>2
      <4>3. n # 1
        BY <3>3, <4>2
      <4>4. n - 1 \in 1..Len(Input) /\ ~(n <= n - 1)
        BY <3>3, <4>3
      <4>5. f[n - 1] \in Seq(Contents)
        BY <4>1, <4>4
      <4>6. f[n - 1] \o Input[n] \in Seq(Contents)
        BY <3>3, <4>5, ConcatProperties
      <4> QED
        BY <4>2, <4>3, <4>6
    <3> DEFINE h == [i \in 0..Len(Input) |-> IF i = 0 THEN <<>> ELSE f[i]]
    <3>5. h \in [0..Len(Input) -> Seq(Contents)]
      BY <1>1, <3>3, <3>4
    <3>6. h[0] = <<>> /\ h[Len(Input)] = Stream
      BY <2>2, <3>1, <3>3
    <3>7. ASSUME NEW i \in L1 PROVE h[i + 1] = h[i] \o Input[i + 1]
      <4>1. i \in Nat /\ i + 1 \in 1..Len(Input) /\ (i + 1) - 1 = i /\ i + 1 # 0
        BY <3>3 DEF L1
      <4>2. h[i + 1] = f[i + 1] /\ (i # 0 => h[i] = f[i]) /\ (i = 0 => h[i] = <<>>)
        BY <4>1, <3>3
      <4>3. f[i + 1] = IF i + 1 = 1 THEN Input[i + 1] ELSE f[i] \o Input[i + 1]
        BY <3>2, <4>1
      <4>4. <<>> \o Input[i + 1] = Input[i + 1]
        BY <3>3, <4>1, ConcatEmptySeq
      <4> QED
        BY <4>1, <4>2, <4>3, <4>4
    <3> HIDE DEF h
    <3>8. Is(h)
      BY <3>6, <3>7
    <3> QED
      BY <3>5, <3>8
  <2> QED
    BY <2>1, <2>2
<1>3. Heads = CHOOSE f \in [0..Len(Input) -> Seq(Contents)] : Is(f)
  BY DEF Heads
<1> HIDE DEF Is
<1>4. Heads \in [0..Len(Input) -> Seq(Contents)] /\ Is(Heads)
  BY <1>2, <1>3
<1> QED
  BY <1>4 DEF Is

(* How the next head continues the one before.                             *)
LEMMA HeadNext ==
  ASSUME NEW i \in L1
  PROVE  /\ Heads[i] \in Seq(Contents) /\ Heads[i + 1] \in Seq(Contents)
         /\ Len(Heads[i]) \in Nat
         /\ Len(Heads[i + 1]) = Len(Heads[i]) + Len(Input[i + 1])
         /\ \A n \in 1..Len(Heads[i]) : Heads[i + 1][n] = Heads[i][n]
         /\ \A n \in 1..Len(Input[i + 1]) : Heads[i + 1][Len(Heads[i]) + n] = Input[i + 1][n]
<1>1. i \in 0..Len(Input) /\ i + 1 \in 0..Len(Input)
  BY InputTypes
<1>2. /\ Heads[i] \in Seq(Contents) /\ Heads[i + 1] \in Seq(Contents)
      /\ Heads[i + 1] = Heads[i] \o Input[i + 1]
  BY <1>1, HeadsAre
<1>3. Input[i + 1] \in Seq(Contents)
  BY InputTypes
<1>4. PICK s \in Seq(Contents) : s = Heads[i]
  BY <1>2
<1>5. PICK t \in Seq(Contents) : t = Input[i + 1]
  BY <1>3
<1>6. PICK u : u = s \o t
  OBVIOUS
<1>7. /\ Len(s) \in Nat /\ Len(u) = Len(s) + Len(t)
      /\ \A n \in 1..Len(s) : u[n] = s[n]
      /\ \A n \in 1..Len(t) : u[Len(s) + n] = t[n]
  BY <1>6, ConcatElements
<1>8. Heads[i + 1] = u
  BY <1>2, <1>4, <1>5, <1>6
<1> QED
  BY <1>2, <1>4, <1>5, <1>7, <1>8, Zenon

LEMMA HeadGrows ==
  ASSUME NEW i \in 0..Len(Input), NEW j \in 0..Len(Input), i <= j
  PROVE  /\ Len(Heads[i]) \in Nat /\ Len(Heads[j]) \in Nat
         /\ Len(Heads[i]) <= Len(Heads[j])
         /\ \A n \in 1..Len(Heads[i]) : Heads[j][n] = Heads[i][n]
<1> DEFINE Good(x) == /\ Len(Heads[i]) <= Len(Heads[x])
                      /\ \A n \in 1..Len(Heads[i]) : Heads[x][n] = Heads[i][n]
           Bad == {x \in i..Len(Input) : ~Good(x)}
<1>1. Len(Input) \in Nat /\ \A x \in 0..Len(Input) : Len(Heads[x]) \in Nat
  BY InputTypes, HeadsAre, LenProperties
<1>2. Good(i)
  BY <1>1
<1>3. Bad = {}
  <2> SUFFICES ASSUME Bad # {} PROVE FALSE
    OBVIOUS
  <2>1. PICK x \in Bad : \A y \in Bad : x <= y
    BY <1>1, Least, Bad \in SUBSET Nat
  <2>2. x # i /\ x \in Nat /\ i \in Nat
    BY <1>1, <1>2
  <2>3. x - 1 \in i..Len(Input) /\ ~(x <= x - 1) /\ x - 1 \in L1 /\ (x - 1) + 1 = x
    BY <1>1, <2>2 DEF L1
  <2>4. Good(x - 1)
    BY <2>1, <2>3
  <2>5. /\ Len(Heads[x]) = Len(Heads[x - 1]) + Len(Input[x])
        /\ Len(Heads[x - 1]) \in Nat /\ Len(Input[x]) \in Nat
        /\ \A n \in 1..Len(Heads[x - 1]) : Heads[x][n] = Heads[x - 1][n]
    BY <2>3, HeadNext, InputTypes
  <2>6. \A n \in 1..Len(Heads[i]) : n \in 1..Len(Heads[x - 1])
    BY <1>1, <2>4, <2>5
  <2>7. Len(Heads[i]) <= Len(Heads[x])
    <3>1. Len(Heads[i]) \in Nat /\ Len(Heads[i]) <= Len(Heads[x - 1])
      BY <1>1, <2>4
    <3>2. PICK a \in Nat, b \in Nat, c \in Nat : a = Len(Heads[i]) /\ b = Len(Heads[x - 1]) /\ c = Len(Input[x])
      BY <2>5, <3>1, Zenon
    <3>3. Len(Heads[x]) = b + c /\ a <= b
      BY <2>5, <3>1, <3>2, Zenon
    <3>4. a <= b + c
      BY <3>3
    <3> QED
      BY <3>2, <3>3, <3>4, Zenon
  <2>8. Good(x)
    BY <2>4, <2>5, <2>6, <2>7
  <2> QED
    BY <2>8
<1>4. Good(j)
  BY <1>1, <1>3
<1> QED
  BY <1>1, <1>4

(* The position of a chunk in the stream.                                  *)
LEMMA PosOfChunk ==
  ASSUME NEW k \in Chunks
  PROVE  /\ Pos(k) \in Nat /\ Pos(k) < Len(Stream) /\ Len(Stream) \in Nat
         /\ Stream \in Seq(Contents)
         /\ Stream[Pos(k) + 1] = Content(k)
         /\ Pos(k) < Len(Heads[k[1] + 1])
<1>1. /\ k[1] \in L1 /\ k[1] \in Nat /\ k[1] + 1 \in 0..Len(Input)
      /\ k[2] \in Nat /\ k[2] < Len(Input[k[1] + 1])
      /\ Len(Input) \in Nat /\ Len(Input) \in 0..Len(Input)
  BY ChunkTypesOf, InputTypes
<1>2. PICK h : h = Len(Heads[k[1]])
  OBVIOUS
<1>3. PICK c : c = Len(Input[k[1] + 1])
  OBVIOUS
<1>4. /\ h \in Nat /\ c \in Nat
      /\ Len(Heads[k[1] + 1]) = h + c
      /\ \A n \in 1..c : Heads[k[1] + 1][h + n] = Input[k[1] + 1][n]
  BY <1>1, <1>2, <1>3, HeadNext, InputTypes
<1>5. /\ Len(Stream) \in Nat /\ h + c <= Len(Stream)
      /\ \A n \in 1..h + c : Stream[n] = Heads[k[1] + 1][n]
  <2>1. k[1] + 1 <= Len(Input)
    BY <1>1
  <2> QED
    BY <1>1, <1>4, <2>1, HeadGrows, HeadsAre
<1>6. PICK j \in Nat : j = k[2] /\ j < c
  BY <1>1, <1>3
<1>7. Pos(k) = h + j
  BY <1>2, <1>6 DEF Pos
<1>8. Stream[Pos(k) + 1] = Content(k)
  <2>1. j + 1 \in 1..c /\ h + (j + 1) \in 1..h + c /\ (h + j) + 1 = h + (j + 1)
    <3>1. h \in Nat /\ c \in Nat /\ j < c
      BY <1>4, <1>6
    <3> QED
      BY <3>1
  <2>2. Heads[k[1] + 1][h + (j + 1)] = Input[k[1] + 1][j + 1]
    BY <1>4, <2>1
  <2>3. Stream[h + (j + 1)] = Heads[k[1] + 1][h + (j + 1)]
    BY <1>5, <2>1
  <2>4. Content(k) = Input[k[1] + 1][j + 1]
    BY <1>6 DEF Content
  <2> QED
    BY <1>7, <2>1, <2>2, <2>3, <2>4
<1>9. Pos(k) \in Nat /\ Pos(k) < h + c
  <2>1. h \in Nat /\ c \in Nat /\ j \in Nat /\ j < c
    BY <1>4, <1>6
  <2>2. h + j \in Nat /\ h + j < h + c
    BY <2>1
  <2> QED
    BY <1>7, <2>2
<1>10. Pos(k) < Len(Stream)
  BY <1>4, <1>5, <1>9
<1>11. Stream \in Seq(Contents)
  BY <1>1, HeadsAre
<1> QED
  BY <1>4, <1>5, <1>8, <1>9, <1>10, <1>11, Zenon

LEMMA PosOrder ==
  ASSUME NEW k \in Chunks, NEW l \in Positions
  PROVE  Before(k, l) <=> Pos(k) < Pos(l)
<1>1. /\ k[1] \in Nat /\ k[2] \in Nat /\ l[1] \in Nat /\ l[2] \in Nat
      /\ k[1] + 1 \in 0..Len(Input) /\ k[1] \in 0..Len(Input) /\ l[1] \in 0..Len(Input)
      /\ l[1] < Len(Input) => l \in Chunks
  BY ChunkTypesOf, PositionTypes, InputTypes DEF Positions
<1>2. Pos(k) \in Nat /\ Pos(k) < Len(Heads[k[1] + 1])
  BY PosOfChunk
<1>3. Len(Heads[l[1]]) \in Nat /\ Len(Heads[k[1]]) \in Nat
  BY <1>1, HeadsAre, LenProperties
<1>4. Pos(l) = Len(Heads[l[1]]) + l[2] /\ Pos(k) = Len(Heads[k[1]]) + k[2]
  BY DEF Pos
<1>5. CASE k[1] < l[1]
  <2>1. Len(Heads[k[1] + 1]) <= Len(Heads[l[1]]) /\ Len(Heads[k[1] + 1]) \in Nat
    BY <1>1, <1>5, HeadGrows
  <2>2. Pos(k) < Pos(l)
    <3>1. PICK x \in Nat, y \in Nat, z \in Nat :
             /\ x = Len(Heads[k[1] + 1]) /\ y = Len(Heads[l[1]]) /\ z = l[2]
             /\ x <= y /\ Pos(k) < x /\ Pos(l) = y + z
      BY <1>1, <1>2, <1>3, <1>4, <2>1, Zenon
    <3>2. PICK m \in Nat : m = Pos(k)
      BY <1>2
    <3>3. m < y + z
      BY <3>1, <3>2
    <3> QED
      BY <3>1, <3>2, <3>3
  <2> QED
    BY <1>1, <1>5, <2>2 DEF Before
<1>6. CASE k[1] = l[1]
  BY <1>1, <1>3, <1>4, <1>6 DEF Before
<1>7. CASE l[1] < k[1]
  <2>1. l \in Chunks
    BY <1>1, <1>7
  <2>2. Pos(l) \in Nat /\ Pos(l) < Len(Heads[l[1] + 1]) /\ l[1] + 1 \in 0..Len(Input)
    <3>1. Pos(l) \in Nat /\ Pos(l) < Len(Heads[l[1] + 1])
      BY <2>1, PosOfChunk
    <3>2. l[1] \in Nat /\ l[1] < Len(Input) /\ Len(Input) \in Nat
      BY <2>1, ChunkTypesOf, InputTypes
    <3> QED
      BY <3>1, <3>2
  <2>3. Len(Heads[l[1] + 1]) <= Len(Heads[k[1]]) /\ Len(Heads[l[1] + 1]) \in Nat
    BY <1>1, <1>7, <2>2, HeadGrows
  <2>4. ~(Pos(k) < Pos(l))
    <3>1. PICK x \in Nat, y \in Nat, z \in Nat :
             /\ x = Len(Heads[l[1] + 1]) /\ y = Len(Heads[k[1]]) /\ z = k[2]
             /\ x <= y /\ Pos(l) < x /\ Pos(k) = y + z
      BY <1>1, <1>3, <1>4, <2>2, <2>3, Zenon
    <3>2. PICK m \in Nat : m = Pos(l)
      BY <2>2
    <3>3. ~(y + z < m)
      BY <3>1, <3>2
    <3> QED
      BY <3>1, <3>2, <3>3
  <2> QED
    BY <1>1, <1>7, <2>4 DEF Before
<1> QED
  BY <1>1, <1>5, <1>6, <1>7

(* Every place in the stream is that of a chunk.                           *)
LEMMA PosOnto ==
  ASSUME NEW n \in 1..Len(Stream)
  PROVE  \E k \in Chunks : Pos(k) + 1 = n
<1>1. /\ Len(Input) \in Nat /\ Len(Input) \in 0..Len(Input) /\ 0 \in 0..Len(Input)
      /\ \A i \in 0..Len(Input) : Len(Heads[i]) \in Nat
      /\ Heads[Len(Input)] = Stream /\ Len(Heads[0]) = 0
  BY InputTypes, HeadsAre, LenProperties, EmptySeq
<1> DEFINE I == {i \in 0..Len(Input) : n <= Len(Heads[i])}
<1>2. I \in SUBSET Nat /\ Len(Input) \in I
  BY <1>1
<1>3. PICK i \in I : \A x \in I : i <= x
  BY <1>2, Least
<1>4. n \in Nat /\ n >= 1 /\ i \in 0..Len(Input) /\ n <= Len(Heads[i])
  BY <1>1, <1>3
<1>5. i # 0
  BY <1>1, <1>4
<1>6. i - 1 \in L1 /\ (i - 1) + 1 = i /\ ~(i <= i - 1) /\ i - 1 \in 0..Len(Input)
  BY <1>1, <1>4, <1>5 DEF L1
<1>7. ~(n <= Len(Heads[i - 1]))
  BY <1>3, <1>6
<1>8. Len(Heads[i]) = Len(Heads[i - 1]) + Len(Input[i]) /\ Len(Input[i]) \in Nat
  BY <1>6, HeadNext, InputTypes
<1>9. PICK h \in Nat, c \in Nat : h = Len(Heads[i - 1]) /\ c = Len(Input[i])
  BY <1>1, <1>6, <1>8
<1>10. (n - h) - 1 \in Nat /\ (n - h) - 1 < c /\ (h + ((n - h) - 1)) + 1 = n
  <2>1. n <= h + c /\ ~(n <= h)
    BY <1>4, <1>7, <1>8, <1>9
  <2>2. n \in Nat /\ h \in Nat /\ c \in Nat
    BY <1>4, <1>9
  <2> QED
    BY <2>1, <2>2
<1> DEFINE k == <<i - 1, (n - h) - 1>>
<1>11. k \in Chunks
  BY <1>6, <1>9, <1>10, ChunkAt
<1>12. Pos(k) + 1 = n
  BY <1>9, <1>10 DEF Pos
<1> QED
  BY <1>11, <1>12

LEMMA PosNext ==
  ASSUME NEW k \in Chunks
  PROVE  /\ Pos(<<k[1], k[2] + 1>>) = Pos(k) + 1
         /\ IsLastL2Chunk(k) => Pos(<<k[1] + 1, 0>>) = Pos(k) + 1
<1>1. k[1] \in L1 /\ k[1] \in Nat /\ k[2] \in Nat
  BY ChunkTypesOf
<1>2. PICK h \in Nat, c \in Nat : h = Len(Heads[k[1]]) /\ c = Len(Input[k[1] + 1])
  BY <1>1, HeadNext, InputTypes
<1>3. Len(Heads[k[1] + 1]) = h + c
  BY <1>1, <1>2, HeadNext
<1>4. (h + k[2]) + 1 = h + (k[2] + 1) /\ (k[2] = c - 1 => (h + c) + 0 = (h + k[2]) + 1)
  <2>1. h \in Nat /\ c \in Nat /\ k[2] \in Nat
    BY <1>1, <1>2
  <2> QED
    BY <2>1
<1> QED
  BY <1>2, <1>3, <1>4 DEF Pos, IsLastL2Chunk

-----------------------------------------------------------------------------
(* Groups of threads and queues *)

LEMMA TimesMonotone ==
  ASSUME NEW m \in Nat, NEW i \in Nat, NEW j \in Nat, i < j
  PROVE  (m * i) + m <= m * j /\ m * i \in Nat /\ m * j \in Nat
<1>1. m * j = (m * i) + (m * (j - i)) /\ j - i \in Nat \ {0}
  BY SMT
<1>2. m <= m * (j - i)
  BY <1>1, SMT
<1>3. m * i \in Nat /\ m * j \in Nat
  BY SMT
<1> QED
  BY <1>1, <1>2, <1>3

LEMMA QuotientIs ==
  ASSUME NEW t \in Nat, NEW m \in Nat \ {0}, NEW g \in Nat
  PROVE  t \div m = g <=> m * g <= t /\ t < (m * g) + m
<1>1. PICK d \in Nat, e \in Nat : d = t \div m /\ e < m /\ t = (m * d) + e
  BY Division
<1>2. m * d \in Nat /\ m * g \in Nat
  BY SMT
<1>3. CASE d = g
  BY <1>1, <1>2, <1>3
<1>4. CASE d < g
  <2>1. (m * d) + m <= m * g
    BY <1>4, TimesMonotone
  <2>2. ~(m * g <= t)
    BY <1>1, <1>2, <2>1
  <2> QED
    BY <1>1, <1>4, <2>2
<1>5. CASE g < d
  <2>1. (m * g) + m <= m * d
    BY <1>5, TimesMonotone
  <2>2. ~(t < (m * g) + m)
    BY <1>1, <1>2, <2>1
  <2> QED
    BY <1>1, <1>5, <2>2
<1> QED
  BY <1>1, <1>3, <1>4, <1>5

LEMMA QueueNumbers ==
  /\ NQueues \in Nat \ {0}
  /\ Groups \subseteq Nat
  /\ 0 \in Groups
<1>1. PICK q \in Nat, r \in Nat : /\ q = NThreads \div ThreadsPerQueue /\ r = NThreads % ThreadsPerQueue
                                  /\ NThreads = (ThreadsPerQueue * q) + r
  BY Sizes, Division
<1>2. q = 0 /\ r = 0 => NThreads = 0
  BY <1>1, Sizes
<1>3. NQueues \in Nat \ {0}
  BY <1>1, <1>2, Sizes DEF NQueues
<1> QED
  BY <1>3 DEF Groups

(* The threads of a group are an interval, as long as NProducers says.     *)
LEMMA GroupIsInterval ==
  ASSUME NEW g \in Groups, NEW q \in Queues \ {"refine"}
  PROVE  /\ NProducers(q, g) \in Nat \ {0}
         /\ \E a \in Nat : \A t \in Int :
              t \in 0..NThreads - 1 /\ t \div ThreadsPerQueue = g
              <=> t \in a..a + NProducers(q, g) - 1
<1>1. PICK N \in Nat, T \in Nat : N = NThreads /\ T = ThreadsPerQueue /\ N # 0 /\ T # 0
  BY Sizes
<1>2. PICK d \in Nat, r \in Nat : d = N \div T /\ r = N % T /\ r < T /\ N = (T * d) + r
  BY <1>1, Division
<1>3. PICK p : p = NProducers(q, g)
  OBVIOUS
<1>4. g \in Nat /\ g < NQueues
  BY QueueNumbers DEF Groups
<1>5. PICK a \in Nat : a = T * g
  BY <1>4, SMT
<1>6. T * d \in Nat
  BY SMT
<1>7. /\ p \in Nat \ {0}
      /\ \/ p = T /\ a + T <= N
         \/ p < T /\ a + p = N
  <2>1. CASE r = 0
    <3>1. NQueues = d
      BY <1>1, <1>2, <2>1 DEF NQueues
    <3>2. a + T <= T * d
      BY <1>4, <1>5, <3>1, TimesMonotone
    <3>3. p = T
      BY <1>1, <1>2, <1>3, <2>1 DEF NProducers
    <3> QED
      BY <1>1, <1>2, <1>6, <2>1, <3>2, <3>3
  <2>2. CASE r # 0 /\ g = d
    <3>1. NQueues = d + 1
      BY <1>1, <1>2, <2>2 DEF NQueues
    <3>2. p = r
      BY <1>1, <1>2, <1>3, <2>2, <3>1 DEF NProducers
    <3> QED
      BY <1>2, <1>5, <1>6, <2>2, <3>2
  <2>3. CASE r # 0 /\ g # d
    <3>1. NQueues = d + 1
      BY <1>1, <1>2, <2>3 DEF NQueues
    <3>2. g < d
      BY <1>4, <2>3, <3>1
    <3>3. p = T
      BY <1>1, <1>2, <1>3, <1>4, <3>1, <3>2 DEF NProducers
    <3>4. a + T <= T * d
      BY <1>4, <1>5, <3>2, TimesMonotone
    <3> QED
      BY <1>1, <1>2, <1>6, <3>3, <3>4
  <2> QED
    BY <2>1, <2>2, <2>3
<1>8. ASSUME NEW t \in Int
      PROVE  t \in 0..N - 1 /\ t \div T = g <=> t \in a..a + p - 1
  <2>1. CASE t \in Nat
    <3>1. t \div T = g <=> a <= t /\ t < a + T
      BY <1>1, <1>4, <1>5, <2>1, QuotientIs
    <3> QED
      BY <1>1, <1>7, <2>1, <3>1
  <2>2. CASE t \notin Nat
    BY <1>7, <2>2
  <2> QED
    BY <2>1, <2>2
<1> QED
  BY <1>1, <1>3, <1>7, <1>8

LEMMA WorkerTypesOf ==
  ASSUME NEW w \in Workers
  PROVE  /\ w = <<w[1], w[2]>>
         /\ Stage(w) \in Stages /\ Stage(w) \in Queues /\ w[2] \in 0..NThreads - 1
         /\ SendsTo(w) \subseteq Queues \ {"refine"}
         /\ Terminates(w) \in SendsTo(w)
         /\ Qid(w) \in Groups
<1>1. w = <<w[1], w[2]>> /\ Stage(w) \in Stages /\ w[2] \in 0..NThreads - 1
  BY DEF Workers, Stage
<1>2. /\ Stage(w) \in Queues
      /\ SendsTo(w) \subseteq Queues \ {"refine"} /\ Terminates(w) \in SendsTo(w)
  BY <1>1 DEF Stages, Queues, SendsTo, Terminates
<1>3. PICK N \in Nat, T \in Nat : N = NThreads /\ T = ThreadsPerQueue /\ N # 0 /\ T # 0
  BY Sizes
<1>4. PICK t \in Nat : t = w[2] /\ t < N
  BY <1>1, <1>3
<1>5. PICK d \in Nat, r \in Nat : d = N \div T /\ r = N % T /\ r < T /\ N = (T * d) + r
  BY <1>3, Division
<1>6. PICK g \in Nat, e \in Nat : g = t \div T /\ e = t % T /\ e < T /\ t = (T * g) + e
  <2>1. t \in Nat /\ T \in Nat \ {0}
    BY <1>3, <1>4
  <2>2. t \div T \in Nat /\ t % T \in Nat /\ t % T < T /\ t = (T * (t \div T)) + (t % T)
    BY <2>1, Division, Zenon
  <2> QED
    BY <2>2, Zenon
<1>7. g < d + 1
  <2>1. CASE g > d
    <3>1. (T * d) + T <= T * g /\ T * d \in Nat /\ T * g \in Nat
      BY <2>1, TimesMonotone
    <3> QED
      BY <1>4, <1>5, <1>6, <3>1
  <2> QED
    BY <2>1
<1>8. g = d => r # 0
  <2>1. PICK x \in Nat : x = T * d
    BY SMT
  <2>2. N = x + r
    BY <1>5, <2>1
  <2>3. g = d => t = x + e
    BY <1>6, <2>1
  <2> QED
    BY <1>4, <2>2, <2>3
<1>9. g \in 0..NQueues - 1
  BY <1>3, <1>5, <1>7, <1>8 DEF NQueues
<1> QED
  BY <1>1, <1>2, <1>3, <1>4, <1>6, <1>9 DEF Qid, Groups

(* Each stage has a worker in each group.                                  *)
LEMMA GroupHasWorkers ==
  ASSUME NEW s \in Stages, NEW g \in Groups
  PROVE  \E w \in Workers : Stage(w) = s /\ Qid(w) = g
<1>1. /\ NProducers("reorder", g) \in Nat \ {0}
      /\ \E a \in Nat : \A t \in Int :
              t \in 0..NThreads - 1 /\ t \div ThreadsPerQueue = g
              <=> t \in a..a + NProducers("reorder", g) - 1
  BY GroupIsInterval DEF Queues
<1>2. PICK a \in Nat : a \in 0..NThreads - 1 /\ a \div ThreadsPerQueue = g
  BY <1>1
<1>3. <<s, a>> \in Workers
  BY <1>2 DEF Workers
<1> QED
  BY <1>2, <1>3 DEF Stage, Qid

(* As many threads terminate a queue as it counts producers.               *)
LEMMA TerminatorCount ==
  ASSUME NEW q \in Queues \ {"refine"}, NEW g \in Groups
  PROVE  /\ IsFiniteSet(Terminators(q, g))
         /\ Cardinality(Terminators(q, g)) = NProducers(q, g)
         /\ NProducers(q, g) \in Nat \ {0}
<1>1. PICK p \in Nat \ {0} : p = NProducers(q, g)
  BY GroupIsInterval
<1>2. PICK a \in Nat : \A t \in Int : t \in 0..NThreads - 1 /\ t \div ThreadsPerQueue = g
                                      <=> t \in a..a + p - 1
  BY <1>1, GroupIsInterval
<1>3. PICK s \in Stages : \A r \in Stages :
          (CASE r = "refine" -> "dedup" [] r = "dedup" -> "compress" [] r = "compress" -> "reorder") = q
          <=> r = s
  BY DEF Queues, Stages
<1>4. ASSUME NEW w \in Workers
      PROVE  w \in Terminators(q, g) <=> w[1] = s /\ w[2] \in a..a + p - 1
  <2>1. w[1] \in Stages /\ w[2] \in 0..NThreads - 1
    BY DEF Workers
  <2>2. Terminates(w) = q <=> w[1] = s
    BY <1>3, <2>1 DEF Terminates, Stage
  <2>3. Qid(w) = g <=> w[2] \in a..a + p - 1
    BY <1>2, <2>1 DEF Qid
  <2> QED
    BY <2>2, <2>3 DEF Terminators
<1> DEFINE I == a..a + p - 1
           f == [t \in I |-> <<s, t>>]
<1>5. ASSUME NEW t \in I PROVE <<s, t>> \in Terminators(q, g)
  <2>1. t \in 0..NThreads - 1
    BY <1>2
  <2>2. <<s, t>> \in Workers
    BY <2>1 DEF Workers
  <2> QED
    BY <1>4, <2>2
<1>6. f \in [I -> Terminators(q, g)]
  BY <1>5
<1>7. \A t, u \in I : f[t] = f[u] => t = u
  OBVIOUS
<1>8. ASSUME NEW w \in Terminators(q, g) PROVE \E t \in I : f[t] = w
  <2>1. w \in Workers
    BY DEF Terminators
  <2>2. w = <<w[1], w[2]>>
    BY <2>1 DEF Workers
  <2>3. w[1] = s /\ w[2] \in I
    BY <1>4, <2>1
  <2> QED
    BY <2>2, <2>3
<1>9. IsFiniteSet(I) /\ Cardinality(I) = p
  <2>1. a \in Int /\ a + p - 1 \in Int
    OBVIOUS
  <2>2. IsFiniteSet(I) /\ Cardinality(I) = IF a > a + p - 1 THEN 0 ELSE (a + p - 1) - a + 1
    BY <2>1, FS_Interval
  <2>3. ~(a > a + p - 1) /\ (a + p - 1) - a + 1 = p
    OBVIOUS
  <2> QED
    BY <2>2, <2>3
<1> HIDE DEF f, I
<1>10. f \in Bijection(I, Terminators(q, g))
  BY <1>6, <1>7, <1>8 DEF Bijection, Injection, Surjection, IsInjective
<1> QED
  BY <1>1, <1>9, <1>10, FS_Bijection DEF ExistsBijection

-----------------------------------------------------------------------------
(* The belt *)

LEMMA PlaceNames ==
  /\ \A q \in Queues : \A g \in Groups : QueueAt(q, g) \in Places
  /\ \A w \in Workers : RecvAt(w) \in Places
  /\ \A w \in Workers : \A out \in SendsTo(w) : SendAt(w, out) \in Places
  /\ WriterAt \in Places
  /\ \A p \in Places : \/ \E q \in Queues : \E g \in Groups : p = QueueAt(q, g)
                       \/ \E w \in Workers : p = RecvAt(w)
                       \/ \E w \in Workers : \E out \in SendsTo(w) : p = SendAt(w, out)
                       \/ p = WriterAt
<1>1. /\ \A q \in Queues : \A g \in Groups : QueueAt(q, g) \in Places
      /\ \A w \in Workers : RecvAt(w) \in Places
      /\ WriterAt \in Places
  BY DEF Places, QueueAt, RecvAt
<1>2. \A w \in Workers : \A out \in SendsTo(w) : SendAt(w, out) \in Places
  BY WorkerTypesOf DEF Places, SendAt
<1>3. ASSUME NEW p \in Places
      PROVE  \/ \E q \in Queues : \E g \in Groups : p = QueueAt(q, g)
             \/ \E w \in Workers : p = RecvAt(w)
             \/ \E w \in Workers : \E out \in SendsTo(w) : p = SendAt(w, out)
             \/ p = WriterAt
  <2>1. CASE p \in {"queue"} \X Queues \X Groups
    BY <2>1 DEF QueueAt
  <2>2. CASE p \in {"recv"} \X Workers \X {"in"}
    BY <2>2 DEF RecvAt
  <2>3. CASE p \in {r \in {"send"} \X Workers \X Queues : r[3] \in SendsTo(r[2])}
    BY <2>3 DEF SendAt
  <2>4. CASE p = WriterAt
    BY <2>4
  <2> QED
    BY <2>1, <2>2, <2>3, <2>4 DEF Places
<1> QED
  BY <1>1, <1>2, <1>3, Zenon

LEMMA BeltAt ==
  /\ \A q \in Queues : \A g \in Groups : Belt[QueueAt(q, g)] = queue[<<q, g>>]
  /\ \A w \in Workers : Belt[RecvAt(w)] = recv[w]
  /\ \A w \in Workers : \A out \in SendsTo(w) : Belt[SendAt(w, out)] = send[w][out]
  /\ Belt[WriterAt] = writer.recv
  /\ Belt = [p \in Places |-> Belt[p]]
<1>1. \A q \in Queues : \A g \in Groups : Belt[QueueAt(q, g)] = queue[<<q, g>>]
  BY PlaceNames DEF Belt, QueueAt
<1>2. \A w \in Workers : Belt[RecvAt(w)] = recv[w]
  BY PlaceNames DEF Belt, RecvAt
<1>3. \A w \in Workers : \A out \in SendsTo(w) : Belt[SendAt(w, out)] = send[w][out]
  BY PlaceNames DEF Belt, SendAt
<1>4. Belt[WriterAt] = writer.recv
  BY PlaceNames DEF Belt, WriterAt
<1>5. Belt = [p \in Places |-> Belt[p]]
  BY DEF Belt
<1> QED
  BY <1>1, <1>2, <1>3, <1>4, <1>5

LEMMA BeltTypes ==
  ASSUME QueueTypes, WorkerTypes, writer \in Writers
  PROVE  Belt \in [Places -> Seq(Chunks)]
<1>1. ASSUME NEW p \in Places PROVE Belt[p] \in Seq(Chunks)
  <2>1. ASSUME NEW q \in Queues, NEW g \in Groups PROVE Belt[QueueAt(q, g)] \in Seq(Chunks)
    BY BeltAt DEF QueueTypes
  <2>2. ASSUME NEW w \in Workers PROVE Belt[RecvAt(w)] \in Seq(Chunks)
    BY BeltAt DEF WorkerTypes
  <2>3. ASSUME NEW w \in Workers, NEW out \in SendsTo(w) PROVE Belt[SendAt(w, out)] \in Seq(Chunks)
    <3>1. send[w][out] \in Seq(Chunks)
      BY DEF WorkerTypes
    <3> QED
      BY <3>1, BeltAt
  <2>4. Belt[WriterAt] \in Seq(Chunks)
    BY BeltAt DEF Writers
  <2> QED
    BY <2>1, <2>2, <2>3, <2>4, PlaceNames, Zenon
<1> QED
  BY <1>1, BeltAt

LEMMA BeltAtNext ==
  /\ \A q \in Queues : \A g \in Groups : Belt'[QueueAt(q, g)] = queue'[<<q, g>>]
  /\ \A w \in Workers : Belt'[RecvAt(w)] = recv'[w]
  /\ \A w \in Workers : \A out \in SendsTo(w) : Belt'[SendAt(w, out)] = send'[w][out]
  /\ Belt'[WriterAt] = writer'.recv
  /\ Belt' = [p \in Places |-> Belt'[p]]
<1>1. \A q \in Queues : \A g \in Groups : Belt'[QueueAt(q, g)] = queue'[<<q, g>>]
  BY PlaceNames DEF Belt, QueueAt
<1>2. \A w \in Workers : Belt'[RecvAt(w)] = recv'[w]
  BY PlaceNames DEF Belt, RecvAt
<1>3. \A w \in Workers : \A out \in SendsTo(w) : Belt'[SendAt(w, out)] = send'[w][out]
  BY PlaceNames DEF Belt, SendAt
<1>4. Belt'[WriterAt] = writer'.recv
  BY PlaceNames DEF Belt, WriterAt
<1>5. Belt' = [p \in Places |-> Belt'[p]]
  BY DEF Belt
<1> QED
  BY <1>1, <1>2, <1>3, <1>4, <1>5

(* What happens elsewhere than in the places P.                            *)
LEMMA BeltElsewhere ==
  ASSUME NEW P,
         \A q \in Queues : \A g \in Groups : QueueAt(q, g) \notin P => queue'[<<q, g>>] = queue[<<q, g>>],
         \A w \in Workers : RecvAt(w) \notin P => recv'[w] = recv[w],
         \A w \in Workers : \A out \in SendsTo(w) :
            SendAt(w, out) \notin P => send'[w][out] = send[w][out],
         WriterAt \notin P => writer'.recv = writer.recv
  PROVE  \A r \in Places \ P : Belt'[r] = Belt[r]
<1> SUFFICES ASSUME NEW r \in Places, r \notin P
             PROVE  Belt'[r] = Belt[r]
  OBVIOUS
<1>1. ASSUME NEW q \in Queues, NEW g \in Groups, r = QueueAt(q, g)
      PROVE  Belt'[r] = Belt[r]
  BY <1>1, BeltAt, BeltAtNext
<1>2. ASSUME NEW w \in Workers, r = RecvAt(w)
      PROVE  Belt'[r] = Belt[r]
  BY <1>2, BeltAt, BeltAtNext
<1>3. ASSUME NEW w \in Workers, NEW out \in SendsTo(w), r = SendAt(w, out)
      PROVE  Belt'[r] = Belt[r]
  BY <1>3, BeltAt, BeltAtNext
<1>4. CASE r = WriterAt
  BY <1>4, BeltAt, BeltAtNext
<1> QED
  BY <1>1, <1>2, <1>3, <1>4, PlaceNames, Zenon

LEMMA BeltSame ==
  ASSUME UNCHANGED <<queue, recv, send>>, writer'.recv = writer.recv
  PROVE  Belt' = Belt
  BY DEF Belt

LEMMA PlacesDiffer ==
  /\ \A q, r \in Queues : \A g, h \in Groups : QueueAt(q, g) = QueueAt(r, h) => q = r /\ g = h
  /\ \A v, w \in Workers : RecvAt(v) = RecvAt(w) => v = w
  /\ \A v, w : \A i, j : SendAt(v, i) = SendAt(w, j) => v = w /\ i = j
  /\ \A q, g, w : QueueAt(q, g) # RecvAt(w)
  /\ \A q, g, w, i : QueueAt(q, g) # SendAt(w, i)
  /\ \A q, g : QueueAt(q, g) # WriterAt
  /\ \A v, w, i : RecvAt(v) # SendAt(w, i)
  /\ \A w : RecvAt(w) # WriterAt
  /\ \A w, i : SendAt(w, i) # WriterAt
  BY DEF QueueAt, RecvAt, SendAt, WriterAt

LEMMA RawPlaces ==
  /\ \A q, g : Raw(QueueAt(q, g)) <=> q = "refine"
  /\ \A w : Raw(RecvAt(w)) <=> Stage(w) = "refine"
  /\ \A w, out : ~Raw(SendAt(w, out))
  /\ ~Raw(WriterAt)
  BY DEF Raw, QueueAt, RecvAt, SendAt, WriterAt, Stage

(* What one step can do to the belt: the first m items of place p go to    *)
(* the end of place q, ...                                                 *)
Moved(b, c, p, q, m) ==
  /\ c = [r \in Places |-> c[r]] /\ \A r \in Places \ {p, q} : c[r] = b[r]
  /\ c[p] = SubSeq(b[p], m + 1, Len(b[p]))
  /\ c[q] = b[q] \o SubSeq(b[p], 1, m)

Shifted(b, c, p, q, m) ==
  /\ c \in [Places -> Seq(Chunks)]
  /\ Len(b[p]) \in Nat /\ Len(b[q]) \in Nat
  /\ Len(c[p]) = Len(b[p]) - m /\ Len(c[q]) = Len(b[q]) + m
  /\ \A n \in 1..Len(c[p]) : c[p][n] = b[p][n + m]
  /\ \A n \in 1..Len(b[q]) : c[q][n] = b[q][n]
  /\ \A n \in 1..m : c[q][Len(b[q]) + n] = b[p][n]
  /\ \A r \in Places \ {p, q} : c[r] = b[r]

LEMMA Parts ==
  ASSUME NEW s \in Seq(Chunks), NEW l \in Nat, l = Len(s), NEW m \in Nat, m <= l
  PROVE  /\ SubSeq(s, m + 1, l) \in Seq(Chunks) /\ SubSeq(s, 1, m) \in Seq(Chunks)
         /\ Len(SubSeq(s, m + 1, l)) = l - m /\ Len(SubSeq(s, 1, m)) = m
         /\ \A n \in 1..l - m : SubSeq(s, m + 1, l)[n] = s[n + m]
         /\ \A n \in 1..m : SubSeq(s, 1, m)[n] = s[n]
<1>1. \A n \in 1..l : s[n] \in Chunks
  OBVIOUS
<1>2. /\ SubSeq(s, 1, m) \in Seq(Chunks)
      /\ Len(SubSeq(s, 1, m)) = IF 1 <= m THEN m - 1 + 1 ELSE 0
      /\ \A n \in 1..m - 1 + 1 : SubSeq(s, 1, m)[n] = s[1 + n - 1]
  <2>1. \A n \in 1..m : s[n] \in Chunks
    BY <1>1
  <2> QED
    BY <2>1, SubSeqProperties
<1>3. /\ SubSeq(s, m + 1, l) \in Seq(Chunks)
      /\ Len(SubSeq(s, m + 1, l)) = IF m + 1 <= l THEN l - (m + 1) + 1 ELSE 0
      /\ \A n \in 1..l - (m + 1) + 1 : SubSeq(s, m + 1, l)[n] = s[m + 1 + n - 1]
  <2>1. \A n \in m + 1..l : s[n] \in Chunks
    BY <1>1
  <2>2. PICK k \in Int : k = m + 1
    OBVIOUS
  <2>3. \A n \in k..l : s[n] \in Chunks
    BY <2>1, <2>2
  <2>4. /\ SubSeq(s, k, l) \in Seq(Chunks)
        /\ Len(SubSeq(s, k, l)) = IF k <= l THEN l - k + 1 ELSE 0
        /\ \A n \in 1..l - k + 1 : SubSeq(s, k, l)[n] = s[k + n - 1]
    BY <2>3, SubSeqProperties
  <2> QED
    BY <2>2, <2>4
<1>4. \A n \in 1..m : SubSeq(s, 1, m)[n] = s[n]
  <2> TAKE n \in 1..m
  <2>1. n \in 1..m - 1 + 1 /\ 1 + n - 1 = n
    OBVIOUS
  <2> QED
    BY <1>2, <2>1
<1>5. \A n \in 1..l - m : SubSeq(s, m + 1, l)[n] = s[n + m]
  <2> TAKE n \in 1..l - m
  <2>1. n \in 1..l - (m + 1) + 1 /\ m + 1 + n - 1 = n + m
    OBVIOUS
  <2> QED
    BY <1>3, <2>1
<1>6. Len(SubSeq(s, 1, m)) = m
  <2>1. PICK x : x = Len(SubSeq(s, 1, m))
    OBVIOUS
  <2>2. x = IF 1 <= m THEN m - 1 + 1 ELSE 0
    BY <1>2, <2>1
  <2> QED
    BY <2>1, <2>2
<1>7. Len(SubSeq(s, m + 1, l)) = l - m
  <2>1. PICK x : x = Len(SubSeq(s, m + 1, l))
    OBVIOUS
  <2>2. x = IF m + 1 <= l THEN l - (m + 1) + 1 ELSE 0
    BY <1>3, <2>1
  <2> QED
    BY <2>1, <2>2
<1> QED
  BY <1>2, <1>3, <1>4, <1>5, <1>6, <1>7, Zenon

LEMMA MoveElements ==
  ASSUME NEW b \in [Places -> Seq(Chunks)], NEW p \in Places, NEW q \in Places, p # q,
         NEW m \in Nat, m <= Len(b[p]), NEW c, Moved(b, c, p, q, m)
  PROVE  Shifted(b, c, p, q, m)
<1>1. PICK s \in Seq(Chunks), t \in Seq(Chunks) : s = b[p] /\ t = b[q]
  OBVIOUS
<1>2. PICK l \in Nat, k \in Nat : l = Len(s) /\ k = Len(t)
  BY LenProperties
<1>3. m <= l
  BY <1>1, <1>2
<1>4. PICK u, v : u = SubSeq(s, m + 1, l) /\ v = SubSeq(s, 1, m)
  OBVIOUS
<1>5. /\ u \in Seq(Chunks) /\ v \in Seq(Chunks)
      /\ Len(u) = l - m /\ Len(v) = m
      /\ \A n \in 1..l - m : u[n] = s[n + m]
      /\ \A n \in 1..m : v[n] = s[n]
  BY <1>2, <1>3, <1>4, Parts
<1>6. PICK x : x = t \o v
  OBVIOUS
<1>7. /\ x \in Seq(Chunks) /\ Len(x) = k + m
      /\ \A n \in 1..k : x[n] = t[n]
      /\ \A n \in 1..m : x[k + n] = v[n]
  <2>1. v \in Seq(Chunks)
    BY <1>5
  <2>2. /\ t \o v \in Seq(Chunks) /\ Len(t \o v) = Len(t) + Len(v)
        /\ \A n \in 1..Len(t) : (t \o v)[n] = t[n]
        /\ \A n \in 1..Len(v) : (t \o v)[Len(t) + n] = v[n]
    BY <2>1, ConcatElements
  <2>3. Len(t) = k /\ Len(v) = m /\ x = t \o v
    BY <1>2, <1>5, <1>6
  <2> HIDE <1>5, <1>6
  <2> QED
    BY <2>2, <2>3
<1>8. c[p] = u /\ c[q] = x /\ (\A r \in Places \ {p, q} : c[r] = b[r]) /\ c = [r \in Places |-> c[r]]
  BY <1>1, <1>2, <1>4, <1>6 DEF Moved
<1>9. c \in [Places -> Seq(Chunks)]
  BY <1>5, <1>7, <1>8
<1> QED
  <2>1. /\ c \in [Places -> Seq(Chunks)]
        /\ Len(b[p]) \in Nat /\ Len(b[q]) \in Nat
        /\ Len(c[p]) = Len(b[p]) - m /\ Len(c[q]) = Len(b[q]) + m
        /\ \A n \in 1..Len(c[p]) : c[p][n] = b[p][n + m]
        /\ \A n \in 1..Len(b[q]) : c[q][n] = b[q][n]
        /\ \A n \in 1..m : c[q][Len(b[q]) + n] = b[p][n]
        /\ \A r \in Places \ {p, q} : c[r] = b[r]
    BY <1>1, <1>2, <1>5, <1>7, <1>8, <1>9, Zenon
  <2> QED
    BY <2>1 DEF Shifted

\* Moving items between places for which they stand for the same chunks.
LEMMA MoveKeeps ==
  ASSUME NEW b \in [Places -> Seq(Chunks)], NEW p \in Places, NEW q \in Places, p # q,
         NEW m \in Nat, m <= Len(b[p]), NEW c, Moved(b, c, p, q, m), Once(b),
         \A n \in 1..m : \A k \in Chunks : Covers(p, b[p][n], k) <=> Covers(q, b[p][n], k)
  PROVE  /\ Once(c)
         /\ \A k \in Chunks : On(c, k) <=> On(b, k)
         /\ \A k \in Chunks : \A r \in Places : At(c, r, k) => At(b, r, k) \/ (r = q /\ At(b, p, k))
         /\ \A k \in Chunks : \A n \in 1..m : Covers(p, b[p][n], k) => At(c, q, k)
<1>0. Shifted(b, c, p, q, m)
  BY MoveElements
<1>1. PICK l \in Nat, j \in Nat : l = Len(b[p]) /\ j = Len(b[q])
  BY <1>0 DEF Shifted
<1>2. /\ c \in [Places -> Seq(Chunks)]
      /\ Len(c[p]) = l - m /\ Len(c[q]) = j + m /\ m <= l
      /\ \A n \in 1..l - m : c[p][n] = b[p][n + m]
      /\ \A n \in 1..j : c[q][n] = b[q][n]
      /\ \A n \in 1..m : c[q][j + n] = b[p][n]
      /\ \A r \in Places \ {p, q} : c[r] = b[r]
  <2>1. /\ c \in [Places -> Seq(Chunks)]
        /\ Len(c[p]) = Len(b[p]) - m /\ Len(c[q]) = Len(b[q]) + m
        /\ \A n \in 1..Len(c[p]) : c[p][n] = b[p][n + m]
        /\ \A n \in 1..Len(b[q]) : c[q][n] = b[q][n]
        /\ \A n \in 1..m : c[q][Len(b[q]) + n] = b[p][n]
        /\ \A r \in Places \ {p, q} : c[r] = b[r]
    BY <1>0 DEF Shifted
  <2> QED
    BY <1>1, <2>1, Zenon
<1>3. DOMAIN b[p] = 1..l /\ DOMAIN b[q] = 1..j /\ DOMAIN c[p] = 1..l - m /\ DOMAIN c[q] = 1..j + m
  BY <1>1, <1>2
<1> DEFINE SP(r, n) == IF r = q /\ n \notin 1..j THEN p ELSE r
           SN(r, n) == IF r = p THEN n + m ELSE IF r = q /\ n \notin 1..j THEN n - j ELSE n
<1>4. ASSUME NEW r \in Places, NEW n \in DOMAIN c[r]
      PROVE  /\ SP(r, n) \in Places /\ SN(r, n) \in DOMAIN b[SP(r, n)]
             /\ \A k \in Chunks : Covers(r, c[r][n], k) <=> Covers(SP(r, n), b[SP(r, n)][SN(r, n)], k)
             /\ r # SP(r, n) => r = q /\ SP(r, n) = p
  <2>1. CASE r = p
    <3>1. n + m \in 1..l /\ n \in 1..l - m
      BY <1>2, <1>3, <2>1
    <3> QED
      BY <1>2, <1>3, <2>1, <3>1
  <2>2. CASE r = q /\ n \in 1..j
    BY <1>2, <1>3, <2>2
  <2>3. CASE r = q /\ n \notin 1..j
    <3>1. n - j \in 1..m /\ n - j \in 1..l /\ j + (n - j) = n
      BY <1>2, <1>3, <2>3
    <3>2. c[q][n] = b[p][n - j]
      BY <1>2, <3>1
    <3> QED
      BY <1>3, <2>3, <3>1, <3>2
  <2>4. CASE r \notin {p, q}
    BY <1>2, <2>4
  <2> QED
    BY <2>1, <2>2, <2>3, <2>4
<1>5. ASSUME NEW r \in Places, NEW s \in Places, NEW n \in DOMAIN c[r], NEW o \in DOMAIN c[s],
             SP(r, n) = SP(s, o), SN(r, n) = SN(s, o)
      PROVE  r = s /\ n = o
  <2>1. CASE r = s
    <3>1. r = p => n \in Int /\ o \in Int
      BY <1>2, <1>3, <2>1
    <3>2. r = q => n \in Int /\ o \in Int
      BY <1>2, <1>3, <2>1
    <3>3. CASE r = p
      <4>1. n + m = o + m
        BY <1>5, <2>1, <3>3
      <4> QED
        BY <2>1, <3>1, <3>3, <4>1
    <3>4. CASE r = q /\ n \in 1..j /\ o \in 1..j
      BY <1>5, <2>1, <3>4
    <3>5. CASE r = q /\ n \notin 1..j /\ o \notin 1..j
      <4>1. n - j = o - j
        BY <1>5, <2>1, <3>5
      <4> QED
        BY <2>1, <3>2, <3>5, <4>1
    <3>6. CASE r = q /\ (n \in 1..j <=> o \notin 1..j)
      BY <1>5, <2>1, <3>6
    <3>7. CASE r \notin {p, q}
      BY <1>5, <2>1, <3>7
    <3> QED
      BY <3>3, <3>4, <3>5, <3>6, <3>7
  <2>2. CASE r = p /\ s = q /\ o \notin 1..j
    <3>1. n \in 1..l - m /\ o - j \in 1..m
      BY <1>2, <1>3, <2>2
    <3>2. n + m = o - j
      BY <1>5, <2>2
    <3> QED
      BY <1>2, <3>1, <3>2
  <2>3. CASE s = p /\ r = q /\ n \notin 1..j
    <3>1. o \in 1..l - m /\ n - j \in 1..m
      BY <1>2, <1>3, <2>3
    <3>2. o + m = n - j
      BY <1>5, <2>3
    <3> QED
      BY <1>2, <3>1, <3>2
  <2> QED
    BY <1>5, <2>1, <2>2, <2>3
<1>6. Once(c)
  <2> SUFFICES ASSUME NEW k \in Chunks, NEW r \in Places, NEW s \in Places,
                      NEW n \in DOMAIN c[r], NEW o \in DOMAIN c[s],
                      Covers(r, c[r][n], k), Covers(s, c[s][o], k)
               PROVE  r = s /\ n = o
    BY DEF Once
  <2>1. /\ SP(r, n) \in Places /\ SN(r, n) \in DOMAIN b[SP(r, n)]
        /\ Covers(SP(r, n), b[SP(r, n)][SN(r, n)], k)
    BY <1>4, Zenon
  <2>2. /\ SP(s, o) \in Places /\ SN(s, o) \in DOMAIN b[SP(s, o)]
        /\ Covers(SP(s, o), b[SP(s, o)][SN(s, o)], k)
    BY <1>4, Zenon
  <2> HIDE DEF SP, SN
  <2>3. PICK x, y : x = SP(r, n) /\ y = SN(r, n)
    OBVIOUS
  <2>4. PICK u, v : u = SP(s, o) /\ v = SN(s, o)
    OBVIOUS
  <2>5. x \in Places /\ y \in DOMAIN b[x] /\ Covers(x, b[x][y], k)
    BY <2>1, <2>3
  <2>6. u \in Places /\ v \in DOMAIN b[u] /\ Covers(u, b[u][v], k)
    BY <2>2, <2>4
  <2>7. x = u /\ y = v
    BY <2>5, <2>6 DEF Once
  <2>8. SP(r, n) = SP(s, o) /\ SN(r, n) = SN(s, o)
    BY <2>3, <2>4, <2>7
  <2> QED
    BY <1>5, <2>8
<1>7. ASSUME NEW k \in Chunks, NEW r \in Places, At(c, r, k)
      PROVE  At(b, r, k) \/ (r = q /\ At(b, p, k))
  <2>1. PICK n \in DOMAIN c[r] : Covers(r, c[r][n], k)
    BY <1>7 DEF At
  <2>2. /\ SP(r, n) \in Places /\ SN(r, n) \in DOMAIN b[SP(r, n)]
        /\ Covers(SP(r, n), b[SP(r, n)][SN(r, n)], k)
        /\ r # SP(r, n) => r = q /\ SP(r, n) = p
    BY <1>4, <2>1, Zenon
  <2> HIDE DEF SP, SN
  <2>3. At(b, SP(r, n), k)
    BY <2>2, Zenon DEF At
  <2> QED
    BY <2>2, <2>3
<1>8. ASSUME NEW k \in Chunks, NEW n \in 1..m, Covers(p, b[p][n], k)
      PROVE  At(c, q, k)
  <2>1. j + n \in 1..j + m
    OBVIOUS
  <2>2. Covers(q, c[q][j + n], k)
    BY <1>2, <1>8
  <2> QED
    BY <1>3, <2>1, <2>2 DEF At
<1>9. ASSUME NEW k \in Chunks, On(b, k)
      PROVE  On(c, k)
  <2>1. PICK r \in Places : \E n \in DOMAIN b[r] : Covers(r, b[r][n], k)
    BY <1>9 DEF On, At
  <2>2. PICK n \in DOMAIN b[r] : Covers(r, b[r][n], k)
    BY <2>1
  <2>3. CASE r = p /\ n \in 1..m
    BY <1>8, <2>2, <2>3 DEF On
  <2>4. CASE r = p /\ n \notin 1..m
    <3>1. n - m \in 1..l - m /\ (n - m) + m = n
      BY <1>2, <1>3, <2>4
    <3>2. Covers(p, c[p][n - m], k)
      BY <1>2, <2>2, <2>4, <3>1
    <3> QED
      BY <1>3, <3>1, <3>2 DEF On, At
  <2>5. CASE r = q
    <3>1. n \in 1..j + m /\ n \in 1..j
      BY <1>3, <2>5
    <3>2. Covers(q, c[q][n], k)
      BY <1>2, <2>2, <2>5, <3>1
    <3> QED
      BY <1>3, <3>1, <3>2 DEF On, At
  <2>6. CASE r \notin {p, q}
    BY <1>2, <2>2, <2>6 DEF On, At
  <2> QED
    BY <2>3, <2>4, <2>5, <2>6
<1>10. ASSUME NEW k \in Chunks, On(c, k)
       PROVE  On(b, k)
  BY <1>7, <1>10 DEF On
<1> QED
  BY <1>6, <1>7, <1>8, <1>9, <1>10, Zenon

LEMMA PassKeeps ==
  ASSUME NEW b \in [Places -> Seq(Chunks)], NEW p \in Places, NEW q \in Places, p # q,
         1 <= Len(b[p]), NEW c, Moved(b, c, p, q, 1), Once(b),
         \A k \in Chunks : Covers(p, b[p][1], k) <=> Covers(q, b[p][1], k)
  PROVE  /\ Once(c)
         /\ \A k \in Chunks : On(c, k) <=> On(b, k)
         /\ \A k \in Chunks : \A r \in Places : At(c, r, k) => At(b, r, k) \/ (r = q /\ At(b, p, k))
         /\ \A k \in Chunks : Covers(p, b[p][1], k) => At(c, q, k)
<1>1. PICK m \in Nat : m = 1
  OBVIOUS
<1>2. m <= Len(b[p]) /\ Moved(b, c, p, q, m)
  BY <1>1
<1>3. \A n \in 1..m : n = 1
  BY <1>1
<1>4. \A n \in 1..m : \A k \in Chunks : Covers(p, b[p][n], k) <=> Covers(q, b[p][n], k)
  BY <1>3, Zenon
<1>5. /\ Once(c)
      /\ \A k \in Chunks : On(c, k) <=> On(b, k)
      /\ \A k \in Chunks : \A r \in Places : At(c, r, k) => At(b, r, k) \/ (r = q /\ At(b, p, k))
      /\ \A k \in Chunks : \A n \in 1..m : Covers(p, b[p][n], k) => At(c, q, k)
  BY <1>2, <1>4, MoveKeeps
<1>6. 1 \in 1..m
  BY <1>1
<1> QED
  BY <1>5, <1>6, Zenon

LEMMA PassedItem ==
  ASSUME NEW b \in [Places -> Seq(Chunks)], NEW p \in Places, NEW q \in Places, p # q,
         1 <= Len(b[p]), NEW c, Moved(b, c, p, q, 1), Once(b),
         \A k \in Chunks : Covers(p, b[p][1], k) <=> Covers(q, b[p][1], k),
         NEW k \in Chunks, NEW r \in Places, At(c, r, k), ~At(b, r, k)
  PROVE  r = q /\ Covers(p, b[p][1], k)
<1>1. r = q /\ At(b, p, k) /\ Once(c)
  <2>1. /\ Once(c)
        /\ \A l \in Chunks : On(c, l) <=> On(b, l)
        /\ \A l \in Chunks : \A o \in Places : At(c, o, l) => At(b, o, l) \/ (o = q /\ At(b, p, l))
        /\ \A l \in Chunks : Covers(p, b[p][1], l) => At(c, q, l)
    BY PassKeeps
  <2> QED
    BY <2>1
<1>2. PICK n \in DOMAIN b[p] : Covers(p, b[p][n], k)
  BY <1>1 DEF At
<1>3. CASE n = 1
  BY <1>1, <1>2, <1>3
<1>4. CASE n # 1
  <2>1. PICK m \in Nat : m = 1
    OBVIOUS
  <2>2. m <= Len(b[p]) /\ Moved(b, c, p, q, m)
    BY <2>1
  <2>3. /\ c \in [Places -> Seq(Chunks)] /\ Len(b[p]) \in Nat /\ Len(c[p]) = Len(b[p]) - m
        /\ \A i \in 1..Len(c[p]) : c[p][i] = b[p][i + m]
    <3>1. Shifted(b, c, p, q, m)
      BY <2>2, MoveElements
    <3> QED
      BY <3>1 DEF Shifted
  <2>4. PICK l \in Nat : l = Len(b[p])
    BY <2>3
  <2>5. DOMAIN b[p] = 1..l /\ DOMAIN c[p] = 1..l - 1
    BY <2>1, <2>3, <2>4
  <2>6. n - 1 \in 1..l - 1 /\ (n - 1) + 1 = n
    BY <1>4, <2>5
  <2>7. Covers(p, c[p][n - 1], k)
    BY <1>2, <2>1, <2>3, <2>4, <2>6
  <2>8. At(c, p, k)
    BY <2>5, <2>6, <2>7 DEF At
  <2>9. p = q
    BY <1>1, <2>8 DEF Once, At
  <2> QED
    BY <2>9
<1> QED
  BY <1>3, <1>4

(* ... or the first item of place p, a coarse chunk, is cut in two: its    *)
(* first fine chunk goes to the end of place q, the rest stays, ...        *)
Cut(b, c, p, q) ==
  /\ c = [r \in Places |-> c[r]] /\ \A r \in Places \ {p, q} : c[r] = b[r]
  /\ c[p] = [b[p] EXCEPT ![1] = <<b[p][1][1], b[p][1][2] + 1>>]
  /\ c[q] = Append(b[q], b[p][1])

LEMMA CutKeeps ==
  ASSUME NEW b \in [Places -> Seq(Chunks)], NEW p \in Places, NEW q \in Places, p # q,
         Raw(p), ~Raw(q), b[p] # <<>>, ~IsLastL2Chunk(b[p][1]),
         NEW c, Cut(b, c, p, q), Once(b)
  PROVE  /\ c \in [Places -> Seq(Chunks)]
         /\ Once(c)
         /\ \A k \in Chunks : On(c, k) <=> On(b, k)
         /\ \A k \in Chunks : \A r \in Places : At(c, r, k) => At(b, r, k) \/ (r = q /\ At(b, p, k))
<1>1. PICK l \in Nat, j \in Nat : l = Len(b[p]) /\ j = Len(b[q]) /\ l # 0
  BY LenProperties, EmptySeq
<1>2. DOMAIN b[p] = 1..l /\ DOMAIN b[q] = 1..j /\ 1 \in 1..l
  BY <1>1
<1>3. PICK x \in Chunks : x = b[p][1]
  BY <1>2, ElementOfSeq
<1>4. /\ x = <<x[1], x[2]>> /\ x[1] \in Nat /\ x[2] \in Nat
      /\ <<x[1], x[2] + 1>> \in Chunks
  BY <1>3, ChunkTypesOf, ChunkOrNext
<1>5. PICK y \in Chunks : y = <<x[1], x[2] + 1>>
  BY <1>4
<1>6. /\ c \in [Places -> Seq(Chunks)]
      /\ DOMAIN c[p] = 1..l /\ DOMAIN c[q] = 1..j + 1
      /\ c[p][1] = y /\ c[q][j + 1] = x
      /\ \A n \in 1..l : n # 1 => c[p][n] = b[p][n]
      /\ \A n \in 1..j : c[q][n] = b[q][n]
      /\ \A r \in Places \ {p, q} : c[r] = b[r]
  <2>1. PICK s \in Seq(Chunks), t \in Seq(Chunks) : s = b[p] /\ t = b[q]
    OBVIOUS
  <2>2. PICK u, v : u = [s EXCEPT ![1] = y] /\ v = Append(t, x)
    OBVIOUS
  <2>3. /\ u \in Seq(Chunks) /\ DOMAIN u = 1..l /\ u[1] = y
        /\ \A n \in 1..l : n # 1 => u[n] = s[n]
    BY <1>1, <1>2, <2>1, <2>2, ExceptSeq
  <2>4. /\ v \in Seq(Chunks) /\ DOMAIN v = 1..j + 1 /\ v[j + 1] = x
        /\ \A n \in 1..j : v[n] = t[n]
    BY <1>1, <2>1, <2>2
  <2>5. c[p] = u /\ c[q] = v /\ (\A r \in Places \ {p, q} : c[r] = b[r]) /\ c = [r \in Places |-> c[r]]
    BY <1>3, <1>5, <2>1, <2>2 DEF Cut
  <2>6. c \in [Places -> Seq(Chunks)]
    BY <2>3, <2>4, <2>5
  <2> QED
    BY <2>1, <2>3, <2>4, <2>5, <2>6
<1>7. ASSUME NEW k \in Chunks
      PROVE  /\ Covers(p, y, k) => Covers(p, x, k) /\ k # x
             /\ Covers(q, x, k) <=> x = k
             /\ Covers(p, x, k) => Covers(p, y, k) \/ x = k
             /\ Covers(p, x, x)
  <2>1. k = <<k[1], k[2]>> /\ k[1] \in Nat /\ k[2] \in Nat
    BY ChunkTypesOf
  <2>2. y[1] = x[1] /\ y[2] = x[2] + 1
    BY <1>5
  <2>3. Covers(p, y, k) => Covers(p, x, k) /\ k # x
    BY <1>4, <2>1, <2>2 DEF Covers
  <2>4. Covers(p, x, k) => Covers(p, y, k) \/ x = k
    BY <1>4, <2>1, <2>2 DEF Covers
  <2>5. (Covers(q, x, k) <=> x = k) /\ Covers(p, x, x)
    BY <1>4 DEF Covers
  <2> QED
    BY <2>3, <2>4, <2>5
<1> DEFINE SP(r, n) == IF r = q /\ n = j + 1 THEN p ELSE r
           SN(r, n) == IF r = q /\ n = j + 1 THEN 1 ELSE n
<1>8. ASSUME NEW r \in Places, NEW n \in DOMAIN c[r], NEW k \in Chunks, Covers(r, c[r][n], k)
      PROVE  /\ SP(r, n) \in Places /\ SN(r, n) \in DOMAIN b[SP(r, n)]
             /\ Covers(SP(r, n), b[SP(r, n)][SN(r, n)], k)
             /\ r = q /\ n = j + 1 => k = x
             /\ r = p /\ n = 1 => k # x
  <2>1. CASE r = p /\ n = 1
    BY <1>2, <1>3, <1>6, <1>7, <1>8, <2>1
  <2>2. CASE r = p /\ n # 1
    BY <1>2, <1>6, <1>8, <2>2
  <2>3. CASE r = q /\ n = j + 1
    BY <1>2, <1>3, <1>6, <1>7, <1>8, <2>3
  <2>4. CASE r = q /\ n # j + 1
    <3>1. n \in 1..j
      BY <1>6, <2>4
    <3> QED
      BY <1>2, <1>6, <1>8, <2>4, <3>1
  <2>5. CASE r \notin {p, q}
    BY <1>6, <1>8, <2>5
  <2> QED
    BY <2>1, <2>2, <2>3, <2>4, <2>5
<1>9. Once(c)
  <2> SUFFICES ASSUME NEW k \in Chunks, NEW r \in Places, NEW s \in Places,
                      NEW n \in DOMAIN c[r], NEW o \in DOMAIN c[s],
                      Covers(r, c[r][n], k), Covers(s, c[s][o], k)
               PROVE  r = s /\ n = o
    BY DEF Once
  <2>1. PICK d, e : d = SP(r, n) /\ e = SN(r, n)
    OBVIOUS
  <2>2. PICK u, v : u = SP(s, o) /\ v = SN(s, o)
    OBVIOUS
  <2>3. d \in Places /\ e \in DOMAIN b[d] /\ Covers(d, b[d][e], k)
    BY <1>8, <2>1
  <2>4. u \in Places /\ v \in DOMAIN b[u] /\ Covers(u, b[u][v], k)
    BY <1>8, <2>2
  <2>5. d = u /\ e = v
    BY <2>3, <2>4 DEF Once
  <2>6. /\ r = q /\ n = j + 1 => k = x
        /\ r = p /\ n = 1 => k # x
        /\ s = q /\ o = j + 1 => k = x
        /\ s = p /\ o = 1 => k # x
    BY <1>8
  <2> QED
    BY <2>1, <2>2, <2>5, <2>6
<1>10. ASSUME NEW k \in Chunks, NEW r \in Places, At(c, r, k)
       PROVE  At(b, r, k) \/ (r = q /\ At(b, p, k))
  <2>1. PICK n \in DOMAIN c[r] : Covers(r, c[r][n], k)
    BY <1>10 DEF At
  <2>2. /\ SP(r, n) \in Places /\ SN(r, n) \in DOMAIN b[SP(r, n)]
        /\ Covers(SP(r, n), b[SP(r, n)][SN(r, n)], k)
    BY <1>8, <2>1
  <2>3. At(b, SP(r, n), k)
    <3> HIDE DEF SP, SN
    <3> QED
      BY <2>2, Zenon DEF At
  <2> QED
    BY <2>3
<1>11. ASSUME NEW k \in Chunks, On(b, k)
       PROVE  On(c, k)
  <2>1. PICK r \in Places : \E n \in DOMAIN b[r] : Covers(r, b[r][n], k)
    BY <1>11 DEF On, At
  <2>2. PICK n \in DOMAIN b[r] : Covers(r, b[r][n], k)
    BY <2>1
  <2>3. CASE r = p /\ n = 1
    <3>1. Covers(p, y, k) \/ Covers(q, x, k)
      BY <1>3, <1>7, <2>2, <2>3
    <3>2. 1 \in DOMAIN c[p] /\ j + 1 \in DOMAIN c[q]
      BY <1>2, <1>6
    <3> QED
      BY <1>6, <3>1, <3>2 DEF On, At
  <2>4. CASE r = p /\ n # 1
    BY <1>2, <1>6, <2>2, <2>4 DEF On, At
  <2>5. CASE r = q
    <3>1. n \in 1..j + 1 /\ n \in 1..j
      BY <1>2, <2>5
    <3>2. Covers(q, c[q][n], k)
      BY <1>6, <2>2, <2>5, <3>1
    <3> QED
      BY <1>6, <3>1, <3>2 DEF On, At
  <2>6. CASE r \notin {p, q}
    BY <1>6, <2>2, <2>6 DEF On, At
  <2> QED
    BY <2>3, <2>4, <2>5, <2>6
<1>12. ASSUME NEW k \in Chunks, On(c, k)
       PROVE  On(b, k)
  BY <1>10, <1>12 DEF On
<1> QED
  BY <1>6, <1>9, <1>10, <1>11, <1>12, Zenon

(* ... or the first item of place p leaves the belt, ...                   *)
Dropped(b, c, p) ==
  /\ c = [r \in Places |-> c[r]] /\ \A r \in Places \ {p} : c[r] = b[r]
  /\ c[p] = Tail(b[p])

LEMMA DropKeeps ==
  ASSUME NEW b \in [Places -> Seq(Chunks)], NEW p \in Places, ~Raw(p), b[p] # <<>>,
         NEW c, Dropped(b, c, p), Once(b)
  PROVE  /\ c \in [Places -> Seq(Chunks)]
         /\ Once(c)
         /\ Head(b[p]) \in Chunks /\ At(b, p, Head(b[p]))
         /\ \A k \in Chunks : On(c, k) <=> On(b, k) /\ k # Head(b[p])
         /\ \A k \in Chunks : \A r \in Places : At(c, r, k) => At(b, r, k)
<1>1. PICK l \in Nat : l = Len(b[p]) /\ l # 0
  BY LenProperties, EmptySeq
<1>2. DOMAIN b[p] = 1..l /\ 1 \in 1..l
  BY <1>1
<1>3. PICK x \in Chunks : x = b[p][1] /\ x = Head(b[p])
  BY <1>2, ElementOfSeq
<1>4. /\ c \in [Places -> Seq(Chunks)]
      /\ DOMAIN c[p] = 1..l - 1
      /\ \A n \in 1..l - 1 : c[p][n] = b[p][n + 1]
      /\ \A r \in Places \ {p} : c[r] = b[r]
  <2>1. PICK s \in Seq(Chunks) : s = b[p]
    OBVIOUS
  <2>2. PICK u : u = Tail(s)
    OBVIOUS
  <2>3. /\ u \in Seq(Chunks) /\ DOMAIN u = 1..l - 1
        /\ \A n \in 1..l - 1 : u[n] = s[n + 1]
    BY <1>1, <2>1, <2>2
  <2>4. c[p] = u /\ (\A r \in Places \ {p} : c[r] = b[r]) /\ c = [r \in Places |-> c[r]]
    BY <2>1, <2>2 DEF Dropped
  <2>5. c \in [Places -> Seq(Chunks)]
    BY <2>3, <2>4
  <2> QED
    BY <2>1, <2>3, <2>4, <2>5
<1> DEFINE SN(r, n) == IF r = p THEN n + 1 ELSE n
<1>5. ASSUME NEW r \in Places, NEW n \in DOMAIN c[r]
      PROVE  /\ SN(r, n) \in DOMAIN b[r] /\ c[r][n] = b[r][SN(r, n)]
             /\ r = p => SN(r, n) # 1
  <2>1. CASE r = p
    <3>1. n \in 1..l - 1 /\ n + 1 \in 1..l /\ n + 1 # 1
      BY <1>4, <2>1
    <3> QED
      BY <1>2, <1>4, <2>1, <3>1
  <2>2. CASE r # p
    BY <1>4, <2>2
  <2> QED
    BY <2>1, <2>2
<1>6. Once(c)
  <2> SUFFICES ASSUME NEW k \in Chunks, NEW r \in Places, NEW s \in Places,
                      NEW n \in DOMAIN c[r], NEW o \in DOMAIN c[s],
                      Covers(r, c[r][n], k), Covers(s, c[s][o], k)
               PROVE  r = s /\ n = o
    BY DEF Once
  <2>1. PICK e, v : e = SN(r, n) /\ v = SN(s, o)
    OBVIOUS
  <2>2. e \in DOMAIN b[r] /\ Covers(r, b[r][e], k) /\ v \in DOMAIN b[s] /\ Covers(s, b[s][v], k)
    BY <1>5, <2>1
  <2>3. r = s /\ e = v
    BY <2>2 DEF Once
  <2>4. r = p => n \in Int /\ o \in Int
    BY <1>4, <2>3
  <2> QED
    BY <2>1, <2>3, <2>4
<1>7. ASSUME NEW k \in Chunks, NEW r \in Places, At(c, r, k)
      PROVE  At(b, r, k)
  BY <1>5, <1>7 DEF At
<1>8. At(b, p, x) /\ ~At(c, p, x) /\ \A r \in Places \ {p} : ~At(b, r, x)
  <2>1. Covers(p, b[p][1], x)
    BY <1>3 DEF Covers
  <2>2. \A r \in Places : \A n \in DOMAIN b[r] : Covers(r, b[r][n], x) => p = r /\ 1 = n
    BY <1>2, <2>1 DEF Once
  <2> QED
    BY <1>2, <1>5, <2>1, <2>2 DEF At
<1>9. ASSUME NEW k \in Chunks, On(b, k), k # x
      PROVE  On(c, k)
  <2>1. PICK r \in Places : \E n \in DOMAIN b[r] : Covers(r, b[r][n], k)
    BY <1>9 DEF On, At
  <2>2. PICK n \in DOMAIN b[r] : Covers(r, b[r][n], k)
    BY <2>1
  <2>3. CASE r = p
    <3>1. n # 1
      BY <1>3, <1>9, <2>2, <2>3 DEF Covers
    <3>2. n - 1 \in 1..l - 1 /\ (n - 1) + 1 = n
      BY <1>2, <2>3, <3>1
    <3>3. Covers(p, c[p][n - 1], k)
      BY <1>4, <2>2, <2>3, <3>2
    <3> QED
      BY <1>4, <3>2, <3>3 DEF On, At
  <2>4. CASE r # p
    BY <1>4, <2>2, <2>4 DEF On, At
  <2> QED
    BY <2>3, <2>4
<1>10. ~On(c, x)
  BY <1>7, <1>8 DEF On
<1>11. ASSUME NEW k \in Chunks, On(c, k)
       PROVE  On(b, k)
  BY <1>7, <1>11 DEF On
<1> QED
  BY <1>3, <1>4, <1>6, <1>7, <1>8, <1>9, <1>10, <1>11

(* ... or a coarse chunk none of which is on the belt is put at the end of *)
(* place p.                                                                *)
Added(b, c, p, i) ==
  /\ c = [r \in Places |-> c[r]] /\ \A r \in Places \ {p} : c[r] = b[r]
  /\ c[p] = Append(b[p], <<i, 0>>)

LEMMA AddKeeps ==
  ASSUME NEW b \in [Places -> Seq(Chunks)], NEW p \in Places, Raw(p),
         NEW i \in L1, NEW c, Added(b, c, p, i), Once(b),
         \A k \in Chunks : k[1] = i => ~On(b, k)
  PROVE  /\ c \in [Places -> Seq(Chunks)]
         /\ Once(c)
         /\ \A k \in Chunks : On(c, k) <=> On(b, k) \/ k[1] = i
         /\ \A k \in Chunks : \A r \in Places : At(c, r, k) => At(b, r, k) \/ (r = p /\ k[1] = i)
<1>1. PICK l \in Nat : l = Len(b[p])
  BY LenProperties
<1>2. DOMAIN b[p] = 1..l
  BY <1>1
<1>3. <<i, 0>> \in Chunks
  BY ChunkAt, InputTypes
<1>4. PICK x \in Chunks : x = <<i, 0>>
  BY <1>3
<1>5. /\ c \in [Places -> Seq(Chunks)]
      /\ DOMAIN c[p] = 1..l + 1
      /\ c[p][l + 1] = x
      /\ \A n \in 1..l : c[p][n] = b[p][n]
      /\ \A r \in Places \ {p} : c[r] = b[r]
  <2>1. PICK s \in Seq(Chunks) : s = b[p]
    OBVIOUS
  <2>2. PICK u : u = Append(s, x)
    OBVIOUS
  <2>3. /\ u \in Seq(Chunks) /\ DOMAIN u = 1..l + 1 /\ u[l + 1] = x
        /\ \A n \in 1..l : u[n] = s[n]
    BY <1>1, <2>1, <2>2
  <2>4. c[p] = u /\ (\A r \in Places \ {p} : c[r] = b[r]) /\ c = [r \in Places |-> c[r]]
    BY <1>4, <2>1, <2>2 DEF Added
  <2>5. c \in [Places -> Seq(Chunks)]
    BY <2>3, <2>4
  <2> QED
    BY <2>1, <2>3, <2>4, <2>5
<1>6. ASSUME NEW k \in Chunks
      PROVE  Covers(p, x, k) <=> k[1] = i
  BY <1>4, ChunkTypesOf DEF Covers
<1>7. ASSUME NEW r \in Places, NEW n \in DOMAIN c[r]
      PROVE  \/ n \in DOMAIN b[r] /\ c[r][n] = b[r][n] /\ ~(r = p /\ n = l + 1)
             \/ r = p /\ n = l + 1 /\ c[r][n] = x
  <2>1. CASE r = p /\ n = l + 1
    BY <1>5, <2>1
  <2>2. CASE r = p /\ n # l + 1
    <3>1. n \in 1..l
      BY <1>5, <2>2
    <3> QED
      BY <1>2, <1>5, <2>2, <3>1
  <2>3. CASE r # p
    BY <1>5, <2>3
  <2> QED
    BY <2>1, <2>2, <2>3
<1>8. ASSUME NEW k \in Chunks, k[1] = i, NEW r \in Places, NEW n \in DOMAIN b[r]
      PROVE  ~Covers(r, b[r][n], k)
  BY <1>8 DEF On, At
<1>9. Once(c)
  <2> SUFFICES ASSUME NEW k \in Chunks, NEW r \in Places, NEW s \in Places,
                      NEW n \in DOMAIN c[r], NEW o \in DOMAIN c[s],
                      Covers(r, c[r][n], k), Covers(s, c[s][o], k)
               PROVE  r = s /\ n = o
    BY DEF Once
  <2>1. CASE k[1] = i
    BY <1>7, <1>8, <2>1
  <2>2. CASE k[1] # i
    <3>1. n \in DOMAIN b[r] /\ c[r][n] = b[r][n] /\ o \in DOMAIN b[s] /\ c[s][o] = b[s][o]
      BY <1>6, <1>7, <2>2
    <3> QED
      BY <3>1 DEF Once
  <2> QED
    BY <2>1, <2>2
<1>10. ASSUME NEW k \in Chunks, NEW r \in Places, At(c, r, k)
       PROVE  At(b, r, k) \/ (r = p /\ k[1] = i)
  BY <1>6, <1>7, <1>10 DEF At
<1>11. ASSUME NEW k \in Chunks, On(b, k)
       PROVE  On(c, k)
  <2>1. PICK r \in Places : \E n \in DOMAIN b[r] : Covers(r, b[r][n], k)
    BY <1>11 DEF On, At
  <2>2. PICK n \in DOMAIN b[r] : Covers(r, b[r][n], k)
    BY <2>1
  <2>3. n \in DOMAIN c[r] /\ c[r][n] = b[r][n]
    <3>1. CASE r = p
      <4>1. n \in 1..l /\ n \in 1..l + 1
        BY <1>2, <3>1
      <4> QED
        BY <1>5, <3>1, <4>1
    <3>2. CASE r # p
      BY <1>5, <3>2
    <3> QED
      BY <3>1, <3>2
  <2> QED
    BY <2>2, <2>3 DEF On, At
<1>12. ASSUME NEW k \in Chunks, k[1] = i
       PROVE  On(c, k)
  <2>1. l + 1 \in DOMAIN c[p]
    BY <1>5
  <2> QED
    BY <1>5, <1>6, <1>12, <2>1 DEF On, At
<1>13. ASSUME NEW k \in Chunks, On(c, k)
       PROVE  On(b, k) \/ k[1] = i
  BY <1>10, <1>13 DEF On
<1> QED
  BY <1>5, <1>9, <1>10, <1>11, <1>12, <1>13

LEMMA PlacePhases ==
  /\ \A q, g : ToDedup(QueueAt(q, g)) <=> q \in {"refine", "dedup"}
  /\ \A q, g : ToCompress(QueueAt(q, g)) <=> q = "compress"
  /\ \A w : ToDedup(RecvAt(w)) <=> Stage(w) \in {"refine", "dedup"}
  /\ \A w : ToCompress(RecvAt(w)) <=> Stage(w) = "compress"
  /\ \A w, out : ToDedup(SendAt(w, out)) <=> Stage(w) = "refine"
  /\ \A w, out : ToCompress(SendAt(w, out)) <=> out = "compress"
  /\ ~ToDedup(WriterAt) /\ ~ToCompress(WriterAt)
  BY DEF ToDedup, ToCompress, QueueAt, RecvAt, SendAt, WriterAt, Stage

-----------------------------------------------------------------------------
(* What leaves parts of the invariant alone *)

StillDrained == \A q \in Queues : \A g \in Groups : Drained(q, g) => Drained(q, g)'
SameAtWriter == \A k \in Chunks : AtWriter(k)' <=> AtWriter(k)

LEMMA WriterSame ==
  ASSUME writer' = writer
  PROVE  SameAtWriter /\ (WriterTypes => WriterTypes') /\ (BoundInv => BoundInv')
  BY DEF SameAtWriter, AtWriter, Written, WriterTypes, BoundInv

LEMMA PlaceKept ==
  ASSUME PlaceInv, Once(Belt)', \A k \in Chunks : On(Belt, k)' <=> On(Belt, k), sent' = sent,
         SameAtWriter, writer'.held = writer.held, writer'.next = writer.next,
         writer'.pc = "write" => writer.pc = "write" /\ writer'.chunk = writer.chunk
  PROVE  PlaceInv'
<1>1. \A k \in Chunks : Written(k)' <=> Written(k)
  BY DEF Written
<1>2. \A k \in writer'.held : ~Written(k)'
  BY DEF PlaceInv, Written
<1> QED
  BY <1>2 DEF PlaceInv, SameAtWriter

LEMMA PhaseKept ==
  ASSUME PhaseInv, UNCHANGED <<original, state, sent>>, SameAtWriter,
         \A k \in Chunks : \A p \in Places : At(Belt, p, k)' =>
            \E q \in Places : /\ At(Belt, q, k)
                              /\ ToDedup(p) <=> ToDedup(q)
                              /\ ToCompress(p) <=> ToCompress(q)
  PROVE  PhaseInv'
<1>1. \A k \in Chunks : New(k)' <=> New(k)
  BY DEF New
<1>2. ASSUME NEW k \in Chunks, NEW p \in Places, At(Belt, p, k)'
      PROVE  /\ ToDedup(p) => New(k)'
             /\ ToCompress(p) => original'[k] = k /\ state'[k] = "uncompressed"
             /\ ~ToDedup(p) => original'[k] # NoChunk
  <2>1. PICK q \in Places : /\ At(Belt, q, k)
                            /\ ToDedup(p) <=> ToDedup(q)
                            /\ ToCompress(p) <=> ToCompress(q)
    BY <1>2
  <2>2. /\ ToDedup(q) => New(k)
        /\ ToCompress(q) => original[k] = k /\ state[k] = "uncompressed"
        /\ ~ToDedup(q) => original[k] # NoChunk
    BY <2>1 DEF PhaseInv
  <2> QED
    BY <1>1, <2>1, <2>2
<1>3. ASSUME NEW k \in Chunks
      PROVE  /\ k[1] >= sent' => New(k)'
             /\ AtWriter(k)' => original'[k] # NoChunk
  BY <1>1 DEF PhaseInv, SameAtWriter
<1> QED
  BY <1>2, <1>3 DEF PhaseInv

LEMMA TableKept ==
  ASSUME TableInv, UNCHANGED <<original, table, state>>, writer'.next = writer.next
  PROVE  TableInv'
  BY DEF TableInv, Written

LEMMA FileKept ==
  ASSUME FileInv, UNCHANGED file, writer'.next = writer.next
  PROVE  FileInv'
  BY DEF FileInv

LEMMA TriesKept ==
  ASSUME TriesInv, writer' = writer, StillDrained
  PROVE  TriesInv'
<1>1. "reorder" \in Queues
  BY DEF Queues
<1> QED
  BY <1>1 DEF TriesInv, StillDrained

LEMMA EndKept ==
  ASSUME EndInv, UNCHANGED <<ended, pc, sent>>, StillDrained,
         \A w \in Workers : /\ pc[w] # "work" => recv'[w] = recv[w]
                            /\ pc[w] = "done" => send'[w] = send[w]
  PROVE  EndInv'
<1>1. \A w \in Workers : Stage(w) \in Queues /\ Qid(w) \in Groups
  BY WorkerTypesOf
<1>2. ASSUME NEW w \in Workers
      PROVE  /\ pc'[w] # "work" => recv'[w] = <<>> /\ Drained(Stage(w), Qid(w))'
             /\ pc'[w] = "done" => \A out \in SendsTo(w) : send'[w][out] = <<>>
  BY <1>1 DEF EndInv, StillDrained
<1> QED
  BY <1>2 DEF EndInv

LEMMA ChunkTypesKept ==
  ASSUME ChunkTypes, UNCHANGED chunkVars
  PROVE  ChunkTypes'
  BY DEF ChunkTypes, chunkVars

(* When a queue is terminated, everyone who puts items into it is done.    *)
LEMMA DoneWhenEnded ==
  ASSUME EndInv, NEW q \in Queues \ {"refine"}, NEW g \in Groups
  PROVE  /\ ended[<<q, g>>] \in Nat /\ NProducers(q, g) \in Nat
         /\ ended[<<q, g>>] <= NProducers(q, g)
         /\ ended[<<q, g>>] = NProducers(q, g) =>
               \A w \in Workers : q \in SendsTo(w) /\ Qid(w) = g => pc[w] = "done"
<1>1. ASSUME NEW r \in Queues \ {"refine"}
      PROVE  /\ ended[<<r, g>>] \in Nat /\ NProducers(r, g) \in Nat
             /\ ended[<<r, g>>] <= NProducers(r, g)
             /\ ended[<<r, g>>] = NProducers(r, g) =>
                   \A w \in Workers : Terminates(w) = r /\ Qid(w) = g => pc[w] = "done"
  <2> DEFINE D == {w \in Terminators(r, g) : pc[w] = "done"}
             T == Terminators(r, g)
  <2>1. ended[<<r, g>>] = Cardinality(D)
    BY DEF EndInv
  <2>2. IsFiniteSet(T) /\ Cardinality(T) = NProducers(r, g) /\ NProducers(r, g) \in Nat
    BY TerminatorCount
  <2>3. D \in SUBSET T
    OBVIOUS
  <2>4. D = T => \A w \in Workers : Terminates(w) = r /\ Qid(w) = g => pc[w] = "done"
    BY DEF Terminators
  <2> HIDE DEF D, T
  <2>5. IsFiniteSet(D) /\ Cardinality(D) <= Cardinality(T) /\ (Cardinality(T) = Cardinality(D) => T = D)
    BY <2>2, <2>3, FS_Subset
  <2>6. Cardinality(D) \in Nat
    BY <2>5, FS_CardinalityType
  <2> QED
    BY <2>1, <2>2, <2>4, <2>5, <2>6
<1>2. ASSUME ended[<<q, g>>] = NProducers(q, g), NEW w \in Workers, q \in SendsTo(w), Qid(w) = g,
             Terminates(w) # q
      PROVE  pc[w] = "done"
  <2>1. Stage(w) = "dedup" /\ q = "reorder" /\ Terminates(w) = "compress"
    BY <1>2, WorkerTypesOf DEF Terminates, SendsTo, Stages
  <2>2. PICK v \in Workers : Stage(v) = "compress" /\ Qid(v) = g
    BY GroupHasWorkers DEF Stages
  <2>3. Terminates(v) = "reorder"
    BY <2>2 DEF Terminates
  <2>4. pc[v] = "done"
    BY <1>1, <1>2, <2>1, <2>2, <2>3
  <2>5. ended[<<"compress", g>>] = NProducers("compress", g)
    BY <2>2, <2>4 DEF EndInv, Drained
  <2>6. "compress" \in Queues \ {"refine"}
    BY DEF Queues, Stages
  <2> QED
    BY <1>1, <1>2, <2>1, <2>5, <2>6
<1> QED
  BY <1>1, <1>2

LEMMA RefineEnded ==
  ASSUME EndInv, NEW g \in Groups, sent \in Nat, Len(Input) \in Nat
  PROVE  Drained("refine", g) => sent > Len(Input) + g
  BY DEF EndInv, Drained, NProducers

-----------------------------------------------------------------------------
(* Steps that move items between places of the same phase                  *)

LEMMA MoveStep ==
  ASSUME PlaceInv, BoundInv, PhaseInv, TableInv, FileInv,
         Belt \in [Places -> Seq(Chunks)],
         NEW p \in Places, NEW q \in Places, p # q, NEW m \in Nat, m <= Len(Belt[p]),
         Moved(Belt, Belt', p, q, m),
         Raw(p) <=> Raw(q), ToDedup(p) <=> ToDedup(q), ToCompress(p) <=> ToCompress(q),
         UNCHANGED <<chunkVars, sent, file>>,
         SameAtWriter, writer'.held = writer.held, writer'.next = writer.next,
         writer'.bound = writer.bound,
         writer'.pc = "write" => writer.pc = "write" /\ writer'.chunk = writer.chunk
  PROVE  PlaceInv' /\ BoundInv' /\ PhaseInv' /\ TableInv' /\ FileInv'
<1>1. \A n \in 1..m : \A k \in Chunks : Covers(p, Belt[p][n], k) <=> Covers(q, Belt[p][n], k)
  BY DEF Covers
<1>2. Once(Belt)
  BY DEF PlaceInv
<1>3. /\ Once(Belt')
      /\ \A k \in Chunks : On(Belt', k) <=> On(Belt, k)
      /\ \A k \in Chunks : \A r \in Places : At(Belt', r, k) => At(Belt, r, k) \/ (r = q /\ At(Belt, p, k))
  BY <1>1, <1>2, MoveKeeps
<1>4. PlaceInv'
  BY <1>3, PlaceKept
<1>5. BoundInv'
  BY DEF BoundInv, SameAtWriter
<1>6. PhaseInv'
  BY <1>3, PhaseKept DEF chunkVars
<1>7. TableInv' /\ FileInv'
  BY TableKept, FileKept DEF chunkVars
<1> QED
  BY <1>4, <1>5, <1>6, <1>7

LEMMA TakeTypes ==
  ASSUME NEW S, NEW s \in Seq(S), NEW m \in Nat, m <= Len(s)
  PROVE  /\ SubSeq(s, 1, m) \in Seq(S) /\ Len(SubSeq(s, 1, m)) = m
         /\ SubSeq(s, m + 1, Len(s)) \in Seq(S) /\ Len(SubSeq(s, m + 1, Len(s))) = Len(s) - m
         /\ <<>> \o SubSeq(s, 1, m) = SubSeq(s, 1, m)
         /\ m # 0 => SubSeq(s, 1, m) # <<>>
<1>1. PICK l \in Nat : l = Len(s)
  BY LenProperties
<1>2. PICK u, v : u = SubSeq(s, m + 1, l) /\ v = SubSeq(s, 1, m)
  OBVIOUS
<1>3. u \in Seq(S) /\ v \in Seq(S) /\ Len(u) = l - m /\ Len(v) = m
  BY <1>1, <1>2
<1>4. <<>> \o v = v
  BY <1>3, ConcatEmptySeq
<1>5. m # 0 => v # <<>>
  BY <1>3, EmptySeq
<1> QED
  BY <1>1, <1>2, <1>3, <1>4, <1>5

LEMMA PassTypes ==
  ASSUME NEW S, NEW s \in Seq(S), NEW t \in Seq(S), s # <<>>
  PROVE  /\ Len(s) \in Nat \ {0} /\ 1 \in DOMAIN s /\ Head(s) = s[1] /\ Head(s) \in S
         /\ Tail(s) \in Seq(S) /\ Append(t, Head(s)) \in Seq(S)
         /\ Len(Append(t, Head(s))) = Len(t) + 1
         /\ Tail(s) = SubSeq(s, 2, Len(s))
         /\ Append(t, Head(s)) = t \o SubSeq(s, 1, 1)
<1>1. PICK l \in Nat : l = Len(s) /\ l # 0
  BY LenProperties, EmptySeq
<1>2. 1 \in DOMAIN s /\ Head(s) = s[1] /\ Head(s) \in S /\ Tail(s) \in Seq(S)
  BY <1>1
<1>3. PICK x \in S : x = Head(s)
  BY <1>2
<1>4. Append(t, x) \in Seq(S) /\ Len(Append(t, x)) = Len(t) + 1
  BY AppendProperties
<1>5. Tail(s) = SubSeq(s, 2, Len(s))
  BY <1>1, TailIsSubSeq
<1>6. SubSeq(s, 1, 1) = <<x>>
  <2>1. Len(SubSeq(s, 1, 1)) = 1 /\ SubSeq(s, 1, 1) \in Seq(S) /\ SubSeq(s, 1, 1)[1] = x
    BY <1>1, <1>2, <1>3
  <2>2. Len(<<x>>) = 1 /\ <<x>> \in Seq(S) /\ <<x>>[1] = x
    OBVIOUS
  <2>3. \A i \in 1..Len(<<x>>) : <<x>>[i] = SubSeq(s, 1, 1)[i]
    BY <2>1, <2>2
  <2> QED
    BY <2>1, <2>2, <2>3, SeqEqual
<1>7. Append(t, x) = t \o <<x>>
  BY AppendIsConcat
<1> QED
  BY <1>1, <1>2, <1>3, <1>4, <1>5, <1>6, <1>7

LEMMA QueueChunks ==
  ASSUME QueueTypes, NEW q \in Queues, NEW g \in Groups
  PROVE  /\ queue[<<q, g>>] \in Seq(Chunks) /\ Len(queue[<<q, g>>]) \in Nat
         /\ Len(queue[<<q, g>>]) <= QueueSize
         /\ queue[<<q, g>>] # <<>> => Len(queue[<<q, g>>]) # 0
         /\ Taken(q, g) \in Nat /\ Taken(q, g) <= Len(queue[<<q, g>>])
         /\ queue[<<q, g>>] # <<>> => Taken(q, g) # 0
<1>1. queue[<<q, g>>] \in Seq(Chunks) /\ Len(queue[<<q, g>>]) <= QueueSize
  BY DEF QueueTypes
<1>2. /\ Len(queue[<<q, g>>]) \in Nat
      /\ queue[<<q, g>>] # <<>> => Len(queue[<<q, g>>]) # 0
  BY <1>1, LenProperties, EmptySeq
<1>3. PICK l \in Nat : l = Len(queue[<<q, g>>])
  BY <1>2
<1>4. /\ Taken(q, g) \in Nat /\ Taken(q, g) <= l
      /\ l # 0 => Taken(q, g) # 0
  BY <1>3, Sizes, MinOfTwo DEF Taken
<1> QED
  BY <1>1, <1>2, <1>3, <1>4

LEMMA FetchStep ==
  ASSUME IInv, NEW w \in Workers, Fetch(w)
  PROVE  IInv'
<1> USE DEF IInv, Types
<1>1. PICK q \in Queues, g \in Groups : q = Stage(w) /\ g = Qid(w)
  BY WorkerTypesOf
<1>2. PICK n \in Nat : n = Taken(q, g) /\ n <= Len(queue[<<q, g>>])
  BY QueueChunks
<1>3. PICK s \in Seq(Chunks) : s = queue[<<q, g>>] /\ s # <<>>
  BY <1>1, QueueChunks DEF Fetch
<1>4. /\ pc[w] = "work" /\ recv[w] = <<>>
      /\ recv' = [recv EXCEPT ![w] = SubSeq(s, 1, n)]
      /\ queue' = [queue EXCEPT ![<<q, g>>] = SubSeq(s, n + 1, Len(s))]
      /\ UNCHANGED <<sent, ended, pc, send, chunkVars, writer, file>>
  BY <1>1, <1>2, <1>3 DEF Fetch
<1>5. /\ SubSeq(s, 1, n) \in Seq(Chunks)
      /\ SubSeq(s, n + 1, Len(s)) \in Seq(Chunks) /\ Len(SubSeq(s, n + 1, Len(s))) = Len(s) - n
      /\ <<>> \o SubSeq(s, 1, n) = SubSeq(s, 1, n)
  BY <1>2, <1>3, TakeTypes
<1>6. QueueTypes'
  <2>1. queue' \in [Queues \X Groups -> Seq(Chunks)]
    BY <1>4, <1>5 DEF QueueTypes
  <2>2. Len(SubSeq(s, n + 1, Len(s))) <= QueueSize
    BY <1>2, <1>3, <1>5, QueueChunks, Sizes
  <2>3. \A x \in Queues \X Groups : Len(queue'[x]) <= QueueSize
    BY <1>4, <2>2 DEF QueueTypes
  <2> QED
    BY <1>4, <2>1, <2>3 DEF QueueTypes
<1>7. WorkerTypes'
  <2>1. recv' \in [Workers -> Seq(Chunks)]
    BY <1>4, <1>5 DEF WorkerTypes
  <2> QED
    BY <1>4, <2>1 DEF WorkerTypes
<1>8. Moved(Belt, Belt', QueueAt(q, g), RecvAt(w), n)
  <2>1. \A r \in Places \ {QueueAt(q, g), RecvAt(w)} : Belt'[r] = Belt[r]
    <3>1. \A r \in Queues : \A h \in Groups : QueueAt(r, h) # QueueAt(q, g) =>
             queue'[<<r, h>>] = queue[<<r, h>>]
      BY <1>4 DEF QueueTypes
    <3>2. \A v \in Workers : RecvAt(v) # RecvAt(w) => recv'[v] = recv[v]
      BY <1>4 DEF WorkerTypes
    <3> QED
      BY <1>4, <3>1, <3>2, BeltElsewhere
  <2>2. Belt[QueueAt(q, g)] = s /\ Belt[RecvAt(w)] = <<>>
    BY <1>3, <1>4, BeltAt
  <2>3. Belt'[QueueAt(q, g)] = SubSeq(s, n + 1, Len(s))
    BY <1>4, BeltAtNext DEF QueueTypes
  <2>4. Belt'[RecvAt(w)] = <<>> \o SubSeq(s, 1, n)
    BY <1>4, <1>5, BeltAtNext DEF WorkerTypes
  <2> QED
    BY <2>1, <2>2, <2>3, <2>4, BeltAtNext DEF Moved
<1>9. StillDrained
  <2>1. ASSUME NEW r \in Queues, NEW h \in Groups, Drained(r, h)
        PROVE  Drained(r, h)'
    <3>1. <<r, h>> # <<q, g>>
      BY <1>3, <2>1 DEF Drained
    <3>2. queue'[<<r, h>>] = queue[<<r, h>>]
      BY <1>4, <3>1 DEF QueueTypes
    <3> QED
      BY <1>4, <2>1, <3>2 DEF Drained
  <2> QED
    BY <2>1 DEF StillDrained
<1>10. SameAtWriter /\ WriterTypes'
  BY <1>4, WriterSame
<1>11. ChunkTypes'
  BY <1>4, ChunkTypesKept
<1>12. EndInv'
  <2>1. \A v \in Workers : pc[v] # "work" => recv'[v] = recv[v]
    BY <1>4 DEF WorkerTypes
  <2> QED
    BY <1>4, <1>9, <2>1, EndKept
<1>13. TriesInv'
  BY <1>4, <1>9, TriesKept
<1>14. PlaceInv' /\ BoundInv' /\ PhaseInv' /\ TableInv' /\ FileInv'
  <2>1. Belt \in [Places -> Seq(Chunks)]
    BY BeltTypes DEF WriterTypes
  <2>2. QueueAt(q, g) \in Places /\ RecvAt(w) \in Places /\ QueueAt(q, g) # RecvAt(w)
    BY PlaceNames, PlacesDiffer
  <2>3. /\ Raw(QueueAt(q, g)) <=> Raw(RecvAt(w))
        /\ ToDedup(QueueAt(q, g)) <=> ToDedup(RecvAt(w))
        /\ ToCompress(QueueAt(q, g)) <=> ToCompress(RecvAt(w))
    BY <1>1, RawPlaces, PlacePhases
  <2>4. n <= Len(Belt[QueueAt(q, g)])
    BY <1>2, BeltAt
  <2> QED
    BY <1>4, <1>8, <1>10, <2>1, <2>2, <2>3, <2>4, MoveStep
<1> QED
  BY <1>6, <1>7, <1>10, <1>11, <1>12, <1>13, <1>14

LEMMA StillStep ==
  ASSUME PlaceInv, BoundInv, PhaseInv, TableInv, FileInv, Belt' = Belt,
         UNCHANGED <<chunkVars, sent, file>>,
         SameAtWriter, writer'.held = writer.held, writer'.next = writer.next,
         writer'.bound = writer.bound,
         writer'.pc = "write" => writer.pc = "write" /\ writer'.chunk = writer.chunk
  PROVE  PlaceInv' /\ BoundInv' /\ PhaseInv' /\ TableInv' /\ FileInv'
<1>1. Once(Belt') /\ \A k \in Chunks : On(Belt', k) <=> On(Belt, k)
  BY DEF PlaceInv
<1>2. PlaceInv'
  BY <1>1, PlaceKept
<1>3. BoundInv'
  BY DEF BoundInv, SameAtWriter
<1>4. \A k \in Chunks : \A p \in Places : At(Belt', p, k) => At(Belt, p, k)
  OBVIOUS
<1>5. PhaseInv'
  BY <1>4, PhaseKept DEF chunkVars
<1>6. TableInv' /\ FileInv'
  BY TableKept, FileKept DEF chunkVars
<1> QED
  BY <1>2, <1>3, <1>5, <1>6

LEMMA FetchFailsStep ==
  ASSUME IInv, NEW w \in Workers, FetchFails(w)
  PROVE  IInv'
<1> USE DEF IInv, Types
<1>1. /\ pc[w] = "work" /\ recv[w] = <<>> /\ Drained(Stage(w), Qid(w))
      /\ pc' = [pc EXCEPT ![w] = "drain"]
      /\ UNCHANGED <<sent, queue, ended, recv, send, chunkVars, writer, file>>
  BY DEF FetchFails
<1>2. QueueTypes' /\ WorkerTypes'
  BY <1>1 DEF QueueTypes, WorkerTypes
<1>3. SameAtWriter /\ WriterTypes' /\ ChunkTypes'
  BY <1>1, WriterSame, ChunkTypesKept
<1>4. StillDrained
  BY <1>1 DEF StillDrained, Drained
<1>5. TriesInv'
  BY <1>1, <1>4, TriesKept
<1>6. EndInv'
  <2>1. \A v \in Workers : pc'[v] = IF v = w THEN "drain" ELSE pc[v]
    BY <1>1 DEF WorkerTypes
  <2>2. \A q \in Queues \ {"refine"} : \A g \in Groups :
           {v \in Terminators(q, g) : pc'[v] = "done"} = {v \in Terminators(q, g) : pc[v] = "done"}
    BY <1>1, <2>1 DEF Terminators
  <2>3. \A g \in Groups :
          /\ ended'[<<"refine", g>>] = IF sent' > Len(Input) + g THEN 1 ELSE 0
          /\ \A q \in Queues \ {"refine"} :
                ended'[<<q, g>>] = Cardinality({v \in Terminators(q, g) : pc'[v] = "done"})
    BY <1>1, <2>2 DEF EndInv
  <2>4. \A v \in Workers : /\ pc'[v] # "work" => recv'[v] = <<>> /\ Drained(Stage(v), Qid(v))'
                           /\ pc'[v] = "done" => \A out \in SendsTo(v) : send'[v][out] = <<>>
    BY <1>1, <1>4, <2>1, WorkerTypesOf DEF EndInv, StillDrained
  <2> QED
    BY <2>3, <2>4 DEF EndInv
<1>7. Belt' = Belt
  BY <1>1, BeltSame
<1>8. PlaceInv' /\ BoundInv' /\ PhaseInv' /\ TableInv' /\ FileInv'
  BY <1>1, <1>3, <1>7, StillStep
<1> QED
  BY <1>2, <1>3, <1>5, <1>6, <1>8

LEMMA FlushStep ==
  ASSUME IInv, NEW w \in Workers, NEW out \in SendsTo(w), Flush(w, out)
  PROVE  IInv'
<1> USE DEF IInv, Types
<1>1. PICK g \in Groups : g = Qid(w)
  BY WorkerTypesOf
<1>2. out \in Queues \ {"refine"}
  BY WorkerTypesOf
<1>3. PICK s \in Seq(Chunks), t \in Seq(Chunks) : s = send[w][out] /\ t = queue[<<out, g>>]
  BY <1>2, QueueChunks DEF WorkerTypes
<1>4. PICK l \in Nat, j \in Nat : l = Len(s) /\ j = Len(t) /\ l <= PerInsert /\ j <= QueueSize
  BY <1>2, <1>3, LenProperties DEF WorkerTypes, QueueTypes
<1>5. PICK n \in Nat : n = Min({l, QueueSize - j}) /\ n <= l /\ n <= QueueSize - j
  <2>1. PICK room \in Nat : room = QueueSize - j
    BY <1>4, Sizes
  <2>2. Min({l, room}) \in Nat /\ Min({l, room}) <= l /\ Min({l, room}) <= room
    BY MinOfTwo
  <2> QED
    BY <2>1, <2>2
<1>6. /\ n > 0 /\ FlushDue(w, out)
      /\ queue' = [queue EXCEPT ![<<out, g>>] = t \o SubSeq(s, 1, n)]
      /\ send' = [send EXCEPT ![w][out] = SubSeq(s, n + 1, Len(s))]
      /\ UNCHANGED <<sent, ended, pc, recv, chunkVars, writer, file>>
  BY <1>1, <1>3, <1>4, <1>5 DEF Flush, Room
<1>7. /\ t \o SubSeq(s, 1, n) \in Seq(Chunks) /\ Len(t \o SubSeq(s, 1, n)) = j + n
      /\ SubSeq(s, n + 1, Len(s)) \in Seq(Chunks) /\ Len(SubSeq(s, n + 1, Len(s))) = l - n
  <2>1. /\ SubSeq(s, 1, n) \in Seq(Chunks) /\ Len(SubSeq(s, 1, n)) = n
        /\ SubSeq(s, n + 1, Len(s)) \in Seq(Chunks) /\ Len(SubSeq(s, n + 1, Len(s))) = Len(s) - n
    BY <1>4, <1>5, TakeTypes
  <2>2. PICK v \in Seq(Chunks) : v = SubSeq(s, 1, n)
    BY <2>1
  <2>3. t \o v \in Seq(Chunks) /\ Len(t \o v) = Len(t) + Len(v)
    BY ConcatElements
  <2> QED
    BY <1>4, <2>1, <2>2, <2>3
<1>8. pc[w] # "done"
  BY <1>6 DEF FlushDue
<1>9. QueueTypes'
  <2>1. queue' \in [Queues \X Groups -> Seq(Chunks)]
    BY <1>6, <1>7 DEF QueueTypes
  <2>2. j + n <= QueueSize
    BY <1>4, <1>5, Sizes
  <2>3. \A x \in Queues \X Groups : Len(queue'[x]) <= QueueSize
    BY <1>6, <1>7, <2>2 DEF QueueTypes
  <2> QED
    BY <1>6, <2>1, <2>3 DEF QueueTypes
<1>10. WorkerTypes'
  <2>1. PICK u \in Seq(Chunks) : u = SubSeq(s, n + 1, Len(s)) /\ Len(u) <= PerInsert
    <3>1. l - n <= PerInsert
      BY <1>4, <1>5, Sizes
    <3> QED
      BY <1>7, <3>1
  <2>2. send' = [v \in Workers |-> send'[v]]
    BY <1>6 DEF WorkerTypes
  <2>3. \A v \in Workers : v # w => send'[v] = send[v]
    BY <1>6 DEF WorkerTypes
  <2>4. send'[w] = [send[w] EXCEPT ![out] = u]
    BY <1>6, <2>1 DEF WorkerTypes
  <2>5. /\ send[w] \in [SendsTo(w) -> Seq(Chunks)]
        /\ \A o \in SendsTo(w) : Len(send[w][o]) <= PerInsert
    BY DEF WorkerTypes
  <2>6. /\ send'[w] \in [SendsTo(w) -> Seq(Chunks)]
        /\ \A o \in SendsTo(w) : Len(send'[w][o]) <= PerInsert
    BY <2>1, <2>4, <2>5
  <2>7. \A v \in Workers : /\ send'[v] \in [SendsTo(v) -> Seq(Chunks)]
                           /\ \A o \in SendsTo(v) : Len(send'[v][o]) <= PerInsert
    BY <2>3, <2>6 DEF WorkerTypes
  <2> QED
    BY <1>6, <2>2, <2>7 DEF WorkerTypes
<1>11. Moved(Belt, Belt', SendAt(w, out), QueueAt(out, g), n)
  <2>1. \A r \in Places \ {SendAt(w, out), QueueAt(out, g)} : Belt'[r] = Belt[r]
    <3>1. \A r \in Queues : \A h \in Groups : QueueAt(r, h) # QueueAt(out, g) =>
             queue'[<<r, h>>] = queue[<<r, h>>]
      BY <1>6 DEF QueueTypes
    <3>2. \A v \in Workers : \A o \in SendsTo(v) : SendAt(v, o) # SendAt(w, out) =>
             send'[v][o] = send[v][o]
      BY <1>6 DEF WorkerTypes
    <3> QED
      BY <1>6, <3>1, <3>2, BeltElsewhere
  <2>2. Belt[QueueAt(out, g)] = t /\ Belt[SendAt(w, out)] = s
    BY <1>2, <1>3, BeltAt
  <2>3. Belt'[QueueAt(out, g)] = t \o SubSeq(s, 1, n)
    BY <1>2, <1>6, BeltAtNext DEF QueueTypes
  <2>4. Belt'[SendAt(w, out)] = SubSeq(s, n + 1, Len(s))
    BY <1>6, BeltAtNext DEF WorkerTypes
  <2> QED
    BY <2>1, <2>2, <2>3, <2>4, BeltAtNext DEF Moved
<1>12. StillDrained
  <2>1. ASSUME NEW r \in Queues, NEW h \in Groups, Drained(r, h)
        PROVE  Drained(r, h)'
    <3>1. <<r, h>> # <<out, g>>
      BY <1>1, <1>2, <1>8, <2>1, DoneWhenEnded DEF Drained
    <3>2. queue'[<<r, h>>] = queue[<<r, h>>]
      BY <1>6, <3>1 DEF QueueTypes
    <3> QED
      BY <1>6, <2>1, <3>2 DEF Drained
  <2> QED
    BY <2>1 DEF StillDrained
<1>13. SameAtWriter /\ WriterTypes'
  BY <1>6, WriterSame
<1>14. ChunkTypes'
  BY <1>6, ChunkTypesKept
<1>15. EndInv'
  <2>1. \A v \in Workers : pc[v] = "done" => send'[v] = send[v]
    BY <1>6, <1>8 DEF WorkerTypes
  <2> QED
    BY <1>6, <1>12, <2>1, EndKept
<1>16. TriesInv'
  BY <1>6, <1>12, TriesKept
<1>17. PlaceInv' /\ BoundInv' /\ PhaseInv' /\ TableInv' /\ FileInv'
  <2>1. Belt \in [Places -> Seq(Chunks)]
    BY BeltTypes DEF WriterTypes
  <2>2. QueueAt(out, g) \in Places /\ SendAt(w, out) \in Places /\ SendAt(w, out) # QueueAt(out, g)
    BY <1>2, PlaceNames, PlacesDiffer
  <2>3. /\ Raw(SendAt(w, out)) <=> Raw(QueueAt(out, g))
        /\ ToDedup(SendAt(w, out)) <=> ToDedup(QueueAt(out, g))
        /\ ToCompress(SendAt(w, out)) <=> ToCompress(QueueAt(out, g))
    BY WorkerTypesOf, RawPlaces, PlacePhases DEF SendsTo, Stages
  <2>4. n <= Len(Belt[SendAt(w, out)])
    BY <1>3, <1>4, <1>5, BeltAt
  <2> QED
    BY <1>6, <1>11, <1>13, <2>1, <2>2, <2>3, <2>4, MoveStep
<1> QED
  BY <1>9, <1>10, <1>13, <1>14, <1>15, <1>16, <1>17

LEMMA TerminateStep ==
  ASSUME IInv, NEW w \in Workers, Terminate(w)
  PROVE  IInv'
<1> USE DEF IInv, Types
<1>1. PICK t \in Queues \ {"refine"}, g \in Groups : t = Terminates(w) /\ g = Qid(w) /\ t \in SendsTo(w)
  BY WorkerTypesOf
<1>2. /\ pc[w] = "drain" /\ \A out \in SendsTo(w) : send[w][out] = <<>>
      /\ ended' = [ended EXCEPT ![<<t, g>>] = @ + 1]
      /\ pc' = [pc EXCEPT ![w] = "done"]
      /\ UNCHANGED <<sent, queue, recv, send, chunkVars, writer, file>>
  BY <1>1 DEF Terminate
<1>3. QueueTypes' /\ WorkerTypes'
  <2>1. ended' \in [Queues \X Groups -> Nat]
    BY <1>2 DEF QueueTypes
  <2>2. pc' \in [Workers -> {"work", "drain", "done"}]
    BY <1>2 DEF WorkerTypes
  <2> QED
    BY <1>2, <2>1, <2>2 DEF QueueTypes, WorkerTypes
<1>4. SameAtWriter /\ WriterTypes' /\ ChunkTypes'
  BY <1>2, WriterSame, ChunkTypesKept
<1>5. \A x \in Queues \X Groups : ended'[x] = IF x = <<t, g>> THEN ended[x] + 1 ELSE ended[x]
  BY <1>2 DEF QueueTypes
<1>6. StillDrained
  <2>1. ASSUME NEW r \in Queues, NEW h \in Groups, Drained(r, h)
        PROVE  Drained(r, h)'
    <3>1. <<r, h>> # <<t, g>>
      BY <1>1, <1>2, <2>1, DoneWhenEnded DEF Drained
    <3> QED
      BY <1>2, <1>5, <2>1, <3>1 DEF Drained
  <2> QED
    BY <2>1 DEF StillDrained
<1>7. TriesInv'
  BY <1>2, <1>6, TriesKept
<1>8. EndInv'
  <2>1. \A v \in Workers : pc'[v] = IF v = w THEN "done" ELSE pc[v]
    BY <1>2 DEF WorkerTypes
  <2>2. ASSUME NEW q \in Queues \ {"refine"}, NEW h \in Groups
        PROVE  ended'[<<q, h>>] = Cardinality({v \in Terminators(q, h) : pc'[v] = "done"})
    <3> DEFINE D == {v \in Terminators(q, h) : pc[v] = "done"}
               E == {v \in Terminators(q, h) : pc'[v] = "done"}
    <3>1. ended[<<q, h>>] = Cardinality(D)
      BY DEF EndInv
    <3>2. CASE <<q, h>> = <<t, g>>
      <4>1. w \in Terminators(q, h)
        BY <1>1, <3>2 DEF Terminators
      <4>2. E = D \cup {w}
        BY <2>1, <4>1 DEF Terminators
      <4>3. w \notin D
        BY <1>2
      <4>4. IsFiniteSet(D)
        <5>1. IsFiniteSet(Terminators(q, h)) /\ D \in SUBSET Terminators(q, h)
          BY TerminatorCount
        <5> HIDE DEF D
        <5> QED
          BY <5>1, FS_Subset
      <4> HIDE DEF D, E
      <4>5. Cardinality(E) = Cardinality(D) + 1
        BY <4>2, <4>3, <4>4, FS_AddElement
      <4>6. <<q, h>> \in Queues \X Groups
        OBVIOUS
      <4> QED
        BY <1>5, <3>1, <3>2, <4>5, <4>6 DEF E
    <3>3. CASE <<q, h>> # <<t, g>>
      <4>1. w \notin Terminators(q, h)
        BY <1>1, <3>3 DEF Terminators
      <4>2. E = D
        BY <2>1, <4>1 DEF Terminators
      <4> QED
        BY <1>5, <3>1, <3>3, <4>2
    <3> QED
      BY <3>2, <3>3
  <2>3. ASSUME NEW h \in Groups
        PROVE  ended'[<<"refine", h>>] = IF sent' > Len(Input) + h THEN 1 ELSE 0
    <3>1. <<"refine", h>> \in Queues \X Groups /\ <<"refine", h>> # <<t, g>>
      BY <1>1 DEF Queues, Stages
    <3> QED
      BY <1>2, <1>5, <3>1 DEF EndInv
  <2>4. \A v \in Workers : /\ pc'[v] # "work" => recv'[v] = <<>> /\ Drained(Stage(v), Qid(v))'
                           /\ pc'[v] = "done" => \A out \in SendsTo(v) : send'[v][out] = <<>>
    BY <1>2, <1>6, <2>1, WorkerTypesOf DEF EndInv, StillDrained
  <2> QED
    BY <2>2, <2>3, <2>4 DEF EndInv
<1>9. Belt' = Belt
  BY <1>2, BeltSame
<1>10. PlaceInv' /\ BoundInv' /\ PhaseInv' /\ TableInv' /\ FileInv'
  BY <1>2, <1>4, <1>9, StillStep
<1> QED
  BY <1>3, <1>4, <1>7, <1>8, <1>10

LEMMA FragmentEndsStep ==
  ASSUME IInv, FragmentEnds
  PROVE  IInv'
<1> USE DEF IInv, Types
<1>1. PICK g \in Groups : g = sent - Len(Input)
  <2>1. sent \in Nat /\ Len(Input) \in Nat /\ sent >= Len(Input) /\ sent - Len(Input) < NQueues
    BY InputTypes DEF FragmentEnds, QueueTypes
  <2> QED
    BY <2>1, QueueNumbers DEF Groups
<1>2. /\ sent \in Nat /\ Len(Input) \in Nat /\ g \in Nat /\ g < NQueues /\ NQueues \in Nat
      /\ sent = Len(Input) + g /\ sent' = sent + 1
      /\ ended' = [ended EXCEPT ![<<"refine", g>>] = @ + 1]
      /\ UNCHANGED <<queue, pc, recv, send, chunkVars, writer, file>>
  BY <1>1, InputTypes, QueueNumbers DEF FragmentEnds, QueueTypes, Groups
<1>3. \A q \in Queues : \A h \in Groups :
        ended'[<<q, h>>] = IF q = "refine" /\ h = g THEN ended[<<q, h>>] + 1 ELSE ended[<<q, h>>]
  BY <1>2 DEF QueueTypes
<1>4. QueueTypes' /\ WorkerTypes'
  <2>1. ended' \in [Queues \X Groups -> Nat]
    <3>1. ended \in [Queues \X Groups -> Nat] /\ "refine" \in Queues
      BY DEF QueueTypes, Queues, Stages
    <3>2. ended[<<"refine", g>>] + 1 \in Nat
      BY <3>1
    <3> QED
      BY <1>2, <3>1, <3>2
  <2>2. sent' \in 0..Len(Input) + NQueues
    BY <1>2
  <2> QED
    BY <1>2, <2>1, <2>2 DEF QueueTypes, WorkerTypes
<1>5. SameAtWriter /\ WriterTypes' /\ ChunkTypes' /\ BoundInv'
  BY <1>2, WriterSame, ChunkTypesKept
<1>6. StillDrained
  <2>1. ASSUME NEW r \in Queues, NEW h \in Groups, Drained(r, h)
        PROVE  Drained(r, h)'
    <3>1. ~(r = "refine" /\ h = g)
      BY <1>2, <2>1, RefineEnded
    <3> QED
      BY <1>2, <1>3, <2>1, <3>1 DEF Drained
  <2> QED
    BY <2>1 DEF StillDrained
<1>7. TriesInv'
  BY <1>2, <1>6, TriesKept
<1>8. EndInv'
  <2>1. "refine" \in Queues
    BY DEF Queues, Stages
  <2>2. ASSUME NEW h \in Groups
        PROVE  ended'[<<"refine", h>>] = IF sent' > Len(Input) + h THEN 1 ELSE 0
    <3>1. /\ h \in Nat /\ ended[<<"refine", h>>] = IF sent > Len(Input) + h THEN 1 ELSE 0
          /\ ended'[<<"refine", h>>] = IF h = g THEN ended[<<"refine", h>>] + 1 ELSE ended[<<"refine", h>>]
      BY <1>3, <2>1, QueueNumbers DEF EndInv
    <3> QED
      BY <1>2, <3>1
  <2>3. ASSUME NEW q \in Queues \ {"refine"}, NEW h \in Groups
        PROVE  ended'[<<q, h>>] = Cardinality({v \in Terminators(q, h) : pc'[v] = "done"})
    BY <1>2, <1>3 DEF EndInv
  <2>4. \A v \in Workers : /\ pc'[v] # "work" => recv'[v] = <<>> /\ Drained(Stage(v), Qid(v))'
                           /\ pc'[v] = "done" => \A out \in SendsTo(v) : send'[v][out] = <<>>
    BY <1>2, <1>6, WorkerTypesOf DEF EndInv, StillDrained
  <2> QED
    BY <2>2, <2>3, <2>4 DEF EndInv
<1>9. Belt' = Belt
  BY <1>2, BeltSame
<1>10. \A k \in Chunks : k[1] < sent /\ k[1] < sent' /\ ~(k[1] >= sent')
  BY <1>2, ChunkTypesOf
<1>11. PlaceInv'
  <2>1. Once(Belt') /\ \A k \in Chunks : On(Belt', k) <=> On(Belt, k)
    BY <1>9 DEF PlaceInv
  <2>2. \A k \in writer'.held : ~Written(k)'
    BY <1>2 DEF PlaceInv, Written
  <2> QED
    BY <1>2, <1>5, <1>10, <2>1, <2>2 DEF PlaceInv, SameAtWriter
<1>12. PhaseInv'
  <2>1. \A k \in Chunks : New(k)' <=> New(k)
    BY <1>2 DEF New, chunkVars
  <2>2. \A k \in Chunks : \A p \in Places : At(Belt', p, k) <=> At(Belt, p, k)
    BY <1>9
  <2> QED
    BY <1>2, <1>5, <1>10, <2>1, <2>2 DEF PhaseInv, SameAtWriter, chunkVars
<1>13. TableInv' /\ FileInv'
  BY <1>2, TableKept, FileKept DEF chunkVars
<1> QED
  BY <1>4, <1>5, <1>7, <1>8, <1>11, <1>12, <1>13

LEMMA FragmentStep ==
  ASSUME IInv, Fragment
  PROVE  IInv'
<1> USE DEF IInv, Types
<1>1. PICK g \in Groups : g = sent % NQueues
  <2>1. sent \in Nat
    BY InputTypes DEF QueueTypes
  <2>2. sent % NQueues \in Nat /\ sent % NQueues < NQueues
    BY <2>1, QueueNumbers, Division
  <2> QED
    BY <2>2, QueueNumbers DEF Groups
<1>2. /\ sent < Len(Input) /\ Room("refine", g) > 0
      /\ queue' = [queue EXCEPT ![<<"refine", g>>] = Append(@, <<sent, 0>>)]
      /\ sent' = sent + 1
      /\ UNCHANGED <<ended, pc, recv, send, chunkVars, writer, file>>
  BY <1>1 DEF Fragment
<1>3. sent \in Nat /\ Len(Input) \in Nat /\ sent \in L1 /\ "refine" \in Queues
  BY <1>2, InputTypes DEF QueueTypes, L1, Queues, Stages
<1>4. <<sent, 0>> \in Chunks
  BY <1>3, ChunkAt, InputTypes
<1>5. PICK t \in Seq(Chunks), j \in Nat : t = queue[<<"refine", g>>] /\ j = Len(t) /\ j < QueueSize
  BY <1>2, <1>3, QueueChunks, Sizes DEF Room
<1>6. PICK u \in Seq(Chunks) : u = Append(t, <<sent, 0>>) /\ Len(u) = j + 1
  <2>1. PICK x \in Chunks : x = <<sent, 0>>
    BY <1>4
  <2>2. Append(t, x) \in Seq(Chunks) /\ Len(Append(t, x)) = Len(t) + 1
    BY AppendProperties
  <2> QED
    BY <1>5, <2>1, <2>2
<1>7. queue' = [queue EXCEPT ![<<"refine", g>>] = u]
  BY <1>2, <1>5, <1>6
<1>8. QueueTypes' /\ WorkerTypes'
  <2>1. queue' \in [Queues \X Groups -> Seq(Chunks)]
    BY <1>7 DEF QueueTypes
  <2>2. Len(u) <= QueueSize
    BY <1>5, <1>6, Sizes
  <2>3. \A x \in Queues \X Groups : Len(queue'[x]) <= QueueSize
    BY <1>7, <2>2 DEF QueueTypes
  <2>4. sent' \in 0..Len(Input) + NQueues
    BY <1>2, <1>3, QueueNumbers
  <2> QED
    BY <1>2, <2>1, <2>3, <2>4 DEF QueueTypes, WorkerTypes
<1>9. SameAtWriter /\ WriterTypes' /\ ChunkTypes' /\ BoundInv'
  BY <1>2, WriterSame, ChunkTypesKept
<1>10. \A h \in Groups : ~(sent > Len(Input) + h) /\ ~(sent' > Len(Input) + h)
  BY <1>2, <1>3, QueueNumbers
<1>11. StillDrained
  <2>1. ASSUME NEW r \in Queues, NEW h \in Groups, Drained(r, h)
        PROVE  Drained(r, h)'
    <3>1. r # "refine"
      BY <1>3, <1>10, <2>1, RefineEnded
    <3>2. queue'[<<r, h>>] = queue[<<r, h>>]
      BY <1>7, <3>1 DEF QueueTypes
    <3> QED
      BY <1>2, <2>1, <3>2 DEF Drained
  <2> QED
    BY <2>1 DEF StillDrained
<1>12. TriesInv'
  BY <1>2, <1>11, TriesKept
<1>13. EndInv'
  <2>1. \A h \in Groups :
          /\ ended'[<<"refine", h>>] = IF sent' > Len(Input) + h THEN 1 ELSE 0
          /\ \A q \in Queues \ {"refine"} :
                ended'[<<q, h>>] = Cardinality({v \in Terminators(q, h) : pc'[v] = "done"})
    BY <1>2, <1>10 DEF EndInv
  <2>2. \A v \in Workers : /\ pc'[v] # "work" => recv'[v] = <<>> /\ Drained(Stage(v), Qid(v))'
                           /\ pc'[v] = "done" => \A out \in SendsTo(v) : send'[v][out] = <<>>
    BY <1>2, <1>11, WorkerTypesOf DEF EndInv, StillDrained
  <2> QED
    BY <2>1, <2>2 DEF EndInv
<1>14. Added(Belt, Belt', QueueAt("refine", g), sent)
  <2>1. \A r \in Places \ {QueueAt("refine", g)} : Belt'[r] = Belt[r]
    <3>1. \A r \in Queues : \A h \in Groups : QueueAt(r, h) # QueueAt("refine", g) =>
             queue'[<<r, h>>] = queue[<<r, h>>]
      BY <1>7 DEF QueueTypes
    <3> QED
      BY <1>2, <3>1, BeltElsewhere
  <2>2. Belt[QueueAt("refine", g)] = t /\ Belt'[QueueAt("refine", g)] = u
    <3>1. queue'[<<"refine", g>>] = u
      BY <1>3, <1>7 DEF QueueTypes
    <3>2. Belt[QueueAt("refine", g)] = queue[<<"refine", g>>] /\ Belt'[QueueAt("refine", g)] = queue'[<<"refine", g>>]
      BY <1>3, BeltAt, BeltAtNext
    <3> QED
      BY <1>5, <3>1, <3>2
  <2> QED
    BY <1>6, <2>1, <2>2, BeltAtNext DEF Added
<1>15. /\ Once(Belt')
       /\ \A k \in Chunks : On(Belt', k) <=> On(Belt, k) \/ k[1] = sent
       /\ \A k \in Chunks : \A r \in Places :
             At(Belt', r, k) => At(Belt, r, k) \/ (r = QueueAt("refine", g) /\ k[1] = sent)
  <2>1. Belt \in [Places -> Seq(Chunks)] /\ Once(Belt)
    BY BeltTypes DEF WriterTypes, PlaceInv
  <2>2. QueueAt("refine", g) \in Places /\ Raw(QueueAt("refine", g))
    BY <1>3, PlaceNames, RawPlaces
  <2>3. \A k \in Chunks : k[1] = sent => ~On(Belt, k)
    BY <1>3 DEF PlaceInv
  <2>4. PICK p \in Places, i \in L1, b \in {Belt}, c \in {Belt'} :
           p = QueueAt("refine", g) /\ i = sent /\ b = Belt /\ c = Belt'
    BY <1>3, <2>2
  <2>5. /\ b \in [Places -> Seq(Chunks)] /\ Once(b) /\ Raw(p) /\ Added(b, c, p, i)
        /\ \A k \in Chunks : k[1] = i => ~On(b, k)
    BY <1>14, <2>1, <2>2, <2>3, <2>4
  <2>6. /\ Once(c)
        /\ \A k \in Chunks : On(c, k) <=> On(b, k) \/ k[1] = i
        /\ \A k \in Chunks : \A r \in Places : At(c, r, k) => At(b, r, k) \/ (r = p /\ k[1] = i)
    BY <2>5, AddKeeps
  <2> QED
    BY <2>4, <2>6
<1>16. \A k \in Chunks : k[1] \in Nat /\ (k[1] < sent' <=> k[1] < sent \/ k[1] = sent)
  BY <1>2, <1>3, ChunkTypesOf
<1>17. PlaceInv'
  <2>1. \A k \in writer'.held : ~Written(k)'
    BY <1>2 DEF PlaceInv, Written
  <2>2. ASSUME NEW k \in Chunks
        PROVE  /\ On(Belt', k) => k[1] < sent'
               /\ AtWriter(k)' => k[1] < sent' /\ ~On(Belt', k)
               /\ k[1] < sent' => On(Belt', k) \/ AtWriter(k)'
    <3>1. /\ On(Belt, k) => k[1] < sent
          /\ AtWriter(k) => k[1] < sent /\ ~On(Belt, k)
          /\ k[1] < sent => On(Belt, k) \/ AtWriter(k)
      BY DEF PlaceInv
    <3>2. k[1] = sent => ~(k[1] < sent)
      BY <1>3
    <3> QED
      BY <1>9, <1>15, <1>16, <3>1, <3>2 DEF SameAtWriter
  <2> QED
    BY <1>2, <1>15, <2>1, <2>2 DEF PlaceInv
<1>18. PhaseInv'
  <2>1. \A k \in Chunks : New(k)' <=> New(k)
    BY <1>2 DEF New, chunkVars
  <2>2. \A k \in Chunks : k[1] = sent => New(k)
    BY <1>3 DEF PhaseInv
  <2>3. ToDedup(QueueAt("refine", g)) /\ ~ToCompress(QueueAt("refine", g))
    BY PlacePhases
  <2>4. ASSUME NEW k \in Chunks, NEW p \in Places, At(Belt', p, k)
        PROVE  /\ ToDedup(p) => New(k)'
               /\ ToCompress(p) => original'[k] = k /\ state'[k] = "uncompressed"
               /\ ~ToDedup(p) => original'[k] # NoChunk
    <3>1. CASE At(Belt, p, k)
      BY <1>2, <2>1, <3>1 DEF PhaseInv, chunkVars
    <3>2. CASE p = QueueAt("refine", g) /\ k[1] = sent
      BY <2>1, <2>2, <2>3, <3>2
    <3> QED
      BY <1>15, <2>4, <3>1, <3>2
  <2>5. ASSUME NEW k \in Chunks
        PROVE  /\ k[1] >= sent' => New(k)'
               /\ AtWriter(k)' => original'[k] # NoChunk
    <3>1. k[1] >= sent' => k[1] >= sent
      BY <1>2, <1>3, <1>16
    <3> QED
      BY <1>2, <1>9, <2>1, <3>1 DEF PhaseInv, SameAtWriter, chunkVars
  <2> QED
    BY <2>4, <2>5 DEF PhaseInv
<1>19. TableInv' /\ FileInv'
  BY <1>2, TableKept, FileKept DEF chunkVars
<1> QED
  BY <1>8, <1>9, <1>12, <1>13, <1>17, <1>18, <1>19

-----------------------------------------------------------------------------
(* The work on one chunk                                                   *)

\* A send buffer may be appended to while it is not full.
LEMMA AppendTypes ==
  ASSUME WorkerTypes, NEW w \in Workers, NEW out \in SendsTo(w),
         Len(send[w][out]) < PerInsert, NEW x \in Chunks,
         recv' \in [Workers -> Seq(Chunks)],
         send' = [send EXCEPT ![w][out] = Append(@, x)], pc' = pc
  PROVE  /\ WorkerTypes'
         /\ send'[w][out] = Append(send[w][out], x)
         /\ \A v \in Workers : \A o \in SendsTo(v) : <<v, o>> # <<w, out>> => send'[v][o] = send[v][o]
         /\ \A v \in Workers : v # w => send'[v] = send[v]
<1>1. /\ send = [v \in Workers |-> send[v]]
      /\ send[w] \in [SendsTo(w) -> Seq(Chunks)]
      /\ \A o \in SendsTo(w) : Len(send[w][o]) <= PerInsert
  BY DEF WorkerTypes
<1>2. PICK t \in Seq(Chunks), l \in Nat : t = send[w][out] /\ l = Len(t)
  BY <1>1, LenProperties
<1>3. PICK u \in Seq(Chunks) : u = Append(t, x) /\ Len(u) = l + 1
  <2>1. Append(t, x) \in Seq(Chunks) /\ Len(Append(t, x)) = Len(t) + 1
    BY AppendProperties
  <2> QED
    BY <1>2, <2>1
<1>4. Len(u) <= PerInsert
  BY <1>2, <1>3, Sizes
<1>5. send' = [send EXCEPT ![w][out] = u]
  BY <1>2, <1>3
<1>6. /\ send' = [v \in Workers |-> send'[v]]
      /\ send'[w] = [send[w] EXCEPT ![out] = u]
      /\ \A v \in Workers : v # w => send'[v] = send[v]
  BY <1>1, <1>5
<1>7. /\ send'[w] \in [SendsTo(w) -> Seq(Chunks)]
      /\ \A o \in SendsTo(w) : Len(send'[w][o]) <= PerInsert
      /\ send'[w][out] = u
      /\ \A o \in SendsTo(w) : o # out => send'[w][o] = send[w][o]
  BY <1>1, <1>4, <1>6
<1>8. \A v \in Workers : /\ send'[v] \in [SendsTo(v) -> Seq(Chunks)]
                         /\ \A o \in SendsTo(v) : Len(send'[v][o]) <= PerInsert
  BY <1>6, <1>7 DEF WorkerTypes
<1>9. WorkerTypes'
  BY <1>6, <1>8 DEF WorkerTypes
<1> QED
  BY <1>2, <1>3, <1>6, <1>7, <1>9

LEMMA PassMoves ==
  ASSUME Types, NEW w \in Workers, NEW out \in SendsTo(w), Works(w), Pass(w, out),
         UNCHANGED <<queue, pc, writer>>
  PROVE  /\ WorkerTypes'
         /\ Head(recv[w]) \in Chunks /\ Head(recv[w]) = Belt[RecvAt(w)][1]
         /\ Moved(Belt, Belt', RecvAt(w), SendAt(w, out), 1)
         /\ 1 <= Len(Belt[RecvAt(w)])
         /\ pc[w] = "work"
         /\ \A v \in Workers : v # w => recv'[v] = recv[v] /\ send'[v] = send[v]
<1> USE DEF Types
<1>1. PICK s \in Seq(Chunks) : s = recv[w] /\ s # <<>>
  BY DEF WorkerTypes, Works
<1>2. PICK t \in Seq(Chunks) : t = send[w][out]
  BY DEF WorkerTypes
<1>3. PICK x \in Chunks, u \in Seq(Chunks) : x = Head(s) /\ u = Tail(s)
  BY <1>1, PassTypes
<1>4. /\ Len(s) \in Nat \ {0} /\ x = s[1] /\ u = SubSeq(s, 2, Len(s))
      /\ Append(t, x) = t \o SubSeq(s, 1, 1)
  BY <1>1, <1>3, PassTypes
<1>5. /\ recv' = [recv EXCEPT ![w] = u]
      /\ send' = [send EXCEPT ![w][out] = Append(@, x)]
  BY <1>1, <1>3 DEF Pass
<1>6. recv' \in [Workers -> Seq(Chunks)] /\ \A v \in Workers : recv'[v] = IF v = w THEN u ELSE recv[v]
  BY <1>5 DEF WorkerTypes
<1>7. Len(send[w][out]) < PerInsert
  BY DEF Works
<1>8. /\ WorkerTypes'
      /\ send'[w][out] = Append(send[w][out], x)
      /\ \A v \in Workers : \A o \in SendsTo(v) : <<v, o>> # <<w, out>> => send'[v][o] = send[v][o]
      /\ \A v \in Workers : v # w => send'[v] = send[v]
  BY <1>5, <1>6, <1>7, AppendTypes
<1>9. Moved(Belt, Belt', RecvAt(w), SendAt(w, out), 1)
  <2>1. \A r \in Places \ {RecvAt(w), SendAt(w, out)} : Belt'[r] = Belt[r]
    <3>1. \A v \in Workers : RecvAt(v) # RecvAt(w) => recv'[v] = recv[v]
      BY <1>6
    <3>2. \A v \in Workers : \A o \in SendsTo(v) : SendAt(v, o) # SendAt(w, out) =>
             send'[v][o] = send[v][o]
      BY <1>8
    <3> QED
      BY <3>1, <3>2, BeltElsewhere
  <2>2. Belt[RecvAt(w)] = s /\ Belt[SendAt(w, out)] = t
    BY <1>1, <1>2, BeltAt
  <2>3. Belt'[RecvAt(w)] = SubSeq(s, 1 + 1, Len(s))
    BY <1>4, <1>6, BeltAtNext
  <2>4. Belt'[SendAt(w, out)] = t \o SubSeq(s, 1, 1)
    BY <1>2, <1>4, <1>8, BeltAtNext
  <2> QED
    BY <2>1, <2>2, <2>3, <2>4, BeltAtNext DEF Moved
<1>10. Belt[RecvAt(w)] = s
  BY <1>1, BeltAt
<1> QED
  BY <1>1, <1>3, <1>4, <1>6, <1>8, <1>9, <1>10 DEF Works

\* What every kind of work leaves alone.
LEMMA WorkKeeps ==
  ASSUME IInv, NEW w \in Workers, pc[w] = "work", WorkerTypes',
         \A v \in Workers : v # w => recv'[v] = recv[v] /\ send'[v] = send[v],
         UNCHANGED <<sent, queue, ended, pc, writer, file>>
  PROVE  QueueTypes' /\ EndInv' /\ TriesInv' /\ SameAtWriter /\ WriterTypes' /\ BoundInv' /\ FileInv'
<1> USE DEF IInv, Types
<1>1. StillDrained
  BY DEF StillDrained, Drained
<1>2. EndInv'
  BY <1>1, EndKept
<1>3. TriesInv'
  BY <1>1, TriesKept
<1>4. SameAtWriter /\ WriterTypes' /\ BoundInv'
  BY WriterSame
<1>5. FileInv'
  BY FileKept
<1>6. QueueTypes'
  BY DEF QueueTypes
<1> QED
  BY <1>2, <1>3, <1>4, <1>5, <1>6

\* A fine chunk handed on is at its new place and nowhere else.
LEMMA HandOver ==
  ASSUME Types, Once(Belt), NEW w \in Workers, Stage(w) # "refine", NEW out \in SendsTo(w),
         Works(w), Pass(w, out), UNCHANGED <<queue, pc, writer>>, NEW k, k = Head(recv[w])
  PROVE  /\ WorkerTypes'
         /\ pc[w] = "work"
         /\ \A v \in Workers : v # w => recv'[v] = recv[v] /\ send'[v] = send[v]
         /\ k \in Chunks /\ At(Belt, RecvAt(w), k)
         /\ Once(Belt')
         /\ \A l \in Chunks : On(Belt', l) <=> On(Belt, l)
         /\ \A l \in Chunks : \A r \in Places :
               At(Belt', r, l) => (At(Belt, r, l) /\ l # k) \/ (r = SendAt(w, out) /\ l = k)
<1>1. PICK p \in Places, q \in Places : p = RecvAt(w) /\ q = SendAt(w, out)
  BY PlaceNames
<1>2. p # q /\ ~Raw(p) /\ ~Raw(q)
  BY <1>1, PlacesDiffer, RawPlaces
<1>3. PICK c : c = Belt'
  OBVIOUS
<1>4. /\ WorkerTypes'
      /\ k \in Chunks /\ k = Belt[p][1]
      /\ Moved(Belt, c, p, q, 1)
      /\ 1 <= Len(Belt[p])
      /\ pc[w] = "work"
      /\ \A v \in Workers : v # w => recv'[v] = recv[v] /\ send'[v] = send[v]
  BY <1>1, <1>3, PassMoves
<1>5. Belt \in [Places -> Seq(Chunks)]
  BY BeltTypes DEF Types, WriterTypes
<1>6. \A l \in Chunks : /\ Covers(p, Belt[p][1], l) <=> l = k
                        /\ Covers(q, Belt[p][1], l) <=> l = k
  BY <1>2, <1>4 DEF Covers
<1>7. /\ Once(c)
      /\ \A l \in Chunks : On(c, l) <=> On(Belt, l)
      /\ \A l \in Chunks : Covers(p, Belt[p][1], l) => At(c, q, l)
      /\ \A l \in Chunks : \A r \in Places : At(c, r, l) => At(Belt, r, l) \/ (r = q /\ Covers(p, Belt[p][1], l))
  <2>1. \A l \in Chunks : Covers(p, Belt[p][1], l) <=> Covers(q, Belt[p][1], l)
    BY <1>6
  <2>2. /\ Once(c)
        /\ \A l \in Chunks : On(c, l) <=> On(Belt, l)
        /\ \A l \in Chunks : Covers(p, Belt[p][1], l) => At(c, q, l)
    BY <1>2, <1>4, <1>5, <2>1, PassKeeps
  <2>3. ASSUME NEW l \in Chunks, NEW r \in Places, At(c, r, l), ~At(Belt, r, l)
        PROVE  r = q /\ Covers(p, Belt[p][1], l)
    BY <1>2, <1>4, <1>5, <2>1, <2>3, PassedItem
  <2> QED
    BY <2>2, <2>3
<1>8. At(c, q, k)
  BY <1>4, <1>6, <1>7
<1>9. ASSUME NEW l \in Chunks, NEW r \in Places, At(c, r, l)
      PROVE  (At(Belt, r, l) /\ l # k) \/ (r = q /\ l = k)
  <2>1. CASE l = k
    BY <1>7, <1>8, <1>9, <2>1 DEF Once, At
  <2>2. CASE l # k
    BY <1>6, <1>7, <1>9, <2>2
  <2> QED
    BY <2>1, <2>2
<1>10. At(Belt, p, k)
  <2>1. 1 \in DOMAIN Belt[p]
    BY <1>4, <1>5
  <2> QED
    BY <1>4, <1>6, <2>1 DEF At
<1> QED
  BY <1>1, <1>3, <1>4, <1>7, <1>9, <1>10, Zenon

LEMMA RefineStep ==
  ASSUME IInv, NEW w \in Workers, Refine(w)
  PROVE  IInv'
<1> USE DEF IInv, Types
<1>1. PICK k : k = Head(recv[w])
  OBVIOUS
<1>2. /\ Stage(w) = "refine" /\ Works(w)
      /\ UNCHANGED <<sent, queue, ended, pc, chunkVars, writer, file>>
  BY DEF Refine
<1>3. "dedup" \in SendsTo(w)
  BY <1>2 DEF SendsTo
<1>4. /\ RecvAt(w) \in Places /\ SendAt(w, "dedup") \in Places /\ RecvAt(w) # SendAt(w, "dedup")
      /\ Raw(RecvAt(w)) /\ ~Raw(SendAt(w, "dedup"))
      /\ ToDedup(RecvAt(w)) /\ ToDedup(SendAt(w, "dedup"))
      /\ ~ToCompress(RecvAt(w)) /\ ~ToCompress(SendAt(w, "dedup"))
  BY <1>2, <1>3, PlaceNames, PlacesDiffer, RawPlaces, PlacePhases
<1>5. Belt \in [Places -> Seq(Chunks)] /\ Once(Belt)
  BY BeltTypes DEF WriterTypes, PlaceInv
<1>6. CASE IsLastL2Chunk(k)
  <2>1. Pass(w, "dedup")
    BY <1>1, <1>6 DEF Refine
  <2>2. /\ WorkerTypes'
        /\ k \in Chunks /\ k = Belt[RecvAt(w)][1]
        /\ Moved(Belt, Belt', RecvAt(w), SendAt(w, "dedup"), 1)
        /\ 1 <= Len(Belt[RecvAt(w)])
        /\ pc[w] = "work"
        /\ \A v \in Workers : v # w => recv'[v] = recv[v] /\ send'[v] = send[v]
    BY <1>1, <1>2, <1>3, <2>1, PassMoves
  <2>3. QueueTypes' /\ EndInv' /\ TriesInv' /\ SameAtWriter /\ WriterTypes' /\ BoundInv' /\ FileInv'
    BY <1>2, <2>2, WorkKeeps
  <2>4. \A l \in Chunks : Covers(RecvAt(w), k, l) <=> Covers(SendAt(w, "dedup"), k, l)
    <3> SUFFICES ASSUME NEW l \in Chunks
                 PROVE  (k[1] = l[1] /\ k[2] <= l[2]) <=> k = l
      BY <1>4 DEF Covers
    <3>1. /\ k = <<k[1], k[2]>> /\ l = <<l[1], l[2]>> /\ k[2] \in Nat /\ l[2] \in Nat
          /\ l[2] < Len(Input[l[1] + 1]) /\ Len(Input[l[1] + 1]) \in Nat
      BY <2>2, ChunkTypesOf, InputTypes
    <3>2. k[1] = l[1] => l[2] <= k[2]
      BY <1>6, <3>1 DEF IsLastL2Chunk
    <3> QED
      BY <3>1, <3>2
  <2>5. /\ Once(Belt')
        /\ \A l \in Chunks : On(Belt', l) <=> On(Belt, l)
        /\ \A l \in Chunks : \A r \in Places :
              At(Belt', r, l) => At(Belt, r, l) \/ (r = SendAt(w, "dedup") /\ At(Belt, RecvAt(w), l))
    <3>1. \A l \in Chunks :
             Covers(RecvAt(w), Belt[RecvAt(w)][1], l) <=> Covers(SendAt(w, "dedup"), Belt[RecvAt(w)][1], l)
      BY <2>2, <2>4, Zenon
    <3>2. /\ RecvAt(w) \in Places /\ SendAt(w, "dedup") \in Places /\ RecvAt(w) # SendAt(w, "dedup")
          /\ Moved(Belt, Belt', RecvAt(w), SendAt(w, "dedup"), 1) /\ 1 <= Len(Belt[RecvAt(w)])
      BY <1>4, <2>2
    <3>3. PICK p \in Places, q \in Places : p = RecvAt(w) /\ q = SendAt(w, "dedup")
      BY <3>2
    <3>4. PICK c : c = Belt'
      OBVIOUS
    <3>5. /\ p # q /\ Moved(Belt, c, p, q, 1) /\ 1 <= Len(Belt[p])
          /\ \A l \in Chunks : Covers(p, Belt[p][1], l) <=> Covers(q, Belt[p][1], l)
      BY <3>1, <3>2, <3>3, <3>4
    <3>6. /\ Once(c)
          /\ \A l \in Chunks : On(c, l) <=> On(Belt, l)
          /\ \A l \in Chunks : \A r \in Places : At(c, r, l) => At(Belt, r, l) \/ (r = q /\ At(Belt, p, l))
      BY <1>5, <3>5, PassKeeps
    <3> QED
      BY <3>3, <3>4, <3>6
  <2>6. PlaceInv'
    BY <1>2, <2>3, <2>5, PlaceKept
  <2>7. PhaseInv'
    BY <1>2, <1>4, <2>3, <2>5, PhaseKept DEF chunkVars
  <2>8. TableInv' /\ ChunkTypes'
    BY <1>2, TableKept, ChunkTypesKept DEF chunkVars
  <2> QED
    BY <2>2, <2>3, <2>6, <2>7, <2>8
<1>7. CASE ~IsLastL2Chunk(k)
  <2>1. /\ recv' = [recv EXCEPT ![w][1] = <<k[1], k[2] + 1>>]
        /\ send' = [send EXCEPT ![w]["dedup"] = Append(@, k)]
    BY <1>1, <1>7 DEF Refine
  <2>2. PICK s \in Seq(Chunks) : s = recv[w] /\ s # <<>> /\ pc[w] = "work"
    BY <1>2 DEF WorkerTypes, Works
  <2>3. k = s[1] /\ k \in Chunks /\ 1 \in DOMAIN s
    BY <1>1, <2>2, PassTypes
  <2>4. <<k[1], k[2] + 1>> \in Chunks
    BY <1>7, <2>3, ChunkOrNext
  <2>5. PICK u \in Seq(Chunks) : u = [s EXCEPT ![1] = <<k[1], k[2] + 1>>]
    <3>1. PICK y \in Chunks : y = <<k[1], k[2] + 1>>
      BY <2>4
    <3>2. [s EXCEPT ![1] = y] \in Seq(Chunks)
      BY <2>3, ExceptSeq
    <3> QED
      BY <3>1, <3>2
  <2>6. recv' \in [Workers -> Seq(Chunks)] /\ \A v \in Workers : recv'[v] = IF v = w THEN u ELSE recv[v]
    <3>1. recv' = [recv EXCEPT ![w] = u]
      BY <2>1, <2>2, <2>5 DEF WorkerTypes
    <3> QED
      BY <3>1 DEF WorkerTypes
  <2>7. /\ WorkerTypes'
        /\ send'[w]["dedup"] = Append(send[w]["dedup"], k)
        /\ \A v \in Workers : \A o \in SendsTo(v) : <<v, o>> # <<w, "dedup">> => send'[v][o] = send[v][o]
        /\ \A v \in Workers : v # w => send'[v] = send[v]
    <3>1. Len(send[w]["dedup"]) < PerInsert
      BY <1>2, <1>3 DEF Works
    <3>2. WorkerTypes /\ pc' = pc /\ recv' \in [Workers -> Seq(Chunks)]
      BY <1>2, <2>6
    <3>3. send' = [send EXCEPT ![w]["dedup"] = Append(@, k)]
      BY <2>1
    <3> HIDE DEF IInv, Types
    <3> QED
      BY <1>3, <2>3, <3>1, <3>2, <3>3, AppendTypes
  <2>8. QueueTypes' /\ EndInv' /\ TriesInv' /\ SameAtWriter /\ WriterTypes' /\ BoundInv' /\ FileInv'
    BY <1>2, <2>2, <2>6, <2>7, WorkKeeps
  <2>9. Cut(Belt, Belt', RecvAt(w), SendAt(w, "dedup"))
    <3>1. \A r \in Places \ {RecvAt(w), SendAt(w, "dedup")} : Belt'[r] = Belt[r]
      <4>1. \A v \in Workers : RecvAt(v) # RecvAt(w) => recv'[v] = recv[v]
        BY <2>6
      <4>2. \A v \in Workers : \A o \in SendsTo(v) : SendAt(v, o) # SendAt(w, "dedup") =>
               send'[v][o] = send[v][o]
        BY <2>7
      <4> QED
        BY <1>2, <4>1, <4>2, BeltElsewhere
    <3>2. Belt[RecvAt(w)] = s /\ Belt[SendAt(w, "dedup")] = send[w]["dedup"]
      BY <1>3, <2>2, BeltAt
    <3>3. Belt'[RecvAt(w)] = u /\ Belt'[SendAt(w, "dedup")] = Append(send[w]["dedup"], k)
      BY <1>3, <2>6, <2>7, BeltAtNext
    <3> QED
      BY <2>3, <2>5, <3>1, <3>2, <3>3, BeltAtNext DEF Cut
  <2>10. /\ Once(Belt')
         /\ \A l \in Chunks : On(Belt', l) <=> On(Belt, l)
         /\ \A l \in Chunks : \A r \in Places :
               At(Belt', r, l) => At(Belt, r, l) \/ (r = SendAt(w, "dedup") /\ At(Belt, RecvAt(w), l))
    <3>1. Belt[RecvAt(w)] = s
      BY <2>2, BeltAt
    <3> QED
      BY <1>4, <1>5, <1>7, <2>2, <2>3, <2>9, <3>1, CutKeeps
  <2>11. PlaceInv'
    BY <1>2, <2>8, <2>10, PlaceKept
  <2>12. PhaseInv'
    BY <1>2, <1>4, <2>8, <2>10, PhaseKept DEF chunkVars
  <2>13. TableInv' /\ ChunkTypes'
    BY <1>2, TableKept, ChunkTypesKept DEF chunkVars
  <2> QED
    BY <2>7, <2>8, <2>11, <2>12, <2>13
<1> QED
  BY <1>6, <1>7

LEMMA CompressStep ==
  ASSUME IInv, NEW w \in Workers, Compress(w)
  PROVE  IInv'
<1> USE DEF IInv, Types
<1>1. PICK k : k = Head(recv[w])
  OBVIOUS
<1>2. /\ Stage(w) = "compress" /\ Works(w)
      /\ state' = [state EXCEPT ![k] = "compressed"]
      /\ Pass(w, "reorder")
      /\ UNCHANGED <<sent, queue, ended, pc, original, table, writer, file>>
  BY <1>1 DEF Compress
<1>3. "reorder" \in SendsTo(w) /\ Stage(w) # "refine"
  BY <1>2 DEF SendsTo
<1>4. /\ WorkerTypes'
      /\ pc[w] = "work"
      /\ \A v \in Workers : v # w => recv'[v] = recv[v] /\ send'[v] = send[v]
      /\ k \in Chunks /\ At(Belt, RecvAt(w), k)
      /\ Once(Belt')
      /\ \A l \in Chunks : On(Belt', l) <=> On(Belt, l)
      /\ \A l \in Chunks : \A r \in Places :
            At(Belt', r, l) => (At(Belt, r, l) /\ l # k) \/ (r = SendAt(w, "reorder") /\ l = k)
  <2>1. Once(Belt)
    BY DEF PlaceInv
  <2> QED
    BY <1>1, <1>2, <1>3, <2>1, HandOver
<1>5. QueueTypes' /\ EndInv' /\ TriesInv' /\ SameAtWriter /\ WriterTypes' /\ BoundInv' /\ FileInv'
  BY <1>2, <1>4, WorkKeeps
<1>6. PlaceInv'
  BY <1>2, <1>4, <1>5, PlaceKept
<1>7. original[k] = k /\ state[k] = "uncompressed"
  <2>1. RecvAt(w) \in Places /\ ToCompress(RecvAt(w))
    BY <1>2, PlaceNames, PlacePhases
  <2> QED
    BY <1>4, <2>1 DEF PhaseInv
<1>8. \A l \in Chunks : state'[l] = IF l = k THEN "compressed" ELSE state[l]
  BY <1>2 DEF ChunkTypes
<1>9. ChunkTypes'
  BY <1>2 DEF ChunkTypes
<1>10. k # NoChunk
  BY <1>4, NoChunkIsNone
<1>11. PhaseInv'
  <2>1. ASSUME NEW l \in Chunks, NEW r \in Places, At(Belt', r, l)
        PROVE  /\ ToDedup(r) => New(l)'
               /\ ToCompress(r) => original'[l] = l /\ state'[l] = "uncompressed"
               /\ ~ToDedup(r) => original'[l] # NoChunk
    <3>1. CASE At(Belt, r, l) /\ l # k
      BY <1>2, <1>8, <3>1 DEF PhaseInv, New
    <3>2. CASE r = SendAt(w, "reorder") /\ l = k
      BY <1>2, <1>7, <1>10, <3>2, PlacePhases
    <3> QED
      BY <1>4, <2>1, <3>1, <3>2
  <2>2. ASSUME NEW l \in Chunks
        PROVE  /\ l[1] >= sent' => New(l)'
               /\ AtWriter(l)' => original'[l] # NoChunk
    <3>1. ~New(k) /\ (l[1] >= sent => New(l))
      BY <1>7, <1>10 DEF PhaseInv, New
    <3> QED
      BY <1>2, <1>5, <1>8, <3>1 DEF PhaseInv, New, SameAtWriter
  <2> QED
    BY <2>1, <2>2 DEF PhaseInv
<1>12. TableInv'
  <2>1. \A o \in Chunks : state'[o] # "uncompressed" => original'[o] = o
    BY <1>2, <1>7, <1>8 DEF TableInv
  <2>2. \A o \in Chunks : state'[o] = "flushed" <=> state[o] = "flushed"
    <3>1. state[k] # "flushed" /\ state'[k] # "flushed"
      BY <1>4, <1>7, <1>8
    <3> QED
      BY <1>8, <3>1
  <2>3. \A l \in Chunks : Written(l)' <=> Written(l)
    BY <1>2 DEF Written
  <2> QED
    BY <1>2, <2>1, <2>2, <2>3 DEF TableInv
<1> QED
  BY <1>4, <1>5, <1>6, <1>9, <1>11, <1>12

LEMMA DeduplicateStep ==
  ASSUME IInv, NEW w \in Workers, Deduplicate(w)
  PROVE  IInv'
<1> USE DEF IInv, Types
<1>1. PICK k : k = Head(recv[w])
  OBVIOUS
<1>2. PICK entry : entry = table[Content(k)]
  OBVIOUS
<1>3. PICK o : o = IF entry = NoChunk THEN k ELSE entry
  OBVIOUS
<1>4. PICK out : out = IF entry = NoChunk THEN "compress" ELSE "reorder"
  OBVIOUS
<1>5. /\ Stage(w) = "dedup" /\ Works(w)
      /\ original' = [original EXCEPT ![k] = o]
      /\ table' = [table EXCEPT ![Content(k)] = o]
      /\ Pass(w, out)
      /\ UNCHANGED <<sent, queue, ended, pc, state, writer, file>>
  BY <1>1, <1>2, <1>3, <1>4 DEF Deduplicate
<1>6. out \in SendsTo(w) /\ Stage(w) # "refine"
  BY <1>4, <1>5 DEF SendsTo
<1>7. /\ WorkerTypes'
      /\ pc[w] = "work"
      /\ \A v \in Workers : v # w => recv'[v] = recv[v] /\ send'[v] = send[v]
      /\ k \in Chunks /\ At(Belt, RecvAt(w), k)
      /\ Once(Belt')
      /\ \A l \in Chunks : On(Belt', l) <=> On(Belt, l)
      /\ \A l \in Chunks : \A r \in Places :
            At(Belt', r, l) => (At(Belt, r, l) /\ l # k) \/ (r = SendAt(w, out) /\ l = k)
  <2>1. Once(Belt)
    BY DEF PlaceInv
  <2> QED
    BY <1>1, <1>5, <1>6, <2>1, HandOver
<1>8. QueueTypes' /\ EndInv' /\ TriesInv' /\ SameAtWriter /\ WriterTypes' /\ BoundInv' /\ FileInv'
  BY <1>5, <1>7, WorkKeeps
<1>9. PlaceInv'
  BY <1>5, <1>7, <1>8, PlaceKept
<1>10. original[k] = NoChunk /\ state[k] = "uncompressed" /\ ~AtWriter(k) /\ k[1] < sent
  <2>1. RecvAt(w) \in Places /\ ToDedup(RecvAt(w))
    BY <1>5, PlaceNames, PlacePhases
  <2>2. On(Belt, k)
    BY <1>7, <2>1 DEF On
  <2> QED
    BY <1>7, <2>1, <2>2 DEF PhaseInv, New, PlaceInv
<1>11. Content(k) \in Contents /\ entry \in Chunks \cup {NoChunk} /\ o \in Chunks /\ k # NoChunk
  BY <1>2, <1>3, <1>7, ChunkTypesOf DEF ChunkTypes
<1>12. /\ \A l \in Chunks : original'[l] = IF l = k THEN o ELSE original[l]
       /\ \A c \in Contents : table'[c] = IF c = Content(k) THEN o ELSE table[c]
  BY <1>5, <1>7, <1>11 DEF ChunkTypes
<1>13. ChunkTypes'
  BY <1>5, <1>11 DEF ChunkTypes
<1>14. o # NoChunk /\ (entry = NoChunk => o = k) /\ (entry # NoChunk => o = entry)
  BY <1>3, <1>11, NoChunkIsNone
<1>15. PhaseInv'
  <2>1. ASSUME NEW l \in Chunks, NEW r \in Places, At(Belt', r, l)
        PROVE  /\ ToDedup(r) => New(l)'
               /\ ToCompress(r) => original'[l] = l /\ state'[l] = "uncompressed"
               /\ ~ToDedup(r) => original'[l] # NoChunk
    <3>1. CASE At(Belt, r, l) /\ l # k
      BY <1>5, <1>12, <3>1 DEF PhaseInv, New
    <3>2. CASE r = SendAt(w, out) /\ l = k
      <4>1. ~ToDedup(r) /\ (ToCompress(r) => out = "compress")
        BY <1>5, <3>2, PlacePhases
      <4>2. original'[k] = o /\ state'[k] = "uncompressed"
        BY <1>5, <1>7, <1>10, <1>12
      <4> QED
        BY <1>4, <1>14, <3>2, <4>1, <4>2
    <3> QED
      BY <1>7, <2>1, <3>1, <3>2
  <2>2. ASSUME NEW l \in Chunks
        PROVE  /\ l[1] >= sent' => New(l)'
               /\ AtWriter(l)' => original'[l] # NoChunk
    <3>1. l = k => ~(l[1] >= sent)
      <4>1. k[1] \in Nat /\ sent \in Nat
        BY <1>7, ChunkTypesOf, InputTypes DEF QueueTypes
      <4> QED
        BY <1>10, <4>1
    <3> QED
      BY <1>5, <1>8, <1>10, <1>12, <3>1 DEF PhaseInv, New, SameAtWriter
  <2> QED
    BY <2>1, <2>2 DEF PhaseInv
<1>16. TableInv'
  <2>1. original'[k] = o /\ table'[Content(k)] = o
    BY <1>7, <1>11, <1>12
  <2>2. Content(o) = Content(k) /\ original'[o] = o
    <3>1. CASE entry = NoChunk
      BY <1>14, <2>1, <3>1
    <3>2. CASE entry # NoChunk
      <4>1. Content(entry) = Content(k) /\ original[entry] = entry
        BY <1>2, <1>11, <3>2 DEF TableInv
      <4>2. entry # k
        BY <1>10, <1>11, <4>1
      <4> QED
        BY <1>11, <1>12, <1>14, <3>2, <4>1, <4>2
    <3> QED
      BY <3>1, <3>2
  <2>3. ASSUME NEW l \in Chunks, original'[l] # NoChunk
        PROVE  table'[Content(l)] = original'[l]
    <3>1. CASE l = k
      BY <2>1, <3>1
    <3>2. CASE l # k
      <4>1. table[Content(l)] = original[l] /\ original[l] # NoChunk /\ original'[l] = original[l]
        BY <1>12, <2>3, <3>2 DEF TableInv
      <4>2. Content(l) = Content(k) => o = original[l]
        BY <1>2, <1>14, <4>1
      <4> QED
        BY <1>12, <4>1, <4>2, ChunkTypesOf
    <3> QED
      BY <3>1, <3>2
  <2>4. ASSUME NEW c \in Contents, table'[c] # NoChunk
        PROVE  Content(table'[c]) = c /\ original'[table'[c]] = table'[c]
    <3>1. CASE c = Content(k)
      BY <2>1, <2>2, <3>1
    <3>2. CASE c # Content(k)
      <4>1. table'[c] = table[c] /\ table[c] \in Chunks
        BY <1>12, <2>4, <3>2 DEF ChunkTypes
      <4>2. Content(table[c]) = c /\ original[table[c]] = table[c]
        BY <2>4, <4>1 DEF TableInv
      <4>3. table[c] # k
        BY <3>2, <4>2
      <4> QED
        BY <1>12, <4>1, <4>2, <4>3
    <3> QED
      BY <3>1, <3>2
  <2>5. \A l \in Chunks : state'[l] # "uncompressed" => original'[l] = l
    BY <1>5, <1>10, <1>12 DEF TableInv
  <2>6. ASSUME NEW l \in Chunks
        PROVE  state'[l] = "flushed" <=> \E j \in Chunks : Written(j)' /\ original'[j] = l
    <3>1. \A j \in Chunks : Written(j)' <=> Written(j)
      BY <1>5 DEF Written
    <3>2. \A j \in Chunks : Written(j) => j # k
      BY <1>10 DEF AtWriter
    <3>3. \A j \in Chunks : Written(j)' /\ original'[j] = l <=> Written(j) /\ original[j] = l
      BY <1>12, <3>1, <3>2
    <3> QED
      BY <1>5, <3>3 DEF TableInv
  <2> QED
    BY <2>3, <2>4, <2>5, <2>6 DEF TableInv
<1> QED
  BY <1>7, <1>8, <1>9, <1>13, <1>15, <1>16

-----------------------------------------------------------------------------
(* Reorder takes chunks *)

LEMMA NextGroup ==
  ASSUME NEW g \in Groups
  PROVE  /\ (g + 1) % NQueues \in Groups
         /\ (g + 1) % NQueues = IF g + 1 = NQueues THEN 0 ELSE g + 1
<1>1. PICK n \in Nat, m \in Nat \ {0} : n = g + 1 /\ m = NQueues /\ n <= m
  BY QueueNumbers DEF Groups
<1>2. PICK d \in Nat, r \in Nat : d = n \div m /\ r = n % m /\ n = (m * d) + r
  BY Division
<1>3. CASE n = m
  <2>1. n \div m = 1
    BY <1>3, QuotientIs
  <2>2. r = 0
    BY <1>2, <1>3, <2>1
  <2> QED
    BY <1>1, <1>2, <1>3, <2>2, QueueNumbers
<1>4. CASE n < m
  <2>1. n \div m = 0
    BY <1>4, QuotientIs
  <2>2. r = n
    BY <1>2, <2>1
  <2>3. n \in 0..m - 1
    BY <1>4
  <2> QED
    BY <1>1, <1>2, <1>4, <2>2, <2>3 DEF Groups
<1> QED
  BY <1>1, <1>3, <1>4

LEMMA ReorderFetchStep ==
  ASSUME IInv, ReorderFetch
  PROVE  IInv'
<1> USE DEF IInv, Types
<1>1. PICK g \in Groups : g = writer.qid
  BY DEF WriterTypes, Writers
<1>2. PICK h \in Groups : h = (g + 1) % NQueues /\ h = IF g + 1 = NQueues THEN 0 ELSE g + 1
  BY NextGroup
<1>3. /\ writer.pc = "fetch" /\ writer.recv = <<>> /\ "reorder" \in Queues
      /\ writer.tries \in Nat /\ writer.tries < NQueues
      /\ NQueues \in Nat /\ Groups \subseteq Nat /\ \A i \in Groups : i < NQueues
  BY QueueNumbers DEF ReorderFetch, WriterTypes, Writers, TriesInv, Queues, Groups
<1>4. UNCHANGED <<sent, ended, pc, recv, send, chunkVars, file>>
  BY DEF ReorderFetch
<1>5. WorkerTypes' /\ ChunkTypes'
  BY <1>4, ChunkTypesKept DEF WorkerTypes
<1>6. CASE queue[<<"reorder", g>>] # <<>>
  <2>1. PICK s \in Seq(Chunks), n \in Nat :
           /\ s = queue[<<"reorder", g>>] /\ n = Taken("reorder", g)
           /\ n <= Len(s) /\ n # 0 /\ Len(s) \in Nat /\ Len(s) <= QueueSize
    BY <1>3, <1>6, QueueChunks
  <2>2. /\ queue' = [queue EXCEPT ![<<"reorder", g>>] = SubSeq(s, n + 1, Len(s))]
        /\ writer' = [writer EXCEPT !.qid = h, !.pc = "take", !.tries = 0, !.recv = SubSeq(s, 1, n)]
    BY <1>1, <1>2, <1>6, <2>1 DEF ReorderFetch, Drained, WriterTypes, Writers
  <2>3. PICK u \in Seq(Chunks), v \in Seq(Chunks) :
           /\ u = SubSeq(s, n + 1, Len(s)) /\ Len(u) = Len(s) - n
           /\ v = SubSeq(s, 1, n) /\ v # <<>> /\ <<>> \o v = v
    <3>1. /\ SubSeq(s, 1, n) \in Seq(Chunks) /\ SubSeq(s, 1, n) # <<>>
          /\ <<>> \o SubSeq(s, 1, n) = SubSeq(s, 1, n)
          /\ SubSeq(s, n + 1, Len(s)) \in Seq(Chunks) /\ Len(SubSeq(s, n + 1, Len(s))) = Len(s) - n
      BY <2>1, TakeTypes
    <3> QED
      BY <3>1, Zenon
  <2>4. /\ writer' \in Writers
        /\ writer'.qid = h /\ writer'.pc = "take" /\ writer'.tries = 0 /\ writer'.recv = v
        /\ writer'.next = writer.next /\ writer'.room = writer.room
        /\ writer'.bound = writer.bound /\ writer'.held = writer.held /\ writer'.chunk = writer.chunk
    BY <2>2, <2>3 DEF WriterTypes, Writers
  <2>5. WriterTypes'
    BY <2>3, <2>4 DEF WriterTypes
  <2>6. SameAtWriter
    BY <1>3, <2>4 DEF SameAtWriter, AtWriter, Written
  <2>7. queue' \in [Queues \X Groups -> Seq(Chunks)]
        /\ \A x \in Queues \X Groups : queue'[x] = IF x = <<"reorder", g>> THEN u ELSE queue[x]
    BY <2>2, <2>3 DEF QueueTypes
  <2>8. QueueTypes'
    <3>1. Len(u) <= QueueSize
      <4>1. PICK l \in Nat : l = Len(s) /\ n <= l /\ l <= QueueSize
        BY <2>1
      <4>2. Len(u) = l - n
        BY <2>3, <4>1
      <4>3. l - n <= QueueSize
        BY <4>1, Sizes
      <4> QED
        BY <4>2, <4>3
    <3> QED
      BY <1>4, <2>7, <3>1 DEF QueueTypes
  <2>9. StillDrained
    <3>1. ASSUME NEW r \in Queues, NEW i \in Groups, Drained(r, i)
          PROVE  Drained(r, i)'
      <4>1. <<r, i>> # <<"reorder", g>>
        BY <1>6, <3>1 DEF Drained
      <4>2. queue'[<<r, i>>] = queue[<<r, i>>]
        BY <2>7, <4>1
      <4> QED
        BY <1>4, <3>1, <4>2 DEF Drained
    <3> QED
      BY <3>1 DEF StillDrained
  <2>10. EndInv'
    BY <1>4, <2>9, EndKept
  <2>11. TriesInv'
    BY <1>1, <1>3, <2>4 DEF TriesInv
  <2>12. Moved(Belt, Belt', QueueAt("reorder", g), WriterAt, n)
    <3>1. \A r \in Places \ {QueueAt("reorder", g), WriterAt} : Belt'[r] = Belt[r]
      <4>1. \A r \in Queues : \A i \in Groups : QueueAt(r, i) # QueueAt("reorder", g) =>
               queue'[<<r, i>>] = queue[<<r, i>>]
        BY <2>7
      <4> QED
        BY <1>4, <4>1, BeltElsewhere
    <3>2. Belt[QueueAt("reorder", g)] = s /\ Belt[WriterAt] = <<>>
      BY <1>3, <2>1, BeltAt
    <3>3. Belt'[QueueAt("reorder", g)] = SubSeq(s, n + 1, Len(s))
      BY <1>3, <2>3, <2>7, BeltAtNext
    <3>4. Belt'[WriterAt] = <<>> \o SubSeq(s, 1, n)
      BY <2>3, <2>4, BeltAtNext
    <3> QED
      BY <3>1, <3>2, <3>3, <3>4, BeltAtNext DEF Moved
  <2>13. PlaceInv' /\ BoundInv' /\ PhaseInv' /\ TableInv' /\ FileInv'
    <3>1. Belt \in [Places -> Seq(Chunks)]
      BY BeltTypes DEF WriterTypes
    <3>2. /\ QueueAt("reorder", g) \in Places /\ WriterAt \in Places
          /\ QueueAt("reorder", g) # WriterAt
      BY <1>3, PlaceNames, PlacesDiffer
    <3>3. /\ Raw(QueueAt("reorder", g)) <=> Raw(WriterAt)
          /\ ToDedup(QueueAt("reorder", g)) <=> ToDedup(WriterAt)
          /\ ToCompress(QueueAt("reorder", g)) <=> ToCompress(WriterAt)
      BY RawPlaces, PlacePhases
    <3>4. n <= Len(Belt[QueueAt("reorder", g)])
      BY <1>3, <2>1, BeltAt
    <3> QED
      BY <1>4, <2>4, <2>6, <2>12, <3>1, <3>2, <3>3, <3>4, MoveStep
  <2> QED
    BY <1>5, <2>5, <2>8, <2>10, <2>11, <2>13
<1>7. CASE queue[<<"reorder", g>>] = <<>>
  <2>1. /\ Drained("reorder", g) /\ UNCHANGED queue
        /\ writer' = [writer EXCEPT !.qid = h, !.tries = @ + 1,
                                    !.pc = IF writer.tries + 1 = NQueues THEN "flush" ELSE "fetch"]
    BY <1>1, <1>2, <1>7 DEF ReorderFetch, WriterTypes, Writers
  <2>2. /\ writer' \in Writers
        /\ writer'.qid = h /\ writer'.tries = writer.tries + 1
        /\ writer'.pc = IF writer.tries + 1 = NQueues THEN "flush" ELSE "fetch"
        /\ writer'.recv = writer.recv
        /\ writer'.next = writer.next /\ writer'.room = writer.room
        /\ writer'.bound = writer.bound /\ writer'.held = writer.held /\ writer'.chunk = writer.chunk
    BY <2>1 DEF WriterTypes, Writers
  <2>3. WriterTypes' /\ QueueTypes'
    BY <1>3, <1>4, <2>1, <2>2 DEF WriterTypes, QueueTypes
  <2>4. SameAtWriter
    BY <1>3, <2>2 DEF SameAtWriter, AtWriter, Written
  <2>5. \A q, i : Drained(q, i)' <=> Drained(q, i)
    BY <1>4, <2>1 DEF Drained
  <2>6. EndInv'
    BY <1>4, <2>5, EndKept DEF StillDrained
  <2>7. TriesInv'
    <3>1. ASSUME NEW i \in Groups,
                 IF i < h THEN h <= i + (writer.tries + 1) ELSE h + NQueues <= i + (writer.tries + 1)
          PROVE  Drained("reorder", i)
      <4>1. i # g => IF i < g THEN g <= i + writer.tries ELSE g + NQueues <= i + writer.tries
        <5>1. /\ i \in Nat /\ g \in Nat /\ h \in Nat /\ writer.tries \in Nat /\ NQueues \in Nat
              /\ i < NQueues /\ g < NQueues /\ h = IF g + 1 = NQueues THEN 0 ELSE g + 1
          BY <1>2, <1>3
        <5> QED
          BY <3>1, <5>1
      <4> QED
        BY <1>1, <2>1, <4>1 DEF TriesInv
    <3>2. /\ writer.tries + 1 <= NQueues
          /\ writer.tries + 1 # NQueues => writer.tries + 1 < NQueues
      BY <1>3
    <3>3. \A i \in Groups :
            (IF i < writer'.qid THEN writer'.qid <= i + writer'.tries
                                ELSE writer'.qid + NQueues <= i + writer'.tries)
            => Drained("reorder", i)'
      BY <2>2, <2>5, <3>1
    <3> QED
      BY <2>2, <3>2, <3>3 DEF TriesInv
  <2>8. Belt' = Belt
    BY <1>4, <2>1, <2>2, BeltSame
  <2>9. PlaceInv' /\ BoundInv' /\ PhaseInv' /\ TableInv' /\ FileInv'
    BY <1>3, <1>4, <2>2, <2>4, <2>8, StillStep
  <2> QED
    BY <1>5, <2>3, <2>6, <2>7, <2>9
<1> QED
  BY <1>6, <1>7

LEMMA ReorderTakeStep ==
  ASSUME IInv, ReorderTake
  PROVE  IInv'
<1> USE DEF IInv, Types
<1>1. writer.pc = "take" /\ UNCHANGED <<encoderVars, chunkVars, file>>
  BY DEF ReorderTake
<1>2. PICK s \in Seq(Chunks) : s = writer.recv /\ s # <<>>
  BY <1>1 DEF WriterTypes, Writers
<1>3. PICK k \in Chunks, rest \in Seq(Chunks) : k = Head(s) /\ rest = Tail(s)
  BY <1>2, PassTypes
<1>4. PICK late : late = (k # writer.next)
  OBVIOUS
<1>5. PICK size \in Nat, room \in Nat :
         /\ size = IF IsLastL2Chunk(k) THEN k[2] + 1 ELSE writer.bound[k[1]]
         /\ room = IF k[1] >= writer.room THEN 2 * writer.room ELSE writer.room
         /\ room >= AnchorRoom
  <2>1. k[1] \in 0..Len(Input) /\ k[2] \in Nat /\ k[1] \in Nat
    BY ChunkTypesOf, InputTypes
  <2>2. writer.bound[k[1]] \in Nat /\ writer.room \in Nat /\ writer.room >= AnchorRoom
    BY <2>1 DEF WriterTypes, Writers
  <2>3. AnchorRoom \in Nat
    BY InputFits
  <2>4. PICK x \in Nat, y \in Nat : x = k[1] /\ y = writer.room /\ y >= AnchorRoom
    BY <2>1, <2>2
  <2>5. (IF x >= y THEN 2 * y ELSE y) \in Nat /\ (IF x >= y THEN 2 * y ELSE y) >= AnchorRoom
    BY <2>3, <2>4
  <2>6. (IF IsLastL2Chunk(k) THEN k[2] + 1 ELSE writer.bound[k[1]]) \in Nat
    BY <2>1, <2>2
  <2> QED
    BY <2>4, <2>5, <2>6, Zenon
<1>6. /\ writer' \in Writers
      /\ writer'.qid = writer.qid /\ writer'.tries = writer.tries /\ writer'.recv = rest
      /\ writer'.next = writer.next /\ writer'.room = room
      /\ writer'.bound = [writer.bound EXCEPT ![k[1]] = size]
      /\ \/ /\ writer'.held = writer.held \cup {k} /\ writer'.chunk = writer.chunk
            /\ writer'.pc = AfterTake(rest)
         \/ /\ writer'.held = writer.held /\ writer'.chunk = k /\ writer'.pc = "write"
            /\ k = writer.next
  <2>1. \/ writer' = [writer EXCEPT !.recv = rest, !.room = room, !.bound[k[1]] = size,
                                    !.held = @ \cup {k}, !.pc = AfterTake(rest)]
        \/ /\ k = writer.next
           /\ writer' = [writer EXCEPT !.recv = rest, !.room = room, !.bound[k[1]] = size,
                                       !.chunk = k, !.pc = "write"]
    BY <1>2, <1>3, <1>5 DEF ReorderTake, WriterTypes, Writers
  <2>2. AfterTake(rest) \in {"fetch", "take"}
    BY DEF AfterTake
  <2>3. k[1] \in 0..Len(Input)
    BY ChunkTypesOf, InputTypes
  <2>4. [writer.bound EXCEPT ![k[1]] = size] \in [0..Len(Input) -> Nat]
    BY <2>3 DEF WriterTypes, Writers
  <2>5. CASE writer' = [writer EXCEPT !.recv = rest, !.room = room, !.bound[k[1]] = size,
                                      !.held = @ \cup {k}, !.pc = AfterTake(rest)]
    BY <2>2, <2>4, <2>5 DEF WriterTypes, Writers
  <2>6. CASE /\ k = writer.next
             /\ writer' = [writer EXCEPT !.recv = rest, !.room = room, !.bound[k[1]] = size,
                                         !.chunk = k, !.pc = "write"]
    BY <2>4, <2>6 DEF WriterTypes, Writers
  <2> QED
    BY <2>1, <2>5, <2>6
<1>7. AtWriter(k)' /\ \A l \in Chunks : AtWriter(l)' <=> AtWriter(l) \/ l = k
  <2>1. AfterTake(rest) # "write"
    BY DEF AfterTake
  <2>2. \A l \in Chunks : Written(l)' <=> Written(l)
    BY <1>6 DEF Written
  <2> QED
    BY <1>1, <1>6, <2>1, <2>2 DEF AtWriter
<1>8. UNCHANGED <<sent, queue, ended, pc, recv, send>>
  BY <1>1 DEF encoderVars
<1>9. QueueTypes' /\ WorkerTypes' /\ ChunkTypes'
  BY <1>1, <1>8, ChunkTypesKept DEF QueueTypes, WorkerTypes
<1>10. WriterTypes'
  <2>1. /\ AfterTake(rest) = "take" => rest # <<>>
        /\ AfterTake(rest) # "take" => AfterTake(rest) = "fetch" /\ rest = <<>>
    BY DEF AfterTake
  <2> QED
    BY <1>5, <1>6, <2>1 DEF WriterTypes
<1>11. /\ Once(Belt')
       /\ At(Belt, WriterAt, k)
       /\ \A l \in Chunks : On(Belt', l) <=> On(Belt, l) /\ l # k
       /\ \A l \in Chunks : \A r \in Places : At(Belt', r, l) => At(Belt, r, l)
  <2>1. Belt \in [Places -> Seq(Chunks)] /\ Once(Belt)
    BY BeltTypes DEF WriterTypes, PlaceInv
  <2>2. PICK p \in Places : p = WriterAt /\ ~Raw(p)
    BY PlaceNames, RawPlaces
  <2>3. PICK c : c = Belt'
    OBVIOUS
  <2>4. Belt[p] = s /\ c[p] = Tail(s)
    BY <1>2, <1>3, <1>6, <2>2, <2>3, BeltAt, BeltAtNext
  <2>5. \A r \in Places \ {p} : c[r] = Belt[r]
    BY <1>8, <2>2, <2>3, BeltElsewhere
  <2>6. Dropped(Belt, c, p)
    BY <2>3, <2>4, <2>5, BeltAtNext DEF Dropped
  <2>7. /\ Once(c)
        /\ At(Belt, p, Head(Belt[p]))
        /\ \A l \in Chunks : On(c, l) <=> On(Belt, l) /\ l # Head(Belt[p])
        /\ \A l \in Chunks : \A r \in Places : At(c, r, l) => At(Belt, r, l)
    <3>1. Belt[p] # <<>>
      BY <1>2, <2>4
    <3> QED
      BY <2>1, <2>2, <2>6, <3>1, DropKeeps
  <2> QED
    BY <1>3, <2>2, <2>3, <2>4, <2>7
<1>12. k[1] < sent /\ ~AtWriter(k) /\ original[k] # NoChunk
  <2>1. On(Belt, k)
    BY <1>11, PlaceNames DEF On
  <2>2. ~ToDedup(WriterAt) /\ WriterAt \in Places
    BY PlacePhases, PlaceNames
  <2> QED
    BY <1>11, <2>1, <2>2 DEF PlaceInv, PhaseInv
<1>13. PlaceInv'
  <2>1. ASSUME NEW l \in Chunks
        PROVE  /\ On(Belt', l) => l[1] < sent'
               /\ AtWriter(l)' => l[1] < sent' /\ ~On(Belt', l)
               /\ l[1] < sent' => On(Belt', l) \/ AtWriter(l)'
    BY <1>7, <1>8, <1>11, <1>12 DEF PlaceInv
  <2>2. ASSUME NEW l \in writer'.held PROVE ~Written(l)'
    <3>1. l \in writer.held \/ l = k
      BY <1>6
    <3>2. ~Written(l)
      BY <1>12, <3>1 DEF PlaceInv, AtWriter
    <3> QED
      BY <1>6, <3>2 DEF Written
  <2>3. writer'.pc = "write" => writer'.chunk \notin writer'.held
    <3>1. AfterTake(rest) # "write" /\ k \notin writer.held
      BY <1>12 DEF AfterTake, AtWriter
    <3> QED
      BY <1>6, <3>1
  <2> QED
    BY <1>11, <2>1, <2>2, <2>3 DEF PlaceInv
<1>14. BoundInv'
  <2>1. ASSUME NEW l \in Chunks, IsLastL2Chunk(l)
        PROVE  writer'.bound[l[1]] = IF AtWriter(l)' THEN l[2] + 1 ELSE 0
    <3>1. /\ l = <<l[1], l[2]>> /\ k = <<k[1], k[2]>>
          /\ k[1] \in 0..Len(Input) /\ l[1] \in 0..Len(Input)
          /\ writer.bound \in [0..Len(Input) -> Nat]
      <4>1. \A j \in Chunks : j = <<j[1], j[2]>> /\ j[1] \in 0..Len(Input)
        BY ChunkTypesOf, InputTypes
      <4>2. writer.bound \in [0..Len(Input) -> Nat]
        BY DEF WriterTypes, Writers
      <4> QED
        BY <4>1, <4>2
    <3>2. writer'.bound[l[1]] = IF l[1] = k[1] THEN size ELSE writer.bound[l[1]]
      BY <1>6, <3>1
    <3>3. l[1] = k[1] => (IsLastL2Chunk(k) <=> l = k)
      BY <2>1, <3>1 DEF IsLastL2Chunk
    <3>4. writer.bound[l[1]] = IF AtWriter(l) THEN l[2] + 1 ELSE 0
      BY <2>1 DEF BoundInv
    <3> QED
      BY <1>5, <1>7, <3>2, <3>3, <3>4
  <2> QED
    BY <2>1 DEF BoundInv
<1>15. PhaseInv'
  <2>1. \A l \in Chunks : New(l)' <=> New(l)
    BY <1>1 DEF New, chunkVars
  <2> QED
    BY <1>1, <1>7, <1>8, <1>11, <1>12, <2>1 DEF PhaseInv, chunkVars
<1>16. TableInv' /\ FileInv'
  BY <1>1, <1>6, TableKept, FileKept DEF chunkVars
<1>17. \A q, i : Drained(q, i)' <=> Drained(q, i)
  BY <1>8 DEF Drained
<1>18. EndInv'
  BY <1>8, <1>17, EndKept DEF StillDrained
<1>19. TriesInv'
  <2>1. writer.tries = 0 /\ 0 < NQueues
    BY <1>1, QueueNumbers DEF TriesInv
  <2>2. AfterTake(rest) \in {"fetch", "take"}
    BY DEF AfterTake
  <2> QED
    BY <1>6, <1>17, <2>1, <2>2 DEF TriesInv
<1> QED
  BY <1>9, <1>10, <1>13, <1>14, <1>15, <1>16, <1>18, <1>19

-----------------------------------------------------------------------------
(* Reorder writes chunks *)

\* What of a coarse chunk has come decides where Reorder goes on.
LEMMA AdvanceIs ==
  ASSUME BoundInv, NEW k \in Chunks, AtWriter(k)
  PROVE  Advance(k, writer.bound) = IF IsLastL2Chunk(k) THEN <<k[1] + 1, 0>> ELSE <<k[1], k[2] + 1>>
<1>1. /\ k = <<k[1], k[2]>> /\ k[1] \in L1 /\ k[2] \in Nat /\ k[2] < Len(Input[k[1] + 1])
      /\ Len(Input[k[1] + 1]) \in Nat
  BY ChunkTypesOf, InputTypes
<1>2. PICK c \in Nat : c = Len(Input[k[1] + 1]) /\ k[2] < c
  BY <1>1
<1>3. <<k[1], c - 1>> \in Chunks
  <2>1. c - 1 \in Nat /\ c - 1 < c
    BY <1>1, <1>2
  <2> QED
    BY <1>1, <1>2, <2>1, ChunkAt
<1>4. PICK l \in Chunks : l = <<k[1], c - 1>>
  BY <1>3
<1>5. IsLastL2Chunk(l) /\ l[1] = k[1] /\ l[2] = c - 1
  BY <1>2, <1>4 DEF IsLastL2Chunk
<1>6. writer.bound[k[1]] = IF AtWriter(l) THEN (c - 1) + 1 ELSE 0
  BY <1>5 DEF BoundInv
<1>7. CASE IsLastL2Chunk(k)
  <2>1. k[2] = c - 1 /\ l = k
    BY <1>1, <1>2, <1>4, <1>7 DEF IsLastL2Chunk
  <2>2. writer.bound[k[1]] = k[2] + 1 /\ k[2] + 1 # 0
    BY <1>1, <1>6, <2>1
  <2> QED
    BY <1>7, <2>2 DEF Advance
<1>8. CASE ~IsLastL2Chunk(k)
  <2>1. k[2] + 1 # (c - 1) + 1
    BY <1>1, <1>2, <1>8 DEF IsLastL2Chunk
  <2> QED
    BY <1>6, <1>8, <2>1 DEF Advance
<1> QED
  BY <1>7, <1>8

LEMMA AdvancePast ==
  ASSUME NEW k \in Chunks, NEW n,
         n = IF IsLastL2Chunk(k) THEN <<k[1] + 1, 0>> ELSE <<k[1], k[2] + 1>>
  PROVE  /\ n \in Positions /\ Pos(n) = Pos(k) + 1
         /\ \A l \in Chunks : Before(l, n) <=> Before(l, k) \/ l = k
<1>1. n \in Positions
  BY ChunkOrNext DEF Positions
<1>2. Pos(n) = Pos(k) + 1
  BY PosNext
<1>3. ASSUME NEW l \in Chunks
      PROVE  Before(l, n) <=> Before(l, k) \/ l = k
  <2>1. \A j \in Chunks : /\ j = <<j[1], j[2]>> /\ j[1] \in Nat /\ j[2] \in Nat
                          /\ j[2] < Len(Input[j[1] + 1]) /\ Len(Input[j[1] + 1]) \in Nat
    BY ChunkTypesOf, InputTypes
  <2>2. CASE IsLastL2Chunk(k)
    <3>1. n[1] = k[1] + 1 /\ n[2] = 0
      BY <2>2
    <3>2. l[1] = k[1] => l[2] <= k[2]
      BY <2>1, <2>2 DEF IsLastL2Chunk
    <3> QED
      BY <2>1, <3>1, <3>2 DEF Before
  <2>3. CASE ~IsLastL2Chunk(k)
    <3>1. n[1] = k[1] /\ n[2] = k[2] + 1
      BY <2>3
    <3> QED
      BY <2>1, <3>1 DEF Before
  <2> QED
    BY <2>2, <2>3
<1> QED
  BY <1>1, <1>2, <1>3

\* The record of a chunk: it is a fingerprint when an equal chunk is before.
LEMMA RecordIs ==
  ASSUME NEW k \in Chunks
  PROVE  /\ Archive!Record(Pos(k) + 1).content = Content(k)
         /\ Archive!Record(Pos(k) + 1) =
              [type |-> IF \E l \in Chunks : Before(l, k) /\ Content(l) = Content(k)
                        THEN "fingerprint" ELSE "compress",
               content |-> Content(k)]
<1>1. Pos(k) \in Nat /\ Pos(k) < Len(Stream) /\ Len(Stream) \in Nat /\ Stream[Pos(k) + 1] = Content(k)
  BY PosOfChunk
<1>2. PICK n \in Nat : n = Pos(k) /\ n < Len(Stream)
  BY <1>1
<1>3. k \in Positions /\ Chunks \subseteq Positions
  BY DEF Positions
<1>4. ASSUME NEW j \in 1..n, Stream[j] = Content(k)
      PROVE  \E l \in Chunks : Before(l, k) /\ Content(l) = Content(k)
  <2>1. j \in 1..Len(Stream)
    BY <1>1, <1>2
  <2>2. PICK l \in Chunks : Pos(l) + 1 = j
    BY <2>1, PosOnto
  <2>3. Pos(l) \in Nat /\ Stream[Pos(l) + 1] = Content(l)
    BY PosOfChunk
  <2>4. Pos(l) < Pos(k)
    BY <1>2, <2>2, <2>3
  <2>5. Before(l, k)
    BY <1>3, <2>4, PosOrder
  <2> QED
    BY <1>4, <2>2, <2>3, <2>5
<1>5. ASSUME NEW l \in Chunks, Before(l, k), Content(l) = Content(k)
      PROVE  \E j \in 1..n : Stream[j] = Content(k)
  <2>1. Pos(l) < Pos(k)
    BY <1>3, <1>5, PosOrder
  <2>2. Pos(l) \in Nat /\ Stream[Pos(l) + 1] = Content(l)
    BY PosOfChunk
  <2>3. Pos(l) + 1 \in 1..n
    BY <1>2, <2>1, <2>2
  <2> QED
    BY <1>5, <2>2, <2>3
<1>6. (n + 1) - 1 = n
  OBVIOUS
<1>7. Archive!Record(n + 1) =
        [type |-> IF \E j \in 1..n : Stream[j] = Stream[n + 1] THEN "fingerprint" ELSE "compress",
         content |-> Stream[n + 1]]
  BY <1>6 DEF Archive!Record
<1>8. Stream[n + 1] = Content(k)
  BY <1>1, <1>2
<1> QED
  BY <1>2, <1>4, <1>5, <1>7, <1>8

\* The chunk that is next is written, wherever it was held before.
LEMMA WriteKeeps ==
  ASSUME IInv, NEW k \in Chunks, k = writer.next, AtWriter(k), write_chunk_to_file(k),
         UNCHANGED <<original, table>>, writer'.next = Advance(k, writer.bound)
  PROVE  /\ writer'.next \in Positions
         /\ \A l \in Chunks : Written(l)' <=> Written(l) \/ l = k
         /\ \A l \in Chunks : state'[l] = "uncompressed" <=> state[l] = "uncompressed"
         /\ ChunkTypes' /\ TableInv' /\ FileInv'
         /\ Len(file) = Pos(k) /\ file' = Append(file, Archive!Record(Pos(k) + 1))
<1> USE DEF IInv, Types
<1>1. PICK n : n = writer'.next
  OBVIOUS
<1>2. n \in Positions /\ Pos(n) = Pos(k) + 1 /\ \A l \in Chunks : Before(l, n) <=> Before(l, k) \/ l = k
  <2>1. n = IF IsLastL2Chunk(k) THEN <<k[1] + 1, 0>> ELSE <<k[1], k[2] + 1>>
    BY <1>1, AdvanceIs
  <2> QED
    BY <2>1, AdvancePast
<1>3. /\ \A l \in Chunks : Written(l)' <=> Written(l) \/ l = k
      /\ \A l \in Chunks : Written(l) <=> Before(l, k)
  BY <1>1, <1>2 DEF Written
<1>4. PICK o \in Chunks : o = original[k] /\ Content(o) = Content(k) /\ original[o] = o
  <2>1. original[k] # NoChunk /\ original[k] \in Chunks
    BY DEF PhaseInv, ChunkTypes
  <2>2. table[Content(k)] = original[k] /\ Content(k) \in Contents
    BY <2>1, ChunkTypesOf DEF TableInv
  <2> QED
    BY <2>1, <2>2 DEF TableInv
<1>5. PICK rec : rec = [type |-> IF state[o] = "flushed" THEN "fingerprint" ELSE "compress",
                        content |-> Content(k)]
  OBVIOUS
<1>6. /\ state[o] \in {"compressed", "flushed"}
      /\ file' = Append(file, rec)
      /\ state' = [state EXCEPT ![o] = "flushed"]
  <2>1. CASE state[o] = "compressed"
    BY <1>4, <1>5, <2>1 DEF write_chunk_to_file
  <2>2. CASE state[o] = "flushed"
    <3>1. file' = Append(file, rec) /\ state' = state
      BY <1>4, <1>5, <2>2 DEF write_chunk_to_file
    <3>2. state = [state EXCEPT ![o] = "flushed"]
      BY <2>2 DEF ChunkTypes
    <3> QED
      BY <2>2, <3>1, <3>2
  <2> QED
    BY <1>4, <2>1, <2>2 DEF write_chunk_to_file
<1>7. \A l \in Chunks : state'[l] = IF l = o THEN "flushed" ELSE state[l]
  BY <1>6 DEF ChunkTypes
<1>8. ChunkTypes' /\ \A l \in Chunks : state'[l] = "uncompressed" <=> state[l] = "uncompressed"
  BY <1>6, <1>7 DEF ChunkTypes
<1>9. state[o] = "flushed" <=> \E l \in Chunks : Before(l, k) /\ Content(l) = Content(k)
  <2>1. ASSUME NEW l \in Chunks, Written(l)
        PROVE  original[l] = o <=> Content(l) = Content(k)
    <3>1. original[l] # NoChunk
      BY <2>1 DEF PhaseInv, AtWriter
    <3>2. table[Content(l)] = original[l] /\ table[Content(k)] = o /\ original[l] \in Chunks
      BY <1>4, <3>1, NoChunkIsNone DEF TableInv, ChunkTypes
    <3>3. Content(table[Content(l)]) = Content(l)
      BY <3>1, <3>2, ChunkTypesOf DEF TableInv
    <3> QED
      BY <1>4, <3>2, <3>3
  <2>2. state[o] = "flushed" <=> \E l \in Chunks : Written(l) /\ original[l] = o
    BY DEF TableInv
  <2> QED
    BY <1>3, <2>1, <2>2
<1>10. TableInv'
  <2>1. \A l \in Chunks : state'[l] # "uncompressed" => original'[l] = l
    BY <1>8 DEF TableInv
  <2>2. ASSUME NEW l \in Chunks
        PROVE  state'[l] = "flushed" <=> \E j \in Chunks : Written(j)' /\ original'[j] = l
    <3>1. state[l] = "flushed" <=> \E j \in Chunks : Written(j) /\ original[j] = l
      BY DEF TableInv
    <3>2. state'[l] = "flushed" <=> state[l] = "flushed" \/ l = o
      BY <1>7
    <3> QED
      BY <1>3, <1>4, <3>1, <3>2
  <2> QED
    BY <2>1, <2>2 DEF TableInv
<1>11. rec = Archive!Record(Pos(k) + 1)
  BY <1>5, <1>9, RecordIs
<1>12. /\ file \in Seq([type : {"compress", "fingerprint"}, content : Contents])
       /\ Len(file) = Pos(k) /\ Pos(k) \in Nat
       /\ \A i \in 1..Len(file) : file[i] = Archive!Record(i)
  BY PosOfChunk DEF FileInv
<1>13. FileInv'
  <2> DEFINE R == [type : {"compress", "fingerprint"}, content : Contents]
  <2>1. rec \in R
    BY <1>5, ChunkTypesOf
  <2>2. PICK f \in Seq(R), m \in Nat : f = file /\ m = Len(f) /\ m = Pos(k)
    BY <1>12
  <2>3. PICK h : h = Append(f, rec)
    OBVIOUS
  <2> HIDE DEF R
  <2>4. /\ h \in Seq(R) /\ Len(h) = m + 1 /\ h[m + 1] = rec
        /\ \A i \in 1..m : h[i] = f[i]
    <3>1. /\ h \in Seq(R) /\ Len(h) = Len(f) + 1 /\ h[Len(f) + 1] = rec
          /\ \A i \in 1..Len(f) : h[i] = f[i]
      BY <2>1, <2>3, AppendProperties
    <3> QED
      BY <2>2, <3>1, Zenon
  <2>5. \A i \in 1..m + 1 : i \in 1..m \/ i = m + 1
    OBVIOUS
  <2>6. \A i \in 1..m + 1 : h[i] = Archive!Record(i)
    BY <1>11, <1>12, <2>2, <2>4, <2>5
  <2>7. file' = h /\ Len(file') = m + 1 /\ Pos(n) = m + 1
    BY <1>2, <1>6, <2>2, <2>3, <2>4
  <2> QED
    BY <1>1, <2>4, <2>6, <2>7 DEF FileInv, R
<1> QED
  BY <1>1, <1>2, <1>3, <1>6, <1>8, <1>10, <1>11, <1>12, <1>13

LEMMA WriteLeaves ==
  ASSUME IInv, UNCHANGED <<encoderVars, original, table>>,
         writer'.recv = writer.recv, writer'.bound = writer.bound, SameAtWriter,
         \A l \in Chunks : state'[l] = "uncompressed" <=> state[l] = "uncompressed",
         \A l \in writer'.held : ~Written(l)',
         writer'.pc = "write" => writer'.chunk \notin writer'.held
  PROVE  /\ QueueTypes' /\ WorkerTypes' /\ PlaceInv' /\ BoundInv' /\ EndInv' /\ PhaseInv'
         /\ \A q, g : Drained(q, g)' <=> Drained(q, g)
<1> USE DEF IInv, Types
<1>1. UNCHANGED <<sent, queue, ended, pc, recv, send>>
  BY DEF encoderVars
<1>2. QueueTypes' /\ WorkerTypes'
  BY <1>1 DEF QueueTypes, WorkerTypes
<1>3. \A q, g : Drained(q, g)' <=> Drained(q, g)
  BY <1>1 DEF Drained
<1>4. EndInv'
  BY <1>1, <1>3, EndKept DEF StillDrained
<1>5. Belt' = Belt
  BY <1>1, BeltSame
<1>6. PlaceInv'
  <2>1. Once(Belt') /\ \A l \in Chunks : On(Belt', l) <=> On(Belt, l)
    BY <1>5 DEF PlaceInv
  <2> QED
    BY <1>1, <2>1 DEF PlaceInv, SameAtWriter
<1>7. BoundInv'
  BY DEF BoundInv, SameAtWriter
<1>8. PhaseInv'
  <2>1. \A l \in Chunks : New(l)' <=> New(l)
    BY DEF New
  <2>2. \A l \in Chunks : \A p \in Places : At(Belt', p, l) <=> At(Belt, p, l)
    BY <1>5
  <2> QED
    BY <1>1, <2>1, <2>2 DEF PhaseInv, SameAtWriter
<1> QED
  BY <1>2, <1>3, <1>4, <1>6, <1>7, <1>8

LEMMA ReorderWriteStep ==
  ASSUME IInv, ReorderWrite
  PROVE  IInv'
<1> USE DEF IInv, Types
<1>1. PICK k \in Chunks : k = writer.chunk /\ k = writer.next /\ writer.pc = "write"
  BY DEF ReorderWrite, WriterTypes
<1>2. PICK next : next = Advance(k, writer.bound)
  OBVIOUS
<1>3. PICK following : following = NextHeld(writer.held, next)
  OBVIOUS
<1>4. PICK goal : goal = IF following # NoChunk THEN "write" ELSE AfterTake(writer.recv)
  OBVIOUS
<1>5. /\ write_chunk_to_file(k)
      /\ writer' = [writer EXCEPT !.next = next, !.chunk = following,
                                  !.held = @ \ {following}, !.pc = goal]
      /\ UNCHANGED <<encoderVars, original, table>>
  BY <1>1, <1>2, <1>3, <1>4 DEF ReorderWrite, WriterTypes, Writers
<1>6. writer.held \in SUBSET Chunks /\ writer \in Writers
  BY DEF WriterTypes, Writers
<1>7. /\ following = NoChunk \/ (following = next /\ following \in writer.held /\ following \in Chunks)
      /\ NoChunk \notin writer.held
  BY <1>3, <1>6, FirstExists, NoChunkIsNone DEF NextHeld
<1>8. /\ writer'.next = next /\ writer'.chunk = following
      /\ writer'.held = writer.held \ {following} /\ writer'.pc = goal
      /\ writer'.qid = writer.qid /\ writer'.tries = writer.tries /\ writer'.recv = writer.recv
      /\ writer'.room = writer.room /\ writer'.bound = writer.bound
  BY <1>5, <1>6 DEF Writers
<1>9. AtWriter(k)
  BY <1>1 DEF AtWriter
<1>10. /\ next \in Positions
       /\ \A l \in Chunks : Written(l)' <=> Written(l) \/ l = k
       /\ \A l \in Chunks : state'[l] = "uncompressed" <=> state[l] = "uncompressed"
       /\ ChunkTypes' /\ TableInv' /\ FileInv'
  BY <1>1, <1>2, <1>5, <1>8, <1>9, WriteKeeps
<1>11. /\ goal \in {"fetch", "take", "write"}
       /\ goal = "write" <=> following # NoChunk
       /\ goal = "take" => writer.recv # <<>>
       /\ goal = "fetch" => writer.recv = <<>>
  BY <1>4 DEF AfterTake
<1>12. WriterTypes'
  <2>1. writer' \in Writers
    BY <1>5, <1>6, <1>7, <1>10, <1>11 DEF Writers
  <2>2. goal = "write" => following = next /\ next \in Chunks
    BY <1>7, <1>11
  <2> QED
    BY <1>8, <1>11, <2>1, <2>2 DEF WriterTypes
<1>13. SameAtWriter
  <2>1. ASSUME NEW l \in Chunks
        PROVE  AtWriter(l)' <=> AtWriter(l)
    <3>1. AtWriter(l) <=> l \in writer.held \/ Written(l) \/ l = k
      BY <1>1 DEF AtWriter
    <3>2. AtWriter(l)' <=> l \in writer.held \ {following} \/ Written(l) \/ l = k \/ (goal = "write" /\ l = following)
      BY <1>8, <1>10 DEF AtWriter
    <3> QED
      BY <1>7, <1>11, <3>1, <3>2
  <2> QED
    BY <2>1 DEF SameAtWriter
<1>14. \A l \in writer'.held : ~Written(l)'
  <2>1. k \notin writer.held /\ \A l \in writer.held : ~Written(l)
    BY <1>1 DEF PlaceInv
  <2> QED
    BY <1>6, <1>8, <1>10, <2>1
<1>15. /\ QueueTypes' /\ WorkerTypes' /\ PlaceInv' /\ BoundInv' /\ EndInv' /\ PhaseInv'
       /\ \A q, g : Drained(q, g)' <=> Drained(q, g)
  BY <1>5, <1>8, <1>10, <1>13, <1>14, WriteLeaves
<1>16. TriesInv'
  <2>1. writer.tries = 0 /\ 0 < NQueues
    BY <1>1, QueueNumbers DEF TriesInv
  <2> QED
    BY <1>8, <1>11, <1>15, <2>1 DEF TriesInv
<1> QED
  BY <1>10, <1>12, <1>15, <1>16

\* When Reorder has found all its queues drained one after the other, all
\* chunks have come, so that there is no gap between those it holds.
LEMMA AllHaveCome ==
  ASSUME IInv, writer.pc = "flush"
  PROVE  /\ sent = Len(Input) + NQueues
         /\ \A k \in Chunks : k \in writer.held \/ Written(k)
         /\ writer.held # {} => FirstHeld(writer.held) = writer.next
<1> USE DEF IInv, Types
<1>1. \A g \in Groups : Drained("reorder", g)
  <2>1. ASSUME NEW g \in Groups PROVE Drained("reorder", g)
    <3>1. g \in Nat /\ writer.qid \in Nat /\ g < NQueues /\ writer.qid < NQueues /\ NQueues \in Nat
      BY QueueNumbers DEF WriterTypes, Writers, Groups
    <3>2. writer.tries = NQueues
      BY DEF TriesInv
    <3>3. IF g < writer.qid THEN writer.qid <= g + writer.tries
                            ELSE writer.qid + NQueues <= g + writer.tries
      BY <3>1, <3>2
    <3> QED
      BY <3>3 DEF TriesInv
  <2> QED
    BY <2>1
<1>2. /\ "reorder" \in Queues \ {"refine"} /\ "dedup" \in Queues \ {"refine"}
      /\ Stages \subseteq Queues /\ "refine" \in Stages /\ "dedup" \in Stages
      /\ Queues = {"refine", "dedup", "compress", "reorder"}
  BY DEF Queues, Stages
<1>3. ASSUME NEW w \in Workers, Stage(w) \in {"dedup", "compress"}
      PROVE  pc[w] = "done"
  <2>1. "reorder" \in SendsTo(w) /\ Qid(w) \in Groups
    BY <1>3, WorkerTypesOf DEF SendsTo
  <2> QED
    BY <1>1, <1>2, <2>1, DoneWhenEnded DEF Drained
<1>4. \A g \in Groups : Drained("dedup", g)
  <2>1. ASSUME NEW g \in Groups PROVE Drained("dedup", g)
    <3>1. PICK w \in Workers : Stage(w) = "dedup" /\ Qid(w) = g
      BY <1>2, GroupHasWorkers
    <3> QED
      BY <1>3, <3>1 DEF EndInv
  <2> QED
    BY <2>1
<1>5. ASSUME NEW w \in Workers
      PROVE  pc[w] = "done"
  <2>1. CASE Stage(w) = "refine"
    <3>1. "dedup" \in SendsTo(w) /\ Qid(w) \in Groups
      BY <2>1, WorkerTypesOf DEF SendsTo
    <3> QED
      BY <1>2, <1>4, <3>1, DoneWhenEnded DEF Drained
  <2> QED
    BY <1>3, <2>1, WorkerTypesOf DEF Stages
<1>6. /\ \A w \in Workers : recv[w] = <<>> /\ \A out \in SendsTo(w) : send[w][out] = <<>>
      /\ \A w \in Workers : Drained(Stage(w), Qid(w))
  BY <1>5 DEF EndInv
<1>7. \A q \in Queues : \A g \in Groups : Drained(q, g)
  <2>1. ASSUME NEW q \in Stages, NEW g \in Groups PROVE Drained(q, g)
    <3>1. PICK w \in Workers : Stage(w) = q /\ Qid(w) = g
      BY GroupHasWorkers
    <3> QED
      BY <1>6, <3>1
  <2> QED
    BY <1>1, <2>1 DEF Queues
<1>8. sent = Len(Input) + NQueues /\ Len(Input) \in Nat /\ NQueues \in Nat \ {0}
  <2>1. PICK g \in Groups : g = NQueues - 1 /\ g \in Nat
    BY QueueNumbers DEF Groups
  <2>2. sent \in 0..Len(Input) + NQueues /\ Len(Input) \in Nat /\ NQueues \in Nat \ {0}
    BY InputTypes, QueueNumbers DEF QueueTypes
  <2>3. sent > Len(Input) + g
    BY <1>2, <1>7, <2>2, RefineEnded
  <2> QED
    BY <2>1, <2>2, <2>3
<1>9. \A p \in Places : Belt[p] = <<>>
  <2>1. \A q \in Queues : \A g \in Groups : Belt[QueueAt(q, g)] = <<>>
    BY <1>7, BeltAt DEF Drained
  <2>2. \A w \in Workers : Belt[RecvAt(w)] = <<>>
    BY <1>6, BeltAt
  <2>3. \A w \in Workers : \A out \in SendsTo(w) : Belt[SendAt(w, out)] = <<>>
    BY <1>6, BeltAt
  <2>4. Belt[WriterAt] = <<>>
    BY BeltAt DEF WriterTypes
  <2> QED
    BY <2>1, <2>2, <2>3, <2>4, PlaceNames, Zenon
<1>10. \A k \in Chunks : ~On(Belt, k)
  <2>1. DOMAIN <<>> = {}
    OBVIOUS
  <2> QED
    BY <1>9, <2>1 DEF On, At
<1>11. \A k \in Chunks : k \in writer.held \/ Written(k)
  <2>1. \A k \in Chunks : k[1] < sent
    BY <1>8, ChunkTypesOf
  <2> QED
    BY <1>10, <2>1 DEF PlaceInv, AtWriter
<1>12. ASSUME writer.held # {}
       PROVE  FirstHeld(writer.held) = writer.next
  <2>1. writer.held \in SUBSET Chunks /\ writer.next \in Positions
    BY DEF WriterTypes, Writers
  <2>2. PICK f \in Chunks : /\ f = FirstHeld(writer.held) /\ f \in writer.held
                            /\ \A l \in writer.held : LessEq(f, l)
    BY <1>12, <2>1, FirstExists
  <2>3. ~Before(f, writer.next)
    BY <2>2 DEF PlaceInv, Written
  <2>4. CASE Before(writer.next, f)
    <3>1. writer.next \in Chunks
      BY <2>1, <2>4, <1>8, ChunkTypesOf DEF Positions, Before
    <3>2. f \in Positions /\ writer.next \in Positions
      BY <2>1 DEF Positions
    <3>3. writer.next \in writer.held
      BY <1>11, <3>1, <3>2, BeforeOrder DEF Written
    <3> QED
      BY <2>2, <2>3, <2>4, <3>2, <3>3, BeforeOrder
  <2> QED
    BY <2>1, <2>2, <2>3, <2>4, BeforeOrder DEF Positions
<1> QED
  BY <1>8, <1>11, <1>12

LEMMA ReorderFlushStep ==
  ASSUME IInv, ReorderFlush
  PROVE  IInv'
<1> USE DEF IInv, Types
<1>1. writer.pc = "flush" /\ UNCHANGED <<encoderVars, original, table>> /\ writer \in Writers
  BY DEF ReorderFlush, WriterTypes
<1>2. CASE writer.held # {}
  <2>1. PICK k \in Chunks : /\ k = FirstHeld(writer.held) /\ k \in writer.held /\ k = writer.next
    BY <1>1, <1>2, FirstExists, AllHaveCome DEF Writers
  <2>2. PICK next : next = Advance(k, writer.bound)
    OBVIOUS
  <2>3. /\ write_chunk_to_file(k)
        /\ writer' = [writer EXCEPT !.held = @ \ {k}, !.next = next]
    BY <1>2, <2>1, <2>2 DEF ReorderFlush, WriterTypes, Writers
  <2>4. /\ writer'.next = next /\ writer'.chunk = writer.chunk
        /\ writer'.held = writer.held \ {k} /\ writer'.pc = "flush"
        /\ writer'.qid = writer.qid /\ writer'.tries = writer.tries /\ writer'.recv = writer.recv
        /\ writer'.room = writer.room /\ writer'.bound = writer.bound
    BY <1>1, <2>3 DEF Writers
  <2>5. AtWriter(k)
    BY <2>1 DEF AtWriter
  <2>6. /\ next \in Positions
        /\ \A l \in Chunks : Written(l)' <=> Written(l) \/ l = k
        /\ \A l \in Chunks : state'[l] = "uncompressed" <=> state[l] = "uncompressed"
        /\ ChunkTypes' /\ TableInv' /\ FileInv'
    BY <1>1, <2>1, <2>2, <2>3, <2>4, <2>5, WriteKeeps
  <2>7. WriterTypes'
    <3>1. writer' \in Writers
      BY <1>1, <2>3, <2>6 DEF Writers
    <3> QED
      BY <1>1, <2>4, <3>1 DEF WriterTypes
  <2>8. SameAtWriter
    <3>1. \A l \in Chunks : AtWriter(l)' <=> AtWriter(l)
      BY <1>1, <2>1, <2>4, <2>6 DEF AtWriter
    <3> QED
      BY <3>1 DEF SameAtWriter
  <2>9. \A l \in writer'.held : ~Written(l)'
    <3>1. writer.held \in SUBSET Chunks /\ \A l \in writer.held : ~Written(l)
      BY <1>1 DEF PlaceInv, Writers
    <3> QED
      BY <2>4, <2>6, <3>1
  <2>10. /\ QueueTypes' /\ WorkerTypes' /\ PlaceInv' /\ BoundInv' /\ EndInv' /\ PhaseInv'
         /\ \A q, g : Drained(q, g)' <=> Drained(q, g)
    BY <1>1, <2>4, <2>6, <2>8, <2>9, WriteLeaves
  <2>11. TriesInv'
    BY <1>1, <2>4, <2>10 DEF TriesInv
  <2> QED
    BY <2>6, <2>7, <2>10, <2>11
<1>3. CASE writer.held = {}
  <2>1. writer' = [writer EXCEPT !.pc = "done"] /\ UNCHANGED <<state, file>>
    BY <1>3 DEF ReorderFlush
  <2>2. /\ writer'.next = writer.next /\ writer'.chunk = writer.chunk
        /\ writer'.held = writer.held /\ writer'.pc = "done"
        /\ writer'.qid = writer.qid /\ writer'.tries = writer.tries /\ writer'.recv = writer.recv
        /\ writer'.room = writer.room /\ writer'.bound = writer.bound
    BY <1>1, <2>1 DEF Writers
  <2>3. writer' \in Writers
    BY <1>1, <2>1 DEF Writers
  <2>4. WriterTypes'
    BY <1>1, <2>2, <2>3 DEF WriterTypes
  <2>5. \A l \in Chunks : Written(l)' <=> Written(l)
    BY <2>2 DEF Written
  <2>6. SameAtWriter
    BY <1>1, <2>2, <2>5 DEF AtWriter, SameAtWriter
  <2>7. /\ QueueTypes' /\ WorkerTypes' /\ PlaceInv' /\ BoundInv' /\ EndInv' /\ PhaseInv'
        /\ \A q, g : Drained(q, g)' <=> Drained(q, g)
    BY <1>1, <1>3, <2>1, <2>2, <2>6, WriteLeaves
  <2>8. TriesInv'
    BY <1>1, <2>2, <2>7 DEF TriesInv
  <2>9. ChunkTypes' /\ TableInv' /\ FileInv'
    BY <1>1, <2>1, <2>2, ChunkTypesKept, TableKept, FileKept DEF chunkVars
  <2> QED
    BY <2>4, <2>7, <2>8, <2>9
<1> QED
  BY <1>2, <1>3

-----------------------------------------------------------------------------
(* The invariant *)

LEMMA InitInvariant ==
  ASSUME Init
  PROVE  IInv
<1>1. /\ sent = 0
      /\ queue = [x \in Queues \X Groups |-> <<>>]
      /\ ended = [x \in Queues \X Groups |-> 0]
      /\ pc = [w \in Workers |-> "work"]
      /\ recv = [w \in Workers |-> <<>>]
      /\ send = [w \in Workers |-> [out \in SendsTo(w) |-> <<>>]]
      /\ original = [k \in Chunks |-> NoChunk]
      /\ table = [c \in Contents |-> NoChunk]
      /\ state = [k \in Chunks |-> "uncompressed"]
      /\ writer = [pc |-> "fetch", qid |-> 0, tries |-> 0, recv |-> <<>>, next |-> <<0, 0>>,
                   room |-> AnchorRoom, bound |-> [i \in 0..Len(Input) |-> 0], held |-> {},
                   chunk |-> NoChunk]
      /\ file = <<>>
  BY DEF Init
<1>2. Len(Input) \in Nat /\ NQueues \in Nat \ {0} /\ 0 \in Groups /\ Groups \subseteq Nat /\ AnchorRoom \in Nat
  BY InputTypes, QueueNumbers, InputFits
<1>3. <<>> \in Seq(Chunks) /\ Len(<<>>) = 0
  BY EmptySeq
<1>4. <<0, 0>> \in Positions
  <2>1. CASE Len(Input) = 0
    BY <2>1 DEF Positions
  <2>2. CASE Len(Input) # 0
    <3>1. 0 \in L1
      BY <1>2, <2>2 DEF L1
    <3>2. 0 < Len(Input[0 + 1])
      BY <3>1, InputTypes
    <3> QED
      BY <3>1, <3>2, ChunkAt DEF Positions
  <2> QED
    BY <2>1, <2>2
<1>5. QueueTypes
  BY <1>1, <1>2, <1>3, Sizes DEF QueueTypes
<1>6. WorkerTypes
  <2>1. \A w \in Workers : send[w] = [out \in SendsTo(w) |-> <<>>]
    BY <1>1
  <2>2. send = [w \in Workers |-> send[w]]
    BY <1>1
  <2>3. ASSUME NEW w \in Workers
        PROVE  /\ send[w] \in [SendsTo(w) -> Seq(Chunks)]
               /\ \A out \in SendsTo(w) : Len(send[w][out]) <= PerInsert
    <3>1. PICK e \in Seq(Chunks) : e = <<>> /\ Len(e) = 0
      BY <1>3
    <3>2. send[w] = [out \in SendsTo(w) |-> e]
      BY <2>1, <3>1
    <3>3. Len(e) <= PerInsert
      BY <3>1, Sizes
    <3> QED
      BY <3>2, <3>3
  <2> QED
    BY <1>1, <1>3, <2>2, <2>3 DEF WorkerTypes
<1>7. ChunkTypes
  BY <1>1 DEF ChunkTypes
<1>8. /\ writer.pc = "fetch" /\ writer.qid = 0 /\ writer.tries = 0 /\ writer.recv = <<>>
      /\ writer.next = <<0, 0>> /\ writer.room = AnchorRoom
      /\ writer.bound = [i \in 0..Len(Input) |-> 0] /\ writer.held = {} /\ writer.chunk = NoChunk
  BY <1>1
<1>9. WriterTypes
  <2>1. writer \in Writers
    BY <1>1, <1>2, <1>3, <1>4 DEF Writers
  <2> QED
    BY <1>2, <1>8, <2>1 DEF WriterTypes
<1>10. \A p \in Places : Belt[p] = <<>>
  <2>1. \A q \in Queues : \A g \in Groups : Belt[QueueAt(q, g)] = <<>>
    BY <1>1, BeltAt
  <2>2. \A w \in Workers : Belt[RecvAt(w)] = <<>>
    BY <1>1, BeltAt
  <2>3. \A w \in Workers : \A out \in SendsTo(w) : Belt[SendAt(w, out)] = <<>>
    BY <1>1, BeltAt
  <2>4. Belt[WriterAt] = <<>>
    BY <1>8, BeltAt
  <2> QED
    BY <2>1, <2>2, <2>3, <2>4, PlaceNames, Zenon
<1>11. Once(Belt) /\ \A k \in Chunks : ~On(Belt, k) /\ \A p \in Places : ~At(Belt, p, k)
  <2>1. DOMAIN <<>> = {}
    OBVIOUS
  <2> QED
    BY <1>10, <2>1 DEF Once, On, At
<1>12. \A k \in Chunks : ~Written(k) /\ ~AtWriter(k) /\ k[1] \in Nat /\ k[1] \in 0..Len(Input)
  <2>1. \A k \in Chunks : k[1] \in Nat /\ k[2] \in Nat /\ k[1] \in 0..Len(Input)
    BY ChunkTypesOf, InputTypes
  <2>2. \A k \in Chunks : ~Written(k)
    BY <1>8, <2>1 DEF Written, Before
  <2> QED
    BY <1>8, <2>1, <2>2 DEF AtWriter
<1>13. PlaceInv
  BY <1>1, <1>8, <1>11, <1>12 DEF PlaceInv
<1>14. BoundInv
  BY <1>8, <1>12 DEF BoundInv
<1>15. EndInv
  <2>1. \A q \in Queues : \A g \in Groups : ended[<<q, g>>] = 0
    BY <1>1
  <2>2. \A q \in Queues : \A g \in Groups : {w \in Terminators(q, g) : pc[w] = "done"} = {}
    BY <1>1 DEF Terminators
  <2>3. Cardinality({}) = 0
    BY FS_EmptySet
  <2>4. "refine" \in Queues /\ \A g \in Groups : ~(sent > Len(Input) + g)
    BY <1>1, <1>2, InputTypes, QueueNumbers DEF Queues, Stages
  <2>5. \A g \in Groups :
          /\ ended[<<"refine", g>>] = IF sent > Len(Input) + g THEN 1 ELSE 0
          /\ \A q \in Queues \ {"refine"} :
                ended[<<q, g>>] = Cardinality({w \in Terminators(q, g) : pc[w] = "done"})
    BY <2>1, <2>2, <2>3, <2>4
  <2>6. \A w \in Workers : pc[w] = "work"
    BY <1>1
  <2> QED
    BY <2>5, <2>6 DEF EndInv
<1>16. TriesInv
  BY <1>2, <1>8 DEF TriesInv, Groups
<1>17. PhaseInv
  BY <1>1, <1>11, <1>12 DEF PhaseInv, New
<1>18. TableInv
  <2>1. \A c \in Contents : table[c] = NoChunk
    BY <1>1
  <2> QED
    BY <1>1, <1>12, <2>1 DEF TableInv
<1>19. FileInv
  <2>1. Len(Heads[0]) = 0
    BY HeadsAre, EmptySeq
  <2>2. Pos(<<0, 0>>) = 0
    BY <2>1 DEF Pos
  <2>3. /\ file \in Seq([type : {"compress", "fingerprint"}, content : Contents])
        /\ Len(file) = 0
    BY <1>1, EmptySeq
  <2> QED
    BY <1>8, <2>2, <2>3 DEF FileInv
<1> QED
  BY <1>5, <1>6, <1>7, <1>9, <1>13, <1>14, <1>15, <1>16, <1>17, <1>18, <1>19 DEF IInv, Types

LEMMA StutterStep ==
  ASSUME IInv, UNCHANGED vars
  PROVE  IInv'
<1> USE DEF IInv, Types
<1>1. UNCHANGED <<sent, queue, ended, pc, recv, send, chunkVars, writer, file>>
  BY DEF vars, encoderVars
<1>2. QueueTypes' /\ WorkerTypes' /\ ChunkTypes' /\ SameAtWriter /\ WriterTypes'
  BY <1>1, WriterSame, ChunkTypesKept DEF QueueTypes, WorkerTypes
<1>3. StillDrained
  BY <1>1 DEF StillDrained, Drained
<1>4. EndInv' /\ TriesInv'
  BY <1>1, <1>3, EndKept, TriesKept
<1>5. Belt' = Belt
  BY <1>1, BeltSame
<1>6. PlaceInv' /\ BoundInv' /\ PhaseInv' /\ TableInv' /\ FileInv'
  BY <1>1, <1>2, <1>5, StillStep
<1> QED
  BY <1>2, <1>4, <1>6

LEMMA NextInvariant ==
  ASSUME IInv, [Next]_vars
  PROVE  IInv'
<1>1. CASE Fragment
  BY <1>1, FragmentStep
<1>2. CASE FragmentEnds
  BY <1>2, FragmentEndsStep
<1>3. CASE Reorder
  <2>1. CASE ReorderFetch
    BY <2>1, ReorderFetchStep
  <2>2. CASE ReorderTake
    BY <2>2, ReorderTakeStep
  <2>3. CASE ReorderWrite
    BY <2>3, ReorderWriteStep
  <2>4. CASE ReorderFlush
    BY <2>4, ReorderFlushStep
  <2> QED
    BY <1>3, <2>1, <2>2, <2>3, <2>4 DEF Reorder
<1>4. ASSUME NEW w \in Workers, Worker(w)
      PROVE  IInv'
  <2>1. CASE Fetch(w)
    BY <2>1, FetchStep
  <2>2. CASE FetchFails(w)
    BY <2>2, FetchFailsStep
  <2>3. CASE Work(w)
    <3>1. CASE Refine(w)
      BY <3>1, RefineStep
    <3>2. CASE Deduplicate(w)
      BY <3>2, DeduplicateStep
    <3>3. CASE Compress(w)
      BY <3>3, CompressStep
    <3> QED
      BY <2>3, <3>1, <3>2, <3>3 DEF Work
  <2>4. CASE Terminate(w)
    BY <2>4, TerminateStep
  <2>5. ASSUME NEW out \in Queues, Flush(w, out)
        PROVE  IInv'
    <3>1. out \in SendsTo(w)
      BY <2>5 DEF Flush
    <3> QED
      BY <2>5, <3>1, FlushStep
  <2> QED
    BY <1>4, <2>1, <2>2, <2>3, <2>4, <2>5 DEF Worker
<1>5. CASE Finished
  BY <1>5, StutterStep DEF Finished
<1>6. CASE UNCHANGED vars
  BY <1>6, StutterStep
<1> QED
  BY <1>1, <1>2, <1>3, <1>4, <1>5, <1>6 DEF Next

LEMMA Invariant == Spec => []IInv
<1>1. Init => IInv
  BY InitInvariant
<1>2. IInv /\ [Next]_vars => IInv'
  BY NextInvariant
<1> QED
  BY <1>1, <1>2, PTL DEF Spec

-----------------------------------------------------------------------------
(* What follows from it *)

LEMMA TypesFollow ==
  ASSUME IInv
  PROVE  TypeOK
<1> USE DEF IInv, Types
<1>1. ASSUME NEW g \in Groups, NEW q \in Queues
      PROVE  /\ Range(queue[<<q, g>>]) \subseteq Chunks
             /\ Len(queue[<<q, g>>]) <= QueueSize
             /\ ended[<<q, g>>] <= NProducers(q, g)
  <2>1. Range(queue[<<q, g>>]) \subseteq Chunks /\ Len(queue[<<q, g>>]) <= QueueSize
    <3>1. PICK s \in Seq(Chunks) : s = queue[<<q, g>>] /\ Len(s) <= QueueSize
      BY QueueChunks
    <3>2. \A n \in DOMAIN s : s[n] \in Chunks
      BY ElementOfSeq
    <3> QED
      BY <3>1, <3>2 DEF Range
  <2>2. CASE q = "refine"
    <3>1. ended[<<q, g>>] = (IF sent > Len(Input) + g THEN 1 ELSE 0) /\ NProducers(q, g) = 1
      BY <2>2 DEF EndInv, NProducers
    <3> QED
      BY <2>1, <3>1
  <2>3. CASE q # "refine"
    BY <2>1, <2>3, DoneWhenEnded
  <2> QED
    BY <2>2, <2>3
<1>2. ASSUME NEW w \in Workers
      PROVE  /\ pc[w] \in {"work", "drain", "done"}
             /\ Range(recv[w]) \subseteq Chunks
             /\ \A out \in SendsTo(w) : Len(send[w][out]) <= PerInsert
  <2>1. PICK s \in Seq(Chunks) : s = recv[w]
    BY DEF WorkerTypes
  <2>2. \A n \in DOMAIN s : s[n] \in Chunks
    BY ElementOfSeq
  <2> QED
    BY <2>1, <2>2 DEF WorkerTypes, Range
<1>3. sent \in 0..Len(Input) + NQueues
  BY DEF QueueTypes
<1>4. /\ writer.pc \in {"fetch", "take", "write", "flush", "done", "abort"}
      /\ writer.held \subseteq Chunks
  BY DEF WriterTypes, Writers
<1> QED
  BY <1>1, <1>2, <1>3, <1>4 DEF TypeOK, ChunkTypes

LEMMA AssertionsFollow ==
  ASSUME IInv
  PROVE  AssertionsHold
<1> USE DEF IInv, Types
<1>1. ASSUME NEW w \in Workers, NEW out \in SendsTo(w), FlushDue(w, out)
      PROVE  ended[<<out, Qid(w)>>] < NProducers(out, Qid(w))
  <2>1. PICK g \in Groups : g = Qid(w)
    BY WorkerTypesOf
  <2>2. out \in Queues \ {"refine"} /\ pc[w] # "done"
    BY <1>1, WorkerTypesOf DEF FlushDue
  <2>3. /\ ended[<<out, g>>] \in Nat /\ NProducers(out, g) \in Nat
        /\ ended[<<out, g>>] <= NProducers(out, g) /\ ended[<<out, g>>] # NProducers(out, g)
    BY <2>1, <2>2, DoneWhenEnded
  <2> QED
    BY <2>1, <2>3
<1>2. ASSUME NEW p \in Places, ~Raw(p), Belt[p] # <<>>
      PROVE  Head(Belt[p]) \in Chunks /\ At(Belt, p, Head(Belt[p]))
  <2>1. PICK s \in Seq(Chunks) : s = Belt[p]
    BY BeltTypes DEF WriterTypes
  <2>2. 1 \in DOMAIN s /\ Head(s) = s[1] /\ Head(s) \in Chunks
    BY <1>2, <2>1, PassTypes
  <2> QED
    BY <1>2, <2>1, <2>2 DEF At, Covers
<1>3. ASSUME NEW w \in Workers, Stage(w) = "compress", recv[w] # <<>>
      PROVE  state[Head(recv[w])] = "uncompressed"
  <2>1. PICK p \in Places : p = RecvAt(w) /\ ~Raw(p) /\ ToCompress(p) /\ Belt[p] = recv[w]
    BY <1>3, PlaceNames, RawPlaces, PlacePhases, BeltAt
  <2>2. Head(recv[w]) \in Chunks /\ At(Belt, p, Head(recv[w]))
    BY <1>2, <1>3, <2>1
  <2> QED
    BY <2>1, <2>2 DEF PhaseInv
<1>4. ASSUME writer.pc = "take"
      PROVE  LET k == Head(writer.recv)
             IN  /\ k[1] < 2 * writer.room
                 /\ IsLastL2Chunk(k) => writer.bound[k[1]] = 0
  <2>1. PICK p \in Places : p = WriterAt /\ ~Raw(p) /\ Belt[p] = writer.recv /\ writer.recv # <<>>
    BY <1>4, PlaceNames, RawPlaces, BeltAt DEF WriterTypes
  <2>2. PICK k \in Chunks : k = Head(writer.recv) /\ At(Belt, p, k)
    BY <1>2, <2>1
  <2>3. k[1] < 2 * writer.room
    <3>1. /\ k[1] \in Nat /\ k[1] < Len(Input) /\ Len(Input) \in Nat /\ Len(Input) <= 2 * AnchorRoom
          /\ AnchorRoom \in Nat /\ writer.room \in Nat /\ writer.room >= AnchorRoom
      BY ChunkTypesOf, InputTypes, InputFits DEF WriterTypes, Writers
    <3> QED
      BY <3>1
  <2>4. ~AtWriter(k)
    BY <2>2 DEF PlaceInv, On
  <2>5. IsLastL2Chunk(k) => writer.bound[k[1]] = 0
    BY <2>4 DEF BoundInv
  <2> QED
    BY <2>2, <2>3, <2>5
<1>5. writer.pc # "abort"
  BY DEF WriterTypes, Writers
<1> QED
  BY <1>1, <1>3, <1>4, <1>5 DEF AssertionsHold

LEMMA FileFits ==
  ASSUME IInv
  PROVE  /\ Len(file) \in Nat /\ Len(Stream) \in Nat /\ Stream \in Seq(Contents)
         /\ DOMAIN file = 1..Len(file)
         /\ Len(file) <= Len(Stream)
<1> USE DEF IInv, Types
<1> DEFINE R == [type : {"compress", "fingerprint"}, content : Contents]
<1>1. PICK f \in Seq(R) : f = file /\ Len(f) = Pos(writer.next)
  BY DEF FileInv
<1> HIDE DEF R
<1>2. Len(f) \in Nat /\ DOMAIN f = 1..Len(f)
  BY LenProperties
<1>3. Stream \in Seq(Contents) /\ Stream = Heads[Len(Input)]
  BY HeadsAre, InputTypes
<1>4. Len(Stream) \in Nat
  BY <1>3, LenProperties
<1>5. Pos(writer.next) <= Len(Stream)
  <2>1. writer.next \in Positions
    BY DEF WriterTypes, Writers
  <2>2. CASE writer.next \in Chunks
    <3>1. Pos(writer.next) < Len(Stream) /\ Pos(writer.next) \in Nat
      BY <2>2, PosOfChunk
    <3> QED
      BY <1>4, <3>1
  <2>3. CASE writer.next = <<Len(Input), 0>>
    <3>1. Pos(writer.next) = Len(Stream) + 0
      BY <1>3, <2>3 DEF Pos
    <3> QED
      BY <1>4, <3>1
  <2> QED
    BY <2>1, <2>2, <2>3 DEF Positions
<1> QED
  BY <1>1, <1>2, <1>3, <1>4, <1>5

\* A fingerprint is looked up among the data: the first chunk with the same
\* contents was written as data.
LEMMA DecodableFollows ==
  ASSUME IInv
  PROVE  Decodable
<1>1. /\ Len(file) \in Nat /\ Len(Stream) \in Nat /\ Stream \in Seq(Contents)
      /\ DOMAIN file = 1..Len(file) /\ Len(file) <= Len(Stream)
  BY FileFits
<1>2. PICK l \in Nat : l = Len(file) /\ l <= Len(Stream) /\ DOMAIN file = 1..l
  BY <1>1
<1>3. ASSUME NEW n \in 1..l
      PROVE  /\ file[n].content = Stream[n]
             /\ file[n].type = IF \E j \in 1..n - 1 : Stream[j] = Stream[n] THEN "fingerprint" ELSE "compress"
  <2>1. file[n] = Archive!Record(n)
    BY <1>2 DEF IInv, FileInv
  <2> QED
    BY <2>1 DEF Archive!Record
<1>4. ASSUME NEW n \in 1..l, file[n].type # "compress"
      PROVE  \E m \in 1..n - 1 : file[m].type = "compress" /\ file[m].content = file[n].content
  <2> DEFINE J == {j \in 1..n - 1 : Stream[j] = Stream[n]}
  <2>1. J # {} /\ J \in SUBSET Nat
    BY <1>3, <1>4
  <2>2. \A j \in J : j \in 1..n - 1 /\ Stream[j] = Stream[n]
    OBVIOUS
  <2>3. \A j \in 1..n - 1 : Stream[j] = Stream[n] => j \in J
    OBVIOUS
  <2> HIDE DEF J
  <2>4. PICK m \in J : \A j \in J : m <= j
    BY <2>1, Least
  <2>5. m \in 1..n - 1 /\ m \in 1..l /\ n \in Nat
    BY <2>2
  <2>6. ASSUME NEW j \in 1..m - 1 PROVE Stream[j] # Stream[m]
    <3>1. j \in 1..n - 1 /\ ~(m <= j)
      BY <2>5
    <3>2. j \notin J
      BY <2>4, <3>1
    <3> QED
      BY <2>2, <2>3, <3>1, <3>2
  <2>7. file[m].type = "compress" /\ file[m].content = Stream[m]
    BY <1>3, <2>5, <2>6
  <2> QED
    BY <1>3, <2>2, <2>5, <2>7
<1>5. Decode(file).ok
  <2>1. \A n \in 1..l : \/ file[n].type = "compress"
                        \/ file[n].content \in {file[m].content : m \in {j \in 1..n - 1 : file[j].type = "compress"}}
    BY <1>4
  <2> QED
    BY <1>2, <2>1 DEF Decode
<1>6. IsPrefix(Decode(file).out, Stream)
  <2>1. PICK out : out = [n \in 1..l |-> Stream[n]]
    OBVIOUS
  <2>2. Decode(file).out = out
    BY <1>2, <1>3, <2>1 DEF Decode
  <2>3. \A n \in 1..l : Stream[n] \in Contents
    BY <1>1, <1>2
  <2>4. out \in Seq(Contents) /\ Len(out) = l
    BY <2>1, <2>3
  <2>5. SubSeq(out, 1, l) = SubSeq(Stream, 1, l)
    <3>1. PICK s \in Seq(Contents) : s = Stream /\ l <= Len(s)
      BY <1>1, <1>2
    <3>2. SubSeq(out, 1, l) = [n \in 1..l |-> out[n]] /\ SubSeq(s, 1, l) = [n \in 1..l |-> s[n]]
      BY <2>4, <3>1
    <3> QED
      BY <2>1, <3>1, <3>2
  <2> QED
    BY <1>1, <1>2, <2>2, <2>4, <2>5 DEF IsPrefix
<1> QED
  BY <1>5, <1>6 DEF Decodable

LEMMA ArchiveStep ==
  ASSUME IInv, [Next]_vars
  PROVE  [Archive!Write]_file
<1>1. ASSUME NEW k \in Chunks, k = writer.next, AtWriter(k), write_chunk_to_file(k),
             UNCHANGED <<original, table>>, writer'.next = Advance(k, writer.bound)
      PROVE  Archive!Write
  <2>1. Len(file) = Pos(k) /\ file' = Append(file, Archive!Record(Pos(k) + 1))
    BY <1>1, WriteKeeps
  <2>2. Len(file) < Len(Stream)
    BY <2>1, PosOfChunk
  <2> QED
    BY <2>1, <2>2 DEF Archive!Write
<1>2. CASE ReorderWrite
  <2>1. PICK k \in Chunks : k = writer.chunk /\ k = writer.next /\ writer.pc = "write"
    BY <1>2 DEF ReorderWrite, IInv, Types, WriterTypes
  <2>2. AtWriter(k)
    BY <2>1 DEF AtWriter
  <2>3. /\ write_chunk_to_file(k) /\ UNCHANGED <<original, table>>
        /\ writer'.next = Advance(k, writer.bound)
    BY <1>2, <2>1 DEF ReorderWrite, IInv, Types, WriterTypes, Writers
  <2> QED
    BY <1>1, <2>1, <2>2, <2>3
<1>3. CASE ReorderFlush /\ file' # file
  <2>1. writer.held # {} /\ writer.pc = "flush"
    BY <1>3 DEF ReorderFlush
  <2>2. writer.held \in SUBSET Chunks /\ writer \in Writers
    BY DEF IInv, Types, WriterTypes, Writers
  <2>3. PICK k \in Chunks : k = FirstHeld(writer.held) /\ k \in writer.held /\ k = writer.next
    BY <2>1, <2>2, FirstExists, AllHaveCome
  <2>4. AtWriter(k)
    BY <2>3 DEF AtWriter
  <2>5. /\ write_chunk_to_file(k) /\ UNCHANGED <<original, table>>
        /\ writer'.next = Advance(k, writer.bound)
    BY <1>3, <2>1, <2>2, <2>3 DEF ReorderFlush, Writers
  <2> QED
    BY <1>1, <2>3, <2>4, <2>5
<1>4. CASE ~ReorderWrite /\ ~(ReorderFlush /\ file' # file)
  <2>1. Fragment \/ FragmentEnds \/ ReorderFetch \/ ReorderTake => file' = file
    BY DEF Fragment, FragmentEnds, ReorderFetch, ReorderTake
  <2>2. \A w \in Workers : Worker(w) => file' = file
    BY DEF Worker, Fetch, FetchFails, Work, Refine, Deduplicate, Compress, Terminate, Flush
  <2>3. Finished \/ UNCHANGED vars => file' = file
    BY DEF Finished, vars
  <2> QED
    BY <1>4, <2>1, <2>2, <2>3 DEF Next, Reorder
<1> QED
  BY <1>2, <1>3, <1>4

-----------------------------------------------------------------------------
(* The theorems *)

(* The variables of the encoder keep their types: no queue holds more than *)
(* QUEUE_SIZE items or is terminated by more threads than it counts, and   *)
(* no buffer is longer than what is inserted at a time.                    *)
THEOREM TypeCorrect == Spec => []TypeOK
<1>1. IInv => TypeOK
  BY TypesFollow
<1> QED
  BY <1>1, Invariant, PTL

(* No assertion of encoder.c fails and Reorder never exits on a gap: no    *)
(* thread inserts into a terminated queue, Compress gets each chunk        *)
(* uncompressed, the size of a coarse chunk is noted once and within       *)
(* chunks_per_anchor.                                                      *)
THEOREM AssertionsAlwaysHold == Spec => []AssertionsHold
<1>1. IInv => AssertionsHold
  BY AssertionsFollow
<1> QED
  BY <1>1, Invariant, PTL

(* At any time decoder.c finds the data of every fingerprint in the file   *)
(* and restores a beginning of the input.                                  *)
THEOREM AlwaysDecodable == Spec => []Decodable
<1>1. IInv => Decodable
  BY DecodableFollows
<1> QED
  BY <1>1, Invariant, PTL

(* The encoder implements the archive, but for its liveness: the file is   *)
(* empty at first, and a step that changes it appends the record of the    *)
(* next chunk of the input, as data only when no equal one is before.      *)
THEOREM ArchiveImplemented == Spec => Archive!Init /\ [][Archive!Write]_file
<1>1. Init => Archive!Init
  BY DEF Init, Archive!Init
<1>2. IInv /\ [Next]_vars => [Archive!Write]_file
  BY ArchiveStep
<1> QED
  BY <1>1, <1>2, Invariant, PTL DEF Spec

=============================================================================
