-------------------------- MODULE DedupStageProofs --------------------------
(***************************************************************************)
(* Proofs about the libraries of dedup and the stage that uses them, for   *)
(* every number of threads, every size of chunk, ring and batch.           *)
(*                                                                         *)
(* First the buffers alone, under all operations of mbuffer.c in any order *)
(* (MBufferSpec): a range may be split and a block reallocated or freed    *)
(* only because the counter is the number of handles, and the counter is   *)
(* that number because no handle is on a block that was freed.  Then the   *)
(* arithmetic of the ring, the concatenation of sequences (by the smallest *)
(* counterexample, in place of an induction), and the table of the places  *)
(* that may hold a handle.  With these IInv is kept by every step of the   *)
(* stage, and every step is one of the channel of bytes or none.           *)
(***************************************************************************)
EXTENDS DedupStage, FiniteSetTheorems, SequenceTheorems, WellFoundedInduction, TLAPS

(* What FreedByTheLast says of one block.                                  *)
CountedRight(b) ==
  LET last == {t \in Releasers : dying[t] = b}
  IN /\ \A t, u \in last : t = u
     /\ last # {} => mem[b] = "live" /\ Holders(b) = {}
     /\ mem[b] = "live" /\ Holders(b) = {} => last # {}
     /\ mem[b] = "live" => count[b] = Cardinality(Holders(b))

LEMMA BlockByBlock == FreedByTheLast <=> \A b \in Blocks : CountedRight(b)
  BY DEF FreedByTheLast, CountedRight

-----------------------------------------------------------------------------
(* Sets of handles *)

(* There are finitely many handles on a block, and none only if it counts  *)
(* none.                                                                   *)
LEMMA HoldersFinite ==
  ASSUME NEW b
  PROVE  IsFiniteSet(Holders(b)) /\ Cardinality(Holders(b)) \in Nat
<1>1. Holders(b) \subseteq Handles
  BY DEF Holders
<1> QED
  BY <1>1, FS_Subset, FS_CardinalityType, MBufferAssumption

LEMMA OneHolder ==
  ASSUME NEW b, NEW h \in Holders(b), Cardinality(Holders(b)) <= 1
  PROVE  Holders(b) = {h}
<1>1. IsFiniteSet(Holders(b) \ {h}) /\ Cardinality(Holders(b) \ {h}) = Cardinality(Holders(b)) - 1
  BY HoldersFinite, FS_RemoveElement
<1>2. Cardinality(Holders(b) \ {h}) \in Nat
  BY <1>1, FS_CardinalityType
<1>3. Cardinality(Holders(b) \ {h}) = 0
  BY <1>1, <1>2, HoldersFinite
<1> QED
  BY <1>1, <1>3, FS_EmptySet

(* A handle in use has fields, and is on a live block with that count.     *)
LEMMA HandleInUse ==
  ASSUME BufferInv, NEW h \in Handles, InUse(h)
  PROVE  /\ handle[h] \in Fields /\ handle[h].mcb \in Blocks
         /\ handle[h].move = moves[handle[h].mcb]
         /\ handle[h].off \in 0..MaxSize /\ handle[h].n \in 1..MaxSize
         /\ mem[handle[h].mcb] = "live"
         /\ handle[h].off + handle[h].n <= size[handle[h].mcb]
         /\ h \in Holders(handle[h].mcb)
         /\ \A t \in Releasers : dying[t] # handle[h].mcb
         /\ count[handle[h].mcb] = Cardinality(Holders(handle[h].mcb))
<1>1. handle[h] \in Fields
  BY DEF BufferInv, MBufferTypeOK, InUse
<1>2. handle[h].mcb \in Blocks /\ h \in Holders(handle[h].mcb)
  BY <1>1 DEF Fields, Holders
<1>3. CountedRight(handle[h].mcb)
  BY <1>2, BlockByBlock DEF BufferInv
<1> QED
  BY <1>1, <1>2, <1>3 DEF Fields, BufferInv, NoHandleDangles, CountedRight

-----------------------------------------------------------------------------
(* A step that adds a handle g to a block b that is in use (clone, split). *)
LEMMA Gains ==
  ASSUME BufferInv, NEW b \in Blocks, NEW g \in Handles,
         mem[b] = "live", Holders(b) # {}, g \notin Holders(b),
         mem' = mem, dying' = dying,
         count' = [count EXCEPT ![b] = count[b] + 1],
         \A c \in Blocks : Holders(c)' = IF c = b THEN Holders(c) \cup {g} ELSE Holders(c)
  PROVE  FreedByTheLast'
<1> SUFFICES ASSUME NEW c \in Blocks
             PROVE  CountedRight(c)'
  BY DEF FreedByTheLast, CountedRight
<1>1. CountedRight(c)
  BY BlockByBlock DEF BufferInv
<1>2. CASE c # b
  BY <1>1, <1>2 DEF CountedRight, BufferInv, MBufferTypeOK
<1>3. CASE c = b
  <2>1. Cardinality(Holders(b) \cup {g}) = Cardinality(Holders(b)) + 1
    BY HoldersFinite, FS_AddElement
  <2>2. count'[b] = count[b] + 1 /\ Holders(b)' = Holders(b) \cup {g}
    BY DEF BufferInv, MBufferTypeOK
  <2> QED
    BY <1>1, <1>3, <2>1, <2>2 DEF CountedRight
<1> QED
  BY <1>2, <1>3

-----------------------------------------------------------------------------
(* The operations *)

LEMMA CreateKeeps ==
  ASSUME BufferInv, NEW h \in Handles, NEW b \in Blocks, NEW n \in 1..MaxSize, Create(h, b, n)
  PROVE  BufferInv'
<1>1. /\ ~InUse(h) /\ mem[b] = "unused"
      /\ mem' = [mem EXCEPT ![b] = "live"] /\ size' = [size EXCEPT ![b] = n]
      /\ count' = [count EXCEPT ![b] = 1] /\ moves' = moves /\ dying' = dying
      /\ handle' = [handle EXCEPT ![h] = [mcb |-> b, move |-> moves[b], off |-> 0, n |-> n]]
  BY DEF Create
<1>2. [mcb |-> b, move |-> moves[b], off |-> 0, n |-> n] \in Fields
  BY MBufferAssumption DEF BufferInv, MBufferTypeOK, Fields
<1>3. MBufferTypeOK'
  BY <1>1, <1>2, MBufferAssumption DEF BufferInv, MBufferTypeOK
<1>4. \A g \in Handles : handle'[g] = IF g = h THEN [mcb |-> b, move |-> moves[b], off |-> 0, n |-> n]
                                      ELSE handle[g]
  BY <1>1 DEF BufferInv, MBufferTypeOK
<1>5. Holders(b) = {}
  BY <1>1, HandleInUse DEF Holders
<1>6. \A c \in Blocks : Holders(c)' = IF c = b THEN {h} ELSE Holders(c)
  BY <1>1, <1>2, <1>4, <1>5, NoneIsNoHandle DEF Holders, InUse
<1>7. NoHandleDangles'
  <2> SUFFICES ASSUME NEW g \in Handles, InUse(g)'
               PROVE  /\ mem'[handle'[g].mcb] = "live"
                      /\ handle'[g].move = moves'[handle'[g].mcb]
                      /\ handle'[g].off + handle'[g].n <= size'[handle'[g].mcb]
    BY DEF NoHandleDangles
  <2>1. CASE g = h
    BY <1>1, <1>4, <2>1 DEF BufferInv, MBufferTypeOK
  <2>2. CASE g # h
    BY <1>1, <1>4, <2>2, HandleInUse DEF BufferInv, MBufferTypeOK, InUse
  <2> QED
    BY <2>1, <2>2
<1>8. FreedByTheLast'
  <2> SUFFICES ASSUME NEW c \in Blocks
               PROVE  CountedRight(c)'
    BY DEF FreedByTheLast, CountedRight
  <2>1. CountedRight(c)
    BY BlockByBlock DEF BufferInv
  <2>2. CASE c # b
    BY <1>1, <1>6, <2>1, <2>2 DEF CountedRight, BufferInv, MBufferTypeOK
  <2>3. CASE c = b
    <3>1. Cardinality({h}) = 1
      BY FS_Singleton
    <3> QED
      BY <1>1, <1>6, <2>1, <2>3, <3>1 DEF CountedRight, BufferInv, MBufferTypeOK
  <2> QED
    BY <2>2, <2>3
<1> QED
  BY <1>3, <1>7, <1>8 DEF BufferInv

LEMMA CloneKeeps ==
  ASSUME BufferInv, NEW h \in Handles, NEW g \in Handles, Clone(h, g)
  PROVE  BufferInv'
<1> DEFINE b == handle[h].mcb
<1>1. /\ InUse(h) /\ ~InUse(g) /\ UNCHANGED <<mem, size, moves, dying>>
      /\ count' = [count EXCEPT ![b] = count[b] + 1]
      /\ handle' = [handle EXCEPT ![g] = handle[h]]
  BY DEF Clone
<1>2. /\ handle[h] \in Fields /\ b \in Blocks /\ mem[b] = "live" /\ h \in Holders(b)
      /\ g \notin Holders(b)
  BY <1>1, HandleInUse DEF Holders
<1>3. \A k \in Handles : handle'[k] = IF k = g THEN handle[h] ELSE handle[k]
  BY <1>1 DEF BufferInv, MBufferTypeOK
<1>4. MBufferTypeOK'
  BY <1>1, <1>2 DEF BufferInv, MBufferTypeOK
<1>5. NoHandleDangles'
  BY <1>1, <1>3 DEF BufferInv, NoHandleDangles, InUse
<1>6. \A c \in Blocks : Holders(c)' = IF c = b THEN Holders(c) \cup {g} ELSE Holders(c)
  BY <1>1, <1>2, <1>3 DEF Holders, InUse
<1> QED
  BY <1>1, <1>2, <1>4, <1>5, <1>6, Gains DEF BufferInv

(* The two parts of a range.                                               *)
LEMMA SplitIs ==
  ASSUME BufferInv, NEW h \in Handles, NEW g \in Handles, NEW s \in 1..MaxSize, Split(h, g, s)
  PROVE  \A k \in Handles :
           handle'[k] = IF k = g THEN [mcb |-> handle[h].mcb, move |-> handle[h].move,
                                       off |-> handle[h].off + s, n |-> handle[h].n - s]
                        ELSE IF k = h THEN [mcb |-> handle[h].mcb, move |-> handle[h].move,
                                            off |-> handle[h].off, n |-> s]
                        ELSE handle[k]
<1>1. InUse(h) /\ ~InUse(g) /\ handle[h] \in Fields /\ h # g
  BY HandleInUse DEF Split
<1>2. /\ Part(handle[h], 0, s) = [mcb |-> handle[h].mcb, move |-> handle[h].move,
                                  off |-> handle[h].off, n |-> s]
      /\ Part(handle[h], s, handle[h].n - s) =
           [mcb |-> handle[h].mcb, move |-> handle[h].move,
            off |-> handle[h].off + s, n |-> handle[h].n - s]
  BY <1>1 DEF Part, Fields
<1> QED
  BY <1>1, <1>2 DEF Split, BufferInv, MBufferTypeOK

LEMMA SplitKeeps ==
  ASSUME BufferInv, NEW h \in Handles, NEW g \in Handles, NEW s \in 1..MaxSize, Split(h, g, s)
  PROVE  BufferInv'
<1> DEFINE b == handle[h].mcb
           first == [mcb |-> b, move |-> handle[h].move, off |-> handle[h].off, n |-> s]
           rest  == [mcb |-> b, move |-> handle[h].move, off |-> handle[h].off + s,
                     n |-> handle[h].n - s]
<1>1. /\ InUse(h) /\ ~InUse(g) /\ UNCHANGED <<mem, size, moves, dying>>
      /\ s \in 1..handle[h].n - 1
      /\ count' = [count EXCEPT ![b] = count[b] + 1]
  BY DEF Split
<1>2. /\ handle[h] \in Fields /\ b \in Blocks /\ mem[b] = "live" /\ h \in Holders(b)
      /\ g \notin Holders(b) /\ h # g
  BY <1>1, HandleInUse DEF Holders
<1>3. \A k \in Handles : handle'[k] = IF k = g THEN rest ELSE IF k = h THEN first ELSE handle[k]
  BY SplitIs
<1>4. /\ handle[h].off \in 0..MaxSize /\ handle[h].n \in 1..MaxSize /\ size[b] \in 0..MaxSize
      /\ handle[h].off + handle[h].n <= size[b] /\ handle[h].move = moves[b]
      /\ handle[h].move \in 0..MaxMoves
  BY <1>1, <1>2, HandleInUse DEF BufferInv, MBufferTypeOK, Fields
<1>5. first \in Fields /\ rest \in Fields
  <2>1. /\ handle[h].off + s \in 0..MaxSize /\ handle[h].n - s \in 1..MaxSize
    BY <1>1, <1>4, MBufferAssumption
  <2> QED
    BY <1>2, <1>4, <2>1 DEF Fields
<1>6. MBufferTypeOK'
  <2>1. handle' \in [Handles -> Fields \cup {None}]
    <3>1. DOMAIN handle' = Handles /\ handle' = [k \in Handles |-> handle'[k]]
      BY DEF Split, BufferInv, MBufferTypeOK
    <3>2. \A k \in Handles : handle'[k] \in Fields \cup {None}
      BY <1>3, <1>5 DEF BufferInv, MBufferTypeOK
    <3> QED
      BY <3>1, <3>2
  <2> QED
    BY <1>1, <1>2, <2>1 DEF BufferInv, MBufferTypeOK
<1>7. NoHandleDangles'
  <2> SUFFICES ASSUME NEW k \in Handles, InUse(k)'
               PROVE  /\ mem[handle'[k].mcb] = "live"
                      /\ handle'[k].move = moves[handle'[k].mcb]
                      /\ handle'[k].off + handle'[k].n <= size[handle'[k].mcb]
    BY <1>1 DEF NoHandleDangles
  <2>1. CASE k = g
    <3>1. (handle[h].off + s) + (handle[h].n - s) <= size[b]
      BY <1>1, <1>4
    <3> QED
      BY <1>2, <1>3, <1>4, <2>1, <3>1
  <2>2. CASE k = h
    <3>1. handle[h].off + s <= size[b]
      BY <1>1, <1>4, MBufferAssumption
    <3> QED
      BY <1>2, <1>3, <1>4, <2>2, <3>1
  <2>3. CASE k # g /\ k # h
    BY <1>3, <2>3, HandleInUse DEF InUse
  <2> QED
    BY <2>1, <2>2, <2>3
<1>8. \A c \in Blocks : Holders(c)' = IF c = b THEN Holders(c) \cup {g} ELSE Holders(c)
  <2>1. first # None /\ rest # None /\ first.mcb = b /\ rest.mcb = b
    BY <1>5, NoneIsNoHandle
  <2> QED
    BY <1>1, <1>2, <1>3, <2>1 DEF Holders, InUse
<1> QED
  BY <1>1, <1>2, <1>6, <1>7, <1>8, Gains DEF BufferInv

LEMMA ReallocKeeps ==
  ASSUME BufferInv, NEW h \in Handles, NEW n \in 1..MaxSize, Realloc(h, n)
  PROVE  BufferInv'
<1> DEFINE b == handle[h].mcb
<1>1. PICK m \in 0..MaxMoves :
        /\ moves' = [moves EXCEPT ![b] = m]
        /\ handle' = [handle EXCEPT ![h] = [mcb |-> b, move |-> m, off |-> 0, n |-> n]]
        /\ size' = [size EXCEPT ![b] = n]
  BY DEF Realloc
<1>2. /\ InUse(h) /\ count[b] <= 1 /\ handle[h].off = 0 /\ UNCHANGED <<count, mem, dying>>
  BY DEF Realloc, CanRealloc
<1> DEFINE new == [mcb |-> b, move |-> m, off |-> 0, n |-> n]
<1>3. /\ handle[h] \in Fields /\ b \in Blocks /\ mem[b] = "live" /\ Holders(b) = {h}
  BY <1>2, HandleInUse, OneHolder
<1>4. \A k \in Handles : handle'[k] = IF k = h THEN new ELSE handle[k]
  BY <1>1 DEF BufferInv, MBufferTypeOK
<1>5. new \in Fields /\ new # None
  BY <1>3, NoneIsNoHandle, MBufferAssumption DEF Fields
<1>6. MBufferTypeOK'
  <2>1. handle' \in [Handles -> Fields \cup {None}]
    <3>1. DOMAIN handle' = Handles /\ handle' = [k \in Handles |-> handle'[k]]
      BY <1>1 DEF BufferInv, MBufferTypeOK
    <3>2. \A k \in Handles : handle'[k] \in Fields \cup {None}
      BY <1>4, <1>5 DEF BufferInv, MBufferTypeOK
    <3> QED
      BY <3>1, <3>2
  <2> QED
    BY <1>1, <1>2, <1>3, <2>1, MBufferAssumption DEF BufferInv, MBufferTypeOK
<1>7. NoHandleDangles'
  <2> SUFFICES ASSUME NEW k \in Handles, InUse(k)'
               PROVE  /\ mem[handle'[k].mcb] = "live"
                      /\ handle'[k].move = moves'[handle'[k].mcb]
                      /\ handle'[k].off + handle'[k].n <= size'[handle'[k].mcb]
    BY <1>2 DEF NoHandleDangles
  <2>1. CASE k = h
    <3>1. moves'[b] = m /\ size'[b] = n
      BY <1>1, <1>3 DEF BufferInv, MBufferTypeOK
    <3> QED
      BY <1>3, <1>4, <2>1, <3>1
  <2>2. CASE k # h
    <3>1. handle'[k] = handle[k] /\ InUse(k)
      BY <1>4, <2>2 DEF InUse
    <3>2. handle[k].mcb # b /\ handle[k].mcb \in Blocks
      BY <1>3, <2>2, <3>1, HandleInUse DEF Holders
    <3> QED
      BY <1>1, <3>1, <3>2, HandleInUse DEF BufferInv, MBufferTypeOK
  <2> QED
    BY <2>1, <2>2
<1>8. \A c \in Blocks : Holders(c)' = Holders(c)
  BY <1>2, <1>3, <1>4, <1>5 DEF Holders, InUse
<1>9. FreedByTheLast'
  BY <1>2, <1>8 DEF BufferInv, FreedByTheLast
<1> QED
  BY <1>6, <1>7, <1>9 DEF BufferInv

LEMMA FreeRefKeeps ==
  ASSUME BufferInv, NEW t \in Releasers, NEW h \in Handles, FreeRef(t, h)
  PROVE  BufferInv'
<1> DEFINE b == handle[h].mcb
<1>1. /\ InUse(h) /\ dying[t] = None /\ UNCHANGED <<mem, size, moves>>
      /\ count' = [count EXCEPT ![b] = count[b] - 1]
      /\ dying' = [dying EXCEPT ![t] = IF count'[b] = 0 THEN b ELSE None]
      /\ handle' = [handle EXCEPT ![h] = None]
  BY DEF FreeRef
<1>2. /\ b \in Blocks /\ mem[b] = "live" /\ h \in Holders(b)
      /\ \A u \in Releasers : dying[u] # b
      /\ count[b] = Cardinality(Holders(b))
  BY <1>1, HandleInUse
<1>3. /\ count'[b] = count[b] - 1 /\ count[b] - 1 \in Nat
      /\ count[b] - 1 = Cardinality(Holders(b) \ {h})
  <2>1. /\ IsFiniteSet(Holders(b) \ {h})
        /\ Cardinality(Holders(b) \ {h}) = Cardinality(Holders(b)) - 1
    BY <1>2, HoldersFinite, FS_RemoveElement
  <2>2. Cardinality(Holders(b) \ {h}) \in Nat
    BY <2>1, FS_CardinalityType
  <2> QED
    BY <1>1, <1>2, <2>1, <2>2 DEF BufferInv, MBufferTypeOK
<1>4. \A k \in Handles : handle'[k] = IF k = h THEN None ELSE handle[k]
  BY <1>1 DEF BufferInv, MBufferTypeOK
<1>5. MBufferTypeOK'
  BY <1>1, <1>2, <1>3 DEF BufferInv, MBufferTypeOK
<1>6. NoHandleDangles'
  BY <1>1, <1>4 DEF BufferInv, NoHandleDangles, InUse
<1>7. \A c \in Blocks : Holders(c)' = IF c = b THEN Holders(c) \ {h} ELSE Holders(c)
  BY <1>1, <1>2, <1>4 DEF Holders, InUse
<1>8. \A u \in Releasers : dying'[u] = IF u # t THEN dying[u]
                                       ELSE IF count'[b] = 0 THEN b ELSE None
  BY <1>1 DEF BufferInv, MBufferTypeOK
<1>9. FreedByTheLast'
  <2> SUFFICES ASSUME NEW c \in Blocks
               PROVE  CountedRight(c)'
    BY DEF FreedByTheLast, CountedRight
  <2>1. CountedRight(c)
    BY BlockByBlock DEF BufferInv
  <2>2. c # None
    BY MBufferAssumption
  <2>3. CASE c # b
    <3>1. {u \in Releasers : dying'[u] = c} = {u \in Releasers : dying[u] = c}
      BY <1>1, <1>8, <2>2, <2>3
    <3>2. count'[c] = count[c] /\ Holders(c)' = Holders(c) /\ mem'[c] = mem[c]
      BY <1>1, <1>7, <2>3 DEF BufferInv, MBufferTypeOK
    <3> QED
      BY <2>1, <3>1, <3>2 DEF CountedRight
  <2>4. CASE c = b
    <3>1. Holders(c)' = Holders(b) \ {h} /\ mem'[c] = "live"
      BY <1>1, <1>2, <1>7, <2>4
    <3>2. CASE count'[b] = 0
      <4>1. Holders(b) \ {h} = {}
        BY <1>3, <3>2, HoldersFinite, FS_RemoveElement, FS_EmptySet
      <4>2. {u \in Releasers : dying'[u] = c} = {t}
        BY <1>2, <1>8, <2>4, <3>2
      <4> QED
        BY <1>3, <2>4, <3>1, <4>1, <4>2 DEF CountedRight
    <3>3. CASE count'[b] # 0
      <4>1. Holders(b) \ {h} # {}
        BY <1>3, <3>3, FS_EmptySet
      <4>2. {u \in Releasers : dying'[u] = c} = {}
        BY <1>2, <1>8, <2>2, <2>4, <3>3
      <4> QED
        BY <1>3, <2>4, <3>1, <4>1, <4>2 DEF CountedRight
    <3> QED
      BY <3>2, <3>3
  <2> QED
    BY <2>3, <2>4
<1> QED
  BY <1>5, <1>6, <1>9 DEF BufferInv

LEMMA FreeBlockKeeps ==
  ASSUME BufferInv, NEW t \in Releasers, FreeBlock(t)
  PROVE  BufferInv'
<1> DEFINE b == dying[t]
<1>1. /\ b # None /\ UNCHANGED <<count, size, moves, handle>>
      /\ mem' = [mem EXCEPT ![b] = "freed"] /\ dying' = [dying EXCEPT ![t] = None]
  BY DEF FreeBlock
<1>2. b \in Blocks
  BY <1>1 DEF BufferInv, MBufferTypeOK
<1>3. CountedRight(b)
  BY <1>2, BlockByBlock DEF BufferInv
<1>4. Holders(b) = {} /\ \A u \in Releasers : dying[u] = b => u = t
  BY <1>3 DEF CountedRight
<1>5. MBufferTypeOK'
  BY <1>1, <1>2 DEF BufferInv, MBufferTypeOK
<1>6. \A c \in Blocks : Holders(c)' = Holders(c)
  BY <1>1 DEF Holders, InUse
<1>7. NoHandleDangles'
  <2> SUFFICES ASSUME NEW k \in Handles, InUse(k)
               PROVE  /\ mem'[handle[k].mcb] = "live"
                      /\ handle[k].move = moves[handle[k].mcb]
                      /\ handle[k].off + handle[k].n <= size[handle[k].mcb]
    BY <1>1 DEF NoHandleDangles, InUse
  <2>1. handle[k].mcb # b /\ handle[k].mcb \in Blocks
    BY <1>4, HandleInUse
  <2> QED
    BY <1>1, <2>1, HandleInUse DEF BufferInv, MBufferTypeOK
<1>8. FreedByTheLast'
  <2> SUFFICES ASSUME NEW c \in Blocks
               PROVE  CountedRight(c)'
    BY DEF FreedByTheLast, CountedRight
  <2>1. CountedRight(c)
    BY BlockByBlock DEF BufferInv
  <2>2. \A u \in Releasers : dying'[u] = IF u = t THEN None ELSE dying[u]
    BY <1>1 DEF BufferInv, MBufferTypeOK
  <2>3. CASE c # b
    <3>1. {u \in Releasers : dying'[u] = c} = {u \in Releasers : dying[u] = c}
      BY <2>2, <2>3, MBufferAssumption
    <3>2. mem'[c] = mem[c] /\ Holders(c)' = Holders(c) /\ count'[c] = count[c]
      BY <1>1, <1>6, <2>3 DEF BufferInv, MBufferTypeOK
    <3> QED
      BY <2>1, <3>1, <3>2 DEF CountedRight
  <2>4. CASE c = b
    <3>1. {u \in Releasers : dying'[u] = c} = {}
      BY <1>4, <2>2, <2>4, MBufferAssumption
    <3>2. mem'[c] = "freed"
      BY <1>1, <1>2, <2>4 DEF BufferInv, MBufferTypeOK
    <3> QED
      BY <3>1, <3>2 DEF CountedRight
  <2> QED
    BY <2>3, <2>4
<1> QED
  BY <1>5, <1>7, <1>8 DEF BufferInv

-----------------------------------------------------------------------------
LEMMA BufferInvInit == MBufferInit => BufferInv
<1> SUFFICES ASSUME MBufferInit
             PROVE  BufferInv
  OBVIOUS
<1>1. MBufferTypeOK
  BY MBufferAssumption DEF MBufferInit, MBufferTypeOK
<1>2. NoHandleDangles
  BY DEF MBufferInit, NoHandleDangles, InUse
<1>3. FreedByTheLast
  BY MBufferAssumption DEF MBufferInit, FreedByTheLast
<1> QED
  BY <1>1, <1>2, <1>3 DEF BufferInv

(* Every operation of mbuffer.c keeps the invariant.                       *)
LEMMA BufferInvNext == BufferInv /\ [MBufferNext]_mbVars => BufferInv'
<1> SUFFICES ASSUME BufferInv, [MBufferNext]_mbVars
             PROVE  BufferInv'
  OBVIOUS
<1>1. CASE UNCHANGED mbVars
  <2>1. MBufferTypeOK'
    BY <1>1 DEF mbVars, BufferInv, MBufferTypeOK
  <2>2. NoHandleDangles'
    BY <1>1 DEF mbVars, BufferInv, NoHandleDangles, InUse
  <2>3. \A b \in Blocks : Holders(b)' = Holders(b)
    BY <1>1 DEF mbVars, Holders, InUse
  <2>4. FreedByTheLast'
    BY <1>1, <2>3 DEF mbVars, BufferInv, FreedByTheLast
  <2> QED
    BY <2>1, <2>2, <2>4 DEF BufferInv
<1>2. ASSUME NEW h \in Handles, NEW b \in Blocks, NEW n \in 1..MaxSize, Create(h, b, n)
      PROVE  BufferInv'
  BY <1>2, CreateKeeps
<1>3. ASSUME NEW h \in Handles, NEW g \in Handles, Clone(h, g)
      PROVE  BufferInv'
  BY <1>3, CloneKeeps
<1>4. ASSUME NEW h \in Handles, NEW g \in Handles, NEW b \in Blocks, Copy(h, g, b)
      PROVE  BufferInv'
  <2>1. handle[h].n \in 1..MaxSize /\ Create(g, b, handle[h].n)
    BY <1>4, HandleInUse DEF Copy
  <2> QED
    BY <2>1, CreateKeeps
<1>5. ASSUME NEW h \in Handles, NEW g \in Handles, NEW s \in 1..MaxSize, Split(h, g, s)
      PROVE  BufferInv'
  BY <1>5, SplitKeeps
<1>6. ASSUME NEW h \in Handles, NEW n \in 1..MaxSize, Realloc(h, n)
      PROVE  BufferInv'
  BY <1>6, ReallocKeeps
<1>7. ASSUME NEW h \in Handles, NEW t \in Releasers, FreeRef(t, h)
      PROVE  BufferInv'
  BY <1>7, FreeRefKeeps
<1>8. ASSUME NEW t \in Releasers, FreeBlock(t)
      PROVE  BufferInv'
  BY <1>8, FreeBlockKeeps
<1> QED
  BY <1>1, <1>2, <1>3, <1>4, <1>5, <1>6, <1>7, <1>8 DEF MBufferNext

(* In any use of the buffers by any number of threads, no handle points    *)
(* into memory that was released or moved away, and its range lies in the  *)
(* block.                                                                  *)
THEOREM BuffersNeverDangle == MBufferSpec => []NoHandleDangles
<1>1. BufferInv => NoHandleDangles
  BY DEF BufferInv
<1> QED
  BY <1>1, BufferInvInit, BufferInvNext, PTL DEF MBufferSpec

(* A block is freed once, by the thread that gave up its last handle.      *)
THEOREM BlocksFreedOnce == MBufferSpec => []FreedByTheLast
<1>1. BufferInv => FreedByTheLast
  BY DEF BufferInv
<1> QED
  BY <1>1, BufferInvInit, BufferInvNext, PTL DEF MBufferSpec

-----------------------------------------------------------------------------
(* The ring buffer *)

LEMMA Modulo ==
  ASSUME NEW N \in Nat \ {0}, NEW a \in Nat, a < 2 * N
  PROVE  a % N = IF a < N THEN a ELSE a - N
<1>1. /\ a \div N \in Nat /\ a % N \in Nat /\ a % N < N
      /\ a = (N * (a \div N)) + (a % N)
  BY SMT
<1>2. ASSUME NEW q \in Nat, a = N * q + (a % N)
      PROVE  q <= 1
  <2>1. CASE q >= 2
    <3>1. N * q >= N * 2
      BY <2>1, SMT
    <3>2. N * q \in Nat
      BY SMT
    <3> QED
      BY <1>1, <1>2, <3>1, <3>2
  <2> QED
    BY <2>1
<1>3. a \div N = 0 \/ a \div N = 1
  BY <1>1, <1>2
<1>4. CASE a \div N = 0
  BY <1>1, <1>4
<1>5. CASE a \div N = 1
  BY <1>1, <1>5
<1> QED
  BY <1>3, <1>4, <1>5

LEMMA SlotsType == Slots \in Nat \ {0} /\ Slots = QueueSize + 1 /\ QueueSize \in Nat \ {0}
  BY QueueAssumption DEF Slots

(* Where a number of steps around the ring ends.                           *)
Wrap(a) == IF a < Slots THEN a ELSE a - Slots

LEMMA Wraps ==
  ASSUME NEW a \in Nat, a < 2 * Slots
  PROVE  a % Slots = Wrap(a) /\ Wrap(a) \in 0..QueueSize
<1>1. a % Slots = Wrap(a)
  BY SlotsType, Modulo DEF Wrap
<1> QED
  BY <1>1, SlotsType DEF Wrap

(* The number of items, and which slot holds an item.                      *)
LEMMA UsedIs ==
  ASSUME QueueTypeOK
  PROVE  /\ head \in 0..QueueSize /\ tail \in 0..QueueSize
         /\ data \in [0..QueueSize -> Items \cup {NoItem}]
         /\ Used = IF tail <= head THEN head - tail ELSE head + Slots - tail
         /\ Used \in 0..QueueSize
         /\ Room \in 0..QueueSize /\ Room = QueueSize - Used
         /\ IsEmpty <=> Used = 0
         /\ IsFull <=> Used = QueueSize
<1>1. /\ head \in 0..QueueSize /\ tail \in 0..QueueSize
      /\ data \in [0..QueueSize -> Items \cup {NoItem}]
  BY DEF QueueTypeOK
<1>2. /\ head + Slots - tail \in Nat /\ head + Slots - tail < 2 * Slots
      /\ tail + Slots - 1 \in Nat /\ tail + Slots - 1 < 2 * Slots
  BY <1>1, SlotsType
<1>3. Used = Wrap(head + Slots - tail)
  BY <1>2, Wraps DEF Used
<1>4. IsFull <=> head = Wrap(tail + Slots - 1)
  BY <1>2, Wraps DEF IsFull
<1> QED
  BY <1>1, <1>3, <1>4, SlotsType DEF Wrap, Room, IsEmpty

Slot(i) == Wrap(tail + (i - 1))

LEMMA SlotIs ==
  ASSUME QueueTypeOK, NEW i \in 1..QueueSize
  PROVE  (tail + (i - 1)) % Slots = Slot(i) /\ Slot(i) \in 0..QueueSize
<1>1. tail + (i - 1) \in Nat /\ tail + (i - 1) < 2 * Slots
  BY UsedIs, SlotsType
<1> QED
  BY <1>1, Wraps DEF Slot

LEMMA ContentsAre ==
  ASSUME QueueTypeOK
  PROVE  /\ Contents = [i \in 1..Used |-> data[Slot(i)]]
         /\ DOMAIN Contents = 1..Used /\ Len(Contents) = Used
         /\ \A i \in 1..Used : Contents[i] = data[Slot(i)]
         /\ Contents \in Seq(Items \cup {NoItem})
<1>1. Used \in 0..QueueSize
  BY UsedIs
<1>2. \A i \in 1..Used : (tail + (i - 1)) % Slots = Slot(i) /\ Slot(i) \in 0..QueueSize
  BY <1>1, SlotIs, SlotsType
<1>3. Contents = [i \in 1..Used |-> data[Slot(i)]]
  BY <1>2 DEF Contents
<1>4. \A i \in 1..Used : data[Slot(i)] \in Items \cup {NoItem}
  BY <1>2, UsedIs
<1> QED
  BY <1>1, <1>3, <1>4

(* ringbuffer_insert appends.                                              *)
LEMMA Inserted ==
  ASSUME QueueTypeOK, NEW s \in Seq(Items), Len(s) <= Room, InsertAll(s)
  PROVE  /\ data' \in [0..QueueSize -> Items \cup {NoItem}]
         /\ head' \in 0..QueueSize /\ tail' = tail
         /\ Used' = Used + Len(s)
         /\ Contents' = Contents \o s
<1>1. /\ head \in 0..QueueSize /\ tail \in 0..QueueSize /\ Used \in 0..QueueSize
      /\ data \in [0..QueueSize -> Items \cup {NoItem}]
      /\ Len(s) \in Nat /\ Used + Len(s) <= QueueSize
      /\ Used = IF tail <= head THEN head - tail ELSE head + Slots - tail
  BY UsedIs, SlotsType
<1>2. head' = Wrap(head + Len(s)) /\ head' \in 0..QueueSize /\ tail' = tail
  <2>1. head + Len(s) \in Nat /\ head + Len(s) < 2 * Slots
    BY <1>1, SlotsType
  <2> QED
    BY <2>1, Wraps DEF InsertAll
<1>3. ASSUME NEW i \in 0..QueueSize
      PROVE  data'[i] = LET k == Wrap(i + Slots - head) + 1
                        IN  IF k <= Len(s) THEN s[k] ELSE data[i]
  <2>1. i + Slots - head \in Nat /\ i + Slots - head < 2 * Slots
    BY <1>1, SlotsType
  <2>2. (i + Slots - head) % Slots = Wrap(i + Slots - head)
    BY <2>1, Wraps
  <2> QED
    BY <2>2 DEF InsertAll
<1>4. data' \in [0..QueueSize -> Items \cup {NoItem}]
  <2>1. ASSUME NEW i \in 0..QueueSize
        PROVE  data'[i] \in Items \cup {NoItem}
    <3>1. PICK k \in Nat \ {0} : k = Wrap(i + Slots - head) + 1
      BY <1>1, SlotsType DEF Wrap
    <3>2. data'[i] = IF k <= Len(s) THEN s[k] ELSE data[i]
      BY <1>3, <3>1
    <3> QED
      BY <1>1, <3>2
  <2> QED
    BY <2>1 DEF InsertAll
<1>5. Used' = Used + Len(s)
  <2>1. head' + Slots - tail' \in Nat /\ head' + Slots - tail' < 2 * Slots
    BY <1>1, <1>2, SlotsType
  <2>2. Used' = Wrap(head' + Slots - tail')
    BY <2>1, Wraps DEF Used, Slots
  <2>3. PICK n \in Nat : n = Len(s) /\ Used + n <= QueueSize
    BY <1>1
  <2>4. head' = Wrap(head + n)
    BY <1>2, <2>3
  <2>5. Wrap(head' + Slots - tail) = Used + n
    BY <1>1, <2>3, <2>4, SlotsType DEF Wrap
  <2> QED
    BY <1>2, <2>2, <2>3, <2>5
<1>6. ASSUME NEW i \in 1..Used + Len(s)
      PROVE  /\ (tail + (i - 1)) % Slots = Slot(i) /\ Slot(i) \in 0..QueueSize
             /\ data'[Slot(i)] = IF i <= Used THEN data[Slot(i)] ELSE s[i - Used]
  <2>1. i \in 1..QueueSize
    BY <1>1, SlotsType
  <2>2. (tail + (i - 1)) % Slots = Slot(i) /\ Slot(i) \in 0..QueueSize
    BY <2>1, SlotIs
  <2>3. Wrap(Slot(i) + Slots - head) + 1 = IF i <= Used THEN i + Slots - Used ELSE i - Used
    BY <1>1, <2>1, SlotsType DEF Slot, Wrap
  <2>4. PICK k \in Nat \ {0} : k = Wrap(Slot(i) + Slots - head) + 1
    BY <1>1, <2>1, <2>3, SlotsType
  <2>5. data'[Slot(i)] = IF k <= Len(s) THEN s[k] ELSE data[Slot(i)]
    BY <1>3, <2>2, <2>4
  <2>6. k <= Len(s) <=> i > Used
    BY <1>1, <2>1, <2>3, <2>4, SlotsType
  <2> QED
    BY <2>1, <2>2, <2>3, <2>4, <2>5, <2>6, <1>1, SlotsType
<1>7. Contents' = [i \in 1..Used + Len(s) |-> IF i <= Used THEN Contents[i] ELSE s[i - Used]]
  <2>1. Contents' = [i \in 1..Used + Len(s) |-> data'[(tail + (i - 1)) % Slots]]
    BY <1>2, <1>5 DEF Contents, Slots
  <2>2. \A i \in 1..Used : Contents[i] = data[Slot(i)]
    BY ContentsAre
  <2>3. ASSUME NEW i \in 1..Used + Len(s)
        PROVE  data'[(tail + (i - 1)) % Slots] = IF i <= Used THEN Contents[i] ELSE s[i - Used]
    <3>1. PICK j : j = (tail + (i - 1)) % Slots
      OBVIOUS
    <3>2. j = Slot(i) /\ data'[j] = IF i <= Used THEN data[j] ELSE s[i - Used]
      BY <1>6, <3>1
    <3>3. i <= Used => Contents[i] = data[j]
      BY <1>1, <2>2, <3>2, SlotsType
    <3> QED
      BY <3>1, <3>2, <3>3
  <2> QED
    BY <2>1, <2>3, Zenon
<1>8. Contents' = Contents \o s
  <2>1. /\ Contents \in Seq(Items \cup {NoItem}) /\ s \in Seq(Items \cup {NoItem})
        /\ Len(Contents) = Used
    BY ContentsAre
  <2>2. /\ Contents' \in Seq(Items \cup {NoItem}) /\ Len(Contents') = Used + Len(s)
        /\ \A i \in 1..Used + Len(s) :
             Contents'[i] = IF i <= Used THEN Contents[i] ELSE s[i - Used]
    <3>1. \A i \in 1..Used + Len(s) :
            (IF i <= Used THEN Contents[i] ELSE s[i - Used]) \in Items \cup {NoItem}
      BY <1>1, <2>1
    <3>2. PICK n \in Nat : n = Used + Len(s)
      BY <1>1
    <3>3. Contents' = [i \in 1..n |-> IF i <= Used THEN Contents[i] ELSE s[i - Used]]
      BY <1>7, <3>2
    <3>4. Contents' \in [1..n -> Items \cup {NoItem}]
      BY <3>1, <3>2, <3>3
    <3>5. Contents' \in Seq(Items \cup {NoItem}) /\ Len(Contents') = n
      BY <3>4
    <3> QED
      BY <3>2, <3>3, <3>5
  <2>3. /\ Contents \o s \in Seq(Items \cup {NoItem})
        /\ Len(Contents \o s) = Used + Len(s)
        /\ \A i \in 1..Used + Len(s) :
             (Contents \o s)[i] = IF i <= Used THEN Contents[i] ELSE s[i - Used]
    BY <2>1, ConcatProperties
  <2> QED
    BY <2>2, <2>3, SeqEqual
<1> QED
  BY <1>2, <1>4, <1>5, <1>8

(* ringbuffer_remove takes the oldest.                                     *)
LEMMA Removed ==
  ASSUME QueueTypeOK, NEW k \in 0..Used, RemoveOldest(k)
  PROVE  /\ tail' \in 0..QueueSize /\ head' = head /\ data' = data
         /\ Used' = Used - k
         /\ Contents' = SubSeq(Contents, k + 1, Used)
<1>1. /\ head \in 0..QueueSize /\ tail \in 0..QueueSize /\ Used \in 0..QueueSize
      /\ head' = head /\ data' = data /\ k \in Nat /\ k <= QueueSize /\ k <= Used
      /\ Used = IF tail <= head THEN head - tail ELSE head + Slots - tail
  <2>1. Used \in 0..QueueSize
    BY UsedIs
  <2> QED
    BY <2>1, UsedIs, SlotsType DEF RemoveOldest
<1>2. tail' = Wrap(tail + k) /\ tail' \in 0..QueueSize
  <2>1. tail + k \in Nat /\ tail + k < 2 * Slots
    BY <1>1, SlotsType
  <2> QED
    BY <2>1, Wraps DEF RemoveOldest
<1>3. Used' = Used - k
  <2>1. head' + Slots - tail' \in Nat /\ head' + Slots - tail' < 2 * Slots
    BY <1>1, <1>2, SlotsType
  <2>2. Used' = Wrap(head' + Slots - tail')
    BY <2>1, Wraps DEF Used, Slots
  <2> QED
    BY <1>1, <1>2, <2>2, SlotsType DEF Wrap
<1>4. ASSUME NEW i \in 1..Used - k
      PROVE  (tail' + (i - 1)) % Slots = Slot(i + k) /\ i + k \in 1..Used
  <2>1. i \in Nat /\ i >= 1 /\ i <= Used - k
    BY <1>1
  <2>2. tail' + (i - 1) \in Nat /\ tail' + (i - 1) < 2 * Slots
    BY <1>1, <1>2, <2>1, SlotsType
  <2>3. (tail' + (i - 1)) % Slots = Wrap(tail' + (i - 1))
    BY <2>2, Wraps
  <2> QED
    BY <1>1, <1>2, <2>1, <2>3, SlotsType DEF Slot, Wrap
<1>5. Contents' = [i \in 1..Used - k |-> Contents[i + k]]
  <2>1. Contents' = [i \in 1..Used - k |-> data[(tail' + (i - 1)) % Slots]]
    BY <1>1, <1>3 DEF Contents, Slots
  <2>2. \A i \in 1..Used : Contents[i] = data[Slot(i)]
    BY ContentsAre
  <2> QED
    BY <1>4, <2>1, <2>2
<1>6. SubSeq(Contents, k + 1, Used) = [i \in 1..Used - k |-> Contents[i + k]]
  <2>1. Contents \in Seq(Items \cup {NoItem}) /\ Len(Contents) = Used
    BY ContentsAre
  <2> QED
    BY <1>1, <2>1
<1> QED
  BY <1>1, <1>2, <1>3, <1>5, <1>6

-----------------------------------------------------------------------------
(* Sequences of sequences *)

LEMMA LeastOf ==
  ASSUME NEW S \in SUBSET Nat, S # {}
  PROVE  \E x \in S : \A y \in S : x <= y
<1> DEFINE R == OpToRel(<, Nat)
<1>1. \A x, y \in Nat : x < y => <<x, y>> \in R
  BY DEF OpToRel
<1>2. IsWellFoundedOn(R, Nat)
  BY NatLessThanWellFounded
<1> HIDE DEF R
<1>3. PICK x \in S : \A y \in S : ~(<<y, x>> \in R)
  BY <1>2, WFMin
<1>4. \A y \in S : ~(y < x)
  BY <1>1, <1>3, Zenon
<1> QED
  BY <1>4

(* The function behind FlattenSeq: f[i] is the first i sequences in a row. *)
Concatenates(f, ss) ==
  f = [i \in 1..Len(ss) |-> IF i = 1 THEN ss[i] ELSE f[i - 1] \o ss[i]]

LEMMA ConcatenationExists ==
  ASSUME NEW S, NEW ss \in Seq(Seq(S))
  PROVE  \E f : Concatenates(f, ss)
<1> DEFINE Upto(n) == \E f : f = [i \in 1..n |-> IF i = 1 THEN ss[i] ELSE f[i - 1] \o ss[i]]
           Bad == {n \in 0..Len(ss) : ~Upto(n)}
<1>1. Upto(0)
  <2>1. [i \in 1..0 |-> {}] = [i \in 1..0 |-> IF i = 1 THEN ss[i] ELSE [j \in 1..0 |-> {}][i - 1] \o ss[i]]
    OBVIOUS
  <2> QED
    BY <2>1
<1>2. ASSUME NEW n \in Nat, Upto(n)
      PROVE  Upto(n + 1)
  <2>1. PICK f : f = [i \in 1..n |-> IF i = 1 THEN ss[i] ELSE f[i - 1] \o ss[i]]
    BY <1>2
  <2> DEFINE g == [i \in 1..n + 1 |-> IF i <= n THEN f[i] ELSE
                                      IF i = 1 THEN ss[i] ELSE f[i - 1] \o ss[i]]
  <2>2. ASSUME NEW i \in 1..n + 1
        PROVE  g[i] = IF i = 1 THEN ss[i] ELSE g[i - 1] \o ss[i]
    <3>1. CASE i <= n
      <4>1. g[i] = f[i] /\ (i # 1 => g[i - 1] = f[i - 1])
        BY <3>1
      <4>2. i \in 1..n
        BY <3>1
      <4>3. f[i] = IF i = 1 THEN ss[i] ELSE f[i - 1] \o ss[i]
        BY <2>1, <4>2
      <4> QED
        BY <4>1, <4>3
    <3>2. CASE i = n + 1
      <4>1. i # 1 => g[i - 1] = f[i - 1]
        BY <3>2
      <4> QED
        BY <3>2, <4>1
    <3> QED
      BY <3>1, <3>2
  <2>3. g = [i \in 1..n + 1 |-> IF i = 1 THEN ss[i] ELSE g[i - 1] \o ss[i]]
    BY <2>2
  <2> HIDE DEF g
  <2> QED
    BY <2>3
<1> HIDE DEF Upto
<1>3. Bad = {}
  <2> SUFFICES ASSUME Bad # {}
               PROVE  FALSE
    OBVIOUS
  <2>1. PICK n \in Bad : \A m \in Bad : n <= m
    BY LeastOf, Bad \in SUBSET Nat
  <2>2. n \in Nat /\ n # 0 /\ ~Upto(n)
    BY <1>1
  <2>3. n - 1 \in 0..Len(ss) /\ ~(n <= n - 1)
    BY <2>2
  <2>4. Upto(n - 1)
    BY <2>1, <2>3
  <2>5. Upto((n - 1) + 1)
    BY <1>2, <2>3, <2>4
  <2>6. (n - 1) + 1 = n
    BY <2>2
  <2> QED
    BY <2>2, <2>5, <2>6
<1>4. Len(ss) \in 0..Len(ss)
  BY LenProperties
<1>5. Upto(Len(ss))
  BY <1>3, <1>4
<1> QED
  BY <1>5 DEF Concatenates, Upto

LEMMA ConcatenationStep ==
  ASSUME NEW f, NEW ss, Concatenates(f, ss), NEW i \in 1..Len(ss)
  PROVE  f[i] = IF i = 1 THEN ss[i] ELSE f[i - 1] \o ss[i]
<1> DEFINE g == [j \in 1..Len(ss) |-> IF j = 1 THEN ss[j] ELSE f[j - 1] \o ss[j]]
<1>1. f = g
  BY DEF Concatenates
<1>2. g[i] = IF i = 1 THEN ss[i] ELSE f[i - 1] \o ss[i]
  OBVIOUS
<1> HIDE DEF g
<1> QED
  BY <1>1, <1>2

LEMMA ConcatenationType ==
  ASSUME NEW S, NEW ss \in Seq(Seq(S)), NEW f, Concatenates(f, ss), NEW i \in 1..Len(ss)
  PROVE  f[i] \in Seq(S)
<1> DEFINE Bad == {n \in 1..Len(ss) : f[n] \notin Seq(S)}
<1> SUFFICES ASSUME Bad # {}
             PROVE  FALSE
  OBVIOUS
<1>1. PICK n \in Bad : \A m \in Bad : n <= m
  BY LeastOf, Bad \in SUBSET Nat
<1>2. f[n] = IF n = 1 THEN ss[n] ELSE f[n - 1] \o ss[n]
  BY ConcatenationStep
<1>3. ss[n] \in Seq(S)
  BY ElementOfSeq
<1>4. n # 1
  BY <1>2, <1>3
<1>5. f[n - 1] \in Seq(S)
  <2>1. n - 1 \in 1..Len(ss) /\ ~(n <= n - 1)
    BY <1>4
  <2> QED
    BY <1>1, <2>1
<1>6. f[n - 1] \o ss[n] \in Seq(S)
  BY <1>3, <1>5, ConcatProperties
<1> QED
  BY <1>2, <1>4, <1>6

(* It is determined by the sequences it has come past.                     *)
LEMMA ConcatenationPrefix ==
  ASSUME NEW ss, NEW tt, NEW f, NEW g, Concatenates(f, ss), Concatenates(g, tt),
         Len(ss) \in Nat, Len(tt) \in Nat, Len(ss) <= Len(tt),
         \A i \in 1..Len(ss) : ss[i] = tt[i],
         NEW i \in 1..Len(ss)
  PROVE  f[i] = g[i]
<1> DEFINE Bad == {n \in 1..Len(ss) : f[n] # g[n]}
<1> SUFFICES ASSUME Bad # {}
             PROVE  FALSE
  OBVIOUS
<1>1. PICK n \in Bad : \A m \in Bad : n <= m
  BY LeastOf, Bad \in SUBSET Nat
<1>2. n \in 1..Len(ss) /\ n \in 1..Len(tt)
  OBVIOUS
<1>3. /\ f[n] = IF n = 1 THEN ss[n] ELSE f[n - 1] \o ss[n]
      /\ g[n] = IF n = 1 THEN ss[n] ELSE g[n - 1] \o ss[n]
  BY <1>2, ConcatenationStep
<1>4. n # 1 => f[n - 1] = g[n - 1]
  <2>1. n # 1 => n - 1 \in 1..Len(ss) /\ ~(n <= n - 1)
    OBVIOUS
  <2> QED
    BY <1>1, <2>1
<1> QED
  BY <1>3, <1>4

LEMMA FlattenIs ==
  ASSUME NEW S, NEW ss \in Seq(Seq(S)), ss # <<>>
  PROVE  \E f : Concatenates(f, ss) /\ FlattenSeq(ss) = f[Len(ss)]
<1> DEFINE f == CHOOSE g : g = [i \in 1..Len(ss) |-> IF i = 1 THEN ss[i] ELSE g[i - 1] \o ss[i]]
<1>1. Len(ss) # 0
  BY EmptySeq
<1>2. FlattenSeq(ss) = f[Len(ss)]
  BY <1>1 DEF FlattenSeq
<1>3. Concatenates(f, ss)
  <2>1. PICK g : g = [i \in 1..Len(ss) |-> IF i = 1 THEN ss[i] ELSE g[i - 1] \o ss[i]]
    BY ConcatenationExists DEF Concatenates
  <2> QED
    BY <2>1, Zenon DEF Concatenates
<1> HIDE DEF f
<1> QED
  BY <1>2, <1>3

LEMMA FlattenEmpty == FlattenSeq(<<>>) = <<>>
<1>1. Len(<<>>) = 0
  BY EmptySeq
<1> QED
  BY <1>1 DEF FlattenSeq

LEMMA FlattenType ==
  ASSUME NEW S, NEW ss \in Seq(Seq(S))
  PROVE  FlattenSeq(ss) \in Seq(S)
<1>1. CASE ss = <<>>
  BY <1>1, FlattenEmpty, EmptySeq
<1>2. CASE ss # <<>>
  <2>1. PICK f : Concatenates(f, ss) /\ FlattenSeq(ss) = f[Len(ss)]
    BY <1>2, FlattenIs
  <2>2. Len(ss) \in 1..Len(ss)
    BY <1>2, EmptySeq
  <2> QED
    BY <2>1, <2>2, ConcatenationType
<1> QED
  BY <1>1, <1>2

LEMMA FlattenAppend ==
  ASSUME NEW S, NEW ss \in Seq(Seq(S)), NEW s \in Seq(S)
  PROVE  FlattenSeq(Append(ss, s)) = FlattenSeq(ss) \o s
<1>1. PICK n \in Nat : n = Len(ss)
  BY LenProperties
<1>2. PICK tt : tt = Append(ss, s)
  OBVIOUS
<1>3. /\ tt \in Seq(Seq(S)) /\ tt # <<>> /\ Len(tt) = n + 1
      /\ \A i \in 1..n : tt[i] = ss[i]
      /\ tt[n + 1] = s
  BY <1>1, <1>2, AppendProperties
<1>4. PICK g : Concatenates(g, tt) /\ FlattenSeq(tt) = g[n + 1]
  BY <1>3, FlattenIs
<1>5. g[n + 1] = IF n + 1 = 1 THEN s ELSE g[n] \o s
  <2>1. n + 1 \in 1..Len(tt) /\ (n + 1) - 1 = n
    BY <1>3
  <2> QED
    BY <1>3, <1>4, <2>1, ConcatenationStep
<1>6. CASE ss = <<>>
  <2>1. n = 0
    BY <1>1, <1>6, EmptySeq
  <2>2. <<>> \o s = s
    BY ConcatEmptySeq
  <2> QED
    BY <1>2, <1>4, <1>5, <1>6, <2>1, <2>2, FlattenEmpty
<1>7. CASE ss # <<>>
  <2>1. PICK f : Concatenates(f, ss) /\ FlattenSeq(ss) = f[n]
    BY <1>1, <1>7, FlattenIs
  <2>2. n \in 1..Len(ss) /\ n # 0
    BY <1>1, <1>7, EmptySeq
  <2>3. f[n] = g[n]
    <3>1. Len(ss) <= Len(tt) /\ Len(ss) \in Nat /\ Len(tt) \in Nat
      BY <1>1, <1>3
    <3>2. \A i \in 1..Len(ss) : ss[i] = tt[i]
      BY <1>1, <1>3
    <3> QED
      BY <1>4, <2>1, <2>2, <3>1, <3>2, ConcatenationPrefix
  <2>4. g[n + 1] = g[n] \o s
    <3>1. n + 1 # 1
      BY <2>2
    <3> QED
      BY <1>5, <3>1, Zenon
  <2>5. FlattenSeq(tt) = FlattenSeq(ss) \o s
    BY <1>4, <2>1, <2>3, <2>4, Zenon
  <2> QED
    BY <1>2, <2>5, Zenon
<1> QED
  BY <1>6, <1>7

LEMMA FlattenConcat ==
  ASSUME NEW S, NEW ss \in Seq(Seq(S)), NEW tt \in Seq(Seq(S))
  PROVE  FlattenSeq(ss \o tt) = FlattenSeq(ss) \o FlattenSeq(tt)
<1> DEFINE Good(n) == FlattenSeq(ss \o SubSeq(tt, 1, n)) = FlattenSeq(ss) \o FlattenSeq(SubSeq(tt, 1, n))
           Bad == {n \in 0..Len(tt) : ~Good(n)}
<1>1. Good(0)
  <2>1. SubSeq(tt, 1, 0) = <<>>
    BY SubSeqEmpty
  <2>2. ss \o <<>> = ss /\ FlattenSeq(ss) \o <<>> = FlattenSeq(ss)
    BY FlattenType, ConcatEmptySeq
  <2> QED
    BY <2>1, <2>2, FlattenEmpty
<1>2. ASSUME NEW n \in Nat, n < Len(tt), Good(n)
      PROVE  Good(n + 1)
  <2>1. PICK uu : uu = SubSeq(tt, 1, n)
    OBVIOUS
  <2>2. PICK s \in Seq(S) : s = tt[n + 1]
    BY <1>2, ElementOfSeq
  <2>3. uu \in Seq(Seq(S)) /\ SubSeq(tt, 1, n + 1) = Append(uu, s)
    <3>1. /\ uu \in Seq(Seq(S)) /\ SubSeq(tt, 1, n + 1) \in Seq(Seq(S))
          /\ Len(uu) = n /\ Len(SubSeq(tt, 1, n + 1)) = n + 1
          /\ \A i \in 1..n : uu[i] = tt[i]
          /\ \A i \in 1..n + 1 : SubSeq(tt, 1, n + 1)[i] = tt[i]
      BY <1>2, <2>1
    <3>2. /\ Append(uu, s) \in Seq(Seq(S)) /\ Len(Append(uu, s)) = n + 1
          /\ \A i \in 1..n : Append(uu, s)[i] = tt[i]
          /\ Append(uu, s)[n + 1] = tt[n + 1]
      <4>1. /\ Append(uu, s) \in Seq(Seq(S)) /\ Len(Append(uu, s)) = Len(uu) + 1
            /\ \A i \in 1..Len(uu) : Append(uu, s)[i] = uu[i]
            /\ Append(uu, s)[Len(uu) + 1] = s
        BY <3>1, AppendProperties
      <4> QED
        BY <2>2, <3>1, <4>1
    <3>3. \A i \in 1..n + 1 : Append(uu, s)[i] = tt[i]
      BY <3>2
    <3> QED
      BY <3>1, <3>2, <3>3, SeqEqual
  <2>4. ss \o Append(uu, s) = Append(ss \o uu, s)
    <3>1. /\ Append(uu, s) = uu \o <<s>> /\ <<s>> \in Seq(Seq(S))
          /\ ss \o uu \in Seq(Seq(S)) /\ Append(ss \o uu, s) = (ss \o uu) \o <<s>>
      <4>1. <<s>> \in Seq(Seq(S)) /\ ss \o uu \in Seq(Seq(S))
        BY <2>3, ConcatProperties
      <4> QED
        BY <2>3, <4>1, AppendIsConcat
    <3> QED
      BY <2>3, <3>1, ConcatAssociative
  <2>5. /\ FlattenSeq(Append(ss \o uu, s)) = FlattenSeq(ss \o uu) \o s
        /\ FlattenSeq(Append(uu, s)) = FlattenSeq(uu) \o s
    BY <2>3, ConcatProperties, FlattenAppend
  <2>6. (FlattenSeq(ss) \o FlattenSeq(uu)) \o s = FlattenSeq(ss) \o (FlattenSeq(uu) \o s)
    <3>1. PICK x \in Seq(S), y \in Seq(S) : x = FlattenSeq(ss) /\ y = FlattenSeq(uu)
      BY <2>3, FlattenType
    <3>2. s \in Seq(S)
      BY <2>3
    <3>3. (x \o y) \o s = x \o (y \o s)
      BY <3>2
    <3> QED
      BY <3>1, <3>3
  <2> QED
    BY <1>2, <2>1, <2>3, <2>4, <2>5, <2>6
<1>3. Good(Len(tt)) => FlattenSeq(ss \o tt) = FlattenSeq(ss) \o FlattenSeq(tt)
  BY SubSeqFull
<1> HIDE DEF Good
<1>4. Bad = {}
  <2> SUFFICES ASSUME Bad # {}
               PROVE  FALSE
    OBVIOUS
  <2>1. PICK n \in Bad : \A m \in Bad : n <= m
    BY LeastOf, Bad \in SUBSET Nat
  <2>2. n \in Nat /\ n # 0 /\ ~Good(n) /\ n <= Len(tt) /\ Len(tt) \in Nat
    BY <1>1
  <2>3. n - 1 \in 0..Len(tt) /\ ~(n <= n - 1)
    BY <2>2
  <2>4. Good(n - 1)
    BY <2>1, <2>3
  <2>5. Good((n - 1) + 1)
    BY <1>2, <2>2, <2>3, <2>4
  <2>6. (n - 1) + 1 = n
    BY <2>2
  <2> QED
    BY <2>2, <2>5, <2>6
<1>5. Len(tt) \in 0..Len(tt)
  BY LenProperties
<1> QED
  BY <1>3, <1>4, <1>5

-----------------------------------------------------------------------------
(* Places *)

LEMMA PlaceKinds ==
  /\ \A p \in Producers : <<"chunk", p, 1>> \in Places
  /\ \A p \in Producers, i \in 1..PerInsert : <<"send", p, i>> \in Places
  /\ \A i \in 1..QueueSize : <<"queue", NoItem, i>> \in Places
  /\ \A c \in Consumers, i \in 1..PerFetch : <<"recv", c, i>> \in Places
  /\ \A x \in Places :
       \/ \E p \in Producers : x = <<"chunk", p, 1>>
       \/ \E p \in Producers, i \in 1..PerInsert : x = <<"send", p, i>>
       \/ \E i \in 1..QueueSize : x = <<"queue", NoItem, i>>
       \/ \E c \in Consumers, i \in 1..PerFetch : x = <<"recv", c, i>>
  BY DEF Places

LEMMA ItemIs ==
  /\ \A p \in Producers : Item(<<"chunk", p, 1>>) = chunk[p]
  /\ \A p \in Producers, i \in 1..PerInsert : Item(<<"send", p, i>>) = Nth(sendBuf[p], i)
  /\ \A i \in 1..QueueSize : Item(<<"queue", NoItem, i>>) = Nth(Contents, i)
  /\ \A c \in Consumers, i \in 1..PerFetch : Item(<<"recv", c, i>>) = Nth(recvBuf[c], i)
  BY DEF Item

(* What is in each place: each handle of U is in one of them.              *)
OneEach(F, U) ==
  /\ \A x, y \in Places : F[x] = F[y] /\ F[x] # NoItem => x = y
  /\ \A h : h \in U <=> h # NoItem /\ \E x \in Places : F[x] = h

Table == [x \in Places |-> Item(x)]
HandlesInUse == {h \in Handles : InUse(h)}

LEMMA NthType ==
  ASSUME NEW s \in Seq(Handles), NEW i \in Nat \ {0}
  PROVE  Nth(s, i) \in Handles \cup {NoItem}
  BY DEF Nth

LEMMA ItemType ==
  ASSUME StageInv, NEW x \in Places
  PROVE  Item(x) \in Handles \cup {NoItem}
<1>1. CASE \E p \in Producers : x = <<"chunk", p, 1>>
  BY <1>1, ItemIs DEF StageInv
<1>2. CASE \E p \in Producers, i \in 1..PerInsert : x = <<"send", p, i>>
  <2>1. PICK p \in Producers, i \in 1..PerInsert : x = <<"send", p, i>>
    BY <1>2
  <2>2. Item(x) = Nth(sendBuf[p], i) /\ sendBuf[p] \in Seq(Handles) /\ i \in Nat \ {0}
    BY <2>1, ItemIs, StageAssumption DEF StageInv
  <2> QED
    BY <2>2, NthType
<1>3. CASE \E i \in 1..QueueSize : x = <<"queue", NoItem, i>>
  <2>1. PICK i \in 1..QueueSize : x = <<"queue", NoItem, i>>
    BY <1>3
  <2>2. Item(x) = Nth(Contents, i) /\ Contents \in Seq(Handles) /\ i \in Nat \ {0}
    BY <2>1, ItemIs, QueueAssumption DEF StageInv
  <2> QED
    BY <2>2, NthType
<1>4. CASE \E c \in Consumers, i \in 1..PerFetch : x = <<"recv", c, i>>
  <2>1. PICK c \in Consumers, i \in 1..PerFetch : x = <<"recv", c, i>>
    BY <1>4
  <2>2. Item(x) = Nth(recvBuf[c], i) /\ recvBuf[c] \in Seq(Handles) /\ i \in Nat \ {0}
    BY <2>1, ItemIs, StageAssumption DEF StageInv
  <2> QED
    BY <2>2, NthType
<1> QED
  BY <1>1, <1>2, <1>3, <1>4, PlaceKinds

LEMMA AccessIs ==
  StageInv => (ExclusiveAccess <=> OneEach(Table, HandlesInUse))
<1> SUFFICES ASSUME StageInv
             PROVE  ExclusiveAccess <=> OneEach(Table, HandlesInUse)
  OBVIOUS
<1>1. \A x \in Places : Table[x] = Item(x) /\ Item(x) \in Handles \cup {NoItem}
  BY ItemType DEF Table
<1>2. NoItem \notin Handles
  BY QueueAssumption, StageAssumption
<1> QED
  BY <1>1, <1>2 DEF ExclusiveAccess, OneEach, HandlesInUse

LEMMA Moved ==
  ASSUME NEW F, NEW G, NEW U, NEW Src, OneEach(F, U),
         \A x \in Places : G[x] # NoItem => Src[x] \in Places /\ G[x] = F[Src[x]],
         \A x, y \in Places : G[x] # NoItem /\ G[y] # NoItem /\ Src[x] = Src[y] => x = y,
         \A y \in Places : F[y] # NoItem => \E x \in Places : Src[x] = y /\ G[x] = F[y]
  PROVE  OneEach(G, U)
<1>1. \A x, y \in Places : G[x] = G[y] /\ G[x] # NoItem => x = y
  BY DEF OneEach
<1>2. ASSUME NEW h, h # NoItem
      PROVE  (\E x \in Places : G[x] = h) <=> (\E y \in Places : F[y] = h)
  BY <1>2
<1> QED
  BY <1>1, <1>2 DEF OneEach

LEMMA Gained ==
  ASSUME NEW F, NEW G, NEW U, OneEach(F, U), NEW z \in Places, NEW h,
         h # NoItem, h \notin U, F[z] = NoItem, G[z] = h,
         \A x \in Places \ {z} : G[x] = F[x]
  PROVE  OneEach(G, U \cup {h})
<1>1. \A x \in Places : F[x] # h
  BY DEF OneEach
<1>2. \A x, y \in Places : G[x] = G[y] /\ G[x] # NoItem => x = y
  BY <1>1 DEF OneEach
<1>3. ASSUME NEW g
      PROVE  g \in U \cup {h} <=> g # NoItem /\ \E x \in Places : G[x] = g
  BY <1>1 DEF OneEach
<1> QED
  BY <1>2, <1>3 DEF OneEach

LEMMA Lost ==
  ASSUME NEW F, NEW G, NEW U, OneEach(F, U), NEW z \in Places,
         F[z] # NoItem, G[z] = NoItem,
         \A x \in Places \ {z} : G[x] = F[x]
  PROVE  OneEach(G, U \ {F[z]}) /\ F[z] \in U
<1>1. F[z] \in U /\ \A x \in Places \ {z} : F[x] # F[z]
  BY DEF OneEach
<1>2. \A x, y \in Places : G[x] = G[y] /\ G[x] # NoItem => x = y
  BY <1>1 DEF OneEach
<1>3. ASSUME NEW g
      PROVE  g \in U \ {F[z]} <=> g # NoItem /\ \E x \in Places : G[x] = g
  BY <1>1 DEF OneEach
<1> QED
  BY <1>1, <1>2, <1>3 DEF OneEach

(* The table after a step, from the places it changed.                     *)
LEMMA TableIs ==
  /\ \A p \in Producers : Table[<<"chunk", p, 1>>] = chunk[p]
  /\ \A p \in Producers, i \in 1..PerInsert : Table[<<"send", p, i>>] = Nth(sendBuf[p], i)
  /\ \A i \in 1..QueueSize : Table[<<"queue", NoItem, i>>] = Nth(Contents, i)
  /\ \A c \in Consumers, i \in 1..PerFetch : Table[<<"recv", c, i>>] = Nth(recvBuf[c], i)
  BY ItemIs, PlaceKinds DEF Table

LEMMA TableIsNext ==
  /\ \A p \in Producers : Table'[<<"chunk", p, 1>>] = chunk'[p]
  /\ \A p \in Producers, i \in 1..PerInsert : Table'[<<"send", p, i>>] = Nth(sendBuf'[p], i)
  /\ \A i \in 1..QueueSize : Table'[<<"queue", NoItem, i>>] = Nth(Contents', i)
  /\ \A c \in Consumers, i \in 1..PerFetch : Table'[<<"recv", c, i>>] = Nth(recvBuf'[c], i)
<1>1. (/\ \A p \in Producers : Table[<<"chunk", p, 1>>] = chunk[p]
       /\ \A p \in Producers, i \in 1..PerInsert : Table[<<"send", p, i>>] = Nth(sendBuf[p], i)
       /\ \A i \in 1..QueueSize : Table[<<"queue", NoItem, i>>] = Nth(Contents, i)
       /\ \A c \in Consumers, i \in 1..PerFetch : Table[<<"recv", c, i>>] = Nth(recvBuf[c], i))'
  BY TableIs, PTL
<1> QED
  BY <1>1 DEF Nth

-----------------------------------------------------------------------------
(* The operations of the queue *)

LEMMA SameRing ==
  ASSUME UNCHANGED <<data, head, tail>>
  PROVE  Contents' = Contents /\ Used' = Used
  BY DEF Contents, Used, Slots

LEMMA SignalTypes ==
  ASSUME QueueTypeOK, NEW t \in QThreads, NEW cv, LeaveAndSignal(t, cv)
  PROVE  waits' \in [QThreads -> {"no", "notEmpty", "notFull", "woken"}]
<1>1. CASE Waiting(cv) = {}
  BY <1>1 DEF LeaveAndSignal, QueueTypeOK
<1>2. CASE Waiting(cv) # {}
  <2>1. PICK u \in Waiting(cv) : waits' = [waits EXCEPT ![t] = "no", ![u] = "woken"]
    BY <1>2 DEF LeaveAndSignal
  <2> QED
    BY <2>1 DEF QueueTypeOK
<1> QED
  BY <1>1, <1>2

LEMMA WaitKeeps ==
  ASSUME QueueTypeOK, NEW t \in QThreads,
         WaitNotFull(t) \/ WaitNotEmpty(t) \/ DequeueEnd(t) \/ SpuriousWakeup(t)
  PROVE  QueueTypeOK' /\ Contents' = Contents /\ nTerminated' = nTerminated
<1>1. UNCHANGED <<data, head, tail, nTerminated>>
  BY DEF WaitNotFull, WaitNotEmpty, DequeueEnd, SpuriousWakeup
<1>2. waits' \in [QThreads -> {"no", "notEmpty", "notFull", "woken"}]
  BY DEF WaitNotFull, WaitNotEmpty, DequeueEnd, SpuriousWakeup, QueueTypeOK
<1> QED
  BY <1>1, <1>2, SameRing DEF QueueTypeOK

LEMMA EnqueueKeeps ==
  ASSUME QueueTypeOK, NEW t \in QThreads, NEW buf \in Seq(Handles), buf # <<>>,
         NEW limit \in Nat \ {0}, Enqueue(t, buf, limit)
  PROVE  /\ QueueTypeOK' /\ nTerminated' = nTerminated
         /\ NumToEnqueue(buf, limit) \in 1..Len(buf)
         /\ Used + NumToEnqueue(buf, limit) <= QueueSize
         /\ Contents' = Contents \o SubSeq(buf, 1, NumToEnqueue(buf, limit))
         /\ Used' = Used + NumToEnqueue(buf, limit)
<1>1. /\ ~IsFull /\ InsertAll(SubSeq(buf, 1, NumToEnqueue(buf, limit)))
      /\ LeaveAndSignal(t, "notEmpty") /\ nTerminated' = nTerminated
  BY DEF Enqueue, MustWaitToEnqueue
<1>2. /\ Used \in 0..QueueSize /\ Room \in 0..QueueSize /\ Room = QueueSize - Used
      /\ Room # 0 /\ QueueSize \in Nat
  BY <1>1, UsedIs, SlotsType
<1>3. Len(buf) \in Nat \ {0}
  BY EmptySeq
<1>4. PICK k \in 1..Len(buf) : k = NumToEnqueue(buf, limit) /\ k <= Room
  BY <1>2, <1>3 DEF NumToEnqueue, Smallest
<1>5. SubSeq(buf, 1, k) \in Seq(Items) /\ Len(SubSeq(buf, 1, k)) = k
  <2>1. \A i \in 1..k : buf[i] \in Items
    BY <1>3, <1>4, StageAssumption
  <2>2. k \in Int /\ 1 <= k
    BY <1>3, <1>4
  <2> QED
    BY <2>1, <2>2, SubSeqProperties
<1>6. /\ data' \in [0..QueueSize -> Items \cup {NoItem}]
      /\ head' \in 0..QueueSize /\ tail' = tail
      /\ Used' = Used + k
      /\ Contents' = Contents \o SubSeq(buf, 1, k)
  BY <1>1, <1>4, <1>5, Inserted
<1>7. QueueTypeOK'
  BY <1>1, <1>6, SignalTypes DEF QueueTypeOK
<1> QED
  BY <1>1, <1>2, <1>4, <1>6, <1>7

LEMMA DequeueKeeps ==
  ASSUME QueueTypeOK, NEW t \in QThreads, NEW limit \in Nat \ {0}, Dequeue(t, limit)
  PROVE  /\ QueueTypeOK' /\ nTerminated' = nTerminated
         /\ NumToDequeue(limit) \in 1..Used /\ NumToDequeue(limit) <= limit
         /\ Contents' = SubSeq(Contents, NumToDequeue(limit) + 1, Used)
         /\ Used' = Used - NumToDequeue(limit)
<1>1. /\ ~IsEmpty /\ RemoveOldest(NumToDequeue(limit))
      /\ LeaveAndSignal(t, "notFull") /\ nTerminated' = nTerminated
  BY DEF Dequeue
<1>2. Used \in 0..QueueSize /\ Used # 0 /\ QueueSize \in Nat
  BY <1>1, UsedIs, SlotsType
<1>3. PICK k \in 1..Used : k = NumToDequeue(limit) /\ k <= limit
  BY <1>2 DEF NumToDequeue, Smallest
<1>4. k \in 0..Used
  BY <1>2
<1>5. /\ tail' \in 0..QueueSize /\ head' = head /\ data' = data
      /\ Used' = Used - k
      /\ Contents' = SubSeq(Contents, k + 1, Used)
  BY <1>1, <1>3, <1>4, Removed
<1>6. QueueTypeOK'
  BY <1>1, <1>5, SignalTypes DEF QueueTypeOK
<1> QED
  BY <1>1, <1>3, <1>5, <1>6

LEMMA TerminateKeeps ==
  ASSUME QueueTypeOK, NEW t \in QThreads, nTerminated < NProducers, Terminate(t)
  PROVE  QueueTypeOK' /\ Contents' = Contents /\ nTerminated' = nTerminated + 1
<1>1. nTerminated' \in 0..NProducers
  BY QueueAssumption DEF Terminate, QueueTypeOK
<1>2. waits' \in [QThreads -> {"no", "notEmpty", "notFull", "woken"}]
  BY DEF Terminate, QueueTypeOK
<1> QED
  BY <1>1, <1>2, SameRing DEF QueueTypeOK, Terminate

-----------------------------------------------------------------------------
(* What a step leaves alone *)

LEMMA ProducerFrame ==
  ASSUME NEW q \in Producers, ProducerInv(q),
         pc'[q] = pc[q], sendBuf'[q] = sendBuf[q], chunk'[q] = chunk[q],
         \A h \in Handles : h[1] = q /\ InUse(h)' => InUse(h),
         chunk[q] # NoItem => handle'[chunk[q]].off = handle[chunk[q]].off
  PROVE  ProducerInv(q)'
<1>1. \A i \in 0..MaxSize - 1 : <<q, i>> \in Handles /\ <<q, i>>[1] = q
  BY StageAssumption
<1> QED
  BY <1>1 DEF ProducerInv

LEMMA ConsumerFrame ==
  ASSUME NEW c \in Consumers, ConsumerInv(c), pc'[c] = pc[c], recvBuf'[c] = recvBuf[c]
  PROVE  ConsumerInv(c)'
  BY DEF ConsumerInv

LEMMA Disjoint ==
  /\ \A p \in Producers : p \in QThreads /\ p \notin Consumers
  /\ \A c \in Consumers : c \in QThreads /\ c \notin Producers
  BY StageAssumption

(* The handles of a step that does not touch them.                         *)
LEMMA SameHandles ==
  ASSUME handle' = handle
  PROVE  /\ \A h \in Handles : InUse(h)' <=> InUse(h)
         /\ HandlesInUse' = HandlesInUse
         /\ \A b : Holders(b)' = Holders(b)
  BY DEF InUse, HandlesInUse, Holders

LEMMA SameBuffers ==
  ASSUME BufferInv, UNCHANGED mbVars
  PROVE  BufferInv'
  BY BufferInvNext

(* The number of producers that have terminated.                           *)
Ended == {p \in Producers : pc[p] = "end"}

LEMMA EndedFinite ==
  /\ IsFiniteSet(Ended) /\ Cardinality(Ended) \in Nat /\ Cardinality(Ended) <= NProducers
  /\ Cardinality(Ended) = NProducers => Ended = Producers
<1>1. Ended \subseteq Producers
  BY DEF Ended
<1> QED
  BY <1>1, FS_Subset, FS_CardinalityType, StageAssumption

(* A step inside the loops of the threads.                                 *)
LEMMA SameEnded ==
  ASSUME \A p \in Producers : pc'[p] = "end" <=> pc[p] = "end"
  PROVE  Ended' = Ended
  BY DEF Ended

LEMMA AccessNext ==
  ASSUME StageInv', OneEach(Table', HandlesInUse')
  PROVE  ExclusiveAccess'
<1>1. (StageInv => (ExclusiveAccess <=> OneEach(Table, HandlesInUse)))'
  BY AccessIs, PTL
<1> QED
  BY <1>1 DEF OneEach

(* A chunk is named by its producer and where it begins.                   *)
LEMMA ChunkIs ==
  ASSUME IInv, NEW p \in Producers, chunk[p] # NoItem
  PROVE  /\ chunk[p] \in Handles /\ chunk[p] = <<p, handle[chunk[p]].off>>
         /\ InUse(chunk[p])
<1>1. chunk[p] \in Handles /\ chunk[p] = <<p, handle[chunk[p]].off>>
  BY DEF IInv, StageInv, ProducerInv
<1>2. \E x \in Places : Item(x) = chunk[p]
  BY PlaceKinds, ItemIs
<1> QED
  BY <1>1, <1>2 DEF IInv, ExclusiveAccess

LEMMA ProducerStep ==
  ASSUME IInv, NEW p \in Producers, NEW l \in Labels, Goto(p, l), recvBuf' = recvBuf,
         chunk' \in [Producers -> Handles \cup {NoItem}],
         sendBuf' \in [Producers -> Seq(Handles)],
         \A q \in Producers \ {p} : chunk'[q] = chunk[q] /\ sendBuf'[q] = sendBuf[q],
         \A h \in Handles : h[1] # p => handle'[h] = handle[h],
         ProducerInv(p)', Contents' \in Seq(Handles), nTerminated' = Cardinality(Ended')
  PROVE  StageInv'
<1>1. /\ pc' \in [QThreads -> Labels]
      /\ \A t \in QThreads \ {p} : pc'[t] = pc[t]
  BY Disjoint DEF IInv, StageInv, Goto
<1>2. ASSUME NEW q \in Producers \ {p}
      PROVE  ProducerInv(q)'
  <2>1. ProducerInv(q) /\ pc'[q] = pc[q]
    BY <1>1, Disjoint DEF IInv, StageInv
  <2>2. \A h \in Handles : h[1] = q /\ InUse(h)' => InUse(h)
    BY DEF InUse
  <2>3. chunk[q] # NoItem => handle'[chunk[q]] = handle[chunk[q]]
    <3> SUFFICES ASSUME chunk[q] # NoItem
                 PROVE  handle'[chunk[q]] = handle[chunk[q]]
      OBVIOUS
    <3>1. chunk[q] \in Handles /\ chunk[q][1] = q
      BY ChunkIs
    <3> QED
      BY <3>1
  <2> QED
    BY <2>1, <2>2, <2>3, ProducerFrame
<1>3. ASSUME NEW c \in Consumers
      PROVE  ConsumerInv(c)'
  <2>1. ConsumerInv(c) /\ pc'[c] = pc[c]
    BY <1>1, Disjoint DEF IInv, StageInv
  <2> QED
    BY <2>1, ConsumerFrame
<1>4. \A q \in Producers : ProducerInv(q)'
  BY <1>2
<1>5. recvBuf' \in [Consumers -> Seq(Handles)]
  BY DEF IInv, StageInv
<1> QED
  BY <1>1, <1>3, <1>4, <1>5 DEF StageInv, Ended

LEMMA ConsumerStep ==
  ASSUME IInv, NEW c \in Consumers, NEW l \in Labels, Goto(c, l),
         UNCHANGED <<chunk, sendBuf, nTerminated>>,
         recvBuf' \in [Consumers -> Seq(Handles)],
         \A d \in Consumers \ {c} : recvBuf'[d] = recvBuf[d],
         \A h \in Handles : InUse(h)' => InUse(h),
         \A q \in Producers : chunk[q] # NoItem => handle'[chunk[q]] = handle[chunk[q]],
         ConsumerInv(c)', Contents' \in Seq(Handles)
  PROVE  StageInv'
<1>1. /\ pc' \in [QThreads -> Labels]
      /\ \A t \in QThreads \ {c} : pc'[t] = pc[t]
  BY Disjoint DEF IInv, StageInv, Goto
<1>2. ASSUME NEW q \in Producers
      PROVE  ProducerInv(q)' /\ pc'[q] = pc[q]
  <2>1. ProducerInv(q) /\ pc'[q] = pc[q]
    BY <1>1, Disjoint DEF IInv, StageInv
  <2> QED
    BY <2>1, ProducerFrame
<1>3. ASSUME NEW d \in Consumers \ {c}
      PROVE  ConsumerInv(d)'
  <2>1. ConsumerInv(d) /\ pc'[d] = pc[d]
    BY <1>1, Disjoint DEF IInv, StageInv
  <2> QED
    BY <2>1, ConsumerFrame
<1>4. \A d \in Consumers : ConsumerInv(d)'
  BY <1>3
<1>5. nTerminated' = Cardinality(Ended')
  <2>1. Ended' = Ended
    BY <1>2, SameEnded
  <2> QED
    BY <2>1 DEF IInv, StageInv, Ended
<1>6. /\ chunk' \in [Producers -> Handles \cup {NoItem}]
      /\ sendBuf' \in [Producers -> Seq(Handles)]
  BY DEF IInv, StageInv
<1> QED
  BY <1>1, <1>2, <1>4, <1>5, <1>6 DEF StageInv, Ended

(* A step inside a library, that leaves the program of the threads alone.  *)
LEMMA SameQueues ==
  ASSUME IInv, UNCHANGED stageVars, handle' = handle, BufferInv', QueueTypeOK',
         Contents' = Contents, nTerminated' = nTerminated
  PROVE  IInv'
<1>1. UNCHANGED <<pc, chunk, sendBuf, recvBuf>>
  BY DEF stageVars
<1>2. \A q \in Producers : ProducerInv(q)'
  <2>1. ASSUME NEW q \in Producers
        PROVE  ProducerInv(q)'
    BY <1>1, SameHandles, ProducerFrame DEF IInv, StageInv
  <2> QED
    BY <2>1
<1>3. \A c \in Consumers : ConsumerInv(c)'
  BY <1>1, ConsumerFrame DEF IInv, StageInv
<1>4. StageInv'
  BY <1>1, <1>2, <1>3 DEF IInv, StageInv
<1>5. ExclusiveAccess'
  <2>1. \A x \in Places : Item(x)' = Item(x)
    BY <1>1 DEF Item, Nth
  <2> QED
    BY <2>1, SameHandles DEF IInv, ExclusiveAccess
<1> QED
  BY <1>4, <1>5 DEF IInv

(* A thread that only waits or wakes.                                      *)
LEMMA OnlyWaits ==
  ASSUME IInv, UNCHANGED <<mbVars, stageVars>>, QueueTypeOK',
         Contents' = Contents, nTerminated' = nTerminated
  PROVE  IInv'
  BY SameBuffers, SameQueues DEF IInv, mbVars

-----------------------------------------------------------------------------
(* The producers *)

LEMMA ReadInputKeeps ==
  ASSUME IInv, NEW p \in Producers, ReadInput(p)
  PROVE  IInv'
<1> DEFINE h == <<p, 0>>
<1>1. /\ pc[p] = "read" /\ Create(h, p, MaxSize)
      /\ chunk' = [chunk EXCEPT ![p] = h]
      /\ Goto(p, IF ChunkSize[p] < MaxSize THEN "shrink" ELSE "cut")
      /\ UNCHANGED <<queueVars, sendBuf, recvBuf>>
  BY DEF ReadInput
<1>2. /\ h \in Handles /\ h # NoItem /\ p \in Blocks /\ MaxSize \in 1..MaxSize
      /\ PerInsert \in Nat \ {0}
  BY StageAssumption, MBufferAssumption, QueueAssumption
<1>3. BufferInv'
  BY <1>1, <1>2, CreateKeeps DEF IInv
<1>4. QueueTypeOK' /\ Contents' = Contents /\ nTerminated' = nTerminated
  BY <1>1, SameRing DEF IInv, QueueTypeOK, queueVars
<1>5. /\ ProducerInv(p) /\ chunk[p] = NoItem /\ sendBuf[p] = <<>>
      /\ \A g \in Handles : g[1] = p => ~InUse(g)
  <2>1. ProducerInv(p) /\ chunk[p] = NoItem /\ sendBuf[p] = <<>>
    BY <1>1 DEF IInv, StageInv, ProducerInv
  <2>2. ASSUME NEW g \in Handles, g[1] = p
        PROVE  ~InUse(g)
    <3>1. PICK i \in 0..MaxSize - 1 : g = <<p, i>>
      BY <2>2, StageAssumption
    <3> QED
      BY <1>1, <2>1, <3>1 DEF ProducerInv
  <2> QED
    BY <2>1, <2>2
<1>6. /\ ~InUse(h)
      /\ handle'[h] = [mcb |-> p, move |-> moves[p], off |-> 0, n |-> MaxSize]
      /\ handle'[h] # None
      /\ \A g \in Handles \ {h} : handle'[g] = handle[g]
  <2>1. /\ ~InUse(h)
        /\ handle' = [handle EXCEPT ![h] = [mcb |-> p, move |-> moves[p], off |-> 0, n |-> MaxSize]]
    BY <1>1 DEF Create
  <2>2. [mcb |-> p, move |-> moves[p], off |-> 0, n |-> MaxSize] \in Fields
    BY <1>2, MBufferAssumption DEF IInv, BufferInv, MBufferTypeOK, Fields
  <2> QED
    BY <1>2, <2>1, <2>2, NoneIsNoHandle DEF IInv, BufferInv, MBufferTypeOK
<1>7. /\ chunk' \in [Producers -> Handles \cup {NoItem}] /\ chunk'[p] = h
      /\ \A q \in Producers \ {p} : chunk'[q] = chunk[q]
  BY <1>1, <1>2 DEF IInv, StageInv
<1>8. PICK l \in {"shrink", "cut"} : Goto(p, l) /\ l \in Labels
  BY <1>1 DEF Labels
<1>9. pc'[p] = l /\ sendBuf'[p] = <<>>
  BY <1>1, <1>5, <1>8, Disjoint DEF IInv, StageInv, Goto
<1>10. ProducerInv(p)'
  <2>1. \A i \in 0..MaxSize - 1 : InUse(<<p, i>>)' => i = 0
    <3>1. ASSUME NEW i \in 0..MaxSize - 1, i # 0
          PROVE  ~InUse(<<p, i>>)'
      <4>1. <<p, i>> \in Handles /\ <<p, i>> # h /\ <<p, i>>[1] = p
        BY <3>1, StageAssumption
      <4> QED
        BY <1>5, <1>6, <4>1 DEF InUse
    <3> QED
      BY <3>1
  <2>2. chunk'[p] = <<p, handle'[chunk'[p]].off>> /\ chunk'[p][2] = 0
    BY <1>6, <1>7
  <2> QED
    BY <1>2, <1>7, <1>8, <1>9, <2>1, <2>2, EmptySeq DEF ProducerInv
<1>11. StageInv'
  <2>1. \A g \in Handles : g[1] # p => handle'[g] = handle[g]
    BY <1>6
  <2>2. Ended' = Ended
    BY <1>1, <1>8, Disjoint DEF IInv, StageInv, Goto, Ended
  <2>3. Contents' \in Seq(Handles) /\ nTerminated' = Cardinality(Ended')
    BY <1>4, <2>2 DEF IInv, StageInv, Ended
  <2>4. sendBuf' \in [Producers -> Seq(Handles)] /\ recvBuf' = recvBuf
        /\ \A q \in Producers \ {p} : chunk'[q] = chunk[q] /\ sendBuf'[q] = sendBuf[q]
    BY <1>1, <1>7 DEF IInv, StageInv
  <2> QED
    BY <1>7, <1>8, <1>10, <2>1, <2>3, <2>4, ProducerStep
<1>12. ExclusiveAccess'
  <2> DEFINE z == <<"chunk", p, 1>>
  <2>1. z \in Places /\ Table[z] = NoItem /\ Table'[z] = h
    BY <1>5, <1>7, PlaceKinds, TableIs, TableIsNext
  <2>2. ASSUME NEW x \in Places \ {z}
        PROVE  Table'[x] = Table[x]
    <3>1. CASE \E q \in Producers : x = <<"chunk", q, 1>>
      <4>1. PICK q \in Producers : x = <<"chunk", q, 1>>
        BY <3>1
      <4>2. q # p
        BY <2>2, <4>1
      <4> QED
        BY <1>7, <4>1, <4>2, TableIs, TableIsNext
    <3>2. CASE ~\E q \in Producers : x = <<"chunk", q, 1>>
      BY <1>1, <1>4, <3>2, PlaceKinds, TableIs, TableIsNext
    <3> QED
      BY <3>1, <3>2
  <2>3. HandlesInUse' = HandlesInUse \cup {h} /\ h \notin HandlesInUse
    BY <1>2, <1>6 DEF HandlesInUse, InUse
  <2>4. OneEach(Table, HandlesInUse)
    BY AccessIs DEF IInv
  <2>5. OneEach(Table', HandlesInUse \cup {h})
    BY <1>2, <2>1, <2>2, <2>3, <2>4, Gained
  <2> QED
    BY <1>11, <2>3, <2>5, AccessNext
<1> QED
  BY <1>3, <1>4, <1>11, <1>12 DEF IInv

LEMMA ShrinkKeeps ==
  ASSUME IInv, NEW p \in Producers, Shrink(p)
  PROVE  IInv'
<1> DEFINE h == chunk[p]
<1>1. /\ pc[p] = "shrink" /\ Realloc(h, ChunkSize[p]) /\ Goto(p, "cut")
      /\ UNCHANGED <<queueVars, chunk, sendBuf, recvBuf>>
  BY DEF Shrink
<1>2. /\ ProducerInv(p) /\ h = <<p, 0>> /\ h # NoItem /\ h \in Handles /\ InUse(h)
      /\ sendBuf[p] = <<>>
  <2>1. ProducerInv(p) /\ h = <<p, 0>> /\ h # NoItem /\ sendBuf[p] = <<>>
    BY <1>1 DEF IInv, StageInv, ProducerInv
  <2> QED
    BY <2>1, ChunkIs
<1>3. BufferInv'
  BY <1>1, <1>2, StageAssumption, ReallocKeeps DEF IInv
<1>4. QueueTypeOK' /\ Contents' = Contents /\ nTerminated' = nTerminated
  BY <1>1, SameRing DEF IInv, QueueTypeOK, queueVars
<1>5. /\ handle'[h].off = 0 /\ handle'[h] # None
      /\ \A g \in Handles \ {h} : handle'[g] = handle[g]
  <2>1. PICK m \in 0..MaxMoves :
          handle' = [handle EXCEPT ![h] = [mcb |-> handle[h].mcb, move |-> m, off |-> 0,
                                           n |-> ChunkSize[p]]]
    BY <1>1 DEF Realloc
  <2>2. handle[h].mcb \in Blocks
    BY <1>2, HandleInUse DEF IInv
  <2>3. [mcb |-> handle[h].mcb, move |-> m, off |-> 0, n |-> ChunkSize[p]] \in Fields
    BY <2>2, MBufferAssumption, StageAssumption DEF Fields
  <2> QED
    BY <1>2, <2>1, <2>3, NoneIsNoHandle DEF IInv, BufferInv, MBufferTypeOK
<1>6. \A g \in Handles : InUse(g)' <=> InUse(g)
  BY <1>2, <1>5 DEF InUse
<1>7. pc'[p] = "cut" /\ sendBuf'[p] = <<>> /\ chunk'[p] = h
  BY <1>1, <1>2, Disjoint DEF IInv, StageInv, Goto
<1>8. ProducerInv(p)'
  <2>1. \A i \in 0..MaxSize - 1 : <<p, i>> \in Handles
    BY StageAssumption
  <2> QED
    BY <1>1, <1>2, <1>5, <1>6, <1>7, <2>1, StageAssumption, EmptySeq DEF ProducerInv
<1>9. StageInv'
  <2>1. \A g \in Handles : g[1] # p => handle'[g] = handle[g]
    BY <1>2, <1>5
  <2>2. Ended' = Ended
    BY <1>1, Disjoint DEF IInv, StageInv, Goto, Ended
  <2>3. Contents' \in Seq(Handles) /\ nTerminated' = Cardinality(Ended')
    BY <1>4, <2>2 DEF IInv, StageInv, Ended
  <2>4. /\ chunk' \in [Producers -> Handles \cup {NoItem}]
        /\ sendBuf' \in [Producers -> Seq(Handles)] /\ recvBuf' = recvBuf
        /\ \A q \in Producers \ {p} : chunk'[q] = chunk[q] /\ sendBuf'[q] = sendBuf[q]
    BY <1>1 DEF IInv, StageInv
  <2>5. "cut" \in Labels /\ Goto(p, "cut")
    BY <1>1 DEF Labels
  <2> QED
    BY <1>8, <2>1, <2>3, <2>4, <2>5, ProducerStep
<1>10. ExclusiveAccess'
  <2>1. \A x \in Places : Item(x)' = Item(x)
    BY <1>1, <1>4 DEF Item, Nth
  <2> QED
    BY <1>6, <2>1 DEF IInv, ExclusiveAccess
<1> QED
  BY <1>3, <1>4, <1>9, <1>10 DEF IInv

(* The chunk, or the piece before an anchor, goes to the send buffer.      *)
LEMMA PieceMoves ==
  ASSUME IInv, NEW p \in Producers, chunk[p] # NoItem, NEW j \in 1..PerInsert,
         j = Len(sendBuf[p]) + 1, NEW F,
         F[<<"chunk", p, 1>>] = NoItem, F[<<"send", p, j>>] = chunk[p],
         \A x \in Places \ {<<"chunk", p, 1>>, <<"send", p, j>>} : F[x] = Table[x]
  PROVE  OneEach(F, HandlesInUse)
<1> DEFINE y == <<"chunk", p, 1>>
           z == <<"send", p, j>>
           Src == [x \in Places |-> IF x = z THEN y ELSE x]
<1>1. y \in Places /\ z \in Places /\ y # z
  BY PlaceKinds
<1>2. Table[y] = chunk[p] /\ Table[z] = NoItem
  <2>1. ~(j <= Len(sendBuf[p]))
    BY DEF IInv, StageInv
  <2> QED
    BY <2>1, TableIs DEF Nth
<1> HIDE DEF y, z
<1>3. F[y] = NoItem /\ F[z] = chunk[p] /\ \A x \in Places \ {y, z} : F[x] = Table[x]
  BY DEF y, z
<1>4. OneEach(Table, HandlesInUse)
  BY AccessIs DEF IInv
<1>5. \A x \in Places : Src[x] = IF x = z THEN y ELSE x
  OBVIOUS
<1> HIDE DEF Src
<1>6. \A x \in Places : F[x] # NoItem => Src[x] \in Places /\ F[x] = Table[Src[x]]
  BY <1>1, <1>2, <1>3, <1>5
<1>7. \A x, w \in Places : F[x] # NoItem /\ F[w] # NoItem /\ Src[x] = Src[w] => x = w
  BY <1>1, <1>3, <1>5
<1>8. \A w \in Places : Table[w] # NoItem => \E x \in Places : Src[x] = w /\ F[x] = Table[w]
  BY <1>1, <1>2, <1>3, <1>5
<1> QED
  BY <1>4, <1>6, <1>7, <1>8, Moved

LEMMA CutKeeps ==
  ASSUME IInv, NEW p \in Producers, Cut(p)
  PROVE  IInv'
<1> DEFINE h == chunk[p]
           n == Len(sendBuf[p])
<1>1. PICK s \in 1..handle[h].n - 1 :
        /\ Split(h, <<p, handle[h].off + s>>, s)
        /\ chunk' = [chunk EXCEPT ![p] = <<p, handle[h].off + s>>]
  BY DEF Cut
<1> DEFINE g == <<p, handle[h].off + s>>
<1>2. /\ pc[p] = "cut" /\ sendBuf' = [sendBuf EXCEPT ![p] = Append(sendBuf[p], h)]
      /\ Goto(p, IF Len(sendBuf'[p]) = PerInsert THEN "enqueue" ELSE "cut")
      /\ UNCHANGED <<queueVars, recvBuf>>
  BY DEF Cut
<1>3. /\ ProducerInv(p) /\ h # NoItem /\ h \in Handles /\ InUse(h) /\ h = <<p, handle[h].off>>
      /\ sendBuf[p] \in Seq(Handles) /\ n < PerInsert /\ n \in Nat /\ PerInsert \in Nat
  <2>1. ProducerInv(p) /\ h # NoItem /\ sendBuf[p] \in Seq(Handles) /\ n < PerInsert
    BY <1>2 DEF IInv, StageInv, ProducerInv
  <2> QED
    BY <2>1, ChunkIs, StageAssumption
<1>4. /\ handle[h].off \in 0..MaxSize /\ handle[h].n \in 1..MaxSize
      /\ handle[h].off + handle[h].n <= MaxSize /\ MaxSize \in Nat
  <2>1. /\ handle[h].off \in 0..MaxSize /\ handle[h].n \in 1..MaxSize
        /\ handle[h].off + handle[h].n <= size[handle[h].mcb]
        /\ handle[h].mcb \in Blocks
    BY <1>3, HandleInUse DEF IInv
  <2>2. size[handle[h].mcb] \in 0..MaxSize
    BY <2>1 DEF IInv, BufferInv, MBufferTypeOK
  <2> QED
    BY <2>1, <2>2, MBufferAssumption
<1>5. g \in Handles /\ g # NoItem /\ g # h /\ s \in 1..MaxSize
  <2>1. handle[h].off + s \in 0..MaxSize - 1
    BY <1>4
  <2>2. g \in Handles
    BY <2>1, StageAssumption
  <2>3. g # h
    BY <1>1, <1>3, <2>2 DEF Split
  <2> QED
    BY <1>4, <2>2, <2>3, StageAssumption, QueueAssumption
<1>6. BufferInv'
  BY <1>1, <1>3, <1>5, SplitKeeps DEF IInv
<1>7. QueueTypeOK' /\ Contents' = Contents /\ nTerminated' = nTerminated
  BY <1>2, SameRing DEF IInv, QueueTypeOK, queueVars
<1>8. /\ ~InUse(g) /\ handle'[g] # None /\ handle'[g].off = handle[h].off + s
      /\ handle'[h] # None
      /\ \A k \in Handles \ {g, h} : handle'[k] = handle[k]
  <2>1. \A k \in Handles :
          handle'[k] = IF k = g THEN [mcb |-> handle[h].mcb, move |-> handle[h].move,
                                      off |-> handle[h].off + s, n |-> handle[h].n - s]
                       ELSE IF k = h THEN [mcb |-> handle[h].mcb, move |-> handle[h].move,
                                           off |-> handle[h].off, n |-> s]
                       ELSE handle[k]
    <3>1. PICK t \in 1..MaxSize : t = s
      BY <1>5
    <3>2. BufferInv /\ h \in Handles /\ g \in Handles /\ Split(h, g, t)
      BY <1>1, <1>3, <1>5, <3>1 DEF IInv
    <3> HIDE DEF h, g
    <3>3. \A k \in Handles :
            handle'[k] = IF k = g THEN [mcb |-> handle[h].mcb, move |-> handle[h].move,
                                        off |-> handle[h].off + t, n |-> handle[h].n - t]
                         ELSE IF k = h THEN [mcb |-> handle[h].mcb, move |-> handle[h].move,
                                             off |-> handle[h].off, n |-> t]
                         ELSE handle[k]
      BY <3>2, SplitIs
    <3> QED
      BY <3>1, <3>3, Zenon
  <2>2. handle[h].mcb \in Blocks /\ handle[h].move \in 0..MaxMoves
    BY <1>3, HandleInUse DEF IInv, Fields
  <2>3. /\ [mcb |-> handle[h].mcb, move |-> handle[h].move,
            off |-> handle[h].off + s, n |-> handle[h].n - s] \in Fields
        /\ [mcb |-> handle[h].mcb, move |-> handle[h].move,
            off |-> handle[h].off, n |-> s] \in Fields
    BY <1>4, <2>2 DEF Fields
  <2> QED
    <3>1. ~InUse(g)
      BY <1>1 DEF Split
    <3>2. handle'[g] # None /\ handle'[h] # None
      BY <1>3, <1>5, <2>1, <2>3, NoneIsNoHandle
    <3>3. handle'[g].off = handle[h].off + s
      BY <1>5, <2>1
    <3>4. \A k \in Handles \ {g, h} : handle'[k] = handle[k]
      BY <2>1
    <3> QED
      BY <3>1, <3>2, <3>3, <3>4
<1>9. \A k \in Handles : InUse(k)' <=> InUse(k) \/ k = g
  BY <1>3, <1>8 DEF InUse
<1>10. /\ chunk' \in [Producers -> Handles \cup {NoItem}] /\ chunk'[p] = g
       /\ \A q \in Producers \ {p} : chunk'[q] = chunk[q]
  BY <1>1, <1>5 DEF IInv, StageInv
<1>11. /\ sendBuf' \in [Producers -> Seq(Handles)]
       /\ sendBuf'[p] = Append(sendBuf[p], h)
       /\ \A q \in Producers \ {p} : sendBuf'[q] = sendBuf[q]
       /\ Len(sendBuf'[p]) = n + 1 /\ sendBuf'[p] # <<>>
       /\ \A i \in 1..n : sendBuf'[p][i] = sendBuf[p][i]
       /\ sendBuf'[p][n + 1] = h
  BY <1>2, <1>3, AppendProperties DEF IInv, StageInv
<1>12. PICK l \in {"enqueue", "cut"} :
         Goto(p, l) /\ l \in Labels /\ l = IF n + 1 = PerInsert THEN "enqueue" ELSE "cut"
  BY <1>2, <1>11 DEF Labels
<1>13. pc'[p] = l
  BY <1>12, Disjoint DEF IInv, StageInv, Goto
<1>14. ProducerInv(p)'
  <2>1. \A i \in 0..MaxSize - 1 : InUse(<<p, i>>)' => i <= g[2]
    <3>1. ASSUME NEW i \in 0..MaxSize - 1, InUse(<<p, i>>)'
          PROVE  i <= g[2]
      <4>1. <<p, i>> \in Handles
        BY StageAssumption
      <4>2. CASE <<p, i>> = g
        BY <4>2
      <4>3. CASE InUse(<<p, i>>)
        <5>1. i <= h[2] /\ h[2] = handle[h].off
          BY <1>3, <4>3 DEF ProducerInv
        <5> QED
          BY <1>4, <5>1
      <4> QED
        BY <1>9, <3>1, <4>1, <4>2, <4>3
    <3> QED
      BY <3>1
  <2>2. chunk'[p] = <<p, handle'[chunk'[p]].off>> /\ chunk'[p] # NoItem
    BY <1>5, <1>8, <1>10
  <2>3. sendBuf'[p] \in Seq(Handles) /\ Len(sendBuf'[p]) <= PerInsert
        /\ (pc'[p] = "cut" => Len(sendBuf'[p]) < PerInsert)
        /\ (pc'[p] = "enqueue" => Len(sendBuf'[p]) = PerInsert)
    BY <1>3, <1>11, <1>12, <1>13
  <2> QED
    BY <1>10, <1>11, <1>12, <1>13, <2>1, <2>2, <2>3 DEF ProducerInv
<1>15. StageInv'
  <2>1. \A k \in Handles : k[1] # p => handle'[k] = handle[k]
    BY <1>3, <1>8
  <2>2. Ended' = Ended
    BY <1>2, <1>12, Disjoint DEF IInv, StageInv, Goto, Ended
  <2>3. Contents' \in Seq(Handles) /\ nTerminated' = Cardinality(Ended')
    BY <1>7, <2>2 DEF IInv, StageInv, Ended
  <2>4. recvBuf' = recvBuf
        /\ \A q \in Producers \ {p} : chunk'[q] = chunk[q] /\ sendBuf'[q] = sendBuf[q]
    BY <1>2, <1>10, <1>11
  <2> QED
    BY <1>10, <1>11, <1>12, <1>14, <2>1, <2>3, <2>4, ProducerStep
<1>16. ExclusiveAccess'
  <2> DEFINE y == <<"chunk", p, 1>>
             z == <<"send", p, n + 1>>
             F == [x \in Places |-> IF x = y THEN NoItem ELSE Table'[x]]
  <2>1. n + 1 \in 1..PerInsert
    BY <1>3
  <2>2. y \in Places /\ z \in Places /\ y # z
    BY <2>1, PlaceKinds
  <2>3. Table'[y] = g /\ Table'[z] = h
    BY <1>3, <1>10, <1>11, <2>1, TableIsNext DEF Nth
  <2>4. ASSUME NEW x \in Places \ {y, z}
        PROVE  Table'[x] = Table[x]
    <3>1. CASE \E q \in Producers : x = <<"chunk", q, 1>>
      <4>1. PICK q \in Producers : x = <<"chunk", q, 1>>
        BY <3>1
      <4>2. q # p
        BY <2>4, <4>1
      <4> QED
        BY <1>10, <4>1, <4>2, TableIs, TableIsNext
    <3>2. CASE \E q \in Producers, i \in 1..PerInsert : x = <<"send", q, i>>
      <4>1. PICK q \in Producers, i \in 1..PerInsert : x = <<"send", q, i>>
        BY <3>2
      <4>2. Nth(sendBuf'[q], i) = Nth(sendBuf[q], i)
        <5>1. CASE q # p
          BY <1>11, <5>1
        <5>2. CASE q = p
          <6>1. i # n + 1 /\ i \in Nat
            BY <2>4, <4>1, <5>2
          <6>2. (i <= n + 1 <=> i <= n) /\ (i <= n => i \in 1..n)
            BY <1>3, <4>1, <6>1
          <6> QED
            BY <1>11, <5>2, <6>2 DEF Nth
        <5> QED
          BY <5>1, <5>2
      <4> QED
        BY <4>1, <4>2, TableIs, TableIsNext
    <3>3. CASE ~\E q \in Producers : \/ x = <<"chunk", q, 1>>
                                     \/ \E i \in 1..PerInsert : x = <<"send", q, i>>
      BY <1>2, <1>7, <3>3, PlaceKinds, TableIs, TableIsNext
    <3> QED
      BY <3>1, <3>2, <3>3
  <2>5. F[y] = NoItem /\ \A x \in Places \ {y} : F[x] = Table'[x]
    BY <2>2
  <2> HIDE DEF F
  <2>6. OneEach(F, HandlesInUse)
    <3>1. F[z] = chunk[p] /\ \A x \in Places \ {y, z} : F[x] = Table[x]
      BY <2>2, <2>3, <2>4, <2>5
    <3> QED
      BY <1>3, <2>1, <2>5, <3>1, PieceMoves
  <2>7. HandlesInUse' = HandlesInUse \cup {g} /\ g \notin HandlesInUse
    BY <1>5, <1>8, <1>9 DEF HandlesInUse
  <2>8. OneEach(Table', HandlesInUse \cup {g})
    BY <1>5, <2>2, <2>3, <2>5, <2>6, <2>7, Gained
  <2> QED
    BY <1>15, <2>7, <2>8, AccessNext
<1> QED
  BY <1>6, <1>7, <1>15, <1>16 DEF IInv

LEMMA LastPieceKeeps ==
  ASSUME IInv, NEW p \in Producers, LastPiece(p)
  PROVE  IInv'
<1> DEFINE h == chunk[p]
           n == Len(sendBuf[p])
<1>1. /\ pc[p] = "cut" /\ sendBuf' = [sendBuf EXCEPT ![p] = Append(sendBuf[p], h)]
      /\ chunk' = [chunk EXCEPT ![p] = NoItem] /\ Goto(p, "enqueue")
      /\ UNCHANGED <<queueVars, mbVars, recvBuf>>
  BY DEF LastPiece
<1>2. /\ ProducerInv(p) /\ h # NoItem /\ h \in Handles
      /\ sendBuf[p] \in Seq(Handles) /\ n < PerInsert /\ n \in Nat /\ PerInsert \in Nat
  <2>1. ProducerInv(p) /\ h # NoItem /\ sendBuf[p] \in Seq(Handles) /\ n < PerInsert
    BY <1>1 DEF IInv, StageInv, ProducerInv
  <2> QED
    BY <2>1, ChunkIs, StageAssumption
<1>3. BufferInv' /\ handle' = handle
  BY <1>1, SameBuffers DEF IInv, mbVars
<1>4. QueueTypeOK' /\ Contents' = Contents /\ nTerminated' = nTerminated
  BY <1>1, SameRing DEF IInv, QueueTypeOK, queueVars
<1>5. /\ chunk' \in [Producers -> Handles \cup {NoItem}] /\ chunk'[p] = NoItem
      /\ \A q \in Producers \ {p} : chunk'[q] = chunk[q]
  BY <1>1 DEF IInv, StageInv
<1>6. /\ sendBuf' \in [Producers -> Seq(Handles)]
      /\ sendBuf'[p] = Append(sendBuf[p], h)
      /\ \A q \in Producers \ {p} : sendBuf'[q] = sendBuf[q]
      /\ Len(sendBuf'[p]) = n + 1 /\ sendBuf'[p] # <<>>
      /\ \A i \in 1..n : sendBuf'[p][i] = sendBuf[p][i]
      /\ sendBuf'[p][n + 1] = h
  <2>1. /\ Append(sendBuf[p], h) \in Seq(Handles) /\ Append(sendBuf[p], h) # <<>>
        /\ Len(Append(sendBuf[p], h)) = n + 1
        /\ \A i \in 1..n : Append(sendBuf[p], h)[i] = sendBuf[p][i]
        /\ Append(sendBuf[p], h)[n + 1] = h
    BY <1>2, AppendProperties
  <2> QED
    BY <1>1, <2>1 DEF IInv, StageInv
<1>7. pc'[p] = "enqueue" /\ "enqueue" \in Labels
  BY <1>1, Disjoint DEF IInv, StageInv, Goto, Labels
<1>8. ProducerInv(p)'
  <2>1. \A i \in 0..MaxSize - 1 : <<p, i>> \in Handles
    BY StageAssumption
  <2>2. n + 1 <= PerInsert
    BY <1>2
  <2> QED
    BY <1>3, <1>5, <1>6, <1>7, <2>1, <2>2 DEF ProducerInv
<1>9. StageInv'
  <2>1. Ended' = Ended
    BY <1>1, Disjoint DEF IInv, StageInv, Goto, Ended
  <2>2. Contents' \in Seq(Handles) /\ nTerminated' = Cardinality(Ended')
    BY <1>4, <2>1 DEF IInv, StageInv, Ended
  <2>3. /\ recvBuf' = recvBuf
        /\ \A q \in Producers \ {p} : chunk'[q] = chunk[q] /\ sendBuf'[q] = sendBuf[q]
        /\ \A k \in Handles : k[1] # p => handle'[k] = handle[k]
        /\ Goto(p, "enqueue")
    BY <1>1, <1>3, <1>5, <1>6
  <2> QED
    BY <1>5, <1>6, <1>7, <1>8, <2>2, <2>3, ProducerStep
<1>10. ExclusiveAccess'
  <2> DEFINE y == <<"chunk", p, 1>>
             z == <<"send", p, n + 1>>
  <2>1. n + 1 \in 1..PerInsert
    BY <1>2
  <2>2. y \in Places /\ z \in Places
    BY <2>1, PlaceKinds
  <2>3. Table'[y] = NoItem /\ Table'[z] = h
    BY <1>2, <1>5, <1>6, <2>1, TableIsNext DEF Nth
  <2>4. ASSUME NEW x \in Places \ {y, z}
        PROVE  Table'[x] = Table[x]
    <3>1. CASE \E q \in Producers : x = <<"chunk", q, 1>>
      <4>1. PICK q \in Producers : x = <<"chunk", q, 1>>
        BY <3>1
      <4>2. q # p
        BY <2>4, <4>1
      <4> QED
        BY <1>5, <4>1, <4>2, TableIs, TableIsNext
    <3>2. CASE \E q \in Producers, i \in 1..PerInsert : x = <<"send", q, i>>
      <4>1. PICK q \in Producers, i \in 1..PerInsert : x = <<"send", q, i>>
        BY <3>2
      <4>2. Nth(sendBuf'[q], i) = Nth(sendBuf[q], i)
        <5>1. CASE q # p
          BY <1>6, <5>1
        <5>2. CASE q = p
          <6>1. i # n + 1 /\ i \in Nat
            BY <2>4, <4>1, <5>2
          <6>2. (i <= n + 1 <=> i <= n) /\ (i <= n => i \in 1..n)
            BY <1>2, <4>1, <6>1
          <6> QED
            BY <1>6, <5>2, <6>2 DEF Nth
        <5> QED
          BY <5>1, <5>2
      <4> QED
        BY <4>1, <4>2, TableIs, TableIsNext
    <3>3. CASE ~\E q \in Producers : \/ x = <<"chunk", q, 1>>
                                     \/ \E i \in 1..PerInsert : x = <<"send", q, i>>
      BY <1>1, <1>4, <3>3, PlaceKinds, TableIs, TableIsNext
    <3> QED
      BY <3>1, <3>2, <3>3
  <2>5. OneEach(Table', HandlesInUse)
    BY <1>2, <2>1, <2>3, <2>4, PieceMoves
  <2> QED
    BY <1>3, <1>9, <2>5, SameHandles, AccessNext
<1> QED
  BY <1>3, <1>4, <1>9, <1>10 DEF IInv

(* Items that move to other places, and back.                              *)
LEMMA Shuffled ==
  ASSUME NEW F, NEW G, NEW U, NEW Src, NEW Back, OneEach(F, U),
         \A x \in Places : G[x] # NoItem =>
           Src[x] \in Places /\ F[Src[x]] = G[x] /\ Back[Src[x]] = x,
         \A y \in Places : F[y] # NoItem => Back[y] \in Places /\ G[Back[y]] = F[y]
  PROVE  OneEach(G, U)
<1>1. \A x, y \in Places : G[x] = G[y] /\ G[x] # NoItem => x = y
  BY DEF OneEach
<1>2. ASSUME NEW h, h # NoItem
      PROVE  (\E x \in Places : G[x] = h) <=> (\E y \in Places : F[y] = h)
  BY <1>2
<1> QED
  BY <1>1, <1>2 DEF OneEach

LEMMA EnqueueBatchKeeps ==
  ASSUME IInv, NEW p \in Producers, EnqueueBatch(p)
  PROVE  IInv'
<1> DEFINE b == sendBuf[p]
<1>1. /\ pc[p] = "enqueue" /\ Enqueue(p, b, PerInsert)
      /\ sendBuf' = [sendBuf EXCEPT ![p] = SubSeq(b, NumToEnqueue(b, PerInsert) + 1, Len(b))]
      /\ Goto(p, IF chunk[p] # NoItem THEN "cut"
                 ELSE IF sendBuf'[p] # <<>> THEN "enqueue" ELSE "terminate")
      /\ UNCHANGED <<mbVars, chunk, recvBuf>>
  BY DEF EnqueueBatch
<1>2. /\ ProducerInv(p) /\ b \in Seq(Handles) /\ b # <<>> /\ Len(b) <= PerInsert
      /\ chunk[p] # NoItem => Len(b) = PerInsert
  BY <1>1 DEF IInv, StageInv, ProducerInv
<1>3. PICK n \in Nat \ {0} : n = Len(b) /\ n <= PerInsert
  BY <1>2, EmptySeq
<1>4. PerInsert \in Nat \ {0} /\ QueueSize \in Nat \ {0} /\ p \in QThreads
  BY StageAssumption, QueueAssumption, Disjoint
<1>5. PICK u \in 0..QueueSize : u = Used
  BY UsedIs DEF IInv
<1>6. PICK k \in 1..n : k = NumToEnqueue(b, PerInsert) /\ u + k <= QueueSize
  BY <1>1, <1>2, <1>3, <1>4, <1>5, EnqueueKeeps DEF IInv
<1>7. /\ QueueTypeOK' /\ nTerminated' = nTerminated
      /\ Contents' = Contents \o SubSeq(b, 1, k) /\ Used' = u + k
  BY <1>1, <1>2, <1>4, <1>5, <1>6, EnqueueKeeps DEF IInv
<1>8. BufferInv' /\ handle' = handle
  BY <1>1, SameBuffers DEF IInv, mbVars
<1>9. /\ SubSeq(b, 1, k) \in Seq(Handles) /\ Len(SubSeq(b, 1, k)) = k
      /\ \A i \in 1..k : SubSeq(b, 1, k)[i] = b[i]
      /\ SubSeq(b, k + 1, n) \in Seq(Handles) /\ Len(SubSeq(b, k + 1, n)) = n - k
      /\ \A i \in 1..n - k : SubSeq(b, k + 1, n)[i] = b[k + i]
  BY <1>2, <1>3
<1>10. /\ Contents \in Seq(Handles) /\ Len(Contents) = u
       /\ Contents' \in Seq(Handles) /\ Len(Contents') = u + k
       /\ \A i \in 1..u : Contents'[i] = Contents[i]
       /\ \A i \in u + 1..u + k : Contents'[i] = b[i - u]
  <2>1. Contents \in Seq(Handles) /\ Len(Contents) = u
    BY <1>5, ContentsAre DEF IInv, StageInv
  <2>2. /\ Contents' \in Seq(Handles) /\ Len(Contents') = u + k
        /\ \A i \in 1..u + k : Contents'[i] = IF i <= u THEN Contents[i] ELSE SubSeq(b, 1, k)[i - u]
    <3>1. PICK c \in Seq(Handles) : c = Contents /\ Len(c) = u
      BY <2>1
    <3>2. PICK r \in Seq(Handles) : r = SubSeq(b, 1, k) /\ Len(r) = k
      BY <1>9
    <3>3. /\ c \o r \in Seq(Handles) /\ Len(c \o r) = u + k
          /\ \A i \in 1..u + k : (c \o r)[i] = IF i <= u THEN c[i] ELSE r[i - u]
      <4>1. /\ c \o r \in Seq(Handles) /\ Len(c \o r) = Len(c) + Len(r)
            /\ \A i \in 1..Len(c) + Len(r) : (c \o r)[i] = IF i <= Len(c) THEN c[i] ELSE r[i - Len(c)]
        BY ConcatProperties
      <4> QED
        BY <3>1, <3>2, <4>1
    <3> QED
      BY <1>7, <3>1, <3>2, <3>3
  <2>3. ASSUME NEW i \in u + 1..u + k
        PROVE  Contents'[i] = b[i - u]
    <3>1. i \in 1..u + k /\ ~(i <= u) /\ i - u \in 1..k
      OBVIOUS
    <3> QED
      BY <1>9, <2>2, <3>1
  <2> QED
    BY <2>1, <2>2, <2>3
<1>11. /\ sendBuf' \in [Producers -> Seq(Handles)]
       /\ sendBuf'[p] = SubSeq(b, k + 1, n)
       /\ \A q \in Producers \ {p} : sendBuf'[q] = sendBuf[q]
  BY <1>1, <1>3, <1>6, <1>9 DEF IInv, StageInv
<1>12. PICK l \in {"cut", "enqueue", "terminate"} :
         /\ Goto(p, l) /\ l \in Labels
         /\ l = IF chunk[p] # NoItem THEN "cut"
                ELSE IF sendBuf'[p] # <<>> THEN "enqueue" ELSE "terminate"
  BY <1>1 DEF Labels
<1>13. pc'[p] = l /\ chunk' = chunk
  BY <1>1, <1>12, Disjoint DEF IInv, StageInv, Goto
<1>14. ProducerInv(p)'
  <2>1. \A i \in 0..MaxSize - 1 : <<p, i>> \in Handles
    BY StageAssumption
  <2>2. /\ sendBuf'[p] \in Seq(Handles) /\ Len(sendBuf'[p]) <= PerInsert
        /\ Len(sendBuf'[p]) < PerInsert
    BY <1>3, <1>4, <1>9, <1>11
  <2>3. /\ \A i \in 0..MaxSize - 1 : InUse(<<p, i>>)' => InUse(<<p, i>>)
        /\ chunk'[p] # NoItem => chunk'[p] = <<p, handle'[chunk'[p]].off>>
    BY <1>2, <1>8, <1>13, <2>1, SameHandles DEF ProducerInv
  <2>4. /\ pc'[p] \in {"cut", "enqueue", "terminate"}
        /\ pc'[p] = "terminate" => chunk'[p] = NoItem /\ sendBuf'[p] = <<>>
        /\ pc'[p] = "enqueue" => chunk'[p] = NoItem /\ sendBuf'[p] # <<>>
        /\ pc'[p] = "cut" => chunk'[p] # NoItem
    BY <1>12, <1>13
  <2> QED
    BY <1>1, <1>2, <1>13, <2>2, <2>3, <2>4 DEF ProducerInv
<1>15. StageInv'
  <2>1. Ended' = Ended
    BY <1>1, <1>12, Disjoint DEF IInv, StageInv, Goto, Ended
  <2>2. nTerminated' = Cardinality(Ended')
    BY <1>7, <2>1 DEF IInv, StageInv, Ended
  <2>3. /\ recvBuf' = recvBuf /\ chunk' \in [Producers -> Handles \cup {NoItem}]
        /\ \A q \in Producers \ {p} : chunk'[q] = chunk[q] /\ sendBuf'[q] = sendBuf[q]
        /\ \A h \in Handles : h[1] # p => handle'[h] = handle[h]
    BY <1>1, <1>8, <1>11 DEF IInv, StageInv
  <2> QED
    BY <1>10, <1>11, <1>12, <1>14, <2>2, <2>3, ProducerStep
<1>16. ExclusiveAccess'
  <2> DEFINE Src == [x \in Places |->
               IF x[1] = "queue" /\ x[3] > u THEN <<"send", p, x[3] - u>>
               ELSE IF x[1] = "send" /\ x[2] = p THEN <<"send", p, x[3] + k>> ELSE x]
             Back == [x \in Places |->
               IF x[1] = "send" /\ x[2] = p
               THEN IF x[3] <= k THEN <<"queue", NoItem, u + x[3]>> ELSE <<"send", p, x[3] - k>>
               ELSE x]
  <2>1. /\ \A q \in Producers : Src[<<"chunk", q, 1>>] = <<"chunk", q, 1>>
        /\ \A q \in Producers, i \in 1..PerInsert :
             Src[<<"send", q, i>>] = IF q = p THEN <<"send", p, i + k>> ELSE <<"send", q, i>>
        /\ \A i \in 1..QueueSize :
             Src[<<"queue", NoItem, i>>] = IF i > u THEN <<"send", p, i - u>>
                                           ELSE <<"queue", NoItem, i>>
        /\ \A c \in Consumers, i \in 1..PerFetch : Src[<<"recv", c, i>>] = <<"recv", c, i>>
    BY PlaceKinds
  <2>2. /\ \A q \in Producers : Back[<<"chunk", q, 1>>] = <<"chunk", q, 1>>
        /\ \A q \in Producers, i \in 1..PerInsert :
             Back[<<"send", q, i>>] = IF q # p THEN <<"send", q, i>>
                                      ELSE IF i <= k THEN <<"queue", NoItem, u + i>>
                                      ELSE <<"send", p, i - k>>
        /\ \A i \in 1..QueueSize : Back[<<"queue", NoItem, i>>] = <<"queue", NoItem, i>>
        /\ \A c \in Consumers, i \in 1..PerFetch : Back[<<"recv", c, i>>] = <<"recv", c, i>>
    BY PlaceKinds
  <2> HIDE DEF Src, Back
  <2>3. ASSUME NEW i \in 1..PerInsert
        PROVE  /\ Table'[<<"send", p, i>>] = IF i <= n - k THEN b[k + i] ELSE NoItem
               /\ Table[<<"send", p, i>>] = IF i <= n THEN b[i] ELSE NoItem
    <3>1. Len(sendBuf'[p]) = n - k
      BY <1>9, <1>11
    <3>2. i <= n - k => sendBuf'[p][i] = b[k + i]
      BY <1>9, <1>11
    <3> QED
      BY <1>3, <3>1, <3>2, TableIs, TableIsNext DEF Nth
  <2>4. ASSUME NEW i \in 1..QueueSize
        PROVE  /\ Table'[<<"queue", NoItem, i>>] =
                    IF i <= u THEN Contents[i] ELSE IF i <= u + k THEN b[i - u] ELSE NoItem
               /\ Table[<<"queue", NoItem, i>>] = IF i <= u THEN Contents[i] ELSE NoItem
    BY <1>10, TableIs, TableIsNext DEF Nth
  <2>5. ASSUME NEW x \in Places, Table'[x] # NoItem
        PROVE  Src[x] \in Places /\ Table[Src[x]] = Table'[x] /\ Back[Src[x]] = x
    <3>1. CASE \E q \in Producers : x = <<"chunk", q, 1>>
      <4>1. PICK q \in Producers : x = <<"chunk", q, 1>>
        BY <3>1
      <4>2. Src[x] = x /\ Back[x] = x
        BY <2>1, <2>2, <4>1
      <4>3. Table'[x] = Table[x]
        BY <1>1, <4>1, TableIs, TableIsNext
      <4> QED
        BY <4>2, <4>3
    <3>2. CASE \E q \in Producers, i \in 1..PerInsert : x = <<"send", q, i>>
      <4>1. PICK q \in Producers, i \in 1..PerInsert : x = <<"send", q, i>>
        BY <3>2
      <4>2. CASE q # p
        <5>1. Src[x] = x /\ Back[x] = x
          BY <2>1, <2>2, <4>1, <4>2
        <5>2. Table'[x] = Table[x]
          BY <1>11, <4>1, <4>2, TableIs, TableIsNext
        <5> QED
          BY <5>1, <5>2
      <4>3. CASE q = p
        <5>1. i <= n - k /\ Table'[x] = b[k + i]
          BY <2>3, <2>5, <4>1, <4>3
        <5>2. i + k \in 1..PerInsert /\ i + k <= n /\ ~(i + k <= k) /\ (i + k) - k = i /\ k + i = i + k
          BY <1>3, <1>4, <5>1
        <5>3. Src[x] = <<"send", p, i + k>> /\ Src[x] \in Places /\ Back[Src[x]] = x
          <6>1. Src[x] = <<"send", p, i + k>>
            BY <2>1, <4>1, <4>3
          <6>2. <<"send", p, i + k>> \in Places
            BY <5>2, PlaceKinds
          <6>3. Back[<<"send", p, i + k>>] = <<"send", p, i>>
            <7>1. PICK j \in 1..PerInsert : j = i + k /\ ~(j <= k) /\ j - k = i
              BY <5>2
            <7>2. Back[<<"send", p, j>>] = <<"send", p, j - k>>
              BY <2>2, <7>1
            <7> QED
              BY <7>1, <7>2
          <6> QED
            BY <4>1, <4>3, <6>1, <6>2, <6>3
        <5>4. Table[Src[x]] = b[i + k]
          BY <2>3, <5>2, <5>3
        <5> QED
          BY <5>1, <5>2, <5>3, <5>4
      <4> QED
        BY <4>2, <4>3
    <3>3. CASE \E i \in 1..QueueSize : x = <<"queue", NoItem, i>>
      <4>1. PICK i \in 1..QueueSize : x = <<"queue", NoItem, i>>
        BY <3>3
      <4>2. CASE i <= u
        <5>1. Src[x] = x /\ Back[x] = x
          <6>1. ~(i > u)
            BY <1>4, <4>2
          <6> QED
            BY <2>1, <2>2, <4>1, <6>1
        <5>2. Table'[x] = Table[x]
          BY <2>4, <4>1, <4>2
        <5> QED
          BY <5>1, <5>2
      <4>3. CASE i > u
        <5>1. i <= u + k /\ Table'[x] = b[i - u]
          BY <2>4, <2>5, <4>1, <4>3
        <5>2. i - u \in 1..PerInsert /\ i - u <= n /\ i - u <= k /\ u + (i - u) = i
          BY <1>3, <1>4, <4>3, <5>1
        <5>3. Src[x] = <<"send", p, i - u>> /\ Src[x] \in Places /\ Back[Src[x]] = x
          <6>1. Src[x] = <<"send", p, i - u>>
            BY <2>1, <4>1, <4>3
          <6>2. <<"send", p, i - u>> \in Places
            BY <5>2, PlaceKinds
          <6>3. Back[<<"send", p, i - u>>] = <<"queue", NoItem, u + (i - u)>>
            BY <2>2, <5>2
          <6> QED
            BY <4>1, <5>2, <6>1, <6>2, <6>3
        <5>4. Table[Src[x]] = b[i - u]
          BY <2>3, <5>2, <5>3
        <5> QED
          BY <5>1, <5>3, <5>4
      <4> QED
        BY <4>2, <4>3
    <3>4. CASE \E c \in Consumers, i \in 1..PerFetch : x = <<"recv", c, i>>
      <4>1. PICK c \in Consumers, i \in 1..PerFetch : x = <<"recv", c, i>>
        BY <3>4
      <4>2. Src[x] = x /\ Back[x] = x
        BY <2>1, <2>2, <4>1
      <4>3. Table'[x] = Table[x]
        BY <1>1, <4>1, TableIs, TableIsNext
      <4> QED
        BY <4>2, <4>3
    <3> QED
      BY <3>1, <3>2, <3>3, <3>4, PlaceKinds
  <2>6. ASSUME NEW x \in Places, Table[x] # NoItem
        PROVE  Back[x] \in Places /\ Table'[Back[x]] = Table[x]
    <3>1. CASE \E q \in Producers : x = <<"chunk", q, 1>>
      BY <1>1, <2>2, <3>1, TableIs, TableIsNext, PlaceKinds
    <3>2. CASE \E q \in Producers, i \in 1..PerInsert : x = <<"send", q, i>>
      <4>1. PICK q \in Producers, i \in 1..PerInsert : x = <<"send", q, i>>
        BY <3>2
      <4>2. CASE q # p
        <5>1. Back[x] = x
          BY <2>2, <4>1, <4>2
        <5>2. Table'[x] = Table[x]
          BY <1>11, <4>1, <4>2, TableIs, TableIsNext
        <5> QED
          BY <5>1, <5>2
      <4>3. CASE q = p /\ i <= k
        <5>1. i <= n /\ Table[x] = b[i]
          BY <2>3, <2>6, <4>1, <4>3
        <5>2. u + i \in 1..QueueSize /\ ~(u + i <= u) /\ u + i <= u + k /\ (u + i) - u = i
          BY <1>4, <1>6, <4>3
        <5>3. Back[x] = <<"queue", NoItem, u + i>>
          BY <2>2, <4>1, <4>3
        <5>4. Table'[Back[x]] = b[i]
          BY <2>4, <5>2, <5>3
        <5> QED
          BY <5>1, <5>2, <5>3, <5>4, PlaceKinds
      <4>4. CASE q = p /\ ~(i <= k)
        <5>1. i <= n /\ Table[x] = b[i]
          BY <2>3, <2>6, <4>1, <4>4
        <5>2. i - k \in 1..PerInsert /\ i - k <= n - k /\ k + (i - k) = i
          BY <1>4, <4>4, <5>1
        <5>3. Back[x] = <<"send", p, i - k>>
          BY <2>2, <4>1, <4>4
        <5>4. Table'[Back[x]] = b[i]
          BY <2>3, <5>2, <5>3
        <5> QED
          BY <5>1, <5>2, <5>3, <5>4, PlaceKinds
      <4> QED
        BY <4>2, <4>3, <4>4
    <3>3. CASE \E i \in 1..QueueSize : x = <<"queue", NoItem, i>>
      BY <2>2, <2>4, <2>6, <3>3, PlaceKinds
    <3>4. CASE \E c \in Consumers, i \in 1..PerFetch : x = <<"recv", c, i>>
      <4>1. PICK c \in Consumers, i \in 1..PerFetch : x = <<"recv", c, i>>
        BY <3>4
      <4>2. Back[x] = x
        BY <2>2, <4>1
      <4>3. Table'[x] = Table[x]
        BY <1>1, <4>1, TableIs, TableIsNext
      <4> QED
        BY <4>2, <4>3
    <3> QED
      BY <3>1, <3>2, <3>3, <3>4, PlaceKinds
  <2>7. OneEach(Table, HandlesInUse)
    BY AccessIs DEF IInv
  <2>8. OneEach(Table', HandlesInUse)
    BY <2>5, <2>6, <2>7, Shuffled
  <2> QED
    BY <1>8, <1>15, <2>8, SameHandles, AccessNext
<1> QED
  BY <1>7, <1>8, <1>15, <1>16 DEF IInv

LEMMA TerminateQueueKeeps ==
  ASSUME IInv, NEW p \in Producers, TerminateQueue(p)
  PROVE  IInv'
<1>1. /\ pc[p] = "terminate" /\ Terminate(p) /\ Goto(p, "end")
      /\ UNCHANGED <<mbVars, chunk, sendBuf, recvBuf>>
  BY DEF TerminateQueue
<1>2. ProducerInv(p) /\ chunk[p] = NoItem /\ sendBuf[p] = <<>>
  BY <1>1 DEF IInv, StageInv, ProducerInv
<1>3. BufferInv' /\ handle' = handle
  BY <1>1, SameBuffers DEF IInv, mbVars
<1>4. pc'[p] = "end" /\ \A t \in QThreads \ {p} : pc'[t] = pc[t]
  BY <1>1, Disjoint DEF IInv, StageInv, Goto
<1>5. /\ nTerminated < NProducers /\ nTerminated = Cardinality(Ended)
      /\ Cardinality(Ended') = Cardinality(Ended) + 1
  <2>1. Ended' = Ended \cup {p} /\ p \notin Ended
    BY <1>1, <1>4, Disjoint DEF Ended
  <2>2. Cardinality(Ended') = Cardinality(Ended) + 1
    BY <2>1, EndedFinite, FS_AddElement
  <2>3. nTerminated = Cardinality(Ended)
    BY DEF IInv, StageInv, Ended
  <2>4. Cardinality(Ended) # NProducers
    BY <2>1, EndedFinite
  <2> QED
    BY <2>2, <2>3, <2>4, EndedFinite, QueueAssumption
<1>6. QueueTypeOK' /\ Contents' = Contents /\ nTerminated' = nTerminated + 1
  BY <1>1, <1>5, Disjoint, TerminateKeeps DEF IInv
<1>7. ProducerInv(p)'
  <2>1. \A i \in 0..MaxSize - 1 : <<p, i>> \in Handles
    BY StageAssumption
  <2> QED
    BY <1>1, <1>2, <1>3, <1>4, <2>1, SameHandles DEF ProducerInv
<1>8. StageInv'
  <2>1. "end" \in Labels
    BY DEF Labels
  <2>2. /\ recvBuf' = recvBuf /\ chunk' \in [Producers -> Handles \cup {NoItem}]
        /\ sendBuf' \in [Producers -> Seq(Handles)]
        /\ \A q \in Producers \ {p} : chunk'[q] = chunk[q] /\ sendBuf'[q] = sendBuf[q]
        /\ \A h \in Handles : h[1] # p => handle'[h] = handle[h]
        /\ Contents' \in Seq(Handles)
    BY <1>1, <1>3, <1>6 DEF IInv, StageInv
  <2> QED
    BY <1>1, <1>5, <1>6, <1>7, <2>1, <2>2, ProducerStep
<1>9. ExclusiveAccess'
  <2>1. \A x \in Places : Item(x)' = Item(x)
    BY <1>1, <1>6 DEF Item, Nth
  <2> QED
    BY <1>3, <2>1, SameHandles DEF IInv, ExclusiveAccess
<1> QED
  BY <1>3, <1>6, <1>8, <1>9 DEF IInv

-----------------------------------------------------------------------------
(* The consumers *)

LEMMA DequeueBatchKeeps ==
  ASSUME IInv, NEW c \in Consumers, DequeueBatch(c)
  PROVE  IInv'
<1>1. /\ pc[c] = "dequeue" /\ Dequeue(c, PerFetch) /\ Goto(c, "use")
      /\ recvBuf' = [recvBuf EXCEPT ![c] = SubSeq(Contents, 1, NumToDequeue(PerFetch))]
      /\ UNCHANGED <<mbVars, chunk, sendBuf>>
  BY DEF DequeueBatch
<1>2. ConsumerInv(c) /\ recvBuf[c] = <<>>
  BY <1>1 DEF IInv, StageInv, ConsumerInv
<1>3. PerFetch \in Nat \ {0} /\ QueueSize \in Nat \ {0} /\ c \in QThreads
  BY StageAssumption, QueueAssumption, Disjoint
<1>4. PICK u \in 0..QueueSize : u = Used
  BY UsedIs DEF IInv
<1>5. PICK k \in 1..u : k = NumToDequeue(PerFetch) /\ k <= PerFetch
  BY <1>1, <1>3, <1>4, DequeueKeeps DEF IInv
<1>6. /\ QueueTypeOK' /\ nTerminated' = nTerminated
      /\ Contents' = SubSeq(Contents, k + 1, u)
  BY <1>1, <1>3, <1>4, <1>5, DequeueKeeps DEF IInv
<1>7. BufferInv' /\ handle' = handle
  BY <1>1, SameBuffers DEF IInv, mbVars
<1>8. Contents \in Seq(Handles) /\ Len(Contents) = u
  BY <1>4, ContentsAre DEF IInv, StageInv
<1>9. /\ SubSeq(Contents, 1, k) \in Seq(Handles) /\ Len(SubSeq(Contents, 1, k)) = k
      /\ \A i \in 1..k : SubSeq(Contents, 1, k)[i] = Contents[i]
      /\ SubSeq(Contents, k + 1, u) \in Seq(Handles) /\ Len(SubSeq(Contents, k + 1, u)) = u - k
      /\ \A i \in 1..u - k : SubSeq(Contents, k + 1, u)[i] = Contents[k + i]
  <2>1. PICK s \in Seq(Handles) : s = Contents /\ Len(s) = u
    BY <1>8
  <2>2. /\ SubSeq(s, 1, k) \in Seq(Handles) /\ Len(SubSeq(s, 1, k)) = k
        /\ \A i \in 1..k : SubSeq(s, 1, k)[i] = s[i]
        /\ SubSeq(s, k + 1, u) \in Seq(Handles) /\ Len(SubSeq(s, k + 1, u)) = u - k
        /\ \A i \in 1..u - k : SubSeq(s, k + 1, u)[i] = s[k + i]
    BY <1>3, <2>1
  <2> QED
    BY <2>1, <2>2
<1>10. /\ recvBuf' \in [Consumers -> Seq(Handles)]
       /\ recvBuf'[c] = SubSeq(Contents, 1, k)
       /\ \A d \in Consumers \ {c} : recvBuf'[d] = recvBuf[d]
  BY <1>1, <1>5, <1>9 DEF IInv, StageInv
<1>11. pc'[c] = "use" /\ "use" \in Labels
  BY <1>1, Disjoint DEF IInv, StageInv, Goto, Labels
<1>12. ConsumerInv(c)'
  <2>1. recvBuf'[c] \in Seq(Handles) /\ Len(recvBuf'[c]) = k /\ k # 0
    BY <1>9, <1>10
  <2>2. recvBuf'[c] # <<>>
    BY <2>1, EmptySeq
  <2> QED
    BY <1>5, <1>11, <2>1, <2>2 DEF ConsumerInv
<1>13. StageInv'
  <2>1. /\ UNCHANGED <<chunk, sendBuf, nTerminated>> /\ Contents' \in Seq(Handles)
        /\ \A h \in Handles : InUse(h)' => InUse(h)
        /\ \A q \in Producers : chunk[q] # NoItem => handle'[chunk[q]] = handle[chunk[q]]
    BY <1>1, <1>6, <1>7, <1>9, SameHandles
  <2> QED
    BY <1>1, <1>10, <1>11, <1>12, <2>1, ConsumerStep
<1>14. ExclusiveAccess'
  <2> DEFINE Src == [x \in Places |->
               IF x[1] = "recv" /\ x[2] = c THEN <<"queue", NoItem, x[3]>>
               ELSE IF x[1] = "queue" THEN <<"queue", NoItem, x[3] + k>> ELSE x]
             Back == [x \in Places |->
               IF x[1] # "queue" THEN x
               ELSE IF x[3] <= k THEN <<"recv", c, x[3]>> ELSE <<"queue", NoItem, x[3] - k>>]
  <2>1. /\ \A q \in Producers : Src[<<"chunk", q, 1>>] = <<"chunk", q, 1>>
        /\ \A q \in Producers, i \in 1..PerInsert : Src[<<"send", q, i>>] = <<"send", q, i>>
        /\ \A i \in 1..QueueSize : Src[<<"queue", NoItem, i>>] = <<"queue", NoItem, i + k>>
        /\ \A d \in Consumers, i \in 1..PerFetch :
             Src[<<"recv", d, i>>] = IF d = c THEN <<"queue", NoItem, i>> ELSE <<"recv", d, i>>
    BY PlaceKinds
  <2>2. /\ \A q \in Producers : Back[<<"chunk", q, 1>>] = <<"chunk", q, 1>>
        /\ \A q \in Producers, i \in 1..PerInsert : Back[<<"send", q, i>>] = <<"send", q, i>>
        /\ \A i \in 1..QueueSize :
             Back[<<"queue", NoItem, i>>] = IF i <= k THEN <<"recv", c, i>>
                                            ELSE <<"queue", NoItem, i - k>>
        /\ \A d \in Consumers, i \in 1..PerFetch : Back[<<"recv", d, i>>] = <<"recv", d, i>>
    BY PlaceKinds
  <2> HIDE DEF Src, Back
  <2>3. ASSUME NEW i \in 1..QueueSize
        PROVE  /\ Table'[<<"queue", NoItem, i>>] = IF i <= u - k THEN Contents[k + i] ELSE NoItem
               /\ Table[<<"queue", NoItem, i>>] = IF i <= u THEN Contents[i] ELSE NoItem
    <3>1. Len(Contents') = u - k
      BY <1>6, <1>9
    <3>2. ASSUME i <= u - k
          PROVE  Contents'[i] = Contents[k + i]
      <4>1. i \in 1..u - k
        BY <1>3, <3>2
      <4> QED
        BY <1>6, <1>9, <4>1
    <3> QED
      BY <1>8, <3>1, <3>2, TableIs, TableIsNext DEF Nth
  <2>4. ASSUME NEW i \in 1..PerFetch
        PROVE  /\ Table'[<<"recv", c, i>>] = IF i <= k THEN Contents[i] ELSE NoItem
               /\ Table[<<"recv", c, i>>] = NoItem
    <3>1. Len(recvBuf'[c]) = k /\ (i <= k => recvBuf'[c][i] = Contents[i])
      BY <1>9, <1>10
    <3>2. ~(i <= Len(recvBuf[c]))
      BY <1>2, EmptySeq
    <3> QED
      BY <3>1, <3>2, TableIs, TableIsNext DEF Nth
  <2>5. ASSUME NEW x \in Places, Table'[x] # NoItem
        PROVE  Src[x] \in Places /\ Table[Src[x]] = Table'[x] /\ Back[Src[x]] = x
    <3>1. CASE \E q \in Producers : \/ x = <<"chunk", q, 1>>
                                    \/ \E i \in 1..PerInsert : x = <<"send", q, i>>
      <4>1. Src[x] = x /\ Back[x] = x
        BY <2>1, <2>2, <3>1
      <4>2. Table'[x] = Table[x]
        BY <1>1, <3>1, TableIs, TableIsNext
      <4> QED
        BY <4>1, <4>2
    <3>2. CASE \E i \in 1..QueueSize : x = <<"queue", NoItem, i>>
      <4>1. PICK i \in 1..QueueSize : x = <<"queue", NoItem, i>>
        BY <3>2
      <4>2. i <= u - k /\ Table'[x] = Contents[k + i]
        BY <2>3, <2>5, <4>1
      <4>3. PICK j \in 1..QueueSize : j = i + k /\ j = k + i /\ j <= u /\ ~(j <= k) /\ j - k = i
        BY <1>3, <4>2
      <4>4. Src[x] = <<"queue", NoItem, j>> /\ Src[x] \in Places
        BY <2>1, <4>1, <4>3, PlaceKinds
      <4>5. Back[<<"queue", NoItem, j>>] = <<"queue", NoItem, j - k>>
        BY <2>2, <4>3
      <4>6. Table[<<"queue", NoItem, j>>] = Contents[j]
        BY <2>3, <4>3
      <4> QED
        BY <4>1, <4>2, <4>3, <4>4, <4>5, <4>6
    <3>3. CASE \E d \in Consumers, i \in 1..PerFetch : x = <<"recv", d, i>>
      <4>1. PICK d \in Consumers, i \in 1..PerFetch : x = <<"recv", d, i>>
        BY <3>3
      <4>2. CASE d # c
        <5>1. Src[x] = x /\ Back[x] = x
          BY <2>1, <2>2, <4>1, <4>2
        <5>2. Table'[x] = Table[x]
          BY <1>10, <4>1, <4>2, TableIs, TableIsNext
        <5> QED
          BY <5>1, <5>2
      <4>3. CASE d = c
        <5>1. i <= k /\ Table'[x] = Contents[i]
          BY <2>4, <2>5, <4>1, <4>3
        <5>2. i \in 1..QueueSize /\ i <= u
          BY <1>3, <5>1
        <5>3. Src[x] = <<"queue", NoItem, i>> /\ Src[x] \in Places
          BY <2>1, <4>1, <4>3, <5>2, PlaceKinds
        <5>4. Back[<<"queue", NoItem, i>>] = x
          BY <2>2, <4>1, <4>3, <5>1, <5>2
        <5>5. Table[<<"queue", NoItem, i>>] = Contents[i]
          BY <2>3, <5>2
        <5> QED
          BY <5>1, <5>3, <5>4, <5>5
      <4> QED
        BY <4>2, <4>3
    <3> QED
      BY <3>1, <3>2, <3>3, PlaceKinds
  <2>6. ASSUME NEW x \in Places, Table[x] # NoItem
        PROVE  Back[x] \in Places /\ Table'[Back[x]] = Table[x]
    <3>1. CASE \E q \in Producers : \/ x = <<"chunk", q, 1>>
                                    \/ \E i \in 1..PerInsert : x = <<"send", q, i>>
      <4>1. Back[x] = x
        BY <2>2, <3>1
      <4>2. Table'[x] = Table[x]
        BY <1>1, <3>1, TableIs, TableIsNext
      <4> QED
        BY <4>1, <4>2
    <3>2. CASE \E i \in 1..QueueSize : x = <<"queue", NoItem, i>>
      <4>1. PICK i \in 1..QueueSize : x = <<"queue", NoItem, i>>
        BY <3>2
      <4>2. i <= u /\ Table[x] = Contents[i]
        BY <2>3, <2>6, <4>1
      <4>3. CASE i <= k
        <5>1. i \in 1..PerFetch
          BY <1>3, <1>5, <4>3
        <5>2. Back[x] = <<"recv", c, i>> /\ Back[x] \in Places
          BY <2>2, <4>1, <4>3, <5>1, PlaceKinds
        <5>3. Table'[<<"recv", c, i>>] = Contents[i]
          BY <2>4, <4>3, <5>1
        <5> QED
          BY <4>2, <5>2, <5>3
      <4>4. CASE ~(i <= k)
        <5>1. PICK j \in 1..QueueSize : j = i - k /\ k + j = i /\ j <= u - k
          BY <1>3, <4>2, <4>4
        <5>2. Back[x] = <<"queue", NoItem, j>> /\ Back[x] \in Places
          BY <2>2, <4>1, <4>4, <5>1, PlaceKinds
        <5>3. Table'[<<"queue", NoItem, j>>] = Contents[i]
          BY <2>3, <5>1
        <5> QED
          BY <4>2, <5>2, <5>3
      <4> QED
        BY <4>3, <4>4
    <3>3. CASE \E d \in Consumers, i \in 1..PerFetch : x = <<"recv", d, i>>
      <4>1. PICK d \in Consumers, i \in 1..PerFetch : x = <<"recv", d, i>>
        BY <3>3
      <4>2. d # c
        BY <2>4, <2>6, <4>1
      <4>3. Back[x] = x
        BY <2>2, <4>1
      <4>4. Table'[x] = Table[x]
        BY <1>10, <4>1, <4>2, TableIs, TableIsNext
      <4> QED
        BY <4>3, <4>4
    <3> QED
      BY <3>1, <3>2, <3>3, PlaceKinds
  <2>7. OneEach(Table, HandlesInUse)
    BY AccessIs DEF IInv
  <2>8. OneEach(Table', HandlesInUse)
    BY <2>5, <2>6, <2>7, Shuffled
  <2> QED
    BY <1>7, <1>13, <2>8, SameHandles, AccessNext
<1> QED
  BY <1>6, <1>7, <1>13, <1>14 DEF IInv

LEMMA FreeKeeps ==
  ASSUME IInv, NEW c \in Consumers, Free(c)
  PROVE  IInv'
<1> DEFINE s == recvBuf[c]
           h == Head(s)
           n == Len(s)
<1>1. /\ pc[c] = "use" /\ FreeRef(c, h) /\ recvBuf' = [recvBuf EXCEPT ![c] = Tail(s)]
      /\ Goto(c, IF recvBuf'[c] = <<>> THEN "dequeue" ELSE "use")
      /\ UNCHANGED <<queueVars, chunk, sendBuf>>
  BY DEF Free
<1>2. s \in Seq(Handles) /\ s # <<>> /\ n <= PerFetch /\ PerFetch \in Nat \ {0}
  BY <1>1, StageAssumption DEF IInv, StageInv, ConsumerInv
<1>3. /\ h = s[1] /\ h \in Handles /\ n \in Nat \ {0}
      /\ Tail(s) \in Seq(Handles) /\ Len(Tail(s)) = n - 1
      /\ \A i \in 1..n - 1 : Tail(s)[i] = s[i + 1]
  <2>1. PICK t \in Seq(Handles) : t = s /\ t # <<>>
    BY <1>2
  <2>2. /\ Head(t) = t[1] /\ t[1] \in Handles /\ Len(t) \in Nat \ {0}
        /\ Tail(t) \in Seq(Handles) /\ Len(Tail(t)) = Len(t) - 1
        /\ \A i \in 1..Len(t) - 1 : Tail(t)[i] = t[i + 1]
    BY <2>1
  <2> QED
    BY <2>1, <2>2
<1> HIDE DEF s, h, n
<1>4. c \in Releasers /\ BufferInv'
  BY <1>1, <1>3, StageAssumption, FreeRefKeeps DEF IInv
<1>5. QueueTypeOK' /\ Contents' = Contents /\ nTerminated' = nTerminated
  BY <1>1, SameRing DEF IInv, QueueTypeOK, queueVars
<1>6. handle'[h] = None /\ \A g \in Handles \ {h} : handle'[g] = handle[g]
  <2>1. handle' = [handle EXCEPT ![h] = None]
    BY <1>1 DEF FreeRef
  <2> QED
    BY <1>3, <2>1 DEF IInv, BufferInv, MBufferTypeOK
<1>7. HandlesInUse' = HandlesInUse \ {h}
  BY <1>6 DEF HandlesInUse, InUse
<1>8. /\ recvBuf' \in [Consumers -> Seq(Handles)] /\ recvBuf'[c] = Tail(s)
      /\ \A d \in Consumers \ {c} : recvBuf'[d] = recvBuf[d]
  BY <1>1, <1>3 DEF IInv, StageInv
<1> DEFINE y == <<"recv", c, 1>>
<1>9. y \in Places /\ Item(y) = h /\ Table[y] = h /\ h # NoItem
  <2>1. 1 \in 1..PerFetch /\ Nth(recvBuf[c], 1) = h
    BY <1>2, <1>3 DEF Nth, s, n
  <2> QED
    BY <1>3, <2>1, PlaceKinds, ItemIs, TableIs, QueueAssumption, StageAssumption
<1>10. \A q \in Producers : chunk[q] # h
  <2>1. ASSUME NEW q \in Producers, chunk[q] = h
        PROVE  FALSE
    <3>1. Item(<<"chunk", q, 1>>) = h /\ <<"chunk", q, 1>> \in Places
      BY <2>1, ItemIs, PlaceKinds
    <3>2. <<"chunk", q, 1>> = y
      BY <1>9, <3>1 DEF IInv, ExclusiveAccess
    <3> QED
      BY <3>2
  <2> QED
    BY <2>1
<1>11. PICK l \in {"dequeue", "use"} :
         Goto(c, l) /\ l \in Labels /\ (l = "use" <=> recvBuf'[c] # <<>>)
  BY <1>1 DEF Labels
<1>12. ConsumerInv(c)'
  <2>1. pc'[c] = l
    BY <1>11, Disjoint DEF IInv, StageInv, Goto
  <2>2. recvBuf'[c] \in Seq(Handles) /\ Len(recvBuf'[c]) <= PerFetch
    BY <1>2, <1>3, <1>8
  <2> QED
    BY <1>11, <2>1, <2>2 DEF ConsumerInv
<1>13. StageInv'
  <2>1. /\ UNCHANGED <<chunk, sendBuf, nTerminated>> /\ Contents' \in Seq(Handles)
    BY <1>1, <1>5 DEF IInv, StageInv
  <2>2. \A g \in Handles : InUse(g)' => InUse(g)
    BY <1>6 DEF InUse
  <2>3. ASSUME NEW q \in Producers, chunk[q] # NoItem
        PROVE  handle'[chunk[q]] = handle[chunk[q]]
    <3>1. chunk[q] \in Handles
      BY <2>3 DEF IInv, StageInv
    <3> QED
      BY <1>6, <1>10, <3>1
  <2> QED
    BY <1>8, <1>11, <1>12, <2>1, <2>2, <2>3, ConsumerStep
<1>14. ExclusiveAccess'
  <2> DEFINE G == [x \in Places |-> IF x = y THEN NoItem ELSE Table[x]]
  <2>1. OneEach(G, HandlesInUse \ {h})
    <3>1. G[y] = NoItem /\ \A x \in Places \ {y} : G[x] = Table[x]
      BY <1>9
    <3>2. OneEach(Table, HandlesInUse)
      BY AccessIs DEF IInv
    <3> HIDE DEF G, y
    <3> QED
      BY <1>9, <3>1, <3>2, Lost
  <2> DEFINE Src == [x \in Places |->
               IF x[1] = "recv" /\ x[2] = c THEN <<"recv", c, x[3] + 1>> ELSE x]
             Back == [x \in Places |->
               IF x[1] = "recv" /\ x[2] = c THEN <<"recv", c, x[3] - 1>> ELSE x]
  <2>2. /\ \A x \in Places : ~(\E i \in 1..PerFetch : x = <<"recv", c, i>>) =>
             Src[x] = x /\ Back[x] = x
        /\ \A i \in 1..PerFetch : /\ Src[<<"recv", c, i>>] = <<"recv", c, i + 1>>
                                  /\ Back[<<"recv", c, i>>] = <<"recv", c, i - 1>>
    <3>1. \A x \in Places : x[1] = "recv" /\ x[2] = c => \E i \in 1..PerFetch : x = <<"recv", c, i>>
      BY PlaceKinds
    <3>2. \A i \in 1..PerFetch : <<"recv", c, i>> \in Places
      BY PlaceKinds
    <3> QED
      BY <3>1, <3>2
  <2> HIDE DEF Src, Back
  <2>3. ASSUME NEW i \in 1..PerFetch
        PROVE  /\ Table'[<<"recv", c, i>>] = IF i <= n - 1 THEN s[i + 1] ELSE NoItem
               /\ G[<<"recv", c, i>>] = IF i # 1 /\ i <= n THEN s[i] ELSE NoItem
               /\ <<"recv", c, i>> \in Places
    <3>1. Nth(recvBuf[c], i) = IF i <= n THEN s[i] ELSE NoItem
      BY DEF Nth, s, n
    <3>2. Nth(recvBuf'[c], i) = IF i <= n - 1 THEN s[i + 1] ELSE NoItem
      BY <1>3, <1>8 DEF Nth
    <3>3. <<"recv", c, i>> \in Places /\ (<<"recv", c, i>> = y <=> i = 1)
      BY PlaceKinds
    <3> QED
      BY <3>1, <3>2, <3>3, TableIs, TableIsNext
  <2>4. ASSUME NEW x \in Places, ~\E i \in 1..PerFetch : x = <<"recv", c, i>>
        PROVE  Table'[x] = G[x]
    <3>1. x # y
      BY <1>2, <2>4
    <3>2. Table'[x] = Table[x]
      BY <1>1, <1>5, <1>8, <2>4, PlaceKinds, TableIs, TableIsNext
    <3> QED
      BY <3>1, <3>2
  <2> HIDE DEF G
  <2>5. ASSUME NEW x \in Places, Table'[x] # NoItem
        PROVE  Src[x] \in Places /\ G[Src[x]] = Table'[x] /\ Back[Src[x]] = x
    <3>1. CASE \E i \in 1..PerFetch : x = <<"recv", c, i>>
      <4>1. PICK i \in 1..PerFetch : x = <<"recv", c, i>>
        BY <3>1
      <4>2. i <= n - 1 /\ Table'[x] = s[i + 1]
        BY <2>3, <2>5, <4>1
      <4>3. PICK j \in 1..PerFetch : j = i + 1 /\ j # 1 /\ j <= n /\ j - 1 = i
        BY <1>2, <1>3, <4>2
      <4> QED
        BY <2>2, <2>3, <4>1, <4>2, <4>3
    <3>2. CASE ~\E i \in 1..PerFetch : x = <<"recv", c, i>>
      BY <2>2, <2>4, <3>2
    <3> QED
      BY <3>1, <3>2
  <2>6. ASSUME NEW x \in Places, G[x] # NoItem
        PROVE  Back[x] \in Places /\ Table'[Back[x]] = G[x]
    <3>1. CASE \E i \in 1..PerFetch : x = <<"recv", c, i>>
      <4>1. PICK i \in 1..PerFetch : x = <<"recv", c, i>>
        BY <3>1
      <4>2. i # 1 /\ i <= n /\ G[x] = s[i]
        BY <2>3, <2>6, <4>1
      <4>3. PICK j \in 1..PerFetch : j = i - 1 /\ j <= n - 1 /\ j + 1 = i
        BY <1>2, <1>3, <4>2
      <4> QED
        BY <2>2, <2>3, <4>1, <4>2, <4>3
    <3>2. CASE ~\E i \in 1..PerFetch : x = <<"recv", c, i>>
      BY <2>2, <2>4, <3>2
    <3> QED
      BY <3>1, <3>2
  <2>7. OneEach(Table', HandlesInUse \ {h})
    BY <2>1, <2>5, <2>6, Shuffled
  <2> QED
    BY <1>7, <1>13, <2>7, AccessNext
<1> QED
  BY <1>4, <1>5, <1>13, <1>14 DEF IInv

LEMMA ReleaseKeeps ==
  ASSUME IInv, NEW c \in Consumers, Release(c)
  PROVE  IInv'
<1>1. FreeBlock(c) /\ UNCHANGED <<queueVars, stageVars>> /\ handle' = handle
  BY DEF Release, FreeBlock
<1>2. c \in Releasers /\ BufferInv'
  BY <1>1, StageAssumption, FreeBlockKeeps DEF IInv
<1>3. QueueTypeOK' /\ Contents' = Contents /\ nTerminated' = nTerminated
  BY <1>1, SameRing DEF IInv, QueueTypeOK, queueVars
<1> QED
  BY <1>1, <1>2, <1>3, SameQueues DEF IInv

LEMMA DequeueStopsKeeps ==
  ASSUME IInv, NEW c \in Consumers, DequeueStops(c)
  PROVE  IInv'
<1>1. /\ pc[c] = "dequeue" /\ DequeueEnd(c) /\ Goto(c, "end")
      /\ UNCHANGED <<mbVars, chunk, sendBuf, recvBuf>>
  BY DEF DequeueStops
<1>2. ConsumerInv(c) /\ recvBuf[c] = <<>>
  BY <1>1 DEF IInv, StageInv, ConsumerInv
<1>3. BufferInv' /\ handle' = handle
  BY <1>1, SameBuffers DEF IInv, mbVars
<1>4. QueueTypeOK' /\ Contents' = Contents /\ nTerminated' = nTerminated
  BY <1>1, Disjoint, WaitKeeps DEF IInv
<1>5. pc'[c] = "end" /\ "end" \in Labels
  BY <1>1, Disjoint DEF IInv, StageInv, Goto, Labels
<1>6. ConsumerInv(c)'
  BY <1>1, <1>2, <1>5 DEF ConsumerInv
<1>7. StageInv'
  <2>1. /\ UNCHANGED <<chunk, sendBuf, nTerminated>> /\ Contents' \in Seq(Handles)
        /\ \A h \in Handles : InUse(h)' => InUse(h)
        /\ \A q \in Producers : chunk[q] # NoItem => handle'[chunk[q]] = handle[chunk[q]]
    BY <1>1, <1>3, <1>4, SameHandles DEF IInv, StageInv
  <2>2. /\ recvBuf' \in [Consumers -> Seq(Handles)]
        /\ \A d \in Consumers \ {c} : recvBuf'[d] = recvBuf[d]
    BY <1>1 DEF IInv, StageInv
  <2> QED
    BY <1>1, <1>5, <1>6, <2>1, <2>2, ConsumerStep
<1>8. ExclusiveAccess'
  <2>1. \A x \in Places : Item(x)' = Item(x)
    BY <1>1, <1>4 DEF Item, Nth
  <2> QED
    BY <1>3, <2>1, SameHandles DEF IInv, ExclusiveAccess
<1> QED
  BY <1>3, <1>4, <1>7, <1>8 DEF IInv

-----------------------------------------------------------------------------
(* The stage *)

LEMMA StageInit == Init => IInv
<1> SUFFICES ASSUME Init
             PROVE  IInv
  OBVIOUS
<1>1. QueueTypeOK
  BY QueueAssumption DEF Init, QueueInit, QueueTypeOK
<1>2. BufferInv
  BY BufferInvInit DEF Init
<1>3. Contents = <<>>
  <2>1. Used = 0
    BY <1>1, UsedIs, SlotsType, Modulo DEF Init, QueueInit, IsEmpty
  <2> QED
    BY <1>1, <2>1, ContentsAre, EmptySeq
<1>4. /\ pc = [t \in QThreads |-> IF t \in Producers THEN "read" ELSE "dequeue"]
      /\ chunk = [p \in Producers |-> NoItem]
      /\ sendBuf = [p \in Producers |-> <<>>] /\ recvBuf = [c \in Consumers |-> <<>>]
      /\ \A h \in Handles : ~InUse(h)
      /\ nTerminated = 0
  BY DEF Init, QueueInit, MBufferInit, InUse
<1>5. \A p \in Producers : ProducerInv(p)
  <2>1. \A i \in 0..MaxSize - 1, p \in Producers : <<p, i>> \in Handles
    BY StageAssumption
  <2> QED
    BY <1>4, <2>1, Disjoint, EmptySeq, StageAssumption DEF ProducerInv
<1>6. \A c \in Consumers : ConsumerInv(c)
  BY <1>4, Disjoint, EmptySeq, StageAssumption DEF ConsumerInv
<1>7. StageInv
  <2>1. Ended = {}
    BY <1>4, Disjoint DEF Ended
  <2>2. Cardinality(Ended) = 0
    BY <2>1, FS_EmptySet
  <2>3. /\ pc \in [QThreads -> Labels] /\ chunk \in [Producers -> Handles \cup {NoItem}]
        /\ sendBuf \in [Producers -> Seq(Handles)] /\ recvBuf \in [Consumers -> Seq(Handles)]
        /\ Contents \in Seq(Handles)
    BY <1>3, <1>4, EmptySeq DEF Labels
  <2> QED
    BY <1>4, <1>5, <1>6, <2>2, <2>3 DEF StageInv, Ended
<1>8. ExclusiveAccess
  <2>1. ASSUME NEW x \in Places
        PROVE  Item(x) = NoItem
    <3>1. \A i \in Nat \ {0} : ~(i <= Len(<<>>))
      BY EmptySeq
    <3>2. \A i \in Nat \ {0} : Nth(<<>>, i) = NoItem
      BY <3>1 DEF Nth
    <3> QED
      BY <1>3, <1>4, <3>2, PlaceKinds, ItemIs, StageAssumption, QueueAssumption
  <2>2. NoItem \notin Handles
    BY QueueAssumption, StageAssumption
  <2> QED
    BY <1>4, <2>1, <2>2 DEF ExclusiveAccess
<1> QED
  BY <1>1, <1>2, <1>7, <1>8 DEF IInv

LEMMA StageNext == IInv /\ [Next]_vars => IInv'
<1> SUFFICES ASSUME IInv, [Next]_vars
             PROVE  IInv'
  OBVIOUS
<1>1. ASSUME NEW p \in Producers, Refine(p)
      PROVE  IInv'
  <2>1. CASE EnqueueWaits(p)
    <3>1. WaitNotFull(p) /\ UNCHANGED <<mbVars, stageVars>>
      BY <2>1 DEF EnqueueWaits
    <3>2. QueueTypeOK' /\ Contents' = Contents /\ nTerminated' = nTerminated
      BY <3>1, Disjoint, WaitKeeps DEF IInv
    <3> QED
      BY <3>1, <3>2, OnlyWaits
  <2> QED
    BY <1>1, <2>1, ReadInputKeeps, ShrinkKeeps, CutKeeps, LastPieceKeeps, EnqueueBatchKeeps,
       TerminateQueueKeeps DEF Refine
<1>2. ASSUME NEW c \in Consumers, Consume(c)
      PROVE  IInv'
  <2>1. CASE DequeueWaits(c)
    <3>1. WaitNotEmpty(c) /\ UNCHANGED <<mbVars, stageVars>>
      BY <2>1 DEF DequeueWaits
    <3>2. QueueTypeOK' /\ Contents' = Contents /\ nTerminated' = nTerminated
      BY <3>1, Disjoint, WaitKeeps DEF IInv
    <3> QED
      BY <3>1, <3>2, OnlyWaits
  <2> QED
    BY <1>2, <2>1, DequeueBatchKeeps, DequeueStopsKeeps, FreeKeeps, ReleaseKeeps DEF Consume
<1>3. ASSUME NEW t \in QThreads, Spurious(t)
      PROVE  IInv'
  <2>1. SpuriousWakeup(t) /\ UNCHANGED <<mbVars, stageVars>>
    BY <1>3 DEF Spurious
  <2>2. QueueTypeOK' /\ Contents' = Contents /\ nTerminated' = nTerminated
    BY <2>1, WaitKeeps DEF IInv
  <2> QED
    BY <2>1, <2>2, OnlyWaits
<1>4. ASSUME UNCHANGED vars
      PROVE  IInv'
  <2>1. UNCHANGED <<mbVars, stageVars, queueVars>>
    BY <1>4 DEF vars
  <2>2. QueueTypeOK' /\ Contents' = Contents /\ nTerminated' = nTerminated
    BY <2>1, SameRing DEF IInv, QueueTypeOK, queueVars
  <2> QED
    BY <2>1, <2>2, OnlyWaits
<1> QED
  BY <1>1, <1>2, <1>3, <1>4 DEF Next, Finished

LEMMA Invariance == Spec => []IInv
  BY StageInit, StageNext, PTL DEF Spec

(* Every variable of the stage keeps its type; at most as many producers   *)
(* terminate as the queue was told, and no send buffer overflows: it is    *)
(* offered to the queue when it is full, and what did not fit leaves room. *)
(* (FragmentRefine and queue_terminate)                                    *)
THEOREM TypeCorrect == Spec => []TypeOK
<1>1. IInv => TypeOK
  BY DEF IInv, BufferInv, StageInv, ProducerInv, ConsumerInv, TypeOK
<1> QED
  BY <1>1, Invariance, PTL

(* The threads of the stage keep the promise that mbuffer.h asks of its    *)
(* callers: a handle in use is in one place, and no place names a handle   *)
(* that was freed.  (mbuffer.h:9-13, and the callers in encoder.c)         *)
THEOREM HandlesExclusive == Spec => []ExclusiveAccess
  BY Invariance, PTL DEF IInv

(* So no handle dangles while pieces of one block are cut, sent and freed  *)
(* by different threads.  (mbuffer_split and mbuffer_free)                 *)
THEOREM PiecesNeverDangle == Spec => []NoHandleDangles
  BY Invariance, PTL DEF IInv, BufferInv

(* And the memory of a coarse chunk is freed once, by the thread that      *)
(* frees its last piece.  (mbuffer_free)                                   *)
THEOREM ChunksFreedOnce == Spec => []FreedByTheLast
  BY Invariance, PTL DEF IInv, BufferInv

-----------------------------------------------------------------------------
(* The bytes of handles, with the fields H that the handles have.          *)

Units == Producers \X Nat
BytesOf(H, h) == [i \in 1..H[h].n |-> <<h[1], H[h].off + i - 1>>]
Stream(H, s) == FlattenSeq([i \in 1..Len(s) |-> BytesOf(H, s[i])])
Ranges(H, s) ==
  /\ s \in Seq(Handles)
  /\ \A i \in 1..Len(s) : H[s[i]].n \in Nat \ {0} /\ H[s[i]].off \in Nat

LEMMA BytesType ==
  ASSUME NEW H, NEW h \in Handles, H[h].n \in Nat \ {0}, H[h].off \in Nat
  PROVE  BytesOf(H, h) \in Seq(Units) /\ Len(BytesOf(H, h)) = H[h].n
<1>1. h[1] \in Producers
  BY StageAssumption
<1>2. PICK n \in Nat, o \in Nat : n = H[h].n /\ o = H[h].off
  OBVIOUS
<1>3. [i \in 1..n |-> <<h[1], o + i - 1>>] \in [1..n -> Units]
  BY <1>1 DEF Units
<1>4. [i \in 1..n |-> <<h[1], o + i - 1>>] \in Seq(Units)
  BY <1>3, IsASeq
<1> QED
  BY <1>2, <1>3, <1>4, LenProperties DEF BytesOf

(* The sequences of bytes of a sequence of handles.                        *)
LEMMA PiecesType ==
  ASSUME NEW H, NEW s, Ranges(H, s)
  PROVE  /\ [i \in 1..Len(s) |-> BytesOf(H, s[i])] \in Seq(Seq(Units))
         /\ Len([i \in 1..Len(s) |-> BytesOf(H, s[i])]) = Len(s)
         /\ Stream(H, s) \in Seq(Units)
<1>1. PICK n \in Nat : n = Len(s)
  BY LenProperties DEF Ranges
<1>2. \A i \in 1..n : BytesOf(H, s[i]) \in Seq(Units)
  BY <1>1, BytesType, ElementOfSeq DEF Ranges
<1> DEFINE ss == [i \in 1..n |-> BytesOf(H, s[i])]
<1>3. ss \in [1..n -> Seq(Units)]
  BY <1>2
<1> HIDE DEF ss
<1>4. ss \in Seq(Seq(Units)) /\ Len(ss) = n
  BY <1>3, IsASeq, LenProperties
<1>5. FlattenSeq(ss) \in Seq(Units)
  BY <1>4, FlattenType
<1> QED
  BY <1>1, <1>4, <1>5 DEF Stream, ss

LEMMA StreamConcat ==
  ASSUME NEW H, NEW s, NEW t, Ranges(H, s), Ranges(H, t)
  PROVE  Ranges(H, s \o t) /\ Stream(H, s \o t) = Stream(H, s) \o Stream(H, t)
<1>1. PICK m \in Nat, n \in Nat : m = Len(s) /\ n = Len(t)
  BY LenProperties DEF Ranges
<1>2. PICK u : u = s \o t
  OBVIOUS
<1>3. /\ u \in Seq(Handles) /\ Len(u) = m + n
      /\ \A i \in 1..m + n : u[i] = IF i <= m THEN s[i] ELSE t[i - m]
  BY <1>1, <1>2, ConcatProperties DEF Ranges
<1>4. ASSUME NEW i \in 1..m + n
      PROVE  H[u[i]].n \in Nat \ {0} /\ H[u[i]].off \in Nat
  <2>1. CASE i <= m
    <3>1. i \in 1..m /\ u[i] = s[i]
      BY <1>3, <2>1
    <3> QED
      BY <1>1, <3>1 DEF Ranges
  <2>2. CASE ~(i <= m)
    <3>1. i - m \in 1..n /\ u[i] = t[i - m]
      BY <1>3, <2>2
    <3> QED
      BY <1>1, <3>1 DEF Ranges
  <2> QED
    BY <2>1, <2>2
<1>5. Ranges(H, u)
  BY <1>3, <1>4 DEF Ranges
<1> DEFINE ss == [i \in 1..Len(s) |-> BytesOf(H, s[i])]
           tt == [i \in 1..Len(t) |-> BytesOf(H, t[i])]
           uu == [i \in 1..Len(u) |-> BytesOf(H, u[i])]
<1>6. /\ ss \in Seq(Seq(Units)) /\ tt \in Seq(Seq(Units)) /\ uu \in Seq(Seq(Units))
      /\ Len(ss) = m /\ Len(tt) = n /\ Len(uu) = m + n
  BY <1>1, <1>3, <1>5, PiecesType
<1>7. /\ \A i \in 1..m : ss[i] = BytesOf(H, s[i])
      /\ \A i \in 1..n : tt[i] = BytesOf(H, t[i])
      /\ \A i \in 1..m + n : uu[i] = BytesOf(H, u[i])
  BY <1>1, <1>3
<1>8. Stream(H, s) = FlattenSeq(ss) /\ Stream(H, t) = FlattenSeq(tt) /\ Stream(H, u) = FlattenSeq(uu)
  BY DEF Stream
<1> HIDE DEF ss, tt, uu
<1>9. uu = ss \o tt
  <2>1. PICK vv : vv = ss \o tt
    OBVIOUS
  <2>2. /\ vv \in Seq(Seq(Units)) /\ Len(vv) = m + n
        /\ \A i \in 1..m + n : vv[i] = IF i <= m THEN ss[i] ELSE tt[i - m]
    BY <1>6, <2>1, ConcatProperties
  <2>3. ASSUME NEW i \in 1..m + n
        PROVE  uu[i] = vv[i]
    <3>1. CASE i <= m
      <4>1. i \in 1..m
        BY <3>1
      <4> QED
        BY <1>3, <1>7, <2>2, <3>1, <4>1
    <3>2. CASE ~(i <= m)
      <4>1. i - m \in 1..n
        BY <3>2
      <4> QED
        BY <1>3, <1>7, <2>2, <3>2, <4>1
    <3> QED
      BY <3>1, <3>2
  <2>4. uu = vv
    BY <1>6, <2>2, <2>3, SeqEqual
  <2> QED
    BY <2>1, <2>4
<1> QED
  BY <1>2, <1>5, <1>6, <1>8, <1>9, FlattenConcat

LEMMA StreamEmpty == \A H : Stream(H, <<>>) = <<>> /\ Ranges(H, <<>>)
<1>1. Len(<<>>) = 0 /\ <<>> \in Seq(Handles)
  BY EmptySeq
<1>2. ASSUME NEW H
      PROVE  [i \in 1..0 |-> BytesOf(H, <<>>[i])] = <<>>
  <2>1. PICK e : e = [i \in 1..0 |-> BytesOf(H, <<>>[i])]
    OBVIOUS
  <2>2. e \in [1..0 -> Units]
    BY <2>1
  <2>3. e \in Seq(Units) /\ Len(e) = 0
    BY <2>2, IsASeq, LenProperties
  <2> QED
    BY <2>1, <2>3, EmptySeq
<1> QED
  BY <1>1, <1>2, FlattenEmpty DEF Stream, Ranges

LEMMA StreamOne ==
  ASSUME NEW H, NEW h \in Handles, H[h].n \in Nat \ {0}, H[h].off \in Nat
  PROVE  Ranges(H, <<h>>) /\ Stream(H, <<h>>) = BytesOf(H, h)
<1>1. <<h>> \in Seq(Handles) /\ Len(<<h>>) = 1 /\ <<h>>[1] = h
  OBVIOUS
<1>2. Ranges(H, <<h>>)
  BY <1>1 DEF Ranges
<1>3. PICK b \in Seq(Units) : b = BytesOf(H, h)
  BY BytesType
<1>4. [i \in 1..1 |-> BytesOf(H, <<h>>[i])] = Append(<<>>, b)
  <2>1. PICK f : f = [i \in 1..1 |-> BytesOf(H, <<h>>[i])]
    OBVIOUS
  <2>2. f \in [1..1 -> Seq(Units)] /\ f[1] = b
    BY <1>1, <1>3, <2>1
  <2>3. f \in Seq(Seq(Units)) /\ Len(f) = 1
    <3>1. PICK n \in Nat : n = 1
      OBVIOUS
    <3>2. f \in [1..n -> Seq(Units)]
      BY <2>2, <3>1
    <3>3. f \in Seq(Seq(Units)) /\ DOMAIN f = 1..n
      BY <3>2, SeqDef
    <3> QED
      BY <3>1, <3>3, LenProperties
  <2>4. <<>> \in Seq(Seq(Units)) /\ Len(<<>>) = 0
    BY EmptySeq
  <2>5. PICK g : g = Append(<<>>, b)
    OBVIOUS
  <2>6. g \in Seq(Seq(Units)) /\ Len(g) = 1 /\ g[1] = b
    BY <1>3, <2>4, <2>5, AppendProperties
  <2>7. f = g
    BY <2>2, <2>3, <2>6, SeqEqual
  <2> QED
    BY <2>1, <2>5, <2>7
<1>5. FlattenSeq(Append(<<>>, b)) = <<>> \o b
  <2>1. <<>> \in Seq(Seq(Units))
    BY EmptySeq
  <2> QED
    BY <2>1, FlattenAppend, FlattenEmpty
<1> QED
  BY <1>1, <1>2, <1>3, <1>4, <1>5, ConcatEmptySeq DEF Stream

LEMMA StreamAppend ==
  ASSUME NEW H, NEW s, Ranges(H, s), NEW h \in Handles, H[h].n \in Nat \ {0}, H[h].off \in Nat
  PROVE  Ranges(H, Append(s, h)) /\ Stream(H, Append(s, h)) = Stream(H, s) \o BytesOf(H, h)
<1>1. PICK t : t = <<h>>
  OBVIOUS
<1>2. Append(s, h) = s \o t
  BY <1>1, AppendIsConcat DEF Ranges
<1>3. Ranges(H, t) /\ Stream(H, t) = BytesOf(H, h)
  BY <1>1, StreamOne
<1>4. Ranges(H, s \o t) /\ Stream(H, s \o t) = Stream(H, s) \o Stream(H, t)
  BY <1>3, StreamConcat
<1> QED
  BY <1>2, <1>3, <1>4

(* A stream depends on the fields of its handles only.                     *)
LEMMA StreamKept ==
  ASSUME NEW H, NEW G, NEW s, \A i \in 1..Len(s) : G[s[i]] = H[s[i]]
  PROVE  Stream(G, s) = Stream(H, s)
<1>1. \A i \in 1..Len(s) : BytesOf(G, s[i]) = BytesOf(H, s[i])
  BY DEF BytesOf
<1>2. [i \in 1..Len(s) |-> BytesOf(G, s[i])] = [i \in 1..Len(s) |-> BytesOf(H, s[i])]
  BY <1>1
<1> QED
  BY <1>2 DEF Stream

(* A prefix of pieces, and what is behind it.                              *)
LEMMA StreamCut ==
  ASSUME NEW H, NEW s, Ranges(H, s), NEW k \in 1..Len(s)
  PROVE  /\ Ranges(H, SubSeq(s, 1, k)) /\ Ranges(H, SubSeq(s, k + 1, Len(s)))
         /\ Stream(H, s) = Stream(H, SubSeq(s, 1, k)) \o Stream(H, SubSeq(s, k + 1, Len(s)))
         /\ Len(Stream(H, SubSeq(s, 1, k))) \in Nat \ {0}
<1>1. PICK n \in Nat : n = Len(s)
  BY LenProperties DEF Ranges
<1>2. PICK a, b : a = SubSeq(s, 1, k) /\ b = SubSeq(s, k + 1, n)
  OBVIOUS
<1>3. /\ a \in Seq(Handles) /\ Len(a) = k /\ \A i \in 1..k : a[i] = s[i]
      /\ b \in Seq(Handles) /\ Len(b) = n - k /\ \A i \in 1..n - k : b[i] = s[k + i]
  <2>1. s \in Seq(Handles) /\ k \in 1..n
    BY <1>1 DEF Ranges
  <2>2. a \in Seq(Handles) /\ Len(a) = k /\ \A i \in 1..k : a[i] = s[i]
    BY <1>1, <1>2, <2>1
  <2>3. b \in Seq(Handles) /\ Len(b) = n - k
    BY <1>1, <1>2, <2>1
  <2>4. \A i \in 1..n - k : b[i] = s[k + i]
    BY <1>1, <1>2, <2>1
  <2> QED
    BY <2>2, <2>3, <2>4
<1>4. Ranges(H, a) /\ Ranges(H, b)
  <2>1. \A i \in 1..n : H[s[i]].n \in Nat \ {0} /\ H[s[i]].off \in Nat
    BY <1>1 DEF Ranges
  <2>2. (\A i \in 1..k : i \in 1..n) /\ (\A i \in 1..n - k : k + i \in 1..n)
    BY <1>1
  <2>3. \A i \in 1..k : H[a[i]].n \in Nat \ {0} /\ H[a[i]].off \in Nat
    BY <1>3, <2>1, <2>2
  <2>4. \A i \in 1..n - k : H[b[i]].n \in Nat \ {0} /\ H[b[i]].off \in Nat
    BY <1>3, <2>1, <2>2
  <2> QED
    BY <1>3, <2>3, <2>4 DEF Ranges
<1>5. s = a \o b
  <2>1. 1 \in 1..n + 1 /\ k \in 1 - 1..n /\ n \in k..n
    BY <1>1
  <2>2. a \o b = SubSeq(s, 1, n)
    BY <1>1, <1>2, <2>1, ConcatAdjacentSubSeq DEF Ranges
  <2> QED
    BY <1>1, <2>2, SubSeqFull DEF Ranges
<1>6. Len(Stream(H, a)) \in Nat \ {0}
  <2>1. PICK h, r : h = <<a[1]>> /\ r = SubSeq(a, 2, k)
    OBVIOUS
  <2>2. a[1] \in Handles /\ H[a[1]].n \in Nat \ {0} /\ H[a[1]].off \in Nat
    <3>1. 1 \in 1..Len(a)
      BY <1>1, <1>3
    <3> QED
      BY <1>4, <3>1, ElementOfSeq DEF Ranges
  <2>3. /\ r \in Seq(Handles) /\ Len(r) = k - 1 /\ \A i \in 1..k - 1 : r[i] = a[i + 1]
    BY <1>1, <1>3, <2>1
  <2>4. Ranges(H, r)
    <3>1. \A i \in 1..k - 1 : i + 1 \in 1..k
      BY <1>1
    <3> QED
      BY <1>3, <1>4, <2>3, <3>1 DEF Ranges
  <2>5. a = h \o r
    <3>1. SubSeq(a, 1, k) = <<a[1]>> \o SubSeq(a, 1 + 1, k)
      <4>1. 1 \in 1..Len(a) /\ k \in 1..Len(a)
        BY <1>1, <1>3
      <4> QED
        BY <1>3, <4>1, SubSeqRecursiveFirst
    <3>2. SubSeq(a, 1, k) = a
      BY <1>3, SubSeqFull
    <3> QED
      BY <2>1, <3>1, <3>2
  <2>6. Stream(H, a) = BytesOf(H, a[1]) \o Stream(H, r)
    <3>1. Ranges(H, h) /\ Stream(H, h) = BytesOf(H, a[1])
      BY <2>1, <2>2, StreamOne
    <3>2. Stream(H, h \o r) = Stream(H, h) \o Stream(H, r)
      BY <2>4, <3>1, StreamConcat
    <3> QED
      BY <2>5, <3>1, <3>2
  <2>7. /\ BytesOf(H, a[1]) \in Seq(Units) /\ Len(BytesOf(H, a[1])) \in Nat \ {0}
        /\ Stream(H, r) \in Seq(Units) /\ Len(Stream(H, r)) \in Nat
    BY <2>2, <2>4, BytesType, PiecesType, LenProperties
  <2> QED
    BY <2>6, <2>7, ConcatProperties
<1>7. Stream(H, a \o b) = Stream(H, a) \o Stream(H, b)
  BY <1>4, StreamConcat
<1> QED
  BY <1>1, <1>2, <1>4, <1>5, <1>6, <1>7

(* Taking the front of a stream apart again.                               *)
LEMMA Parted ==
  ASSUME NEW S, NEW a \in Seq(S), NEW b \in Seq(S)
  PROVE  /\ SubSeq(a \o b, 1, Len(a)) = a
         /\ SubSeq(a \o b, Len(a) + 1, Len(a \o b)) = b
<1>1. PICK m \in Nat, n \in Nat : m = Len(a) /\ n = Len(b)
  BY LenProperties
<1>2. PICK u : u = a \o b
  OBVIOUS
<1>3. /\ u \in Seq(S) /\ Len(u) = m + n
      /\ \A i \in 1..m + n : u[i] = IF i <= m THEN a[i] ELSE b[i - m]
  BY <1>1, <1>2, ConcatProperties
<1>4. /\ SubSeq(u, 1, m) \in Seq(S) /\ Len(SubSeq(u, 1, m)) = m
      /\ \A i \in 1..m : SubSeq(u, 1, m)[i] = u[i]
      /\ SubSeq(u, m + 1, m + n) \in Seq(S) /\ Len(SubSeq(u, m + 1, m + n)) = n
      /\ \A i \in 1..n : SubSeq(u, m + 1, m + n)[i] = u[m + i]
  BY <1>3
<1>5. \A i \in 1..m : u[i] = a[i]
  BY <1>3
<1>6. \A i \in 1..n : u[m + i] = b[i]
  <2>1. ASSUME NEW i \in 1..n
        PROVE  u[m + i] = b[i]
    <3>1. PICK j \in 1..m + n : j = m + i /\ ~(j <= m) /\ j - m = i
      OBVIOUS
    <3> QED
      BY <1>3, <3>1
  <2> QED
    BY <2>1
<1>7. SubSeq(u, 1, m) = a
  BY <1>1, <1>4, <1>5, SeqEqual
<1>8. SubSeq(u, m + 1, m + n) = b
  <2>1. PICK v : v = SubSeq(u, m + 1, m + n)
    OBVIOUS
  <2>2. v \in Seq(S) /\ Len(v) = n /\ \A i \in 1..n : v[i] = b[i]
    BY <1>4, <1>6, <2>1
  <2>3. v = b
    BY <1>1, <2>2, SeqEqual
  <2> QED
    BY <2>1, <2>3
<1> QED
  BY <1>1, <1>2, <1>3, <1>7, <1>8

-----------------------------------------------------------------------------
(* The stage as a channel of bytes *)

UnsentOf(H, l, s, h, p) ==
  IF l \in {"read", "shrink"} THEN Source[p]
  ELSE Stream(H, s) \o (IF h = NoItem THEN <<>> ELSE BytesOf(H, h))

LEMMA UnsentIs ==
  ASSUME NEW p \in Producers
  PROVE  /\ Unsent(p) = UnsentOf(handle, pc[p], sendBuf[p], chunk[p], p)
         /\ Unsent(p)' = UnsentOf(handle', pc'[p], sendBuf'[p], chunk'[p], p)
  BY DEF Unsent, UnsentOf, AllBytes, Bytes, Stream, BytesOf

LEMMA StreamIs ==
  /\ AllBytes(Contents) = Stream(handle, Contents)
  /\ AllBytes(Contents)' = Stream(handle', Contents')
  BY DEF AllBytes, Bytes, Stream, BytesOf

(* Pieces that wait are in use, each in its place.                         *)
LEMMA Sent ==
  ASSUME IInv, NEW q \in Producers, NEW i \in 1..Len(sendBuf[q])
  PROVE  /\ <<"send", q, i>> \in Places /\ Item(<<"send", q, i>>) = sendBuf[q][i]
         /\ sendBuf[q][i] \in Handles /\ InUse(sendBuf[q][i])
<1>1. sendBuf[q] \in Seq(Handles) /\ Len(sendBuf[q]) <= PerInsert /\ PerInsert \in Nat
  BY StageAssumption DEF IInv, StageInv, ProducerInv
<1>2. i \in 1..PerInsert /\ sendBuf[q][i] \in Handles
  BY <1>1
<1>3. <<"send", q, i>> \in Places /\ Item(<<"send", q, i>>) = sendBuf[q][i]
  BY <1>2, PlaceKinds, ItemIs DEF Nth
<1> QED
  BY <1>2, <1>3 DEF IInv, ExclusiveAccess

LEMMA Queued ==
  ASSUME IInv, NEW i \in 1..Len(Contents)
  PROVE  /\ <<"queue", NoItem, i>> \in Places /\ Item(<<"queue", NoItem, i>>) = Contents[i]
         /\ Contents[i] \in Handles /\ InUse(Contents[i])
<1>1. Contents \in Seq(Handles) /\ Len(Contents) \in 0..QueueSize /\ QueueSize \in Nat
  BY ContentsAre, UsedIs, QueueAssumption DEF IInv, StageInv
<1>2. i \in 1..QueueSize /\ Contents[i] \in Handles
  BY <1>1
<1>3. <<"queue", NoItem, i>> \in Places /\ Item(<<"queue", NoItem, i>>) = Contents[i]
  BY <1>2, PlaceKinds, ItemIs DEF Nth
<1> QED
  BY <1>2, <1>3 DEF IInv, ExclusiveAccess

LEMMA FieldsNow ==
  ASSUME IInv, NEW h \in Handles, InUse(h)
  PROVE  handle[h].n \in Nat \ {0} /\ handle[h].off \in Nat
<1>1. handle[h].n \in 1..MaxSize /\ handle[h].off \in 0..MaxSize /\ MaxSize \in Nat
  BY HandleInUse, MBufferAssumption DEF IInv
<1> QED
  BY <1>1

LEMMA RangesNow ==
  ASSUME IInv
  PROVE  Ranges(handle, Contents) /\ \A q \in Producers : Ranges(handle, sendBuf[q])
<1>1. Ranges(handle, Contents)
  <2>1. Contents \in Seq(Handles)
    BY DEF IInv, StageInv
  <2> QED
    BY <2>1, Queued, FieldsNow DEF Ranges
<1>2. ASSUME NEW q \in Producers
      PROVE  Ranges(handle, sendBuf[q])
  <2>1. sendBuf[q] \in Seq(Handles)
    BY DEF IInv, StageInv
  <2> QED
    BY <2>1, Sent, FieldsNow DEF Ranges
<1> QED
  BY <1>1, <1>2

(* A step that works on the handle in one place, outside the send buffers  *)
(* and the queue, leaves the bytes in those alone.                         *)
LEMMA Untouched ==
  ASSUME IInv, NEW z \in Places, z[1] \in {"chunk", "recv"},
         \A h \in Handles : InUse(h) /\ h # Item(z) => handle'[h] = handle[h]
  PROVE  /\ Stream(handle', Contents) = Stream(handle, Contents)
         /\ \A q \in Producers : Stream(handle', sendBuf[q]) = Stream(handle, sendBuf[q])
         /\ \A q \in Producers : chunk[q] # NoItem /\ z # <<"chunk", q, 1>> =>
              BytesOf(handle', chunk[q]) = BytesOf(handle, chunk[q])
<1>1. ASSUME NEW x \in Places, x # z, Item(x) # NoItem, Item(x) \in Handles
      PROVE  handle'[Item(x)] = handle[Item(x)]
  <2>1. InUse(Item(x)) /\ Item(x) # Item(z)
    BY <1>1 DEF IInv, ExclusiveAccess
  <2> QED
    BY <1>1, <2>1
<1>2. NoItem \notin Handles
  BY QueueAssumption, StageAssumption
<1>3. ASSUME NEW i \in 1..Len(Contents)
      PROVE  handle'[Contents[i]] = handle[Contents[i]]
  <2>1. <<"queue", NoItem, i>> # z
    <3>1. <<"queue", NoItem, i>>[1] = "queue"
      OBVIOUS
    <3> QED
      BY <3>1
  <2>2. PICK x \in Places : x # z /\ Item(x) = Contents[i] /\ Item(x) \in Handles
    BY <2>1, Queued
  <2> QED
    BY <1>1, <1>2, <2>2
<1>4. ASSUME NEW q \in Producers, NEW i \in 1..Len(sendBuf[q])
      PROVE  handle'[sendBuf[q][i]] = handle[sendBuf[q][i]]
  <2>1. <<"send", q, i>> # z
    <3>1. <<"send", q, i>>[1] = "send"
      OBVIOUS
    <3> QED
      BY <3>1
  <2>2. PICK x \in Places : x # z /\ Item(x) = sendBuf[q][i] /\ Item(x) \in Handles
    BY <2>1, Sent
  <2> QED
    BY <1>1, <1>2, <2>2
<1>5. ASSUME NEW q \in Producers, chunk[q] # NoItem, z # <<"chunk", q, 1>>
      PROVE  BytesOf(handle', chunk[q]) = BytesOf(handle, chunk[q])
  <2>1. /\ <<"chunk", q, 1>> \in Places /\ Item(<<"chunk", q, 1>>) = chunk[q]
        /\ chunk[q] \in Handles
    BY <1>5, PlaceKinds, ItemIs, ChunkIs
  <2>2. handle'[chunk[q]] = handle[chunk[q]]
    BY <1>1, <1>5, <2>1
  <2> QED
    BY <2>2 DEF BytesOf
<1>6. \A q \in Producers : Stream(handle', sendBuf[q]) = Stream(handle, sendBuf[q])
  BY <1>4, StreamKept
<1>7. Stream(handle', Contents) = Stream(handle, Contents)
  BY <1>3, StreamKept
<1> QED
  BY <1>5, <1>6, <1>7

LEMMA UnsentSame ==
  ASSUME NEW q \in Producers, pc'[q] = pc[q], sendBuf'[q] = sendBuf[q], chunk'[q] = chunk[q],
         Stream(handle', sendBuf[q]) = Stream(handle, sendBuf[q]),
         chunk[q] # NoItem => BytesOf(handle', chunk[q]) = BytesOf(handle, chunk[q])
  PROVE  Unsent(q)' = Unsent(q)
  BY UnsentIs DEF UnsentOf

(* A step the channel does not see.                                        *)
LEMMA Silent ==
  ASSUME \A q \in Producers : Unsent(q)' = Unsent(q),
         Stream(handle', Contents') = Stream(handle, Contents), got' = got,
         \A t \in QThreads : pc'[t] = "end" <=> pc[t] = "end"
  PROVE  UNCHANGED Channel!vars
<1>1. /\ {p \in Producers : pc'[p] = "end"} = {p \in Producers : pc[p] = "end"}
      /\ {c \in Consumers : pc'[c] = "end"} = {c \in Consumers : pc[c] = "end"}
  BY Disjoint
<1>2. [p \in Producers |-> Unsent(p)]' = [p \in Producers |-> Unsent(p)]
  OBVIOUS
<1>3. AllBytes(Contents)' = AllBytes(Contents)
  BY StreamIs
<1> QED
  BY <1>1, <1>2, <1>3 DEF Channel!vars

(* A step that touches no handle, and of the queue only who waits.         *)
LEMMA SilentWait ==
  ASSUME UNCHANGED stageVars, handle' = handle, Contents' = Contents
  PROVE  UNCHANGED Channel!vars
<1>1. UNCHANGED <<pc, chunk, sendBuf, got>>
  BY DEF stageVars
<1>2. \A q \in Producers : Unsent(q)' = Unsent(q)
  BY <1>1, UnsentSame
<1> QED
  BY <1>1, <1>2, Silent

(* The step of a producer inside its own bytes.                            *)
LEMMA SilentRefine ==
  ASSUME IInv, NEW p \in Producers, NEW l \in Labels \ {"end"}, pc[p] # "end", Goto(p, l),
         Contents' = Contents, got' = got,
         \A q \in Producers \ {p} : chunk'[q] = chunk[q] /\ sendBuf'[q] = sendBuf[q],
         \A h \in Handles : InUse(h) /\ h # chunk[p] => handle'[h] = handle[h],
         UnsentOf(handle', l, sendBuf'[p], chunk'[p], p)
           = UnsentOf(handle, pc[p], sendBuf[p], chunk[p], p)
  PROVE  UNCHANGED Channel!vars
<1>1. pc'[p] = l /\ \A t \in QThreads \ {p} : pc'[t] = pc[t]
  BY Disjoint DEF IInv, StageInv, Goto
<1> DEFINE z == <<"chunk", p, 1>>
<1>2. z \in Places /\ Item(z) = chunk[p] /\ z[1] \in {"chunk", "recv"}
  BY PlaceKinds, ItemIs
<1>3. /\ Stream(handle', Contents) = Stream(handle, Contents)
      /\ \A q \in Producers : Stream(handle', sendBuf[q]) = Stream(handle, sendBuf[q])
      /\ \A q \in Producers : chunk[q] # NoItem /\ z # <<"chunk", q, 1>> =>
           BytesOf(handle', chunk[q]) = BytesOf(handle, chunk[q])
  <2> HIDE DEF z
  <2> QED
    BY <1>2, Untouched
<1>4. ASSUME NEW q \in Producers
      PROVE  Unsent(q)' = Unsent(q)
  <2>1. CASE q = p
    BY <1>1, <2>1, UnsentIs
  <2>2. CASE q # p
    <3>1. z # <<"chunk", q, 1>> /\ pc'[q] = pc[q]
      BY <1>1, <2>2, Disjoint
    <3> QED
      BY <1>3, <2>2, <3>1, UnsentSame
  <2> QED
    BY <2>1, <2>2
<1>5. \A t \in QThreads : pc'[t] = "end" <=> pc[t] = "end"
  BY <1>1
<1> QED
  BY <1>3, <1>4, <1>5, Silent

(* The bytes of a coarse chunk, when it is read and of its final size.     *)
LEMMA SourceIs ==
  ASSUME NEW p \in Producers, NEW H, H[<<p, 0>>].off = 0, H[<<p, 0>>].n = ChunkSize[p]
  PROVE  BytesOf(H, <<p, 0>>) = Source[p]
<1>1. PICK n \in Nat : n = ChunkSize[p]
  BY StageAssumption, MBufferAssumption
<1>2. BytesOf(H, <<p, 0>>) = [i \in 1..n |-> <<p, 0 + i - 1>>]
  BY <1>1 DEF BytesOf
<1>3. \A i \in 1..n : 0 + i - 1 = i - 1
  OBVIOUS
<1>4. BytesOf(H, <<p, 0>>) = [i \in 1..n |-> <<p, i - 1>>]
  BY <1>2, <1>3
<1> QED
  BY <1>1, <1>4 DEF Source

LEMMA ReadInputIsSilent ==
  ASSUME IInv, NEW p \in Producers, ReadInput(p)
  PROVE  UNCHANGED Channel!vars
<1> DEFINE h == <<p, 0>>
           new == [mcb |-> p, move |-> moves[p], off |-> 0, n |-> MaxSize]
<1>1. /\ pc[p] = "read" /\ ~InUse(h) /\ handle' = [handle EXCEPT ![h] = new]
      /\ chunk' = [chunk EXCEPT ![p] = h]
      /\ Goto(p, IF ChunkSize[p] < MaxSize THEN "shrink" ELSE "cut")
      /\ UNCHANGED <<queueVars, sendBuf, got>>
  BY DEF ReadInput, Create
<1>2. h \in Handles /\ h # NoItem
  BY StageAssumption, MBufferAssumption, QueueAssumption
<1>3. handle'[h].off = 0 /\ handle'[h].n = MaxSize
      /\ \A g \in Handles : InUse(g) => handle'[g] = handle[g]
  <2>1. handle'[h] = new /\ \A g \in Handles \ {h} : handle'[g] = handle[g]
    BY <1>1, <1>2 DEF IInv, BufferInv, MBufferTypeOK
  <2> QED
    BY <1>1, <2>1
<1>4. chunk'[p] = h /\ \A q \in Producers \ {p} : chunk'[q] = chunk[q]
  BY <1>1, <1>2 DEF IInv, StageInv
<1>5. sendBuf[p] = <<>> /\ sendBuf' = sendBuf
  BY <1>1 DEF IInv, StageInv, ProducerInv
<1>6. PICK l \in Labels \ {"end"} :
        Goto(p, l) /\ l = IF ChunkSize[p] < MaxSize THEN "shrink" ELSE "cut"
  BY <1>1 DEF Labels
<1>7. UnsentOf(handle', l, sendBuf'[p], chunk'[p], p) = Source[p]
  <2>1. CASE ChunkSize[p] < MaxSize
    BY <1>6, <2>1 DEF UnsentOf
  <2>2. CASE ~(ChunkSize[p] < MaxSize)
    <3>1. ChunkSize[p] = MaxSize
      BY <2>2, StageAssumption, MBufferAssumption
    <3>2. BytesOf(handle', h) = Source[p]
      BY <1>3, <3>1, SourceIs
    <3>3. Stream(handle', <<>>) = <<>>
      BY StreamEmpty
    <3>4. <<>> \o Source[p] = Source[p]
      <4>1. BytesOf(handle', h) \in Seq(Units)
        BY <1>2, <1>3, MBufferAssumption, BytesType
      <4> QED
        BY <3>2, <4>1, ConcatEmptySeq
    <3> QED
      BY <1>2, <1>4, <1>5, <1>6, <2>2, <3>2, <3>3, <3>4 DEF UnsentOf
  <2> QED
    BY <2>1, <2>2
<1>8. UnsentOf(handle, pc[p], sendBuf[p], chunk[p], p) = Source[p]
  BY <1>1 DEF UnsentOf
<1>9. Contents' = Contents
  BY <1>1, SameRing DEF queueVars
<1> QED
  BY <1>1, <1>3, <1>4, <1>5, <1>6, <1>7, <1>8, <1>9, SilentRefine

LEMMA ShrinkIsSilent ==
  ASSUME IInv, NEW p \in Producers, Shrink(p)
  PROVE  UNCHANGED Channel!vars
<1> DEFINE h == chunk[p]
<1>1. /\ pc[p] = "shrink" /\ Realloc(h, ChunkSize[p]) /\ Goto(p, "cut")
      /\ UNCHANGED <<queueVars, chunk, sendBuf, got>>
  BY DEF Shrink
<1>2. h = <<p, 0>> /\ h # NoItem /\ h \in Handles /\ sendBuf[p] = <<>>
  <2>1. ProducerInv(p) /\ h = <<p, 0>> /\ h # NoItem /\ sendBuf[p] = <<>>
    BY <1>1 DEF IInv, StageInv, ProducerInv
  <2> QED
    BY <2>1, ChunkIs
<1>3. /\ handle'[h].off = 0 /\ handle'[h].n = ChunkSize[p]
      /\ \A g \in Handles \ {h} : handle'[g] = handle[g]
  <2>1. PICK m \in 0..MaxMoves :
          handle' = [handle EXCEPT ![h] = [mcb |-> handle[h].mcb, move |-> m, off |-> 0,
                                           n |-> ChunkSize[p]]]
    BY <1>1 DEF Realloc
  <2> QED
    BY <1>2, <2>1 DEF IInv, BufferInv, MBufferTypeOK
<1>4. BytesOf(handle', h) = Source[p]
  BY <1>2, <1>3, SourceIs
<1>5. UnsentOf(handle', "cut", sendBuf'[p], chunk'[p], p) = Source[p]
  <2>1. BytesOf(handle', h) \in Seq(Units)
    BY <1>2, <1>3, StageAssumption, MBufferAssumption, BytesType
  <2>2. <<>> \o Source[p] = Source[p]
    BY <1>4, <2>1, ConcatEmptySeq
  <2>3. Stream(handle', <<>>) = <<>>
    BY StreamEmpty
  <2> QED
    BY <1>1, <1>2, <1>4, <2>2, <2>3 DEF UnsentOf
<1>6. UnsentOf(handle, pc[p], sendBuf[p], chunk[p], p) = Source[p]
  BY <1>1 DEF UnsentOf
<1>7. Contents' = Contents
  BY <1>1, SameRing DEF queueVars
<1>8. "cut" \in Labels \ {"end"}
  BY DEF Labels
<1> QED
  BY <1>1, <1>3, <1>5, <1>6, <1>7, <1>8, SilentRefine

LEMMA CutIsSilent ==
  ASSUME IInv, NEW p \in Producers, Cut(p)
  PROVE  UNCHANGED Channel!vars
<1> DEFINE h == chunk[p]
           b == sendBuf[p]
<1>1. PICK s \in 1..handle[h].n - 1 :
        /\ Split(h, <<p, handle[h].off + s>>, s)
        /\ chunk' = [chunk EXCEPT ![p] = <<p, handle[h].off + s>>]
  BY DEF Cut
<1> DEFINE g == <<p, handle[h].off + s>>
<1>2. /\ pc[p] = "cut" /\ sendBuf' = [sendBuf EXCEPT ![p] = Append(b, h)]
      /\ Goto(p, IF Len(sendBuf'[p]) = PerInsert THEN "enqueue" ELSE "cut")
      /\ UNCHANGED <<queueVars, got>>
  BY DEF Cut
<1>3. h # NoItem /\ h \in Handles /\ InUse(h) /\ h = <<p, handle[h].off>>
  <2>1. ProducerInv(p) /\ h # NoItem
    BY <1>2 DEF IInv, StageInv, ProducerInv
  <2> QED
    BY <2>1, ChunkIs
<1>4. PICK o \in Nat, n \in Nat : /\ o = handle[h].off /\ n = handle[h].n
                                  /\ o + n <= MaxSize /\ n <= MaxSize /\ s < n
  <2>1. /\ handle[h].off \in 0..MaxSize /\ handle[h].n \in 1..MaxSize
        /\ handle[h].off + handle[h].n <= size[handle[h].mcb]
        /\ handle[h].mcb \in Blocks
    BY <1>3, HandleInUse DEF IInv
  <2>2. size[handle[h].mcb] \in 0..MaxSize /\ MaxSize \in Nat
    BY <2>1, MBufferAssumption DEF IInv, BufferInv, MBufferTypeOK
  <2> QED
    BY <2>1, <2>2
<1>5. g \in Handles /\ g # h /\ g # NoItem /\ s \in 1..MaxSize /\ ~InUse(g)
  <2>1. o + s \in 0..MaxSize - 1 /\ o + s # o /\ MaxSize \in Nat /\ s \in 1..MaxSize
    BY <1>4, MBufferAssumption
  <2>2. g \in Handles /\ NoItem \notin Handles
    BY <1>4, <2>1, StageAssumption, QueueAssumption
  <2> QED
    BY <1>1, <1>3, <1>4, <2>1, <2>2 DEF Split
<1>6. /\ handle'[h].off = o /\ handle'[h].n = s
      /\ handle'[g].off = o + s /\ handle'[g].n = n - s
      /\ \A k \in Handles \ {g, h} : handle'[k] = handle[k]
  <2>1. \A k \in Handles :
          handle'[k] = IF k = g THEN [mcb |-> handle[h].mcb, move |-> handle[h].move,
                                      off |-> handle[h].off + s, n |-> handle[h].n - s]
                       ELSE IF k = h THEN [mcb |-> handle[h].mcb, move |-> handle[h].move,
                                           off |-> handle[h].off, n |-> s]
                       ELSE handle[k]
    <3>1. PICK t \in 1..MaxSize : t = s
      BY <1>5
    <3>2. BufferInv /\ h \in Handles /\ g \in Handles /\ Split(h, g, t)
      BY <1>1, <1>3, <1>5, <3>1 DEF IInv
    <3> HIDE DEF h, g
    <3>3. \A k \in Handles :
            handle'[k] = IF k = g THEN [mcb |-> handle[h].mcb, move |-> handle[h].move,
                                        off |-> handle[h].off + t, n |-> handle[h].n - t]
                         ELSE IF k = h THEN [mcb |-> handle[h].mcb, move |-> handle[h].move,
                                             off |-> handle[h].off, n |-> t]
                         ELSE handle[k]
      BY <3>2, SplitIs
    <3> QED
      BY <3>1, <3>3, Zenon
  <2> QED
    BY <1>3, <1>4, <1>5, <2>1
<1>7. chunk'[p] = g /\ sendBuf'[p] = Append(b, h)
      /\ \A q \in Producers \ {p} : chunk'[q] = chunk[q] /\ sendBuf'[q] = sendBuf[q]
  BY <1>1, <1>2, <1>5 DEF IInv, StageInv
<1>8. PICK l \in Labels \ {"end"} : Goto(p, l) /\ l \notin {"read", "shrink"}
  BY <1>2 DEF Labels
(* The bytes of the two parts are the bytes of the chunk.                  *)
<1>9. /\ BytesOf(handle', h) \in Seq(Units) /\ BytesOf(handle', g) \in Seq(Units)
      /\ BytesOf(handle', h) \o BytesOf(handle', g) = BytesOf(handle, h)
  <2>1. /\ BytesOf(handle, h) \in Seq(Units) /\ Len(BytesOf(handle, h)) = n
        /\ BytesOf(handle', h) \in Seq(Units) /\ Len(BytesOf(handle', h)) = s
        /\ BytesOf(handle', g) \in Seq(Units) /\ Len(BytesOf(handle', g)) = n - s
    <3>1. n \in Nat \ {0} /\ s \in Nat \ {0} /\ n - s \in Nat \ {0} /\ o + s \in Nat
      BY <1>4
    <3>2. BytesOf(handle, h) \in Seq(Units) /\ Len(BytesOf(handle, h)) = n
      BY <1>3, <1>4, <3>1, BytesType
    <3>3. BytesOf(handle', h) \in Seq(Units) /\ Len(BytesOf(handle', h)) = s
      BY <1>3, <1>6, <3>1, BytesType
    <3>4. BytesOf(handle', g) \in Seq(Units) /\ Len(BytesOf(handle', g)) = n - s
      BY <1>5, <1>6, <3>1, BytesType
    <3> QED
      BY <3>2, <3>3, <3>4
  <2>2. PICK u : u = BytesOf(handle', h) \o BytesOf(handle', g)
    OBVIOUS
  <2>3. /\ u \in Seq(Units) /\ Len(u) = n
        /\ \A i \in 1..n : u[i] = IF i <= s THEN BytesOf(handle', h)[i]
                                  ELSE BytesOf(handle', g)[i - s]
    <3>1. PICK v \in Seq(Units), w \in Seq(Units) : v = BytesOf(handle', h) /\ w = BytesOf(handle', g)
      BY <2>1
    <3>2. /\ v \o w \in Seq(Units) /\ Len(v \o w) = Len(v) + Len(w)
          /\ \A i \in 1..Len(v) + Len(w) : (v \o w)[i] = IF i <= Len(v) THEN v[i] ELSE w[i - Len(v)]
      BY ConcatProperties
    <3>3. Len(v) = s /\ Len(w) = n - s /\ s + (n - s) = n
      BY <1>4, <2>1, <3>1
    <3> QED
      BY <2>2, <3>1, <3>2, <3>3
  <2>4. ASSUME NEW i \in 1..n
        PROVE  u[i] = BytesOf(handle, h)[i]
    <3>1. BytesOf(handle, h)[i] = <<p, o + i - 1>>
      BY <1>3, <1>4 DEF BytesOf
    <3>2. CASE i <= s
      <4>1. BytesOf(handle', h)[i] = <<p, o + i - 1>>
        BY <1>3, <1>6, <3>2 DEF BytesOf
      <4> QED
        BY <2>3, <3>1, <3>2, <4>1
    <3>3. CASE ~(i <= s)
      <4>1. PICK j \in 1..n - s : j = i - s /\ (o + s) + j - 1 = o + i - 1
        BY <1>4, <3>3
      <4>2. BytesOf(handle', g)[j] = <<p, (o + s) + j - 1>>
        BY <1>6, <4>1 DEF BytesOf
      <4> QED
        BY <2>3, <3>1, <3>3, <4>1, <4>2
    <3> QED
      BY <3>2, <3>3
  <2>5. u = BytesOf(handle, h)
    BY <2>1, <2>3, <2>4, SeqEqual
  <2> QED
    BY <2>1, <2>2, <2>5
<1>10. Ranges(handle', b) /\ Stream(handle', b) = Stream(handle, b)
  <2>1. ASSUME NEW i \in 1..Len(b)
        PROVE  handle'[b[i]] = handle[b[i]]
    <3>1. b[i] # h
      <4>1. Item(<<"chunk", p, 1>>) = h /\ <<"chunk", p, 1>> \in Places
        BY ItemIs, PlaceKinds
      <4>2. <<"chunk", p, 1>> # <<"send", p, i>>
        OBVIOUS
      <4>3. /\ <<"send", p, i>> \in Places /\ Item(<<"send", p, i>>) = b[i]
        BY Sent
      <4> QED
        BY <1>3, <4>1, <4>2, <4>3 DEF IInv, ExclusiveAccess
    <3>2. b[i] # g /\ b[i] \in Handles
      BY <1>5, Sent
    <3> QED
      BY <1>6, <3>1, <3>2
  <2>2. Ranges(handle, b)
    BY RangesNow
  <2> QED
    BY <2>1, <2>2, StreamKept DEF Ranges
<1>11. UnsentOf(handle', l, sendBuf'[p], chunk'[p], p)
         = UnsentOf(handle, pc[p], sendBuf[p], chunk[p], p)
  <2>1. Stream(handle', Append(b, h)) = Stream(handle', b) \o BytesOf(handle', h)
    <3>1. handle'[h].n \in Nat \ {0} /\ handle'[h].off \in Nat
      BY <1>4, <1>6
    <3> QED
      BY <1>3, <1>10, <3>1, StreamAppend
  <2>2. PICK f \in Seq(Units) : f = Stream(handle', b)
    BY <1>10, PiecesType
  <2>3. (f \o BytesOf(handle', h)) \o BytesOf(handle', g) = f \o BytesOf(handle, h)
    <3>1. PICK v \in Seq(Units), w \in Seq(Units) : v = BytesOf(handle', h) /\ w = BytesOf(handle', g)
      BY <1>9
    <3>2. (f \o v) \o w = f \o (v \o w)
      BY ConcatAssociative
    <3> QED
      BY <1>9, <3>1, <3>2
  <2>4. UnsentOf(handle', l, sendBuf'[p], chunk'[p], p) = (f \o BytesOf(handle', h)) \o BytesOf(handle', g)
    BY <1>5, <1>7, <1>8, <2>1, <2>2 DEF UnsentOf
  <2>5. UnsentOf(handle, pc[p], b, h, p) = f \o BytesOf(handle, h)
    BY <1>2, <1>3, <1>10, <2>2 DEF UnsentOf
  <2> QED
    BY <2>3, <2>4, <2>5
<1>12. Contents' = Contents
  BY <1>2, SameRing DEF queueVars
<1>13. \A k \in Handles : InUse(k) /\ k # chunk[p] => handle'[k] = handle[k]
  BY <1>5, <1>6
<1> QED
  BY <1>2, <1>7, <1>8, <1>11, <1>12, <1>13, SilentRefine

LEMMA LastPieceIsSilent ==
  ASSUME IInv, NEW p \in Producers, LastPiece(p)
  PROVE  UNCHANGED Channel!vars
<1> DEFINE h == chunk[p]
           b == sendBuf[p]
<1>1. /\ pc[p] = "cut" /\ sendBuf' = [sendBuf EXCEPT ![p] = Append(b, h)]
      /\ chunk' = [chunk EXCEPT ![p] = NoItem] /\ Goto(p, "enqueue")
      /\ UNCHANGED <<queueVars, mbVars, got>>
  BY DEF LastPiece
<1>2. h # NoItem /\ h \in Handles /\ InUse(h)
  <2>1. ProducerInv(p) /\ h # NoItem
    BY <1>1 DEF IInv, StageInv, ProducerInv
  <2> QED
    BY <2>1, ChunkIs
<1>3. handle' = handle /\ Contents' = Contents
  BY <1>1, SameRing DEF mbVars, queueVars
<1>4. chunk'[p] = NoItem /\ sendBuf'[p] = Append(b, h)
      /\ \A q \in Producers \ {p} : chunk'[q] = chunk[q] /\ sendBuf'[q] = sendBuf[q]
  BY <1>1 DEF IInv, StageInv
<1>5. UnsentOf(handle', "enqueue", sendBuf'[p], chunk'[p], p)
        = UnsentOf(handle, pc[p], sendBuf[p], chunk[p], p)
  <2>1. /\ Ranges(handle, b) /\ handle[h].n \in Nat \ {0} /\ handle[h].off \in Nat
    BY <1>2, RangesNow, FieldsNow
  <2>2. /\ Stream(handle, Append(b, h)) = Stream(handle, b) \o BytesOf(handle, h)
        /\ Stream(handle, Append(b, h)) \in Seq(Units)
    BY <1>2, <2>1, StreamAppend, PiecesType
  <2>3. Stream(handle, Append(b, h)) \o <<>> = Stream(handle, Append(b, h))
    BY <2>2, ConcatEmptySeq
  <2> QED
    BY <1>1, <1>2, <1>3, <1>4, <2>2, <2>3 DEF UnsentOf
<1>6. "enqueue" \in Labels \ {"end"}
  BY DEF Labels
<1> QED
  BY <1>1, <1>3, <1>4, <1>5, <1>6, SilentRefine

LEMMA FreeIsSilent ==
  ASSUME IInv, NEW c \in Consumers, Free(c)
  PROVE  UNCHANGED Channel!vars
<1> DEFINE h == Head(recvBuf[c])
           y == <<"recv", c, 1>>
<1>1. /\ pc[c] = "use" /\ FreeRef(c, h)
      /\ Goto(c, IF recvBuf'[c] = <<>> THEN "dequeue" ELSE "use")
      /\ UNCHANGED <<queueVars, chunk, sendBuf, got>>
  BY DEF Free
<1>2. y \in Places /\ Item(y) = h /\ y[1] \in {"chunk", "recv"}
  <2>1. PICK s \in Seq(Handles) : s = recvBuf[c] /\ s # <<>>
    BY <1>1 DEF IInv, StageInv, ConsumerInv
  <2>2. Head(s) = s[1] /\ 1 <= Len(s) /\ 1 \in 1..PerFetch
    BY <2>1, StageAssumption
  <2> QED
    BY <2>1, <2>2, PlaceKinds, ItemIs DEF Nth
<1>3. \A g \in Handles : InUse(g) /\ g # Item(y) => handle'[g] = handle[g]
  <2>1. handle' = [handle EXCEPT ![h] = None]
    BY <1>1 DEF FreeRef
  <2> QED
    BY <1>2, <2>1 DEF IInv, BufferInv, MBufferTypeOK
<1>4. \A q \in Producers : y # <<"chunk", q, 1>>
  <2>1. ASSUME NEW q \in Producers
        PROVE  y # <<"chunk", q, 1>>
    OBVIOUS
  <2> QED
    BY <2>1
<1> HIDE DEF y, h
<1>5. /\ Stream(handle', Contents) = Stream(handle, Contents)
      /\ \A q \in Producers : Stream(handle', sendBuf[q]) = Stream(handle, sendBuf[q])
      /\ \A q \in Producers : chunk[q] # NoItem =>
           BytesOf(handle', chunk[q]) = BytesOf(handle, chunk[q])
  BY <1>2, <1>3, <1>4, Untouched
<1>6. PICK l \in {"dequeue", "use"} : Goto(c, l)
  BY <1>1
<1>7. pc'[c] = l /\ \A t \in QThreads \ {c} : pc'[t] = pc[t]
  BY <1>6, Disjoint DEF IInv, StageInv, Goto
<1>8. ASSUME NEW q \in Producers
      PROVE  Unsent(q)' = Unsent(q)
  <2>1. pc'[q] = pc[q]
    BY <1>7, Disjoint
  <2> QED
    BY <1>1, <1>5, <2>1, UnsentSame
<1>9. Contents' = Contents
  BY <1>1, SameRing DEF queueVars
<1>10. \A t \in QThreads : pc'[t] = "end" <=> pc[t] = "end"
  BY <1>1, <1>7
<1> QED
  BY <1>1, <1>5, <1>8, <1>9, <1>10, Silent

LEMMA EnqueueIsSend ==
  ASSUME IInv, NEW p \in Producers, EnqueueBatch(p)
  PROVE  Channel!Send(p)
<1> DEFINE b == sendBuf[p]
           rest == IF chunk[p] = NoItem THEN <<>> ELSE BytesOf(handle, chunk[p])
<1>1. /\ pc[p] = "enqueue" /\ Enqueue(p, b, PerInsert)
      /\ sendBuf' = [sendBuf EXCEPT ![p] = SubSeq(b, NumToEnqueue(b, PerInsert) + 1, Len(b))]
      /\ Goto(p, IF chunk[p] # NoItem THEN "cut"
                 ELSE IF sendBuf'[p] # <<>> THEN "enqueue" ELSE "terminate")
      /\ UNCHANGED <<mbVars, chunk, got>>
  BY DEF EnqueueBatch
<1>2. /\ b \in Seq(Handles) /\ b # <<>> /\ PerInsert \in Nat \ {0} /\ p \in QThreads
  BY <1>1, StageAssumption, Disjoint DEF IInv, StageInv, ProducerInv
<1>3. PICK k \in 1..Len(b) : k = NumToEnqueue(b, PerInsert)
  BY <1>1, <1>2, EnqueueKeeps DEF IInv
<1>4. Contents' = Contents \o SubSeq(b, 1, k) /\ handle' = handle
  BY <1>1, <1>2, <1>3, EnqueueKeeps DEF IInv, mbVars
<1>5. PICK l \in {"cut", "enqueue", "terminate"} : Goto(p, l)
  BY <1>1
<1>6. pc'[p] = l /\ \A t \in QThreads \ {p} : pc'[t] = pc[t]
  BY <1>5, Disjoint DEF IInv, StageInv, Goto
<1>7. /\ sendBuf'[p] = SubSeq(b, k + 1, Len(b)) /\ chunk'[p] = chunk[p]
      /\ \A q \in Producers \ {p} : sendBuf'[q] = sendBuf[q] /\ chunk'[q] = chunk[q]
  BY <1>1, <1>3 DEF IInv, StageInv
<1>8. PICK x, y : x = Stream(handle, SubSeq(b, 1, k)) /\ y = Stream(handle, SubSeq(b, k + 1, Len(b)))
  OBVIOUS
<1>9. /\ Ranges(handle, SubSeq(b, 1, k)) /\ Ranges(handle, SubSeq(b, k + 1, Len(b)))
      /\ Stream(handle, b) = x \o y /\ Len(x) \in Nat \ {0}
  BY <1>3, <1>8, RangesNow, StreamCut
<1>10. x \in Seq(Units) /\ y \in Seq(Units)
  BY <1>8, <1>9, PiecesType
<1>11. rest \in Seq(Units)
  <2>1. CASE chunk[p] = NoItem
    BY <2>1, EmptySeq
  <2>2. CASE chunk[p] # NoItem
    BY <2>2, ChunkIs, FieldsNow, BytesType
  <2> QED
    BY <2>1, <2>2
<1>12. Unsent(p) = (x \o y) \o rest /\ Unsent(p)' = y \o rest
  BY <1>1, <1>4, <1>6, <1>7, <1>8, <1>9, UnsentIs DEF UnsentOf
<1> HIDE DEF rest
<1>13. (x \o y) \o rest = x \o (y \o rest)
  <2>1. PICK z \in Seq(Units) : z = rest
    BY <1>11
  <2>2. (x \o y) \o z = x \o (y \o z)
    BY <1>10, ConcatAssociative
  <2> QED
    BY <2>1, <2>2
<1>14. PICK z \in Seq(Units) : z = y \o rest
  BY <1>10, <1>11, ConcatProperties
<1>15. PICK m \in Nat \ {0} : m = Len(x)
  BY <1>9
<1>16. /\ Unsent(p) = x \o z /\ Unsent(p)' = z
       /\ m \in 1..Len(Unsent(p))
       /\ SubSeq(Unsent(p), 1, m) = x
       /\ SubSeq(Unsent(p), m + 1, Len(Unsent(p))) = z
  <2>1. Unsent(p) = x \o z /\ Unsent(p)' = z
    BY <1>12, <1>13, <1>14
  <2>2. SubSeq(x \o z, 1, m) = x /\ SubSeq(x \o z, m + 1, Len(x \o z)) = z
    BY <1>10, <1>15, Parted
  <2>3. Len(x \o z) = m + Len(z) /\ Len(z) \in Nat
    BY <1>10, <1>15, ConcatProperties, LenProperties
  <2>4. m \in 1..Len(x \o z)
    BY <2>3
  <2> QED
    BY <2>1, <2>2, <2>4
<1>17. AllBytes(Contents)' = AllBytes(Contents) \o SubSeq(Unsent(p), 1, m)
  <2>1. Stream(handle, Contents \o SubSeq(b, 1, k)) = Stream(handle, Contents) \o x
    BY <1>8, <1>9, RangesNow, StreamConcat
  <2> QED
    BY <1>4, <1>16, <2>1, StreamIs
<1>18. ASSUME NEW q \in Producers \ {p}
       PROVE  Unsent(q)' = Unsent(q)
  <2>1. pc'[q] = pc[q]
    BY <1>6, Disjoint
  <2> QED
    BY <1>4, <1>7, <2>1, UnsentSame
<1>19. [q \in Producers |-> Unsent(q)]'
         = [[q \in Producers |-> Unsent(q)] EXCEPT
              ![p] = SubSeq(Unsent(p), m + 1, Len(Unsent(p)))]
  BY <1>16, <1>18
<1>20. /\ {q \in Producers : pc'[q] = "end"} = {q \in Producers : pc[q] = "end"}
       /\ {c \in Consumers : pc'[c] = "end"} = {c \in Consumers : pc[c] = "end"}
       /\ p \notin {q \in Producers : pc[q] = "end"}
  BY <1>1, <1>6, Disjoint
<1>21. [q \in Producers |-> Unsent(q)][p] = Unsent(p)
  OBVIOUS
<1> QED
  BY <1>1, <1>16, <1>17, <1>19, <1>20, <1>21 DEF Channel!Send

LEMMA TerminateIsClose ==
  ASSUME IInv, NEW p \in Producers, TerminateQueue(p)
  PROVE  Channel!Close(p)
<1>1. /\ pc[p] = "terminate" /\ Terminate(p) /\ Goto(p, "end")
      /\ UNCHANGED <<mbVars, chunk, sendBuf, got>>
  BY DEF TerminateQueue
<1>2. chunk[p] = NoItem /\ sendBuf[p] = <<>>
  BY <1>1 DEF IInv, StageInv, ProducerInv
<1>3. handle' = handle /\ Contents' = Contents
  BY <1>1, SameRing DEF mbVars, Terminate
<1>4. pc'[p] = "end" /\ \A t \in QThreads \ {p} : pc'[t] = pc[t]
  BY <1>1, Disjoint DEF IInv, StageInv, Goto
<1>5. Unsent(p) = <<>> /\ Unsent(p)' = <<>>
  <2>1. <<>> \o <<>> = <<>>
    BY EmptySeq, ConcatEmptySeq
  <2> QED
    BY <1>1, <1>2, <1>3, <1>4, <2>1, UnsentIs, StreamEmpty DEF UnsentOf
<1>6. ASSUME NEW q \in Producers \ {p}
      PROVE  Unsent(q)' = Unsent(q)
  <2>1. pc'[q] = pc[q]
    BY <1>4, Disjoint
  <2> QED
    BY <1>1, <1>3, <2>1, UnsentSame
<1>7. [q \in Producers |-> Unsent(q)]' = [q \in Producers |-> Unsent(q)]
  BY <1>5, <1>6
<1>8. /\ {q \in Producers : pc'[q] = "end"} = {q \in Producers : pc[q] = "end"} \cup {p}
      /\ {c \in Consumers : pc'[c] = "end"} = {c \in Consumers : pc[c] = "end"}
      /\ p \notin {q \in Producers : pc[q] = "end"}
  BY <1>1, <1>4, Disjoint
<1>9. AllBytes(Contents)' = AllBytes(Contents)
  BY <1>3, StreamIs
<1>10. [q \in Producers |-> Unsent(q)][p] = <<>>
  BY <1>5
<1> QED
  BY <1>1, <1>7, <1>8, <1>9, <1>10 DEF Channel!Close

LEMMA DequeueIsReceive ==
  ASSUME IInv, NEW c \in Consumers, DequeueBatch(c)
  PROVE  Channel!Receive(c)
<1>1. /\ pc[c] = "dequeue" /\ Dequeue(c, PerFetch) /\ Goto(c, "use")
      /\ recvBuf' = [recvBuf EXCEPT ![c] = SubSeq(Contents, 1, NumToDequeue(PerFetch))]
      /\ got' = [got EXCEPT ![c] = got[c] \cup ToSet(AllBytes(recvBuf'[c]))]
      /\ UNCHANGED <<mbVars, chunk, sendBuf>>
  BY DEF DequeueBatch
<1>2. PerFetch \in Nat \ {0} /\ c \in QThreads
  BY StageAssumption, Disjoint
<1>3. Len(Contents) = Used
  BY ContentsAre DEF IInv
<1>4. PICK k \in 1..Len(Contents) : k = NumToDequeue(PerFetch)
  BY <1>1, <1>2, <1>3, DequeueKeeps DEF IInv
<1>5. Contents' = SubSeq(Contents, k + 1, Len(Contents)) /\ handle' = handle
  BY <1>1, <1>2, <1>3, <1>4, DequeueKeeps DEF IInv, mbVars
<1>6. pc'[c] = "use" /\ \A t \in QThreads \ {c} : pc'[t] = pc[t]
  BY <1>1, Disjoint DEF IInv, StageInv, Goto
<1>7. recvBuf'[c] = SubSeq(Contents, 1, k)
  BY <1>1, <1>4 DEF IInv, StageInv
<1>8. PICK x, y : /\ x = Stream(handle, SubSeq(Contents, 1, k))
                  /\ y = Stream(handle, SubSeq(Contents, k + 1, Len(Contents)))
  OBVIOUS
<1>9. /\ Stream(handle, Contents) = x \o y /\ Len(x) \in Nat \ {0}
      /\ x \in Seq(Units) /\ y \in Seq(Units)
  <2>1. /\ Ranges(handle, SubSeq(Contents, 1, k))
        /\ Ranges(handle, SubSeq(Contents, k + 1, Len(Contents)))
        /\ Stream(handle, Contents) = x \o y /\ Len(x) \in Nat \ {0}
    BY <1>4, <1>8, RangesNow, StreamCut
  <2> QED
    BY <1>8, <2>1, PiecesType
<1>10. PICK m \in Nat \ {0} : m = Len(x)
  BY <1>9
<1>11. /\ AllBytes(Contents) = x \o y /\ AllBytes(Contents)' = y
       /\ m \in 1..Len(x \o y)
       /\ SubSeq(x \o y, 1, m) = x /\ SubSeq(x \o y, m + 1, Len(x \o y)) = y
  <2>1. AllBytes(Contents) = x \o y /\ AllBytes(Contents)' = y
    BY <1>5, <1>8, <1>9, StreamIs
  <2>2. SubSeq(x \o y, 1, m) = x /\ SubSeq(x \o y, m + 1, Len(x \o y)) = y
    BY <1>9, <1>10, Parted
  <2>3. Len(x \o y) = m + Len(y) /\ Len(y) \in Nat
    BY <1>9, <1>10, ConcatProperties, LenProperties
  <2>4. m \in 1..Len(x \o y)
    BY <2>3
  <2> QED
    BY <2>1, <2>2, <2>4
<1>12. ToSet(AllBytes(recvBuf'[c])) = Channel!UnitsOf(SubSeq(AllBytes(Contents), 1, m))
  <2>1. AllBytes(recvBuf'[c]) = x
    BY <1>7, <1>8 DEF AllBytes, Bytes, Stream, BytesOf
  <2>2. DOMAIN x = 1..Len(x)
    BY <1>9, LenProperties
  <2> QED
    BY <1>11, <2>1, <2>2 DEF ToSet, Channel!UnitsOf
<1>13. ASSUME NEW q \in Producers
       PROVE  Unsent(q)' = Unsent(q)
  <2>1. pc'[q] = pc[q]
    BY <1>6, Disjoint
  <2> QED
    BY <1>1, <1>5, <2>1, UnsentSame
<1>14. /\ {q \in Producers : pc'[q] = "end"} = {q \in Producers : pc[q] = "end"}
       /\ {d \in Consumers : pc'[d] = "end"} = {d \in Consumers : pc[d] = "end"}
       /\ c \notin {d \in Consumers : pc[d] = "end"}
  BY <1>1, <1>6, Disjoint
<1>15. [q \in Producers |-> Unsent(q)]' = [q \in Producers |-> Unsent(q)]
  BY <1>13
<1>16. got' = [got EXCEPT ![c] = got[c] \cup Channel!UnitsOf(SubSeq(AllBytes(Contents), 1, m))]
  BY <1>1, <1>12
<1>17. AllBytes(Contents)' = SubSeq(AllBytes(Contents), m + 1, Len(AllBytes(Contents)))
       /\ m \in 1..Len(AllBytes(Contents))
  BY <1>11
<1> QED
  BY <1>14, <1>15, <1>16, <1>17 DEF Channel!Receive

LEMMA StopIsEnd ==
  ASSUME IInv, NEW c \in Consumers, DequeueStops(c)
  PROVE  Channel!End(c)
<1>1. /\ pc[c] = "dequeue" /\ DequeueEnd(c) /\ Goto(c, "end")
      /\ UNCHANGED <<mbVars, chunk, sendBuf, got>>
  BY DEF DequeueStops
<1>2. IsEmpty /\ nTerminated = NProducers /\ UNCHANGED <<data, head, tail>>
  BY <1>1 DEF DequeueEnd, MustWaitToDequeue, QueueTerminated
<1>3. handle' = handle /\ Contents' = Contents
  BY <1>1, <1>2, SameRing DEF mbVars
<1>4. pc'[c] = "end" /\ \A t \in QThreads \ {c} : pc'[t] = pc[t]
  BY <1>1, Disjoint DEF IInv, StageInv, Goto
<1>5. AllBytes(Contents) = <<>>
  <2>1. Contents = <<>>
    BY <1>2, UsedIs, ContentsAre, EmptySeq DEF IInv
  <2> QED
    BY <2>1, StreamIs, StreamEmpty
<1>6. {q \in Producers : pc[q] = "end"} = Producers
  <2>1. Cardinality(Ended) = NProducers
    BY <1>2 DEF IInv, StageInv, Ended
  <2> QED
    BY <2>1, EndedFinite DEF Ended
<1>7. ASSUME NEW q \in Producers
      PROVE  Unsent(q)' = Unsent(q)
  <2>1. pc'[q] = pc[q]
    BY <1>4, Disjoint
  <2> QED
    BY <1>1, <1>3, <2>1, UnsentSame
<1>8. [q \in Producers |-> Unsent(q)]' = [q \in Producers |-> Unsent(q)]
  BY <1>7
<1>9. /\ {q \in Producers : pc'[q] = "end"} = {q \in Producers : pc[q] = "end"}
      /\ {d \in Consumers : pc'[d] = "end"} = {d \in Consumers : pc[d] = "end"} \cup {c}
      /\ c \notin {d \in Consumers : pc[d] = "end"}
  BY <1>1, <1>4, Disjoint
<1>10. AllBytes(Contents)' = AllBytes(Contents)
  BY <1>3, StreamIs
<1> QED
  BY <1>1, <1>5, <1>6, <1>8, <1>9, <1>10 DEF Channel!End

LEMMA ChannelInit == Init => Channel!Init
<1> SUFFICES ASSUME Init
             PROVE  Channel!Init
  OBVIOUS
<1>1. /\ pc = [t \in QThreads |-> IF t \in Producers THEN "read" ELSE "dequeue"]
      /\ got = [c \in Consumers |-> {}]
  BY DEF Init
<1>2. \A p \in Producers : Unsent(p) = Source[p]
  BY <1>1, Disjoint DEF Unsent
<1>3. [p \in Producers |-> Unsent(p)] = Source
  BY <1>2 DEF Source
<1>4. AllBytes(Contents) = <<>>
  <2>1. IInv /\ IsEmpty
    BY StageInit DEF Init, QueueInit, IsEmpty
  <2>2. Contents = <<>>
    BY <2>1, UsedIs, ContentsAre, EmptySeq DEF IInv
  <2> QED
    BY <2>2, StreamIs, StreamEmpty
<1>5. {p \in Producers : pc[p] = "end"} = {} /\ {c \in Consumers : pc[c] = "end"} = {}
  BY <1>1, Disjoint
<1> QED
  BY <1>1, <1>3, <1>4, <1>5 DEF Channel!Init

LEMMA NextIsChannel == IInv /\ [Next]_vars => [Channel!Next]_(Channel!vars)
<1> SUFFICES ASSUME IInv, [Next]_vars
             PROVE  Channel!Next \/ UNCHANGED Channel!vars
  OBVIOUS
<1>1. ASSUME UNCHANGED <<data, head, tail, mbVars, stageVars>>
      PROVE  UNCHANGED Channel!vars
  BY <1>1, SameRing, SilentWait DEF mbVars
<1>2. ASSUME NEW p \in Producers, Refine(p)
      PROVE  Channel!Next \/ UNCHANGED Channel!vars
  <2>1. CASE EnqueueWaits(p)
    BY <1>1, <2>1 DEF EnqueueWaits, WaitNotFull
  <2>2. CASE EnqueueBatch(p)
    BY <2>2, EnqueueIsSend DEF Channel!Next
  <2>3. CASE TerminateQueue(p)
    BY <2>3, TerminateIsClose DEF Channel!Next
  <2> QED
    BY <1>2, <2>1, <2>2, <2>3, ReadInputIsSilent, ShrinkIsSilent, CutIsSilent,
       LastPieceIsSilent DEF Refine
<1>3. ASSUME NEW c \in Consumers, Consume(c)
      PROVE  Channel!Next \/ UNCHANGED Channel!vars
  <2>1. CASE DequeueWaits(c)
    BY <1>1, <2>1 DEF DequeueWaits, WaitNotEmpty
  <2>2. CASE DequeueBatch(c)
    BY <2>2, DequeueIsReceive DEF Channel!Next
  <2>3. CASE DequeueStops(c)
    BY <2>3, StopIsEnd DEF Channel!Next
  <2>4. CASE Release(c)
    BY <2>4, SameRing, SilentWait DEF Release, FreeBlock, queueVars
  <2> QED
    BY <1>3, <2>1, <2>2, <2>3, <2>4, FreeIsSilent DEF Consume
<1>4. ASSUME NEW t \in QThreads, Spurious(t)
      PROVE  UNCHANGED Channel!vars
  BY <1>1, <1>4 DEF Spurious, SpuriousWakeup
<1>5. ASSUME UNCHANGED vars
      PROVE  UNCHANGED Channel!vars
  BY <1>1, <1>5 DEF vars, queueVars
<1> QED
  BY <1>2, <1>3, <1>4, <1>5 DEF Next, Finished

(* The safety of the channel: each byte of a coarse chunk is sent once, in *)
(* order, and received once by one consumer; a producer closes when it has *)
(* sent all its bytes, and a consumer is told of the end only when every   *)
(* producer has closed and nothing is left.  (queue.c under encoder.c)     *)
THEOREM ChannelImplemented == Spec => Channel!ChannelSafety
  BY ChannelInit, NextIsChannel, Invariance, PTL DEF Spec, Channel!ChannelSafety
=============================================================================
