------------------------------- MODULE MBuffer -------------------------------
(***************************************************************************)
(* The memory buffers of dedup (K/dedup/src/mbuffer.c, mbuffer.h).  A      *)
(* buffer (mbuffer_t, here a handle) names a range of a block of memory.   *)
(* Handles on the same block share a control block (mcb_t) with a          *)
(* reference counter and the pointer to give to free().  The counter is    *)
(* only touched under a spin lock chosen by the address of the control     *)
(* block, so that each critical section is one step here.  The callers     *)
(* guarantee exclusive access to a handle (mbuffer.h:9-13): two threads    *)
(* meet at a control block, never at a handle.                             *)
(*                                                                         *)
(* mbuffer_free is two steps: the critical section, and the release of the *)
(* memory by the thread that counted down to zero, after it has unlocked.  *)
(* realloc may move a block, which a handle keeps apart by the number of   *)
(* the move its pointer is from.                                           *)
(***************************************************************************)
EXTENDS Naturals, FiniteSets

CONSTANTS Handles,    \* mbuffer_t structures
          Blocks,     \* addresses malloc returns, never the same one twice
          Releasers,  \* threads that call mbuffer_free
          MaxSize,    \* bound on the size of a block
          MaxMoves,   \* bound on the number of times realloc moves a block
          None

ASSUME MBufferAssumption ==
  /\ MaxSize \in Nat \ {0} /\ MaxMoves \in Nat
  /\ None \notin Blocks
  /\ IsFiniteSet(Handles)

VARIABLES count,   \* mcb->i
          mem,     \* "unused", "live" or "freed"
          size,    \* bytes malloc or realloc gave to the block
          moves,   \* number of times realloc moved the block
          handle,  \* the fields of each mbuffer_t, or None when not in use
          dying    \* the block a thread has counted down to zero and must free
mbVars == <<count, mem, size, moves, handle, dying>>

Fields == [mcb : Blocks, move : 0..MaxMoves, off : 0..MaxSize, n : 1..MaxSize]

ASSUME NoneIsNoHandle == None \notin Fields

(* Every field keeps its type.  (mbuffer_t and mcb_t)                      *)
MBufferTypeOK ==
  /\ count \in [Blocks -> Nat]
  /\ mem \in [Blocks -> {"unused", "live", "freed"}]
  /\ size \in [Blocks -> 0..MaxSize]
  /\ moves \in [Blocks -> 0..MaxMoves]
  /\ handle \in [Handles -> Fields \cup {None}]
  /\ dying \in [Releasers -> Blocks \cup {None}]

MBufferInit ==
  /\ count = [b \in Blocks |-> 0]
  /\ mem = [b \in Blocks |-> "unused"]
  /\ size = [b \in Blocks |-> 0]
  /\ moves = [b \in Blocks |-> 0]
  /\ handle = [h \in Handles |-> None]
  /\ dying = [t \in Releasers |-> None]

InUse(h) == handle[h] # None
Holders(b) == {h \in Handles : InUse(h) /\ handle[h].mcb = b}
-----------------------------------------------------------------------------
(* mbuffer_create: a new block with one handle on all of it.               *)
Create(h, b, n) ==
  /\ ~InUse(h) /\ mem[b] = "unused" /\ n \in 1..MaxSize
  /\ mem' = [mem EXCEPT ![b] = "live"]
  /\ size' = [size EXCEPT ![b] = n]
  /\ count' = [count EXCEPT ![b] = 1]
  /\ handle' = [handle EXCEPT ![h] = [mcb |-> b, move |-> moves[b], off |-> 0, n |-> n]]
  /\ UNCHANGED <<moves, dying>>

(* mbuffer_clone: another handle on the same range.                        *)
Clone(h, g) ==
  /\ InUse(h) /\ ~InUse(g)
  /\ count' = [count EXCEPT ![handle[h].mcb] = @ + 1]
  /\ handle' = [handle EXCEPT ![g] = handle[h]]
  /\ UNCHANGED <<mem, size, moves, dying>>

(* mbuffer_copy: a handle on a new block with the same contents.           *)
Copy(h, g, b) == InUse(h) /\ Create(g, b, handle[h].n)

(* The n bytes of a handle's range that begin at its byte o.               *)
Part(f, o, n) == [mcb |-> f.mcb, move |-> f.move, off |-> f.off + o, n |-> n]

\* Mutant: a split that does not count the new handle.
SplitUncounted(h, g, s) ==
  /\ InUse(h) /\ ~InUse(g) /\ s \in 1..handle[h].n - 1
  /\ handle' = [handle EXCEPT ![h] = Part(@, 0, s),
                              ![g] = Part(handle[h], s, handle[h].n - s)]
  /\ UNCHANGED <<count, mem, size, moves, dying>>

(* mbuffer_split: h keeps the first s bytes, g gets the rest.              *)
Split(h, g, s) ==
  /\ InUse(h) /\ ~InUse(g) /\ s \in 1..handle[h].n - 1
  /\ count' = [count EXCEPT ![handle[h].mcb] = @ + 1]
  /\ handle' = [handle EXCEPT ![h] = Part(@, 0, s),
                              ![g] = Part(handle[h], s, handle[h].n - s)]
  /\ UNCHANGED <<mem, size, moves, dying>>

(* mbuffer_realloc succeeds only for the one handle on a block, at its     *)
(* beginning; the block may move.  Otherwise it returns -1.                *)
CanRealloc(h) == InUse(h) /\ count[handle[h].mcb] <= 1 /\ handle[h].off = 0

Realloc(h, n) ==
  /\ CanRealloc(h) /\ n \in 1..MaxSize
  /\ LET b == handle[h].mcb
     IN \E m \in {moves[b], moves[b] + 1} \cap 0..MaxMoves :
          /\ moves' = [moves EXCEPT ![b] = m]
          /\ handle' = [handle EXCEPT ![h] = [mcb |-> b, move |-> m, off |-> 0, n |-> n]]
          /\ size' = [size EXCEPT ![b] = n]
  /\ UNCHANGED <<count, mem, dying>>

\* Mutant: the value remembered is the one before the decrement.
FreeRefOldValue(t, h) ==
  /\ InUse(h) /\ dying[t] = None
  /\ LET b == handle[h].mcb
     IN /\ count' = [count EXCEPT ![b] = @ - 1]
        /\ dying' = [dying EXCEPT ![t] = IF count[b] = 0 THEN b ELSE None]
  /\ handle' = [handle EXCEPT ![h] = None]
  /\ UNCHANGED <<mem, size, moves>>

(* mbuffer_free, the critical section: count down, remember the result.    *)
FreeRef(t, h) ==
  /\ InUse(h) /\ dying[t] = None
  /\ LET b == handle[h].mcb
     IN /\ count' = [count EXCEPT ![b] = @ - 1]
        /\ dying' = [dying EXCEPT ![t] = IF count'[b] = 0 THEN b ELSE None]
  /\ handle' = [handle EXCEPT ![h] = None]
  /\ UNCHANGED <<mem, size, moves>>

(* mbuffer_free, after the unlock: the last one frees block and mcb.       *)
FreeBlock(t) ==
  /\ dying[t] # None
  /\ mem' = [mem EXCEPT ![dying[t]] = "freed"]
  /\ dying' = [dying EXCEPT ![t] = None]
  /\ UNCHANGED <<count, size, moves, handle>>

MBufferNext ==
  \/ \E h \in Handles :
       \/ \E b \in Blocks, n \in 1..MaxSize : Create(h, b, n)
       \/ \E g \in Handles : Clone(h, g)
       \/ \E g \in Handles, b \in Blocks : Copy(h, g, b)
       \/ \E g \in Handles, s \in 1..MaxSize : Split(h, g, s)
       \/ \E n \in 1..MaxSize : Realloc(h, n)
       \/ \E t \in Releasers : FreeRef(t, h)
  \/ \E t \in Releasers : FreeBlock(t)

MBufferSpec == MBufferInit /\ [][MBufferNext]_mbVars
-----------------------------------------------------------------------------
(* No handle dangles: its block is live, its pointer is from the block's   *)
(* last move, and its range lies inside the block - whatever splits,       *)
(* reallocs and frees other threads made.  (mbuffer_free, mbuffer_realloc) *)
NoHandleDangles ==
  \A h \in Handles : InUse(h) =>
    LET b == handle[h].mcb
    IN /\ mem[b] = "live"
       /\ handle[h].move = moves[b]
       /\ handle[h].off + handle[h].n <= size[b]

(* A block is freed by exactly one thread, and only when its last handle   *)
(* is gone: it is live without handles just between the two halves of that *)
(* thread's mbuffer_free, and never freed twice.  (mbuffer.c:206-220)      *)
FreedByTheLast ==
  \A b \in Blocks :
    LET last == {t \in Releasers : dying[t] = b}
    IN /\ \A t, u \in last : t = u
       /\ last # {} => mem[b] = "live" /\ Holders(b) = {}
       /\ mem[b] = "live" /\ Holders(b) = {} => last # {}
       /\ mem[b] = "live" => count[b] = Cardinality(Holders(b))
=============================================================================
