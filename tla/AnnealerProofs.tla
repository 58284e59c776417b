---------------------------- MODULE AnnealerProofs ----------------------------
(***************************************************************************)
(* First, class AtomicPtr, for any threads, pointers and values and for    *)
(* any calls of its functions: the types, one owner of a pointer that is   *)
(* out of its slot, and that every call takes effect at one instant.       *)
(* Then the threads of canneal that use it, for any number of them, any    *)
(* netlist and either way to stop: their types, that a location that is    *)
(* out of its element is with one thread, and that no two elements are     *)
(* ever at one location.                                                   *)
(***************************************************************************)
EXTENDS Annealer, TLAPS

\* What the calls of a thread allow at each place in them.
CallShape(t) ==
  /\ pc[t] \in {"checkin", "return"} <=> ans[t] # "pending"
  /\ pc[t] = "cas" => ~Reading(t)
  /\ pc[t] \in {"load2", "cas2", "checkin"} => Swapping(t)
  /\ pc[t] = "held" => Kind(t) \in {"update", "tryupdate"}
  /\ pc[t] # "idle" => (Setting(t) => op[t].x \in Values)

PtrInv == PtrTypeOK /\ OneOwner /\ \A t \in Threads : CallShape(t)

USE SlotsAreAddresses, NullIsNoValue, NoCallIsNeither, AnswersAreNoValues

-----------------------------------------------------------------------------
(* Types and the shape of the calls *)

LEMMA TypeInit == PtrInit => PtrTypeOK
BY DEF PtrInit, PtrTypeOK, Owning

LEMMA TypeStart ==
  ASSUME PtrTypeOK, NEW t \in Threads, NEW kind \in Kinds, NEW i \in Slots, NEW j \in Slots,
         NEW x \in Values \cup {NoCall}, Start(t, kind, i, j, x)
  PROVE  PtrTypeOK'
<1>1. [kind |-> kind, first |-> i, last |-> j, x |-> x] \in Calls
  BY DEF Calls
<1> QED
  BY <1>1 DEF PtrTypeOK, Start, Goto, Owning

LEMMA StartsAreCalls ==
  ASSUME NEW t \in Threads, StartAny(t)
  PROVE  \E kind \in Kinds, i \in Slots, j \in Slots, x \in Values \cup {NoCall} :
           /\ Start(t, kind, i, j, x)
           /\ kind \in {"set", "tryset"} => x \in Values
BY DEF StartAny, StartSwap, Kinds

LEMMA TypeStep ==
  ASSUME PtrTypeOK, NEW t \in Threads, PtrStep(t), CallShape(t)
  PROVE  PtrTypeOK'
<1> USE DEF PtrTypeOK, Owning, Goto, Answer
<1>1. pc[t] # "idle" => op[t] \in Calls /\ First(t) \in Slots /\ Last(t) \in Slots
  BY DEF Calls, First, Last
<1>2. CASE Load(t)
  BY <1>1, <1>2 DEF Load
<1>3. CASE LoadFails(t)
  BY <1>1, <1>3 DEF LoadFails
<1>4. CASE Cas(t)
  BY <1>1, <1>4 DEF Cas, CallShape
<1>5. CASE CasFails(t)
  BY <1>1, <1>5 DEF CasFails
<1>6. CASE LoadLast(t)
  BY <1>1, <1>6 DEF LoadLast
<1>7. CASE LoadLastFails(t)
  BY <1>1, <1>7 DEF LoadLastFails
<1>8. CASE CasLast(t)
  BY <1>1, <1>8 DEF CasLast
<1>9. CASE CasLastFails(t)
  BY <1>1, <1>9 DEF CasLastFails
<1>10. CASE Checkin(t)
  BY <1>1, <1>10 DEF Checkin
<1>11. CASE CheckinOther(t)
  BY <1>1, <1>11 DEF CheckinOther
<1>12. CASE Return(t)
  BY <1>1, <1>12 DEF Return
<1> QED
  BY <1>2, <1>3, <1>4, <1>5, <1>6, <1>7, <1>8, <1>9, <1>10, <1>11, <1>12 DEF PtrStep

LEMMA ShapeStart ==
  ASSUME PtrInv, NEW t \in Threads, NEW kind \in Kinds, NEW i \in Slots, NEW j \in Slots,
         NEW x \in Values \cup {NoCall}, Start(t, kind, i, j, x),
         kind \in {"set", "tryset"} => x \in Values
  PROVE  \A s \in Threads : CallShape(s)'
<1>1. ASSUME NEW s \in Threads \ {t}
      PROVE  CallShape(s)'
  <2>1. pc'[s] = pc[s] /\ op'[s] = op[s] /\ ans'[s] = ans[s]
    BY DEF Start, Goto, PtrInv, PtrTypeOK
  <2> QED
    BY <2>1 DEF CallShape, PtrInv, Reading, Setting, Swapping, Kind
<1>2. CallShape(t)'
  <2>1. pc'[t] = "load" /\ ans'[t] = ans[t] /\ pc[t] = "idle"
        /\ op'[t] = [kind |-> kind, first |-> i, last |-> j, x |-> x]
    BY DEF Start, Goto, PtrInv, PtrTypeOK
  <2> QED
    BY <2>1 DEF CallShape, PtrInv, Setting, Kind
<1> QED
  BY <1>1, <1>2

\* A step of a thread is its own: it leaves the others' places, calls,
\* answers and checked out pointers alone.
LEMMA OthersKeep ==
  ASSUME PtrTypeOK, NEW t \in Threads, PtrStep(t), NEW s \in Threads \ {t}
  PROVE  pc'[s] = pc[s] /\ op'[s] = op[s] /\ ans'[s] = ans[s] /\ held'[s] = held[s]
<1> USE DEF PtrTypeOK, Goto, Answer
<1>1. CASE Load(t) \/ LoadFails(t) \/ Cas(t) \/ CasFails(t)
  BY <1>1 DEF Load, LoadFails, Cas, CasFails
<1>2. CASE LoadLast(t) \/ LoadLastFails(t) \/ CasLast(t) \/ CasLastFails(t)
  BY <1>2 DEF LoadLast, LoadLastFails, CasLast, CasLastFails
<1>3. CASE Checkin(t) \/ CheckinOther(t) \/ Return(t)
  BY <1>3 DEF Checkin, CheckinOther, Return
<1> QED
  BY <1>1, <1>2, <1>3 DEF PtrStep

LEMMA ShapeStep ==
  ASSUME PtrInv, NEW t \in Threads, PtrStep(t)
  PROVE  \A s \in Threads : CallShape(s)'
<1>1. ASSUME NEW s \in Threads \ {t}
      PROVE  CallShape(s)'
  BY <1>1, OthersKeep DEF CallShape, PtrInv, Reading, Setting, Swapping, Kind
<1>2. CallShape(t)'
  <2> USE DEF CallShape, PtrInv, PtrTypeOK, Owning, Goto, Answer, Kind, Reading, Setting,
              Swapping, Trying
  <2>1. CASE Load(t)
    <3>1. pc[t] = "load" /\ op' = op /\ p[First(t)] # ATOMIC_NULL /\ pc[t] # "idle"
      BY <2>1 DEF Load
    <3>2. op[t] \in Calls
      BY <3>1
    <3>3. First(t) \in Slots
      BY <3>2 DEF Calls, First
    <3>4. p[First(t)] \in Values
      BY <3>1, <3>3
    <3> QED
      BY <2>1, <3>1, <3>4 DEF Load
  <2>2. CASE LoadFails(t)
    BY <2>2 DEF LoadFails
  <2>3. CASE Cas(t)
    BY <2>3 DEF Cas, Calls, Kinds
  <2>4. CASE CasFails(t)
    BY <2>4 DEF CasFails
  <2>5. CASE LoadLast(t)
    BY <2>5 DEF LoadLast
  <2>6. CASE LoadLastFails(t)
    BY <2>6 DEF LoadLastFails
  <2>7. CASE CasLast(t)
    BY <2>7 DEF CasLast
  <2>8. CASE CasLastFails(t)
    BY <2>8 DEF CasLastFails
  <2>9. CASE Checkin(t)
    BY <2>9 DEF Checkin
  <2>10. CASE CheckinOther(t)
    BY <2>10 DEF CheckinOther
  <2>11. CASE Return(t)
    BY <2>11 DEF Return
  <2> QED
    BY <2>1, <2>2, <2>3, <2>4, <2>5, <2>6, <2>7, <2>8, <2>9, <2>10, <2>11 DEF PtrStep
<1> QED
  BY <1>1, <1>2

-----------------------------------------------------------------------------
(* One owner *)

LEMMA OwnerStart ==
  ASSUME PtrInv, NEW t \in Threads, NEW kind \in Kinds, NEW i \in Slots, NEW j \in Slots,
         NEW x \in Values \cup {NoCall}, Start(t, kind, i, j, x)
  PROVE  /\ p' = p /\ held' = held
         /\ \A s \in Threads, k \in Slots : Owns(s, k)' <=> Owns(s, k)
<1>1. ASSUME NEW s \in Threads \ {t}
      PROVE  pc'[s] = pc[s] /\ op'[s] = op[s]
  BY DEF Start, Goto, PtrInv, PtrTypeOK
<1>2. pc[t] = "idle" /\ pc'[t] = "load"
  BY DEF Start, Goto, PtrInv, PtrTypeOK
<1> QED
  BY <1>1, <1>2 DEF Start, Owns, Owning, First

\* What a step does to the pointers and their owners: nothing, or it takes
\* one out, puts one back, or changes one that is in its slot.
TakesOut(t) ==
  LET i == First(t)
  IN  /\ p[i] # ATOMIC_NULL /\ p' = [p EXCEPT ![i] = ATOMIC_NULL]
      /\ held'[t] = p[i]
      /\ pc[t] \notin Owning /\ pc'[t] \in Owning
PutsBack(t) ==
  /\ \E x \in Values : p' = [p EXCEPT ![First(t)] = x]
  /\ pc[t] \in Owning /\ pc'[t] \notin Owning
ChangesIn(t) ==
  /\ \E i \in Slots, x \in Values : p[i] # ATOMIC_NULL /\ p' = [p EXCEPT ![i] = x]
  /\ pc[t] \in Owning <=> pc'[t] \in Owning
Leaves(t) ==
  /\ p' = p
  /\ pc[t] \in Owning <=> pc'[t] \in Owning

LEMMA StepKinds ==
  ASSUME PtrInv, NEW t \in Threads, PtrStep(t)
  PROVE  /\ TakesOut(t) \/ PutsBack(t) \/ ChangesIn(t) \/ Leaves(t)
         /\ pc[t] \in Owning \/ pc'[t] \in Owning => op'[t] = op[t] /\ First(t) \in Slots
<1> USE DEF PtrInv, PtrTypeOK, Owning, Goto, Answer
<1>0. pc[t] # "idle" => op[t] \in Calls /\ First(t) \in Slots /\ Last(t) \in Slots
  BY DEF Calls, First, Last
<1>1. CASE Load(t)
  BY <1>0, <1>1 DEF Load, Leaves
<1>2. CASE LoadFails(t)
  BY <1>0, <1>2 DEF LoadFails, Leaves
<1>3. CASE Cas(t)
  <2>1. p[First(t)] = val[t] /\ val[t] \in Values /\ First(t) \in Slots /\ op' = op
    BY <1>0, <1>3 DEF Cas
  <2>2. CASE Setting(t)
    BY <1>3, <2>1, <2>2 DEF Cas, ChangesIn, CallShape
  <2>3. CASE ~Setting(t)
    BY <1>3, <2>1, <2>3 DEF Cas, TakesOut
  <2> QED
    BY <2>1, <2>2, <2>3
<1>4. CASE CasFails(t)
  BY <1>0, <1>4 DEF CasFails, Leaves
<1>5. CASE LoadLast(t)
  BY <1>0, <1>5 DEF LoadLast, Leaves
<1>6. CASE LoadLastFails(t)
  BY <1>0, <1>6 DEF LoadLastFails, Leaves
<1>7. CASE CasLast(t)
  <2>1. p[Last(t)] = val[t] /\ val[t] \in Values /\ held[t] \in Values
        /\ First(t) \in Slots /\ Last(t) \in Slots /\ op' = op
    BY <1>0, <1>7 DEF CasLast
  <2> QED
    BY <1>7, <2>1 DEF CasLast, ChangesIn
<1>8. CASE CasLastFails(t)
  BY <1>0, <1>8 DEF CasLastFails, Leaves
<1>9. CASE Checkin(t)
  BY <1>0, <1>9 DEF Checkin, PutsBack
<1>10. CASE CheckinOther(t)
  BY <1>0, <1>10 DEF CheckinOther, PutsBack
<1>11. CASE Return(t)
  BY <1>0, <1>11 DEF Return, Leaves
<1> QED
  BY <1>1, <1>2, <1>3, <1>4, <1>5, <1>6, <1>7, <1>8, <1>9, <1>10, <1>11 DEF PtrStep

LEMMA OwnerStep ==
  ASSUME PtrInv, NEW t \in Threads, PtrStep(t), PtrTypeOK'
  PROVE  OneOwner'
<1>1. \A s \in Threads \ {t}, k \in Slots : Owns(s, k)' <=> Owns(s, k)
  BY OthersKeep DEF Owns, First, PtrInv
<1>2. \A k \in Slots : Owns(t, k)' <=> pc'[t] \in Owning /\ First(t) = k
  BY StepKinds DEF Owns, First
<1>3. \A k \in Slots : Owns(t, k) <=> pc[t] \in Owning /\ First(t) = k
  BY DEF Owns
<1> HIDE DEF Owns
<1>4. CASE TakesOut(t)
  <2>1. First(t) \in Slots /\ \A s \in Threads : ~Owns(s, First(t))
    BY <1>4, StepKinds DEF TakesOut, PtrInv, OneOwner
  <2>2. p'[First(t)] = ATOMIC_NULL /\ \A k \in Slots \ {First(t)} : p'[k] = p[k]
    BY <1>4, <2>1 DEF TakesOut, PtrInv, PtrTypeOK
  <2> QED
    BY <1>1, <1>2, <1>3, <1>4, <2>1, <2>2 DEF TakesOut, PtrInv, OneOwner
<1>5. CASE PutsBack(t)
  <2>1. First(t) \in Slots /\ Owns(t, First(t))
    BY <1>3, <1>5, StepKinds DEF PutsBack
  <2>2. p'[First(t)] # ATOMIC_NULL /\ \A k \in Slots \ {First(t)} : p'[k] = p[k]
    BY <1>5, <2>1 DEF PutsBack, PtrInv, PtrTypeOK
  <2> QED
    BY <1>1, <1>2, <1>3, <1>5, <2>1, <2>2 DEF PutsBack, PtrInv, OneOwner
<1>6. CASE ChangesIn(t) \/ Leaves(t)
  <2>1. \A k \in Slots : p'[k] = ATOMIC_NULL <=> p[k] = ATOMIC_NULL
    BY <1>6 DEF ChangesIn, Leaves, PtrInv, PtrTypeOK
  <2>2. \A s \in Threads, k \in Slots : Owns(s, k)' <=> Owns(s, k)
    BY <1>1, <1>2, <1>3, <1>6 DEF ChangesIn, Leaves
  <2> QED
    BY <2>1, <2>2 DEF PtrInv, OneOwner
<1> QED
  BY <1>4, <1>5, <1>6, StepKinds

LEMMA PtrInvInit == PtrInit => PtrInv
<1> SUFFICES ASSUME PtrInit PROVE PtrInv
  OBVIOUS
<1>1. OneOwner
  BY DEF PtrInit, OneOwner, Owns, Owning
<1>2. \A t \in Threads : CallShape(t)
  BY DEF PtrInit, CallShape
<1> QED
  BY <1>1, <1>2, TypeInit DEF PtrInv

LEMMA PtrInvStart ==
  ASSUME PtrInv, NEW t \in Threads, StartAny(t)
  PROVE  PtrInv'
<1> PICK kind \in Kinds, i \in Slots, j \in Slots, x \in Values \cup {NoCall} :
      Start(t, kind, i, j, x) /\ (kind \in {"set", "tryset"} => x \in Values)
  BY StartsAreCalls
<1>1. PtrTypeOK' /\ \A s \in Threads : CallShape(s)'
  BY TypeStart, ShapeStart DEF PtrInv
<1>2. OneOwner'
  BY OwnerStart DEF PtrInv, OneOwner
<1> QED
  BY <1>1, <1>2 DEF PtrInv

LEMMA PtrInvStep ==
  ASSUME PtrInv, NEW t \in Threads, PtrStep(t)
  PROVE  PtrInv'
<1>1. PtrTypeOK'
  BY TypeStep DEF PtrInv
<1> QED
  BY <1>1, ShapeStep, OwnerStep DEF PtrInv

LEMMA PtrInvStutter ==
  ASSUME PtrInv, UNCHANGED ptrVars
  PROVE  PtrInv'
BY DEF PtrInv, ptrVars, PtrTypeOK, OneOwner, Owns, Owning, First, CallShape, Reading, Setting,
       Swapping, Kind

LEMMA PtrInvNext == PtrInv /\ [PtrNext]_ptrVars => PtrInv'
BY PtrInvStart, PtrInvStep, PtrInvStutter DEF PtrNext

\* The types and the single owner of a pointer that is checked out.
THEOREM PtrSafe == PtrSpec => [](PtrTypeOK /\ OneOwner)
<1>1. PtrSpec => []PtrInv
  BY PtrInvInit, PtrInvNext, PTL DEF PtrSpec
<1>2. PtrInv => PtrTypeOK /\ OneOwner
  BY DEF PtrInv
<1> QED
  BY <1>1, <1>2, PTL

-----------------------------------------------------------------------------
(* The pointers as a caller sees them, before and after a step *)

LEMMA MemIn ==
  ASSUME NEW i \in Slots, p[i] # ATOMIC_NULL
  PROVE  Mem[i] = p[i]
BY DEF Mem

LEMMA MemOut ==
  ASSUME PtrInv, NEW i \in Slots, NEW t \in Threads, Owns(t, i)
  PROVE  Mem[i] = held[t]
<1>1. p[i] = ATOMIC_NULL
  BY DEF PtrInv, OneOwner
<1>2. (CHOOSE s \in Threads : Owns(s, i)) = t
  BY DEF PtrInv, OneOwner
<1> QED
  BY <1>1, <1>2 DEF Mem

LEMMA MemType == PtrInv => Mem \in [Slots -> Values]
<1> SUFFICES ASSUME PtrInv, NEW i \in Slots
             PROVE  Mem[i] \in Values
  BY DEF Mem
<1>1. CASE p[i] # ATOMIC_NULL
  BY <1>1, MemIn DEF PtrInv, PtrTypeOK
<1>2. CASE p[i] = ATOMIC_NULL
  <2>1. PICK t \in Threads : Owns(t, i)
    BY <1>2 DEF PtrInv, OneOwner
  <2> QED
    BY <2>1, MemOut DEF PtrInv, PtrTypeOK, Owns
<1> QED
  BY <1>1, <1>2

LEMMA NextMemIn ==
  ASSUME NEW i \in Slots, p'[i] # ATOMIC_NULL
  PROVE  Mem'[i] = p'[i]
BY DEF Mem

LEMMA NextMemOut ==
  ASSUME PtrInv', NEW i \in Slots, NEW t \in Threads, Owns(t, i)'
  PROVE  Mem'[i] = held'[t]
<1>1. p'[i] = ATOMIC_NULL
  BY DEF PtrInv, OneOwner
<1>2. (CHOOSE s \in Threads : Owns(s, i)') = t
  BY DEF PtrInv, OneOwner
<1> QED
  BY <1>1, <1>2 DEF Mem

LEMMA NextMemType == PtrInv' => Mem' \in [Slots -> Values]
<1> SUFFICES ASSUME PtrInv', NEW i \in Slots
             PROVE  Mem'[i] \in Values
  BY DEF Mem
<1>1. CASE p'[i] # ATOMIC_NULL
  BY <1>1, NextMemIn DEF PtrInv, PtrTypeOK
<1>2. CASE p'[i] = ATOMIC_NULL
  <2>1. PICK t \in Threads : Owns(t, i)'
    BY <1>2 DEF PtrInv, OneOwner
  <2> QED
    BY <2>1, NextMemOut DEF PtrInv, PtrTypeOK, Owns
<1> QED
  BY <1>1, <1>2

\* A pointer that a step of t does not touch, in its slot or another's.
LEMMA MemUntouched ==
  ASSUME PtrInv, PtrInv', NEW t \in Threads, PtrStep(t), NEW i \in Slots, p'[i] = p[i],
         ~Owns(t, i)
  PROVE  Mem'[i] = Mem[i]
<1>1. CASE p[i] # ATOMIC_NULL
  BY <1>1, MemIn, NextMemIn
<1>2. CASE p[i] = ATOMIC_NULL
  <2>1. PICK s \in Threads : Owns(s, i)
    BY <1>2 DEF PtrInv, OneOwner
  <2>2. s # t /\ Owns(s, i)' /\ held'[s] = held[s]
    BY <2>1, OthersKeep DEF PtrInv, Owns, First
  <2> QED
    BY <2>1, <2>2, MemOut, NextMemOut
<1> QED
  BY <1>1, <1>2

LEMMA MemSame ==
  ASSUME PtrInv, PtrInv', \A i \in Slots : Mem'[i] = Mem[i]
  PROVE  Mem' = Mem
<1>1. Mem = [i \in Slots |-> Mem[i]] /\ Mem' = [i \in Slots |-> Mem'[i]]
  BY MemType, NextMemType
<1> QED
  BY <1>1

-----------------------------------------------------------------------------
(* Steps that are not seen from outside *)

LEMMA QuietMem ==
  ASSUME PtrInv, PtrInv', NEW t \in Threads, PtrStep(t),
         p' = p, held' = held, pc[t] \in Owning => pc'[t] \in Owning, op' = op
  PROVE  Mem' = Mem
<1> SUFFICES ASSUME NEW i \in Slots
             PROVE  Mem'[i] = Mem[i]
  BY MemSame
<1>1. CASE Owns(t, i)
  <2>1. Owns(t, i)'
    BY <1>1 DEF Owns, First
  <2> QED
    BY <1>1, <2>1, MemOut, NextMemOut
<1>2. CASE ~Owns(t, i)
  BY <1>2, MemUntouched
<1> QED
  BY <1>1, <1>2

LEMMA CheckoutMem ==
  ASSUME PtrInv, PtrInv', NEW t \in Threads, Cas(t), ~Setting(t)
  PROVE  Mem' = Mem /\ ans' = ans /\ op' = op
<1>1. /\ pc[t] = "cas" /\ op' = op /\ ans' = ans /\ First(t) \in Slots
      /\ val[t] \in Values /\ p[First(t)] = val[t]
      /\ p' = [p EXCEPT ![First(t)] = ATOMIC_NULL] /\ held'[t] = val[t] /\ pc'[t] \in Owning
  <2>1. pc[t] = "cas" /\ op[t] \in Calls
    BY DEF Cas, PtrInv, PtrTypeOK
  <2>2. First(t) \in Slots
    BY <2>1 DEF Calls, First
  <2> QED
    BY <2>1, <2>2 DEF Cas, PtrInv, PtrTypeOK, Goto, Owning
<1>2. ASSUME NEW i \in Slots
      PROVE  Mem'[i] = Mem[i]
  <2>1. CASE i = First(t)
    <3>1. Owns(t, i)'
      BY <1>1, <2>1 DEF Owns, First
    <3> QED
      BY <1>1, <2>1, <3>1, MemIn, NextMemOut
  <2>2. CASE i # First(t)
    <3>1. p'[i] = p[i] /\ ~Owns(t, i)
      BY <1>1, <2>2 DEF PtrInv, PtrTypeOK, Owns
    <3> QED
      BY <3>1, MemUntouched DEF PtrStep
  <2> QED
    BY <2>1, <2>2
<1> QED
  BY <1>1, <1>2, MemSame

\* What a step that puts the pointer x back does.
LEMMA PutBackMem ==
  ASSUME PtrInv, PtrInv', NEW t \in Threads, PtrStep(t), pc[t] \in Owning, NEW x \in Values,
         p' = [p EXCEPT ![First(t)] = x]
  PROVE  /\ First(t) \in Slots /\ Mem[First(t)] = held[t]
         /\ Mem' = [Mem EXCEPT ![First(t)] = x]
<1>1. First(t) \in Slots /\ Owns(t, First(t))
  BY StepKinds DEF Owns
<1>2. ASSUME NEW i \in Slots
      PROVE  Mem'[i] = [Mem EXCEPT ![First(t)] = x][i]
  <2>1. CASE i = First(t)
    BY <1>1, <2>1, NextMemIn, MemType DEF PtrInv, PtrTypeOK
  <2>2. CASE i # First(t)
    <3>1. p'[i] = p[i] /\ ~Owns(t, i)
      BY <1>1, <2>2 DEF PtrInv, PtrTypeOK, Owns
    <3> QED
      BY <2>2, <3>1, MemUntouched, MemType
  <2> QED
    BY <2>1, <2>2
<1> QED
  BY <1>1, <1>2, MemOut, MemType, NextMemType

LEMMA SetMem ==
  ASSUME PtrInv, PtrInv', NEW t \in Threads, Cas(t), Setting(t)
  PROVE  /\ Mem' = [Mem EXCEPT ![First(t)] = op[t].x]
         /\ ans' = [ans EXCEPT ![t] = Mem[First(t)]]
<1>1. /\ pc[t] = "cas" /\ First(t) \in Slots /\ op[t].x \in Values
      /\ val[t] \in Values /\ p[First(t)] = val[t]
      /\ p' = [p EXCEPT ![First(t)] = op[t].x] /\ ans' = [ans EXCEPT ![t] = val[t]]
  <2>1. pc[t] = "cas" /\ op[t] \in Calls
    BY DEF Cas, PtrInv, PtrTypeOK
  <2>2. First(t) \in Slots
    BY <2>1 DEF Calls, First
  <2> QED
    BY <2>1, <2>2 DEF Cas, PtrInv, PtrTypeOK, Answer, CallShape
<1>2. ASSUME NEW i \in Slots
      PROVE  Mem'[i] = [Mem EXCEPT ![First(t)] = op[t].x][i]
  <2>1. CASE i = First(t)
    BY <1>1, <2>1, NextMemIn, MemType DEF PtrInv, PtrTypeOK
  <2>2. CASE i # First(t)
    <3>1. p'[i] = p[i] /\ ~Owns(t, i)
      BY <1>1, <2>2 DEF PtrInv, PtrTypeOK, Owns, Owning
    <3> QED
      BY <2>2, <3>1, MemUntouched, MemType DEF PtrStep
  <2> QED
    BY <2>1, <2>2
<1> QED
  BY <1>1, <1>2, MemIn, MemType, NextMemType

LEMMA SwapMem ==
  ASSUME PtrInv, PtrInv', NEW t \in Threads, CasLast(t)
  PROVE  /\ Mem' = [Mem EXCEPT ![First(t)] = Mem[Last(t)], ![Last(t)] = Mem[First(t)]]
         /\ ans' = [ans EXCEPT ![t] = "swapped"]
<1>1. /\ pc[t] = "cas2" /\ pc'[t] = "checkin" /\ op' = op /\ p[Last(t)] = val[t]
      /\ p' = [p EXCEPT ![Last(t)] = held[t]] /\ held'[t] = val[t]
      /\ val[t] \in Values /\ held[t] \in Values
  BY DEF CasLast, PtrInv, PtrTypeOK, Goto, Owning
<1>2. First(t) \in Slots /\ Last(t) \in Slots
  <2>1. op[t] \in Calls
    BY <1>1 DEF PtrInv, PtrTypeOK
  <2> QED
    BY <2>1 DEF Calls, First, Last
<1>3. Owns(t, First(t))
  BY <1>1 DEF Owns, Owning, First
<1>4. First(t) # Last(t)
  BY <1>1, <1>2, <1>3 DEF PtrInv, OneOwner
<1>5. Mem[First(t)] = held[t] /\ Mem[Last(t)] = val[t]
  BY <1>1, <1>2, <1>3, MemIn, MemOut
<1>6. Mem'[First(t)] = val[t] /\ Mem'[Last(t)] = held[t]
  <2>0. \A i \in Slots : i = First(t) => Owns(t, i)'
    BY <1>1 DEF Owns, Owning, First
  <2>1. Mem'[First(t)] = held'[t]
    BY <1>2, <2>0, NextMemOut
  <2>2. p'[Last(t)] = held[t]
    BY <1>1, <1>2 DEF PtrInv, PtrTypeOK
  <2> QED
    BY <1>1, <1>2, <2>1, <2>2, NextMemIn
<1>7. ASSUME NEW i \in Slots \ {First(t), Last(t)}
      PROVE  Mem'[i] = Mem[i]
  <2>1. p'[i] = p[i] /\ ~Owns(t, i)
    BY <1>1, <1>2 DEF PtrInv, PtrTypeOK, Owns
  <2> QED
    BY <2>1, MemUntouched DEF PtrStep
<1>8. ans' = [ans EXCEPT ![t] = "swapped"]
  BY DEF CasLast, Answer
<1> QED
  BY <1>2, <1>4, <1>5, <1>6, <1>7, <1>8, MemType, NextMemType

-----------------------------------------------------------------------------
(* Every step is a step of the atomic swaps, or one they do not see *)

LEMMA StartIsInvoke ==
  ASSUME PtrInv, PtrInv', NEW t \in Threads, StartAny(t)
  PROVE  Swaps!Invoke(t)
<1> PICK kind \in Kinds, i \in Slots, j \in Slots, x \in Values \cup {NoCall} :
      Start(t, kind, i, j, x)
  BY StartsAreCalls
<1> DEFINE c == [kind |-> kind, first |-> i, last |-> j, x |-> x]
<1>1. c \in Swaps!Calls
  BY DEF Swaps!Calls, Kinds
<1>2. Mem' = Mem
  <2> SUFFICES ASSUME NEW k \in Slots
               PROVE  Mem'[k] = Mem[k]
    BY MemSame
  <2>1. p'[k] = p[k] /\ held' = held /\ \A s \in Threads : Owns(s, k)' <=> Owns(s, k)
    BY OwnerStart
  <2>2. CASE p[k] # ATOMIC_NULL
    BY <2>1, <2>2, MemIn, NextMemIn
  <2>3. CASE p[k] = ATOMIC_NULL
    <3>1. PICK s \in Threads : Owns(s, k)
      BY <2>3 DEF PtrInv, OneOwner
    <3> QED
      BY <2>1, <3>1, MemOut, NextMemOut
  <2> QED
    BY <2>2, <2>3
<1>3. op[t] = NoCall /\ op' = [op EXCEPT ![t] = c] /\ ans' = ans
  BY DEF Start, PtrInv, PtrTypeOK
<1> QED
  BY <1>1, <1>2, <1>3 DEF Swaps!Invoke

\* The thread is in a call whose answer is open.
LEMMA CallOpen ==
  ASSUME PtrInv, NEW t \in Threads, pc[t] \notin {"idle", "checkin", "return"}
  PROVE  op[t] # NoCall /\ ans[t] = "pending"
BY DEF PtrInv, PtrTypeOK, CallShape

LEMMA FailIsAct ==
  ASSUME PtrInv, PtrInv', NEW t \in Threads, PtrStep(t),
         pc[t] \notin {"idle", "checkin", "return"}, Trying(t),
         p' = p, held' = held, op' = op, pc[t] \in Owning => pc'[t] \in Owning,
         ans' = [ans EXCEPT ![t] = "failed"]
  PROVE  Swaps!Act(t)
<1>1. Mem' = Mem
  BY QuietMem
<1>2. op[t].kind \in Swaps!Failing
  BY DEF Trying, Kind, Swaps!Failing
<1>3. Swaps!Effect(t)
  BY <1>1, <1>2 DEF Swaps!Effect
<1> QED
  BY <1>3, CallOpen DEF Swaps!Act

LEMMA StepIsAct ==
  ASSUME PtrInv, PtrInv', NEW t \in Threads, PtrStep(t)
  PROVE  Swaps!Act(t) \/ Swaps!Return(t) \/ UNCHANGED Swaps!vars
<1>0. pc[t] # "idle" => op[t] \in Calls /\ First(t) \in Slots
  BY DEF PtrInv, PtrTypeOK, Calls, First
<1>1. CASE Load(t)
  <2>1. Mem' = Mem /\ op' = op /\ pc[t] = "load" /\ Mem[First(t)] = p[First(t)]
    BY <1>0, <1>1, QuietMem, MemIn DEF Load, Owning
  <2>2. CASE Reading(t)
    <3>1. ans' = [ans EXCEPT ![t] = Mem[First(t)]]
      BY <1>1, <2>1, <2>2 DEF Load, Answer
    <3>2. Swaps!Effect(t)
      BY <2>1, <2>2, <3>1 DEF Swaps!Effect, Reading, Kind, First
    <3> QED
      BY <2>1, <3>2, CallOpen DEF Swaps!Act
  <2>3. CASE ~Reading(t)
    BY <1>1, <2>1, <2>3 DEF Load, Swaps!vars
  <2> QED
    BY <2>2, <2>3
<1>2. CASE LoadFails(t)
  BY <1>2, FailIsAct DEF LoadFails, Answer, Owning
<1>3. CASE Cas(t)
  <2>1. pc[t] = "cas" /\ op' = op
    BY <1>3 DEF Cas
  <2>2. CASE Setting(t)
    <3>1. Swaps!Effect(t)
      BY <1>3, <2>2, SetMem DEF Swaps!Effect, Setting, Kind, First
    <3> QED
      BY <2>1, <3>1, CallOpen DEF Swaps!Act
  <2>3. CASE ~Setting(t)
    BY <1>3, <2>3, CheckoutMem DEF Swaps!vars
  <2> QED
    BY <2>2, <2>3
<1>4. CASE CasFails(t)
  <2>1. CASE Trying(t)
    BY <1>4, <2>1, FailIsAct DEF CasFails, Answer, Owning
  <2>2. CASE ~Trying(t)
    <3>1. Mem' = Mem
      BY <1>4, <2>2, QuietMem DEF CasFails, Owning
    <3> QED
      BY <1>4, <2>2, <3>1 DEF CasFails, Swaps!vars
  <2> QED
    BY <2>1, <2>2
<1>5. CASE LoadLast(t)
  <2>1. pc'[t] = "cas2"
    BY <1>5 DEF LoadLast, Goto, PtrInv, PtrTypeOK
  <2>2. Mem' = Mem
    BY <1>5, <2>1, QuietMem DEF LoadLast, Owning
  <2> QED
    BY <1>5, <2>2 DEF LoadLast, Swaps!vars
<1>6. CASE LoadLastFails(t)
  <2>1. pc'[t] = "checkin"
    BY <1>6 DEF LoadLastFails, Goto, PtrInv, PtrTypeOK
  <2> QED
    BY <1>6, <2>1, FailIsAct DEF LoadLastFails, Answer, Owning
<1>7. CASE CasLast(t)
  <2>1. Swaps!Effect(t)
    BY <1>7, SwapMem DEF Swaps!Effect, Swaps!Exchanged, CasLast, PtrInv, CallShape, Swapping,
                         Kind, First, Last
  <2>2. pc[t] = "cas2" /\ op' = op
    BY <1>7 DEF CasLast
  <2> QED
    BY <2>1, <2>2, CallOpen DEF Swaps!Act
<1>8. CASE CasLastFails(t)
  <2>1. pc'[t] \in Owning
    BY <1>8 DEF CasLastFails, Goto, PtrInv, PtrTypeOK, Owning
  <2>2. CASE Trying(t)
    BY <1>8, <2>1, <2>2, FailIsAct DEF CasLastFails, Answer
  <2>3. CASE ~Trying(t)
    <3>1. Mem' = Mem
      BY <1>8, <2>1, <2>3, QuietMem DEF CasLastFails
    <3> QED
      BY <1>8, <2>3, <3>1 DEF CasLastFails, Swaps!vars
  <2> QED
    BY <2>2, <2>3
<1>9. CASE Checkin(t)
  <2>1. pc[t] \in Owning /\ held[t] \in Values /\ p' = [p EXCEPT ![First(t)] = held[t]]
    BY <1>9 DEF Checkin, PtrInv, PtrTypeOK, Owning
  <2>2. Mem' = Mem
    <3>1. /\ First(t) \in Slots /\ Mem[First(t)] = held[t]
          /\ Mem' = [Mem EXCEPT ![First(t)] = held[t]]
      BY <2>1, PutBackMem
    <3>2. \A i \in Slots : Mem'[i] = Mem[i]
      BY <3>1, MemType
    <3> QED
      BY <3>2, MemSame
  <2> QED
    BY <1>9, <2>2 DEF Checkin, Swaps!vars
<1>10. CASE CheckinOther(t)
  <2>1. PICK x \in Values : p' = [p EXCEPT ![First(t)] = x]
    BY <1>10 DEF CheckinOther
  <2>2. /\ pc[t] = "held" /\ pc[t] \in Owning /\ op' = op
        /\ ans' = [ans EXCEPT ![t] = held[t]] /\ Kind(t) \in {"update", "tryupdate"}
    BY <1>10 DEF CheckinOther, Owning, Answer, PtrInv, CallShape
  <2>3. Mem[First(t)] = held[t] /\ Mem' = [Mem EXCEPT ![First(t)] = x]
    BY <2>1, <2>2, PutBackMem
  <2>4. Swaps!Effect(t)
    BY <2>2, <2>3 DEF Swaps!Effect, Kind, First
  <2> QED
    BY <2>2, <2>4, CallOpen DEF Swaps!Act
<1>11. CASE Return(t)
  <2>1. pc[t] = "return" /\ pc'[t] = "idle" /\ p' = p
    BY <1>11 DEF Return, Goto, PtrInv, PtrTypeOK
  <2>2. Mem' = Mem
    <3> SUFFICES ASSUME NEW i \in Slots
                 PROVE  Mem'[i] = Mem[i]
      BY MemSame
    <3> QED
      BY <2>1, MemUntouched DEF Owns, Owning
  <2>3. op[t] # NoCall /\ ans[t] # "pending"
    BY <2>1 DEF PtrInv, PtrTypeOK, CallShape
  <2> QED
    BY <1>11, <2>2, <2>3 DEF Return, Answer, Swaps!Return
<1> QED
  BY <1>1, <1>2, <1>3, <1>4, <1>5, <1>6, <1>7, <1>8, <1>9, <1>10, <1>11 DEF PtrStep

LEMMA StutterIsStutter ==
  ASSUME UNCHANGED ptrVars
  PROVE  UNCHANGED Swaps!vars
BY DEF ptrVars, Swaps!vars, Mem, Owns, Owning, First

LEMMA NextIsNext ==
  PtrInv /\ PtrInv' /\ [PtrNext]_ptrVars => [Swaps!Next]_Swaps!vars
<1> SUFFICES ASSUME PtrInv, PtrInv', [PtrNext]_ptrVars
             PROVE  [Swaps!Next]_Swaps!vars
  OBVIOUS
<1>1. CASE UNCHANGED ptrVars
  BY <1>1, StutterIsStutter
<1>2. ASSUME NEW t \in Threads, StartAny(t)
      PROVE  [Swaps!Next]_Swaps!vars
  BY <1>2, StartIsInvoke DEF Swaps!Next
<1>3. ASSUME NEW t \in Threads, PtrStep(t)
      PROVE  [Swaps!Next]_Swaps!vars
  BY <1>3, StepIsAct DEF Swaps!Next
<1> QED
  BY <1>1, <1>2, <1>3 DEF PtrNext

LEMMA InitIsInit == PtrInit => Swaps!Init
<1> SUFFICES ASSUME PtrInit
             PROVE  Swaps!Init
  OBVIOUS
<1>1. Mem \in [Slots -> Values]
  BY PtrInvInit, MemType
<1> QED
  BY <1>1 DEF PtrInit, Swaps!Init

\* Every call of a function of AtomicPtr takes effect at one instant: the
\* class implements the array with atomic swaps.
THEOREM PtrLinearizable == PtrSpec => ImplementsSwaps
<1>1. PtrSpec => []PtrInv
  BY PtrInvInit, PtrInvNext, PTL DEF PtrSpec
<1> QED
  BY <1>1, InitIsInit, NextIsNext, PTL DEF PtrSpec, ImplementsSwaps, Swaps!SafeSpec

-----------------------------------------------------------------------------
(* The threads of canneal *)

\* A thread is only ever in Get or in Swap.
CallsUsed == \A t \in Threads : pc[t] # "idle" => Kind(t) \in {"get", "swap"}

\* The pair a move is about, and what is counted while it is made.
MoveShape(t) ==
  /\ toRead[t] \in Seq(Slots)
  /\ at[t] = "cost" => a[t] # b[t] /\ moves[t] < MovesPerStep
  /\ at[t] \in {"move", "cost"} => good[t] <= moves[t] /\ bad[t] <= moves[t]

RunInv == /\ TypeOK /\ PtrInv /\ CallsUsed /\ LocationsDistinct
          /\ toRead \in [Threads -> Seq(Slots)]
          /\ \A t \in Threads : MoveShape(t)

USE PlacementInjective, WiredToElements, MovesAreCounted

LEMMA RunInvInit == Init => RunInv
<1> SUFFICES ASSUME Init
             PROVE  RunInv
  OBVIOUS
<1>1. PtrInv
  BY PtrInvInit DEF Init
<1>2. TypeOK
  BY <1>1 DEF Init, TypeOK, PtrInv
<1>3. CallsUsed
  BY DEF Init, PtrInit, CallsUsed
<1>4. LocationsDistinct
  <2>1. \A i \in Slots : p[i] # ATOMIC_NULL
    BY NullIsNoValue DEF Init
  <2>2. \A i \in Slots : Mem[i] = Placement[i]
    BY <2>1, MemIn DEF Init
  <2> QED
    BY <2>2 DEF LocationsDistinct
<1>5. toRead \in [Threads -> Seq(Slots)] /\ \A t \in Threads : MoveShape(t)
  BY DEF Init, MoveShape
<1> QED
  BY <1>1, <1>2, <1>3, <1>4, <1>5 DEF RunInv

-----------------------------------------------------------------------------
(* What the steps of a thread do to the pointers *)

LEMMA ReadStarts ==
  ASSUME RunInv, NEW t \in Threads, ReadLocation(t)
  PROVE  StartAny(t)
<1>1. Head(toRead[t]) \in Slots
  BY DEF RunInv, ReadLocation
<1> QED
  BY <1>1 DEF ReadLocation, StartGet, StartAny

LEMMA DecideStarts ==
  ASSUME RunInv, NEW t \in Threads, Decide(t)
  PROVE  \/ UNCHANGED ptrVars
         \/ StartSwap(t, "swap", a[t], b[t]) /\ StartAny(t)
<1>1. a[t] \in Slots /\ b[t] \in Slots \ {a[t]}
  BY DEF RunInv, TypeOK, MoveShape, Decide
<1>2. UNCHANGED ptrVars \/ StartSwap(t, "swap", a[t], b[t])
  BY DEF Decide
<1> QED
  BY <1>1, <1>2 DEF StartAny

LEMMA InCallSteps ==
  ASSUME NEW t \in Threads, InCall(t)
  PROVE  PtrStep(t)
BY DEF InCall, PtrStep

LEMMA ThreadIsPtrNext ==
  ASSUME RunInv, [Next]_vars
  PROVE  [PtrNext]_ptrVars
<1>1. ASSUME NEW t \in Threads, Thread(t)
      PROVE  [PtrNext]_ptrVars
  <2>1. CASE KeepGoing(t) \/ Leave(t) \/ Pick(t) \/ Meet(t)
    BY <2>1 DEF KeepGoing, Leave, Pick, Meet
  <2>2. CASE ReadLocation(t)
    BY <2>2, ReadStarts DEF PtrNext
  <2>3. CASE Decide(t)
    BY <2>3, DecideStarts DEF PtrNext
  <2>4. CASE InCall(t)
    BY <2>4, InCallSteps DEF PtrNext
  <2> QED
    BY <1>1, <2>1, <2>2, <2>3, <2>4 DEF Thread
<1> QED
  BY <1>1 DEF Next, Finished, vars

\* A step of Get or Swap exchanges two pointers or none.
LEMMA CallsExchange ==
  ASSUME PtrInv, PtrInv', CallsUsed, NEW t \in Threads, PtrStep(t)
  PROVE  \/ Mem' = Mem
         \/ \E i, j \in Slots : Mem' = [Mem EXCEPT ![i] = Mem[j], ![j] = Mem[i]]
<1>1. CASE Swaps!Act(t)
  <2>1. op[t] # NoCall /\ Swaps!Effect(t)
    BY <1>1 DEF Swaps!Act
  <2>2. op[t] \in Calls /\ Kind(t) \in {"get", "swap"}
    BY <2>1 DEF PtrInv, PtrTypeOK, CallsUsed
  <2>3. op[t].first \in Slots /\ op[t].last \in Slots
    BY <2>2 DEF Calls
  <2>4. op[t].kind = "get" \/ op[t].kind = "swap"
    BY <2>2 DEF Kind
  <2> QED
    BY <2>1, <2>3, <2>4 DEF Swaps!Effect, Swaps!Failing, Swaps!Exchanged
<1>2. CASE Swaps!Return(t) \/ UNCHANGED Swaps!vars
  BY <1>2 DEF Swaps!Return, Swaps!vars
<1> QED
  BY <1>1, <1>2, StepIsAct

LEMMA DistinctKept ==
  ASSUME RunInv, PtrInv', Next
  PROVE  LocationsDistinct'
<1>1. ASSUME Mem' = Mem
      PROVE  LocationsDistinct'
  BY <1>1 DEF RunInv, LocationsDistinct
<1>2. ASSUME NEW i \in Slots, NEW j \in Slots,
             Mem' = [Mem EXCEPT ![i] = Mem[j], ![j] = Mem[i]]
      PROVE  LocationsDistinct'
  <2>1. Mem \in [Slots -> Values] /\ \A k, l \in Slots : Mem[k] = Mem[l] => k = l
    BY MemType DEF RunInv, LocationsDistinct
  <2>2. \A k \in Slots : Mem'[k] = IF k = j THEN Mem[i] ELSE IF k = i THEN Mem[j] ELSE Mem[k]
    BY <1>2, <2>1
  <2> QED
    BY <2>1, <2>2 DEF LocationsDistinct
<1>3. CASE UNCHANGED ptrVars
  BY <1>1, <1>3 DEF ptrVars, Mem, Owns, Owning, First
<1>4. ASSUME NEW t \in Threads, StartAny(t)
      PROVE  LocationsDistinct'
  BY <1>1, <1>4, StartIsInvoke DEF RunInv, Swaps!Invoke
<1>5. ASSUME NEW t \in Threads, PtrStep(t)
      PROVE  LocationsDistinct'
  BY <1>1, <1>2, <1>5, CallsExchange DEF RunInv
<1> QED
  BY <1>3, <1>4, <1>5, ThreadIsPtrNext DEF PtrNext

LEMMA CallsUsedKept ==
  ASSUME RunInv, PtrInv', Next
  PROVE  CallsUsed'
<1>1. ASSUME UNCHANGED ptrVars
      PROVE  CallsUsed'
  BY <1>1 DEF RunInv, CallsUsed, ptrVars, Kind
<1>2. ASSUME NEW t \in Threads, NEW kind \in {"get", "swap"}, NEW i \in Slots, NEW j \in Slots,
             Start(t, kind, i, j, NoCall)
      PROVE  CallsUsed'
  <2>1. \A s \in Threads \ {t} : pc'[s] = pc[s] /\ op'[s] = op[s]
    BY <1>2 DEF Start, Goto, RunInv, PtrInv, PtrTypeOK
  <2>2. op'[t].kind = kind
    BY <1>2 DEF Start, RunInv, PtrInv, PtrTypeOK
  <2> QED
    BY <2>1, <2>2 DEF RunInv, CallsUsed, Kind
<1>3. ASSUME NEW t \in Threads, Thread(t)
      PROVE  CallsUsed'
  <2>1. CASE KeepGoing(t) \/ Leave(t) \/ Pick(t) \/ Meet(t)
    BY <1>1, <2>1 DEF KeepGoing, Leave, Pick, Meet
  <2>2. CASE ReadLocation(t)
    <3>1. Head(toRead[t]) \in Slots
      BY <2>2 DEF RunInv, ReadLocation
    <3> QED
      BY <1>2, <2>2, <3>1 DEF ReadLocation, StartGet
  <2>3. CASE Decide(t)
    <3>1. a[t] \in Slots /\ b[t] \in Slots
      BY DEF RunInv, TypeOK
    <3> QED
      BY <1>1, <1>2, <2>3, <3>1, DecideStarts DEF StartSwap
  <2>4. CASE InCall(t)
    <3>1. \A s \in Threads \ {t} : pc'[s] = pc[s] /\ op'[s] = op[s]
      BY <2>4, InCallSteps, OthersKeep DEF RunInv, PtrInv
    <3>2. op'[t] = op[t] \/ pc'[t] = "idle"
      BY <2>4 DEF InCall, Load, Cas, CasFails, LoadLast, CasLast, CasLastFails, Checkin, Return,
                  Goto, RunInv, PtrInv, PtrTypeOK
    <3>3. pc[t] # "idle"
      BY <2>4 DEF InCall, Load, Cas, CasFails, LoadLast, CasLast, CasLastFails, Checkin, Return
    <3> QED
      BY <3>1, <3>2, <3>3 DEF RunInv, CallsUsed, Kind
  <2> QED
    BY <1>3, <2>1, <2>2, <2>3, <2>4 DEF Thread
<1> QED
  BY <1>1, <1>3 DEF Next, Finished, vars

-----------------------------------------------------------------------------
(* Types and counts *)

LEMMA RunTypes ==
  ASSUME RunInv, PtrInv', NEW t \in Threads, Thread(t)
  PROVE  /\ TypeOK' /\ toRead' \in [Threads -> Seq(Slots)]
         /\ \A s \in Threads : MoveShape(s)'
<1> USE DEF RunInv, TypeOK, MoveShape, Set
<1>0. PtrTypeOK'
  BY DEF PtrInv
<1>1. CASE KeepGoing(t)
  <2>1. CASE WantsMore(t)
    <3>1. /\ at' = [at EXCEPT ![t] = "move"] /\ moves' = [moves EXCEPT ![t] = 0]
          /\ good' = [good EXCEPT ![t] = 0] /\ bad' = [bad EXCEPT ![t] = 0]
          /\ UNCHANGED <<a, b, toRead>>
      BY <1>1, <2>1 DEF KeepGoing
    <3>2. /\ at' \in [Threads -> {"keep", "move", "cost", "barrier", "leave", "returned"}]
          /\ moves' \in [Threads -> 0..MovesPerStep]
          /\ good' \in [Threads -> 0..MovesPerStep] /\ bad' \in [Threads -> -1..MovesPerStep]
      BY <3>1
    <3>3. ASSUME NEW s \in Threads
          PROVE  MoveShape(s)'
      <4>1. CASE s = t
        BY <3>1, <4>1
      <4>2. CASE s # t
        BY <3>1, <4>2
      <4> QED
        BY <4>1, <4>2
    <3> QED
      BY <1>0, <3>1, <3>2, <3>3
  <2>2. CASE ~WantsMore(t)
    BY <1>0, <1>1, <2>2 DEF KeepGoing
  <2> QED
    BY <2>1, <2>2
<1>2. CASE Pick(t)
  <2>1. PICK e \in Slots \ {b[t]} :
          /\ a' = [a EXCEPT ![t] = b[t]] /\ b' = [b EXCEPT ![t] = e]
          /\ toRead' = [toRead EXCEPT ![t] = <<b[t], e>> \o Wired[b[t]] \o Wired[e]]
    BY <1>2 DEF Pick
  <2>2. <<b[t], e>> \o Wired[b[t]] \o Wired[e] \in Seq(Slots)
    <3>1. b[t] \in Slots /\ e \in Slots
      OBVIOUS
    <3>2. Wired[b[t]] \in Seq(Slots) /\ Wired[e] \in Seq(Slots)
      BY <3>1
    <3>3. <<b[t], e>> \in Seq(Slots)
      BY <3>1
    <3> QED
      BY <3>2, <3>3
  <2>3. toRead' \in [Threads -> Seq(Slots)]
    BY <2>1, <2>2
  <2>4. a' \in [Threads -> Slots] /\ b' \in [Threads -> Slots] /\ a'[t] # b'[t]
    BY <2>1
  <2>5. /\ \A s \in Threads \ {t} : a'[s] = a[s] /\ b'[s] = b[s]
        /\ UNCHANGED <<moves, good, bad>> /\ at' = [at EXCEPT ![t] = "cost"]
        /\ at[t] = "move" /\ moves[t] < MovesPerStep
    BY <1>2, <2>1 DEF Pick
  <2> QED
    BY <1>0, <2>3, <2>4, <2>5
<1>3. CASE ReadLocation(t)
  BY <1>0, <1>3 DEF ReadLocation
<1>4. CASE Decide(t)
  <2>1. /\ at[t] = "cost" /\ at' = [at EXCEPT ![t] = "move"]
        /\ moves' = [moves EXCEPT ![t] = moves[t] + 1]
        /\ UNCHANGED <<a, b, toRead>>
    BY <1>4 DEF Decide
  <2>2. \/ good' = good /\ bad' = bad
        \/ good' = [good EXCEPT ![t] = good[t] + 1] /\ bad' = bad
        \/ bad' = [bad EXCEPT ![t] = bad[t] + 1] /\ good' = good
    BY <1>4 DEF Decide
  <2>3. /\ moves[t] \in Nat /\ moves[t] < MovesPerStep /\ good[t] \in 0..moves[t]
        /\ bad[t] \in -1..moves[t]
    BY <2>1
  <2>4. /\ moves[t] + 1 \in 0..MovesPerStep
        /\ good[t] + 1 \in 0..(moves[t] + 1) /\ bad[t] + 1 \in -1..(moves[t] + 1)
        /\ good[t] \in 0..(moves[t] + 1) /\ bad[t] \in -1..(moves[t] + 1)
    BY <2>3, MovesAreCounted
  <2>5. /\ at' \in [Threads -> {"keep", "move", "cost", "barrier", "leave", "returned"}]
        /\ moves' \in [Threads -> 0..MovesPerStep]
    BY <2>1, <2>4
  <2>6. good' \in [Threads -> 0..MovesPerStep] /\ bad' \in [Threads -> -1..MovesPerStep]
    <3>1. good[t] + 1 \in 0..MovesPerStep /\ bad[t] + 1 \in -1..MovesPerStep
      BY <2>3, MovesAreCounted
    <3>2. good \in [Threads -> 0..MovesPerStep] /\ bad \in [Threads -> -1..MovesPerStep]
      OBVIOUS
    <3> HIDE DEF RunInv, TypeOK
    <3>3. good' \in [Threads -> 0..MovesPerStep]
      BY <2>2, <3>1, <3>2
    <3>4. bad' \in [Threads -> -1..MovesPerStep]
      BY <2>2, <3>1, <3>2
    <3> QED
      BY <3>3, <3>4
  <2>7. \A s \in Threads \ {t} :
          at'[s] = at[s] /\ moves'[s] = moves[s] /\ good'[s] = good[s] /\ bad'[s] = bad[s]
    BY <2>1, <2>2
  <2>8. at'[t] = "move" /\ moves'[t] = moves[t] + 1
    BY <2>1
  <2>9. good'[t] \in {good[t], good[t] + 1} /\ bad'[t] \in {bad[t], bad[t] + 1}
    BY <2>2
  <2>10. good'[t] <= moves'[t] /\ bad'[t] <= moves'[t]
    <3>1. good'[t] \in Int /\ bad'[t] \in Int /\ good[t] \in Int /\ bad[t] \in Int
      BY <2>3, <2>9
    <3> QED
      BY <2>3, <2>8, <2>9, <3>1
  <2>11. ASSUME NEW s \in Threads
         PROVE  MoveShape(s)'
    <3>1. CASE s = t
      BY <2>1, <2>8, <2>10, <3>1
    <3>2. CASE s # t
      BY <2>1, <2>7, <3>2
    <3> QED
      BY <3>1, <3>2
  <2> QED
    BY <1>0, <2>1, <2>5, <2>6, <2>11
<1>5. CASE InCall(t)
  BY <1>0, <1>5 DEF InCall, runVars
<1>6. CASE Meet(t)
  <2>1. /\ at[t] = "move" /\ UNCHANGED <<a, b, toRead, moves, good, bad>>
        /\ \/ at' = [s \in Threads |-> "keep"]
           \/ at' = [at EXCEPT ![t] = "barrier"]
    BY <1>6 DEF Meet
  <2>2. \A s \in Threads : at'[s] \in {"keep", "barrier"} \/ at'[s] = at[s]
    BY <2>1
  <2>3. at' \in [Threads -> {"keep", "move", "cost", "barrier", "leave", "returned"}]
    BY <2>1
  <2> QED
    BY <1>0, <2>1, <2>2, <2>3
<1>7. CASE Leave(t)
  BY <1>0, <1>7 DEF Leave
<1> QED
  BY <1>1, <1>2, <1>3, <1>4, <1>5, <1>6, <1>7 DEF Thread

LEMMA RunInvNext == RunInv /\ [Next]_vars => RunInv'
<1> SUFFICES ASSUME RunInv, [Next]_vars
             PROVE  RunInv'
  OBVIOUS
<1>1. PtrInv'
  BY ThreadIsPtrNext, PtrInvNext DEF RunInv
<1>2. CASE UNCHANGED vars
  <2>1. UNCHANGED ptrVars /\ UNCHANGED runVars
    BY <1>2 DEF vars
  <2>2. CallsUsed'
    BY <2>1 DEF RunInv, CallsUsed, ptrVars, Kind
  <2>3. LocationsDistinct'
    <3>1. Mem' = Mem
      BY <2>1 DEF ptrVars, Mem, Owns, Owning, First
    <3> QED
      BY <3>1 DEF RunInv, LocationsDistinct
  <2>4. TypeOK' /\ toRead' \in [Threads -> Seq(Slots)] /\ \A s \in Threads : MoveShape(s)'
    BY <1>1, <2>1 DEF RunInv, TypeOK, PtrInv, runVars, MoveShape
  <2> QED
    BY <1>1, <2>2, <2>3, <2>4 DEF RunInv
<1>3. ASSUME NEW t \in Threads, Thread(t)
      PROVE  RunInv'
  <2>1. Next
    BY <1>3 DEF Next
  <2>2. CallsUsed' /\ LocationsDistinct'
    BY <1>1, <2>1, CallsUsedKept, DistinctKept
  <2> QED
    BY <1>1, <1>3, <2>2, RunTypes DEF RunInv
<1> QED
  BY <1>2, <1>3 DEF Next, Finished

LEMMA RunSafe == Spec => []RunInv
BY RunInvInit, RunInvNext, PTL DEF Spec

\* The types of canneal's threads, with the counts of moves in their bounds.
THEOREM CannealTypes == Spec => []TypeOK
<1>1. RunInv => TypeOK
  BY DEF RunInv
<1> QED
  BY <1>1, RunSafe, PTL

\* A location that is out of its element is with one thread.
THEOREM CannealOneOwner == Spec => []OneOwner
<1>1. RunInv => OneOwner
  BY DEF RunInv, PtrInv
<1> QED
  BY <1>1, RunSafe, PTL

\* No two elements are ever at one location.
THEOREM CannealDistinct == Spec => []LocationsDistinct
<1>1. RunInv => LocationsDistinct
  BY DEF RunInv
<1> QED
  BY <1>1, RunSafe, PTL

\* Each Get and each Swap of canneal takes effect at one instant.
THEOREM CannealLinearizable == Spec => ImplementsSwaps
<1>1. Init => PtrInit
  BY DEF Init
<1>2. RunInv /\ [Next]_vars => [PtrNext]_ptrVars
  BY ThreadIsPtrNext
<1>3. Spec => PtrSpec
  BY <1>1, <1>2, RunSafe, PTL DEF Spec, PtrSpec
<1> QED
  BY <1>3, PtrLinearizable, PTL
=============================================================================
