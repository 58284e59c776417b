------------------------------ MODULE AtomicPtr ------------------------------
(***************************************************************************)
(* Class AtomicPtr of canneal (K/canneal/src/AtomicPtr.h) with threads: a  *)
(* pointer is read with an atomic load and replaced with a compare-and-    *)
(* swap, and the value ATOMIC_NULL says that a thread has checked it out.  *)
(* Swap checks out the pointer at the lower address, exchanges the other   *)
(* one and checks the first one in.  One action is one access to a pointer *)
(* shared by the threads.                                                  *)
(***************************************************************************)
EXTENDS Integers

CONSTANTS Threads,
          Slots,         \* addresses of the pointers
          Values,        \* what they point to
          ATOMIC_NULL, NoCall

Kinds == {"get", "tryget", "set", "tryset", "swap", "tryswap", "update", "tryupdate"}
Calls == [kind : Kinds, first : Slots, last : Slots, x : Values \cup {NoCall}]

ASSUME SlotsAreAddresses == Slots \subseteq Nat
ASSUME NullIsNoValue == ATOMIC_NULL \notin Values
ASSUME NoCallIsNeither == NoCall \notin Calls /\ NoCall \notin Values
ASSUME AnswersAreNoValues == {"pending", "swapped", "failed"} \cap Values = {}

VARIABLES p,       \* the pointers
          pc,      \* where in its call a thread is
          op,      \* the call
          val,     \* the pointer it last loaded
          held,    \* the pointer it has checked out, or will check in
          ans      \* what the call returns, "pending" before that is settled

ptrVars == <<p, pc, op, val, held, ans>>

Kind(t) == op[t].kind
First(t) == op[t].first
Last(t) == op[t].last
Trying(t) == Kind(t) \in {"tryget", "tryset", "tryswap", "tryupdate"}
Reading(t) == Kind(t) \in {"get", "tryget"}
Setting(t) == Kind(t) \in {"set", "tryset"}
Swapping(t) == Kind(t) \in {"swap", "tryswap"}

Goto(t, to) == pc' = [pc EXCEPT ![t] = to]
Answer(t, a) == ans' = [ans EXCEPT ![t] = a]

-----------------------------------------------------------------------------
(* A call begins.  "update" is a Checkout and the Checkin that ends it.    *)

Start(t, kind, i, j, x) ==
  /\ pc[t] = "idle"
  /\ op' = [op EXCEPT ![t] = [kind |-> kind, first |-> i, last |-> j, x |-> x]]
  /\ Goto(t, "load")
  /\ UNCHANGED <<p, val, held, ans>>

StartGet(t, i) == Start(t, "get", i, i, NoCall)

AsGiven(t, kind, i, j) ==       \* mutant: no order on the two pointers
  Start(t, kind, i, j, NoCall)

\* The pointer at the lower address is the one to check out.
StartSwap(t, kind, i, j) ==
  IF i < j THEN Start(t, kind, i, j, NoCall) ELSE Start(t, kind, j, i, NoCall)

-----------------------------------------------------------------------------
(* Get and TryGet, then the compare-and-swap of PrivateSet and of          *)
(* TryPrivateSet, on the first pointer of the call                         *)

LoadAnything(t) ==      \* mutant: ATOMIC_NULL is taken for a pointer
  /\ pc[t] = "load"
  /\ val' = [val EXCEPT ![t] = p[First(t)]]
  /\ Goto(t, "cas")
  /\ UNCHANGED <<p, op, held, ans>>

Load(t) ==
  /\ pc[t] = "load" /\ p[First(t)] # ATOMIC_NULL
  /\ val' = [val EXCEPT ![t] = p[First(t)]]
  /\ \/ Reading(t) /\ Answer(t, p[First(t)]) /\ Goto(t, "return")
     \/ ~Reading(t) /\ Goto(t, "cas") /\ UNCHANGED ans
  /\ UNCHANGED <<p, op, held>>

LoadFails(t) ==
  /\ pc[t] = "load" /\ p[First(t)] = ATOMIC_NULL /\ Trying(t)
  /\ Answer(t, "failed") /\ Goto(t, "return")
  /\ UNCHANGED <<p, op, val, held>>

StoreBlindly(t) ==      \* mutant: a plain store where the code compares and swaps
  /\ pc[t] = "cas"
  /\ p' = [p EXCEPT ![First(t)] = ATOMIC_NULL]
  /\ held' = [held EXCEPT ![t] = val[t]]
  /\ Goto(t, "load2")
  /\ UNCHANGED <<op, val, ans>>

\* Set stores its argument, the others ATOMIC_NULL.
Cas(t) ==
  /\ pc[t] = "cas" /\ p[First(t)] = val[t]
  /\ \/ /\ Setting(t)
        /\ p' = [p EXCEPT ![First(t)] = op[t].x]
        /\ Answer(t, val[t]) /\ Goto(t, "return")
        /\ UNCHANGED held
     \/ /\ ~Setting(t)
        /\ p' = [p EXCEPT ![First(t)] = ATOMIC_NULL]
        /\ held' = [held EXCEPT ![t] = val[t]]
        /\ Goto(t, IF Swapping(t) THEN "load2" ELSE "held")
        /\ UNCHANGED ans
  /\ UNCHANGED <<op, val>>

CasFails(t) ==
  /\ pc[t] = "cas" /\ p[First(t)] # val[t]
  /\ \/ Trying(t) /\ Answer(t, "failed") /\ Goto(t, "return")
     \/ ~Trying(t) /\ Goto(t, "load") /\ UNCHANGED ans
  /\ UNCHANGED <<p, op, val, held>>

-----------------------------------------------------------------------------
(* The second half of Swap and TrySwap, and Checkin                        *)

LoadLast(t) ==
  /\ pc[t] = "load2" /\ p[Last(t)] # ATOMIC_NULL
  /\ val' = [val EXCEPT ![t] = p[Last(t)]]
  /\ Goto(t, "cas2")
  /\ UNCHANGED <<p, op, held, ans>>

\* TrySwap puts the first pointer back.
LoadLastFails(t) ==
  /\ pc[t] = "load2" /\ p[Last(t)] = ATOMIC_NULL /\ Trying(t)
  /\ Answer(t, "failed") /\ Goto(t, "checkin")
  /\ UNCHANGED <<p, op, val, held>>

KeepFirst(t) ==         \* mutant: the first pointer is checked in again
  /\ pc[t] = "cas2" /\ p[Last(t)] = val[t]
  /\ p' = [p EXCEPT ![Last(t)] = held[t]]
  /\ Answer(t, "swapped") /\ Goto(t, "checkin")
  /\ UNCHANGED <<op, val, held>>

CasLast(t) ==
  /\ pc[t] = "cas2" /\ p[Last(t)] = val[t]
  /\ p' = [p EXCEPT ![Last(t)] = held[t]]
  /\ held' = [held EXCEPT ![t] = val[t]]
  /\ Answer(t, "swapped") /\ Goto(t, "checkin")
  /\ UNCHANGED <<op, val>>

CasLastFails(t) ==
  /\ pc[t] = "cas2" /\ p[Last(t)] # val[t]
  /\ \/ Trying(t) /\ Answer(t, "failed") /\ Goto(t, "checkin")
     \/ ~Trying(t) /\ Goto(t, "load2") /\ UNCHANGED ans
  /\ UNCHANGED <<p, op, val, held>>

Checkin(t) ==
  /\ pc[t] = "checkin"
  /\ p' = [p EXCEPT ![First(t)] = held[t]]
  /\ Goto(t, "return")
  /\ UNCHANGED <<op, val, held, ans>>

\* The owner of a checked out pointer may check in any other.
CheckinOther(t) ==
  /\ pc[t] = "held"
  /\ \E x \in Values : p' = [p EXCEPT ![First(t)] = x]
  /\ Answer(t, held[t]) /\ Goto(t, "return")
  /\ UNCHANGED <<op, val, held>>

Return(t) == /\ pc[t] = "return"
             /\ op' = [op EXCEPT ![t] = NoCall]
             /\ val' = [val EXCEPT ![t] = NoCall]
             /\ held' = [held EXCEPT ![t] = NoCall]
             /\ Answer(t, "pending") /\ Goto(t, "idle")
             /\ UNCHANGED p

PtrStep(t) == \/ Load(t) \/ LoadFails(t) \/ Cas(t) \/ CasFails(t)
              \/ LoadLast(t) \/ LoadLastFails(t) \/ CasLast(t) \/ CasLastFails(t)
              \/ Checkin(t) \/ CheckinOther(t) \/ Return(t)

-----------------------------------------------------------------------------
(* Any client: every function on any pointer, a swap only of two pointers  *)
(* (a pointer that is swapped with itself is never checked in).            *)

StartAny(t) ==
  \E i \in Slots :
    \/ \E kind \in {"get", "tryget", "update", "tryupdate"} : Start(t, kind, i, i, NoCall)
    \/ \E kind \in {"set", "tryset"}, x \in Values : Start(t, kind, i, i, x)
    \/ \E kind \in {"swap", "tryswap"}, j \in Slots \ {i} : StartSwap(t, kind, i, j)

PtrInit ==
  /\ p \in [Slots -> Values]
  /\ pc = [t \in Threads |-> "idle"]
  /\ op = [t \in Threads |-> NoCall]
  /\ val = [t \in Threads |-> NoCall]
  /\ held = [t \in Threads |-> NoCall]
  /\ ans = [t \in Threads |-> "pending"]

PtrNext == \E t \in Threads : StartAny(t) \/ PtrStep(t)
PtrSpec == PtrInit /\ [][PtrNext]_ptrVars

-----------------------------------------------------------------------------
(* Properties *)

Owning == {"load2", "cas2", "checkin", "held"}
Owns(t, i) == pc[t] \in Owning /\ First(t) = i

\* Types of the variables; what a thread compares with or checks in is a
\* pointer it has read, never ATOMIC_NULL.
PtrTypeOK ==
  /\ p \in [Slots -> Values \cup {ATOMIC_NULL}]
  /\ pc \in [Threads -> {"idle", "load", "cas", "return"} \cup Owning]
  /\ op \in [Threads -> Calls \cup {NoCall}]
  /\ val \in [Threads -> Values \cup {NoCall}]
  /\ held \in [Threads -> Values \cup {NoCall}]
  /\ ans \in [Threads -> Values \cup {"pending", "swapped", "failed"}]
  /\ \A t \in Threads :
       /\ pc[t] = "idle" <=> op[t] = NoCall
       /\ pc[t] \in {"cas", "cas2"} => val[t] \in Values
       /\ pc[t] \in Owning => held[t] \in Values

\* A pointer is out of its slot exactly while one thread has it checked out.
OneOwner ==
  /\ \A i \in Slots : p[i] = ATOMIC_NULL <=> \E t \in Threads : Owns(t, i)
  /\ \A s, t \in Threads : \A i \in Slots : Owns(s, i) /\ Owns(t, i) => s = t

\* The pointer in a slot, or the one its owner would check in.
Mem == [i \in Slots |-> IF p[i] # ATOMIC_NULL THEN p[i]
                        ELSE held[CHOOSE t \in Threads : Owns(t, i)]]

\* Every call takes effect at one instant, whatever else goes on.
Swaps == INSTANCE AtomicSwaps
           WITH Procs <- Threads, mem <- Mem, call <- op
ImplementsSwaps == Swaps!SafeSpec
=============================================================================
