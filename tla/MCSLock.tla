-------------------------------- MODULE MCSLock --------------------------------
(***************************************************************************)
(* The MCS queue lock of Phoenix (phoenix-2.0/src/mcs.c): each thread has  *)
(* a private record with the fields next and locked, and head points to    *)
(* the record of the last thread in line.  One action is one access to     *)
(* shared memory; the swap and the compare-and-swap are atomic, and the    *)
(* stores of set_and_flush take effect in program order.                   *)
(***************************************************************************)
EXTENDS Integers, Sequences

CONSTANTS
    Thread,     \* the threads, standing for their private records
    NULL        \* the null pointer

ASSUME NULLAssumption == NULL \notin Thread

VARIABLES
    head,       \* mcs->head
    next,       \* next[t]: priv->next
    locked,     \* locked[t]: priv->locked
    prev,       \* prev[t]: the local variable of mcs_acquire
    pc,         \* pc[t]: control point of thread t
    order       \* history: the threads in line, in the order of their swaps

vars == <<head, next, locked, prev, pc, order>>

(* Mutant of Init: the field locked of a record is left uninitialised. *)
Init_NoLockedReset ==
    /\ head = NULL
    /\ next = [t \in Thread |-> NULL]
    /\ locked \in [Thread -> {0, 255}]
    /\ prev = [t \in Thread |-> NULL]
    /\ pc = [t \in Thread |-> "idle"]
    /\ order = <<>>

Init ==
    /\ head = NULL
    /\ next = [t \in Thread |-> NULL]
    /\ locked = [t \in Thread |-> 0]
    /\ prev = [t \in Thread |-> NULL]
    /\ pc = [t \in Thread |-> "idle"]
    /\ order = <<>>

(* Where a thread that found the lock taken goes: it sets its own flag     *)
(* before it links itself behind prev ("this ordering is important").      *)
Contended == [swap |-> "flag", flag |-> "link", link |-> "spin"]

Goto(t, label) == pc' = [pc EXCEPT ![t] = label]

-----------------------------------------------------------------------------
(* mcs_acquire *)

ResetNext(t) ==
    /\ pc[t] = "idle"
    /\ next' = [next EXCEPT ![t] = NULL]
    /\ Goto(t, "swap")
    /\ UNCHANGED <<head, locked, prev, order>>

SwapHead(t) ==
    /\ pc[t] = "swap"
    /\ prev' = [prev EXCEPT ![t] = head]
    /\ head' = t
    /\ order' = Append(order, t)
    /\ Goto(t, IF head = NULL THEN "cs" ELSE Contended["swap"])
    /\ UNCHANGED <<next, locked>>

SetLocked(t) ==
    /\ pc[t] = "flag"
    /\ locked' = [locked EXCEPT ![t] = 1]
    /\ Goto(t, Contended["flag"])
    /\ UNCHANGED <<head, next, prev, order>>

LinkBehindPrev(t) ==
    /\ pc[t] = "link"
    /\ next' = [next EXCEPT ![prev[t]] = t]
    /\ Goto(t, Contended["link"])
    /\ UNCHANGED <<head, locked, prev, order>>

(* Mutant of SpinOnLocked: the wait for the flag is dropped. *)
SpinOnLocked_NoSpin(t) ==
    /\ pc[t] = "spin"
    /\ Goto(t, "cs")
    /\ UNCHANGED <<head, next, locked, prev, order>>

SpinOnLocked(t) ==
    /\ pc[t] = "spin"
    /\ locked[t] = 0
    /\ Goto(t, "cs")
    /\ UNCHANGED <<head, next, locked, prev, order>>

-----------------------------------------------------------------------------
(* mcs_release *)

(* Mutant of TestNext: the test for a null successor is dropped. *)
TestNext_NoTest(t) ==
    /\ pc[t] = "cs"
    /\ Goto(t, "handoff")
    /\ UNCHANGED <<head, next, locked, prev, order>>

TestNext(t) ==
    /\ pc[t] = "cs"
    /\ Goto(t, IF next[t] = NULL THEN "cas" ELSE "handoff")
    /\ UNCHANGED <<head, next, locked, prev, order>>

(* Mutant of SwapHeadToNull: a plain store replaces the compare-and-swap. *)
SwapHeadToNull_Store(t) ==
    /\ pc[t] = "cas"
    /\ head' = NULL
    /\ order' = Tail(order)
    /\ Goto(t, "idle")
    /\ UNCHANGED <<next, locked, prev>>

SwapHeadToNull(t) ==
    /\ pc[t] = "cas"
    /\ IF head = t
         THEN /\ head' = NULL
              /\ order' = Tail(order)
              /\ Goto(t, "idle")
         ELSE /\ Goto(t, "waitnext")
              /\ UNCHANGED <<head, order>>
    /\ UNCHANGED <<next, locked, prev>>

SpinOnNext(t) ==
    /\ pc[t] = "waitnext"
    /\ next[t] # NULL
    /\ Goto(t, "handoff")
    /\ UNCHANGED <<head, next, locked, prev, order>>

UnlockNext(t) ==
    /\ pc[t] = "handoff"
    /\ locked' = [locked EXCEPT ![next[t]] = 0]
    /\ order' = Tail(order)
    /\ Goto(t, "idle")
    /\ UNCHANGED <<head, next, prev>>

-----------------------------------------------------------------------------
mcs_acquire(t) ==
    ResetNext(t) \/ SwapHead(t) \/ SetLocked(t) \/ LinkBehindPrev(t)
      \/ SpinOnLocked(t)

mcs_release(t) ==
    TestNext(t) \/ SwapHeadToNull(t) \/ SpinOnNext(t) \/ UnlockNext(t)

Next == \E t \in Thread : mcs_acquire(t) \/ mcs_release(t)

Spec == Init /\ [][Next]_vars

(* A thread inside mcs_acquire or mcs_release keeps running, and a thread  *)
(* that holds the lock, for a queue operation, releases it.                *)
Fairness ==
    \A t \in Thread :
        WF_vars((pc[t] # "idle" /\ mcs_acquire(t)) \/ mcs_release(t))

FairSpec == Spec /\ Fairness

-----------------------------------------------------------------------------
(* Properties. *)

PC == {"idle", "swap", "flag", "link", "spin", "cs", "cas", "waitnext",
       "handoff"}
Releasing == {"cas", "waitnext", "handoff"}
Holding == {"cs"} \cup Releasing
InLine == PC \ {"idle", "swap"}

TypeOK ==
    /\ head \in Thread \cup {NULL}
    /\ next \in [Thread -> Thread \cup {NULL}]
    /\ locked \in [Thread -> {0, 1}]
    /\ prev \in [Thread -> Thread \cup {NULL}]
    /\ pc \in [Thread -> PC]
    /\ order \in Seq(Thread)

(* At most one thread is between the return of mcs_acquire and the end of  *)
(* mcs_release.                                                            *)
MutualExclusion ==
    \A s, t \in Thread :
        pc[s] \in Holding /\ pc[t] \in Holding => s = t

(* assert (priv->locked == 0) at the start of mcs_acquire, and the release *)
(* never follows a null next pointer.                                      *)
AssertionsHold ==
    \A t \in Thread :
        /\ pc[t] \in {"idle", "swap"} => locked[t] = 0
        /\ pc[t] = "handoff" => next[t] # NULL

(* The lock is granted in the order of the swaps of head, and a thread     *)
(* that no longer waits is the first in line.  The fairness of FIFOLock    *)
(* says that no schedule makes a thread spin forever: the first in line is *)
(* granted the lock and leaves it, so that everybody in line comes first.  *)
FL == INSTANCE FIFOLock WITH
        Client <- Thread,
        queue <- order,
        held <- \E t \in Thread : pc[t] \in Holding
ImplementsFIFOLock == FL!LockSpec

-----------------------------------------------------------------------------
(* The inductive invariant behind MutualExclusion.                         *)

First(t) == order # <<>> /\ order[1] = t

(* The line: who is in it, in which order, and where head points. *)
LineInv ==
    /\ \A j, l \in 1 .. Len(order) : order[j] = order[l] => j = l
    /\ \A t \in Thread : pc[t] \in InLine <=> \E j \in 1 .. Len(order) : order[j] = t
    /\ head = IF order = <<>> THEN NULL ELSE order[Len(order)]

(* Each thread but the first waits behind its predecessor. *)
WaitInv ==
    \A j \in 2 .. Len(order) :
        /\ prev[order[j]] = order[j - 1]
        /\ \/ pc[order[j]] = "flag"
           \/ pc[order[j]] \in {"link", "spin"} /\ locked[order[j]] = 1
        /\ next[order[j - 1]] =
               IF pc[order[j]] = "spin" THEN order[j] ELSE NULL

(* The first in line holds the lock or is about to see its flag cleared. *)
FirstInv ==
    order # <<>> =>
        /\ locked[order[1]] = 0
        /\ pc[order[1]] \in Holding \cup {"spin"}
        /\ pc[order[1]] = "waitnext" => Len(order) > 1
        /\ pc[order[1]] = "handoff" => Len(order) > 1 /\ pc[order[2]] = "spin"

(* The last in line has no successor yet, and outsiders are unlocked. *)
EndInv ==
    /\ order # <<>> => next[order[Len(order)]] = NULL
    /\ \A t \in Thread : pc[t] \in {"idle", "swap", "flag"} => locked[t] = 0
    /\ \A t \in Thread : pc[t] = "swap" => next[t] = NULL

IInv == TypeOK /\ LineInv /\ WaitInv /\ FirstInv /\ EndInv
=============================================================================
