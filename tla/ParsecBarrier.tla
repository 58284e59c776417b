----------------------------- MODULE ParsecBarrier -----------------------------
(***************************************************************************)
(* The barrier of PARSEC (streamcluster/src/parsec_barrier.cpp, and the    *)
(* same file in fluidanimate and netstreamcluster) as parsec_barrier.hpp   *)
(* configures it: a thread that must wait first spins on is_arrival_phase  *)
(* without the mutex, for a bounded time, then takes the mutex and falls   *)
(* back to the condition variable.  One action is one critical section of  *)
(* the mutex.  What the spinning thread read is forgotten: it reads the    *)
(* flag again under the mutex, so the end of the spin is the moment at     *)
(* which the next critical section begins.                                 *)
(*                                                                         *)
(* The callers are driven as by the barrier's own checker program, at the  *)
(* end of the file, and by localSearch of streamcluster.cpp: each thread   *)
(* calls the barrier Rounds times, then all are joined and it is destroyed.*)
(***************************************************************************)
EXTENDS Integers, FiniteSets

CONSTANTS
    Caller,     \* the callers
    Max,        \* barrier->max
    Rounds      \* bound: calls each thread makes

ASSUME ThreadAssumption == IsFiniteSet(Caller)
ASSUME MaxAssumption == Max \in Nat \ {0}
ASSUME RoundsAssumption == Rounds \in Nat

VARIABLES
    n,                  \* barrier->n
    isArrivalPhase,     \* barrier->is_arrival_phase
    master,             \* master[t]: the local variable of the latest call
    at,                 \* at[t]: control point of thread t
    answer,             \* answer[t]: TRUE when t last got the serial answer
    round,              \* history: calls from which t has returned
    destroyed           \* the answer of parsec_barrier_destroy, once called

barrierVars == <<n, isArrivalPhase, master, at, answer, round, destroyed>>

(* parsec_barrier_init with count = Max. *)
BarrierInit ==
    /\ n = 0
    /\ isArrivalPhase = TRUE
    /\ master = [t \in Caller |-> FALSE]
    /\ at = [t \in Caller |-> "out"]
    /\ answer = [t \in Caller |-> FALSE]
    /\ round = [t \in Caller |-> 0]
    /\ destroyed = "no"

(* pthread_cond_broadcast: every thread blocked on the condition variable  *)
(* goes for the mutex again.                                               *)
Broadcast(p) ==
    [t \in Caller |-> CASE p[t] = "condDeparture" -> "retryDeparture"
                        [] p[t] = "condArrival" -> "retryArrival"
                        [] OTHER -> p[t]]

-----------------------------------------------------------------------------
(* parsec_barrier_wait *)

Enter(t) ==
    /\ at[t] = "out"
    /\ round[t] < Rounds
    /\ destroyed = "no"
    /\ at' = [at EXCEPT ![t] = "lock"]
    /\ UNCHANGED <<n, isArrivalPhase, master, answer, round, destroyed>>

(* Mutant of Leave: the last thread to leave wakes nobody. *)
Leave_NoBroadcast(t, count, p) ==
    /\ n' = count - 1
    /\ isArrivalPhase' = (count = 1)
    /\ at' = [p EXCEPT ![t] = "out"]
    /\ round' = [round EXCEPT ![t] = @ + 1]
    /\ UNCHANGED destroyed

(* Mutant of Leave: the thread is not counted out. *)
Leave_NoDecrement(t, count, p) ==
    /\ n' = count
    /\ isArrivalPhase' = (count = 1)
    /\ at' = [IF count = 1 THEN Broadcast(p) ELSE p EXCEPT ![t] = "out"]
    /\ round' = [round EXCEPT ![t] = @ + 1]
    /\ UNCHANGED destroyed

(* The end of the call, in the departure phase, with count threads inside  *)
(* and the threads at p: the last thread to leave starts a new arrival     *)
(* phase.                                                                  *)
Leave(t, count, p) ==
    /\ n' = count - 1
    /\ isArrivalPhase' = (count = 1)
    /\ at' = [IF count = 1 THEN Broadcast(p) ELSE p EXCEPT ![t] = "out"]
    /\ round' = [round EXCEPT ![t] = @ + 1]
    /\ UNCHANGED destroyed

(* Mutant of Arrive: the count is tested after it is incremented. *)
Arrive_MasterAfterCount(t) ==
    /\ master' = [master EXCEPT ![t] = (n + 1 = 0)]
    /\ \/ /\ n + 1 >= Max
          /\ Leave(t, n + 1, Broadcast(at))
          /\ answer' = [answer EXCEPT ![t] = master'[t]]
       \/ /\ n + 1 < Max
          /\ n' = n + 1
          /\ at' = [at EXCEPT ![t] = "retryArrival"]
          /\ UNCHANGED <<isArrivalPhase, answer, round, destroyed>>

(* The first thread of a round is its master.  The last one starts the     *)
(* departure phase and leaves in the same critical section; any other one  *)
(* gives the mutex back and spins.                                         *)
Arrive(t) ==
    /\ master' = [master EXCEPT ![t] = (n = 0)]
    /\ \/ /\ n + 1 >= Max
          /\ Leave(t, n + 1, Broadcast(at))
          /\ answer' = [answer EXCEPT ![t] = master'[t]]
       \/ /\ n + 1 < Max
          /\ n' = n + 1
          /\ at' = [at EXCEPT ![t] = "retryArrival"]
          /\ UNCHANGED <<isArrivalPhase, answer, round, destroyed>>

GoWait(t, label) ==
    /\ at' = [at EXCEPT ![t] = label]
    /\ UNCHANGED <<n, isArrivalPhase, master, answer, round, destroyed>>

(* The first critical section: during a departure phase the thread gives   *)
(* the mutex back and spins.                                               *)
Lock(t) ==
    /\ at[t] = "lock"
    /\ IF isArrivalPhase THEN Arrive(t) ELSE GoWait(t, "retryDeparture")

(* Mutant of RetryDeparture: the outcome of the spin is trusted. *)
RetryDeparture_TrustSpin(t) ==
    /\ at[t] = "retryDeparture"
    /\ Arrive(t)

(* After the spin, or a wake-up, the flag is read again under the mutex. *)
RetryDeparture(t) ==
    /\ at[t] = "retryDeparture"
    /\ IF isArrivalPhase THEN Arrive(t) ELSE GoWait(t, "condDeparture")

RetryArrival(t) ==
    /\ at[t] = "retryArrival"
    /\ \/ /\ isArrivalPhase
          /\ GoWait(t, "condArrival")
       \/ /\ ~isArrivalPhase
          /\ Leave(t, n, at)
          /\ answer' = [answer EXCEPT ![t] = master[t]]
          /\ UNCHANGED master

(* pthread_cond_wait may return without a broadcast. *)
SpuriousWakeup(t) ==
    \/ at[t] = "condDeparture" /\ GoWait(t, "retryDeparture")
    \/ at[t] = "condArrival" /\ GoWait(t, "retryArrival")

parsec_barrier_wait(t) == Lock(t) \/ RetryDeparture(t) \/ RetryArrival(t)

-----------------------------------------------------------------------------
(* The barrier is destroyed by the thread that has joined its callers. *)
AllJoined == \A t \in Caller : at[t] = "out" /\ round[t] = Rounds

parsec_barrier_destroy ==
    /\ AllJoined
    /\ destroyed = "no"
    /\ destroyed' = IF n # 0 THEN "EBUSY" ELSE "ok"
    /\ UNCHANGED <<n, isArrivalPhase, master, at, answer, round>>

Terminated == destroyed # "no" /\ UNCHANGED barrierVars

BarrierNext ==
    \/ \E t \in Caller :
          Enter(t) \/ parsec_barrier_wait(t) \/ SpuriousWakeup(t)
    \/ parsec_barrier_destroy
    \/ Terminated

BarrierSpec == BarrierInit /\ [][BarrierNext]_barrierVars

(* The mutex is granted to whoever asks for it, the spin is bounded by     *)
(* SPIN_COUNTER_MAX, and a thread that leaves goes on to its next call.    *)
(* Nothing makes a spurious wake-up happen.                                *)
BarrierFairness ==
    /\ \A t \in Caller : /\ WF_barrierVars(Enter(t))
                         /\ WF_barrierVars(parsec_barrier_wait(t))
    /\ WF_barrierVars(parsec_barrier_destroy)

FairBarrierSpec == BarrierSpec /\ BarrierFairness

-----------------------------------------------------------------------------
(* Properties. *)

BarrierPC == {"out", "lock", "retryDeparture", "condDeparture", "retryArrival",
       "condArrival"}
Inside == {t \in Caller : at[t] \in {"retryArrival", "condArrival"}}

BarrierTypeOK ==
    /\ n \in 0 .. Max - 1       \* between critical sections
    /\ isArrivalPhase \in BOOLEAN
    /\ master \in [Caller -> BOOLEAN]
    /\ at \in [Caller -> BarrierPC]
    /\ answer \in [Caller -> BOOLEAN]
    /\ round \in [Caller -> 0 .. Rounds]
    /\ destroyed \in {"no", "ok", "EBUSY"}

(* Nobody returns from its k-th call before everybody has made its k-th    *)
(* call, when the barrier counts all threads: what counter_thread of the   *)
(* barrier's own checker relies on ("all counter values are always the     *)
(* same after each step").                                                 *)
Called(t) == IF at[t] = "out" THEN round[t] ELSE round[t] + 1

NoOvertaking ==
    Cardinality(Caller) = Max => \A t, u \in Caller : round[t] <= Called(u)

(* Once the threads are joined the barrier is found out of use.            *)
DestroyFindsItFree == destroyed # "EBUSY"

(* The barrier forms rounds of exactly Max threads with one serial thread  *)
(* each, however many threads share it and whoever spins or blocks.        *)
BR == INSTANCE BarrierRounds WITH
        Thread <- Caller,
        status <- [t \in Caller |->
                      IF at[t] = "out" THEN "out"
                      ELSE IF t \in Inside /\ ~isArrivalPhase
                      THEN "released" ELSE "waiting"],
        serial <- [t \in Caller |->
                      IF t \in Inside /\ ~isArrivalPhase
                      THEN master[t] ELSE answer[t]]
ImplementsBarrierRounds == BR!RoundSpec

(* No wake-up is lost: every thread returns from all its calls and the     *)
(* barrier is destroyed.                                                   *)
EverybodyLeaves == <>(destroyed # "no")

-----------------------------------------------------------------------------
(* The inductive invariant. *)

(* n counts the threads between their arrival and their departure. *)
CountInv == n = Cardinality(Inside)

(* A departure phase lasts while somebody is inside, and an arrival phase  *)
(* has room for one more thread.                                           *)
PhaseInv == IF isArrivalPhase THEN n < Max ELSE n > 0

(* The threads that have arrived have one master. *)
MasterInv ==
    isArrivalPhase /\ n > 0 =>
        \E m \in Inside : \A t \in Inside : master[t] <=> t = m

(* A thread blocks only for a change of phase that is still to come. *)
BlockedInv ==
    \A t \in Caller :
        /\ at[t] = "condDeparture" => ~isArrivalPhase
        /\ at[t] = "condArrival" => isArrivalPhase

(* A thread in a call has calls left to make.                              *)
CallInv == \A t \in Caller : at[t] # "out" => round[t] < Rounds

(* When all threads take part in each round, the threads inside a barrier  *)
(* in the departure phase are one call behind those that left.             *)
RoundInv ==
    Cardinality(Caller) = Max =>
        \E r \in 0 .. Rounds : \A t \in Caller :
            round[t] = IF isArrivalPhase \/ t \in Inside THEN r ELSE r + 1

BarrierInv ==
    /\ BarrierTypeOK
    /\ CountInv
    /\ PhaseInv
    /\ MasterInv
    /\ BlockedInv
    /\ CallInv
    /\ RoundInv
    /\ destroyed # "EBUSY"
=============================================================================
