------------------------------- MODULE Condition -------------------------------
(***************************************************************************)
(* The condition variables of bodytrack (threads/Condition.cpp): a pthread *)
(* condition with a count of waiting threads and a count of tickets, which *)
(* protect Wait from spurious wake-ups and make a notification without a   *)
(* waiter lost.  The counts are plain integers, protected by the mutex of  *)
(* the condition if its users hold it.  NotifyAll is a single step, since  *)
(* its only caller does hold it; the parts of Wait and NotifyOne are steps *)
(* of their own, since callers do not.                                     *)
(***************************************************************************)
EXTENDS Integers

CONSTANT Conditions

VARIABLES nWaiting, nWakeupTickets,
          asleep                \* the threads blocked in pthread_cond_wait

condVars == <<nWaiting, nWakeupTickets, asleep>>

CondInit ==
  /\ nWaiting = [c \in Conditions |-> 0]
  /\ nWakeupTickets = [c \in Conditions |-> 0]
  /\ asleep = [c \in Conditions |-> {}]

CondTypeOK(Thread) ==
  /\ nWaiting \in [Conditions -> Nat]
  /\ nWakeupTickets \in [Conditions -> Nat]
  /\ asleep \in [Conditions -> SUBSET Thread]

slack(c) == nWaiting[c] - nWakeupTickets[c]

\* nWaiting++ and nWaiting--; nWakeupTickets++ and nWakeupTickets--
CountWaiting(c, n) == nWaiting' = [nWaiting EXCEPT ![c] = @ + n]
CountTickets(c, n) == nWakeupTickets' = [nWakeupTickets EXCEPT ![c] = @ + n]

\* pthread_cond_wait puts the thread to sleep; a signal wakes one, if there is one.
Sleep(c, t) == asleep' = [asleep EXCEPT ![c] = @ \cup {t}]
Signal(c) ==
  IF asleep[c] = {} THEN UNCHANGED asleep
  ELSE \E t \in asleep[c] : asleep' = [asleep EXCEPT ![c] = @ \ {t}]

NotifyAll(c) ==
  IF slack(c) > 0
  THEN /\ nWakeupTickets' = [nWakeupTickets EXCEPT ![c] = nWaiting[c]]
       /\ asleep' = [asleep EXCEPT ![c] = {}]
       /\ UNCHANGED nWaiting
  ELSE UNCHANGED condVars

\* POSIX lets pthread_cond_wait return for no reason.
SpuriousWakeup(c, t) ==
  /\ t \in asleep[c]
  /\ asleep' = [asleep EXCEPT ![c] = @ \ {t}]
  /\ UNCHANGED <<nWaiting, nWakeupTickets>>
=============================================================================
