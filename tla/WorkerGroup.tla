------------------------------ MODULE WorkerGroup ------------------------------
(***************************************************************************)
(* The worker group of bodytrack (threads/WorkerGroup.cpp): one thread,    *)
(* the main one, sends a command to all workers and waits until all have   *)
(* executed it.  Workers find the command under the mutex workDispatch,    *)
(* meet at workDoneBarrier when they have executed it, and meet main at    *)
(* poolReadyBarrier; between the two one of them resets the command.  What *)
(* a command does is left to the module that composes this one: a worker   *)
(* at "exec" has begun a command, and Executed takes it to "ack".          *)
(***************************************************************************)
EXTENDS Condition, FiniteSets

CONSTANTS Workers, Commands

ASSUME WorkersAssumption == IsFiniteSet(Workers) /\ Workers # {}

THREADS_IDLE == -1
THREADS_SHUTDOWN == -2
InternalCommands == Commands \cup {THREADS_IDLE, THREADS_SHUTDOWN}

VARIABLES cmd,        \* the command of the group
          counter,    \* workers that have a rank
          rank, got,  \* rank and local command of each worker
          at,         \* control point of each worker
          boss        \* control point of the thread that sends commands

groupVars == <<cmd, counter, rank, got, at, boss>>

Move(w, label) == at' = [at EXCEPT ![w] = label]

GroupInit ==
  /\ cmd = THREADS_IDLE /\ counter = 0
  /\ rank = [w \in Workers |-> 0] /\ got = [w \in Workers |-> THREADS_IDLE]
  /\ at = [w \in Workers |-> "start"]
  /\ boss = "free"

GroupTypeOK ==
  /\ cmd \in InternalCommands /\ counter \in 0..Cardinality(Workers)
  /\ rank \in [Workers -> Nat] /\ got \in [Workers -> InternalCommands]
  /\ at \in [Workers -> {"start", "recv", "wait", "exec", "init", "ticket", "work",
                         "ack", "workDone", "reset", "done", "poolReady", "exited"}]
  /\ boss \in {"free", "sent", "poolReady"}

-----------------------------------------------------------------------------
(* Run *)

DetermineRank(w) ==
  /\ at[w] = "start"
  /\ rank' = [rank EXCEPT ![w] = counter] /\ counter' = counter + 1
  /\ Move(w, "recv")
  /\ UNCHANGED <<condVars, cmd, got, boss>>

\* The loop of RecvCmd, with workDispatch held and n threads and k tickets counted:
\* it ends with the command, or uses up the tickets and sleeps.
AwaitWork(w, n, k) ==
  /\ IF cmd # THREADS_IDLE
     THEN /\ Move(w, IF cmd = THREADS_SHUTDOWN THEN "ack" ELSE "exec")
          /\ got' = [got EXCEPT ![w] = cmd]
          /\ nWaiting' = [nWaiting EXCEPT !["workAvailable"] = n]
          /\ nWakeupTickets' = [nWakeupTickets EXCEPT !["workAvailable"] = k]
          /\ UNCHANGED asleep
     ELSE /\ Move(w, "wait")
          /\ nWaiting' = [nWaiting EXCEPT !["workAvailable"] = n + 1]
          /\ nWakeupTickets' = [nWakeupTickets EXCEPT !["workAvailable"] = 0]
          /\ Sleep("workAvailable", w)
          /\ UNCHANGED got
  /\ UNCHANGED <<cmd, counter, rank, boss>>

RecvCmd(w) ==
  /\ at[w] = "recv"
  /\ AwaitWork(w, nWaiting["workAvailable"], nWakeupTickets["workAvailable"])

\* pthread_cond_wait has returned, with or without a ticket.
Awake(w) ==
  /\ at[w] = "wait" /\ w \notin asleep["workAvailable"]
  /\ IF nWakeupTickets["workAvailable"] = 0
     THEN /\ Sleep("workAvailable", w)
          /\ UNCHANGED <<nWaiting, nWakeupTickets, groupVars>>
     ELSE AwaitWork(w, nWaiting["workAvailable"] - 1, nWakeupTickets["workAvailable"] - 1)

Executed(w) == Move(w, "ack")

\* AckCmd: the last worker to come to workDoneBarrier lets all pass; any one of
\* them is told that it is the master.
WorkDone(w) ==
  /\ at[w] = "ack"
  /\ IF \A v \in Workers \ {w} : at[v] = "workDone"
     THEN \E master \in Workers :
            at' = [v \in Workers |-> IF v = master THEN "reset" ELSE "done"]
     ELSE Move(w, "workDone")
  /\ UNCHANGED <<condVars, cmd, counter, rank, got, boss>>

ResetCmd(w) ==
  /\ at[w] = "reset"
  /\ cmd' = THREADS_IDLE
  /\ Move(w, "done")
  /\ UNCHANGED <<condVars, counter, rank, got, boss>>

\* poolReadyBarrier, which has one place for the boss.
PassPoolReady ==
  /\ at' = [v \in Workers |-> IF got[v] = THREADS_SHUTDOWN THEN "exited" ELSE "recv"]
  /\ boss' = "free"

PoolReady(w) ==
  /\ at[w] = "done"
  /\ IF boss = "poolReady" /\ \A v \in Workers \ {w} : at[v] = "poolReady"
     THEN PassPoolReady
     ELSE Move(w, "poolReady") /\ UNCHANGED boss
  /\ UNCHANGED <<condVars, cmd, counter, rank, got>>

GroupStep(w) ==
  \/ DetermineRank(w) \/ RecvCmd(w) \/ Awake(w)
  \/ WorkDone(w) \/ ResetCmd(w) \/ PoolReady(w)

-----------------------------------------------------------------------------
(* SendInternalCmd *)

SendInternalCmd(c) ==
  /\ boss = "free"
  /\ cmd' = c
  /\ NotifyAll("workAvailable")
  /\ boss' = "sent"
  /\ UNCHANGED <<counter, rank, got, at>>

BossPoolReady ==
  /\ boss = "sent"
  /\ IF \A v \in Workers : at[v] = "poolReady"
     THEN PassPoolReady
     ELSE boss' = "poolReady" /\ UNCHANGED at
  /\ UNCHANGED <<condVars, cmd, counter, rank, got>>
=============================================================================
