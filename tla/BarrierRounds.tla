----------------------------- MODULE BarrierRounds -----------------------------
(***************************************************************************)
(* What a barrier promises the threads that call it: nobody returns before *)
(* Max threads are waiting; exactly Max threads are then released as one   *)
(* round, exactly one of them with the serial answer; and no round is      *)
(* formed while a thread of the previous one has not left.                 *)
(***************************************************************************)
EXTENDS Integers, FiniteSets

CONSTANTS
    Thread,
    Max         \* how many threads make a round

VARIABLES
    status,     \* status[t]: "out", "waiting" or "released"
    serial      \* serial[t]: TRUE when t's latest answer is the serial one

roundVars == <<status, serial>>

RoundInit ==
    /\ status = [t \in Thread |-> "out"]
    /\ serial = [t \in Thread |-> FALSE]

Waiting == {t \in Thread : status[t] = "waiting"}

Call(t) ==
    /\ status[t] = "out"
    /\ status' = [status EXCEPT ![t] = "waiting"]
    /\ UNCHANGED serial

(* The thread that completes a round returns at once, the others when they *)
(* are ready to.                                                           *)
Trip(t) ==
    /\ t \in Waiting
    /\ \A u \in Thread : status[u] # "released"
    /\ \E others \in SUBSET (Waiting \ {t}) :
          /\ Cardinality(others) = Max - 1
          /\ \E chosen \in others \cup {t} :
                /\ status' = [u \in Thread |->
                      IF u = t THEN "out"
                      ELSE IF u \in others THEN "released" ELSE status[u]]
                /\ serial' = [u \in Thread |->
                      IF u \in others \cup {t} THEN u = chosen ELSE serial[u]]

Return(t) ==
    /\ status[t] = "released"
    /\ status' = [status EXCEPT ![t] = "out"]
    /\ UNCHANGED serial

RoundNext == \E t \in Thread : Call(t) \/ Trip(t) \/ Return(t)

RoundSpec == RoundInit /\ [][RoundNext]_roundVars
=============================================================================
