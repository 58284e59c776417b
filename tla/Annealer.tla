------------------------------- MODULE Annealer -------------------------------
(***************************************************************************)
(* The threads of canneal (K/canneal/src/annealer_thread.cpp).  Each one   *)
(* picks pairs of netlist elements, reads the locations the cost of        *)
(* exchanging them depends on, and swaps the locations if it likes the     *)
(* result, while the others do the same; after some number of moves all    *)
(* meet at a barrier and each decides whether to go on.  Costs are         *)
(* abstracted: a move may be good, bad but accepted, or rejected.          *)
(***************************************************************************)
EXTENDS AtomicPtr, Sequences

CONSTANTS Placement,          \* the location each element starts at
          Wired,              \* fanin and fanout of an element, as a sequence
          MovesPerStep,       \* _moves_per_thread_temp
          NumberTempSteps,    \* _number_temp_steps, -1: until it converges
          MaxSteps            \* bound: more steps are not told apart

ASSUME PlacementInjective ==
  Placement \in [Slots -> Values] /\ \A i, j \in Slots : Placement[i] = Placement[j] => i = j
ASSUME WiredToElements == Wired \in [Slots -> Seq(Slots)]
ASSUME MovesAreCounted == MovesPerStep \in Nat

VARIABLES at,          \* where in Run a thread is
          a, b,        \* the elements of its move
          toRead,      \* elements whose location it has still to read
          moves,       \* i
          steps,       \* temp_steps_completed
          good, bad,   \* accepted_good_moves, accepted_bad_moves
          going        \* _keep_going_global_flag

runVars == <<at, a, b, toRead, moves, steps, good, bad, going>>
vars == <<ptrVars, runVars>>

Set(f, t, x) == [f EXCEPT ![t] = x]

-----------------------------------------------------------------------------
(* keep_going *)

WantsMore(t) ==
  IF NumberTempSteps = -1 THEN going /\ good[t] > bad[t] ELSE steps[t] < NumberTempSteps

KeepGoing(t) ==
  /\ at[t] = "keep"
  /\ \/ /\ WantsMore(t)
        /\ at' = Set(at, t, "move")
        /\ good' = Set(good, t, 0) /\ bad' = Set(bad, t, 0) /\ moves' = Set(moves, t, 0)
     \/ /\ ~WantsMore(t)
        /\ at' = Set(at, t, "leave")
        /\ UNCHANGED <<good, bad, moves>>
  /\ UNCHANGED <<ptrVars, a, b, toRead, steps, going>>

\* The flag is cleared after it was read: other threads come between.
Leave(t) ==
  /\ at[t] = "leave"
  /\ at' = Set(at, t, "returned")
  /\ going' = (going /\ NumberTempSteps # -1)
  /\ UNCHANGED <<ptrVars, a, b, toRead, moves, steps, good, bad>>

-----------------------------------------------------------------------------
(* A move *)

\* One new element; the locations swap_cost reads for the pair.
Pick(t) ==
  /\ at[t] = "move" /\ pc[t] = "idle" /\ moves[t] < MovesPerStep
  /\ \E e \in Slots \ {b[t]} :
       /\ a' = Set(a, t, b[t]) /\ b' = Set(b, t, e)
       /\ toRead' = Set(toRead, t, <<b[t], e>> \o Wired[b[t]] \o Wired[e])
  /\ at' = Set(at, t, "cost")
  /\ UNCHANGED <<ptrVars, moves, steps, good, bad, going>>

ReadLocation(t) ==
  /\ at[t] = "cost" /\ pc[t] = "idle" /\ toRead[t] # <<>>
  /\ StartGet(t, Head(toRead[t]))
  /\ toRead' = Set(toRead, t, Tail(toRead[t]))
  /\ UNCHANGED <<at, a, b, moves, steps, good, bad, going>>

\* accept_move, and swap_locations for an accepted move.
Decide(t) ==
  /\ at[t] = "cost" /\ pc[t] = "idle" /\ toRead[t] = <<>>
  /\ \/ UNCHANGED <<ptrVars, good, bad>>
     \/ /\ good' = Set(good, t, good[t] + 1) /\ UNCHANGED bad
        /\ StartSwap(t, "swap", a[t], b[t])
     \/ /\ bad' = Set(bad, t, bad[t] + 1) /\ UNCHANGED good
        /\ StartSwap(t, "swap", a[t], b[t])
  /\ moves' = Set(moves, t, moves[t] + 1)
  /\ at' = Set(at, t, "move")
  /\ UNCHANGED <<a, b, toRead, steps, going>>

\* One access to a pointer, or the return, in Get or Swap.
InCall(t) ==
  /\ \/ Load(t) \/ Cas(t) \/ CasFails(t) \/ LoadLast(t) \/ CasLast(t) \/ CasLastFails(t)
     \/ Checkin(t) \/ Return(t)
  /\ UNCHANGED runVars

-----------------------------------------------------------------------------
(* The barrier: the last thread to come lets all go on *)

Meet(t) ==
  LET waiting == {s \in Threads : at[s] = "barrier"} \cup {t}
  IN  /\ at[t] = "move" /\ pc[t] = "idle" /\ moves[t] = MovesPerStep
      /\ steps' = Set(steps, t, IF steps[t] < MaxSteps THEN steps[t] + 1 ELSE MaxSteps)
      /\ at' = IF waiting = Threads THEN [s \in Threads |-> "keep"] ELSE Set(at, t, "barrier")
      /\ UNCHANGED <<ptrVars, a, b, toRead, moves, good, bad, going>>

-----------------------------------------------------------------------------
Thread(t) == \/ KeepGoing(t) \/ Leave(t) \/ Pick(t) \/ ReadLocation(t) \/ Decide(t)
             \/ InCall(t) \/ Meet(t)

Init ==
  /\ PtrInit
  /\ p = Placement
  /\ at = [t \in Threads |-> "keep"]
  /\ b \in [Threads -> Slots] /\ a = b
  /\ toRead = [t \in Threads |-> <<>>]
  /\ moves = [t \in Threads |-> 0] /\ steps = [t \in Threads |-> 0]
  /\ good = [t \in Threads |-> 0] /\ bad = [t \in Threads |-> -1]
  /\ going = TRUE

Returned == \A t \in Threads : at[t] = "returned"
Finished == Returned /\ UNCHANGED vars

Next == Finished \/ \E t \in Threads : Thread(t)
Spec == Init /\ [][Next]_vars /\ \A t \in Threads : WF_vars(Thread(t))

-----------------------------------------------------------------------------
(* Properties *)

\* Types of the annealer's variables.
TypeOK ==
  /\ PtrTypeOK
  /\ at \in [Threads -> {"keep", "move", "cost", "barrier", "leave", "returned"}]
  /\ a \in [Threads -> Slots] /\ b \in [Threads -> Slots]
  /\ moves \in [Threads -> 0..MovesPerStep]
  /\ good \in [Threads -> 0..MovesPerStep] /\ bad \in [Threads -> -1..MovesPerStep]

\* No two elements are ever at one location, at any point of any swaps.
LocationsDistinct == \A i, j \in Slots : Mem[i] = Mem[j] => i = j

\* Each Get and each Swap takes effect at one instant, and returns.
LinearizableSwaps == Swaps!Spec

\* A fixed number of steps: all threads leave Run in the end.
EverybodyReturns == <>Returned
=============================================================================
