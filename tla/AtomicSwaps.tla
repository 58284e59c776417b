----------------------------- MODULE AtomicSwaps -----------------------------
(***************************************************************************)
(* What class AtomicPtr promises of an array of pointers: a call of a      *)
(* thread takes effect at one instant between its start and its return.    *)
(* A swap exchanges two pointers, an update is a checkout and the checkin  *)
(* that ends it, and only the Try functions may fail, without effect.      *)
(***************************************************************************)
EXTENDS Naturals

CONSTANTS Procs, Slots, Values, NoCall

VARIABLES mem,    \* the pointer in a slot
          call,   \* the call a thread is in
          ans     \* what it will return: "pending" before it has taken effect

vars == <<mem, call, ans>>

Calls == [kind : {"get", "tryget", "set", "tryset", "swap", "tryswap", "update", "tryupdate"},
          first : Slots, last : Slots, x : Values \cup {NoCall}]
Failing == {"tryget", "tryset", "tryswap", "tryupdate"}
Exchanged(i, j) == [mem EXCEPT ![i] = mem[j], ![j] = mem[i]]

Init == /\ mem \in [Slots -> Values]
        /\ call = [t \in Procs |-> NoCall]
        /\ ans = [t \in Procs |-> "pending"]

Invoke(t) == /\ call[t] = NoCall
             /\ \E c \in Calls : call' = [call EXCEPT ![t] = c]
             /\ UNCHANGED <<mem, ans>>

Effect(t) ==
  LET c == call[t]
  IN  \/ /\ c.kind \in {"get", "tryget"}
         /\ mem' = mem /\ ans' = [ans EXCEPT ![t] = mem[c.first]]
      \/ /\ c.kind \in {"set", "tryset"}
         /\ mem' = [mem EXCEPT ![c.first] = c.x]
         /\ ans' = [ans EXCEPT ![t] = mem[c.first]]
      \/ /\ c.kind \in {"swap", "tryswap"}
         /\ mem' = Exchanged(c.first, c.last)
         /\ ans' = [ans EXCEPT ![t] = "swapped"]
      \/ /\ c.kind \in {"update", "tryupdate"}
         /\ \E x \in Values : mem' = [mem EXCEPT ![c.first] = x]
         /\ ans' = [ans EXCEPT ![t] = mem[c.first]]
      \/ /\ c.kind \in Failing
         /\ mem' = mem /\ ans' = [ans EXCEPT ![t] = "failed"]

Act(t) == /\ call[t] # NoCall /\ ans[t] = "pending"
          /\ Effect(t)
          /\ call' = call

Return(t) == /\ call[t] # NoCall /\ ans[t] # "pending"
             /\ call' = [call EXCEPT ![t] = NoCall]
             /\ ans' = [ans EXCEPT ![t] = "pending"]
             /\ mem' = mem

Next == \E t \in Procs : Invoke(t) \/ Act(t) \/ Return(t)
SafeSpec == Init /\ [][Next]_vars
Spec == SafeSpec /\ \A t \in Procs : WF_vars(Act(t)) /\ WF_vars(Return(t))
=============================================================================
