------------------------------ MODULE SyncProofs ------------------------------
(***************************************************************************)
(* Proofs about the two synchronisation primitives, for any set of threads *)
(* that use them.                                                          *)
(*                                                                         *)
(* MCSLock: type correctness, mutual exclusion, the assertion of           *)
(* mcs_acquire, and the implementation of the steps of FIFOLock.           *)
(*                                                                         *)
(* ParsecBarrier: type correctness, that nobody overtakes, that the        *)
(* barrier can be destroyed, and the implementation of BarrierRounds, for  *)
(* any number of threads per round and any number of calls.                *)
(***************************************************************************)
EXTENDS MCSLock, ParsecBarrier, FiniteSetTheorems, SequenceTheorems, TLAPS

-----------------------------------------------------------------------------
(* The MCS lock                                                            *)

LEMMA NonEmpty ==
  ASSUME NEW S, NEW s \in Seq(S)
  PROVE  Len(s) \in Nat /\ (s # <<>> <=> Len(s) > 0)
BY EmptySeq, LenProperties

(* Where a thread is in the line follows from its control point. *)
LEMMA Position ==
  ASSUME IInv, NEW t \in Thread
  PROVE  /\ Len(order) \in Nat
         /\ \A j \in 1 .. Len(order) : order[j] \in Thread
         /\ order # <<>> <=> Len(order) > 0
         /\ pc[t] \in Holding => Len(order) > 0 /\ order[1] = t
         /\ pc[t] = "spin" /\ locked[t] = 0 => Len(order) > 0 /\ order[1] = t
         /\ pc[t] \in {"flag", "link"} => \E j \in 2 .. Len(order) : order[j] = t
         /\ pc[t] \in {"idle", "swap"} =>
              ~ \E j \in 1 .. Len(order) : order[j] = t
<1>1. /\ Len(order) \in Nat
      /\ \A j \in 1 .. Len(order) : order[j] \in Thread
      /\ order # <<>> <=> Len(order) > 0
  BY EmptySeq, LenProperties DEF IInv, TypeOK
<1>2. pc[t] \in InLine <=> \E j \in 1 .. Len(order) : order[j] = t
  BY DEF IInv, LineInv
<1>3. \A j \in 2 .. Len(order) : order[j] = t =>
         pc[t] \in {"flag", "link", "spin"} /\ (pc[t] = "spin" => locked[t] = 1)
  BY <1>1 DEF IInv, WaitInv
<1>4. order # <<>> /\ order[1] = t => pc[t] \in Holding \cup {"spin"}
  BY DEF IInv, FirstInv
<1>5. \A j \in 1 .. Len(order) : j = 1 \/ j \in 2 .. Len(order)
  BY <1>1
<1>6. pc[t] \in Holding \cup {"flag", "link", "spin"} => pc[t] \in InLine
  BY DEF InLine, PC, Holding, Releasing
<1>7. \A j \in 1 .. Len(order) :
         order[j] = t /\ ~ (pc[t] \in {"flag", "link"} \/ (pc[t] = "spin" /\ locked[t] = 1))
           => order[1] = t /\ Len(order) > 0
  BY <1>1, <1>3, <1>5
<1>8. order[1] = t /\ Len(order) > 0 => pc[t] \notin {"flag", "link"}
  BY <1>1, <1>4 DEF Holding, Releasing
<1>9. pc[t] \in {"flag", "link"} => \E j \in 2 .. Len(order) : order[j] = t
  <2> HAVE pc[t] \in {"flag", "link"}
  <2>1. PICK j \in 1 .. Len(order) : order[j] = t
    BY <1>2, <1>6
  <2>2. Len(order) > 0
    BY <1>1
  <2> QED
    BY <1>5, <1>8, <2>1, <2>2
<1>10. pc[t] \in Holding => Len(order) > 0 /\ order[1] = t
  BY <1>2, <1>6, <1>7 DEF Holding, Releasing
<1>11. pc[t] = "spin" /\ locked[t] = 0 => Len(order) > 0 /\ order[1] = t
  BY <1>2, <1>6, <1>7
<1>12. pc[t] \in {"idle", "swap"} => pc[t] \notin InLine
  BY DEF InLine
<1> QED
  BY <1>1, <1>2, <1>9, <1>10, <1>11, <1>12

(* The first thread in line that has seen a successor has one that spins.  *)
LEMMA Successor ==
  ASSUME IInv, Len(order) > 0, next[order[1]] # NULL
  PROVE  /\ Len(order) > 1
         /\ pc[order[2]] = "spin"
         /\ next[order[1]] = order[2]
<1>1. Len(order) \in Nat /\ order # <<>>
  BY EmptySeq, LenProperties DEF IInv, TypeOK
<1>2. Len(order) # 1
  BY <1>1 DEF IInv, EndInv
<1>3. \A len \in Nat : len > 0 /\ len # 1 => 2 \in 2 .. len /\ len > 1
  OBVIOUS
<1>4. Len(order) > 1 /\ 2 \in 2 .. Len(order)
  BY <1>1, <1>2, <1>3
<1>5. 2 - 1 = 1
  OBVIOUS
<1>6. next[order[1]] = IF pc[order[2]] = "spin" THEN order[2] ELSE NULL
  BY <1>4, <1>5 DEF IInv, WaitInv
<1> QED
  BY <1>4, <1>6

-----------------------------------------------------------------------------
(* Steps that leave the line as it is. *)

LEMMA ResetStep ==
  ASSUME IInv, NEW t \in Thread, ResetNext(t) PROVE IInv'
<1>1. /\ pc[t] = "idle" /\ pc' = [pc EXCEPT ![t] = "swap"]
      /\ next' = [next EXCEPT ![t] = NULL]
      /\ UNCHANGED <<head, locked, prev, order>>
  BY DEF ResetNext, Goto
<1>2. \A j \in 1 .. Len(order) : order[j] # t /\ order[j] \in Thread
  BY <1>1, Position
<1>3. TypeOK'
  BY <1>1 DEF IInv, TypeOK, PC
<1>4. /\ pc \in [Thread -> PC] /\ next \in [Thread -> Thread \cup {NULL}]
      /\ Len(order) \in Nat
  BY Position DEF IInv, TypeOK
<1>5. \A s \in Thread : s # t => pc'[s] = pc[s] /\ next'[s] = next[s]
  BY <1>1, <1>4
<1>6. pc'[t] = "swap" /\ next'[t] = NULL
  BY <1>1, <1>4
<1>7. LineInv'
  BY <1>1, <1>2, <1>5, <1>6 DEF IInv, LineInv, InLine, PC
<1>8. \A j \in 1 .. Len(order) :
         pc'[order[j]] = pc[order[j]] /\ next'[order[j]] = next[order[j]]
  BY <1>2, <1>5
<1>9. WaitInv'
  BY <1>1, <1>4, <1>8 DEF IInv, WaitInv
<1>10. order # <<>> => Len(order) > 0
  BY Position
<1>11. FirstInv'
  BY <1>1, <1>4, <1>8, <1>10 DEF IInv, FirstInv
<1>12. EndInv'
  BY <1>1, <1>4, <1>5, <1>6, <1>8, <1>10 DEF IInv, EndInv
<1> QED
  BY <1>3, <1>7, <1>9, <1>11, <1>12 DEF IInv

LEMMA SetLockedStep ==
  ASSUME IInv, NEW t \in Thread, SetLocked(t) PROVE IInv'
<1>1. /\ pc[t] = "flag" /\ pc' = [pc EXCEPT ![t] = "link"]
      /\ locked' = [locked EXCEPT ![t] = 1]
      /\ UNCHANGED <<head, next, prev, order>>
  BY DEF SetLocked, Goto, Contended
<1>2. /\ pc \in [Thread -> PC] /\ locked \in [Thread -> {0, 1}]
      /\ Len(order) \in Nat /\ (order # <<>> <=> Len(order) > 0)
      /\ \A j \in 1 .. Len(order) : order[j] \in Thread
  BY Position DEF IInv, TypeOK
<1>3. /\ \A s \in Thread : s # t => pc'[s] = pc[s] /\ locked'[s] = locked[s]
      /\ pc'[t] = "link" /\ locked'[t] = 1
  BY <1>1, <1>2
<1>4. TypeOK'
  BY <1>1 DEF IInv, TypeOK, PC
<1>5. LineInv'
  BY <1>1, <1>3 DEF IInv, LineInv, InLine, PC
<1>6. \A j \in 2 .. Len(order) : order[j] \in Thread
  BY <1>2
<1>7. WaitInv'
  BY <1>1, <1>3, <1>6 DEF IInv, WaitInv
<1>8. Len(order) > 0 => order[1] \in Thread /\ order[1] # t
  BY <1>1, <1>2 DEF IInv, FirstInv, Holding, Releasing
<1>9. Len(order) > 1 => order[2] \in Thread
  BY <1>2
<1>10. FirstInv'
  BY <1>1, <1>2, <1>3, <1>8, <1>9 DEF IInv, FirstInv
<1>11. EndInv'
  BY <1>1, <1>3 DEF IInv, EndInv
<1> QED
  BY <1>4, <1>5, <1>7, <1>10, <1>11 DEF IInv

LEMMA LinkStep ==
  ASSUME IInv, NEW t \in Thread, LinkBehindPrev(t) PROVE IInv'
<1>1. /\ pc[t] = "link" /\ pc' = [pc EXCEPT ![t] = "spin"]
      /\ next' = [next EXCEPT ![prev[t]] = t]
      /\ UNCHANGED <<head, locked, prev, order>>
  BY DEF LinkBehindPrev, Goto, Contended
<1>2. /\ pc \in [Thread -> PC] /\ next \in [Thread -> Thread \cup {NULL}]
      /\ Len(order) \in Nat /\ (order # <<>> <=> Len(order) > 0)
      /\ \A j \in 1 .. Len(order) : order[j] \in Thread
  BY Position DEF IInv, TypeOK
<1>3. PICK j \in 2 .. Len(order) : order[j] = t
  BY <1>1, Position
<1>4. /\ j \in 1 .. Len(order) /\ j - 1 \in 1 .. Len(order)
      /\ j - 1 # Len(order) /\ j - 1 # j /\ 1 # j
      /\ Len(order) \in 1 .. Len(order) /\ 1 \in 1 .. Len(order)
  BY <1>2
<1>5. prev[t] = order[j - 1] /\ locked[t] = 1
  BY <1>1, <1>3 DEF IInv, WaitInv
<1>6. /\ \A s \in Thread : s # t => pc'[s] = pc[s]
      /\ \A s \in Thread : s # order[j - 1] => next'[s] = next[s]
      /\ pc'[t] = "spin" /\ next'[order[j - 1]] = t
  BY <1>1, <1>2, <1>4, <1>5
<1>7. TypeOK'
  BY <1>1 DEF IInv, TypeOK, PC
<1>8. LineInv'
  BY <1>1, <1>6 DEF IInv, LineInv, InLine, PC
<1>9. \A l \in 1 .. Len(order) :
         /\ l # j => order[l] # t
         /\ l # j - 1 => order[l] # order[j - 1]
  BY <1>3, <1>4 DEF IInv, LineInv
<1>10. \A l \in 2 .. Len(order) :
         /\ l \in 1 .. Len(order) /\ l - 1 \in 1 .. Len(order)
         /\ l # j => l - 1 # j - 1
  BY <1>2
<1>11. WaitInv'
  <2> SUFFICES ASSUME NEW l \in 2 .. Len(order)
               PROVE  /\ prev[order[l]] = order[l - 1]
                      /\ \/ pc'[order[l]] = "flag"
                         \/ pc'[order[l]] \in {"link", "spin"} /\ locked[order[l]] = 1
                      /\ next'[order[l - 1]] =
                           IF pc'[order[l]] = "spin" THEN order[l] ELSE NULL
    BY <1>1 DEF WaitInv
  <2>1. CASE l = j
    BY <1>3, <1>5, <1>6, <2>1
  <2>2. CASE l # j
    <3>1. /\ pc'[order[l]] = pc[order[l]]
          /\ next'[order[l - 1]] = next[order[l - 1]]
      BY <1>2, <1>6, <1>9, <1>10, <2>2
    <3> QED
      BY <3>1 DEF IInv, WaitInv
  <2> QED
    BY <2>1, <2>2
<1>12. order[1] # t /\ order[1] \in Thread /\ order # <<>>
  BY <1>2, <1>4, <1>9
<1>13. Len(order) > 1 => order[2] \in Thread
  BY <1>2
<1>14. FirstInv'
  BY <1>1, <1>6, <1>12, <1>13 DEF IInv, FirstInv
<1>15. order[Len(order)] # order[j - 1] /\ order[Len(order)] \in Thread
  BY <1>2, <1>4, <1>9
<1>16. \A s \in Thread : pc[s] = "swap" => s # order[j - 1]
  BY <1>4, Position
<1>17. EndInv'
  BY <1>1, <1>6, <1>12, <1>15, <1>16 DEF IInv, EndInv
<1> QED
  BY <1>7, <1>8, <1>11, <1>14, <1>17 DEF IInv

(* The first in line moves on while it holds the lock or takes it.         *)
LEMMA FirstMoves ==
  ASSUME IInv, NEW t \in Thread, NEW l \in Holding,
         Len(order) > 0, order[1] = t,
         l = "waitnext" => Len(order) > 1,
         l = "handoff" => Len(order) > 1 /\ pc[order[2]] = "spin",
         pc' = [pc EXCEPT ![t] = l],
         UNCHANGED <<head, next, locked, prev, order>>
  PROVE  IInv'
<1>1. /\ pc \in [Thread -> PC]
      /\ Len(order) \in Nat /\ (order # <<>> <=> Len(order) > 0)
      /\ \A j \in 1 .. Len(order) : order[j] \in Thread
      /\ 1 \in 1 .. Len(order)
  BY Position DEF IInv, TypeOK
<1>2. pc'[t] = l /\ \A s \in Thread : s # t => pc'[s] = pc[s]
  BY <1>1
<1>3. pc[t] \in InLine /\ l \in InLine /\ l \in PC
  BY <1>1 DEF IInv, LineInv, Holding, Releasing, InLine, PC
<1>4. TypeOK'
  BY <1>3 DEF IInv, TypeOK
<1>5. LineInv'
  BY <1>2, <1>3 DEF IInv, LineInv
<1>6. \A j \in 2 .. Len(order) : j \in 1 .. Len(order) /\ j # 1
  BY <1>1
<1>7. \A j \in 2 .. Len(order) : order[j] \in Thread /\ order[j] # t
  BY <1>1, <1>6 DEF IInv, LineInv
<1>8. WaitInv'
  BY <1>2, <1>7 DEF IInv, WaitInv
<1>9. Len(order) > 1 => 2 \in 2 .. Len(order)
  BY <1>1
<1>10. FirstInv'
  BY <1>1, <1>2, <1>7, <1>9 DEF IInv, FirstInv
<1>11. EndInv'
  BY <1>2 DEF IInv, EndInv, Holding, Releasing
<1> QED
  BY <1>4, <1>5, <1>8, <1>10, <1>11 DEF IInv

LEMMA SpinOnLockedStep ==
  ASSUME IInv, NEW t \in Thread, SpinOnLocked(t) PROVE IInv'
<1>1. /\ pc[t] = "spin" /\ locked[t] = 0 /\ pc' = [pc EXCEPT ![t] = "cs"]
      /\ UNCHANGED <<head, next, locked, prev, order>>
  BY DEF SpinOnLocked, Goto
<1>2. Len(order) > 0 /\ order[1] = t
  BY <1>1, Position
<1>3. "cs" \in Holding
  BY DEF Holding
<1> QED
  BY <1>1, <1>2, <1>3, FirstMoves

LEMMA TestNextStep ==
  ASSUME IInv, NEW t \in Thread, TestNext(t) PROVE IInv'
<1>1. /\ pc[t] = "cs"
      /\ pc' = [pc EXCEPT ![t] = IF next[t] = NULL THEN "cas" ELSE "handoff"]
      /\ UNCHANGED <<head, next, locked, prev, order>>
  BY DEF TestNext, Goto
<1>2. Len(order) > 0 /\ order[1] = t
  BY <1>1, Position DEF Holding
<1>3. "cas" \in Holding /\ "handoff" \in Holding
  BY DEF Holding, Releasing
<1>4. CASE next[t] = NULL
  BY <1>1, <1>2, <1>3, <1>4, FirstMoves
<1>5. CASE next[t] # NULL
  <2>1. Len(order) > 1 /\ pc[order[2]] = "spin"
    BY <1>2, <1>5, Successor
  <2> QED
    BY <1>1, <1>2, <1>3, <1>5, <2>1, FirstMoves
<1> QED
  BY <1>4, <1>5

LEMMA SpinOnNextStep ==
  ASSUME IInv, NEW t \in Thread, SpinOnNext(t) PROVE IInv'
<1>1. /\ pc[t] = "waitnext" /\ next[t] # NULL
      /\ pc' = [pc EXCEPT ![t] = "handoff"]
      /\ UNCHANGED <<head, next, locked, prev, order>>
  BY DEF SpinOnNext, Goto
<1>2. Len(order) > 0 /\ order[1] = t
  BY <1>1, Position DEF Holding, Releasing
<1>3. "handoff" \in Holding
  BY DEF Holding, Releasing
<1>4. Len(order) > 1 /\ pc[order[2]] = "spin"
  BY <1>1, <1>2, Successor
<1> QED
  BY <1>1, <1>2, <1>3, <1>4, FirstMoves

-----------------------------------------------------------------------------
(* Steps that change the line. *)

(* The first in line leaves: alone, with head set to null, or by clearing  *)
(* the flag of a successor that spins.                                     *)
LEMMA FirstLeaves ==
  ASSUME IInv, NEW t \in Thread, Len(order) > 0, order[1] = t,
         pc' = [pc EXCEPT ![t] = "idle"],
         order' = Tail(order),
         UNCHANGED <<next, prev>>,
         \/ Len(order) = 1 /\ head' = NULL /\ UNCHANGED locked
         \/ /\ Len(order) > 1 /\ pc[order[2]] = "spin"
            /\ UNCHANGED head /\ locked' = [locked EXCEPT ![order[2]] = 0]
  PROVE  IInv'
<1> DEFINE len == Len(order)
           m == Len(order')
<1>1. /\ pc \in [Thread -> PC] /\ locked \in [Thread -> {0, 1}]
      /\ order \in Seq(Thread) /\ order # <<>>
      /\ len \in Nat /\ len > 0
      /\ \A j \in 1 .. len : order[j] \in Thread
  BY Position DEF IInv, TypeOK
<1>2. /\ order' \in Seq(Thread) /\ m = len - 1
      /\ \A j \in 1 .. m : order'[j] = order[j + 1]
  BY <1>1, HeadTailProperties
<1>3. order' # <<>> <=> m > 0
  BY <1>2, NonEmpty
<1> HIDE DEF len, m
<1>0. len \in Nat /\ m \in Nat /\ len > 0 /\ m = len - 1
  BY <1>1, <1>2
<1>4. \A j \in 1 .. m :
         /\ j + 1 \in 2 .. len /\ j + 1 \in 1 .. len /\ j + 1 # 1
         /\ j # 1 => j + 1 # 2
         /\ \A l \in 1 .. m : j + 1 = l + 1 => j = l
         /\ j \in 2 .. m => /\ j # 1 /\ j - 1 \in 1 .. m
                            /\ (j - 1) + 1 = j /\ (j + 1) - 1 = j
  BY <1>0
<1>5. \A j, l \in 1 .. len : order[j] = order[l] => j = l
  BY DEF IInv, LineInv, len
<1>6. 1 \in 1 .. len /\ (len > 1 => 2 \in 1 .. len) /\ (len > 1 => order[2] \in Thread)
  BY <1>0, <1>1
<1>7. \A j \in 1 .. m : order'[j] \in Thread /\ order'[j] # t
  <2> TAKE j \in 1 .. m
  <2>1. order'[j] = order[j + 1] /\ j + 1 \in 1 .. len /\ j + 1 # 1
    BY <1>2, <1>4
  <2> QED
    BY <1>1, <1>5, <1>6, <2>1
<1>8. \A s \in Thread : (\E j \in 1 .. m : order'[j] = s)
                          <=> s # t /\ \E j \in 1 .. len : order[j] = s
  <2> TAKE s \in Thread
  <2>1. ASSUME NEW j \in 1 .. m, order'[j] = s
        PROVE  s # t /\ \E l \in 1 .. len : order[l] = s
    BY <1>2, <1>4, <1>7, <2>1
  <2>2. ASSUME s # t, NEW l \in 1 .. len, order[l] = s
        PROVE  \E j \in 1 .. m : order'[j] = s
    <3>1. l # 1
      BY <2>2
    <3>2. l - 1 \in 1 .. m /\ (l - 1) + 1 = l
      BY <1>0, <3>1
    <3> QED
      BY <1>2, <2>2, <3>2
  <2> QED
    BY <2>1, <2>2
<1>9. /\ \A s \in Thread : s # t => pc'[s] = pc[s]
      /\ pc'[t] = "idle" /\ pc' \in [Thread -> PC]
  BY <1>1 DEF PC
<1>10. locked' \in [Thread -> {0, 1}]
  BY <1>1
<1>11. TypeOK'
  BY <1>2, <1>9, <1>10 DEF IInv, TypeOK
<1>12. \A j, l \in 1 .. m : order'[j] = order'[l] => j = l
  <2> SUFFICES ASSUME NEW j \in 1 .. m, NEW l \in 1 .. m, order'[j] = order'[l]
               PROVE  j = l
    OBVIOUS
  <2>1. order[j + 1] = order[l + 1] /\ j + 1 \in 1 .. len /\ l + 1 \in 1 .. len
    BY <1>2, <1>4
  <2>2. j + 1 = l + 1
    BY <1>5, <2>1
  <2> QED
    BY <1>4, <2>2
<1>13. head' = IF order' = <<>> THEN NULL ELSE order'[m]
  <2>1. CASE len = 1
    <3>1. m = 0 /\ ~ (m > 0) /\ head' = NULL
      BY <1>0, <2>1 DEF len
    <3> QED
      BY <1>3, <3>1
  <2>2. CASE len # 1
    <3>1. head' = head /\ m > 0 /\ m \in 1 .. m /\ m + 1 = len
      BY <1>0, <2>2 DEF len
    <3>2. head = order[len]
      BY <1>1 DEF IInv, LineInv, len
    <3> QED
      BY <1>2, <1>3, <3>1, <3>2
  <2> QED
    BY <2>1, <2>2
<1>14. \A s \in Thread : pc'[s] \in InLine <=> \E j \in 1 .. m : order'[j] = s
  <2>1. "idle" \notin InLine
    BY DEF InLine
  <2>2. \A s \in Thread : pc[s] \in InLine <=> \E j \in 1 .. len : order[j] = s
    BY DEF IInv, LineInv, len
  <2> QED
    BY <1>8, <1>9, <2>1, <2>2
<1>15. LineInv'
  BY <1>12, <1>13, <1>14 DEF LineInv, m
<1>16. \A j \in 1 .. m : j # 1 => locked'[order'[j]] = locked[order'[j]]
  <2> SUFFICES ASSUME NEW j \in 1 .. m, j # 1
               PROVE  locked'[order'[j]] = locked[order'[j]]
    OBVIOUS
  <2>1. order'[j] = order[j + 1] /\ j + 1 \in 1 .. len /\ j + 1 # 2
    BY <1>2, <1>4
  <2>2. len > 1 => order[j + 1] # order[2]
    BY <1>5, <1>6, <2>1
  <2> QED
    BY <1>1, <1>7, <2>1, <2>2 DEF len
<1>17. WaitInv'
  <2> SUFFICES ASSUME NEW j \in 2 .. m
               PROVE  /\ prev'[order'[j]] = order'[j - 1]
                      /\ \/ pc'[order'[j]] = "flag"
                         \/ pc'[order'[j]] \in {"link", "spin"} /\ locked'[order'[j]] = 1
                      /\ next'[order'[j - 1]] =
                           IF pc'[order'[j]] = "spin" THEN order'[j] ELSE NULL
    BY DEF WaitInv, m
  <2>1. j \in 1 .. m
    BY <1>0
  <2>0. j # 1 /\ j - 1 \in 1 .. m /\ (j - 1) + 1 = j
        /\ j + 1 \in 2 .. len /\ (j + 1) - 1 = j
    BY <1>4, <2>1
  <2>2. order'[j] = order[j + 1] /\ order'[j - 1] = order[j]
    BY <1>2, <2>0, <2>1
  <2>3. pc'[order'[j]] = pc[order'[j]] /\ locked'[order'[j]] = locked[order'[j]]
    BY <1>7, <1>9, <1>16, <2>0, <2>1
  <2>4. /\ prev[order[j + 1]] = order[j]
        /\ \/ pc[order[j + 1]] = "flag"
           \/ pc[order[j + 1]] \in {"link", "spin"} /\ locked[order[j + 1]] = 1
        /\ next[order[j]] = IF pc[order[j + 1]] = "spin" THEN order[j + 1] ELSE NULL
    BY <2>0 DEF IInv, WaitInv, len
  <2> QED
    BY <2>2, <2>3, <2>4
<1>18. FirstInv'
  <2> SUFFICES ASSUME m > 0
               PROVE  locked'[order'[1]] = 0 /\ pc'[order'[1]] = "spin"
    BY <1>3 DEF FirstInv, m
  <2>1. len > 1 /\ 1 \in 1 .. m /\ 1 + 1 = 2
    BY <1>0
  <2>2. order'[1] = order[2]
    BY <1>2, <2>1
  <2>3. pc[order[2]] = "spin" /\ locked' = [locked EXCEPT ![order[2]] = 0]
    BY <2>1 DEF len
  <2> QED
    BY <1>1, <1>6, <1>7, <1>9, <2>1, <2>2, <2>3
<1>19. m > 0 => next'[order'[m]] = NULL
  <2> SUFFICES ASSUME m > 0 PROVE next[order'[m]] = NULL
    OBVIOUS
  <2>1. m \in 1 .. m /\ m + 1 = len
    BY <1>0
  <2>2. next[order[len]] = NULL
    BY <1>1 DEF IInv, EndInv, len
  <2> QED
    BY <1>2, <2>1, <2>2
<1>20. \A s \in Thread : pc'[s] \in {"idle", "swap", "flag"} => locked'[s] = 0
  <2> SUFFICES ASSUME NEW s \in Thread, pc'[s] \in {"idle", "swap", "flag"}
               PROVE  locked'[s] = 0
    OBVIOUS
  <2>1. locked[s] = 0
    BY <1>1, <1>9 DEF IInv, EndInv, FirstInv
  <2> QED
    BY <1>1, <2>1 DEF len
<1>21. \A s \in Thread : pc'[s] = "swap" => next'[s] = NULL
  BY <1>9 DEF IInv, EndInv
<1>22. EndInv'
  BY <1>3, <1>19, <1>20, <1>21 DEF EndInv, m
<1> QED
  BY <1>11, <1>15, <1>17, <1>18, <1>22 DEF IInv

LEMMA SwapToNullStep ==
  ASSUME IInv, NEW t \in Thread, SwapHeadToNull(t) PROVE IInv'
<1>1. pc[t] = "cas" /\ UNCHANGED <<next, locked, prev>>
  BY DEF SwapHeadToNull
<1>2. Len(order) > 0 /\ order[1] = t
  BY <1>1, Position DEF Holding, Releasing
<1>3. Len(order) \in Nat /\ order # <<>> /\ head = order[Len(order)]
  BY <1>2, Position DEF IInv, LineInv
<1>4. 1 \in 1 .. Len(order) /\ Len(order) \in 1 .. Len(order)
  BY <1>2, <1>3
<1>5. CASE head = t
  <2>1. /\ pc' = [pc EXCEPT ![t] = "idle"] /\ head' = NULL
        /\ order' = Tail(order)
    BY <1>5 DEF SwapHeadToNull, Goto
  <2>2. Len(order) = 1
    BY <1>2, <1>3, <1>4, <1>5 DEF IInv, LineInv
  <2> QED
    BY <1>1, <1>2, <2>1, <2>2, FirstLeaves
<1>6. CASE head # t
  <2>1. pc' = [pc EXCEPT ![t] = "waitnext"] /\ UNCHANGED <<head, order>>
    BY <1>6 DEF SwapHeadToNull, Goto
  <2>2. Len(order) # 1
    BY <1>2, <1>3, <1>6
  <2>0. \A k \in Nat : k > 0 /\ k # 1 => k > 1
    OBVIOUS
  <2>3. Len(order) > 1
    BY <1>2, <1>3, <2>0, <2>2
  <2>4. "waitnext" \in Holding
    BY DEF Holding, Releasing
  <2> QED
    BY <1>1, <1>2, <2>1, <2>3, <2>4, FirstMoves
<1> QED
  BY <1>5, <1>6

LEMMA UnlockNextStep ==
  ASSUME IInv, NEW t \in Thread, UnlockNext(t) PROVE IInv'
<1>1. /\ pc[t] = "handoff" /\ pc' = [pc EXCEPT ![t] = "idle"]
      /\ locked' = [locked EXCEPT ![next[t]] = 0]
      /\ order' = Tail(order)
      /\ UNCHANGED <<head, next, prev>>
  BY DEF UnlockNext, Goto
<1>2. Len(order) > 0 /\ order[1] = t
  BY <1>1, Position DEF Holding, Releasing
<1>3. order # <<>>
  BY <1>2, Position
<1>4. Len(order) > 1 /\ pc[order[2]] = "spin"
  BY <1>1, <1>2, <1>3 DEF IInv, FirstInv
<1>5. Len(order) \in Nat
  BY Position
<1>6. 2 \in 2 .. Len(order) /\ 2 - 1 = 1
  BY <1>4, <1>5
<1>7. next[t] = order[2]
  BY <1>2, <1>4, <1>6 DEF IInv, WaitInv
<1> QED
  BY <1>1, <1>2, <1>4, <1>7, FirstLeaves

(* A thread joins the line at its end. *)
LEMMA SwapHeadStep ==
  ASSUME IInv, NEW t \in Thread, SwapHead(t) PROVE IInv'
<1> DEFINE len == Len(order)
           m == Len(order')
<1>1. /\ pc[t] = "swap"
      /\ prev' = [prev EXCEPT ![t] = head]
      /\ head' = t
      /\ order' = Append(order, t)
      /\ pc' = [pc EXCEPT ![t] = IF head = NULL THEN "cs" ELSE "flag"]
      /\ UNCHANGED <<next, locked>>
  BY DEF SwapHead, Goto, Contended
<1>2. /\ pc \in [Thread -> PC] /\ prev \in [Thread -> Thread \cup {NULL}]
      /\ head \in Thread \cup {NULL}
      /\ order \in Seq(Thread)
      /\ len \in Nat /\ (order # <<>> <=> len > 0)
      /\ \A j \in 1 .. len : order[j] \in Thread
      /\ ~ \E j \in 1 .. len : order[j] = t
  BY <1>1, Position DEF IInv, TypeOK
<1>3. /\ order' \in Seq(Thread) /\ order' # <<>> /\ m = len + 1
      /\ \A j \in 1 .. len : order'[j] = order[j]
      /\ order'[len + 1] = t
  BY <1>1, <1>2, AppendProperties
<1>4. head = NULL <=> len = 0
  <2>1. len = 0 \/ len \in 1 .. len
    BY <1>2
  <2>2. head = IF order = <<>> THEN NULL ELSE order[len]
    BY DEF IInv, LineInv
  <2>3. len = 0 <=> ~ (len > 0)
    BY <1>2
  <2> QED
    BY <1>2, <2>1, <2>2, <2>3, NULLAssumption
<1>5. len > 0 => head = order[len]
  BY <1>2 DEF IInv, LineInv
<1>6. \A j, l \in 1 .. len : order[j] = order[l] => j = l
  BY DEF IInv, LineInv
<1> HIDE DEF len, m
<1>7. /\ len \in Nat /\ m \in Nat /\ m = len + 1
      /\ \A j \in 1 .. m : j = len + 1 \/ j \in 1 .. len
      /\ \A j \in 1 .. len : j \in 1 .. m /\ j # len + 1
      /\ len + 1 \in 1 .. m
  BY <1>2, <1>3
<1>8. /\ \A s \in Thread : s # t => pc'[s] = pc[s] /\ prev'[s] = prev[s]
      /\ pc'[t] = (IF len = 0 THEN "cs" ELSE "flag") /\ prev'[t] = head
  BY <1>1, <1>2, <1>4
<1>9. TypeOK'
  BY <1>1, <1>2, <1>3 DEF IInv, TypeOK, PC
<1>10. \A j, l \in 1 .. m : order'[j] = order'[l] => j = l
  BY <1>2, <1>3, <1>6, <1>7
<1>11. \A s \in Thread : (\E j \in 1 .. m : order'[j] = s)
                           <=> s = t \/ \E j \in 1 .. len : order[j] = s
  BY <1>3, <1>7
<1>12. \A s \in Thread : pc'[s] \in InLine <=> \E j \in 1 .. m : order'[j] = s
  <2>1. \A s \in Thread : pc[s] \in InLine <=> \E j \in 1 .. len : order[j] = s
    BY DEF IInv, LineInv, len
  <2>2. pc'[t] \in InLine
    BY <1>8 DEF InLine, PC
  <2> QED
    BY <1>8, <1>11, <2>1, <2>2
<1>13. head' = order'[m]
  BY <1>1, <1>3
<1>14. LineInv'
  BY <1>3, <1>10, <1>12, <1>13 DEF LineInv, m
<1>15. \A j \in 1 .. len : /\ order'[j] \in Thread /\ order'[j] = order[j]
                         /\ pc'[order'[j]] = pc[order[j]]
                         /\ prev'[order'[j]] = prev[order[j]]
  BY <1>2, <1>3, <1>8
<1>16. WaitInv'
  <2> SUFFICES ASSUME NEW j \in 2 .. m
               PROVE  /\ prev'[order'[j]] = order'[j - 1]
                      /\ \/ pc'[order'[j]] = "flag"
                         \/ pc'[order'[j]] \in {"link", "spin"} /\ locked[order'[j]] = 1
                      /\ next[order'[j - 1]] =
                           IF pc'[order'[j]] = "spin" THEN order'[j] ELSE NULL
    BY <1>1 DEF WaitInv, m
  <2>1. CASE j = len + 1
    <3>1. len # 0 /\ len > 0 /\ len \in 1 .. len /\ j - 1 = len
      BY <1>7, <2>1
    <3>2. next[order[len]] = NULL
      BY <1>2, <3>1 DEF IInv, EndInv, len
    <3>3. prev'[t] = order[len] /\ pc'[t] = "flag" /\ order'[j] = t
      BY <1>3, <1>5, <1>8, <2>1, <3>1
    <3> QED
      BY <1>15, <3>1, <3>2, <3>3
  <2>2. CASE j # len + 1
    <3>1. j \in 2 .. len /\ j \in 1 .. len /\ j - 1 \in 1 .. len
      BY <1>7, <2>2
    <3>2. /\ prev[order[j]] = order[j - 1]
          /\ \/ pc[order[j]] = "flag"
             \/ pc[order[j]] \in {"link", "spin"} /\ locked[order[j]] = 1
          /\ next[order[j - 1]] = IF pc[order[j]] = "spin" THEN order[j] ELSE NULL
      BY <3>1 DEF IInv, WaitInv, len
    <3> QED
      BY <1>15, <3>1, <3>2
  <2> QED
    BY <2>1, <2>2
<1>17. locked[t] = 0 /\ next[t] = NULL
  BY <1>1 DEF IInv, EndInv
<1>18. FirstInv'
  <2>1. CASE len = 0
    <3>1. order'[1] = t /\ pc'[t] = "cs"
      BY <1>3, <1>8, <2>1
    <3> QED
      BY <1>1, <1>17, <3>1 DEF FirstInv, Holding
  <2>2. CASE len # 0
    <3>1. len > 0 /\ 1 \in 1 .. len /\ (len > 1 => 2 \in 1 .. len /\ m > 1)
      BY <1>7, <2>2
    <3>2. /\ locked[order[1]] = 0
          /\ pc[order[1]] \in Holding \cup {"spin"}
          /\ pc[order[1]] = "waitnext" => len > 1
          /\ pc[order[1]] = "handoff" => len > 1 /\ pc[order[2]] = "spin"
      BY <1>2, <3>1 DEF IInv, FirstInv, len
    <3> QED
      BY <1>1, <1>15, <3>1, <3>2 DEF FirstInv, m
  <2> QED
    BY <2>1, <2>2
<1>19. next[order'[m]] = NULL
  BY <1>3, <1>17
<1>20. /\ \A s \in Thread : pc[s] \in {"idle", "swap", "flag"} => locked[s] = 0
       /\ \A s \in Thread : pc[s] = "swap" => next[s] = NULL
  BY DEF IInv, EndInv
<1>21. EndInv'
  BY <1>1, <1>8, <1>17, <1>19, <1>20 DEF EndInv, m
<1> QED
  BY <1>9, <1>14, <1>16, <1>18, <1>21 DEF IInv

-----------------------------------------------------------------------------
(* The inductive invariant. *)

LEMMA InitIInv == Init => IInv
<1> SUFFICES ASSUME Init PROVE IInv
  OBVIOUS
<1>1. order = <<>> /\ order \in Seq(Thread) /\ Len(order) = 0
  BY EmptySeq DEF Init
<1>2. TypeOK
  BY <1>1 DEF Init, TypeOK, PC
<1>3. LineInv
  BY <1>1 DEF Init, LineInv, InLine
<1>4. WaitInv
  BY <1>1 DEF WaitInv
<1>5. FirstInv /\ EndInv
  BY <1>1 DEF Init, FirstInv, EndInv
<1> QED
  BY <1>2, <1>3, <1>4, <1>5 DEF IInv

LEMMA StepIInv == IInv /\ [Next]_vars => IInv'
<1> SUFFICES ASSUME IInv, [Next]_vars PROVE IInv'
  OBVIOUS
<1>1. ASSUME NEW t \in Thread, mcs_acquire(t) PROVE IInv'
  BY <1>1, ResetStep, SwapHeadStep, SetLockedStep, LinkStep, SpinOnLockedStep
     DEF mcs_acquire
<1>2. ASSUME NEW t \in Thread, mcs_release(t) PROVE IInv'
  BY <1>2, TestNextStep, SwapToNullStep, SpinOnNextStep, UnlockNextStep
     DEF mcs_release
<1>3. CASE UNCHANGED vars
  BY <1>3 DEF vars, IInv, TypeOK, LineInv, WaitInv, FirstInv, EndInv
<1> QED
  BY <1>1, <1>2, <1>3 DEF Next

LEMMA Invariance == Spec => []IInv
BY InitIInv, StepIInv, PTL DEF Spec

-----------------------------------------------------------------------------
(* Every variable of the lock keeps its type, for any set of threads; the  *)
(* record a release writes through is never the null one.                  *)
THEOREM TypeCorrect == Spec => []TypeOK
<1>1. IInv => TypeOK
  BY DEF IInv
<1> QED
  BY <1>1, Invariance, PTL

(* For any number of threads, no two of them are between the return of     *)
(* mcs_acquire and the end of mcs_release.                                 *)
THEOREM MutualExclusionHolds == Spec => []MutualExclusion
<1>1. IInv => MutualExclusion
  BY Position DEF MutualExclusion
<1> QED
  BY <1>1, Invariance, PTL

(* The assertion at the start of mcs_acquire never fails and mcs_release   *)
(* never follows a null pointer, for any number of threads.                *)
THEOREM AssertionsAlwaysHold == Spec => []AssertionsHold
<1>1. IInv => AssertionsHold
  <2> SUFFICES ASSUME IInv, NEW t \in Thread
               PROVE  /\ pc[t] \in {"idle", "swap"} => locked[t] = 0
                      /\ pc[t] = "handoff" => next[t] # NULL
    BY DEF AssertionsHold
  <2>1. pc[t] \in {"idle", "swap"} => locked[t] = 0
    BY DEF IInv, EndInv
  <2>2. ASSUME pc[t] = "handoff" PROVE next[t] # NULL
    <3>1. Len(order) > 0 /\ order[1] = t /\ order # <<>>
      BY <2>2, Position DEF Holding, Releasing
    <3>2. Len(order) > 1 /\ pc[order[2]] = "spin"
      BY <2>2, <3>1 DEF IInv, FirstInv
    <3>3. Len(order) \in Nat /\ \A j \in 1 .. Len(order) : order[j] \in Thread
      BY Position
    <3>4. 2 \in 2 .. Len(order) /\ 2 \in 1 .. Len(order) /\ 2 - 1 = 1
      BY <3>2, <3>3
    <3>5. next[t] = order[2] /\ order[2] \in Thread
      BY <3>1, <3>2, <3>3, <3>4 DEF IInv, WaitInv
    <3> QED
      BY <3>5, NULLAssumption
  <2> QED
    BY <2>1, <2>2
<1> QED
  BY <1>1, Invariance, PTL

-----------------------------------------------------------------------------
(* Every step of the lock is a step of FIFOLock or leaves it unchanged.    *)

Held == \E s \in Thread : pc[s] \in Holding

(* A step of t that keeps the line and does not move t between the holders *)
(* and the others is invisible.                                            *)
LEMMA Invisible ==
  ASSUME IInv, NEW t \in Thread, NEW l,
         pc' = [pc EXCEPT ![t] = l], pc[t] \in Holding <=> l \in Holding,
         UNCHANGED order
  PROVE  UNCHANGED FL!lockVars
<1>1. \A s \in Thread : pc'[s] \in Holding <=> pc[s] \in Holding
  BY DEF IInv, TypeOK
<1>2. Held' = Held
  BY <1>1 DEF Held
<1> QED
  BY <1>2 DEF FL!lockVars, Held

LEMMA RequestStep ==
  ASSUME IInv, NEW t \in Thread, SwapHead(t) PROVE FL!Request(t)
<1>1. /\ pc[t] = "swap" /\ order' = Append(order, t)
      /\ pc' = [pc EXCEPT ![t] = IF head = NULL THEN "cs" ELSE "flag"]
  BY DEF SwapHead, Goto, Contended
<1>2. ~ \E j \in 1 .. Len(order) : order[j] = t
  BY <1>1, Position
<1>3. DOMAIN order = 1 .. Len(order) /\ Len(order) \in Nat
  BY Position DEF IInv, TypeOK
<1>4. ~ FL!InQueue(t)
  BY <1>2, <1>3 DEF FL!InQueue
<1>5. /\ pc'[t] = (IF head = NULL THEN "cs" ELSE "flag")
      /\ \A s \in Thread : s # t => pc'[s] = pc[s]
  BY <1>1 DEF IInv, TypeOK
<1>6. CASE order = <<>>
  <2>1. head = NULL
    BY <1>6 DEF IInv, LineInv
  <2>2. Held' = TRUE
    BY <1>5, <2>1 DEF Held, Holding
  <2> QED
    BY <1>1, <1>4, <1>6, <2>2 DEF FL!Request, Held
<1>7. CASE order # <<>>
  <2>1. Len(order) > 0 /\ Len(order) \in 1 .. Len(order)
    BY <1>3, <1>7, Position
  <2>2. head = order[Len(order)] /\ order[Len(order)] \in Thread
    BY <1>7, <2>1, Position DEF IInv, LineInv
  <2>3. head # NULL
    BY <2>2, NULLAssumption
  <2>4. \A s \in Thread : pc'[s] \in Holding <=> pc[s] \in Holding
    BY <1>1, <1>5, <2>3 DEF Holding, Releasing
  <2>5. Held' = Held
    BY <2>4 DEF Held
  <2> QED
    BY <1>1, <1>4, <1>7, <2>5 DEF FL!Request, Held
<1> QED
  BY <1>6, <1>7

LEMMA GrantStep ==
  ASSUME IInv, NEW t \in Thread, SpinOnLocked(t) PROVE FL!Grant
<1>1. /\ pc[t] = "spin" /\ locked[t] = 0 /\ pc' = [pc EXCEPT ![t] = "cs"]
      /\ UNCHANGED order
  BY DEF SpinOnLocked, Goto
<1>2. Len(order) > 0 /\ order[1] = t /\ order # <<>>
  BY <1>1, Position
<1>3. \A s \in Thread : pc[s] \notin Holding
  BY <1>1, <1>2, Position DEF Holding, Releasing
<1>4. pc'[t] \in Holding
  BY <1>1 DEF IInv, TypeOK, Holding
<1>5. ~ Held /\ Held' = TRUE
  BY <1>3, <1>4 DEF Held
<1> QED
  BY <1>1, <1>2, <1>5 DEF FL!Grant, Held

LEMMA ReleaseStep ==
  ASSUME IInv, NEW t \in Thread, pc[t] \in Holding,
         pc' = [pc EXCEPT ![t] = "idle"], order' = Tail(order)
  PROVE  FL!Release
<1>1. \A s \in Thread : s # t => pc[s] \notin Holding
  BY Position
<1>2. \A s \in Thread : pc'[s] \notin Holding
  BY <1>1 DEF IInv, TypeOK, Holding, Releasing
<1>3. Held /\ Held' = FALSE
  BY <1>2 DEF Held
<1> QED
  BY <1>3 DEF FL!Release, Held

LEMMA StepRefines ==
  ASSUME IInv, [Next]_vars PROVE [FL!LockNext]_(FL!lockVars)
<1>1. ASSUME NEW t \in Thread, mcs_acquire(t)
      PROVE  FL!LockNext \/ UNCHANGED FL!lockVars
  <2>1. CASE ResetNext(t)
    BY <2>1, Invisible DEF ResetNext, Goto, Holding, Releasing
  <2>2. CASE SwapHead(t)
    BY <2>2, RequestStep DEF FL!LockNext
  <2>3. CASE SetLocked(t)
    BY <2>3, Invisible DEF SetLocked, Goto, Contended, Holding, Releasing
  <2>4. CASE LinkBehindPrev(t)
    BY <2>4, Invisible DEF LinkBehindPrev, Goto, Contended, Holding, Releasing
  <2>5. CASE SpinOnLocked(t)
    BY <2>5, GrantStep DEF FL!LockNext
  <2> QED
    BY <1>1, <2>1, <2>2, <2>3, <2>4, <2>5 DEF mcs_acquire
<1>2. ASSUME NEW t \in Thread, mcs_release(t)
      PROVE  FL!LockNext \/ UNCHANGED FL!lockVars
  <2>1. CASE TestNext(t)
    <3>1. /\ pc[t] \in Holding /\ UNCHANGED order
          /\ pc' = [pc EXCEPT ![t] = IF next[t] = NULL THEN "cas" ELSE "handoff"]
      BY <2>1 DEF TestNext, Goto, Holding
    <3>2. (IF next[t] = NULL THEN "cas" ELSE "handoff") \in Holding
      BY DEF Holding, Releasing
    <3> QED
      BY <3>1, <3>2, Invisible
  <2>2. CASE SwapHeadToNull(t)
    <3>1. pc[t] = "cas" /\ pc[t] \in Holding /\ "waitnext" \in Holding
      BY <2>2 DEF SwapHeadToNull, Holding, Releasing
    <3>2. CASE head = t
      BY <2>2, <3>1, <3>2, ReleaseStep DEF SwapHeadToNull, Goto, FL!LockNext
    <3>3. CASE head # t
      BY <2>2, <3>1, <3>3, Invisible DEF SwapHeadToNull, Goto
    <3> QED
      BY <3>2, <3>3
  <2>3. CASE SpinOnNext(t)
    BY <2>3, Invisible DEF SpinOnNext, Goto, Holding, Releasing
  <2>4. CASE UnlockNext(t)
    <3>1. pc[t] \in Holding
      BY <2>4 DEF UnlockNext, Holding, Releasing
    <3> QED
      BY <2>4, <3>1, ReleaseStep DEF UnlockNext, Goto, FL!LockNext
  <2> QED
    BY <1>2, <2>1, <2>2, <2>3, <2>4 DEF mcs_release
<1>3. CASE UNCHANGED vars
  <2>1. UNCHANGED <<order, pc>>
    BY <1>3 DEF vars
  <2>2. Held' = Held
    BY <2>1 DEF Held
  <2> QED
    BY <2>1, <2>2 DEF FL!lockVars, Held
<1> QED
  BY <1>1, <1>2, <1>3 DEF Next

(* The safety part of ImplementsFIFOLock for any number of threads: the    *)
(* lock is granted one thread at a time, in the order of the swaps of      *)
(* head.                                                                   *)
THEOREM FirstComeFirstServed == Spec => FL!LockSafety
<1>1. Init => FL!LockInit
  <2> SUFFICES ASSUME Init PROVE FL!LockInit
    OBVIOUS
  <2>1. Held = FALSE /\ order = <<>>
    BY DEF Init, Held, Holding, Releasing
  <2> QED
    BY <2>1 DEF FL!LockInit, Held
<1>2. IInv /\ [Next]_vars => [FL!LockNext]_(FL!lockVars)
  BY StepRefines
<1> QED
  BY <1>1, <1>2, Invariance, PTL DEF Spec, FL!LockSafety
-----------------------------------------------------------------------------
(* The PARSEC barrier                                                      *)

LEMMA InsideFinite == IsFiniteSet(Inside) /\ Inside \subseteq Caller
<1>1. Inside \subseteq Caller
  BY DEF Inside
<1> QED
  BY <1>1, FS_Subset, ThreadAssumption

(* A broadcast leaves nobody blocked and moves nobody in or out.           *)
LEMMA BroadcastFacts ==
  ASSUME NEW p \in [Caller -> BarrierPC]
  PROVE  /\ Broadcast(p) \in [Caller -> BarrierPC]
         /\ \A u \in Caller :
               /\ Broadcast(p)[u] \notin {"condDeparture", "condArrival"}
               /\ Broadcast(p)[u] \in {"retryArrival", "condArrival"}
                    <=> p[u] \in {"retryArrival", "condArrival"}
               /\ Broadcast(p)[u] = "out" <=> p[u] = "out"
<1> DEFINE B(u) == CASE p[u] = "condDeparture" -> "retryDeparture"
                     [] p[u] = "condArrival" -> "retryArrival"
                     [] OTHER -> p[u]
<1>1. Broadcast(p) = [u \in Caller |-> B(u)]
  BY DEF Broadcast
<1>2. \A u \in Caller :
         /\ B(u) \in BarrierPC
         /\ B(u) \notin {"condDeparture", "condArrival"}
         /\ B(u) \in {"retryArrival", "condArrival"}
              <=> p[u] \in {"retryArrival", "condArrival"}
         /\ B(u) = "out" <=> p[u] = "out"
  BY DEF BarrierPC
<1> HIDE DEF B
<1> QED
  BY <1>1, <1>2

(* The steps of parsec_barrier_wait that arrive and depart. *)
Arrives(t) ==
    /\ at[t] \in {"lock", "retryDeparture"}
    /\ isArrivalPhase
    /\ Arrive(t)

Joins(t) == Arrives(t) /\ n + 1 < Max
Trips(t) == Arrives(t) /\ n + 1 >= Max

Departs(t) ==
    /\ at[t] = "retryArrival"
    /\ ~isArrivalPhase
    /\ Leave(t, n, at)
    /\ answer' = [answer EXCEPT ![t] = master[t]]
    /\ UNCHANGED master

(* The steps that move a thread between the control points at which it     *)
(* waits, and the call itself.                                             *)
Moves(t) ==
    /\ \/ at[t] = "out" /\ round[t] < Rounds /\ at' = [at EXCEPT ![t] = "lock"]
       \/ /\ at[t] = "lock" /\ ~isArrivalPhase
          /\ at' = [at EXCEPT ![t] = "retryDeparture"]
       \/ /\ at[t] = "retryDeparture" /\ ~isArrivalPhase
          /\ at' = [at EXCEPT ![t] = "condDeparture"]
       \/ /\ at[t] = "retryArrival" /\ isArrivalPhase
          /\ at' = [at EXCEPT ![t] = "condArrival"]
       \/ at[t] = "condDeparture" /\ at' = [at EXCEPT ![t] = "retryDeparture"]
       \/ at[t] = "condArrival" /\ at' = [at EXCEPT ![t] = "retryArrival"]
    /\ UNCHANGED <<n, isArrivalPhase, master, answer, round, destroyed>>

LEMMA BarrierSteps ==
  ASSUME BarrierTypeOK, BarrierNext
  PROVE  \/ \E t \in Caller : Moves(t) \/ Joins(t) \/ Trips(t) \/ Departs(t)
         \/ parsec_barrier_destroy
         \/ UNCHANGED barrierVars
<1>1. ASSUME NEW t \in Caller, Enter(t)
      PROVE  Moves(t)
  BY <1>1 DEF Enter, Moves
<1>2. ASSUME NEW t \in Caller, SpuriousWakeup(t)
      PROVE  Moves(t)
  BY <1>2 DEF SpuriousWakeup, GoWait, Moves
<1>3. ASSUME NEW t \in Caller, parsec_barrier_wait(t)
      PROVE  Moves(t) \/ Joins(t) \/ Trips(t) \/ Departs(t)
  <2>1. n + 1 < Max \/ n + 1 >= Max
    BY MaxAssumption DEF BarrierTypeOK
  <2>2. CASE Lock(t)
    BY <2>1, <2>2 DEF Lock, GoWait, Moves, Joins, Trips, Arrives
  <2>3. CASE RetryDeparture(t)
    BY <2>1, <2>3 DEF RetryDeparture, GoWait, Moves, Joins, Trips, Arrives
  <2>4. CASE RetryArrival(t)
    BY <2>4 DEF RetryArrival, GoWait, Moves, Departs
  <2> QED
    BY <1>3, <2>2, <2>3, <2>4 DEF parsec_barrier_wait
<1> QED
  BY <1>1, <1>2, <1>3 DEF BarrierNext, Terminated

LEMMA MovesFacts ==
  ASSUME BarrierInv, NEW t \in Caller, Moves(t)
  PROVE  /\ Inside' = Inside
         /\ at' \in [Caller -> BarrierPC]
         /\ \A u \in Caller \ {t} : at'[u] = at[u]
         /\ at'[t] # "out"
         /\ at[t] = "out" => round[t] < Rounds
         /\ UNCHANGED <<n, isArrivalPhase, master, answer, round, destroyed>>
<1>1. at \in [Caller -> BarrierPC]
  BY DEF BarrierInv, BarrierTypeOK
<1>2. /\ at' \in [Caller -> BarrierPC]
      /\ \A u \in Caller \ {t} : at'[u] = at[u]
      /\ at'[t] # "out"
      /\ at'[t] \in {"retryArrival", "condArrival"}
           <=> at[t] \in {"retryArrival", "condArrival"}
      /\ at[t] = "out" => round[t] < Rounds
  BY <1>1 DEF Moves, BarrierPC
<1>3. Inside' = Inside
  BY <1>2 DEF Inside
<1> QED
  BY <1>2, <1>3 DEF Moves

LEMMA JoinsFacts ==
  ASSUME BarrierInv, NEW t \in Caller, Joins(t)
  PROVE  /\ t \notin Inside
         /\ Inside' = Inside \cup {t}
         /\ at' \in [Caller -> BarrierPC]
         /\ at' = [at EXCEPT ![t] = "retryArrival"]
         /\ master' = [master EXCEPT ![t] = (n = 0)]
         /\ n' = n + 1
         /\ n + 1 < Max
         /\ isArrivalPhase
         /\ at[t] # "out"
         /\ UNCHANGED <<isArrivalPhase, answer, round, destroyed>>
<1>1. at \in [Caller -> BarrierPC] /\ n \in Nat
  BY MaxAssumption DEF BarrierInv, BarrierTypeOK
<1>2. /\ at' = [at EXCEPT ![t] = "retryArrival"]
      /\ master' = [master EXCEPT ![t] = (n = 0)]
      /\ n' = n + 1
      /\ n + 1 < Max
      /\ isArrivalPhase
      /\ at[t] \in {"lock", "retryDeparture"}
      /\ UNCHANGED <<isArrivalPhase, answer, round, destroyed>>
  <2>1. ~(n + 1 >= Max)
    BY <1>1, MaxAssumption DEF Joins
  <2> QED
    BY <2>1, Zenon DEF Joins, Arrives, Arrive
<1>3. Inside' = Inside \cup {t} /\ t \notin Inside
  BY <1>1, <1>2 DEF Inside
<1>4. at' \in [Caller -> BarrierPC]
  BY <1>1, <1>2 DEF BarrierPC
<1> QED
  BY <1>2, <1>3, <1>4

LEMMA TripsFacts ==
  ASSUME BarrierInv, NEW t \in Caller, Trips(t)
  PROVE  /\ t \notin Inside
         /\ Inside' = Inside
         /\ at' \in [Caller -> BarrierPC]
         /\ at[t] # "out" /\ at'[t] = "out"
         /\ \A u \in Caller \ {t} : at'[u] = "out" <=> at[u] = "out"
         /\ \A u \in Caller : at'[u] \notin {"condDeparture", "condArrival"}
         /\ master' = [master EXCEPT ![t] = (n = 0)]
         /\ answer' = [answer EXCEPT ![t] = (n = 0)]
         /\ round' = [round EXCEPT ![t] = @ + 1]
         /\ n = Max - 1
         /\ n' = n
         /\ isArrivalPhase
         /\ isArrivalPhase' = (n = 0)
         /\ UNCHANGED destroyed
<1>1. at \in [Caller -> BarrierPC] /\ n \in Nat /\ master \in [Caller -> BOOLEAN]
  BY MaxAssumption DEF BarrierInv, BarrierTypeOK
<1>2. /\ Leave(t, n + 1, Broadcast(at))
      /\ master' = [master EXCEPT ![t] = (n = 0)]
      /\ answer' = [answer EXCEPT ![t] = master'[t]]
      /\ isArrivalPhase
      /\ at[t] \in {"lock", "retryDeparture"}
      /\ n + 1 >= Max
  <2>1. ~(n + 1 < Max)
    BY <1>1, MaxAssumption DEF Trips
  <2> QED
    BY <2>1, Zenon DEF Trips, Arrives, Arrive
<1>3. /\ n' = (n + 1) - 1
      /\ isArrivalPhase' = (n + 1 = 1)
      /\ round' = [round EXCEPT ![t] = @ + 1]
      /\ UNCHANGED destroyed
      /\ at' = [IF n + 1 = 1 THEN Broadcast(Broadcast(at)) ELSE Broadcast(at)
                  EXCEPT ![t] = "out"]
  BY <1>2 DEF Leave
<1>4. n = Max - 1
  BY <1>1, <1>2, MaxAssumption DEF BarrierInv, PhaseInv
<1>5. PICK p \in [Caller -> BarrierPC] :
        /\ at' = [p EXCEPT ![t] = "out"]
        /\ \A u \in Caller :
              /\ p[u] \notin {"condDeparture", "condArrival"}
              /\ p[u] \in {"retryArrival", "condArrival"}
                   <=> at[u] \in {"retryArrival", "condArrival"}
              /\ p[u] = "out" <=> at[u] = "out"
  <2>1. CASE n + 1 = 1
    <3>1. Broadcast(at) \in [Caller -> BarrierPC]
      BY <1>1, BroadcastFacts
    <3> QED
      BY <1>1, <1>3, <2>1, <3>1, BroadcastFacts, ZenonT(30)
  <2>2. CASE n + 1 # 1
    BY <1>1, <1>3, <2>2, BroadcastFacts, ZenonT(30)
  <2> QED
    BY <2>1, <2>2
<1>6. Inside' = Inside /\ t \notin Inside
  BY <1>2, <1>5 DEF Inside
<1>7. at' \in [Caller -> BarrierPC]
  BY <1>5 DEF BarrierPC
<1>8. /\ at[t] # "out" /\ at'[t] = "out"
      /\ \A u \in Caller \ {t} : at'[u] = "out" <=> at[u] = "out"
      /\ \A u \in Caller : at'[u] \notin {"condDeparture", "condArrival"}
  BY <1>1, <1>2, <1>5
<1>9. master'[t] = (n = 0)
  BY <1>1, <1>2, Zenon
<1>10. answer' = [answer EXCEPT ![t] = (n = 0)]
  BY <1>2, <1>9, Zenon
<1>11. isArrivalPhase' = (n = 0)
  <2>1. (n + 1 = 1) = (n = 0)
    BY <1>1
  <2> QED
    BY <1>3, <2>1, Zenon
<1>12. n' = n
  BY <1>1, <1>3
<1> QED
  BY <1>2, <1>3, <1>4, <1>6, <1>7, <1>8, <1>10, <1>11, <1>12, Zenon

LEMMA DepartsFacts ==
  ASSUME BarrierInv, NEW t \in Caller, Departs(t)
  PROVE  /\ t \in Inside
         /\ Inside' = Inside \ {t}
         /\ at' \in [Caller -> BarrierPC]
         /\ at[t] # "out" /\ at'[t] = "out"
         /\ \A u \in Caller \ {t} : at'[u] = "out" <=> at[u] = "out"
         /\ \A u \in Caller : at'[u] # "condArrival"
         /\ n = 1 => \A u \in Caller : at'[u] # "condDeparture"
         /\ answer' = [answer EXCEPT ![t] = master[t]]
         /\ round' = [round EXCEPT ![t] = @ + 1]
         /\ n > 0
         /\ n' = n - 1
         /\ ~isArrivalPhase
         /\ isArrivalPhase' = (n = 1)
         /\ UNCHANGED <<destroyed, master>>
<1>1. at \in [Caller -> BarrierPC] /\ n \in Nat
  BY MaxAssumption DEF BarrierInv, BarrierTypeOK
<1>2. /\ n' = n - 1
      /\ isArrivalPhase' = (n = 1)
      /\ round' = [round EXCEPT ![t] = @ + 1]
      /\ at[t] = "retryArrival"
      /\ ~isArrivalPhase
      /\ answer' = [answer EXCEPT ![t] = master[t]]
      /\ UNCHANGED <<destroyed, master>>
      /\ at' = [IF n = 1 THEN Broadcast(at) ELSE at EXCEPT ![t] = "out"]
  BY DEF Departs, Leave
<1>3. n > 0 /\ \A u \in Caller : at[u] # "condArrival"
  BY <1>2 DEF BarrierInv, PhaseInv, BlockedInv
<1>4. PICK p \in [Caller -> BarrierPC] :
        /\ at' = [p EXCEPT ![t] = "out"]
        /\ \A u \in Caller :
              /\ p[u] # "condArrival"
              /\ n = 1 => p[u] # "condDeparture"
              /\ p[u] \in {"retryArrival", "condArrival"}
                   <=> at[u] \in {"retryArrival", "condArrival"}
              /\ p[u] = "out" <=> at[u] = "out"
  <2>1. CASE n = 1
    BY <1>1, <1>2, <2>1, BroadcastFacts, ZenonT(30)
  <2>2. CASE n # 1
    BY <1>1, <1>2, <1>3, <2>2, ZenonT(30)
  <2> QED
    BY <2>1, <2>2
<1>5. Inside' = Inside \ {t} /\ t \in Inside
  BY <1>2, <1>4 DEF Inside
<1>6. at' \in [Caller -> BarrierPC]
  BY <1>4 DEF BarrierPC
<1> QED
  BY <1>1, <1>2, <1>3, <1>4, <1>5, <1>6

-----------------------------------------------------------------------------
(* The inductive invariant. *)

LEMMA InitBarrierInv == BarrierInit => BarrierInv
<1> SUFFICES ASSUME BarrierInit PROVE BarrierInv
  OBVIOUS
<1>1. BarrierTypeOK
  BY MaxAssumption, RoundsAssumption DEF BarrierInit, BarrierTypeOK, BarrierPC
<1>2. Inside = {}
  BY DEF BarrierInit, Inside
<1>3. CountInv
  BY <1>2, FS_EmptySet DEF BarrierInit, CountInv
<1>4. PhaseInv /\ MasterInv /\ BlockedInv /\ CallInv
  BY MaxAssumption DEF BarrierInit, PhaseInv, MasterInv, BlockedInv, CallInv
<1>5. RoundInv
  <2>1. \A t \in Caller :
           round[t] = IF isArrivalPhase \/ t \in Inside THEN 0 ELSE 0 + 1
    BY DEF BarrierInit
  <2>2. 0 \in 0 .. Rounds
    BY RoundsAssumption
  <2> QED
    BY <2>1, <2>2 DEF RoundInv
<1> QED
  BY <1>1, <1>3, <1>4, <1>5 DEF BarrierInv, BarrierInit

LEMMA TypeStep ==
  ASSUME BarrierInv, NEW t \in Caller,
         Moves(t) \/ Joins(t) \/ Trips(t) \/ Departs(t)
  PROVE  BarrierTypeOK' /\ CallInv' /\ destroyed' # "EBUSY"
<1>1. BarrierTypeOK /\ CallInv /\ destroyed # "EBUSY"
  BY DEF BarrierInv
<1>2. CASE Moves(t)
  BY <1>1, <1>2, MovesFacts DEF BarrierTypeOK, CallInv
<1>3. CASE Joins(t)
  <2>1. n' \in 0 .. Max - 1
    BY <1>1, <1>3, JoinsFacts, MaxAssumption DEF BarrierTypeOK
  <2>2. master' \in [Caller -> BOOLEAN]
    BY <1>1, <1>3, JoinsFacts, Zenon DEF BarrierTypeOK
  <2>3. CallInv'
    BY <1>1, <1>3, JoinsFacts DEF BarrierTypeOK, CallInv
  <2> QED
    BY <1>1, <1>3, <2>1, <2>2, <2>3, JoinsFacts DEF BarrierTypeOK
<1>4. CASE Trips(t)
  <2>1. master' \in [Caller -> BOOLEAN] /\ answer' \in [Caller -> BOOLEAN]
    BY <1>1, <1>4, TripsFacts, Zenon DEF BarrierTypeOK
  <2>2. round[t] < Rounds
    BY <1>1, <1>4, TripsFacts DEF CallInv
  <2>3. round' \in [Caller -> 0 .. Rounds]
    BY <1>1, <1>4, <2>2, TripsFacts, RoundsAssumption DEF BarrierTypeOK
  <2>4. CallInv'
    BY <1>1, <1>4, TripsFacts DEF BarrierTypeOK, CallInv
  <2> QED
    BY <1>1, <1>4, <2>1, <2>3, <2>4, TripsFacts DEF BarrierTypeOK
<1>5. CASE Departs(t)
  <2>1. answer' \in [Caller -> BOOLEAN]
    BY <1>1, <1>5, DepartsFacts, Zenon DEF BarrierTypeOK
  <2>2. round[t] < Rounds
    BY <1>1, <1>5, DepartsFacts DEF CallInv
  <2>3. round' \in [Caller -> 0 .. Rounds]
    BY <1>1, <1>5, <2>2, DepartsFacts, RoundsAssumption DEF BarrierTypeOK
  <2>4. CallInv'
    BY <1>1, <1>5, DepartsFacts DEF BarrierTypeOK, CallInv
  <2>5. n' \in 0 .. Max - 1
    BY <1>1, <1>5, DepartsFacts, MaxAssumption DEF BarrierTypeOK
  <2> QED
    BY <1>1, <1>5, <2>1, <2>3, <2>4, <2>5, DepartsFacts DEF BarrierTypeOK
<1> QED
  BY <1>2, <1>3, <1>4, <1>5

LEMMA CountStep ==
  ASSUME BarrierInv, NEW t \in Caller,
         Moves(t) \/ Joins(t) \/ Trips(t) \/ Departs(t)
  PROVE  CountInv' /\ PhaseInv' /\ BlockedInv'
<1>1. BarrierTypeOK /\ CountInv /\ PhaseInv /\ BlockedInv
  BY DEF BarrierInv
<1>2. CASE Moves(t)
  <2>1. CountInv' /\ PhaseInv'
    BY <1>1, <1>2, MovesFacts DEF CountInv, PhaseInv
  <2>2. \A u \in Caller \ {t} : at'[u] = at[u]
    BY <1>2, MovesFacts
  <2>3. /\ at'[t] = "condDeparture" => ~isArrivalPhase
        /\ at'[t] = "condArrival" => isArrivalPhase
    BY <1>1, <1>2 DEF Moves, BarrierTypeOK
  <2>4. isArrivalPhase' = isArrivalPhase
    BY <1>2, MovesFacts
  <2> QED
    BY <1>1, <2>1, <2>2, <2>3, <2>4 DEF BlockedInv
<1>3. CASE Joins(t)
  <2>1. CountInv'
    BY <1>1, <1>3, JoinsFacts, InsideFinite, FS_AddElement DEF CountInv
  <2>2. PhaseInv'
    BY <1>1, <1>3, JoinsFacts DEF PhaseInv
  <2>3. BlockedInv'
    BY <1>1, <1>3, JoinsFacts DEF BlockedInv, BarrierTypeOK
  <2> QED
    BY <2>1, <2>2, <2>3
<1>4. CASE Trips(t)
  <2>1. CountInv'
    BY <1>1, <1>4, TripsFacts DEF CountInv
  <2>2. PhaseInv'
    <3>1. n' = n /\ n = Max - 1
      BY <1>4, TripsFacts
    <3>2. (isArrivalPhase' /\ n = 0) \/ (~isArrivalPhase' /\ n # 0)
      BY <1>4, TripsFacts, Zenon
    <3> QED
      BY <1>1, <3>1, <3>2, MaxAssumption DEF PhaseInv, BarrierTypeOK
  <2>3. BlockedInv'
    BY <1>1, <1>4, TripsFacts DEF BlockedInv
  <2> QED
    BY <2>1, <2>2, <2>3
<1>5. CASE Departs(t)
  <2>1. CountInv'
    BY <1>1, <1>5, DepartsFacts, InsideFinite, FS_RemoveElement DEF CountInv
  <2>2. PhaseInv'
    <3>1. n > 0 /\ n' = n - 1
      BY <1>5, DepartsFacts
    <3>2. (isArrivalPhase' /\ n = 1) \/ (~isArrivalPhase' /\ n # 1)
      BY <1>5, DepartsFacts, Zenon
    <3> QED
      BY <1>1, <3>1, <3>2, MaxAssumption DEF PhaseInv, BarrierTypeOK
  <2>3. BlockedInv'
    BY <1>1, <1>5, DepartsFacts DEF BlockedInv
  <2> QED
    BY <2>1, <2>2, <2>3
<1> QED
  BY <1>2, <1>3, <1>4, <1>5

LEMMA MasterStep ==
  ASSUME BarrierInv, NEW t \in Caller,
         Moves(t) \/ Joins(t) \/ Trips(t) \/ Departs(t)
  PROVE  MasterInv'
<1>1. BarrierTypeOK /\ CountInv /\ MasterInv
  BY DEF BarrierInv
<1>2. CASE Moves(t)
  BY <1>1, <1>2, MovesFacts DEF MasterInv
<1>3. CASE Joins(t)
  <2>1. CASE n = 0
    <3>1. Inside = {}
      BY <1>1, <2>1, InsideFinite, FS_EmptySet DEF CountInv
    <3>2. Inside' = {t} /\ master'[t] = TRUE
      <4>1. Inside' = {t}
        BY <1>3, <3>1, JoinsFacts
      <4>2. master'[t] = (n = 0)
        BY <1>1, <1>3, JoinsFacts, Zenon DEF BarrierTypeOK
      <4> QED
        BY <2>1, <4>1, <4>2
    <3> QED
      BY <3>2 DEF MasterInv
  <2>2. CASE n # 0
    <3>1. n > 0 /\ isArrivalPhase
      BY <1>1, <1>3, <2>2, JoinsFacts, MaxAssumption DEF BarrierTypeOK
    <3>2. PICK m \in Inside : \A u \in Inside : master[u] <=> u = m
      BY <1>1, <3>1 DEF MasterInv
    <3>3. master'[t] = FALSE /\ \A u \in Inside : master'[u] = master[u]
      <4>1. master' = [master EXCEPT ![t] = (n = 0)] /\ t \notin Inside
        BY <1>3, JoinsFacts
      <4>2. (n = 0) = FALSE
        BY <2>2
      <4> QED
        BY <1>1, <4>1, <4>2, InsideFinite DEF BarrierTypeOK
    <3>4. Inside' = Inside \cup {t} /\ t \notin Inside
      BY <1>3, JoinsFacts
    <3>5. m \in Inside' /\ \A u \in Inside' : master'[u] <=> u = m
      BY <3>2, <3>3, <3>4
    <3> QED
      BY <3>5 DEF MasterInv
  <2> QED
    BY <2>1, <2>2
<1>4. CASE Trips(t)
  <2>1. n' = n
    BY <1>4, TripsFacts
  <2>2. isArrivalPhase' => n = 0
    BY <1>4, TripsFacts, Zenon
  <2> QED
    BY <2>1, <2>2 DEF MasterInv
<1>5. CASE Departs(t)
  <2>1. n' = n - 1
    BY <1>5, DepartsFacts
  <2>2. isArrivalPhase' => n = 1
    BY <1>5, DepartsFacts, Zenon
  <2> QED
    BY <2>1, <2>2 DEF MasterInv
<1> QED
  BY <1>2, <1>3, <1>4, <1>5

(* The thread that completes a round finds all others inside.              *)
LEMMA TripsWithAll ==
  ASSUME BarrierInv, Cardinality(Caller) = Max, NEW t \in Caller, Trips(t)
  PROVE  Caller = Inside \cup {t}
<1>1. /\ IsFiniteSet(Inside \cup {t})
      /\ Cardinality(Inside \cup {t}) = Cardinality(Inside) + 1
  BY InsideFinite, TripsFacts, FS_AddElement
<1>2. Cardinality(Inside) = Max - 1
  BY TripsFacts DEF BarrierInv, CountInv
<1>3. Inside \cup {t} \in SUBSET Caller
  BY InsideFinite
<1>4. Cardinality(Inside \cup {t}) = Cardinality(Caller)
  BY <1>1, <1>2, MaxAssumption
<1> QED
  BY <1>3, <1>4, ThreadAssumption, FS_Subset, Zenon

LEMMA RoundStep ==
  ASSUME BarrierInv, NEW t \in Caller,
         Moves(t) \/ Joins(t) \/ Trips(t) \/ Departs(t)
  PROVE  RoundInv'
<1> SUFFICES ASSUME Cardinality(Caller) = Max
             PROVE  \E r \in 0 .. Rounds : \A u \in Caller :
                      round'[u] = IF isArrivalPhase' \/ u \in Inside'
                                  THEN r ELSE r + 1
  BY DEF RoundInv
<1>1. PICK r \in 0 .. Rounds : \A u \in Caller :
         round[u] = IF isArrivalPhase \/ u \in Inside THEN r ELSE r + 1
  BY DEF BarrierInv, RoundInv
<1>2. BarrierTypeOK /\ CountInv /\ CallInv
  BY DEF BarrierInv
<1>3. CASE Moves(t)
  BY <1>1, <1>3, MovesFacts
<1>4. CASE Joins(t)
  BY <1>1, <1>4, JoinsFacts
<1>5. CASE Trips(t)
  <2>1. round[t] < Rounds
    BY <1>2, <1>5, TripsFacts DEF CallInv
  <2>2. \A u \in Caller : round[u] = r
    BY <1>1, <1>5, TripsFacts
  <2>3. \A u \in Caller : round'[u] = IF u \in Inside' THEN r ELSE r + 1
    BY <1>2, <1>5, <2>2, TripsFacts, TripsWithAll DEF BarrierTypeOK
  <2>4. CASE n = 0
    <3>1. Inside' = {} /\ isArrivalPhase'
      <4>1. Inside = {}
        BY <1>2, <2>4, InsideFinite, FS_EmptySet DEF CountInv
      <4>2. isArrivalPhase' = (n = 0)
        BY <1>5, TripsFacts
      <4> QED
        BY <1>5, <2>4, <4>1, <4>2, TripsFacts
    <3>2. r + 1 \in 0 .. Rounds
      BY <2>1, <2>2, RoundsAssumption
    <3> QED
      BY <2>3, <3>1, <3>2
  <2>5. CASE n # 0
    <3>1. isArrivalPhase' = (n = 0)
      BY <1>5, TripsFacts
    <3>2. ~isArrivalPhase'
      BY <2>5, <3>1
    <3> QED
      BY <2>3, <3>2
  <2> QED
    BY <2>4, <2>5
<1>6. CASE Departs(t)
  <2>1. round[t] < Rounds
    BY <1>2, <1>6, DepartsFacts DEF CallInv
  <2>2. /\ round[t] = r
        /\ \A u \in Caller : round[u] = IF u \in Inside THEN r ELSE r + 1
    BY <1>1, <1>6, DepartsFacts
  <2>3. \A u \in Caller : round'[u] = IF u \in Inside' THEN r ELSE r + 1
    BY <1>2, <1>6, <2>2, DepartsFacts DEF BarrierTypeOK
  <2>4. CASE n = 1
    <3>1. Inside' = {}
      <4>1. CountInv'
        BY <1>6, CountStep
      <4>2. Cardinality(Inside') = 0
        BY <1>6, <2>4, <4>1, DepartsFacts DEF CountInv
      <4>3. IsFiniteSet(Inside')
        BY <1>6, DepartsFacts, InsideFinite, FS_RemoveElement
      <4> QED
        BY <4>2, <4>3, FS_EmptySet
    <3>2. r + 1 \in 0 .. Rounds
      BY <2>1, <2>2, RoundsAssumption
    <3>3. \A u \in Caller : round'[u] = r + 1
      BY <2>3, <3>1
    <3> QED
      BY <2>4, <3>1, <3>2, <3>3, <1>6, DepartsFacts
  <2>5. CASE n # 1
    <3>1. isArrivalPhase' = (n = 1)
      BY <1>6, DepartsFacts
    <3>2. ~isArrivalPhase'
      BY <2>5, <3>1
    <3> QED
      BY <2>3, <3>2
  <2> QED
    BY <2>4, <2>5
<1> QED
  BY <1>3, <1>4, <1>5, <1>6

LEMMA DestroyStep ==
  ASSUME BarrierInv, parsec_barrier_destroy
  PROVE  BarrierInv'
<1>1. /\ UNCHANGED <<n, isArrivalPhase, master, at, answer, round>>
      /\ destroyed' = IF n # 0 THEN "EBUSY" ELSE "ok"
      /\ \A t \in Caller : at[t] = "out"
  BY DEF parsec_barrier_destroy, AllJoined
<1>2. Inside = {} /\ Inside' = Inside
  BY <1>1 DEF Inside
<1>3. n = 0
  BY <1>2, FS_EmptySet DEF BarrierInv, CountInv
<1>4. BarrierTypeOK' /\ destroyed' # "EBUSY"
  BY <1>1, <1>3 DEF BarrierInv, BarrierTypeOK
<1>5. CountInv' /\ PhaseInv' /\ MasterInv' /\ BlockedInv' /\ CallInv' /\ RoundInv'
  BY <1>1, <1>2 DEF BarrierInv, CountInv, PhaseInv, MasterInv, BlockedInv, CallInv,
                    RoundInv
<1> QED
  BY <1>4, <1>5 DEF BarrierInv

LEMMA NextBarrierInv == BarrierInv /\ [BarrierNext]_barrierVars => BarrierInv'
<1> SUFFICES ASSUME BarrierInv, [BarrierNext]_barrierVars PROVE BarrierInv'
  OBVIOUS
<1>1. ASSUME NEW t \in Caller, Moves(t) \/ Joins(t) \/ Trips(t) \/ Departs(t)
      PROVE  BarrierInv'
  BY <1>1, TypeStep, CountStep, MasterStep, RoundStep DEF BarrierInv
<1>2. CASE UNCHANGED barrierVars
  BY <1>2 DEF barrierVars, BarrierInv, BarrierTypeOK, CountInv, PhaseInv, MasterInv, BlockedInv,
              CallInv, RoundInv, Inside
<1> QED
  BY <1>1, <1>2, BarrierSteps, DestroyStep DEF BarrierInv

LEMMA BarrierInvariance == BarrierSpec => []BarrierInv
BY InitBarrierInv, NextBarrierInv, PTL DEF BarrierSpec

(* Type correctness of the barrier, and the counts of each phase.          *)
THEOREM BarrierTypeCorrect == BarrierSpec => []BarrierTypeOK
<1>1. BarrierInv => BarrierTypeOK
  BY DEF BarrierInv
<1> QED
  BY <1>1, BarrierInvariance, PTL

LEMMA IInvNoOvertaking == BarrierInv => NoOvertaking
<1> SUFFICES ASSUME BarrierInv, Cardinality(Caller) = Max,
                    NEW t \in Caller, NEW u \in Caller
             PROVE  round[t] <= Called(u)
  BY DEF NoOvertaking
<1>1. PICK r \in 0 .. Rounds : \A w \in Caller :
         round[w] = IF isArrivalPhase \/ w \in Inside THEN r ELSE r + 1
  BY DEF BarrierInv, RoundInv
<1>2. u \in Inside => at[u] # "out"
  BY DEF Inside
<1>3. Called(u) = IF at[u] = "out" THEN round[u] ELSE round[u] + 1
  BY DEF Called
<1> QED
  BY <1>1, <1>2, <1>3

(* When the barrier counts all its callers, nobody returns from its k-th   *)
(* call of parsec_barrier_wait before everybody has made its k-th call.    *)
THEOREM NobodyOvertakes == BarrierSpec => []NoOvertaking
BY IInvNoOvertaking, BarrierInvariance, PTL

(* parsec_barrier_destroy, called after the join, never answers EBUSY.     *)
THEOREM DestroySucceeds == BarrierSpec => []DestroyFindsItFree
<1>1. BarrierInv => DestroyFindsItFree
  BY DEF BarrierInv, DestroyFindsItFree
<1> QED
  BY <1>1, BarrierInvariance, PTL

-----------------------------------------------------------------------------
(* The barrier implements BarrierRounds.  Status and Serial name the       *)
(* refinement mapping of BR.                                               *)

StatusOf(t) ==
    IF at[t] = "out" THEN "out"
    ELSE IF t \in Inside /\ ~isArrivalPhase THEN "released" ELSE "waiting"
SerialOf(t) == IF t \in Inside /\ ~isArrivalPhase THEN master[t] ELSE answer[t]
Status == [t \in Caller |-> StatusOf(t)]
Serial == [t \in Caller |-> SerialOf(t)]

LEMMA MovesImplements ==
  ASSUME BarrierInv, NEW t \in Caller, Moves(t)
  PROVE  [BR!RoundNext]_<<Status, Serial>>
<1>1. Serial' = Serial
  BY MovesFacts DEF Serial, SerialOf
<1>2. \A u \in Caller \ {t} : StatusOf(u)' = StatusOf(u)
  BY MovesFacts DEF StatusOf
<1>3. CASE at[t] = "out"
  <2>1. t \notin Inside
    BY <1>3 DEF Inside
  <2>2. StatusOf(t) = "out" /\ StatusOf(t)' = "waiting"
    BY <1>3, <2>1, MovesFacts DEF StatusOf
  <2>3. Status' = [Status EXCEPT ![t] = "waiting"] /\ Status[t] = "out"
    BY <1>2, <2>2 DEF Status
  <2>4. BR!Call(t)
    BY <1>1, <2>3 DEF BR!Call, Status, StatusOf, Serial, SerialOf
  <2> QED
    BY <2>4 DEF BR!RoundNext
<1>4. CASE at[t] # "out"
  <2>1. StatusOf(t)' = StatusOf(t)
    BY <1>4, MovesFacts DEF StatusOf
  <2>2. Status' = Status
    BY <1>2, <2>1 DEF Status
  <2> QED
    BY <1>1, <2>2
<1> QED
  BY <1>3, <1>4

LEMMA JoinsImplements ==
  ASSUME BarrierInv, NEW t \in Caller, Joins(t)
  PROVE  UNCHANGED <<Status, Serial>>
<1>1. /\ at[t] # "out" /\ at'[t] # "out"
      /\ \A u \in Caller \ {t} : at'[u] = at[u]
      /\ isArrivalPhase /\ isArrivalPhase' /\ answer' = answer
  BY JoinsFacts DEF BarrierInv, BarrierTypeOK
<1>2. Serial' = Serial
  BY <1>1 DEF Serial, SerialOf
<1>3. \A u \in Caller : StatusOf(u)' = StatusOf(u)
  BY <1>1 DEF StatusOf
<1> QED
  BY <1>2, <1>3 DEF Status

(* BarrierRounds counts with the same Cardinality.                         *)
LEMMA SameCardinality ==
  ASSUME NEW S
  PROVE  BR!Cardinality(S) = Cardinality(S)
BY DEF BR!Cardinality, Cardinality, BR!IsFiniteSet, IsFiniteSet

LEMMA TripsImplements ==
  ASSUME BarrierInv, NEW t \in Caller, Trips(t)
  PROVE  BR!RoundNext
<1>1. /\ t \notin Inside /\ Inside' = Inside /\ isArrivalPhase
      /\ at[t] # "out" /\ at'[t] = "out"
      /\ \A u \in Caller \ {t} : at'[u] = "out" <=> at[u] = "out"
  BY TripsFacts
<1>2. Cardinality(Inside) = Max - 1
  BY TripsFacts DEF BarrierInv, CountInv
<1>3. (isArrivalPhase' /\ n = 0) \/ (~isArrivalPhase' /\ n # 0)
  BY TripsFacts, Zenon
<1>4. n = 0 <=> Inside = {}
  BY InsideFinite, FS_EmptySet DEF BarrierInv, CountInv
<1>5. \A u \in Inside : at[u] # "out" /\ at'[u] # "out"
  <2>1. \A u \in Inside : at[u] # "out"
    BY DEF Inside
  <2> QED
    BY <1>1, <2>1, InsideFinite
<1>6. \A u \in Caller : Status[u] = IF at[u] = "out" THEN "out" ELSE "waiting"
  BY <1>1 DEF Status, StatusOf
<1>7. BR!Waiting = {u \in Caller : at[u] # "out"}
  BY <1>6 DEF BR!Waiting, Status, StatusOf
<1>8. Inside \in SUBSET (BR!Waiting \ {t}) /\ t \in BR!Waiting
  BY <1>1, <1>5, <1>7, InsideFinite
<1>9. Status' = [u \in Caller |->
                   IF u = t THEN "out"
                   ELSE IF u \in Inside THEN "released" ELSE Status[u]]
  <2>1. \A u \in Caller :
           StatusOf(u)' = IF u = t THEN "out"
                          ELSE IF u \in Inside THEN "released" ELSE Status[u]
    BY <1>1, <1>3, <1>4, <1>5, <1>6 DEF StatusOf
  <2> QED
    BY <2>1 DEF Status
<1>10. PICK chosen \in Inside \cup {t} :
          /\ \A u \in Inside : master'[u] <=> u = chosen
          /\ (n = 0) <=> t = chosen
  <2>1. \A u \in Inside : master'[u] = master[u]
    BY <1>1, TripsFacts, InsideFinite DEF BarrierInv, BarrierTypeOK
  <2>2. CASE n = 0
    BY <1>4, <2>2
  <2>3. CASE n # 0
    <3>1. n > 0
      BY <2>3, MaxAssumption DEF BarrierInv, BarrierTypeOK
    <3>2. PICK m \in Inside : \A u \in Inside : master[u] <=> u = m
      BY <1>1, <3>1 DEF BarrierInv, MasterInv
    <3> QED
      BY <1>1, <2>1, <2>3, <3>2
  <2> QED
    BY <2>2, <2>3
<1>11. \A u \in Inside : master'[u] \in BOOLEAN
  <2>1. BarrierTypeOK'
    BY TypeStep
  <2> QED
    BY <2>1, InsideFinite DEF BarrierTypeOK
<1>12. Serial' = [u \in Caller |->
                    IF u \in Inside \cup {t} THEN u = chosen ELSE Serial[u]]
  <2>1. ASSUME NEW u \in Inside
        PROVE  SerialOf(u)' = (u = chosen)
    <3>1. ~isArrivalPhase'
      BY <1>3, <1>4
    <3>2. SerialOf(u)' = master'[u]
      BY <1>1, <3>1 DEF SerialOf
    <3>3. master'[u] = (u = chosen)
      BY <1>10, <1>11
    <3> QED
      BY <3>2, <3>3, Zenon
  <2>2. SerialOf(t)' = (t = chosen)
    <3>1. SerialOf(t)' = answer'[t]
      BY <1>1 DEF SerialOf
    <3>2. answer'[t] = (n = 0)
      BY TripsFacts, Zenon DEF BarrierInv, BarrierTypeOK
    <3>3. (n = 0) = (t = chosen)
      BY <1>10
    <3> QED
      BY <3>1, <3>2, <3>3, Zenon
  <2>3. ASSUME NEW u \in Caller, u \notin Inside, u # t
        PROVE  SerialOf(u)' = Serial[u]
    <3>1. answer' = [answer EXCEPT ![t] = (n = 0)]
      BY TripsFacts, Zenon
    <3>2. answer'[u] = answer[u]
      BY <2>3, <3>1, Zenon DEF BarrierInv, BarrierTypeOK
    <3> QED
      BY <1>1, <2>3, <3>2 DEF Serial, SerialOf
  <2>4. \A u \in Caller :
           SerialOf(u)' =
             IF u \in Inside \cup {t} THEN u = chosen ELSE Serial[u]
    BY <2>1, <2>2, <2>3, Zenon
  <2> QED
    BY <2>4, Zenon DEF Serial
<1>13. \A u \in Caller : Status[u] # "released"
  BY <1>6
<1>14. BR!Trip(t)
  <2>1. /\ t \in BR!Waiting
        /\ \A u \in Caller : Status[u] # "released"
        /\ Inside \in SUBSET (BR!Waiting \ {t})
        /\ BR!Cardinality(Inside) = Max - 1
        /\ chosen \in Inside \cup {t}
    BY <1>2, <1>8, <1>10, <1>13, SameCardinality
  <2> QED
    BY <1>9, <1>12, <2>1, Zenon DEF BR!Trip, Status, StatusOf, Serial, SerialOf
<1> QED
  BY <1>14 DEF BR!RoundNext

LEMMA DepartsImplements ==
  ASSUME BarrierInv, NEW t \in Caller, Departs(t)
  PROVE  BR!RoundNext
<1>1. /\ t \in Inside /\ Inside' = Inside \ {t} /\ ~isArrivalPhase
      /\ at[t] # "out" /\ at'[t] = "out"
      /\ \A u \in Caller \ {t} : at'[u] = "out" <=> at[u] = "out"
      /\ master' = master
  BY DepartsFacts
<1>2. isArrivalPhase' => Inside' = {}
  <2>1. CountInv'
    BY CountStep
  <2>2. isArrivalPhase' => n' = 0
    <3>1. isArrivalPhase' => n = 1
      BY DepartsFacts, Zenon
    <3>2. n' = n - 1
      BY DepartsFacts
    <3> QED
      BY <3>1, <3>2
  <2>3. IsFiniteSet(Inside')
    BY <1>1, InsideFinite, FS_RemoveElement
  <2> QED
    BY <2>1, <2>2, <2>3, FS_EmptySet DEF CountInv
<1>3. Status[t] = "released"
  BY <1>1 DEF Status, StatusOf
<1>4. Status' = [Status EXCEPT ![t] = "out"]
  <2>1. \A u \in Caller \ {t} : StatusOf(u)' = StatusOf(u)
    BY <1>1, <1>2 DEF StatusOf
  <2>2. StatusOf(t)' = "out"
    BY <1>1 DEF StatusOf
  <2> QED
    BY <2>1, <2>2 DEF Status
<1>5. Serial' = Serial
  <2>1. SerialOf(t)' = SerialOf(t)
    <3>1. SerialOf(t)' = answer'[t] /\ SerialOf(t) = master[t]
      BY <1>1 DEF SerialOf
    <3>2. answer'[t] = master[t]
      BY DepartsFacts, Zenon DEF BarrierInv, BarrierTypeOK
    <3> QED
      BY <3>1, <3>2
  <2>2. ASSUME NEW u \in Caller, u # t
        PROVE  SerialOf(u)' = SerialOf(u)
    <3>1. answer'[u] = answer[u]
      BY <2>2, DepartsFacts, Zenon DEF BarrierInv, BarrierTypeOK
    <3> QED
      BY <1>1, <1>2, <2>2, <3>1 DEF SerialOf
  <2> QED
    BY <2>1, <2>2 DEF Serial
<1>6. BR!Return(t)
  BY <1>3, <1>4, <1>5 DEF BR!Return, Status, StatusOf, Serial, SerialOf
<1> QED
  BY <1>6 DEF BR!RoundNext

LEMMA InitImplements == BarrierInit => BR!RoundInit
BY DEF BarrierInit, Inside, BR!RoundInit

LEMMA StepImplements ==
  BarrierInv /\ [BarrierNext]_barrierVars => [BR!RoundNext]_<<Status, Serial>>
<1> SUFFICES ASSUME BarrierInv, [BarrierNext]_barrierVars
             PROVE  [BR!RoundNext]_<<Status, Serial>>
  OBVIOUS
<1>1. ASSUME NEW t \in Caller, Moves(t) \/ Joins(t) \/ Trips(t) \/ Departs(t)
      PROVE  [BR!RoundNext]_<<Status, Serial>>
  BY <1>1, MovesImplements, JoinsImplements, TripsImplements, DepartsImplements
<1>2. CASE UNCHANGED barrierVars \/ parsec_barrier_destroy
  BY <1>2 DEF barrierVars, parsec_barrier_destroy, Status, StatusOf, Serial, SerialOf,
              Inside
<1> QED
  BY <1>1, <1>2, BarrierSteps DEF BarrierInv

(* However many threads share the barrier, and whether they spin, block or *)
(* wake up for no reason, it forms rounds of exactly Max threads with one  *)
(* serial thread each, and a round only when the last one has left.        *)
THEOREM ImplementsRounds == BarrierSpec => ImplementsBarrierRounds
<1>1. <<Status, Serial>> = BR!roundVars /\ <<Status', Serial'>> = BR!roundVars'
  BY DEF BR!roundVars, Status, StatusOf, Serial, SerialOf
<1>2. BarrierInv /\ [BarrierNext]_barrierVars => [BR!RoundNext]_BR!roundVars
  BY <1>1, StepImplements
<1> QED
  BY <1>2, InitImplements, BarrierInvariance, PTL
     DEF BarrierSpec, ImplementsBarrierRounds, BR!RoundSpec
=============================================================================
