---------------------------- MODULE BodyTrackProofs ----------------------------
(***************************************************************************)
(* bodytrack, for any number of workers, cameras, particles and sampling   *)
(* rounds, images and work units of any size and any length of the loader's*)
(* buffer: the types, that main is given the images of all frames in order,*)
(* and that a command is a fork over its iterations and their join.        *)
(***************************************************************************)
EXTENDS BodyTrack, FiniteSetTheorems, WellFoundedInduction, TLAPS

USE WorkersAssumption, CommandsAssumption, ConditionsAssumption, LoaderAssumption, LoopsAssumption

LEMMA CommandsAreNat == Commands = {0, 1, 2, 3, 4}
BY DEF Cmds, FILTERROW, FILTERCOLUMN, GRADIENT, PARTICLEWEIGHTS, NEWPARTICLES

LEMMA NoCommand ==
  /\ THREADS_IDLE \notin Commands /\ THREADS_SHUTDOWN \notin Commands
  /\ THREADS_IDLE # THREADS_SHUTDOWN
BY CommandsAreNat DEF THREADS_IDLE, THREADS_SHUTDOWN

-----------------------------------------------------------------------------
(* Loops and scripts *)

LEMMA LoopTypes ==
  ASSUME TypeOK, NEW c \in Commands
  PROVE  /\ dispenser(c) \in Dispensers
         /\ Start(c) \in Nat /\ Limit(c) \in Int /\ Limit(c) <= Height + NumParticles
         /\ Unit[c] \in Nat \ {0}
<1>1. dispenser(c) \in Dispensers
  BY DEF dispenser, Dispensers
<1>2. tickets[dispenser(c)].init \in Nat
  BY <1>1 DEF TypeOK
<1>3. Start(c) \in Nat
  BY <1>2 DEF Start, FILTERROW, FILTERCOLUMN
<1>4. Limit(c) \in Int /\ Limit(c) <= Height + NumParticles
  BY DEF Limit, FILTERROW, FILTERCOLUMN, GRADIENT
<1> QED
  BY <1>1, <1>3, <1>4

\* The smallest element of a set of numbers.
LEMMA MinIn ==
  ASSUME NEW S \in SUBSET Nat, S # {}
  PROVE  Min(S) \in S
<1> DEFINE R == OpToRel(<, Nat)
<1>1. \A x, y \in Nat : x < y => <<x, y>> \in R
  BY DEF OpToRel
<1>2. IsWellFoundedOn(R, Nat)
  BY NatLessThanWellFounded
<1> HIDE DEF R
<1>3. PICK x \in S : \A y \in S : ~(<<y, x>> \in R)
  BY <1>2, WFMin
<1>4. \A y \in S : ~(y < x)
  BY <1>1, <1>3, Zenon
<1>5. \A y \in S : x =< y
  BY <1>4
<1> QED
  BY <1>5 DEF Min

LEMMA TimesTypes ==
  ASSUME NEW n \in Nat, NEW s \in Seq(Commands), Len(s) \in 1..3
  PROVE  Times(n, s) \in Seq(Commands)
<1>1. n * Len(s) \in Nat
  OBVIOUS
<1>2. ASSUME NEW i \in 1..n * Len(s)
      PROVE  1 + ((i - 1) % Len(s)) \in 1..Len(s)
  <2>1. CASE Len(s) = 1
    BY <2>1
  <2>2. CASE Len(s) = 2
    BY <2>2
  <2>3. CASE Len(s) = 3
    BY <2>3
  <2> QED
    BY <2>1, <2>2, <2>3
<1>3. \A i \in 1..n * Len(s) : s[1 + ((i - 1) % Len(s))] \in Commands
  BY <1>2
<1> QED
  BY <1>1, <1>3 DEF Times

\* What main sends for one frame.
LEMMA ScriptTypes ==
  /\ CreateEdgeMaps \in Seq(Commands)
  /\ \A n \in Rounds : Update(n) \in Seq(Commands) /\ Times(n, <<PARTICLEWEIGHTS>>) \in Seq(Commands)
<1> USE CommandsAreNat
<1>1. <<GRADIENT, FILTERROW, FILTERCOLUMN>> \in Seq(Commands)
      /\ Len(<<GRADIENT, FILTERROW, FILTERCOLUMN>>) \in 1..3
  BY DEF GRADIENT, FILTERROW, FILTERCOLUMN
<1>2. <<NEWPARTICLES, PARTICLEWEIGHTS>> \in Seq(Commands)
      /\ Len(<<NEWPARTICLES, PARTICLEWEIGHTS>>) \in 1..3
  BY DEF NEWPARTICLES, PARTICLEWEIGHTS
<1>3. <<PARTICLEWEIGHTS>> \in Seq(Commands) /\ Len(<<PARTICLEWEIGHTS>>) \in 1..3
  BY DEF PARTICLEWEIGHTS
<1>4. NumCameras \in Nat /\ Rounds \subseteq Nat
  OBVIOUS
<1>5. CreateEdgeMaps \in Seq(Commands)
  BY <1>1, <1>4, TimesTypes, Zenon DEF CreateEdgeMaps
<1>6. ASSUME NEW n \in Rounds
      PROVE  Update(n) \in Seq(Commands) /\ Times(n, <<PARTICLEWEIGHTS>>) \in Seq(Commands)
  BY <1>2, <1>3, <1>4, TimesTypes, Zenon DEF Update
<1> QED
  BY <1>5, <1>6

-----------------------------------------------------------------------------
(* The buffer of images *)

\* Waiting or notifying, the loader stays past its push, and main sees no images.
LEMMA WaitSteps ==
  ASSUME NEW t \in LoaderThreads, WaitOrNotify(t)
  PROVE  /\ io[t] \in Pushed
         /\ \E l \in Pushed \cup {"return"} :
              Go(t, l) /\ (t = "loader" => l \in Pushed)
BY DEF WaitOrNotify, StartWait, LookForTicket, Block, TakeTicket, LeaveWait, ReadSlack, PutTicket,
       SendSignal, AfterWait, AfterNotify, Pushed

LoaderInv == LoaderTypeOK /\ BufferInv

LEMMA LoaderKept ==
  ASSUME LoaderInv, Loader \/ GetNextImageSet
  PROVE  LoaderInv'
<1> USE DEF LoaderInv, LoaderTypeOK, BufferInv, FramesInOrder, LoaderThreads
<1>1. ASSUME NEW t \in LoaderThreads, WaitOrNotify(t)
      PROVE  LoaderInv'
  <2>1. PICK l \in Pushed \cup {"return"} : Go(t, l) /\ (t = "loader" => l \in Pushed)
    BY <1>1, WaitSteps
  <2>2. io[t] \in Pushed /\ UNCHANGED <<buffer, failed, currentFrame, taken>>
    BY <1>1, WaitSteps DEF WaitOrNotify
  <2>3. /\ io' = [io EXCEPT ![t] = l]
        /\ io["loader"] \in Pushed <=> io'["loader"] \in Pushed
        /\ io'["loader"] = "push" => io["loader"] = "push"
        /\ io'["main"] = "pop" => io["main"] = "pop"
    BY <2>1, <2>2 DEF Go, Pushed
  <2>4. LoaderTypeOK'
    BY <2>2, <2>3 DEF Pushed
  <2> QED
    BY <2>2, <2>3, <2>4
<1>2. CASE LoadSet
  <2>1. io' = [io EXCEPT !["loader"] = "push"]
    BY <1>2 DEF LoadSet, Go
  <2> QED
    BY <1>2, <2>1 DEF LoadSet, Pushed
<1>3. CASE LoaderExits
  BY <1>3 DEF LoaderExits, Go, Pushed
<1>4. CASE PushImages
  <2>1. /\ io' = [io EXCEPT !["loader"] = "notify"] /\ io["loader"] = "push"
        /\ buffer' = Append(buffer, currentFrame)
        /\ UNCHANGED <<failed, currentFrame, taken>>
    BY <1>4 DEF PushImages, Go
  <2>2. currentFrame \in 0..NumFrames - 1
    BY <2>1
  <2>3. buffer' \in Seq(0..NumFrames - 1) /\ Len(buffer') = Len(buffer) + 1
    BY <2>1, <2>2
  <2>4. Len(taken) + Len(buffer) = currentFrame
    BY <2>1 DEF Pushed
  <2>5. ASSUME NEW i \in 1..Len(buffer')
        PROVE  buffer'[i] = Len(taken') + i - 1
    <3>1. CASE i = Len(buffer) + 1
      BY <2>1, <2>2, <2>4, <3>1
    <3>2. CASE i \in 1..Len(buffer)
      BY <2>1, <2>2, <3>2
    <3> QED
      BY <2>3, <3>1, <3>2
  <2>6. LoaderTypeOK'
    BY <2>1, <2>3
  <2>7. io'["loader"] = "notify" /\ io'["main"] = io["main"]
    BY <2>1
  <2>8. Len(taken') + Len(buffer') = currentFrame' + 1
    <3>1. taken' = taken /\ currentFrame' = currentFrame
      BY <2>1
    <3>2. Len(taken) \in Nat /\ Len(buffer) \in Nat
      OBVIOUS
    <3> HIDE DEF LoaderInv
    <3> QED
      BY <2>3, <2>4, <3>1, <3>2
  <2>9. buffer' # <<>>
    BY <2>3
  <2> QED
    BY <2>1, <2>2, <2>5, <2>6, <2>7, <2>8, <2>9 DEF Pushed
<1>5. CASE TestFull
  BY <1>5 DEF TestFull, Go, Pushed
<1>6. CASE NextFrame
  BY <1>6 DEF NextFrame, Go, Pushed
<1>7. CASE TestFailed
  BY <1>7 DEF TestFailed, Go, Pushed
<1>8. CASE TestEmpty
  BY <1>8 DEF TestEmpty, Go, Pushed
<1>9. CASE PopImages
  <2>1. /\ io' = [io EXCEPT !["main"] = "notify"] /\ buffer # <<>>
        /\ taken' = Append(taken, Head(buffer)) /\ buffer' = Tail(buffer)
        /\ UNCHANGED <<failed, currentFrame>>
    BY <1>9 DEF PopImages, Go
  <2>2. /\ Len(buffer) \in Nat \ {0} /\ Head(buffer) = buffer[1]
        /\ buffer[1] \in 0..NumFrames - 1 /\ buffer[1] = Len(taken)
    <3>1. PICK b \in Seq(0..NumFrames - 1) : b = buffer
      OBVIOUS
    <3>2. Len(b) \in Nat \ {0} /\ Head(b) = b[1] /\ b[1] \in 0..NumFrames - 1
      BY <2>1, <3>1
    <3>3. buffer[1] = Len(taken) + 1 - 1 /\ Len(taken) \in Nat
      BY <3>1, <3>2
    <3> QED
      BY <3>1, <3>2, <3>3
  <2>3. /\ buffer' \in Seq(0..NumFrames - 1) /\ Len(buffer') = Len(buffer) - 1
        /\ \A i \in 1..Len(buffer') : buffer'[i] = buffer[i + 1]
    BY <2>1, <2>2
  <2>4. /\ taken' \in Seq(-1..NumFrames - 1) /\ Len(taken') = Len(taken) + 1
        /\ \A i \in 1..Len(taken) : taken'[i] = taken[i]
        /\ taken'[Len(taken) + 1] = Len(taken)
    <3>1. PICK s \in Seq(-1..NumFrames - 1), e \in 0..NumFrames - 1 : s = taken /\ e = buffer[1]
      BY <2>2
    <3>2. taken' = Append(s, e) /\ e \in -1..NumFrames - 1 /\ e = Len(s)
      BY <2>1, <2>2, <3>1
    <3> QED
      BY <3>1, <3>2
  <2>5. FramesInOrder'
    <3> SUFFICES ASSUME NEW i \in 1..Len(taken')
                 PROVE  taken'[i] = i - 1
      OBVIOUS
    <3>1. CASE i = Len(taken) + 1
      BY <2>4, <3>1
    <3>2. CASE i \in 1..Len(taken)
      BY <2>4, <3>2
    <3> QED
      BY <2>4, <3>1, <3>2
  <2>6. \A i \in 1..Len(buffer') : buffer'[i] = Len(taken') + i - 1
    <3> SUFFICES ASSUME NEW i \in 1..Len(buffer')
                 PROVE  buffer'[i] = Len(taken') + i - 1
      OBVIOUS
    <3>1. i + 1 \in 1..Len(buffer) /\ Len(taken) \in Nat
      BY <2>2, <2>3
    <3>2. buffer[i + 1] = Len(taken) + (i + 1) - 1
      BY <3>1
    <3> QED
      BY <2>3, <2>4, <3>1, <3>2
  <2>7. Len(taken') + Len(buffer') = Len(taken) + Len(buffer)
    BY <2>2, <2>3, <2>4
  <2>8. io'["loader"] = io["loader"] /\ io'["main"] = "notify"
    BY <2>1
  <2>9. LoaderTypeOK'
    BY <2>1, <2>3, <2>4
  <2> QED
    BY <2>1, <2>5, <2>6, <2>7, <2>8, <2>9
<1> QED
  BY <1>1, <1>2, <1>3, <1>4, <1>5, <1>6, <1>7, <1>8, <1>9 DEF Loader, GetNextImageSet

-----------------------------------------------------------------------------
(* The counts of the conditions *)

All == Workers \cup LoaderThreads

LEMMA ConditionsDiffer ==
  \A t \in LoaderThreads :
    /\ waitsFor(t) \in Conditions /\ notifies(t) \in Conditions
    /\ waitsFor(t) # "workAvailable" /\ notifies(t) # "workAvailable"
    /\ waitsFor(t) # notifies(t)
    /\ \A u \in LoaderThreads : u # t => waitsFor(u) = notifies(t)
BY DEF LoaderThreads, waitsFor, notifies

\* What main and the loader count while they wait and notify.
LoaderCounts ==
  /\ \A t \in LoaderThreads : nWaiting[waitsFor(t)] = IF io[t] \in Counted THEN 1 ELSE 0
  /\ \A t \in LoaderThreads : io[t] = "take" => nWakeupTickets[waitsFor(t)] > 0

LEMMA WaitCounts ==
  ASSUME CondTypeOK(All), LoaderTypeOK, LoaderCounts, NEW t \in LoaderThreads, WaitOrNotify(t)
  PROVE  /\ CondTypeOK(All)' /\ LoaderCounts'
         /\ nWaiting'["workAvailable"] = nWaiting["workAvailable"]
<1> USE DEF CondTypeOK, LoaderTypeOK, LoaderCounts, Counted, Go
<1>1. PICK c, d \in Conditions : c = waitsFor(t) /\ d = notifies(t)
  BY ConditionsDiffer
<1>2. /\ c # "workAvailable" /\ d # "workAvailable" /\ c # d
      /\ \A u \in LoaderThreads : waitsFor(u) = IF u = t THEN c ELSE d
  BY <1>1, ConditionsDiffer
<1>3. CASE StartWait(t)
  BY <1>1, <1>2, <1>3, SMTT(30) DEF StartWait, CountWaiting
<1>4. CASE LookForTicket(t)
  BY <1>1, <1>2, <1>4 DEF LookForTicket, condVars
<1>5. CASE Block(t)
  BY <1>1, <1>2, <1>5 DEF Block, Sleep, All
<1>6. CASE TakeTicket(t)
  BY <1>1, <1>2, <1>6 DEF TakeTicket, CountTickets
<1>7. CASE LeaveWait(t)
  BY <1>1, <1>2, <1>7 DEF LeaveWait, CountWaiting, AfterWait
<1>8. CASE ReadSlack(t)
  BY <1>1, <1>2, <1>8 DEF ReadSlack, condVars, AfterNotify
<1>9. CASE PutTicket(t)
  BY <1>1, <1>2, <1>9 DEF PutTicket, CountTickets
<1>10. CASE SendSignal(t)
  BY <1>1, <1>2, <1>10 DEF SendSignal, Signal, AfterNotify
<1> QED
  BY <1>3, <1>4, <1>5, <1>6, <1>7, <1>8, <1>9, <1>10 DEF WaitOrNotify

LEMMA LoaderCounted ==
  ASSUME CondTypeOK(All), LoaderTypeOK, LoaderCounts, Loader \/ GetNextImageSet
  PROVE  /\ CondTypeOK(All)' /\ LoaderCounts'
         /\ nWaiting'["workAvailable"] = nWaiting["workAvailable"]
<1>1. CASE \E t \in LoaderThreads : WaitOrNotify(t)
  BY <1>1, WaitCounts
<1>2. CASE ~ \E t \in LoaderThreads : WaitOrNotify(t)
  <2>1. UNCHANGED condVars
    BY <1>2 DEF Loader, GetNextImageSet, LoaderThreads, LoadSet, LoaderExits, PushImages, TestFull,
       NextFrame, TestFailed, TestEmpty, PopImages
  <2>2. \E t \in LoaderThreads, l \in {"push", "exited", "notify", "wait", "next", "test", "false", "size", "pop"} :
          io[t] \notin Counted /\ io' = [io EXCEPT ![t] = l]
    BY <1>2 DEF Loader, GetNextImageSet, LoaderThreads, LoadSet, LoaderExits, PushImages, TestFull,
       NextFrame, TestFailed, TestEmpty, PopImages, Counted, Go
  <2>3. LoaderCounts'
    BY <2>1, <2>2 DEF LoaderCounts, LoaderTypeOK, Counted, condVars, waitsFor
  <2> QED
    BY <2>1, <2>3 DEF CondTypeOK, condVars
<1> QED
  BY <1>1, <1>2

Waiters == {w \in Workers : at[w] = "wait"}

LEMMA WaitersFinite == IsFiniteSet(Waiters) /\ Cardinality(Waiters) \in Nat
BY FS_Subset, FS_CardinalityType DEF Waiters

\* The number of workers in Wait, when one comes or goes.
LEMMA AwaitCounts ==
  ASSUME CondTypeOK(All), GroupTypeOK, nWaiting["workAvailable"] = Cardinality(Waiters),
         NEW w \in Workers, RecvCmd(w) \/ Awake(w)
  PROVE  /\ CondTypeOK(All)' /\ nWaiting'["workAvailable"] = Cardinality(Waiters')
         /\ \A c \in Conditions \ {"workAvailable"} :
              nWaiting'[c] = nWaiting[c] /\ nWakeupTickets'[c] = nWakeupTickets[c]
<1> USE DEF CondTypeOK, GroupTypeOK, All
<1> DEFINE c == "workAvailable"
<1>1. c \in Conditions /\ nWaiting[c] \in Nat /\ nWakeupTickets[c] \in Nat
  OBVIOUS
<1>2. ASSUME NEW n \in Nat, NEW k \in Nat, AwaitWork(w, n, k),
             n = Cardinality(Waiters \ {w}) 
      PROVE  /\ CondTypeOK(All)' /\ nWaiting'[c] = Cardinality(Waiters')
             /\ \A d \in Conditions \ {c} :
                  nWaiting'[d] = nWaiting[d] /\ nWakeupTickets'[d] = nWakeupTickets[d]
  <2>1. CASE cmd # THREADS_IDLE
    <3>1. /\ at' = [at EXCEPT ![w] = IF cmd = THREADS_SHUTDOWN THEN "ack" ELSE "exec"]
          /\ nWaiting' = [nWaiting EXCEPT ![c] = n]
          /\ nWakeupTickets' = [nWakeupTickets EXCEPT ![c] = k]
          /\ UNCHANGED asleep
      BY <1>2, <2>1 DEF AwaitWork, Move
    <3>2. Waiters' = Waiters \ {w}
      BY <3>1 DEF Waiters
    <3> QED
      BY <1>1, <1>2, <3>1, <3>2
  <2>2. CASE cmd = THREADS_IDLE
    <3>1. /\ at' = [at EXCEPT ![w] = "wait"]
          /\ nWaiting' = [nWaiting EXCEPT ![c] = n + 1]
          /\ nWakeupTickets' = [nWakeupTickets EXCEPT ![c] = 0]
          /\ asleep' = [asleep EXCEPT ![c] = @ \cup {w}]
      BY <1>2, <2>2 DEF AwaitWork, Move, Sleep
    <3>2. Waiters' = (Waiters \ {w}) \cup {w} /\ w \notin Waiters \ {w}
      BY <3>1 DEF Waiters
    <3>3. IsFiniteSet(Waiters \ {w})
      BY WaitersFinite, FS_Subset
    <3>4. Cardinality(Waiters') = n + 1
      BY <1>2, <3>2, <3>3, FS_AddElement
    <3> QED
      BY <1>1, <1>2, <3>1, <3>4
  <2> QED
    BY <2>1, <2>2
<1>3. CASE RecvCmd(w)
  <2>1. Waiters \ {w} = Waiters
    BY <1>3 DEF RecvCmd, Waiters
  <2> QED
    BY <1>1, <1>2, <1>3, <2>1 DEF RecvCmd
<1>4. CASE Awake(w) /\ nWakeupTickets[c] = 0
  BY <1>4 DEF Awake, Sleep, groupVars, Waiters
<1>5. CASE Awake(w) /\ nWakeupTickets[c] # 0
  <2>1. w \in Waiters
    BY <1>5 DEF Awake, Waiters
  <2>2. Cardinality(Waiters \ {w}) = nWaiting[c] - 1
    BY <2>1, WaitersFinite, FS_RemoveElement
  <2>3. Cardinality(Waiters \ {w}) \in Nat
    BY WaitersFinite, FS_Subset, FS_CardinalityType
  <2>4. nWaiting[c] - 1 \in Nat /\ nWakeupTickets[c] - 1 \in Nat
    BY <1>1, <1>5, <2>2, <2>3
  <2>5. AwaitWork(w, nWaiting[c] - 1, nWakeupTickets[c] - 1)
    BY <1>5 DEF Awake
  <2> QED
    BY <1>2, <2>2, <2>4, <2>5
<1> QED
  BY <1>3, <1>4, <1>5

-----------------------------------------------------------------------------
(* The group of workers: types and ranks *)

LEMMA StartedFinite == IsFiniteSet(Started) /\ Cardinality(Started) \in 0..Cardinality(Workers)
<1>1. Started \subseteq Workers
  BY DEF Started
<1>2. IsFiniteSet(Started) /\ Cardinality(Started) <= Cardinality(Workers)
  BY <1>1, FS_Subset
<1> QED
  BY <1>2, FS_CardinalityType

LEMMA RanksGiven ==
  ASSUME GroupTypeOK, RankInv, NEW w \in Workers, DetermineRank(w)
  PROVE  GroupTypeOK' /\ RankInv'
<1> USE DEF GroupTypeOK
<1>1. /\ at[w] = "start" /\ at' = [at EXCEPT ![w] = "recv"]
      /\ rank' = [rank EXCEPT ![w] = counter] /\ counter' = counter + 1
      /\ UNCHANGED <<cmd, got, boss>>
  BY DEF DetermineRank, Move
<1>2. w \notin Started /\ Started' = Started \cup {w} /\ Started' \subseteq Workers
  BY <1>1 DEF Started
<1>3. Cardinality(Started') = Cardinality(Started) + 1
  BY <1>2, StartedFinite, FS_AddElement
<1>4. counter' = Cardinality(Started') /\ counter \in Nat
  BY <1>1, <1>3 DEF RankInv
<1>5. Cardinality(Started') <= Cardinality(Workers)
  BY <1>2, FS_Subset
<1>6. GroupTypeOK'
  BY <1>1, <1>4, <1>5
<1>7. \A v \in Started : rank[v] < counter /\ rank[v] \in Nat /\ rank'[v] = rank[v]
  BY <1>1, <1>2 DEF RankInv, Started
<1>8. rank'[w] = counter
  BY <1>1
<1>9. \A v \in Started' : rank'[v] < counter'
  BY <1>1, <1>2, <1>4, <1>7, <1>8
<1>10. \A u, v \in Started' : rank'[u] = rank'[v] => u = v
  BY <1>2, <1>4, <1>7, <1>8 DEF RankInv
<1>11. \E v \in Started' : rank'[v] = 0
  <2>1. CASE Started = {}
    BY <1>2, <1>8, <2>1, FS_EmptySet DEF RankInv
  <2>2. CASE Started # {}
    BY <1>2, <1>7, <2>2 DEF RankInv
  <2> QED
    BY <2>1, <2>2
<1> QED
  BY <1>4, <1>6, <1>9, <1>10, <1>11 DEF RankInv

\* The other steps, of worker w and of main, do not start a worker, and leave the ranks.
LEMMA RanksKept ==
  ASSUME GroupTypeOK, RankInv, UNCHANGED <<rank, counter>>,
         \A v \in Workers : at'[v] = "start" <=> at[v] = "start"
  PROVE  RankInv'
<1>1. Started' = Started
  BY DEF Started
<1> QED
  BY <1>1 DEF RankInv

LEMMA AwaitTypes ==
  ASSUME GroupTypeOK, NEW w \in Workers, RecvCmd(w) \/ Awake(w)
  PROVE  /\ GroupTypeOK' /\ UNCHANGED <<cmd, counter, rank, boss>>
         /\ \A v \in Workers : at'[v] = "start" <=> at[v] = "start"
BY DEF GroupTypeOK, RecvCmd, Awake, AwaitWork, Move, groupVars

LEMMA PassTypes ==
  ASSUME GroupTypeOK, PassPoolReady, UNCHANGED <<cmd, counter, rank, got>>
  PROVE  /\ GroupTypeOK'
         /\ \A v \in Workers : at'[v] # "start" /\ at'[v] # "wait"
BY DEF GroupTypeOK, PassPoolReady

LEMMA MeetingTypes ==
  ASSUME GroupTypeOK, NEW w \in Workers, WorkDone(w) \/ ResetCmd(w) \/ PoolReady(w) \/ Exec(w)
  PROVE  /\ GroupTypeOK' /\ UNCHANGED <<condVars, counter, rank, got>>
         /\ \A v \in Workers : at'[v] = "start" <=> at[v] = "start"
         /\ \A v \in Workers : at'[v] = "wait" <=> at[v] = "wait"
<1> USE DEF GroupTypeOK, Move
<1>1. CASE WorkDone(w)
  BY <1>1 DEF WorkDone
<1>2. CASE ResetCmd(w)
  BY <1>2 DEF ResetCmd, InternalCommands
<1>3. CASE PoolReady(w)
  <2>1. CASE PassPoolReady /\ \A v \in Workers \ {w} : at[v] = "poolReady"
    BY <1>3, <2>1 DEF PoolReady, PassPoolReady
  <2>2. CASE Move(w, "poolReady") /\ UNCHANGED boss
    BY <1>3, <2>2 DEF PoolReady
  <2> QED
    BY <1>3, <2>1, <2>2 DEF PoolReady
<1>4. CASE Exec(w)
  BY <1>4 DEF Exec, BeginExec, DrawTicket, Compute, Executed
<1> QED
  BY <1>1, <1>2, <1>3, <1>4

LEMMA BossTypes ==
  ASSUME GroupTypeOK, BossPoolReady
  PROVE  /\ GroupTypeOK' /\ UNCHANGED <<condVars, counter, rank, got, cmd>>
         /\ \A v \in Workers : at'[v] = "start" <=> at[v] = "start"
         /\ \A v \in Workers : at'[v] = "wait" <=> at[v] = "wait"
BY PassTypes DEF BossPoolReady, GroupTypeOK, PassPoolReady

LEMMA SendTypes ==
  ASSUME GroupTypeOK, CondTypeOK(All), NEW c \in InternalCommands, SendInternalCmd(c)
  PROVE  /\ GroupTypeOK' /\ CondTypeOK(All)' /\ UNCHANGED <<nWaiting, counter, rank, got, at>>
         /\ cmd' = c /\ boss = "free" /\ boss' = "sent"
         /\ \A d \in Conditions \ {"workAvailable"} : nWakeupTickets'[d] = nWakeupTickets[d]
BY DEF GroupTypeOK, CondTypeOK, SendInternalCmd, NotifyAll, condVars

-----------------------------------------------------------------------------
(* What main sends *)

MainTypes ==
  /\ frame \in 0..NumFrames /\ sent \in Nat /\ last \in InternalCommands
  /\ script \in Seq(InternalCommands)
  /\ main \in {"observe", "command", "await", "close", "join", "over"}

LEMMA ScriptKept ==
  ASSUME MainTypes, ScriptInv, GroupTypeOK, Main
  PROVE  MainTypes' /\ ScriptInv'
<1> USE NoCommand DEF MainTypes, ScriptInv
<1>0. \A s : s \in Seq(Commands) => s \in Seq(InternalCommands)
  BY DEF InternalCommands
<1>1. CASE Observed
  <2>1. PICK n, k \in Rounds :
          script' = IF frame > 0 /\ io["main"] = "false" THEN <<THREADS_SHUTDOWN>>
                    ELSE (IF io["main"] = "return" THEN CreateEdgeMaps ELSE <<>>)
                         \o (IF frame = 0 THEN Times(k, <<PARTICLEWEIGHTS>>) ELSE <<>>) \o Update(n)
    BY <1>1 DEF Observed
  <2> DEFINE e == IF io["main"] = "return" THEN CreateEdgeMaps ELSE <<>>
             r == IF frame = 0 THEN Times(k, <<PARTICLEWEIGHTS>>) ELSE <<>>
             u == Update(n)
  <2>2. e \in Seq(Commands) /\ r \in Seq(Commands) /\ u \in Seq(Commands)
    <3>1. CreateEdgeMaps \in Seq(Commands) /\ Times(k, <<PARTICLEWEIGHTS>>) \in Seq(Commands)
          /\ u \in Seq(Commands)
      BY ScriptTypes, Zenon
    <3>2. <<>> \in Seq(Commands)
      OBVIOUS
    <3> QED
      BY <3>1, <3>2, Zenon
  <2> HIDE DEF e, r, u
  <2>3. script' = <<THREADS_SHUTDOWN>> \/ script' \in Seq(Commands)
    <3>1. e \o r \o u \in Seq(Commands)
      BY <2>2
    <3> QED
      BY <2>1, <3>1, Zenon DEF e, r, u
  <2>4. script' \in Seq(InternalCommands)
    <3>1. <<THREADS_SHUTDOWN>> \in Seq(InternalCommands)
      BY DEF InternalCommands
    <3> QED
      BY <1>0, <2>3, <3>1, Zenon
  <2>5. /\ main = "observe" /\ main' = "command"
        /\ UNCHANGED <<boss, frame, sent, last>>
    BY <1>1 DEF Observed, groupVars
  <2> QED
    BY <2>3, <2>4, <2>5
<1>2. CASE Send
  <2>1. /\ main = "command" /\ script # <<>> /\ main' = "await" /\ script' = Tail(script)
        /\ last' = Head(script) /\ UNCHANGED frame
        /\ sent' = IF Head(script) \in Commands THEN sent + 1 ELSE sent
    BY <1>2 DEF Send
  <2>2. last' \in InternalCommands /\ script' \in Seq(InternalCommands) /\ sent' \in Nat
    BY <2>1
  <2>3. CASE script = <<THREADS_SHUTDOWN>>
    BY <2>1, <2>2, <2>3
  <2>4. CASE script \in Seq(Commands) /\ frame < NumFrames
    <3>1. last' \in Commands /\ script' \in Seq(Commands)
      BY <2>1, <2>4
    <3> QED
      BY <2>1, <2>2, <2>4, <3>1
  <2> QED
    BY <2>1, <2>3, <2>4
<1>3. CASE SendReturns
  <2>1. /\ main = "await" /\ boss = "free" /\ main' = IF last = THREADS_SHUTDOWN THEN "join" ELSE "command"
        /\ UNCHANGED <<boss, frame, script, sent, last>>
    BY <1>3 DEF SendReturns, groupVars
  <2> QED
    BY <2>1
<1>4. CASE NextFrameOrClose
  <2>1. /\ main = "command" /\ script = <<>> /\ frame' = frame + 1
        /\ main' = IF frame + 1 < NumFrames THEN "observe" ELSE "close"
        /\ UNCHANGED <<boss, script, sent, last>>
    BY <1>4 DEF NextFrameOrClose, groupVars
  <2>2. frame < NumFrames
    BY <2>1
  <2> QED
    BY <2>1, <2>2
<1>5. CASE Close
  <2>1. /\ main = "close" /\ main' = "command" /\ script' = <<THREADS_SHUTDOWN>>
        /\ UNCHANGED <<boss, frame, sent, last>>
    BY <1>5 DEF Close, groupVars
  <2> QED
    BY <2>1 DEF InternalCommands
<1>6. CASE JoinAll
  BY <1>6 DEF JoinAll, groupVars
<1>7. CASE BossPoolReady /\ UNCHANGED <<loaderVars, workVars, mainVars>>
  BY <1>7 DEF BossPoolReady, PassPoolReady, mainVars
<1>8. CASE main = "observe" /\ GetNextImageSet /\ UNCHANGED <<groupVars, workVars, mainVars>>
  BY <1>8 DEF groupVars, mainVars
<1> QED
  BY <1>1, <1>2, <1>3, <1>4, <1>5, <1>6, <1>7, <1>8 DEF Main

\* A worker never takes main on, but lets it go.
LEMMA ScriptUntouched ==
  ASSUME MainTypes, ScriptInv, UNCHANGED mainVars, boss' = boss \/ boss' = "free"
  PROVE  MainTypes' /\ ScriptInv'
BY DEF MainTypes, ScriptInv, mainVars

LEMMA WorkerFreesBoss ==
  ASSUME NEW w \in Workers, GroupStep(w) \/ Exec(w)
  PROVE  boss' = boss \/ boss' = "free"
BY DEF GroupStep, DetermineRank, RecvCmd, Awake, AwaitWork, groupVars, WorkDone, ResetCmd, PoolReady,
       PassPoolReady, Exec

-----------------------------------------------------------------------------
(* The stages of a command, and what has been drawn and computed in each *)

WorkTypes ==
  /\ tickets \in [Dispensers -> [init : Nat, inc : Nat, value : Nat]]
  /\ unit \in [Workers -> SUBSET Nat] /\ done \subseteq Nat

RoundInv == WorkTypes /\ StageInv /\ UnitInv /\ LoopInv

LEMMA OneStage ==
  /\ Gathering => ~Executing /\ ~Parting
  /\ Executing => ~Gathering /\ ~Parting
  /\ Parting => ~Gathering /\ ~Executing
  /\ Resting => ~Gathering /\ ~Executing /\ ~Parting
<1>1. PICK w \in Workers : TRUE
  OBVIOUS
<1> QED
  BY <1>1, NoCommand DEF Gathering, Executing, Parting, Resting, Idle

LEMMA OneStageNext ==
  /\ Gathering' => ~Executing' /\ ~Parting'
  /\ Executing' => ~Gathering' /\ ~Parting'
  /\ Parting' => ~Gathering' /\ ~Executing'
  /\ Resting' => ~Gathering' /\ ~Executing' /\ ~Parting'
BY OneStage, PTL

\* Worker 0 sets the dispenser to the start of the loop.
LEMMA ResetSets ==
  ASSUME WorkTypes, NEW c \in Commands, ResetTickets(c)
  PROVE  /\ tickets' \in [Dispensers -> [init : Nat, inc : Nat, value : Nat]]
         /\ Start(c)' = Start(c)
         /\ tickets'[dispenser(c)].inc = Unit[c] /\ tickets'[dispenser(c)].value = Start(c)
<1> DEFINE d == dispenser(c)
<1>1. d \in Dispensers
  BY DEF dispenser, Dispensers
<1>2. tickets[d].init \in Nat /\ Unit[c] \in Nat
  BY <1>1 DEF WorkTypes
<1>3. CASE c \in Filters
  <2>1. Start(c) \in Nat /\ Start(c)' = Start(c)
    BY <1>3 DEF Start, Filters, FILTERROW, FILTERCOLUMN
  <2>2. tickets' = [tickets EXCEPT ![d] = [init |-> Start(c), inc |-> Unit[c], value |-> Start(c)]]
    BY <1>3 DEF ResetTickets, resetDispenser
  <2> HIDE DEF d
  <2>3. tickets' \in [Dispensers -> [init : Nat, inc : Nat, value : Nat]]
    BY <1>1, <1>2, <2>1, <2>2 DEF WorkTypes
  <2>4. tickets'[d].inc = Unit[c] /\ tickets'[d].value = Start(c)
    BY <1>1, <2>2 DEF WorkTypes
  <2> QED
    BY <2>1, <2>3, <2>4 DEF d
<1>4. CASE c \notin Filters
  <2>1. Start(c) = tickets[d].init /\ Start(c)' = tickets'[d].init
    BY <1>4 DEF Start, Filters
  <2>2. tickets' = [tickets EXCEPT ![d].inc = Unit[c], ![d].value = tickets[d].init]
    BY <1>4 DEF ResetTickets, resetInc
  <2> HIDE DEF d
  <2>3. tickets' \in [Dispensers -> [init : Nat, inc : Nat, value : Nat]]
    BY <1>1, <1>2, <2>2 DEF WorkTypes
  <2>4. /\ tickets'[d].inc = Unit[c] /\ tickets'[d].value = tickets[d].init
        /\ tickets'[d].init = tickets[d].init
    BY <1>1, <1>2, <2>2 DEF WorkTypes
  <2> QED
    BY <2>1, <2>3, <2>4 DEF d
<1> QED
  BY <1>3, <1>4

\* A ticket moves the dispenser on by a unit.
LEMMA TicketMoves ==
  ASSUME WorkTypes, NEW c \in Commands, getTicket(dispenser(c))
  PROVE  /\ tickets' \in [Dispensers -> [init : Nat, inc : Nat, value : Nat]]
         /\ Start(c)' = Start(c)
         /\ tickets'[dispenser(c)].inc = tickets[dispenser(c)].inc
         /\ tickets'[dispenser(c)].value = tickets[dispenser(c)].value + tickets[dispenser(c)].inc
<1> DEFINE d == dispenser(c)
<1>1. d \in Dispensers
  BY DEF dispenser, Dispensers
<1>2. tickets' = [tickets EXCEPT ![d].value = @ + tickets[d].inc]
  BY DEF getTicket
<1>3. \/ Start(c)' = Start(c)
      \/ Start(c) = tickets[d].init /\ Start(c)' = tickets'[d].init
  BY DEF Start
<1> HIDE DEF d
<1>4. tickets[d].value + tickets[d].inc \in Nat
  BY <1>1 DEF WorkTypes
<1>5. tickets' \in [Dispensers -> [init : Nat, inc : Nat, value : Nat]]
  BY <1>1, <1>2, <1>4 DEF WorkTypes
<1>6. /\ tickets'[d].init = tickets[d].init /\ tickets'[d].inc = tickets[d].inc
      /\ tickets'[d].value = tickets[d].value + tickets[d].inc
  BY <1>1, <1>2 DEF WorkTypes
<1> QED
  BY <1>3, <1>5, <1>6 DEF d

\* The steps of the workers that leave the loop alone: ranks, and Wait.
LEMMA IdleStepsRound ==
  ASSUME RoundInv, ScriptInv, GroupTypeOK, NEW w \in Workers,
         DetermineRank(w) \/ RecvCmd(w) \/ Awake(w), UNCHANGED <<workVars, mainVars>>
  PROVE  RoundInv'
<1> USE NoCommand DEF GroupTypeOK
<1>1. Idle(w) /\ (Resting \/ Gathering)
  <2>1. Idle(w)
    BY DEF Idle, DetermineRank, RecvCmd, Awake
  <2> QED
    BY <2>1 DEF RoundInv, StageInv, Idle, Executing, Parting
<1>2. /\ UNCHANGED <<boss, cmd, tickets, unit, done, last>>
      /\ \A v \in Workers \ {w} : at'[v] = at[v] /\ got'[v] = got[v] /\ rank'[v] = rank[v]
  BY DEF DetermineRank, RecvCmd, Awake, AwaitWork, Move, groupVars, workVars, mainVars
<1>3. \/ at'[w] \in {"recv", "wait"}
      \/ cmd # THREADS_IDLE /\ got'[w] = cmd /\ at'[w] = IF cmd = THREADS_SHUTDOWN THEN "ack" ELSE "exec"
  BY DEF DetermineRank, RecvCmd, Awake, AwaitWork, Move, groupVars
<1>4. CASE Resting
  <2>1. Resting'
    BY <1>1, <1>2, <1>3, <1>4 DEF Resting, Idle
  <2>2. UnitInv'
    BY <1>1, <1>2, <1>3, <1>4 DEF RoundInv, UnitInv, Resting, Idle
  <2> QED
    BY <1>2, <2>1, <2>2, OneStageNext DEF RoundInv, WorkTypes, StageInv, LoopInv
<1>5. CASE Gathering
  <2>1. Gathering'
    BY <1>1, <1>2, <1>3, <1>5 DEF Gathering, Idle
  <2>2. UnitInv'
    BY <1>1, <1>2, <1>3 DEF RoundInv, UnitInv, Idle
  <2>3. (\E v \in Workers : at'[v] = "init" /\ rank'[v] = 0) =>
          \E v \in Workers : at[v] = "init" /\ rank[v] = 0
    BY <1>1, <1>2, <1>3
  <2>4. TicketsReset => TicketsReset'
    BY <1>2 DEF TicketsReset, Start
  <2>5. LoopInv'
    BY <1>2, <1>5, <2>1, <2>3, <2>4, OneStageNext DEF RoundInv, LoopInv
  <2> QED
    BY <1>2, <2>1, <2>2, <2>5 DEF RoundInv, WorkTypes, StageInv
<1> QED
  BY <1>1, <1>4, <1>5

\* Worker 0 resets the dispenser before all leave workInit.
LEMMA BeginRound ==
  ASSUME RoundInv, ScriptInv, RankInv, GroupTypeOK, NEW w \in Workers, BeginExec(w),
         UNCHANGED <<boss, cmd, rank, got, last>>
  PROVE  RoundInv'
<1> USE NoCommand DEF GroupTypeOK
<1>1. at[w] = "exec" /\ Gathering /\ last \in Commands /\ got[w] = last
  <2>1. at[w] = "exec" /\ Gathering /\ last # THREADS_SHUTDOWN /\ got[w] = last
    BY DEF BeginExec, RoundInv, StageInv, Resting, Gathering, Executing, Parting, Idle
  <2> QED
    BY <2>1 DEF ScriptInv, Gathering
<1>2. done = {} /\ done' = {} /\ UNCHANGED unit
  BY <1>1 DEF RoundInv, LoopInv, BeginExec
<1>3. /\ tickets' \in [Dispensers -> [init : Nat, inc : Nat, value : Nat]]
      /\ Start(last)' = Start(last)
      /\ rank[w] = 0 => TicketsReset'
      /\ rank[w] # 0 => TicketsReset' = TicketsReset
  <2>1. CASE rank[w] = 0
    BY <1>1, <2>1, ResetSets DEF BeginExec, TicketsReset, RoundInv
  <2>2. CASE rank[w] # 0
    BY <1>1, <2>2 DEF BeginExec, TicketsReset, RoundInv, WorkTypes, Start
  <2> QED
    BY <2>1, <2>2
<1>4. WorkTypes'
  BY <1>2, <1>3 DEF RoundInv, WorkTypes
<1>5. \A v \in Workers : unit[v] = {} /\ at[v] # "work" /\ at'[v] # "work"
  BY <1>1 DEF BeginExec, RoundInv, UnitInv, Gathering, Idle
<1>6. UnitInv'
  BY <1>2, <1>5 DEF RoundInv, UnitInv
<1>7. CASE \A v \in Workers \ {w} : at[v] = "init"
  <2>1. \A v \in Workers : at'[v] = "ticket"
    BY <1>7 DEF BeginExec
  <2>2. \A v \in Workers : got[v] = last
    BY <1>1, <1>7 DEF Gathering, Idle
  <2>3. Executing'
    BY <1>1, <2>1, <2>2 DEF Executing, Gathering
  <2>4. TicketsReset'
    <3>1. PICK v \in Workers : at[v] # "start" /\ rank[v] = 0
      BY <1>1 DEF RankInv, Started
    <3>2. CASE v = w
      BY <1>3, <3>1, <3>2
    <3>3. CASE v # w
      <4>1. at[v] = "init" /\ TicketsReset
        BY <1>1, <1>7, <3>1, <3>3 DEF RoundInv, LoopInv
      <4>2. CASE rank[w] = 0
        BY <1>3, <4>2
      <4>3. CASE rank[w] # 0
        BY <1>3, <4>1, <4>3
      <4> QED
        BY <4>2, <4>3
    <3> QED
      BY <3>2, <3>3
  <2>5. Drawn' = {} /\ UNION {unit'[v] : v \in Workers} = {}
    <3>1. \A v \in Workers : unit'[v] = {}
      BY <1>2, <1>5
    <3>2. tickets'[dispenser(last)].value = Start(last) /\ Start(last) \in Int
          /\ Limit(last) \in Int /\ last' = last
      BY <1>1, <1>3, <1>4, <2>4 DEF TicketsReset, WorkTypes, dispenser, Dispensers, Limit, FILTERROW,
         FILTERCOLUMN, GRADIENT
    <3>3. Drawn' = {i \in Start(last)..Limit(last) - 1 : i < Start(last)}
      BY <1>3, <3>2 DEF Drawn, Iterations, Limit, dispenser
    <3> QED
      BY <3>1, <3>2, <3>3
  <2>6. LoopInv'
    <3>1. Start(last)' <= tickets'[dispenser(last)].value /\ tickets'[dispenser(last)].inc = Unit[last]
      BY <1>1, <1>3, <1>4, <2>4 DEF TicketsReset, WorkTypes, dispenser, Dispensers
    <3>2. (done \cup UNION {unit[v] : v \in Workers})' = Drawn'
      BY <1>2, <2>5
    <3> QED
      BY <2>1, <2>3, <3>1, <3>2, OneStageNext DEF LoopInv, dispenser
  <2> QED
    BY <1>4, <1>6, <2>3, <2>6 DEF RoundInv, StageInv
<1>8. CASE ~ \A v \in Workers \ {w} : at[v] = "init"
  <2>1. at' = [at EXCEPT ![w] = "init"]
    BY <1>8 DEF BeginExec
  <2>2. Gathering'
    BY <1>1, <2>1 DEF Gathering, Idle
  <2>3. (\E v \in Workers : at'[v] = "init" /\ rank'[v] = 0) => TicketsReset'
    <3> SUFFICES ASSUME NEW v \in Workers, at'[v] = "init", rank'[v] = 0
                 PROVE  TicketsReset'
      OBVIOUS
    <3>1. CASE rank[w] = 0
      BY <1>3, <3>1
    <3>2. CASE rank[w] # 0
      BY <1>1, <1>3, <2>1, <3>2 DEF RoundInv, LoopInv
    <3> QED
      BY <3>1, <3>2
  <2>4. LoopInv'
    BY <1>2, <2>2, <2>3, OneStageNext DEF LoopInv
  <2> QED
    BY <1>4, <1>6, <2>2, <2>4 DEF RoundInv, StageInv
<1> QED
  BY <1>7, <1>8

\* A worker draws a unit that nobody has drawn, or learns that all of the loop is drawn.
LEMMA DrawRound ==
  ASSUME RoundInv, ScriptInv, GroupTypeOK, NEW w \in Workers, DrawTicket(w),
         UNCHANGED <<boss, cmd, got, last>>
  PROVE  RoundInv'
<1> USE NoCommand DEF GroupTypeOK
<1>1. at[w] = "ticket" /\ Executing /\ last \in Commands /\ got[w] = last
  BY DEF DrawTicket, RoundInv, StageInv, Resting, Gathering, Executing, Parting, Idle
<1> DEFINE d == dispenser(last)
           t == tickets[d].value
           new == {i \in t..(t + Unit[last] - 1) : i < Limit(last)}
<1>2. d \in Dispensers /\ Start(last) \in Nat /\ Limit(last) \in Int /\ Unit[last] \in Nat \ {0}
  <2>1. d \in Dispensers
    BY DEF dispenser, Dispensers
  <2>2. Start(last) \in Nat
    BY <1>1, <2>1 DEF Start, FILTERROW, FILTERCOLUMN, RoundInv, WorkTypes
  <2> QED
    BY <1>1, <2>1, <2>2 DEF Limit, FILTERROW, FILTERCOLUMN, GRADIENT
<1>3. t \in Nat /\ tickets[d].inc = Unit[last] /\ Start(last) <= t
  BY <1>1, <1>2 DEF RoundInv, LoopInv, WorkTypes
<1>4. /\ tickets' \in [Dispensers -> [init : Nat, inc : Nat, value : Nat]]
      /\ Start(last)' = Start(last) /\ tickets'[d].inc = Unit[last]
      /\ tickets'[d].value = t + Unit[last]
  BY <1>1, <1>3, TicketMoves DEF DrawTicket, RoundInv
<1>5. UNCHANGED done /\ d' = d /\ Limit(last)' = Limit(last)
  BY <1>1 DEF DrawTicket, dispenser, Limit
<1> HIDE DEF d
<1>6. Drawn = {i \in Start(last)..Limit(last) - 1 : i < t}
      /\ Drawn' = {i \in Start(last)..Limit(last) - 1 : i < t + Unit[last]}
  BY <1>4, <1>5 DEF Drawn, Iterations, d
<1>7. unit[w] = {} /\ done \cup UNION {unit[v] : v \in Workers} = Drawn
  BY <1>1 DEF RoundInv, UnitInv, LoopInv
<1>8. CASE t < Limit(last)
  <2>1. unit' = [unit EXCEPT ![w] = new] /\ at' = [at EXCEPT ![w] = "work"]
    BY <1>1, <1>8 DEF DrawTicket, Move, d
  <2>2. new \subseteq Nat /\ new # {} /\ IsFiniteSet(new)
    <3>1. t \in new /\ new \subseteq t..(t + Unit[last] - 1)
      BY <1>2, <1>3, <1>8
    <3>2. t \in Int /\ t + Unit[last] - 1 \in Int
      BY <1>2, <1>3
    <3>3. IsFiniteSet(t..(t + Unit[last] - 1))
      BY <3>2, FS_Interval
    <3> HIDE DEF new, t
    <3>4. IsFiniteSet(new)
      BY <3>1, <3>3, FS_Subset
    <3>5. new \subseteq Nat
      BY <1>2, <1>3, <3>1
    <3> QED
      BY <3>1, <3>4, <3>5
  <2>3. Drawn' = Drawn \cup new /\ Drawn \cap new = {}
    BY <1>2, <1>3, <1>6
  <2> HIDE DEF new
  <2>4. /\ \A v \in Workers : unit'[v] = IF v = w THEN new ELSE unit[v]
        /\ \A v \in Workers : at'[v] = IF v = w THEN "work" ELSE at[v]
        /\ unit' \in [Workers -> SUBSET Nat]
    BY <2>1, <2>2 DEF RoundInv, WorkTypes
  <2>5. \A v \in Workers : unit[v] \subseteq Drawn
    BY <1>7
  <2>6. done \subseteq Drawn
    BY <1>7
  <2>7. UnitInv'
    <3>1. \A v \in Workers : IsFiniteSet(unit'[v]) /\ (unit'[v] # {} <=> at'[v] = "work")
      BY <2>2, <2>4 DEF RoundInv, UnitInv
    <3>2. ASSUME NEW v \in Workers
          PROVE  unit'[v] \cap done = {}
      <4>1. unit[v] \cap done = {} /\ new \cap done = {}
        BY <2>3, <2>6 DEF RoundInv, UnitInv
      <4> QED
        BY <2>4, <4>1
    <3>3. ASSUME NEW u \in Workers, NEW v \in Workers, u # v
          PROVE  unit'[u] \cap unit'[v] = {}
      <4>1. unit[u] \cap unit[v] = {}
        BY <3>3 DEF RoundInv, UnitInv
      <4>2. unit[u] \cap new = {} /\ unit[v] \cap new = {}
        BY <2>3, <2>5
      <4> QED
        BY <2>4, <3>3, <4>1, <4>2
    <3> QED
      BY <1>5, <3>1, <3>2, <3>3 DEF UnitInv
  <2>8. done \cup UNION {unit'[v] : v \in Workers} = Drawn'
    <3>1. UNION {unit'[v] : v \in Workers} = new \cup UNION {unit[v] : v \in Workers}
      <4>1. ASSUME NEW i
            PROVE  (\E v \in Workers : i \in unit'[v]) <=> i \in new \/ \E v \in Workers : i \in unit[v]
        BY <1>7, <2>4
      <4> QED
        BY <4>1
    <3> QED
      BY <1>7, <2>3, <3>1
  <2>9. Executing'
    BY <1>1, <2>4 DEF Executing
  <2>10. (\E v \in Workers : at'[v] \in {"ack", "workDone"}) => Limit(last) <= t
    BY <1>1, <2>4 DEF RoundInv, LoopInv, d
  <2>11. LoopInv'
    BY <1>2, <1>3, <1>4, <1>5, <2>8, <2>9, <2>10, OneStageNext DEF LoopInv, d
  <2> QED
    BY <1>4, <1>5, <2>4, <2>7, <2>9, <2>11 DEF RoundInv, WorkTypes, StageInv
<1>9. CASE ~(t < Limit(last))
  <2>1. UNCHANGED unit /\ at' = [at EXCEPT ![w] = "ack"]
    BY <1>1, <1>9 DEF DrawTicket, Executed, Move, d
  <2>2. Drawn' = Drawn
    BY <1>2, <1>3, <1>6, <1>9
  <2>3. UnitInv'
    BY <1>1, <1>5, <2>1 DEF RoundInv, UnitInv
  <2>4. Executing'
    BY <1>1, <2>1 DEF Executing
  <2>5. LoopInv'
    BY <1>2, <1>3, <1>4, <1>5, <1>7, <1>9, <2>1, <2>2, <2>4, OneStageNext DEF LoopInv, d
  <2> QED
    BY <1>4, <1>5, <2>1, <2>3, <2>4, <2>5 DEF RoundInv, WorkTypes, StageInv
<1> QED
  BY <1>8, <1>9

\* A worker computes an iteration of its unit.
LEMMA ComputeRound ==
  ASSUME RoundInv, ScriptInv, GroupTypeOK, NEW w \in Workers, Compute(w),
         UNCHANGED <<boss, cmd, got, last>>
  PROVE  /\ RoundInv' /\ Executing /\ Executing'
         /\ \E i \in unit[w] : i \notin done /\ done' = done \cup {i}
<1> USE NoCommand DEF GroupTypeOK
<1>1. at[w] = "work" /\ Executing /\ last \in Commands
  BY DEF Compute, RoundInv, StageInv, Resting, Gathering, Executing, Parting, Idle
<1>2. unit[w] # {} /\ unit[w] \subseteq Nat /\ IsFiniteSet(unit[w])
  BY <1>1 DEF RoundInv, WorkTypes, UnitInv
<1>3. PICK i \in unit[w] : i = Min(unit[w])
  BY <1>2, MinIn
<1>4. /\ done' = done \cup {i} /\ unit' = [unit EXCEPT ![w] = @ \ {i}]
      /\ at' = [at EXCEPT ![w] = IF Cardinality(unit[w]) = 1 THEN "ticket" ELSE "work"]
      /\ UNCHANGED tickets
  BY <1>3 DEF Compute, Move
<1>5. IsFiniteSet(unit[w] \ {i}) /\ (unit[w] \ {i} # {} <=> Cardinality(unit[w]) # 1)
  <2>1. IsFiniteSet(unit[w] \ {i}) /\ Cardinality(unit[w] \ {i}) = Cardinality(unit[w]) - 1
        /\ Cardinality(unit[w]) \in Nat
    BY <1>2, FS_RemoveElement, FS_CardinalityType
  <2> QED
    BY <2>1, FS_EmptySet
<1>6. /\ \A v \in Workers : unit'[v] = IF v = w THEN unit[w] \ {i} ELSE unit[v]
      /\ \A v \in Workers \ {w} : at'[v] = at[v]
      /\ at'[w] = IF unit[w] \ {i} # {} THEN "work" ELSE "ticket"
      /\ unit' \in [Workers -> SUBSET Nat] /\ done' \subseteq Nat
  BY <1>2, <1>4, <1>5 DEF RoundInv, WorkTypes
<1>7. i \notin done /\ \A v \in Workers \ {w} : i \notin unit[v]
  BY DEF RoundInv, UnitInv
<1>8. UnitInv'
  <2>1. \A v \in Workers : IsFiniteSet(unit'[v]) /\ (unit'[v] # {} <=> at'[v] = "work")
    BY <1>5, <1>6 DEF RoundInv, UnitInv
  <2>2. \A v \in Workers : unit'[v] \cap done' = {}
    BY <1>4, <1>6, <1>7 DEF RoundInv, UnitInv
  <2>3. \A u, v \in Workers : u # v => unit'[u] \cap unit'[v] = {}
    BY <1>6 DEF RoundInv, UnitInv
  <2> QED
    BY <2>1, <2>2, <2>3 DEF UnitInv
<1>9. done' \cup UNION {unit'[v] : v \in Workers} = Drawn'
  <2>1. Drawn' = Drawn /\ done \cup UNION {unit[v] : v \in Workers} = Drawn
    BY <1>1, <1>4 DEF RoundInv, LoopInv, Drawn, Iterations, Start, Limit
  <2>2. ASSUME NEW j
        PROVE  j \in done' \/ (\E v \in Workers : j \in unit'[v])
                 <=> j \in done \/ \E v \in Workers : j \in unit[v]
    BY <1>4, <1>6
  <2> QED
    BY <2>1, <2>2
<1>10. Executing'
  BY <1>1, <1>6 DEF Executing
<1>11. LoopInv'
  BY <1>1, <1>4, <1>6, <1>9, <1>10, OneStageNext DEF RoundInv, LoopInv, Start, Limit
<1> QED
  BY <1>1, <1>4, <1>6, <1>7, <1>8, <1>10, <1>11 DEF RoundInv, WorkTypes, StageInv

\* The last worker at workDoneBarrier lets all pass: all of the loop has been computed.
LEMMA DoneRound ==
  ASSUME RoundInv, ScriptInv, GroupTypeOK, NEW w \in Workers, WorkDone(w),
         UNCHANGED <<workVars, mainVars>>
  PROVE  RoundInv'
<1> USE NoCommand DEF GroupTypeOK
<1>1. /\ at[w] = "ack" /\ UNCHANGED <<boss, cmd, got, last, tickets, unit, done>>
      /\ (Gathering /\ last = THREADS_SHUTDOWN) \/ Executing
  BY DEF WorkDone, workVars, mainVars, RoundInv, StageInv, Resting, Gathering, Executing, Parting, Idle
<1>2. Drawn' = Drawn /\ Start(last)' = Start(last) /\ Limit(last)' = Limit(last)
      /\ dispenser(last)' = dispenser(last)
  BY <1>1 DEF Drawn, Iterations, Start, Limit, dispenser
<1>3. CASE \A v \in Workers \ {w} : at[v] = "workDone"
  <2>1. PICK master \in Workers :
          at' = [v \in Workers |-> IF v = master THEN "reset" ELSE "done"]
    BY <1>3 DEF WorkDone
  <2>2. \A v \in Workers : got[v] = last
    BY <1>1, <1>3 DEF Gathering, Executing, Idle
  <2>3. Parting'
    <3>1. cmd = last /\ boss # "free" /\ \E v \in Workers : at'[v] = "reset"
      BY <1>1, <2>1 DEF Gathering, Executing
    <3> QED
      BY <1>1, <2>1, <2>2, <3>1 DEF Parting
  <2>4. \A v \in Workers : unit[v] = {}
    BY <1>1, <1>3 DEF RoundInv, UnitInv
  <2>5. UnitInv'
    BY <1>1, <2>1, <2>4 DEF RoundInv, UnitInv
  <2>6. last \in Commands => Iterations(last)' \subseteq done
    <3> SUFFICES ASSUME last \in Commands
                 PROVE  Iterations(last) \subseteq done
      BY <1>2 DEF Iterations
    <3>1. Executing /\ done = Drawn /\ Limit(last) <= tickets[dispenser(last)].value
      <4>1. Executing
        BY <1>1
      <4>2. /\ done \cup UNION {unit[v] : v \in Workers} = Drawn
            /\ (\E v \in Workers : at[v] \in {"ack", "workDone"}) =>
                 Limit(last) <= tickets[dispenser(last)].value
        BY <4>1 DEF RoundInv, LoopInv
      <4>3. UNION {unit[v] : v \in Workers} = {}
        BY <2>4
      <4> QED
        BY <1>1, <4>1, <4>2, <4>3
    <3>2. Limit(last) \in Int /\ Start(last) \in Nat /\ tickets[dispenser(last)].value \in Nat
      BY DEF Limit, Start, dispenser, Dispensers, FILTERROW, FILTERCOLUMN, GRADIENT, RoundInv, WorkTypes
    <3> QED
      BY <3>1, <3>2 DEF Drawn, Iterations
  <2>7. LoopInv'
    BY <1>1, <2>3, <2>6, OneStageNext DEF LoopInv
  <2> QED
    BY <1>1, <2>3, <2>5, <2>7 DEF RoundInv, WorkTypes, StageInv
<1>4. CASE ~ \A v \in Workers \ {w} : at[v] = "workDone"
  <2>1. at' = [at EXCEPT ![w] = "workDone"]
    BY <1>4 DEF WorkDone, Move
  <2>2. UnitInv'
    BY <1>1, <2>1 DEF RoundInv, UnitInv
  <2>3. CASE Executing
    <3>1. Executing'
      BY <1>1, <2>1, <2>3 DEF Executing
    <3>2. LoopInv'
      BY <1>1, <1>2, <2>1, <2>3, <3>1, OneStageNext DEF RoundInv, LoopInv
    <3> QED
      BY <1>1, <2>2, <3>1, <3>2 DEF RoundInv, WorkTypes, StageInv
  <2>4. CASE Gathering /\ last = THREADS_SHUTDOWN
    <3>1. Gathering'
      BY <1>1, <2>1, <2>4 DEF Gathering, Idle
    <3>2. LoopInv'
      BY <1>1, <2>4, <3>1, OneStageNext DEF LoopInv
    <3> QED
      BY <1>1, <2>2, <3>1, <3>2 DEF RoundInv, WorkTypes, StageInv
  <2> QED
    BY <1>1, <2>3, <2>4
<1> QED
  BY <1>3, <1>4

\* Between the barriers: the command is reset before any worker can look for the next.
LEMMA PartRound ==
  ASSUME RoundInv, ScriptInv, GroupTypeOK, UNCHANGED <<workVars, mainVars>>,
         (\E w \in Workers : ResetCmd(w) \/ PoolReady(w)) \/ BossPoolReady
  PROVE  RoundInv'
<1> USE NoCommand DEF GroupTypeOK
<1>1. UNCHANGED <<got, last, tickets, unit, done, rank>>
  BY DEF ResetCmd, PoolReady, BossPoolReady, workVars, mainVars
<1>2. CASE \E w \in Workers : ResetCmd(w)
  <2>1. PICK w \in Workers : ResetCmd(w)
    BY <1>2
  <2>2. at[w] = "reset" /\ at' = [at EXCEPT ![w] = "done"] /\ cmd' = THREADS_IDLE /\ UNCHANGED boss
    BY <2>1 DEF ResetCmd, Move
  <2>3. Parting
    BY <2>2 DEF RoundInv, StageInv, Resting, Gathering, Executing, Idle
  <2>4. Parting'
    BY <1>1, <2>2, <2>3 DEF Parting
  <2>5. UnitInv'
    BY <1>1, <2>2 DEF RoundInv, UnitInv
  <2>6. LoopInv'
    BY <1>1, <2>3, <2>4, OneStageNext DEF RoundInv, LoopInv, Iterations, Start, Limit
  <2> QED
    BY <1>1, <2>4, <2>5, <2>6 DEF RoundInv, WorkTypes, StageInv
<1>3. CASE PassPoolReady /\ boss # "free" /\ \A v \in Workers : at[v] \in {"done", "poolReady"} /\ UNCHANGED cmd
  <2>1. Parting
    BY <1>3, OneStage DEF RoundInv, StageInv, Resting, Gathering, Executing, Idle
  <2>2. /\ \A v \in Workers : at'[v] = IF got[v] = THREADS_SHUTDOWN THEN "exited" ELSE "recv"
        /\ boss' = "free" /\ cmd' = THREADS_IDLE
    BY <1>3, <2>1 DEF PassPoolReady, Parting
  <2>3. Resting'
    BY <1>1, <2>1, <2>2 DEF Resting, Parting, Idle
  <2>4. UnitInv'
    BY <1>1, <2>1, <2>2 DEF RoundInv, UnitInv, Parting
  <2> QED
    BY <1>1, <2>3, <2>4, OneStageNext DEF RoundInv, WorkTypes, StageInv, LoopInv
<1>4. CASE /\ UNCHANGED cmd /\ (boss' = boss \/ (boss = "sent" /\ boss' = "poolReady"))
           /\ \/ UNCHANGED at
              \/ \E w \in Workers : at[w] = "done" /\ at' = [at EXCEPT ![w] = "poolReady"]
  <2>1. boss # "free" <=> boss' # "free"
    BY <1>4
  <2>2. (Resting => Resting') /\ (Gathering => Gathering') /\ (Executing => Executing')
        /\ (Parting => Parting')
    BY <1>1, <1>4, <2>1 DEF Resting, Gathering, Executing, Parting, Idle
  <2>3. UnitInv'
    BY <1>1, <1>4 DEF RoundInv, UnitInv
  <2>4. StageInv'
    BY <2>2 DEF RoundInv, StageInv
  <2>5. /\ (\E v \in Workers : at'[v] = "init" /\ rank'[v] = 0) =>
             \E v \in Workers : at[v] = "init" /\ rank[v] = 0
        /\ (\E v \in Workers : at'[v] \in {"ack", "workDone"}) =>
             \E v \in Workers : at[v] \in {"ack", "workDone"}
    BY <1>1, <1>4
  <2>6. (Gathering' => Gathering) /\ (Executing' => Executing) /\ (Parting' => Parting)
    BY <2>2, OneStageNext DEF RoundInv, StageInv
  <2>7. LoopInv'
    BY <1>1, <2>5, <2>6 DEF RoundInv, LoopInv, TicketsReset, Drawn, Iterations, Start, Limit
  <2> QED
    BY <1>1, <2>3, <2>4, <2>7 DEF RoundInv, WorkTypes
<1>5. CASE \E w \in Workers : PoolReady(w)
  <2>1. PICK w \in Workers : PoolReady(w)
    BY <1>5
  <2>2. at[w] = "done" /\ UNCHANGED cmd
    BY <2>1 DEF PoolReady
  <2>3. CASE boss = "poolReady" /\ \A v \in Workers \ {w} : at[v] = "poolReady"
    <3>1. PassPoolReady
      BY <2>1, <2>3 DEF PoolReady
    <3> QED
      BY <1>3, <2>2, <2>3, <3>1
  <2>4. CASE ~(boss = "poolReady" /\ \A v \in Workers \ {w} : at[v] = "poolReady")
    <3>1. at' = [at EXCEPT ![w] = "poolReady"] /\ UNCHANGED boss
      BY <2>1, <2>4 DEF PoolReady, Move
    <3>2. \/ UNCHANGED at
          \/ \E v \in Workers : at[v] = "done" /\ at' = [at EXCEPT ![v] = "poolReady"]
      BY <2>2, <3>1
    <3>3. UNCHANGED cmd /\ (boss' = boss \/ (boss = "sent" /\ boss' = "poolReady"))
      BY <2>2, <3>1
    <3> QED
      BY ONLY <1>4, <3>2, <3>3
  <2> QED
    BY <2>3, <2>4
<1>6. CASE BossPoolReady
  BY <1>3, <1>4, <1>6 DEF BossPoolReady
<1> QED
  BY <1>2, <1>5, <1>6

\* A command finds all workers at rest, and nothing computed of its own loop.
LEMMA SendRound ==
  ASSUME RoundInv, MainTypes, ScriptInv, GroupTypeOK, Send
  PROVE  RoundInv' /\ Resting /\ Gathering'
<1> USE NoCommand DEF GroupTypeOK
<1>1. /\ main = "command" /\ boss = "free" /\ cmd' = last' /\ boss' = "sent" /\ done' = {}
      /\ UNCHANGED <<rank, got, at, tickets, unit>>
  BY DEF Send, SendInternalCmd
<1>2. Resting /\ last # THREADS_SHUTDOWN
  BY <1>1 DEF RoundInv, StageInv, Gathering, Executing, Parting, ScriptInv
<1>3. Gathering'
  BY <1>1, <1>2 DEF Resting, Gathering, Idle
<1>4. UnitInv'
  BY <1>1 DEF RoundInv, UnitInv
<1>5. \A w \in Workers : at'[w] # "init"
  BY <1>1, <1>2 DEF Resting, Idle
<1>6. LoopInv'
  BY <1>1, <1>3, <1>5, OneStageNext DEF LoopInv
<1> QED
  BY <1>1, <1>2, <1>3, <1>4, <1>6 DEF RoundInv, WorkTypes, StageInv

LEMMA RoundUntouched ==
  ASSUME RoundInv, UNCHANGED <<groupVars, workVars, last>>
  PROVE  RoundInv'
<1>1. UNCHANGED <<cmd, counter, rank, got, at, boss, tickets, unit, done, last>>
  BY DEF groupVars, workVars
<1>2. WorkTypes' /\ StageInv' /\ UnitInv'
  BY <1>1 DEF RoundInv, WorkTypes, StageInv, UnitInv, Resting, Gathering, Executing, Parting, Idle
<1>3. (Gathering' => Gathering) /\ (Executing' => Executing) /\ (Parting' => Parting)
  BY <1>1 DEF Gathering, Executing, Parting, Idle
<1>4. LoopInv'
  BY <1>1, <1>3 DEF RoundInv, LoopInv, TicketsReset, Drawn, Iterations, Start, Limit
<1> QED
  BY <1>2, <1>4 DEF RoundInv

-----------------------------------------------------------------------------
(* The inductive invariant *)

Counts == nWaiting["workAvailable"] = Cardinality(Waiters) /\ LoaderCounts

\* The invariant, in the parts the lemmas are about.
LEMMA Parts ==
  IInv <=> /\ CondTypeOK(All) /\ Counts
           /\ GroupTypeOK /\ RankInv
           /\ LoaderInv
           /\ MainTypes /\ ScriptInv /\ CallInv
           /\ RoundInv
BY DEF IInv, TypeOK, All, Counts, LoaderCounts, CountInv, Waiters, LoaderInv, MainTypes, RoundInv, WorkTypes

LEMMA PartsNext ==
  IInv' <=> /\ CondTypeOK(All)' /\ Counts'
            /\ GroupTypeOK' /\ RankInv'
            /\ LoaderInv'
            /\ MainTypes' /\ ScriptInv' /\ CallInv'
            /\ RoundInv'
BY Parts, PTL

LEMMA IInvInit == Init => IInv
<1> SUFFICES ASSUME Init
             PROVE  IInv
  OBVIOUS
<1> USE DEF Init, CondInit, GroupInit, LoaderInit
<1>1. CondTypeOK(All) /\ GroupTypeOK
  <2>1. 0 \in 0..Cardinality(Workers)
    BY FS_CardinalityType
  <2> QED
    BY <2>1 DEF CondTypeOK, GroupTypeOK, InternalCommands
<1>2. Counts
  <2>1. Waiters = {}
    BY DEF Waiters
  <2> QED
    BY <2>1, FS_EmptySet DEF Counts, LoaderCounts, LoaderThreads, Counted, waitsFor
<1>3. RankInv
  <2>1. Started = {}
    BY DEF Started
  <2> QED
    BY <2>1, FS_EmptySet DEF RankInv
<1>4. LoaderInv
  <2>1. Len(taken) = 0 /\ Len(buffer) = 0
    OBVIOUS
  <2>2. LoaderTypeOK
    <3>1. <<>> \in Seq(0..NumFrames - 1) /\ <<>> \in Seq(-1..NumFrames - 1) /\ 0 \in 0..NumFrames
      OBVIOUS
    <3> QED
      BY <3>1 DEF LoaderTypeOK
  <2>3. io["loader"] = "test" /\ io["main"] = "call"
    BY DEF LoaderThreads
  <2>4. BufferInv
    BY <2>1, <2>3 DEF BufferInv, FramesInOrder, Pushed
  <2> QED
    BY <2>2, <2>4 DEF LoaderInv
<1>5. MainTypes /\ ScriptInv /\ CallInv
  BY NoCommand DEF MainTypes, ScriptInv, CallInv, InternalCommands
<1>6. WorkTypes
  BY DEF WorkTypes
<1>7. Resting
  BY NoCommand DEF Resting, Idle
<1>8. UnitInv
  BY FS_EmptySet DEF UnitInv
<1>9. LoopInv
  BY <1>7, OneStage DEF LoopInv
<1> QED
  BY <1>1, <1>2, <1>3, <1>4, <1>5, <1>6, <1>7, <1>8, <1>9, Parts DEF RoundInv, StageInv

LEMMA CountsKept ==
  ASSUME CondTypeOK(All), Counts, UNCHANGED <<nWaiting, io>>,
         \A c \in Conditions : c # "workAvailable" => nWakeupTickets'[c] = nWakeupTickets[c],
         \A v \in Workers : at'[v] = "wait" <=> at[v] = "wait"
  PROVE  Counts'
<1>1. Waiters' = Waiters
  BY DEF Waiters
<1>2. LoaderCounts'
  BY ConditionsDiffer DEF Counts, LoaderCounts
<1> QED
  BY <1>1, <1>2 DEF Counts

LEMMA WorkerKeeps ==
  ASSUME IInv, NEW w \in Workers, WorkerStep(w)
  PROVE  IInv'
<1> USE Parts
<1>1. UNCHANGED <<loaderVars, mainVars>>
  BY DEF WorkerStep
<1>2. UNCHANGED io /\ LoaderInv'
  BY <1>1 DEF loaderVars, LoaderInv, LoaderTypeOK, BufferInv, FramesInOrder
<1>3. MainTypes' /\ ScriptInv' /\ CallInv'
  BY <1>1, <1>2, ScriptUntouched, WorkerFreesBoss DEF WorkerStep, CallInv, mainVars
<1>4. CASE DetermineRank(w) /\ UNCHANGED workVars
  <2>1. GroupTypeOK' /\ RankInv'
    BY <1>4, RanksGiven
  <2>2. CondTypeOK(All)' /\ UNCHANGED <<nWaiting, nWakeupTickets>>
    BY <1>4 DEF DetermineRank, condVars, CondTypeOK
  <2>3. \A v \in Workers : at'[v] = "wait" <=> at[v] = "wait"
    BY <1>4 DEF DetermineRank, Move, GroupTypeOK
  <2>4. Counts'
    BY <1>2, <2>2, <2>3, CountsKept
  <2>5. RoundInv'
    BY <1>1, <1>4, IdleStepsRound
  <2> QED
    BY <1>2, <1>3, <2>1, <2>2, <2>4, <2>5, PartsNext
<1>5. CASE (RecvCmd(w) \/ Awake(w)) /\ UNCHANGED workVars
  <2>1. GroupTypeOK' /\ RankInv'
    BY <1>5, AwaitTypes, RanksKept
  <2>2. /\ CondTypeOK(All)' /\ nWaiting'["workAvailable"] = Cardinality(Waiters')
        /\ \A c \in Conditions \ {"workAvailable"} :
             nWaiting'[c] = nWaiting[c] /\ nWakeupTickets'[c] = nWakeupTickets[c]
    BY <1>5, AwaitCounts DEF Counts
  <2>3. Counts'
    BY <1>2, <2>2, ConditionsDiffer DEF Counts, LoaderCounts
  <2>4. RoundInv'
    BY <1>1, <1>5, IdleStepsRound
  <2> QED
    BY <1>2, <1>3, <2>1, <2>2, <2>3, <2>4, PartsNext
<1>6. CASE (WorkDone(w) \/ ResetCmd(w) \/ PoolReady(w)) /\ UNCHANGED workVars
  <2>1. /\ GroupTypeOK' /\ UNCHANGED <<condVars, counter, rank, got>>
        /\ \A v \in Workers : at'[v] = "start" <=> at[v] = "start"
        /\ \A v \in Workers : at'[v] = "wait" <=> at[v] = "wait"
    BY <1>6, MeetingTypes
  <2>2. RankInv'
    BY <2>1, RanksKept
  <2>3. CondTypeOK(All)' /\ Counts'
    BY <1>2, <2>1, CountsKept DEF condVars, CondTypeOK
  <2>4. RoundInv'
    BY <1>1, <1>6, DoneRound, PartRound
  <2> QED
    BY <1>2, <1>3, <2>1, <2>2, <2>3, <2>4, PartsNext
<1>7. CASE Exec(w)
  <2>1. /\ GroupTypeOK' /\ UNCHANGED <<condVars, counter, rank, got>>
        /\ \A v \in Workers : at'[v] = "start" <=> at[v] = "start"
        /\ \A v \in Workers : at'[v] = "wait" <=> at[v] = "wait"
    BY <1>7, MeetingTypes
  <2>2. RankInv'
    BY <2>1, RanksKept
  <2>3. CondTypeOK(All)' /\ Counts'
    BY <1>2, <2>1, CountsKept DEF condVars, CondTypeOK
  <2>4. UNCHANGED <<boss, cmd, rank, got, last>>
    BY <1>1, <1>7 DEF Exec, mainVars
  <2>5. RoundInv'
    BY <1>7, <2>4, BeginRound, DrawRound, ComputeRound DEF Exec
  <2> QED
    BY <1>2, <1>3, <2>1, <2>2, <2>3, <2>5, PartsNext
<1> QED
  BY <1>4, <1>5, <1>6, <1>7 DEF WorkerStep, GroupStep

LEMMA MainKeeps ==
  ASSUME IInv, Main
  PROVE  IInv'
<1> USE Parts
<1>1. MainTypes' /\ ScriptInv'
  BY ScriptKept
<1>2. CallInv'
  <2>1. CASE main = "observe" /\ GetNextImageSet /\ UNCHANGED <<groupVars, workVars, mainVars>>
    BY <2>1 DEF CallInv, mainVars
  <2>2. CASE NextFrameOrClose
    BY <2>2 DEF NextFrameOrClose, CallInv
  <2>3. CASE Observed
    BY <2>3 DEF Observed, CallInv, loaderVars
  <2> QED
    BY <2>1, <2>2, <2>3 DEF Main, CallInv, Send, SendReturns, Close, JoinAll, mainVars, loaderVars
<1>3. CASE Send
  <2>1. PICK c \in InternalCommands : SendInternalCmd(c)
    <3>1. script # <<>> /\ SendInternalCmd(Head(script))
      BY <1>3 DEF Send
    <3>2. Head(script) \in InternalCommands
      BY <3>1 DEF MainTypes
    <3> QED
      BY <3>1, <3>2
  <2>2. /\ GroupTypeOK' /\ CondTypeOK(All)' /\ UNCHANGED <<nWaiting, counter, rank, got, at>>
        /\ \A d \in Conditions \ {"workAvailable"} : nWakeupTickets'[d] = nWakeupTickets[d]
    BY <2>1, SendTypes
  <2>3. UNCHANGED io /\ LoaderInv'
    BY <1>3 DEF Send, loaderVars, LoaderInv, LoaderTypeOK, BufferInv, FramesInOrder
  <2>4. Counts'
    BY <2>2, <2>3, CountsKept
  <2>5. RankInv'
    BY <2>2, RanksKept
  <2>6. RoundInv'
    BY <1>3, SendRound
  <2> QED
    BY <1>1, <1>2, <2>2, <2>3, <2>4, <2>5, <2>6, PartsNext
<1>4. CASE BossPoolReady /\ UNCHANGED <<loaderVars, workVars, mainVars>>
  <2>1. /\ GroupTypeOK' /\ UNCHANGED <<condVars, counter, rank, got, cmd>>
        /\ \A v \in Workers : at'[v] = "start" <=> at[v] = "start"
        /\ \A v \in Workers : at'[v] = "wait" <=> at[v] = "wait"
    BY <1>4, BossTypes
  <2>2. UNCHANGED io /\ LoaderInv'
    BY <1>4 DEF loaderVars, LoaderInv, LoaderTypeOK, BufferInv, FramesInOrder
  <2>3. CondTypeOK(All)' /\ Counts'
    BY <2>1, <2>2, CountsKept DEF condVars, CondTypeOK
  <2>4. RankInv'
    BY <2>1, RanksKept
  <2>5. RoundInv'
    BY <1>4, PartRound
  <2> QED
    BY <1>1, <1>2, <2>1, <2>2, <2>3, <2>4, <2>5, PartsNext
<1>5. CASE GetNextImageSet /\ UNCHANGED <<groupVars, workVars, mainVars>>
  <2>1. LoaderInv' /\ CondTypeOK(All)' /\ LoaderCounts' /\ nWaiting'["workAvailable"] = nWaiting["workAvailable"]
    BY <1>5, LoaderKept, LoaderCounted DEF Counts, LoaderInv
  <2>2. GroupTypeOK' /\ RankInv' /\ Counts'
    BY <1>5, <2>1 DEF groupVars, GroupTypeOK, RankInv, Started, Counts, Waiters
  <2>3. RoundInv'
    BY <1>5, RoundUntouched DEF mainVars
  <2> QED
    BY <1>1, <1>2, <2>1, <2>2, <2>3, PartsNext
<1>6. CASE /\ UNCHANGED <<condVars, groupVars, workVars, last, buffer, failed, currentFrame, taken>>
           /\ (io' = io \/ (main # "observe" /\ io' = [io EXCEPT !["main"] = "call"]))
  <2>1. /\ io'["loader"] = io["loader"] /\ (io'["main"] = "pop" => io["main"] = "pop")
        /\ LoaderTypeOK'
    BY <1>6 DEF LoaderInv, LoaderTypeOK, LoaderThreads
  <2>2. LoaderInv'
    BY <1>6, <2>1 DEF LoaderInv, BufferInv, FramesInOrder
  <2>3. CondTypeOK(All)' /\ GroupTypeOK' /\ RankInv'
    BY <1>6 DEF condVars, CondTypeOK, groupVars, GroupTypeOK, RankInv, Started
  <2>4. \A t \in LoaderThreads :
          (io'[t] \in Counted <=> io[t] \in Counted) /\ (io'[t] = "take" => io[t] = "take")
    BY <1>6 DEF LoaderInv, LoaderTypeOK, LoaderThreads, Counted, CallInv
  <2>5. Counts'
    BY <1>6, <2>4 DEF Counts, LoaderCounts, Waiters, condVars, groupVars
  <2>6. RoundInv'
    BY <1>6, RoundUntouched
  <2> QED
    BY <1>1, <1>2, <2>2, <2>3, <2>5, <2>6, PartsNext
<1>7. CASE Observed \/ SendReturns \/ Close \/ JoinAll
  BY <1>6, <1>7 DEF Observed, SendReturns, Close, JoinAll, loaderVars
<1>8. CASE NextFrameOrClose
  <2>1. /\ main = "command"
        /\ io' = io \/ io' = [io EXCEPT !["main"] = "call"]
        /\ UNCHANGED <<condVars, groupVars, workVars, last, buffer, failed, currentFrame, taken>>
    BY <1>8 DEF NextFrameOrClose, Go
  <2> QED
    BY <1>6, <2>1
<1> QED
  BY <1>3, <1>4, <1>5, <1>7, <1>8 DEF Main

LEMMA IInvNext == IInv /\ [Next]_vars => IInv'
<1> SUFFICES ASSUME IInv, [Next]_vars
             PROVE  IInv'
  OBVIOUS
<1> USE Parts
<1>1. CASE LoaderStep
  <2>1. Loader /\ UNCHANGED <<groupVars, workVars, mainVars>>
    BY <1>1 DEF LoaderStep
  <2>2. LoaderInv' /\ CondTypeOK(All)' /\ LoaderCounts' /\ nWaiting'["workAvailable"] = nWaiting["workAvailable"]
    BY <2>1, LoaderKept, LoaderCounted DEF Counts, LoaderInv
  <2>3. GroupTypeOK' /\ RankInv' /\ Counts'
    BY <2>1, <2>2 DEF groupVars, GroupTypeOK, RankInv, Started, Counts, Waiters
  <2>4. RoundInv' /\ MainTypes' /\ ScriptInv'
    BY <2>1, RoundUntouched, ScriptUntouched DEF mainVars, groupVars
  <2>5. CallInv'
    <3>1. PICK l : io' = [io EXCEPT !["loader"] = l]
      <4>1. CASE WaitOrNotify("loader")
        BY <4>1, WaitSteps DEF LoaderThreads, Go
      <4>2. CASE ~WaitOrNotify("loader")
        BY <2>1, <4>2 DEF Loader, LoadSet, LoaderExits, PushImages, TestFull, NextFrame, Go
      <4> QED
        BY <4>1, <4>2
    <3> QED
      BY <2>1, <3>1 DEF CallInv, mainVars, LoaderInv, LoaderTypeOK, LoaderThreads
  <2> QED
    BY <2>2, <2>3, <2>4, <2>5, PartsNext
<1>2. CASE WakeForNoReason
  <2>1. /\ UNCHANGED <<groupVars, loaderVars, workVars, mainVars, nWaiting, nWakeupTickets>>
        /\ CondTypeOK(All)'
    BY <1>2 DEF WakeForNoReason, SpuriousWakeup, CondTypeOK
  <2>2. LoaderInv' /\ GroupTypeOK' /\ RankInv' /\ Counts' /\ CallInv'
    BY <2>1 DEF groupVars, loaderVars, mainVars, LoaderInv, LoaderTypeOK, BufferInv, FramesInOrder, GroupTypeOK,
       RankInv, Started, Counts, LoaderCounts, Waiters, CallInv
  <2>3. RoundInv' /\ MainTypes' /\ ScriptInv'
    BY <2>1, RoundUntouched, ScriptUntouched DEF mainVars, groupVars
  <2> QED
    BY <2>1, <2>2, <2>3, PartsNext
<1>3. CASE UNCHANGED vars
  <2>1. UNCHANGED <<condVars, groupVars, loaderVars, workVars, mainVars>>
    BY <1>3 DEF vars
  <2>2. LoaderInv' /\ CallInv'
    BY <2>1 DEF loaderVars, mainVars, LoaderInv, LoaderTypeOK, BufferInv, FramesInOrder, CallInv
  <2>3. GroupTypeOK' /\ RankInv'
    BY <2>1 DEF groupVars, GroupTypeOK, RankInv, Started
  <2>4. Counts' /\ CondTypeOK(All)'
    BY <2>1 DEF condVars, groupVars, loaderVars, Counts, LoaderCounts, Waiters, CondTypeOK
  <2>5. RoundInv' /\ MainTypes' /\ ScriptInv'
    BY <2>1, RoundUntouched, ScriptUntouched DEF mainVars, groupVars
  <2> QED
    BY <2>2, <2>3, <2>4, <2>5, PartsNext
<1> QED
  BY <1>1, <1>2, <1>3, MainKeeps, WorkerKeeps DEF Next, Over

LEMMA Invariance == Spec => []IInv
BY IInvInit, IInvNext, PTL DEF Spec

\* Every variable of the group, the loader and main keeps its type: the counts of the
\* conditions never fall below zero, and main never takes up a frame that there is not.
THEOREM TypeCorrect == Spec => []TypeOK
<1>1. IInv => TypeOK
  BY DEF IInv
<1> QED
  BY <1>1, Invariance, PTL

\* GetNextImageSet gives main the images of all frames in order, and never takes from an
\* empty buffer, whatever tickets are left over and however the loader interleaves.
THEOREM ImagesInOrder == Spec => []FramesInOrder
<1>1. IInv => FramesInOrder
  BY DEF IInv, BufferInv
<1> QED
  BY <1>1, Invariance, PTL

-----------------------------------------------------------------------------
(* A command is a fork and its join *)

Todo == IF Running THEN Iterations(last) \ done ELSE {}

LEMMA IterationsInRange ==
  ASSUME IInv, last \in Commands
  PROVE  Iterations(last) \subseteq 0..Height + NumParticles
<1>1. Start(last) \in Nat /\ Limit(last) \in Int /\ Limit(last) <= Height + NumParticles
  BY LoopTypes DEF IInv
<1>2. Height + NumParticles \in Nat
  OBVIOUS
<1> QED
  BY <1>1, <1>2 DEF Iterations

\* The steps of ForkJoin, on what the steps of bodytrack are mapped to.
LEMMA ForkMapped ==
  ASSUME ~Running, Running', sent' = sent + 1, Todo' \subseteq 0..Height + NumParticles
  PROVE  FJ!Fork
BY DEF FJ!Fork, Todo

LEMMA ShareMapped ==
  ASSUME NEW i \in Todo, Todo' = Todo \ {i}, i \in 0..Height + NumParticles,
         UNCHANGED sent, Running' = Running
  PROVE  FJ!FJNext
<1>1. FJ!Share(i)
  BY DEF FJ!Share, Todo
<1> QED
  BY <1>1 DEF FJ!FJNext

LEMMA JoinMapped ==
  ASSUME Running, ~Running', Todo = {}, UNCHANGED sent
  PROVE  FJ!Join
BY DEF FJ!Join, Todo

LEMMA StutterMapped ==
  ASSUME Running' = Running, Todo' = Todo, UNCHANGED sent
  PROVE  UNCHANGED FJ!fjVars
BY DEF FJ!fjVars, Todo

LEMMA RestMapped ==
  ASSUME ~Running, ~Running', UNCHANGED sent
  PROVE  UNCHANGED FJ!fjVars
<1>1. Running' = Running /\ Todo' = Todo
  BY DEF Running, Todo
<1> QED
  BY <1>1, StutterMapped

\* Resetting and drawing tickets changes nothing of what the command is to compute.
LEMMA LoopSame ==
  ASSUME IInv, NEW w \in Workers, BeginExec(w) \/ DrawTicket(w),
         UNCHANGED <<boss, cmd, rank, got, mainVars>>
  PROVE  Running' = Running /\ Todo' = Todo
<1> USE NoCommand, Parts
<1>1. UNCHANGED <<main, last, sent>>
  BY DEF mainVars
<1>2. Running' = Running
  BY <1>1 DEF Running
<1>3. last \in Commands /\ got[w] = last /\ (BeginExec(w) => done = {})
  <2>1. CASE BeginExec(w)
    <3>1. Gathering /\ last # THREADS_SHUTDOWN /\ got[w] = last
      BY <2>1 DEF BeginExec, RoundInv, StageInv, Resting, Gathering, Executing, Parting, Idle
    <3>2. last \in Commands
      BY <3>1 DEF ScriptInv, Gathering
    <3> QED
      BY <3>1, <3>2 DEF RoundInv, LoopInv
  <2>2. CASE DrawTicket(w)
    BY <2>2 DEF DrawTicket, BeginExec, RoundInv, StageInv, Resting, Gathering, Executing, Parting, Idle
  <2> QED
    BY <2>1, <2>2
<1>4. done' = done
  BY <1>3 DEF BeginExec, DrawTicket
<1>5. Start(last)' = Start(last)
  <2>1. ResetTickets(last) \/ getTicket(dispenser(last)) \/ UNCHANGED tickets
    BY <1>3 DEF BeginExec, DrawTicket
  <2>2. CASE UNCHANGED tickets
    BY <1>1, <2>2 DEF Start
  <2>3. CASE ResetTickets(last) \/ getTicket(dispenser(last))
    BY <1>1, <1>3, <2>3, ResetSets, TicketMoves DEF RoundInv
  <2> QED
    BY <2>1, <2>2, <2>3
<1> QED
  BY <1>1, <1>2, <1>4, <1>5 DEF Todo, Iterations, Limit

\* Main passes poolReadyBarrier with all workers when all iterations are done.
LEMMA PassJoins ==
  ASSUME IInv, PassPoolReady, boss # "free", UNCHANGED <<workVars, mainVars>>,
         \A w \in Workers : at[w] \in {"done", "poolReady"}
  PROVE  [FJ!FJNext]_FJ!fjVars
<1> USE NoCommand, Parts
<1>1. UNCHANGED <<main, last, sent, done>> /\ main = "await" /\ boss' = "free"
  BY DEF PassPoolReady, mainVars, workVars, ScriptInv
<1>2. CASE last \in Commands
  <2>1. Parting
    BY <1>1, <1>2 DEF RoundInv, StageInv, Resting, Gathering, Executing, Idle
  <2>2. Iterations(last) \subseteq done
    BY <1>2, <2>1 DEF RoundInv, LoopInv
  <2>3. Running /\ ~Running' /\ Todo = {}
    BY <1>1, <1>2, <2>2 DEF Running, Todo
  <2> QED
    BY <1>1, <2>3, JoinMapped DEF FJ!FJNext
<1>3. CASE last \notin Commands
  <2>1. ~Running /\ ~Running'
    BY <1>1, <1>3 DEF Running
  <2> QED
    BY <1>1, <2>1, RestMapped
<1> QED
  BY <1>2, <1>3

\* While main and the boss stay as they are and nothing is computed, nothing happens.
LEMMA QuietStep ==
  ASSUME UNCHANGED <<workVars, last, sent>>, Running' = Running
  PROVE  [FJ!FJNext]_FJ!fjVars
<1>1. Todo' = Todo
  BY DEF Todo, Iterations, Start, Limit, workVars
<1> QED
  BY <1>1, StutterMapped

LEMMA NextIsForkJoin ==
  IInv /\ IInv' /\ [Next]_vars => [FJ!FJNext]_FJ!fjVars
<1> SUFFICES ASSUME IInv, IInv', [Next]_vars
             PROVE  [FJ!FJNext]_FJ!fjVars
  OBVIOUS
<1> USE Parts
<1>1. CASE Send
  <2>1. /\ last' = Head(script) /\ main = "command" /\ main' = "await" /\ boss' = "sent"
        /\ sent' = IF last' \in Commands THEN sent + 1 ELSE sent
    BY <1>1 DEF Send, SendInternalCmd
  <2>2. ~Running
    BY <2>1 DEF Running
  <2>3. CASE last' \in Commands
    <3>1. Running' /\ sent' = sent + 1
      BY <2>1, <2>3 DEF Running
    <3>2. Iterations(last)' \subseteq 0..Height + NumParticles
      <4>1. (IInv /\ last \in Commands => Iterations(last) \subseteq 0..Height + NumParticles)'
        BY IterationsInRange, PTL
      <4> QED
        BY <2>3, <4>1
    <3>3. Todo' \subseteq 0..Height + NumParticles
      BY <3>1, <3>2 DEF Todo
    <3> QED
      BY <2>2, <3>1, <3>3, ForkMapped DEF FJ!FJNext
  <2>4. CASE last' \notin Commands
    <3>1. ~Running' /\ sent' = sent
      BY <2>1, <2>4 DEF Running
    <3> QED
      BY <2>2, <3>1, RestMapped
  <2> QED
    BY <2>3, <2>4
<1>2. CASE Observed \/ SendReturns \/ NextFrameOrClose \/ Close \/ JoinAll
  <2>1. UNCHANGED <<workVars, last, sent>>
    BY <1>2 DEF Observed, SendReturns, NextFrameOrClose, Close, JoinAll
  <2>2. ~Running /\ ~Running'
    BY <1>2 DEF Observed, SendReturns, NextFrameOrClose, Close, JoinAll, groupVars, Running
  <2> QED
    BY <2>1, <2>2, RestMapped
<1>3. CASE BossPoolReady /\ UNCHANGED <<loaderVars, workVars, mainVars>>
  <2>1. CASE \A v \in Workers : at[v] = "poolReady"
    BY <1>3, <2>1, PassJoins DEF BossPoolReady
  <2>2. CASE ~ \A v \in Workers : at[v] = "poolReady"
    <3>1. boss = "sent" /\ boss' = "poolReady" /\ UNCHANGED <<main, last, sent>>
      BY <1>3, <2>2 DEF BossPoolReady, mainVars
    <3> QED
      BY <1>3, <3>1, QuietStep DEF Running
  <2> QED
    BY <2>1, <2>2
<1>4. CASE /\ UNCHANGED <<groupVars, workVars, mainVars>>
  <2>1. UNCHANGED <<main, last, sent, boss>>
    BY <1>4 DEF groupVars, mainVars
  <2> QED
    BY <1>4, <2>1, QuietStep DEF Running
<1>5. ASSUME NEW w \in Workers, GroupStep(w), UNCHANGED <<loaderVars, workVars, mainVars>>
      PROVE  [FJ!FJNext]_FJ!fjVars
  <2>1. CASE PassPoolReady /\ PoolReady(w) /\ boss = "poolReady" /\ \A v \in Workers \ {w} : at[v] = "poolReady"
    <3>1. \A v \in Workers : at[v] \in {"done", "poolReady"}
      BY <2>1 DEF PoolReady
    <3> QED
      BY <1>5, <2>1, <3>1, PassJoins
  <2>2. CASE UNCHANGED boss
    <3>1. UNCHANGED <<main, last, sent>>
      BY <1>5 DEF mainVars
    <3> QED
      BY <1>5, <2>2, <3>1, QuietStep DEF Running
  <2> QED
    BY <1>5, <2>1, <2>2 DEF GroupStep, DetermineRank, RecvCmd, Awake, AwaitWork, groupVars, WorkDone, ResetCmd,
       PoolReady
<1>6. ASSUME NEW w \in Workers, Exec(w), UNCHANGED <<loaderVars, mainVars>>
      PROVE  [FJ!FJNext]_FJ!fjVars
  <2>1. UNCHANGED <<boss, cmd, rank, got, main, last, sent>> /\ Running' = Running
    BY <1>6 DEF Exec, mainVars, Running
  <2>2. CASE BeginExec(w) \/ DrawTicket(w)
    BY <1>6, <2>1, <2>2, LoopSame, StutterMapped
  <2>3. CASE Compute(w)
    <3>1. PICK i \in unit[w] : i \notin done /\ done' = done \cup {i}
      BY <2>1, <2>3, ComputeRound
    <3>2. Executing
      BY <2>1, <2>3, ComputeRound
    <3>3. i \in Iterations(last) /\ last \in Commands
      <4>1. i \in Drawn
        BY <3>1, <3>2 DEF RoundInv, LoopInv
      <4> QED
        BY <3>2, <4>1 DEF Drawn, Executing
    <3>4. Running
      BY <3>2 DEF Running, Executing, ScriptInv
    <3>5. UNCHANGED tickets
      BY <2>3 DEF Compute
    <3>6. Iterations(last)' = Iterations(last)
      BY <2>1, <3>5 DEF Iterations, Start, Limit
    <3>7. i \in Todo /\ Todo' = Todo \ {i}
      BY <2>1, <3>1, <3>3, <3>4, <3>6 DEF Todo
    <3>8. i \in 0..Height + NumParticles
      BY <3>3, IterationsInRange
    <3> QED
      BY <2>1, <3>7, <3>8, ShareMapped
  <2> QED
    BY <1>6, <2>2, <2>3 DEF Exec
<1>7. CASE UNCHANGED vars
  BY <1>4, <1>7 DEF vars
<1> QED
  BY <1>1, <1>2, <1>3, <1>4, <1>5, <1>6, <1>7 DEF Next, Main, LoaderStep, WorkerStep, WakeForNoReason, Over

\* Every step is a step of ForkJoin or a stutter: each iteration of a command is computed
\* once, by one worker, and SendCmd returns only when all are computed.
THEOREM ForkJoinImplemented == Spec => FJ!FJSafety
<1>1. Init => FJ!FJInit
  BY DEF Init, Running, FJ!FJInit
<1> QED
  BY <1>1, Invariance, NextIsForkJoin, PTL DEF Spec, FJ!FJSafety
=============================================================================
