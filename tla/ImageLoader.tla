------------------------------ MODULE ImageLoader ------------------------------
(***************************************************************************)
(* The asynchronous image loader of bodytrack (AsyncIO.cpp): a thread that *)
(* loads the sets of images of all frames into a buffer, and the function  *)
(* with which the main thread takes them out.  The buffers are protected   *)
(* by mDataLock, but their size is read without it, and each condition is  *)
(* notified without its mutex: the steps of Condition.cpp interleave.      *)
(* The counters are read and written one at a time; that is all that two   *)
(* threads of which one only waits and one only notifies can tell.         *)
(***************************************************************************)
EXTENDS Condition, Sequences

CONSTANTS NumFrames,    \* mNumFrames
          BufferSize    \* mBufferSize

ASSUME LoaderAssumption == NumFrames \in Nat \ {0} /\ BufferSize \in Nat \ {0}

NoImages == -1          \* what is taken from an empty buffer
LoaderThreads == {"loader", "main"}

VARIABLES buffer,        \* mImageBuffer and mFGBuffer, which are changed together
          failed,        \* mFailed
          currentFrame,  \* mCurrentFrame
          io,            \* control point of each thread
          taken          \* history: what GetNextImageSet has returned

loaderVars == <<buffer, failed, currentFrame, io, taken>>

LoaderInit ==
  /\ buffer = <<>> /\ failed = FALSE /\ currentFrame = 0
  /\ io = [t \in LoaderThreads |-> IF t = "loader" THEN "test" ELSE "call"]
  /\ taken = <<>>

LoaderTypeOK ==
  /\ buffer \in Seq(0..NumFrames - 1)
  /\ failed \in BOOLEAN /\ currentFrame \in 0..NumFrames
  /\ io \in [LoaderThreads ->
       {"test", "load", "push", "notify", "ticket", "signal", "size", "wait", "look", "block",
        "asleep", "take", "leave", "next", "exited", "call", "pop", "return", "false"}]
  /\ taken \in Seq(-1..NumFrames - 1)

Go(t, label) == io' = [io EXCEPT ![t] = label]

-----------------------------------------------------------------------------
(* Wait and NotifyOne, called without a common lock *)

waitsFor(t) == IF t = "loader" THEN "mCondFull" ELSE "mCondEmpty"
notifies(t) == IF t = "loader" THEN "mCondEmpty" ELSE "mCondFull"

StartWait(t) ==
  /\ io[t] = "wait"
  /\ CountWaiting(waitsFor(t), 1)
  /\ Go(t, "look")
  /\ UNCHANGED <<nWakeupTickets, asleep>>

\* Mutant of LookForTicket: what was tested before sleeping is not tested again.
LookForTicket_Once(t) ==
  /\ \/ io[t] = "look"
     \/ io[t] = "asleep" /\ t \notin asleep[waitsFor(t)]
  /\ Go(t, IF io[t] = "look" /\ nWakeupTickets[waitsFor(t)] = 0 THEN "block" ELSE "take")
  /\ UNCHANGED condVars

\* The loop of Wait: a thread without a ticket goes to sleep, again.
LookForTicket(t) ==
  /\ \/ io[t] = "look"
     \/ io[t] = "asleep" /\ t \notin asleep[waitsFor(t)]
  /\ Go(t, IF nWakeupTickets[waitsFor(t)] = 0 THEN "block" ELSE "take")
  /\ UNCHANGED condVars

Block(t) ==
  /\ io[t] = "block"
  /\ Sleep(waitsFor(t), t)
  /\ Go(t, "asleep")
  /\ UNCHANGED <<nWaiting, nWakeupTickets>>

TakeTicket(t) ==
  /\ io[t] = "take"
  /\ CountTickets(waitsFor(t), -1)
  /\ Go(t, "leave")
  /\ UNCHANGED <<nWaiting, asleep>>

\* Mutant of AfterWait: GetNextImageSet tests the size once.
AfterWait_NoLoop(t) == IF t = "loader" THEN "next" ELSE "pop"

\* The loader goes on without another look, GetNextImageSet tests the size again.
AfterWait(t) == IF t = "loader" THEN "next" ELSE "size"

LeaveWait(t) ==
  /\ io[t] = "leave"
  /\ CountWaiting(waitsFor(t), -1)
  /\ Go(t, AfterWait(t))
  /\ UNCHANGED <<nWakeupTickets, asleep>>

AfterNotify(t) == IF t = "loader" THEN "size" ELSE "return"

ReadSlack(t) ==
  /\ io[t] = "notify"
  /\ Go(t, IF slack(notifies(t)) > 0 THEN "ticket" ELSE AfterNotify(t))
  /\ UNCHANGED condVars

PutTicket(t) ==
  /\ io[t] = "ticket"
  /\ CountTickets(notifies(t), 1)
  /\ Go(t, "signal")
  /\ UNCHANGED <<nWaiting, asleep>>

SendSignal(t) ==
  /\ io[t] = "signal"
  /\ Signal(notifies(t))
  /\ Go(t, AfterNotify(t))
  /\ UNCHANGED <<nWaiting, nWakeupTickets>>

WaitOrNotify(t) ==
  /\ \/ StartWait(t) \/ LookForTicket(t) \/ Block(t) \/ TakeTicket(t) \/ LeaveWait(t)
     \/ ReadSlack(t) \/ PutTicket(t) \/ SendSignal(t)
  /\ UNCHANGED <<buffer, failed, currentFrame, taken>>

-----------------------------------------------------------------------------
(* The loading thread *)

\* LoadSet goes on after a failure, and the set is put into the buffer all the same.
LoadSet ==
  /\ io["loader"] = "test" /\ currentFrame < NumFrames /\ ~failed
  /\ failed' \in BOOLEAN
  /\ Go("loader", "push")
  /\ UNCHANGED <<condVars, buffer, currentFrame, taken>>

LoaderExits ==
  /\ io["loader"] = "test" /\ (currentFrame = NumFrames \/ failed)
  /\ Go("loader", "exited")
  /\ UNCHANGED <<condVars, buffer, failed, currentFrame, taken>>

PushImages ==
  /\ io["loader"] = "push"
  /\ buffer' = Append(buffer, currentFrame)
  /\ Go("loader", "notify")
  /\ UNCHANGED <<condVars, failed, currentFrame, taken>>

TestFull ==
  /\ io["loader"] = "size"
  /\ Go("loader", IF Len(buffer) >= BufferSize THEN "wait" ELSE "next")
  /\ UNCHANGED <<condVars, buffer, failed, currentFrame, taken>>

NextFrame ==
  /\ io["loader"] = "next"
  /\ currentFrame' = currentFrame + 1
  /\ Go("loader", "test")
  /\ UNCHANGED <<condVars, buffer, failed, taken>>

Loader ==
  \/ LoadSet \/ LoaderExits \/ PushImages \/ TestFull \/ NextFrame \/ WaitOrNotify("loader")

-----------------------------------------------------------------------------
(* GetNextImageSet *)

TestFailed ==
  /\ io["main"] = "call"
  /\ Go("main", IF failed THEN "false" ELSE "size")
  /\ UNCHANGED <<condVars, buffer, failed, currentFrame, taken>>

TestEmpty ==
  /\ io["main"] = "size"
  /\ Go("main", IF buffer = <<>> THEN "wait" ELSE "pop")
  /\ UNCHANGED <<condVars, buffer, failed, currentFrame, taken>>

PopImages ==
  /\ io["main"] = "pop"
  /\ taken' = Append(taken, IF buffer = <<>> THEN NoImages ELSE Head(buffer))
  /\ buffer' = IF buffer = <<>> THEN buffer ELSE Tail(buffer)
  /\ Go("main", "notify")
  /\ UNCHANGED <<condVars, failed, currentFrame>>

GetNextImageSet == TestFailed \/ TestEmpty \/ PopImages \/ WaitOrNotify("main")
=============================================================================
