------------------------------- MODULE BodyTrack -------------------------------
(***************************************************************************)
(* bodytrack with POSIX threads: the main thread takes the images of each  *)
(* frame from the loader (ImageLoader), and has the workers (WorkerGroup)  *)
(* compute the edge maps of each camera and then the particle filter.  A   *)
(* command is a loop whose iterations (rows of an image, or particles) the *)
(* workers draw in units from a ticket dispenser (threads/TicketDispenser.h)*)
(* that worker 0 resets first.  Of the data, only which iterations have    *)
(* been computed is kept.                                                  *)
(***************************************************************************)
EXTENDS WorkerGroup, ImageLoader, FiniteSetsExt

CONSTANTS
  NumCameras,
  Height,       \* of an image
  HalfKernel,   \* FilterArgs.kernelSize / 2
  NumParticles,
  Unit,         \* Unit[c]: WORKUNIT_SIZE_... of command c
  Rounds        \* numbers of sampling rounds at the start and in a frame: one or the
                \* layers, and repetitions for want of valid particles

FILTERROW == 2
FILTERCOLUMN == 3
GRADIENT == 4
PARTICLEWEIGHTS == 0
NEWPARTICLES == 1
Cmds == {FILTERROW, FILTERCOLUMN, GRADIENT, PARTICLEWEIGHTS, NEWPARTICLES}
Filters == {FILTERROW, FILTERCOLUMN}

ASSUME CommandsAssumption == Commands = Cmds
ASSUME ConditionsAssumption == Conditions = {"workAvailable", "mCondFull", "mCondEmpty"}
ASSUME LoopsAssumption ==
  /\ NumCameras \in Nat /\ Height \in Nat /\ HalfKernel \in Nat /\ NumParticles \in Nat
  /\ Unit \in [Cmds -> Nat \ {0}] /\ Rounds \subseteq Nat \ {0}

VARIABLES
  tickets,     \* loopTickets and particleTickets
  unit,        \* unit[w]: iterations of the unit w works on that are still to do
  done,        \* iterations of the command in hand that have been computed
  frame,       \* the frame main works on
  script,      \* what main will send before it asks for the next images
  main,        \* control point of main
  sent,        \* history: the number of commands sent
  last         \* and the last one, or that of the shutdown

workVars == <<tickets, unit, done>>
mainVars == <<frame, script, main, sent, last>>
vars == <<condVars, groupVars, loaderVars, workVars, mainVars>>

-----------------------------------------------------------------------------
(* TicketDispenser *)

Dispensers == {"loop", "particle"}
dispenser(c) == IF c \in Filters \cup {GRADIENT} THEN "loop" ELSE "particle"

getTicket(d) == tickets' = [tickets EXCEPT ![d].value = @ + tickets[d].inc]

\* resetDispenser, with one argument and with two.
resetInc(d, inc) ==
  tickets' = [tickets EXCEPT ![d].inc = inc, ![d].value = tickets[d].init]
resetDispenser(d, init, inc) ==
  tickets' = [tickets EXCEPT ![d] = [init |-> init, inc |-> inc, value |-> init]]

-----------------------------------------------------------------------------
(* Exec *)

\* The end of the loop, and the first iteration if the dispenser is not given one.
Limit(c) ==
  CASE c = FILTERROW -> Height
    [] c = FILTERCOLUMN -> Height - HalfKernel
    [] c = GRADIENT -> Height - 2
    [] OTHER -> NumParticles

Start(c) ==
  CASE c = FILTERROW -> 0
    [] c = FILTERCOLUMN -> HalfKernel
    [] OTHER -> tickets[dispenser(c)].init

ResetTickets(c) ==
  IF c \in Filters THEN resetDispenser(dispenser(c), Start(c), Unit[c])
  ELSE resetInc(dispenser(c), Unit[c])

\* Mutant of BeginExec: workers do not wait for each other at workInit.
BeginExec_NoInit(w) ==
  /\ at[w] = "exec"
  /\ IF rank[w] = 0
     THEN /\ ResetTickets(got[w])
          /\ done' = IF got[w] \in Filters THEN {} ELSE done
     ELSE UNCHANGED <<tickets, done>>
  /\ Move(w, "ticket")
  /\ UNCHANGED unit

\* Worker 0 resets the dispenser and, for a filter, clears the destination; all meet
\* at workInit.
BeginExec(w) ==
  /\ at[w] = "exec"
  /\ IF rank[w] = 0
     THEN /\ ResetTickets(got[w])
          /\ done' = IF got[w] \in Filters THEN {} ELSE done
     ELSE UNCHANGED <<tickets, done>>
  /\ at' = IF \A v \in Workers \ {w} : at[v] = "init"
           THEN [v \in Workers |-> "ticket"]
           ELSE [at EXCEPT ![w] = "init"]
  /\ UNCHANGED unit

DrawTicket(w) ==
  LET d == dispenser(got[w])
      t == tickets[d].value
  IN  /\ at[w] = "ticket"
      /\ getTicket(d)
      /\ IF t < Limit(got[w])
         THEN /\ unit' = [unit EXCEPT ![w] =
                   {i \in t..(t + Unit[got[w]] - 1) : i < Limit(got[w])}]
              /\ Move(w, "work")
         ELSE Executed(w) /\ UNCHANGED unit
      /\ UNCHANGED done

\* One iteration, from the first of the unit to the last.
Compute(w) ==
  /\ at[w] = "work"
  /\ done' = done \cup {Min(unit[w])}
  /\ unit' = [unit EXCEPT ![w] = @ \ {Min(unit[w])}]
  /\ Move(w, IF Cardinality(unit[w]) = 1 THEN "ticket" ELSE "work")
  /\ UNCHANGED tickets

Exec(w) ==
  /\ BeginExec(w) \/ DrawTicket(w) \/ Compute(w)
  /\ UNCHANGED <<condVars, cmd, counter, rank, got, boss>>

-----------------------------------------------------------------------------
(* The main thread *)

\* The commands of s, n times over.
Times(n, s) == [i \in 1..n * Len(s) |-> s[1 + ((i - 1) % Len(s))]]

CreateEdgeMaps == Times(NumCameras, <<GRADIENT, FILTERROW, FILTERCOLUMN>>)
Update(n) == Times(n, <<NEWPARTICLES, PARTICLEWEIGHTS>>)

\* GetObservation has returned.  The first call is followed by InitializeParticles and
\* by the update for frame 0, which needs no other observation, and its failure is
\* ignored; a later failure ends the program.
Observed ==
  /\ main = "observe" /\ io["main"] \in {"return", "false"}
  /\ \E n, k \in Rounds :
       script' =
         IF frame > 0 /\ io["main"] = "false" THEN <<THREADS_SHUTDOWN>>
         ELSE (IF io["main"] = "return" THEN CreateEdgeMaps ELSE <<>>)
              \o (IF frame = 0 THEN Times(k, <<PARTICLEWEIGHTS>>) ELSE <<>>) \o Update(n)
  /\ main' = "command"
  /\ UNCHANGED <<condVars, groupVars, loaderVars, workVars, frame, sent, last>>

\* Each command has a destination of its own, in which nothing is computed yet.
Send ==
  /\ main = "command" /\ script # <<>>
  /\ SendInternalCmd(Head(script))
  /\ done' = {}
  /\ script' = Tail(script)
  /\ last' = Head(script) /\ sent' = IF Head(script) \in Commands THEN sent + 1 ELSE sent
  /\ main' = "await"
  /\ UNCHANGED <<loaderVars, tickets, unit, frame>>

\* SendCmd and SendInternalCmd return; after a shutdown, JoinAll joins the threads.
SendReturns ==
  /\ main = "await" /\ boss = "free"
  /\ main' = IF last = THREADS_SHUTDOWN THEN "join" ELSE "command"
  /\ UNCHANGED <<condVars, groupVars, loaderVars, workVars, frame, script, sent, last>>

NextFrameOrClose ==
  /\ main = "command" /\ script = <<>>
  /\ frame' = frame + 1
  /\ IF frame + 1 < NumFrames
     THEN main' = "observe" /\ Go("main", "call")
     ELSE main' = "close" /\ UNCHANGED io
  /\ UNCHANGED <<condVars, groupVars, buffer, failed, currentFrame, taken, workVars, script, sent, last>>

\* close joins the loader, and JoinAll shuts the workers down.
Close ==
  /\ main = "close" /\ io["loader"] = "exited"
  /\ script' = <<THREADS_SHUTDOWN>>
  /\ main' = "command"
  /\ UNCHANGED <<condVars, groupVars, loaderVars, workVars, frame, sent, last>>

JoinAll ==
  /\ main = "join" /\ \A w \in Workers : at[w] = "exited"
  /\ main' = "over"
  /\ UNCHANGED <<condVars, groupVars, loaderVars, workVars, frame, script, sent, last>>

Main ==
  \/ Observed \/ Send \/ SendReturns \/ NextFrameOrClose \/ Close \/ JoinAll
  \/ BossPoolReady /\ UNCHANGED <<loaderVars, workVars, mainVars>>
  \/ main = "observe" /\ GetNextImageSet /\ UNCHANGED <<groupVars, workVars, mainVars>>

-----------------------------------------------------------------------------
Init ==
  /\ CondInit /\ GroupInit /\ LoaderInit
  /\ tickets = [d \in Dispensers |-> [init |-> 0, inc |-> 1, value |-> 0]]
  /\ unit = [w \in Workers |-> {}] /\ done = {}
  /\ frame = 0 /\ script = <<>> /\ main = "observe"
  /\ sent = 0 /\ last = THREADS_IDLE

WorkerStep(w) ==
  \/ GroupStep(w) /\ UNCHANGED <<loaderVars, workVars, mainVars>>
  \/ Exec(w) /\ UNCHANGED <<loaderVars, mainVars>>

LoaderStep == Loader /\ UNCHANGED <<groupVars, workVars, mainVars>>

WakeForNoReason ==
  /\ \E c \in Conditions, t \in Workers \cup LoaderThreads : SpuriousWakeup(c, t)
  /\ UNCHANGED <<groupVars, loaderVars, workVars, mainVars>>

Over == main = "over" /\ UNCHANGED vars

Next ==
  \/ Main \/ LoaderStep \/ (\E w \in Workers : WorkerStep(w)) \/ WakeForNoReason \/ Over

Spec ==
  /\ Init /\ [][Next]_vars
  /\ WF_vars(Main) /\ WF_vars(LoaderStep) /\ \A w \in Workers : WF_vars(WorkerStep(w))

-----------------------------------------------------------------------------
(* Properties *)

Iterations(c) == Start(c)..Limit(c) - 1

\* Types of all variables.
TypeOK ==
  /\ CondTypeOK(Workers \cup LoaderThreads) /\ GroupTypeOK /\ LoaderTypeOK
  /\ tickets \in [Dispensers -> [init : Nat, inc : Nat, value : Nat]]
  /\ unit \in [Workers -> SUBSET Nat] /\ done \subseteq Nat
  /\ frame \in 0..NumFrames /\ sent \in Nat /\ last \in InternalCommands /\ script \in Seq(InternalCommands)
  /\ main \in {"observe", "command", "await", "close", "join", "over"}

\* The images that GetNextImageSet returns are those of the frames, in order, none
\* missing: it never takes from an empty buffer, though a ticket may be left over from
\* an earlier wait, and the two size tests are made without the lock.
FramesInOrder == \A i \in 1..Len(taken) : taken[i] = i - 1

Running == main = "await" /\ boss # "free" /\ last \in Commands

\* A command is a fork over its iterations: each is computed once, by some worker, and
\* SendCmd returns when all are; no worker touches anything of an earlier or a later
\* command; and every command comes to its end.
FJ == INSTANCE ForkJoin WITH
  Worker <- 0..Height + NumParticles,
  round <- sent,
  forked <- Running,
  todo <- IF Running THEN Iterations(last) \ done ELSE {}
ImplementsForkJoin == FJ!FJSpec

\* A call of GetNextImageSet that waits for images gets them, unless loading fails.
ImagesArrive == io["main"] = "wait" ~> io["main"] = "pop" \/ failed
-----------------------------------------------------------------------------
(* The inductive invariant behind FramesInOrder and ImplementsForkJoin *)

\* The images in the buffer are the next ones to take, as many as the loader has put
\* there and main has not taken; main has seen that there are some before it takes one.
Pushed == {"notify", "ticket", "signal", "size", "wait", "look", "block", "asleep", "take",
           "leave", "next"}

BufferInv ==
  /\ FramesInOrder
  /\ \A i \in 1..Len(buffer) : buffer[i] = Len(taken) + i - 1
  /\ Len(taken) + Len(buffer) = currentFrame + (IF io["loader"] \in Pushed THEN 1 ELSE 0)
  /\ io["loader"] \in Pushed \cup {"push"} => currentFrame < NumFrames
  /\ io["main"] = "pop" => buffer # <<>>

\* The counts of the conditions are the threads that wait, and a thread that was seen a
\* ticket for finds it.
Counted == {"look", "block", "asleep", "take", "leave"}

CountInv ==
  /\ nWaiting["workAvailable"] = Cardinality({w \in Workers : at[w] = "wait"})
  /\ \A t \in LoaderThreads : nWaiting[waitsFor(t)] = IF io[t] \in Counted THEN 1 ELSE 0
  /\ \A t \in LoaderThreads : io[t] = "take" => nWakeupTickets[waitsFor(t)] > 0

\* The workers that have started are numbered from 0.
Started == {w \in Workers : at[w] # "start"}

RankInv ==
  /\ counter = Cardinality(Started)
  /\ \A w \in Started : rank[w] < counter
  /\ \A v, w \in Started : rank[v] = rank[w] => v = w
  /\ Started # {} => \E w \in Started : rank[w] = 0

\* What main is about to send: commands, or the shutdown and nothing after it.
ScriptInv ==
  /\ main = "observe" => frame < NumFrames
  /\ main = "command" => \/ script = <<THREADS_SHUTDOWN>>
                         \/ script \in Seq(Commands) /\ frame < NumFrames
  /\ main = "await" => \/ last = THREADS_SHUTDOWN
                       \/ last \in Commands /\ script \in Seq(Commands) /\ frame < NumFrames
  /\ last = THREADS_SHUTDOWN => main \in {"await", "join", "over"}
  /\ main \in {"join", "over"} => last = THREADS_SHUTDOWN
  /\ main # "await" => boss = "free"

\* Main does something else only when GetNextImageSet has returned.
CallInv == main # "observe" => io["main"] \in {"return", "false"}

\* Where the workers are: without a command; finding it and meeting at workInit; executing
\* it; or past workDoneBarrier, where one of them resets it.
Idle(w) == at[w] \in {"start", "recv", "wait"}

Resting ==
  /\ boss = "free" /\ cmd = THREADS_IDLE
  /\ \A w \in Workers : IF last = THREADS_SHUTDOWN THEN at[w] = "exited" ELSE Idle(w)

Gathering ==
  /\ boss # "free" /\ cmd = last
  /\ \A w \in Workers : \/ Idle(w)
                        \/ got[w] = last /\ at[w] \in IF last = THREADS_SHUTDOWN
                                                      THEN {"ack", "workDone"} ELSE {"exec", "init"}

Executing ==
  /\ boss # "free" /\ cmd = last /\ last \in Commands
  /\ \A w \in Workers : got[w] = last /\ at[w] \in {"ticket", "work", "ack", "workDone"}

Parting ==
  /\ boss # "free"
  /\ \A w \in Workers : got[w] = last /\ at[w] \in {"reset", "done", "poolReady"}
  /\ \A v, w \in Workers : at[v] = "reset" /\ at[w] = "reset" => v = w
  /\ cmd = IF \E w \in Workers : at[w] = "reset" THEN last ELSE THREADS_IDLE

StageInv == Resting \/ Gathering \/ Executing \/ Parting

\* The units are what has been drawn and not computed, and no two workers share any of
\* it; workers come to the end of the loop only when all of it has been drawn.
Drawn == {i \in Iterations(last) : i < tickets[dispenser(last)].value}

UnitInv ==
  /\ \A w \in Workers : IsFiniteSet(unit[w]) /\ (unit[w] # {} <=> at[w] = "work")
  /\ \A w \in Workers : unit[w] \cap done = {}
  /\ \A v, w \in Workers : v # w => unit[v] \cap unit[w] = {}

TicketsReset ==
  LET d == dispenser(last)
  IN  tickets[d].inc = Unit[last] /\ tickets[d].value = Start(last)

LoopInv ==
  /\ Gathering /\ last \in Commands =>
       /\ done = {}
       /\ (\E w \in Workers : at[w] = "init" /\ rank[w] = 0) => TicketsReset
  /\ Executing =>
       /\ tickets[dispenser(last)].inc = Unit[last]
       /\ Start(last) <= tickets[dispenser(last)].value
       /\ done \cup UNION {unit[w] : w \in Workers} = Drawn
       /\ (\E w \in Workers : at[w] \in {"ack", "workDone"}) =>
            Limit(last) <= tickets[dispenser(last)].value
  /\ Parting /\ last \in Commands => Iterations(last) \subseteq done

IInv ==
  /\ TypeOK /\ BufferInv /\ CountInv /\ RankInv
  /\ ScriptInv /\ CallInv /\ StageInv /\ UnitInv /\ LoopInv
=============================================================================
