------------------------------ MODULE DedupStage ------------------------------
(***************************************************************************)
(* One stage of the pipeline of dedup together with its two libraries: the *)
(* FragmentRefine threads cut their coarse chunk into pieces that share    *)
(* its memory and send the pieces through a queue; the threads behind the  *)
(* queue use and free them.  (K/dedup/src/encoder.c, with queue.c and      *)
(* mbuffer.c.)                                                             *)
(*                                                                         *)
(* A producer handles one coarse chunk here, and what Fragment does to get *)
(* it (mbuffer_create, mbuffer_realloc) is done by the producer itself.  A *)
(* consumer frees what it receives: in the program it is the Deduplicate   *)
(* thread for a duplicate, the Compress thread for the others.             *)
(***************************************************************************)
EXTENDS DedupQueue, MBuffer, SequencesExt

CONSTANTS Producers, Consumers,
          ChunkSize,   \* bytes in the coarse chunk of each producer
          PerInsert,   \* CHUNK_ANCHOR_PER_INSERT: size of a send buffer
          PerFetch     \* CHUNK_ANCHOR_PER_FETCH: size of a receive buffer

(* A handle is named by its producer and the offset at which it begins;    *)
(* the same pair names the byte at that offset.                            *)
ASSUME StageAssumption ==
  /\ Handles = Producers \X (0..MaxSize - 1)
  /\ Items = Handles
  /\ Blocks = Producers /\ Releasers = Consumers
  /\ QThreads = Producers \cup Consumers /\ Producers \cap Consumers = {}
  /\ IsFiniteSet(Producers) /\ NProducers = Cardinality(Producers)
  /\ ChunkSize \in [Producers -> 1..MaxSize]
  /\ PerInsert \in Nat \ {0} /\ PerFetch \in Nat \ {0}

VARIABLES pc,
          chunk,     \* the coarse chunk of a producer, or what is left of it
          sendBuf,   \* pieces it has cut and not sent
          recvBuf,   \* pieces a consumer has received and not freed
          got        \* history: the bytes each consumer has received
stageVars == <<pc, chunk, sendBuf, recvBuf, got>>
vars == <<queueVars, mbVars, stageVars>>

Bytes(h) == [i \in 1..handle[h].n |-> <<h[1], handle[h].off + i - 1>>]
AllBytes(s) == FlattenSeq([i \in 1..Len(s) |-> Bytes(s[i])])

Init ==
  /\ QueueInit /\ MBufferInit
  /\ pc = [t \in QThreads |-> IF t \in Producers THEN "read" ELSE "dequeue"]
  /\ chunk = [p \in Producers |-> NoItem]
  /\ sendBuf = [p \in Producers |-> <<>>]
  /\ recvBuf = [c \in Consumers |-> <<>>]
  /\ got = [c \in Consumers |-> {}]

Goto(t, l) == pc' = [pc EXCEPT ![t] = l]
-----------------------------------------------------------------------------
(* Fragment makes a buffer of the maximal size and shrinks it to what was  *)
(* read; it asserts that the shrinking succeeds.                           *)
ReadInput(p) ==
  /\ pc[p] = "read"
  /\ Create(<<p, 0>>, p, MaxSize)
  /\ chunk' = [chunk EXCEPT ![p] = <<p, 0>>]
  /\ Goto(p, IF ChunkSize[p] < MaxSize THEN "shrink" ELSE "cut")
  /\ UNCHANGED <<queueVars, sendBuf, recvBuf, got>>

Shrink(p) ==
  /\ pc[p] = "shrink"
  /\ Realloc(chunk[p], ChunkSize[p])
  /\ Goto(p, "cut")
  /\ UNCHANGED <<queueVars, chunk, sendBuf, recvBuf, got>>

\* Mutant: a full send buffer is not sent.
CutWithoutFlush(p) ==
  /\ pc[p] = "cut"
  /\ \E s \in 1..handle[chunk[p]].n - 1 :
       LET rest == <<p, handle[chunk[p]].off + s>>
       IN Split(chunk[p], rest, s) /\ chunk' = [chunk EXCEPT ![p] = rest]
  /\ sendBuf' = [sendBuf EXCEPT ![p] = Append(@, chunk[p])]
  /\ Goto(p, "cut")
  /\ UNCHANGED <<queueVars, recvBuf, got>>

(* The loop of FragmentRefine: an anchor is found inside the buffer, and   *)
(* the piece before it goes to the send buffer ...                         *)
Cut(p) ==
  /\ pc[p] = "cut"
  /\ \E s \in 1..handle[chunk[p]].n - 1 :
       LET rest == <<p, handle[chunk[p]].off + s>>
       IN Split(chunk[p], rest, s) /\ chunk' = [chunk EXCEPT ![p] = rest]
  /\ sendBuf' = [sendBuf EXCEPT ![p] = Append(@, chunk[p])]
  /\ Goto(p, IF Len(sendBuf'[p]) = PerInsert THEN "enqueue" ELSE "cut")
  /\ UNCHANGED <<queueVars, recvBuf, got>>

(* ... or there is none, and what is left is the last piece. *)
LastPiece(p) ==
  /\ pc[p] = "cut"
  /\ sendBuf' = [sendBuf EXCEPT ![p] = Append(@, chunk[p])]
  /\ chunk' = [chunk EXCEPT ![p] = NoItem]
  /\ Goto(p, "enqueue")
  /\ UNCHANGED <<queueVars, mbVars, recvBuf, got>>

EnqueueWaits(p) ==
  /\ pc[p] = "enqueue" /\ WaitNotFull(p)
  /\ UNCHANGED <<mbVars, stageVars>>

\* Mutant: the last piece sent stays in the send buffer.
EnqueueBatchKeepsLast(p) ==
  /\ pc[p] = "enqueue"
  /\ Enqueue(p, sendBuf[p], PerInsert)
  /\ LET k == NumToEnqueue(sendBuf[p], PerInsert)
     IN sendBuf' = [sendBuf EXCEPT ![p] = SubSeq(@, k, Len(@))]
  /\ Goto(p, IF chunk[p] # NoItem THEN "cut"
             ELSE IF sendBuf'[p] # <<>> THEN "enqueue" ELSE "terminate")
  /\ UNCHANGED <<mbVars, chunk, recvBuf, got>>

(* A full buffer is offered to the queue once; at the end the buffer is    *)
(* drained.                                                                *)
EnqueueBatch(p) ==
  /\ pc[p] = "enqueue"
  /\ Enqueue(p, sendBuf[p], PerInsert)
  /\ LET k == NumToEnqueue(sendBuf[p], PerInsert)
     IN sendBuf' = [sendBuf EXCEPT ![p] = SubSeq(@, k + 1, Len(@))]
  /\ Goto(p, IF chunk[p] # NoItem THEN "cut"
             ELSE IF sendBuf'[p] # <<>> THEN "enqueue" ELSE "terminate")
  /\ UNCHANGED <<mbVars, chunk, recvBuf, got>>

TerminateQueue(p) ==
  /\ pc[p] = "terminate" /\ Terminate(p)
  /\ Goto(p, "end")
  /\ UNCHANGED <<mbVars, chunk, sendBuf, recvBuf, got>>
-----------------------------------------------------------------------------
DequeueWaits(c) ==
  /\ pc[c] = "dequeue" /\ WaitNotEmpty(c)
  /\ UNCHANGED <<mbVars, stageVars>>

DequeueBatch(c) ==
  /\ pc[c] = "dequeue" /\ Dequeue(c, PerFetch)
  /\ recvBuf' = [recvBuf EXCEPT ![c] = SubSeq(Contents, 1, NumToDequeue(PerFetch))]
  /\ got' = [got EXCEPT ![c] = @ \cup ToSet(AllBytes(recvBuf'[c]))]
  /\ Goto(c, "use")
  /\ UNCHANGED <<mbVars, chunk, sendBuf>>

DequeueStops(c) ==
  /\ pc[c] = "dequeue" /\ DequeueEnd(c)
  /\ Goto(c, "end")
  /\ UNCHANGED <<mbVars, chunk, sendBuf, recvBuf, got>>

(* The last access to the data of a piece, and mbuffer_free. *)
Free(c) ==
  /\ pc[c] = "use" /\ FreeRef(c, Head(recvBuf[c]))
  /\ recvBuf' = [recvBuf EXCEPT ![c] = Tail(@)]
  /\ Goto(c, IF recvBuf'[c] = <<>> THEN "dequeue" ELSE "use")
  /\ UNCHANGED <<queueVars, chunk, sendBuf, got>>

Release(c) ==
  /\ FreeBlock(c)
  /\ UNCHANGED <<queueVars, stageVars>>

Spurious(t) == SpuriousWakeup(t) /\ UNCHANGED <<mbVars, stageVars>>

(* All threads have returned and joined. *)
AllDone == \A t \in QThreads : pc[t] = "end"
Finished == AllDone /\ UNCHANGED vars

Refine(p) == \/ ReadInput(p) \/ Shrink(p) \/ Cut(p) \/ LastPiece(p)
             \/ EnqueueWaits(p) \/ EnqueueBatch(p) \/ TerminateQueue(p)
(* A thread inside mbuffer_free does nothing else. *)
Consume(c) == IF dying[c] # None THEN Release(c)
              ELSE DequeueWaits(c) \/ DequeueBatch(c) \/ DequeueStops(c) \/ Free(c)

Next == \/ \E p \in Producers : Refine(p)
        \/ \E c \in Consumers : Consume(c)
        \/ \E t \in QThreads : Spurious(t)
        \/ Finished

Spec == /\ Init /\ [][Next]_vars
        /\ \A p \in Producers : WF_vars(Refine(p))
        /\ \A c \in Consumers : WF_vars(Consume(c))
-----------------------------------------------------------------------------
Labels == {"read", "shrink", "cut", "enqueue", "terminate", "dequeue", "use", "end"}

(* Every variable keeps its type; at most as many producers terminate as   *)
(* queue_init was told, and a send buffer never overflows.                 *)
TypeOK ==
  /\ QueueTypeOK /\ MBufferTypeOK
  /\ pc \in [QThreads -> Labels]
  /\ chunk \in [Producers -> Handles \cup {NoItem}]
  /\ \A p \in Producers : Len(sendBuf[p]) <= PerInsert
  /\ \A c \in Consumers : Len(recvBuf[c]) <= PerFetch

(* The callers keep the promise of exclusive access that mbuffer.h:9-13    *)
(* asks for: a handle in use is in one place - the chunk a producer cuts,  *)
(* its send buffer, the queue or the receive buffer of a consumer - and a  *)
(* place never names a handle that was freed.                              *)
Nth(s, i) == IF i <= Len(s) THEN s[i] ELSE NoItem
Places ==
  ({"chunk"} \X Producers \X {1}) \cup ({"send"} \X Producers \X (1..PerInsert))
  \cup ({"queue"} \X {NoItem} \X (1..QueueSize)) \cup ({"recv"} \X Consumers \X (1..PerFetch))
Item(x) == IF x[1] = "chunk" THEN chunk[x[2]]
           ELSE IF x[1] = "send" THEN Nth(sendBuf[x[2]], x[3])
           ELSE IF x[1] = "queue" THEN Nth(Contents, x[3])
           ELSE Nth(recvBuf[x[2]], x[3])
ExclusiveAccess ==
  /\ \A x, y \in Places : Item(x) = Item(y) /\ Item(x) # NoItem => x = y
  /\ \A h \in Handles : InUse(h) <=> \E x \in Places : Item(x) = h

(* The stage is a channel of bytes: each byte of the coarse chunks reaches *)
(* one consumer once, in the order of its chunk; no consumer stops while   *)
(* something is left or waits for ever; no producer waits for ever.        *)
(* (queue.c, under signals for batches and spurious wake-ups)              *)
Source == [p \in Producers |-> [i \in 1..ChunkSize[p] |-> <<p, i - 1>>]]
Unsent(p) ==
  IF pc[p] \in {"read", "shrink"} THEN Source[p]
  ELSE AllBytes(sendBuf[p]) \o (IF chunk[p] = NoItem THEN <<>> ELSE Bytes(chunk[p]))

Channel == INSTANCE ClosableChannel WITH
  toSend <- [p \in Producers |-> Unsent(p)],
  chan   <- AllBytes(Contents),
  closed <- {p \in Producers : pc[p] = "end"},
  ended  <- {c \in Consumers : pc[c] = "end"}
ImplementsChannel == Channel!Spec
-----------------------------------------------------------------------------
(* The inductive invariant. *)

(* A producer has a chunk from the read to its last piece, and the chunk   *)
(* is named by where it begins; it offers its send buffer to the queue     *)
(* when that is full, and at the end.  No handle is in use for bytes it    *)
(* has not come to, so that a split always finds a new one.                *)
ProducerInv(p) ==
  /\ pc[p] \in {"read", "shrink", "cut", "enqueue", "terminate", "end"}
  /\ sendBuf[p] \in Seq(Handles) /\ Len(sendBuf[p]) <= PerInsert
  /\ pc[p] \in {"read", "shrink", "terminate", "end"} => sendBuf[p] = <<>>
  /\ pc[p] = "cut" => Len(sendBuf[p]) < PerInsert
  /\ pc[p] = "enqueue" => /\ sendBuf[p] # <<>>
                          /\ chunk[p] # NoItem => Len(sendBuf[p]) = PerInsert
  /\ pc[p] \in {"read", "terminate", "end"} => chunk[p] = NoItem
  /\ pc[p] \in {"shrink", "cut"} => chunk[p] # NoItem
  /\ pc[p] = "shrink" => chunk[p] = <<p, 0>>
  /\ chunk[p] # NoItem => chunk[p] = <<p, handle[chunk[p]].off>>
  /\ \A i \in 0..MaxSize - 1 : InUse(<<p, i>>) =>
       pc[p] # "read" /\ (chunk[p] # NoItem => i <= chunk[p][2])

(* A consumer that uses pieces has some.                                   *)
ConsumerInv(c) ==
  /\ pc[c] \in {"dequeue", "use", "end"}
  /\ recvBuf[c] \in Seq(Handles) /\ Len(recvBuf[c]) <= PerFetch
  /\ pc[c] = "use" <=> recvBuf[c] # <<>>

StageInv ==
  /\ pc \in [QThreads -> Labels]
  /\ chunk \in [Producers -> Handles \cup {NoItem}]
  /\ sendBuf \in [Producers -> Seq(Handles)]
  /\ recvBuf \in [Consumers -> Seq(Handles)]
  /\ \A p \in Producers : ProducerInv(p)
  /\ \A c \in Consumers : ConsumerInv(c)
  /\ Contents \in Seq(Handles)
  /\ nTerminated = Cardinality({p \in Producers : pc[p] = "end"})

BufferInv == MBufferTypeOK /\ NoHandleDangles /\ FreedByTheLast

IInv == QueueTypeOK /\ BufferInv /\ StageInv /\ ExclusiveAccess
=============================================================================
