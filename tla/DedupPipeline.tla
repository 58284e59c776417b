---------------------------- MODULE DedupPipeline ----------------------------
(***************************************************************************)
(* The encoder of dedup (K/dedup/src/encoder.c): Fragment cuts the input   *)
(* into coarse chunks, FragmentRefine cuts those into fine chunks,         *)
(* Deduplicate looks each one up in a table shared by all threads and      *)
(* sends new ones to Compress and duplicates straight on to Reorder, which *)
(* gets the chunks in any order and writes them in the order of the input. *)
(*                                                                         *)
(* The stages are joined by groups of queues; thread tid of a stage uses   *)
(* the queues of group tid / MAX_THREADS_PER_QUEUE, Fragment and Reorder   *)
(* use all groups in turn.  A queue is what module ClosableChannel         *)
(* promises, a sequence and a count of terminated producers: DedupStage    *)
(* shows that queue.c keeps the promise.  Chunk <<i, j>> is fine chunk j   *)
(* of coarse chunk i: its sequence numbers are i and j.  Before it is cut  *)
(* off, <<i, j>> stands for what is left of coarse chunk i from there on.  *)
(***************************************************************************)
EXTENDS Integers, Sequences, SequencesExt, FiniteSets, FiniteSetsExt

CONSTANTS Input,             \* a sequence of coarse chunks, each the sequence
                             \* of the contents of its fine chunks
          NThreads,          \* conf->nthreads
          ThreadsPerQueue,   \* MAX_THREADS_PER_QUEUE
          QueueSize,         \* QUEUE_SIZE
          PerInsert,         \* ITEM_PER_INSERT, CHUNK_ANCHOR_PER_INSERT
          PerFetch,          \* ITEM_, CHUNK_ANCHOR_ and MAX_PER_FETCH
          AnchorRoom,        \* first size of chunks_per_anchor, 1024
          NoChunk

\* chunks_per_anchor is doubled at most once for a chunk, so a chunk that
\* overtakes AnchorRoom coarse chunks would be out of its bounds (4 GB of
\* input with the code's 1024); inputs are shorter here.
ASSUME InputFits == AnchorRoom \in Nat /\ Len(Input) <= 2 * AnchorRoom
ASSUME InputIsCut == Input \in Seq(Seq(UNION {Range(c) : c \in Range(Input)}) \ {<<>>})
ASSUME SizesPositive == {NThreads, ThreadsPerQueue, QueueSize, PerInsert, PerFetch} \subseteq Nat \ {0}

L1 == 0..Len(Input) - 1
L2(i) == 0..Len(Input[i + 1]) - 1
Chunks == UNION {{i} \X L2(i) : i \in L1}
Content(k) == Input[k[1] + 1][k[2] + 1]
IsLastL2Chunk(k) == k[2] = Len(Input[k[1] + 1]) - 1
Contents == {Content(k) : k \in Chunks}
Stream == FlattenSeq(Input)

ASSUME NoChunkIsNone == NoChunk \notin Chunks

NQueues == (NThreads \div ThreadsPerQueue) + (IF NThreads % ThreadsPerQueue # 0 THEN 1 ELSE 0)
Groups == 0..NQueues - 1
Stages == {"refine", "dedup", "compress"}
Queues == Stages \cup {"reorder"}           \* each named for its reader
Workers == Stages \X (0..NThreads - 1)
Stage(w) == w[1]
Qid(w) == w[2] \div ThreadsPerQueue
SendsTo(w) == CASE Stage(w) = "refine"   -> {"dedup"}
                [] Stage(w) = "dedup"    -> {"compress", "reorder"}
                [] Stage(w) = "compress" -> {"reorder"}
Terminates(w) == CASE Stage(w) = "refine"   -> "dedup"
                   [] Stage(w) = "dedup"    -> "compress"
                   [] Stage(w) = "compress" -> "reorder"

VARIABLES sent,      \* coarse chunks Fragment has read and sent; at the end of
                     \* the input the groups it has terminated count on
          queue,     \* items in the queue of a stage and a group
          ended,     \* nTerminated of that queue
          pc,        \* what a worker does next
          recv,      \* recv_buf of a worker
          send,      \* send buffers of a worker
          original,  \* the chunk itself when new, compressed_data_ref when not
          table,     \* cache2: the chunk first seen with some contents
          state,     \* header.state of a chunk
          writer,    \* the locals of Reorder
          file       \* the records in the output file

encoderVars == <<sent, queue, ended, pc, recv, send>>
chunkVars == <<original, table, state>>
vars == <<encoderVars, chunkVars, writer, file>>

-----------------------------------------------------------------------------
(* The queues *)

FullGroup(q, g) ==      \* mutant: the last group is taken for a full one
  IF q = "refine" THEN 1 ELSE ThreadsPerQueue

NProducers(q, g) ==
  IF q = "refine" THEN 1
  ELSE IF g < NQueues - 1 \/ NThreads % ThreadsPerQueue = 0 THEN ThreadsPerQueue
  ELSE NThreads % ThreadsPerQueue
Drained(q, g) == queue[<<q, g>>] = <<>> /\ ended[<<q, g>>] = NProducers(q, g)
RoomForAll(q, g) == PerInsert        \* mutant: nobody looks how full the queue is
Room(q, g) == QueueSize - Len(queue[<<q, g>>])
Taken(q, g) == Min({PerFetch, Len(queue[<<q, g>>])})

-----------------------------------------------------------------------------
(* Fragment: coarse chunks one at a time to the groups in turn *)

Fragment ==
  LET g == sent % NQueues
  IN  /\ sent < Len(Input)
      /\ Room("refine", g) > 0
      /\ queue' = [queue EXCEPT ![<<"refine", g>>] = Append(@, <<sent, 0>>)]
      /\ sent' = sent + 1
      /\ UNCHANGED <<ended, pc, recv, send, chunkVars, writer, file>>

\* The end of the input: Fragment terminates one group after the other.
FragmentEnds ==
  LET g == sent - Len(Input)
  IN  /\ sent >= Len(Input) /\ g < NQueues
      /\ ended' = [ended EXCEPT ![<<"refine", g>>] = @ + 1]
      /\ sent' = sent + 1
      /\ UNCHANGED <<queue, pc, recv, send, chunkVars, writer, file>>

-----------------------------------------------------------------------------
(* What the three kinds of workers share *)

Fetch(w) ==
  LET q == Stage(w)
      g == Qid(w)
  IN  /\ pc[w] = "work" /\ recv[w] = <<>>
      /\ \A out \in SendsTo(w) : Len(send[w][out]) < PerInsert
      /\ queue[<<q, g>>] # <<>>
      /\ recv' = [recv EXCEPT ![w] = SubSeq(queue[<<q, g>>], 1, Taken(q, g))]
      /\ queue' = [queue EXCEPT ![<<q, g>>] = SubSeq(@, Taken(q, g) + 1, Len(@))]
      /\ UNCHANGED <<sent, ended, pc, send, chunkVars, writer, file>>

\* The queue is empty and all its producers have terminated.
FetchFails(w) ==
  /\ pc[w] = "work" /\ recv[w] = <<>>
  /\ \A out \in SendsTo(w) : Len(send[w][out]) < PerInsert
  /\ Drained(Stage(w), Qid(w))
  /\ pc' = [pc EXCEPT ![w] = "drain"]
  /\ UNCHANGED <<sent, queue, ended, recv, send, chunkVars, writer, file>>

\* A full send buffer goes to its queue, at the end every buffer does; the
\* queue takes as much as it has room for.  Deduplicate empties its buffer
\* for the compressors first.
FlushDue(w, out) ==
  \/ pc[w] = "work" /\ Len(send[w][out]) = PerInsert
  \/ /\ pc[w] = "drain" /\ send[w][out] # <<>>
     /\ out = "reorder" /\ "compress" \in SendsTo(w) => send[w]["compress"] = <<>>
Flush(w, out) ==
  LET g == Qid(w)
      n == Min({Len(send[w][out]), Room(out, g)})
  IN  /\ out \in SendsTo(w) /\ FlushDue(w, out)
      /\ n > 0
      /\ queue' = [queue EXCEPT ![<<out, g>>] = @ \o SubSeq(send[w][out], 1, n)]
      /\ send' = [send EXCEPT ![w][out] = SubSeq(@, n + 1, Len(@))]
      /\ UNCHANGED <<sent, ended, pc, recv, chunkVars, writer, file>>

TerminateEarly(w) ==    \* mutant: the queue is terminated before the buffers are empty
  /\ pc[w] = "drain"
  /\ ended' = [ended EXCEPT ![<<Terminates(w), Qid(w)>>] = @ + 1]
  /\ pc' = [pc EXCEPT ![w] = "done"]
  /\ UNCHANGED <<sent, queue, recv, send, chunkVars, writer, file>>

Terminate(w) ==
  /\ pc[w] = "drain"
  /\ \A out \in SendsTo(w) : send[w][out] = <<>>
  /\ ended' = [ended EXCEPT ![<<Terminates(w), Qid(w)>>] = @ + 1]
  /\ pc' = [pc EXCEPT ![w] = "done"]
  /\ UNCHANGED <<sent, queue, recv, send, chunkVars, writer, file>>

\* One chunk from the receive buffer to the send buffer of queue out.
Works(w) == /\ pc[w] = "work" /\ recv[w] # <<>>
            /\ \A out \in SendsTo(w) : Len(send[w][out]) < PerInsert
Pass(w, out) ==
  /\ recv' = [recv EXCEPT ![w] = Tail(@)]
  /\ send' = [send EXCEPT ![w][out] = Append(@, Head(recv[w]))]

-----------------------------------------------------------------------------
(* The three kinds of workers *)

\* FragmentRefine cuts the next fine chunk off the coarse chunk in hand.
Refine(w) ==
  LET k == Head(recv[w])
  IN  /\ Stage(w) = "refine" /\ Works(w)
      /\ IF IsLastL2Chunk(k) THEN Pass(w, "dedup")
         ELSE /\ recv' = [recv EXCEPT ![w][1] = <<k[1], k[2] + 1>>]
              /\ send' = [send EXCEPT ![w]["dedup"] = Append(@, k)]
      /\ UNCHANGED <<sent, queue, ended, pc, chunkVars, writer, file>>

DeduplicateUnlocked(w) ==       \* mutant: another thread's insertion can be missed
  /\ Stage(w) = "dedup" /\ Works(w)
  /\ \E entry \in {table[Content(Head(recv[w]))], NoChunk} :
       LET k == Head(recv[w])
           o == IF entry = NoChunk THEN k ELSE entry
       IN  /\ original' = [original EXCEPT ![k] = o]
           /\ table' = [table EXCEPT ![Content(k)] = o]
           /\ Pass(w, IF o = k THEN "compress" ELSE "reorder")
           /\ UNCHANGED <<sent, queue, ended, pc, state, writer, file>>

\* sub_Deduplicate: the search and the insertion are under one lock.
Deduplicate(w) ==
  LET k == Head(recv[w])
      entry == table[Content(k)]
  IN  /\ Stage(w) = "dedup" /\ Works(w)
      /\ original' = [original EXCEPT ![k] = IF entry = NoChunk THEN k ELSE entry]
      /\ table' = [table EXCEPT ![Content(k)] = IF entry = NoChunk THEN k ELSE entry]
      /\ Pass(w, IF entry = NoChunk THEN "compress" ELSE "reorder")
      /\ UNCHANGED <<sent, queue, ended, pc, state, writer, file>>

Compress(w) ==
  LET k == Head(recv[w])
  IN  /\ Stage(w) = "compress" /\ Works(w)
      /\ state' = [state EXCEPT ![k] = "compressed"]
      /\ Pass(w, "reorder")
      /\ UNCHANGED <<sent, queue, ended, pc, original, table, writer, file>>

Work(w) == Refine(w) \/ Deduplicate(w) \/ Compress(w)
Worker(w) == \/ Fetch(w) \/ FetchFails(w) \/ Work(w) \/ Terminate(w)
             \/ \E out \in Queues : Flush(w, out)

-----------------------------------------------------------------------------
(* Reorder.  writer.next is the sequence number of the next chunk to       *)
(* write, writer.bound the number of fine chunks of a coarse chunk, known  *)
(* when its last one has come (chunks_per_anchor, 0 before), writer.held   *)
(* the chunks that came too early (a tree of heaps).                       *)

LessEq(k, l) == k[1] < l[1] \/ (k[1] = l[1] /\ k[2] <= l[2])
FirstHeld(held) == CHOOSE k \in held : \A l \in held : LessEq(k, l)
NextHeld(held, next) ==
  IF held # {} /\ FirstHeld(held) = next THEN next ELSE NoChunk

Advance(next, bound) ==
  IF bound[next[1]] # 0 /\ next[2] + 1 = bound[next[1]]
  THEN <<next[1] + 1, 0>> ELSE <<next[1], next[2] + 1>>

\* One queue_dequeue of the round-robin.
ReorderFetch ==
  LET g == writer.qid
      turn == [writer EXCEPT !.qid = (g + 1) % NQueues]
  IN  /\ writer.pc = "fetch"
      /\ \/ /\ queue[<<"reorder", g>>] # <<>>
            /\ queue' = [queue EXCEPT ![<<"reorder", g>>] = SubSeq(@, Taken("reorder", g) + 1, Len(@))]
            /\ writer' = [turn EXCEPT !.pc = "take", !.tries = 0,
                                      !.recv = SubSeq(queue[<<"reorder", g>>], 1, Taken("reorder", g))]
         \/ /\ Drained("reorder", g)
            /\ writer' = [turn EXCEPT !.tries = @ + 1,
                                      !.pc = IF writer.tries + 1 = NQueues THEN "flush" ELSE "fetch"]
            /\ UNCHANGED queue
      /\ UNCHANGED <<sent, ended, pc, recv, send, chunkVars, file>>

AfterTake(items) == IF items = <<>> THEN "fetch" ELSE "take"

\* The next chunk of the receive buffer: the size of its coarse chunk is
\* noted if it is the last, and it is held or written.
ReorderTake ==
  LET k == Head(writer.recv)
      rest == Tail(writer.recv)
      noted == [writer EXCEPT
                  !.recv = rest,
                  !.room = IF k[1] >= @ THEN 2 * @ ELSE @,
                  !.bound[k[1]] = IF IsLastL2Chunk(k) THEN k[2] + 1 ELSE @]
  IN  /\ writer.pc = "take"
      /\ \/ /\ k # writer.next
            /\ writer' = [noted EXCEPT !.held = @ \cup {k}, !.pc = AfterTake(rest)]
         \/ /\ k = writer.next
            /\ writer' = [noted EXCEPT !.chunk = k, !.pc = "write"]
      /\ UNCHANGED <<encoderVars, chunkVars, file>>

\* write_chunk_to_file waits until the original is compressed; the first of
\* the chunks with some contents to be written is written as data.
WriteAtOnce(k) ==       \* mutant: a duplicate does not wait for its original
  LET o == original[k]
  IN  IF o # k \/ state[o] = "flushed"
      THEN /\ file' = Append(file, [type |-> "fingerprint", content |-> Content(o)])
           /\ UNCHANGED state
      ELSE /\ state[o] = "compressed"
           /\ file' = Append(file, [type |-> "compress", content |-> Content(o)])
           /\ state' = [state EXCEPT ![o] = "flushed"]

write_chunk_to_file(k) ==
  LET o == original[k]
  IN  \/ /\ state[o] = "compressed"
         /\ file' = Append(file, [type |-> "compress", content |-> Content(o)])
         /\ state' = [state EXCEPT ![o] = "flushed"]
      \/ /\ state[o] = "flushed"
         /\ file' = Append(file, [type |-> "fingerprint", content |-> Content(o)])
         /\ UNCHANGED state

\* One turn of the write loop, then the next chunk if it is held.
ReorderWrite ==
  LET next == Advance(writer.next, writer.bound)
      following == NextHeld(writer.held, next)
  IN  /\ writer.pc = "write"
      /\ write_chunk_to_file(writer.chunk)
      /\ writer' = [writer EXCEPT !.next = next, !.chunk = following,
                                  !.held = @ \ {following},
                                  !.pc = IF following # NoChunk THEN "write"
                                         ELSE AfterTake(writer.recv)]
      /\ UNCHANGED <<encoderVars, original, table>>

\* After the last chunk: what is still held is written, a gap aborts.
ReorderFlush ==
  LET k == FirstHeld(writer.held)
  IN  /\ writer.pc = "flush"
      /\ \/ /\ writer.held # {} /\ k = writer.next
            /\ write_chunk_to_file(k)
            /\ writer' = [writer EXCEPT !.held = @ \ {k}, !.next = Advance(@, writer.bound)]
         \/ /\ writer.held # {} /\ k # writer.next
            /\ writer' = [writer EXCEPT !.pc = "abort"]
            /\ UNCHANGED <<state, file>>
         \/ /\ writer.held = {}
            /\ writer' = [writer EXCEPT !.pc = "done"]
            /\ UNCHANGED <<state, file>>
      /\ UNCHANGED <<encoderVars, original, table>>

Reorder == ReorderFetch \/ ReorderTake \/ ReorderWrite \/ ReorderFlush

-----------------------------------------------------------------------------
(* Encode: the queues are set up, all threads are created and joined *)

Joined == /\ sent = Len(Input) + NQueues
          /\ \A w \in Workers : pc[w] = "done"
          /\ writer.pc = "done"

Init ==
  /\ sent = 0
  /\ queue = [x \in Queues \X Groups |-> <<>>]
  /\ ended = [x \in Queues \X Groups |-> 0]
  /\ pc = [w \in Workers |-> "work"]
  /\ recv = [w \in Workers |-> <<>>]
  /\ send = [w \in Workers |-> [out \in SendsTo(w) |-> <<>>]]
  /\ original = [k \in Chunks |-> NoChunk]
  /\ table = [c \in Contents |-> NoChunk]
  /\ state = [k \in Chunks |-> "uncompressed"]
  /\ writer = [pc |-> "fetch", qid |-> 0, tries |-> 0, recv |-> <<>>, next |-> <<0, 0>>,
               room |-> AnchorRoom, bound |-> [i \in 0..Len(Input) |-> 0], held |-> {},
               chunk |-> NoChunk]
  /\ file = <<>>

Finished == Joined /\ UNCHANGED vars

Next == \/ Fragment \/ FragmentEnds \/ Reorder \/ Finished
        \/ \E w \in Workers : Worker(w)

Fairness == /\ WF_vars(Fragment \/ FragmentEnds) /\ WF_vars(Reorder)
            /\ \A w \in Workers : WF_vars(Worker(w))
Spec == Init /\ [][Next]_vars /\ Fairness

-----------------------------------------------------------------------------
(* Decode (K/dedup/src/decoder.c): data is unpacked and remembered, a      *)
(* fingerprint is looked up among the data that came before it.            *)

Decode(records) ==
  LET known(n) == {records[m].content : m \in {l \in 1..n - 1 : records[l].type = "compress"}}
      Found(n) == records[n].type = "compress" \/ records[n].content \in known(n)
  IN  [ok |-> \A n \in DOMAIN records : Found(n),
       out |-> [n \in DOMAIN records |-> records[n].content]]

-----------------------------------------------------------------------------
(* Properties *)

\* Types of the encoder's variables.
TypeOK ==
  /\ sent \in 0..Len(Input) + NQueues
  /\ \A g \in Groups, q \in Queues : /\ Range(queue[<<q, g>>]) \subseteq Chunks
                                      /\ Len(queue[<<q, g>>]) <= QueueSize
                                      /\ ended[<<q, g>>] <= NProducers(q, g)
  /\ \A w \in Workers : /\ pc[w] \in {"work", "drain", "done"}
                        /\ Range(recv[w]) \subseteq Chunks
                        /\ \A out \in SendsTo(w) : Len(send[w][out]) <= PerInsert
  /\ original \in [Chunks -> Chunks \cup {NoChunk}]
  /\ table \in [Contents -> Chunks \cup {NoChunk}]
  /\ state \in [Chunks -> {"uncompressed", "compressed", "flushed"}]
  /\ writer.pc \in {"fetch", "take", "write", "flush", "done", "abort"}
  /\ writer.held \subseteq Chunks

\* What encoder.c asserts or exits on: nothing is put into a queue all of
\* whose producers have terminated, the compressor is given each chunk once,
\* the size of a coarse chunk is noted once and within the array, and the
\* last writes of Reorder find no gap in the sequence numbers.
AssertionsHold ==
  /\ \A w \in Workers : \A out \in SendsTo(w) :
        FlushDue(w, out) => ended[<<out, Qid(w)>>] < NProducers(out, Qid(w))
  /\ \A w \in Workers : Stage(w) = "compress" /\ recv[w] # <<>>
        => state[Head(recv[w])] = "uncompressed"
  /\ writer.pc = "take" =>
        LET k == Head(writer.recv)
        IN  /\ k[1] < 2 * writer.room
            /\ IsLastL2Chunk(k) => writer.bound[k[1]] = 0
  /\ writer.pc # "abort"

\* What is in the file can be decoded at any time, to the beginning of the
\* input: decoder.c never meets a fingerprint before the data it stands for.
Decodable ==
  LET d == Decode(file)
  IN  d.ok /\ IsPrefix(d.out, Stream)

\* The encoder implements the archive: records in the order of the input,
\* the first chunk with some contents as data, and all of them in the end.
Archive == INSTANCE DedupArchive
ImplementsArchive == Archive!Spec

\* Encode gets all its threads back and has nothing left in the pipeline.
EncodeReturns == <>[](Joined /\ writer.held = {} /\ \A x \in DOMAIN queue : queue[x] = <<>>)
=============================================================================
