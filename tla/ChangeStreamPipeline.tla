------------------------ MODULE ChangeStreamPipeline ------------------------
(***************************************************************************)
(* The live-replication pipeline of pkg/migration/parallel.go: one reader  *)
(* goroutine per change stream, the distributor, and per worker an event   *)
(* loop and a writer goroutine, around the checkpoint ledger of module     *)
(* PartitionTracker.                                                       *)
(*                                                                         *)
(*   readers -> ingestQueue -> distributor -> batchingQueue[w] ->          *)
(*   event loop w -> batchWriteQueue[w] -> writer w -> target, DLQ         *)
(*                                                                         *)
(* Only the writer touches the target; whoever disposes of an event Acks   *)
(* it.  Cancelling the shared context stops every goroutine in an order    *)
(* the deferred calls of Start fix, and Close flushes the last checkpoint. *)
(*                                                                         *)
(* A document is abstracted to the position of the event its state comes   *)
(* from, so that a lost or a reordered write shows.  A bulk write may fail *)
(* in any operations, for any reason (a duplicate key included).           *)
(***************************************************************************)
EXTENDS PartitionTracker

CONSTANTS
  Log,                    \* per stream, its change events: [op, doc] records
  Docs,                   \* documents
  Workers,                \* 1..n, in the order they are shut down
  WorkerOf,               \* the hash of the document id
  Namespace,              \* of each document
  BatchSize,              \* incrementalWriteBatchSize
  IngestCap, BatchCap, WriteCap,  \* queue capacities
  GroupOpsByDistinctId, ForceOrdered,  \* options
  Untransformable,        \* <<stream, position>> of events Transform rejects
  Clashing,               \* <<stream, position>> of events whose document may
                          \* clash with another one in a unique index
  MayCancel,              \* interrupts and stream errors happen
  MaxRestarts             \* bound: restarts after a crash or a shutdown

Applied == {"insert", "update", "replace", "delete"}
OpTypes == Applied \cup {"updateWithoutDocument", "unsupported", "drop"}

ASSUME LogAssumption ==
  /\ \A s \in Streams : /\ Log[s] \in Seq([op : OpTypes, doc : Docs])
                        /\ Len(Log[s]) = StreamLength[s]
  /\ \A s, t \in Streams : s # t =>
       \A i \in DOMAIN Log[s], j \in DOMAIN Log[t] : Log[s][i].doc # Log[t][j].doc
ASSUME WorkerAssumption ==
  /\ Workers # {} /\ Workers = 1..Cardinality(Workers)
  /\ WorkerOf \in [Docs -> Workers]
ASSUME SizeAssumption ==
  {BatchSize, IngestCap, BatchCap, WriteCap} \subseteq Nat \ {0}

VARIABLES
  ingestQueue,      \* events from the readers
  readerHand,       \* per stream: the event registered and not yet handed on
  readerDone,       \* streams whose reader has returned
  distHand,         \* the event the distributor is about to hand on
  distDone,         \* the main loop of Start has returned
  batchingQueue,    \* per worker: events
  currentGroup,     \* per worker: the group being built
  loopDone,         \* workers whose event loop has closed its write queue
  batchWriteQueue,  \* per worker: groups
  writer,           \* per worker: the executeBatchWrite in progress
  cancelled,        \* cancelCtx is done
  target,           \* position of the event each target document reflects
  dlq,              \* position of a document's unresolved failure, 0 for none
  unwritten,        \* history: positions an error path has left neither
                    \* written nor in the DLQ
  restarts

goroutineVars == <<ingestQueue, readerHand, readerDone, distHand, distDone,
                   batchingQueue, currentGroup, loopDone, batchWriteQueue,
                   writer, cancelled>>
dataVars == <<target, dlq, unwritten>>
vars == <<trackerVars, goroutineVars, dataVars, restarts>>

\* An event in flight; the reader of e.stream registered it under e.seq.
Op(e) == Log[e.stream][e.pos].op
Doc(e) == Log[e.stream][e.pos].doc

\* executeBatchWrite: the group it works on; whether it runs in a context of
\* its own, the shared one being done when it began; the operations still to
\* retry one by one or to acknowledge; and those that got a SuccessTime.
IdleWriter == [stage |-> "idle", group |-> << >>, fresh |-> FALSE,
               todo |-> {}, ok |-> {}]

FreshGoroutines ==
  /\ ingestQueue' = << >> /\ distHand' = << >> /\ distDone' = FALSE
  /\ readerHand' = [s \in Streams |-> << >>] /\ readerDone' = {}
  /\ batchingQueue' = [w \in Workers |-> << >>]
  /\ currentGroup' = [w \in Workers |-> << >>] /\ loopDone' = {}
  /\ batchWriteQueue' = [w \in Workers |-> << >>]
  /\ writer' = [w \in Workers |-> IdleWriter]
  /\ cancelled' = FALSE

Init ==
  /\ TrackerInit
  /\ ingestQueue = << >> /\ distHand = << >> /\ distDone = FALSE
  /\ readerHand = [s \in Streams |-> << >>] /\ readerDone = {}
  /\ batchingQueue = [w \in Workers |-> << >>]
  /\ currentGroup = [w \in Workers |-> << >>] /\ loopDone = {}
  /\ batchWriteQueue = [w \in Workers |-> << >>]
  /\ writer = [w \in Workers |-> IdleWriter]
  /\ cancelled = FALSE
  /\ target = [d \in Docs |-> 0]
  /\ dlq = [d \in Docs |-> 0]
  /\ unwritten = [s \in Streams |-> {}]
  /\ restarts = 0

\* Ack of event e.  The disk does not fail here, and a save that finds the
\* interval elapsed is the ticker's save of PeriodicSave.
AckEvent(e) == Ack(e.stream, e.seq, e.pos, FALSE, {})

\* Event e is given up: acknowledged on cancellation.
Abandon(e) ==
  /\ AckEvent(e)
  /\ unwritten' = [unwritten EXCEPT ![e.stream] = @ \cup {e.pos}]

-----------------------------------------------------------------------------
(* The readers.                                                            *)

\* Mutant: the event carries the sequence number after its own.
ReaderNextOffByOne(s) ==
  /\ s \notin readerDone /\ readerHand[s] = << >>
  /\ Register(s)
  /\ readerHand' = [readerHand EXCEPT ![s] =
       <<[stream |-> s, pos |-> cursor[s] + 1, seq |-> NextSeq(s) + 1]>>]
  /\ UNCHANGED <<ingestQueue, readerDone, distHand, distDone, batchingQueue,
                 currentGroup, loopDone, batchWriteQueue, writer, cancelled,
                 dataVars, restarts>>

(* changeStream.Next returned an event: it is registered.                  *)
ReaderNext(s) ==
  /\ s \notin readerDone /\ readerHand[s] = << >>
  /\ Register(s)
  /\ readerHand' = [readerHand EXCEPT ![s] =
       <<[stream |-> s, pos |-> cursor[s] + 1, seq |-> NextSeq(s)]>>]
  /\ UNCHANGED <<ingestQueue, readerDone, distHand, distDone, batchingQueue,
                 currentGroup, loopDone, batchWriteQueue, writer, cancelled,
                 dataVars, restarts>>

\* Mutant: one event too many in the queue.
ReaderPushOverCap(s) ==
  /\ phase = "up"
  /\ readerHand[s] # << >> /\ Len(ingestQueue) <= IngestCap
  /\ ingestQueue' = ingestQueue \o readerHand[s]
  /\ readerHand' = [readerHand EXCEPT ![s] = << >>]
  /\ UNCHANGED <<trackerVars, readerDone, distHand, distDone, batchingQueue,
                 currentGroup, loopDone, batchWriteQueue, writer, cancelled,
                 dataVars, restarts>>

ReaderPush(s) ==
  /\ phase = "up"
  /\ readerHand[s] # << >> /\ Len(ingestQueue) < IngestCap
  /\ ingestQueue' = ingestQueue \o readerHand[s]
  /\ readerHand' = [readerHand EXCEPT ![s] = << >>]
  /\ UNCHANGED <<trackerVars, readerDone, distHand, distDone, batchingQueue,
                 currentGroup, loopDone, batchWriteQueue, writer, cancelled,
                 dataVars, restarts>>

(* The other branch of the same select: cancelCtx is done.                 *)
ReaderAbandon(s) ==
  /\ readerHand[s] # << >> /\ cancelled
  /\ Abandon(Head(readerHand[s]))
  /\ readerHand' = [readerHand EXCEPT ![s] = << >>]
  /\ readerDone' = readerDone \cup {s}
  /\ UNCHANGED <<ingestQueue, distHand, distDone, batchingQueue, currentGroup,
                 loopDone, batchWriteQueue, writer, cancelled, target, dlq,
                 restarts>>

(* Next returned false: the context is done, or the stream has failed,     *)
(* which cancels everybody (setError).                                     *)
ReaderStop(s) ==
  /\ phase = "up"
  /\ s \notin readerDone /\ readerHand[s] = << >>
  /\ cancelled \/ MayCancel
  /\ readerDone' = readerDone \cup {s}
  /\ cancelled' = TRUE
  /\ UNCHANGED <<trackerVars, ingestQueue, readerHand, distHand, distDone,
                 batchingQueue, currentGroup, loopDone, batchWriteQueue,
                 writer, dataVars, restarts>>

-----------------------------------------------------------------------------
(* The distributor: the main loop of Start.                                *)

DistTake ==
  /\ ~distDone /\ distHand = << >> /\ ingestQueue # << >>
  /\ ingestQueue' = Tail(ingestQueue)
  /\ LET e == Head(ingestQueue) IN
       \/ /\ Op(e) = "drop"       \* terminal; the deferred cancel runs
          /\ phase = "up"
          /\ distDone' = TRUE /\ cancelled' = TRUE
          /\ UNCHANGED <<trackerVars, distHand>>
       \/ /\ Op(e) = "unsupported"
          /\ AckEvent(e)
          /\ UNCHANGED <<distHand, distDone, cancelled>>
       \/ /\ Op(e) \notin {"drop", "unsupported"}
          /\ phase = "up"
          /\ distHand' = <<e>>
          /\ UNCHANGED <<trackerVars, distDone, cancelled>>
  /\ UNCHANGED <<readerHand, readerDone, batchingQueue, currentGroup, loopDone,
                 batchWriteQueue, writer, dataVars, restarts>>

DistPush ==
  /\ phase = "up"
  /\ distHand # << >>
  /\ LET w == WorkerOf[Doc(Head(distHand))] IN
       /\ Len(batchingQueue[w]) < BatchCap
       /\ batchingQueue' = [batchingQueue EXCEPT ![w] = @ \o distHand]
  /\ distHand' = << >>
  /\ UNCHANGED <<trackerVars, ingestQueue, readerHand, readerDone, distDone,
                 currentGroup, loopDone, batchWriteQueue, writer, cancelled,
                 dataVars, restarts>>

\* Mutant: a plain send, without the branch on the context.
DistAbandonNever ==
  /\ FALSE
  /\ UNCHANGED vars

DistAbandon ==
  /\ distHand # << >> /\ cancelled
  /\ Abandon(Head(distHand))
  /\ distHand' = << >> /\ distDone' = TRUE
  /\ UNCHANGED <<ingestQueue, readerHand, readerDone, batchingQueue,
                 currentGroup, loopDone, batchWriteQueue, writer, cancelled,
                 target, dlq, restarts>>

(* The context is done, or every reader has returned and the queue is      *)
(* drained.  What is still in ingestQueue stays unacknowledged.            *)
DistStop ==
  /\ phase = "up"
  /\ ~distDone /\ distHand = << >>
  /\ cancelled \/ (readerDone = Streams /\ ingestQueue = << >>)
  /\ distDone' = TRUE /\ cancelled' = TRUE
  /\ UNCHANGED <<trackerVars, ingestQueue, readerHand, readerDone, distHand,
                 batchingQueue, currentGroup, loopDone, batchWriteQueue,
                 writer, dataVars, restarts>>

-----------------------------------------------------------------------------
(* The workers' event loops.                                               *)

WriterDone(w) ==
  w \in loopDone /\ batchWriteQueue[w] = << >> /\ writer[w].stage = "idle"

\* Shutdown closes batchingQueue of the workers one by one, each after the
\* workers before it have come to rest.
QueueClosed(w) ==
  distDone /\ readerDone = Streams /\ \A v \in 1..(w - 1) : WriterDone(v)

\* Mutant: an event joins a group that has its document already.
NeedNewGroupNoCollision(group, e) ==
  \/ group = << >>
  \/ Namespace[Doc(group[1])] # Namespace[Doc(e)]
  \/ Len(group) >= BatchSize
  \/ ~GroupOpsByDistinctId /\ Op(group[1]) # Op(e)

\* needNewGroup of ProcessEvent.
NeedNewGroup(group, e) ==
  \/ group = << >>
  \/ Namespace[Doc(group[1])] # Namespace[Doc(e)]
  \/ Len(group) >= BatchSize
  \/ IF GroupOpsByDistinctId
     THEN \E i \in DOMAIN group : Doc(group[i]) = Doc(e)
     ELSE Op(group[1]) # Op(e)

\* The groups ProcessEvent pushes to the write queue for event e, and the
\* group it goes on building.
Pushed(group, e) ==
  LET next == IF NeedNewGroup(group, e) THEN <<e>> ELSE Append(group, e)
  IN (IF NeedNewGroup(group, e) /\ group # << >> THEN <<group>> ELSE << >>)
       \o (IF Len(next) >= BatchSize THEN <<next>> ELSE << >>)
Kept(group, e) ==
  LET next == IF NeedNewGroup(group, e) THEN <<e>> ELSE Append(group, e)
  IN IF Len(next) >= BatchSize THEN << >> ELSE next

(* ProcessEvent.  It pushes at most one group; while the write queue is    *)
(* full it blocks, with its event still counted in batchingQueue here.     *)
ProcessEvent(w) ==
  /\ w \notin loopDone /\ batchingQueue[w] # << >>
  /\ batchingQueue' = [batchingQueue EXCEPT ![w] = Tail(@)]
  /\ LET e == Head(batchingQueue[w])
         pushed == Pushed(currentGroup[w], e)
     IN \/ /\ Op(e) = "updateWithoutDocument"
           /\ AckEvent(e)
           /\ UNCHANGED <<currentGroup, batchWriteQueue>>
        \/ /\ Op(e) # "updateWithoutDocument"
           /\ phase = "up"
           /\ Len(batchWriteQueue[w]) + Len(pushed) <= WriteCap
           /\ batchWriteQueue' = [batchWriteQueue EXCEPT ![w] = @ \o pushed]
           /\ currentGroup' = [currentGroup EXCEPT ![w] = Kept(@, e)]
           /\ UNCHANGED trackerVars
  /\ UNCHANGED <<ingestQueue, readerHand, readerDone, distHand, distDone,
                 loopDone, writer, cancelled, dataVars, restarts>>

(* flushCurrentGroup: the group moves to the write queue.                  *)
FlushCurrentGroup(w) ==
  /\ currentGroup[w] # << >> => Len(batchWriteQueue[w]) < WriteCap
  /\ batchWriteQueue' = [batchWriteQueue EXCEPT ![w] =
       IF currentGroup[w] = << >> THEN @ ELSE Append(@, currentGroup[w])]
  /\ currentGroup' = [currentGroup EXCEPT ![w] = << >>]

\* Mutant: the ticker leaves a group alone until it is full.
TimeoutFlushFullOnly(w) ==
  /\ phase = "up"
  /\ w \notin loopDone /\ Len(currentGroup[w]) >= BatchSize
  /\ FlushCurrentGroup(w)
  /\ UNCHANGED <<trackerVars, ingestQueue, readerHand, readerDone, distHand,
                 distDone, batchingQueue, loopDone, writer, cancelled,
                 dataVars, restarts>>

(* The ticker finds the group older than the flush interval.               *)
TimeoutFlush(w) ==
  /\ phase = "up"
  /\ w \notin loopDone /\ currentGroup[w] # << >>
  /\ FlushCurrentGroup(w)
  /\ UNCHANGED <<trackerVars, ingestQueue, readerHand, readerDone, distHand,
                 distDone, batchingQueue, loopDone, writer, cancelled,
                 dataVars, restarts>>

(* The queue is closed and drained, or the context is done: events left in *)
(* the queue then stay unacknowledged.                                     *)
LoopStop(w) ==
  /\ phase = "up"
  /\ w \notin loopDone
  /\ cancelled \/ (QueueClosed(w) /\ batchingQueue[w] = << >>)
  /\ FlushCurrentGroup(w)
  /\ loopDone' = loopDone \cup {w}
  /\ UNCHANGED <<trackerVars, ingestQueue, readerHand, readerDone, distHand,
                 distDone, batchingQueue, writer, cancelled, dataVars,
                 restarts>>

-----------------------------------------------------------------------------
(* The writers: processBatchWriteQueue and executeBatchWrite.              *)

Transforms(e) == <<e.stream, e.pos>> \notin Untransformable

\* The operations of a group that became write models, and the k-th of them.
Models(group) == {i \in DOMAIN group : Transforms(group[i])}
Model(group, k) ==
  CHOOSE i \in Models(group) : Cardinality({j \in Models(group) : j <= i}) = k

\* useOrdered; a group of distinct documents has type "mixed".
UseOrdered(group) ==
  \/ ~GroupOpsByDistinctId /\ Op(group[1]) \in {"update", "replace"}
  \/ ForceOrdered

\* The operations that reach the target when those in failed do not succeed:
\* an ordered bulk write stops at its first failure.
Reaching(group, failed) ==
  {i \in DOMAIN group : /\ Transforms(group[i]) /\ i \notin failed
                        /\ UseOrdered(group) => \A j \in failed : i < j}

\* The target once the operations in done of the group are applied in order.
ApplyTo(group, done) ==
  [d \in Docs |->
     LET mine == {i \in done : Doc(group[i]) = d}
     IN IF mine = {} THEN target[d]
        ELSE group[CHOOSE i \in mine : \A j \in mine : j <= i].pos]

\* Mutant: the failure is logged only.
MarkDLQNothing(group, bad) == dlq

\* markDLQ of the operations in bad, in order.
MarkDLQ(group, bad) ==
  [d \in Docs |->
     LET mine == {i \in bad : Doc(group[i]) = d}
     IN IF mine = {} THEN dlq[d]
        ELSE group[CHOOSE i \in mine : \A j \in mine : j <= i].pos]

\* Positions of the group's operations in which are neither written nor kept
\* in the DLQ.
MarkUnwritten(group, which) ==
  [s \in Streams |->
     unwritten[s] \cup {group[i].pos : i \in {j \in which : group[j].stream = s}}]

\* Positions of stream s, of documents in ok, whose failure the resolution
\* scan clears although the target is older: failures of the group itself, and
\* of earlier groups where ok holds operations that were never sent.
WronglyResolved(s, group, ok) ==
  {p \in 1..cursor[s] :
     LET d == Log[s][p].doc IN
       /\ dlq[d] # 0 /\ target[d] < p
       /\ \E j \in ok : Doc(group[j]) = d
       /\ \E i \in DOMAIN group : Doc(group[i]) = d /\ p <= group[i].pos}

\* Operations of the group on the document of its i-th that came behind it, had
\* been written, and are not in todo: retrying the i-th overwrites them.
Overwritten(group, i, todo) ==
  {j \in DOMAIN group \ todo : i < j /\ Doc(group[j]) = Doc(group[i])}

\* The write of the group is over: what is left is the resolution scan, and
\* then the deferred Acks.
Settled(w, group, ok) ==
  [writer EXCEPT ![w] = [@ EXCEPT !.stage = "resolve", !.group = group,
                                  !.todo = DOMAIN group, !.ok = ok]]

\* The individual retry of one operation is over.
Retried(w, ok) ==
  LET rest == {i \in writer[w].todo : \E j \in writer[w].todo : j < i}
  IN IF rest = {} THEN Settled(w, writer[w].group, ok)
     ELSE [writer EXCEPT ![w] = [@ EXCEPT !.todo = rest, !.ok = ok]]

\* The shared context is done and the write runs in it.
WriteCancelled(w) == cancelled /\ ~writer[w].fresh

WriterFrame ==
  UNCHANGED <<ingestQueue, readerHand, readerDone, distHand, distDone,
              batchingQueue, currentGroup, loopDone, cancelled, restarts>>

(* The next group: operations that do not transform go to the DLQ, the     *)
(* others are sent as one bulk write.                                      *)
WriterTake(w) ==
  /\ phase = "up"
  /\ writer[w].stage = "idle" /\ batchWriteQueue[w] # << >>
  /\ batchWriteQueue' = [batchWriteQueue EXCEPT ![w] = Tail(@)]
  /\ LET group == Head(batchWriteQueue[w])
         bad == {i \in DOMAIN group : ~Transforms(group[i])}
     IN /\ dlq' = MarkDLQ(group, bad)
        /\ writer' = IF Models(group) = {} THEN Settled(w, group, {})
                     ELSE [writer EXCEPT ![w] =
                             [IdleWriter EXCEPT !.stage = "bulk", !.group = group,
                                                !.fresh = cancelled]]
  /\ UNCHANGED <<trackerVars, target, unwritten>> /\ WriterFrame

BulkSucceeds(w) ==
  /\ phase = "up" /\ writer[w].stage = "bulk"
  /\ LET group == writer[w].group
         ok == Reaching(group, {})
     IN target' = ApplyTo(group, ok) /\ writer' = Settled(w, group, ok)
  /\ UNCHANGED <<trackerVars, batchWriteQueue, dlq, unwritten>> /\ WriterFrame

(* A BulkWriteException.  Its indexes count the models, the code applies   *)
(* them to the group's operations: every other operation is taken for      *)
(* written, the indexed ones are retried one by one.                       *)
BulkPartlyFails(w) ==
  /\ phase = "up" /\ writer[w].stage = "bulk" /\ ~WriteCancelled(w)
  /\ LET group == writer[w].group
     IN \E failed \in (SUBSET (1..Cardinality(Models(group)))) \ {{}} :
          LET done == Reaching(group, {Model(group, k) : k \in failed})
              bad == {i \in DOMAIN group : ~Transforms(group[i])}
          IN /\ UseOrdered(group) => Cardinality(failed) = 1
             /\ target' = ApplyTo(group, done)
             /\ writer' = [writer EXCEPT ![w] =
                  [@ EXCEPT !.stage = "retry", !.todo = failed,
                            !.ok = DOMAIN group \ (failed \cup bad)]]
             /\ unwritten' = MarkUnwritten(group,
                               DOMAIN group \ (done \cup failed \cup bad))
  /\ UNCHANGED <<trackerVars, batchWriteQueue, dlq>> /\ WriterFrame

(* Any other error, after some of the operations have reached the target   *)
(* and with the backoff retries used up (one that succeeds is a success of *)
(* the bulk write): every operation is retried one by one.                 *)
BulkErrors(w) ==
  /\ phase = "up" /\ writer[w].stage = "bulk" /\ ~WriteCancelled(w)
  /\ LET group == writer[w].group IN
       /\ \E failed \in SUBSET (DOMAIN group) :
            target' = ApplyTo(group, Reaching(group, failed))
       /\ writer' = [writer EXCEPT ![w] =
            [@ EXCEPT !.stage = "retry", !.todo = DOMAIN group]]
  /\ UNCHANGED <<trackerVars, batchWriteQueue, dlq, unwritten>> /\ WriterFrame

(* The shared context went away under the write: the code returns at once. *)
BulkCancelled(w) ==
  /\ phase = "up" /\ writer[w].stage = "bulk" /\ WriteCancelled(w)
  /\ LET group == writer[w].group IN
       \E failed \in SUBSET (DOMAIN group) :
         LET done == Reaching(group, failed)
         IN /\ target' = ApplyTo(group, done)
            /\ writer' = Settled(w, group, {})
            /\ unwritten' = MarkUnwritten(group,
                      {i \in DOMAIN group \ done : Transforms(group[i])})
  /\ UNCHANGED <<trackerVars, batchWriteQueue, dlq>> /\ WriterFrame

\* The operation retryIndividualOperation is at.
Current(w) == CHOOSE i \in writer[w].todo : \A j \in writer[w].todo : i <= j

RetrySucceeds(w) ==
  /\ phase = "up" /\ writer[w].stage = "retry"
  /\ LET group == writer[w].group
         i == Current(w)
     IN /\ Transforms(group[i])
        /\ target' = ApplyTo(group, {i})
        /\ writer' = Retried(w, writer[w].ok \cup {i})
        /\ unwritten' = MarkUnwritten(group, Overwritten(group, i, writer[w].todo))
  /\ UNCHANGED <<trackerVars, batchWriteQueue, dlq>> /\ WriterFrame

\* A write that ReplaceOne with upsert may refuse with a duplicate-key error
\* although the target lacks its document.
Refusable(s, p) ==
  <<s, p>> \in Clashing /\ Log[s][p].op \in {"update", "replace"}

\* The target does not hold the document of event e: an event deleted it, or
\* none has written it and the copy did not bring it either.
MayBeMissing(e) ==
  target[Doc(e)] # 0 => Log[e.stream][target[Doc(e)]].op = "delete"

(* The retry is refused with a duplicate-key error, which the code takes   *)
(* for a concurrent upsert: it replaces once more without upsert.  That    *)
(* matches nothing, returns no error and counts as written.                *)
RetryMatchesNothing(w) ==
  /\ phase = "up" /\ writer[w].stage = "retry"
  /\ LET group == writer[w].group
         i == Current(w)
     IN /\ Transforms(group[i]) /\ MayBeMissing(group[i])
        /\ Refusable(group[i].stream, group[i].pos)
        /\ writer' = Retried(w, writer[w].ok \cup {i})
        /\ unwritten' = MarkUnwritten(group, {i})
  /\ UNCHANGED <<trackerVars, batchWriteQueue, target, dlq>> /\ WriterFrame

RetryFails(w) ==
  /\ phase = "up" /\ writer[w].stage = "retry"
  /\ LET i == Current(w) IN
       /\ WriteCancelled(w) => ~Transforms(writer[w].group[i])
       /\ dlq' = MarkDLQ(writer[w].group, {i})
  /\ writer' = Retried(w, writer[w].ok)
  /\ UNCHANGED <<trackerVars, batchWriteQueue, target, unwritten>> /\ WriterFrame

(* A cancelled retry returns silently, or its failure is one WriteFailed   *)
(* leaves out of the DLQ.                                                  *)
RetryCancelled(w) ==
  /\ phase = "up" /\ writer[w].stage = "retry" /\ WriteCancelled(w)
  /\ Transforms(writer[w].group[Current(w)])
  /\ writer' = Retried(w, writer[w].ok)
  /\ unwritten' = MarkUnwritten(writer[w].group, {Current(w)})
  /\ UNCHANGED <<trackerVars, batchWriteQueue, target, dlq>> /\ WriterFrame

(* The resolution scan at the end of executeBatchWrite: a success clears   *)
(* any recorded failure of its document.                                   *)
WriterResolve(w) ==
  /\ phase = "up" /\ writer[w].stage = "resolve"
  /\ LET group == writer[w].group
         ok == writer[w].ok
     IN /\ dlq' = [d \in Docs |->
                     IF \E i \in ok : Doc(group[i]) = d THEN 0 ELSE dlq[d]]
        /\ unwritten' = [s \in Streams |->
                           unwritten[s] \cup WronglyResolved(s, group, ok)]
  /\ writer' = [writer EXCEPT ![w] = [@ EXCEPT !.stage = "ack", !.ok = {}]]
  /\ UNCHANGED <<trackerVars, batchWriteQueue, target>> /\ WriterFrame

(* The deferred loop of executeBatchWrite acknowledges the operations one  *)
(* by one, whatever became of them.                                        *)
WriterAck(w) ==
  /\ writer[w].stage = "ack"
  /\ LET i == Current(w)
         rest == writer[w].todo \ {i}
     IN /\ AckEvent(writer[w].group[i])
        /\ writer' = [writer EXCEPT ![w] =
             IF rest = {} THEN IdleWriter ELSE [@ EXCEPT !.todo = rest]]
  /\ UNCHANGED <<batchWriteQueue, dataVars>> /\ WriterFrame

-----------------------------------------------------------------------------
(* The process.                                                            *)

(* The last deferred calls of Start: every goroutine is gone.              *)
CloseTracker ==
  /\ distDone /\ readerDone = Streams /\ \A w \in Workers : WriterDone(w)
  /\ Close({})
  /\ UNCHANGED <<goroutineVars, dataVars, restarts>>

TickerSave ==
  /\ PeriodicSave({})
  /\ UNCHANGED <<goroutineVars, dataVars, restarts>>

(* The context Start was given is cancelled (a signal).                    *)
Interrupt ==
  /\ phase = "up" /\ MayCancel /\ ~cancelled
  /\ cancelled' = TRUE
  /\ UNCHANGED <<trackerVars, ingestQueue, readerHand, readerDone, distHand,
                 distDone, batchingQueue, currentGroup, loopDone,
                 batchWriteQueue, writer, dataVars, restarts>>

ProcessCrash ==
  /\ restarts < MaxRestarts
  /\ Crash
  /\ UNCHANGED <<goroutineVars, dataVars, restarts>>

ProcessRestart ==
  /\ restarts < MaxRestarts
  /\ restarts' = restarts + 1
  /\ Restart
  /\ FreshGoroutines
  /\ UNCHANGED dataVars

ReaderStep(s) ==
  ReaderNext(s) \/ ReaderPush(s) \/ ReaderAbandon(s) \/ ReaderStop(s)
DistributorStep == DistTake \/ DistPush \/ DistAbandon \/ DistStop
LoopStep(w) == ProcessEvent(w) \/ TimeoutFlush(w) \/ LoopStop(w)
WriterStep(w) ==
  \/ WriterTake(w)
  \/ BulkSucceeds(w) \/ BulkPartlyFails(w) \/ BulkErrors(w) \/ BulkCancelled(w)
  \/ RetrySucceeds(w) \/ RetryMatchesNothing(w)
  \/ RetryFails(w) \/ RetryCancelled(w)
  \/ WriterResolve(w) \/ WriterAck(w)

Next ==
  \/ \E s \in Streams : ReaderStep(s)
  \/ DistributorStep
  \/ \E w \in Workers : LoopStep(w) \/ WriterStep(w)
  \/ CloseTracker \/ TickerSave
  \/ Interrupt \/ ProcessCrash \/ ProcessRestart

Spec == Init /\ [][Next]_vars

\* Every goroutine keeps running, the source delivers what its log holds, and
\* calls to the target return: each has a timeout.
Fairness ==
  /\ \A s \in Streams :
       WF_vars(ReaderNext(s) \/ ReaderPush(s) \/ ReaderAbandon(s)
               \/ (cancelled /\ ReaderStop(s)))
  /\ WF_vars(DistributorStep)
  /\ \A w \in Workers : WF_vars(LoopStep(w)) /\ WF_vars(WriterStep(w))
  /\ WF_vars(CloseTracker) /\ WF_vars(TickerSave)

FairSpec == Spec /\ Fairness

-----------------------------------------------------------------------------

Event == [stream : Streams, pos : Nat \ {0}, seq : Nat \ {0}]
WriterStages == {"idle", "bulk", "retry", "resolve", "ack"}

(* Types, and the queues within their capacities.                          *)
TypeOK ==
  /\ TrackerTypeOK
  /\ ingestQueue \in Seq(Event) /\ Len(ingestQueue) <= IngestCap
  /\ \A s \in Streams : readerHand[s] \in Seq(Event) /\ Len(readerHand[s]) <= 1
  /\ distHand \in Seq(Event) /\ Len(distHand) <= 1
  /\ readerDone \subseteq Streams /\ loopDone \subseteq Workers
  /\ {distDone, cancelled} \subseteq BOOLEAN
  /\ \A w \in Workers :
       /\ batchingQueue[w] \in Seq(Event) /\ Len(batchingQueue[w]) <= BatchCap
       /\ currentGroup[w] \in Seq(Event) /\ Len(currentGroup[w]) <= BatchSize
       /\ batchWriteQueue[w] \in Seq(Seq(Event))
       /\ Len(batchWriteQueue[w]) <= WriteCap
       /\ writer[w].stage \in WriterStages /\ writer[w].group \in Seq(Event)
       /\ writer[w].todo \cup writer[w].ok \subseteq DOMAIN writer[w].group
  /\ target \in [Docs -> Nat] /\ dlq \in [Docs -> Nat]
  /\ unwritten \in [Streams -> SUBSET Nat]

\* Positions up to p of the events of stream s that write document d.
Writes(s, d, p) ==
  {i \in 1..p : Log[s][i].doc = d /\ Log[s][i].op \in Applied}
Last(set) == CHOOSE i \in set : \A j \in set : j <= i

\* Document d reflects the last event of stream s up to p, or a later one, or
\* is on record in the DLQ.
SafeUpTo(s, d, p) ==
  \/ Writes(s, d, p) = {}
  \/ target[d] >= Last(Writes(s, d, p))
  \/ dlq[d] # 0

\* Events of stream s whose document a later event, or they themselves, may
\* make vanish: that write clashes with another document, its retry matches
\* nothing, and its success clears the failures on record.
Vanishable(s) ==
  {p \in 1..StreamLength[s] : \E q \in p..StreamLength[s] :
     Refusable(s, q) /\ Log[s][q].doc = Log[s][p].doc}

\* Positions registered in this run of the process and not yet acknowledged.
InFlight(s) ==
  {unackedEvents[s][q].token :
     q \in {r \in DOMAIN unackedEvents[s] : ~unackedEvents[s][r].acked}}

\* The last event of document d up to p is one of those.
MayVanish(s, d, p) == Last(Writes(s, d, p)) \in Vanishable(s)

(* Nothing behind a saved token is lost: whatever happens next, a crash    *)
(* included, each document is in the target at least as new as the last    *)
(* event the token covers, or it is in the DLQ.  This is what the deferred *)
(* Acks of executeBatchWrite and the ordered checkpoints are for.  It does *)
(* not hold of a document with a write that may clash with another one.    *)
CheckpointedDocIsSafe ==
  \A s \in Streams, d \in Docs :
    SafeUpTo(s, d, tokenFile[s]) \/ MayVanish(s, d, tokenFile[s])

(* The same without that exception, as the documents have it: a record     *)
(* that still fails goes to the DLQ "rather than dropped", which is "never *)
(* data loss" (README.md), and after an interruption replication resumes   *)
(* with "no data lost" (docs/CONFIGURATION.md).  Violated by               *)
(* RetryMatchesNothing, by an ordered bulk write and by a cancellation.    *)
NothingBehindATokenIsLost ==
  \A s \in Streams, d \in Docs : SafeUpTo(s, d, tokenFile[s])

(* A document none of whose events is in flight reflects its last event,   *)
(* or is in the DLQ: routing by document, sequential groups and retries    *)
(* never let an older event have the last word.  The exception is that of  *)
(* CheckpointedDocIsSafe.                                                  *)
SettledDocIsCurrent ==
  phase = "up" =>
    \A s \in Streams, d \in Docs :
      \/ InFlight(s) \cap Writes(s, d, cursor[s]) # {}
      \/ SafeUpTo(s, d, cursor[s]) \/ MayVanish(s, d, cursor[s])

(* The only documents behind a token that may be neither current nor in    *)
(* the DLQ are those an error path of the pipeline gave up: an event       *)
(* acknowledged on cancellation, an operation behind the failed one of an  *)
(* ordered bulk write, a write retried without upsert that matched nothing *)
(* (RetryMatchesNothing), a failure cleared by an earlier success in its   *)
(* group or by one that was never sent, a write that the retry of an older *)
(* operation of its group has overwritten.                                 *)
LossIsConfined ==
  \A s \in Streams, d \in Docs :
    \/ SafeUpTo(s, d, tokenFile[s])
    \/ Last(Writes(s, d, tokenFile[s])) \in unwritten[s]

(* A DLQ entry is cleared only once the target holds the failed event or a *)
(* later one (WriteResolved in executeBatchWrite).                         *)
ResolvedMeansWritten ==
  [][\A d \in Docs : dlq[d] # 0 /\ dlq'[d] = 0 => target'[d] >= dlq[d]]_vars

(* The pipeline drives its ledger as PartitionTracker allows: it           *)
(* acknowledges only events it registered, under their own numbers.        *)
TrackerRefined == TrackerSpec

(* Every event read is disposed of and acknowledged while the process      *)
(* lives: no event is stuck in a queue, a group or a writer.               *)
EventsAreSettled ==
  \A s \in Streams : \A p \in 1..StreamLength[s] :
    (phase = "up" /\ cursor[s] >= p) ~> (p \in settled[s] \/ phase # "up")

(* Once the context is cancelled, by a signal, a failed stream or a        *)
(* collection drop, every goroutine ends and Close runs: nobody waits on a *)
(* queue for good.                                                         *)
ShutdownCompletes == cancelled ~> (phase # "up" \/ ~cancelled)

=============================================================================
