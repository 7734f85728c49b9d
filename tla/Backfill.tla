------------------------------ MODULE Backfill ------------------------------
(***************************************************************************)
(* The initial backfill of one collection: migrateCollection (one cursor,  *)
(* one partition), migrateCollectionParallel (a goroutine per partition),  *)
(* and the BackfillPartitionTracker of each partition, over interruptions, *)
(* failing writes, crashes and restarts with another number of partitions. *)
(*                                                                         *)
(* A reader registers batches with its tracker and sends them to workers   *)
(* through a bounded channel; workers write and acknowledge; the tracker   *)
(* saves the greatest _id of each type of the leading acknowledged batches.*)
(* How a partition is paged through is PartitionReader's subject: here its *)
(* documents are read in order.                                            *)
(***************************************************************************)
EXTENDS BackfillResumption

CONSTANTS
    AllDocs,        \* the documents a source may have
    Sources,        \* the sources to start from
    Counts,         \* partition counts of parallel attempts
    Workers,        \* workers of a partition
    ChanCap,        \* capacity of the batch channel
    BatchSize,      \* documents of a batch
    SaveThreshold,  \* acknowledgements between two saves
    DiscoveryFails, \* {FALSE}, or BOOLEAN when the discovery of the types may fail
    MaxAttempts     \* bound: attempts

ASSUME BackfillAssumption ==
    /\ IsFiniteSet(AllDocs) /\ AllDocs \subseteq [t : IdTypes, v : Int]
    /\ Sources \subseteq SUBSET AllDocs
    /\ Counts \subseteq Nat \ {0} /\ DiscoveryFails \subseteq BOOLEAN
    /\ Workers # {} /\ ChanCap \in Nat
    /\ BatchSize \in Nat \ {0} /\ SaveThreshold \in Nat \ {0}
    /\ MaxAttempts \in Nat

VARIABLES
    docs,       \* the documents of the source
    files,      \* the partition checkpoint files
    target,     \* the documents written
    dlq,        \* the documents recorded in the dead letter queue
    resilient,  \* is there a dead letter queue (opts.DLQ)?
    outcome,    \* "none", "running", "failed" or "ok"
    attempts,   \* attempts made
    cancelled,  \* ctx.Done
    parts,      \* the filters of the partitions
    ck,         \* the checkpoint in the memory of each tracker
    rd,         \* the reader of each partition
    chan,       \* its batch channel
    work,       \* its workers
    err,        \* is there an error in its errorChan?
    pend,       \* its registered batches, pendingSeqs and batches in one
    dirty,      \* its ackCountSinceSave
    skipped,    \* history: documents a plan left out though they were not settled
    overlooked  \* history: documents whose error, or whose end of context, lost the
                \* race with doneChan

diskVars == <<docs, files, target, dlq>>
memVars == <<parts, ck, rd, chan, work, err, pend, dirty>>
vars == <<docs, files, target, dlq, resilient, outcome, attempts, cancelled, memVars, skipped, overlooked>>

Slots == UNION {{<<i, n>> : i \in 0..(n - 1)} : n \in Counts \cup {1}}
NoFiles == [k \in Slots |-> NoCheckpoint]
Settled == target \cup dlq
Unsettled == docs \ Settled
Parts == DOMAIN parts

\* A batch is the set of its documents: a partition is read once.
Idle == [at |-> "idle", ids |-> {}]
Gone == [at |-> "gone", ids |-> {}]
NewReader == [last |-> NoId, ids |-> {}, state |-> "reading"]

(***************************************************************************)
(* Plans.                                                                  *)
(***************************************************************************)
\* A sequential attempt is one partition of one.
Modes == {<<"sequential", 1>>} \cup {<<"parallel", n>> : n \in Counts}

\* The checkpoint of the global minima, which a sequential attempt starts with.
MinCheckpoint(gmin) ==
    [total |-> 1, prog |-> [t \in DOMAIN gmin |-> Boundary(NoId, NoId, gmin[t])]]

\* A range of a checkpoint that skips its partition counts as read.
SkippedProgress(raw, gmin) ==
    [t \in DOMAIN raw |->
        [raw[t] EXCEPT !.saved = IF raw[t].hi # NoId THEN raw[t].hi ELSE MinOf(gmin, t)]]

\* Partitions cut anew; the sample is the whole collection.
CutOf == [source \in Sources \ {{}} |->
            [n \in {m \in Counts : m <= Cardinality(source)} |->
               Partition(source, "auto", source, MaxId(source), n, n, TRUE)]]
Cut(n) == CutOf[docs][n]

PresentTypes == {id.t : id \in docs}
Cp(n, prog) == [total |-> n, prog |-> prog]

\* A fresh plan knows the bounds of its partitions and the types discovered.
Fresh(mode, n, types) ==
    LET cut == IF mode = "sequential" THEN <<Everything>> ELSE Cut(n)
        prog(i) == LET own == Boundaries(cut[i])
                   IN [t \in DOMAIN own \cup types |-> IF t \in DOMAIN own THEN own[t] ELSE Unbounded]
    IN [filters |-> cut, cps |-> [i \in DOMAIN cut |-> Cp(Len(cut), prog(i))]]

Direct(n) ==
    [filters |-> DirectFilters(files, n), cps |-> [i \in 1..n |-> files[<<i - 1, n>>]]]

SequentialResample ==
    LET cp == MinCheckpoint(PlannedMin(files))
    IN [filters |-> <<FilterOf(cp)>>, cps |-> <<cp>>]

ParallelResample(n) ==
    LET gmin == PlannedMin(files)
        raw == Cut(n)
        clamped == ClampPartitions(raw, gmin)
    IN [filters |-> clamped,
        cps |-> [i \in DOMAIN raw |->
                   Cp(Len(raw), IF clamped[i] = Nothing
                                THEN SkippedProgress(Boundaries(raw[i]), gmin)
                                ELSE Boundaries(raw[i]))]]

\* A sequential attempt without any minimum falls back to a fresh start.
EffectiveMode(mode, n) ==
    LET planned == PlanMode(files, n)
    IN IF mode = "sequential" /\ planned = "resample" /\ DOMAIN PlannedMin(files) = {}
       THEN "fresh" ELSE planned

Plan(mode, n, types) ==
    LET effective == EffectiveMode(mode, n)
    IN CASE effective = "direct" -> Direct(n)
         [] effective = "fresh" -> Fresh(mode, n, types)
         [] effective = "resample" -> IF mode = "sequential" THEN SequentialResample
                                      ELSE ParallelResample(n)

ReadBy(filters) == UNION {Selected(docs, filters[i]) : i \in DOMAIN filters}

\* Bound: a collection of several types is read by one cursor; what paging
\* does to it is PartitionReader's subject.
Possible(mode, n) ==
    mode = "parallel" => n <= Cardinality(docs) /\ Cardinality(PresentTypes) = 1

(***************************************************************************)
(* The tracker.                                                            *)
(***************************************************************************)
\* RegisterBatch: the greatest _id of each type of the batch.
MaxPerType(ids) == [t \in {id.t : id \in ids} |-> MaxId(OfType(ids, t))]

\* The leading acknowledged batches of the pending ones.
\* Mutant: every acknowledged batch counts, behind a gap or not.
LeadingAckedAny(q) == Cardinality({i \in DOMAIN q : q[i].acked})
LeadingAcked(q) ==
    LET open == {i \in DOMAIN q : ~q[i].acked}
    IN IF open = {} THEN Len(q) ELSE (CHOOSE i \in open : \A j \in open : i <= j) - 1

\* A clone of the checkpoint with the _ids of the first k batches.
Advanced(cp, q, k) ==
    LET seen(t) == {i \in 1..k : t \in DOMAIN q[i].max}
        latest(t) == q[CHOOSE i \in seen(t) : \A j \in seen(t) : j <= i].max[t]
        types == UNION {DOMAIN q[i].max : i \in 1..k}
        old(t) == IF t \in DOMAIN cp.prog THEN cp.prog[t] ELSE Unbounded
    IN [cp EXCEPT !.prog =
          [t \in DOMAIN cp.prog \cup types |->
             IF seen(t) = {} THEN old(t) ELSE [old(t) EXCEPT !.saved = latest(t)]]]

\* saveCheckpointsLocked on the pending batches q, with d acknowledgements
\* since the last save; a failed write is only logged and prunes nothing.
Save(p, q, d) ==
    LET k == LeadingAcked(q)
        new == Advanced(ck[p], q, k)
    IN \/ /\ files' = [files EXCEPT ![<<p - 1, Len(parts)>>] = new]
          /\ ck' = [ck EXCEPT ![p] = new]
          /\ pend' = [pend EXCEPT ![p] = SubSeq(q, k + 1, Len(q))]
          /\ dirty' = [dirty EXCEPT ![p] = 0]
       \/ /\ pend' = [pend EXCEPT ![p] = q] /\ dirty' = [dirty EXCEPT ![p] = d]
          /\ UNCHANGED <<files, ck>>

\* Start: the ticker saves when something was acknowledged.
Tick(p) ==
    /\ rd[p].state # "completed" /\ dirty[p] > 0
    /\ Save(p, pend[p], dirty[p])
    /\ UNCHANGED <<docs, target, dlq, resilient, outcome, attempts, cancelled, parts, rd, chan, work,
                   err, skipped, overlooked>>

(***************************************************************************)
(* An attempt.                                                             *)
(***************************************************************************)
Init ==
    /\ docs \in Sources /\ resilient \in BOOLEAN
    /\ files = NoFiles /\ target = {} /\ dlq = {}
    /\ outcome = "none" /\ attempts = 0 /\ cancelled = FALSE
    /\ parts = <<>> /\ ck = <<>> /\ rd = <<>> /\ chan = <<>> /\ work = <<>>
    /\ err = <<>> /\ pend = <<>> /\ dirty = <<>>
    /\ skipped = {} /\ overlooked = {}

Goroutines(n) ==
    /\ rd' = [p \in 1..n |-> NewReader]
    /\ chan' = [p \in 1..n |-> <<>>]
    /\ work' = [p \in 1..n |-> [w \in Workers |-> Idle]]
    /\ err' = [p \in 1..n |-> FALSE]
    /\ pend' = [p \in 1..n |-> <<>>]
    /\ dirty' = [p \in 1..n |-> 0]

\* The plan, the deletion of the files it does not resume from, the
\* goroutines.  A collection without documents is done at once.
StartWith(plan, keep) ==
    /\ files' = IF keep THEN files ELSE NoFiles
    /\ parts' = plan.filters /\ ck' = plan.cps
    /\ Goroutines(Len(plan.filters))
    /\ skipped' = skipped \cup (Unsettled \ ReadBy(plan.filters))

Begin ==
    /\ outcome = "none" /\ attempts < MaxAttempts
    /\ attempts' = attempts + 1 /\ cancelled' = FALSE
    /\ outcome' = "running"
    /\ UNCHANGED <<docs, target, dlq, resilient, overlooked>>

StartSequential ==
    /\ Begin /\ docs # {}
    /\ \E blind \in DiscoveryFails :
         \E plan \in {Plan("sequential", 1, IF blind THEN {} ELSE PresentTypes)} :
           StartWith(plan, EffectiveMode("sequential", 1) = "direct")

StartParallel(n) ==
    /\ Begin /\ docs # {} /\ Possible("parallel", n)
    /\ \E blind \in DiscoveryFails :
         \E plan \in {Plan("parallel", n, IF blind THEN {} ELSE PresentTypes)} :
           StartWith(plan, EffectiveMode("parallel", n) = "direct")

\* The next documents of the partition, registered with the tracker.
Rest(p) ==
    {id \in Selected(docs, parts[p]) : rd[p].last # NoId => IdLess(rd[p].last, id)}

ReadBatch(p) ==
    /\ rd[p].state = "reading" /\ rd[p].ids = {} /\ ~err[p]
    /\ Rest(p) # {}
    /\ LET rank(id) == Cardinality({x \in Rest(p) : IdLess(x, id)})
           batch == {id \in Rest(p) : rank(id) < BatchSize}
       IN /\ rd' = [rd EXCEPT ![p] = [last |-> MaxId(batch), ids |-> batch, state |-> "reading"]]
          /\ pend' = [pend EXCEPT ![p] =
                        Append(pend[p], [ids |-> batch, max |-> MaxPerType(batch), acked |-> FALSE])]
    /\ UNCHANGED <<diskVars, resilient, outcome, attempts, cancelled, parts, ck, chan, work, err, dirty,
                   skipped, overlooked>>

Send(p) ==
    /\ rd[p].state = "reading" /\ rd[p].ids # {} /\ Len(chan[p]) < ChanCap
    /\ chan' = [chan EXCEPT ![p] = Append(chan[p], rd[p].ids)]
    /\ rd' = [rd EXCEPT ![p].ids = {}]
    /\ UNCHANGED <<diskVars, resilient, outcome, attempts, cancelled, parts, ck, work, err, pend, dirty,
                   skipped, overlooked>>

\* The partition ends with an error: its tracker is closed, the collection
\* reports the error, the other goroutines go on until the process exits.
Fail(p) ==
    /\ rd' = [rd EXCEPT ![p].state = "failed"]
    /\ err' = [err EXCEPT ![p] = FALSE]
    /\ outcome' = "failed"
    /\ Save(p, pend[p], dirty[p])
    /\ UNCHANGED <<docs, target, dlq, resilient, attempts, cancelled, parts, chan, work, skipped, overlooked>>

\* An error of a worker or the end of the context reaches the reader ...
\* Mutant: errorChan is looked at between two batches only.
ReaderFailsBetween(p) == rd[p].state = "reading" /\ rd[p].ids = {} /\ (err[p] \/ cancelled) /\ Fail(p)
ReaderFails(p) == rd[p].state = "reading" /\ (err[p] \/ cancelled) /\ Fail(p)
\* ... or its query fails.
QueryFails(p) == rd[p].state = "reading" /\ Fail(p)

EndOfRead(p) ==
    /\ rd[p].state = "reading" /\ rd[p].ids = {} /\ Rest(p) = {} /\ ~err[p]
    /\ rd' = [rd EXCEPT ![p].state = "closed"]
    /\ UNCHANGED <<diskVars, resilient, outcome, attempts, cancelled, parts, ck, chan, work, err, pend,
                   dirty, skipped, overlooked>>

(***************************************************************************)
(* Workers.                                                                *)
(***************************************************************************)
Take(p, w) ==
    /\ work[p][w] = Idle /\ chan[p] # <<>>
    /\ work' = [work EXCEPT ![p][w] = [at |-> "writing", ids |-> Head(chan[p])]]
    /\ chan' = [chan EXCEPT ![p] = Tail(chan[p])]
    /\ UNCHANGED <<diskVars, resilient, outcome, attempts, cancelled, parts, ck, rd, err, pend, dirty,
                   skipped, overlooked>>

\* writeBatch without an error: with a dead letter queue some documents may
\* end up there, except that WriteFailed drops those refused for the end of
\* the context; a duplicate counts as written.
Write(p, w) ==
    /\ work[p][w].at = "writing"
    /\ \E refused \in SUBSET (work[p][w].ids \ target) :
         /\ refused # {} => resilient
         /\ target' = target \cup (work[p][w].ids \ refused)
         /\ \E recorded \in IF cancelled THEN SUBSET refused ELSE {refused} : dlq' = dlq \cup recorded
    /\ work' = [work EXCEPT ![p][w].at = "written"]
    /\ UNCHANGED <<docs, files, resilient, outcome, attempts, cancelled, parts, ck, rd, chan, err, pend,
                   dirty, skipped, overlooked>>

\* writeBatch with an error: any without a dead letter queue, and with one the
\* throttler's alone, when the context has ended.  The worker leaves.
WriteFails(p, w) ==
    /\ work[p][w].at = "writing"
    /\ resilient => cancelled
    /\ \E some \in IF resilient THEN {{}} ELSE SUBSET work[p][w].ids : target' = target \cup some
    /\ work' = [work EXCEPT ![p][w] = Gone]
    /\ err' = [err EXCEPT ![p] = TRUE]
    /\ UNCHANGED <<docs, files, dlq, resilient, outcome, attempts, cancelled, parts, ck, rd, chan, pend,
                   dirty, skipped, overlooked>>

\* AckBatch, unless the context has ended; it saves from the threshold on.
Ack(p, w) ==
    /\ work[p][w].at = "written"
    /\ work' = [work EXCEPT ![p][w] = Idle]
    /\ LET q == [i \in DOMAIN pend[p] |->
                   IF pend[p][i].ids = work[p][w].ids THEN [pend[p][i] EXCEPT !.acked = TRUE]
                   ELSE pend[p][i]]
           d == AtMost(dirty[p] + 1, SaveThreshold)
       IN IF cancelled THEN UNCHANGED <<files, ck, pend, dirty>>
          ELSE IF d = SaveThreshold /\ rd[p].state # "completed" THEN Save(p, q, d)
          ELSE /\ pend' = [pend EXCEPT ![p] = q] /\ dirty' = [dirty EXCEPT ![p] = d]
               /\ UNCHANGED <<files, ck>>
    /\ UNCHANGED <<docs, target, dlq, resilient, outcome, attempts, cancelled, parts, rd, chan, err,
                   skipped, overlooked>>

(***************************************************************************)
(* The end of a partition: a select over doneChan, errorChan and the       *)
(* context, any of which may be taken when several are ready.              *)
(***************************************************************************)
\* Every worker has left: for an error, or because the closed channel is empty.
\* Mutant: the empty channel is taken for the end of the work.
WorkersDoneEarly(p) == chan[p] = <<>>
WorkersDone(p) ==
    \A w \in Workers : work[p][w] = Gone \/ (work[p][w] = Idle /\ chan[p] = <<>>)

\* doneChan: MarkCompleted.
PartitionCompletes(p) ==
    /\ rd[p].state = "closed" /\ WorkersDone(p)
    /\ rd' = [rd EXCEPT ![p].state = "completed"]
    /\ Save(p, pend[p], dirty[p])
    /\ overlooked' = IF err[p] \/ cancelled THEN overlooked \cup (Selected(docs, parts[p]) \ Settled) ELSE overlooked
    /\ UNCHANGED <<docs, target, dlq, resilient, outcome, attempts, cancelled, parts, chan, work, err, skipped>>

PartitionFails(p) == rd[p].state = "closed" /\ (err[p] \/ cancelled) /\ Fail(p)

\* Every partition is completed: the files are deleted, and the copy is done.
CollectionEnds ==
    /\ outcome = "running" /\ \A p \in Parts : rd[p].state = "completed"
    /\ outcome' = "ok" /\ files' = NoFiles
    /\ UNCHANGED <<docs, target, dlq, resilient, attempts, cancelled, memVars, skipped, overlooked>>

(***************************************************************************)
(* The environment.                                                        *)
(***************************************************************************)
Cancel ==
    /\ outcome = "running" /\ ~cancelled /\ cancelled' = TRUE
    /\ UNCHANGED <<diskVars, resilient, outcome, attempts, memVars, skipped, overlooked>>

MemoryIsGone ==
    /\ parts' = <<>> /\ ck' = <<>> /\ rd' = <<>> /\ chan' = <<>> /\ work' = <<>>
    /\ err' = <<>> /\ pend' = <<>> /\ dirty' = <<>>
    /\ cancelled' = FALSE

\* The process exits or dies.
Crash ==
    /\ outcome \in {"running", "failed"}
    /\ outcome' = "none" /\ MemoryIsGone
    /\ UNCHANGED <<diskVars, resilient, attempts, skipped, overlooked>>

\* The process dies while it deletes the files one by one, at the end of a
\* copy or before an attempt that does not resume from them.
CrashInDelete ==
    /\ \/ outcome = "running" /\ \A p \in Parts : rd[p].state = "completed"
       \/ outcome = "none" /\ \E m \in Modes : EffectiveMode(m[1], m[2]) # "direct"
    /\ \E kept \in SUBSET Known(files) :
         files' = [k \in Slots |-> IF k \in kept THEN files[k] ELSE NoCheckpoint]
    /\ outcome' = "none" /\ MemoryIsGone
    /\ UNCHANGED <<docs, target, dlq, resilient, attempts, skipped, overlooked>>

WorkerStep(p) == \E w \in Workers : Take(p, w) \/ Write(p, w) \/ WriteFails(p, w) \/ Ack(p, w)
ReaderStep(p) == ReadBatch(p) \/ Send(p) \/ ReaderFails(p) \/ EndOfRead(p)
EndStep(p) == PartitionCompletes(p) \/ PartitionFails(p)

Start == StartSequential \/ \E n \in Counts : StartParallel(n)

Next ==
    \/ Start \/ CollectionEnds \/ Cancel \/ Crash \/ CrashInDelete
    \/ \E p \in Parts : Tick(p) \/ ReaderStep(p) \/ QueryFails(p) \/ WorkerStep(p) \/ EndStep(p)

\* Goroutines are scheduled and operations on the databases return: some
\* goroutine that can take a step takes one, whichever it is.  Nobody has to
\* interrupt an attempt, start another one, or fail to save.
ProgramStep ==
    \/ CollectionEnds
    \/ \E p \in Parts : ReaderStep(p) \/ WorkerStep(p) \/ EndStep(p)

Spec == Init /\ [][Next]_vars /\ WF_vars(ProgramStep)

(***************************************************************************)
(* Properties.                                                             *)
(***************************************************************************)
BackfillTypeOK ==
    /\ docs \in Sources /\ target \subseteq docs /\ dlq \subseteq docs
    /\ DOMAIN files = Slots
    /\ outcome \in {"none", "running", "failed", "ok"}
    /\ attempts \in 0..MaxAttempts /\ cancelled \in BOOLEAN
    /\ \A p \in Parts :
         /\ rd[p].state \in {"reading", "closed", "completed", "failed"}
         /\ Len(chan[p]) <= ChanCap
         /\ dirty[p] \in 0..SaveThreshold
    /\ skipped \subseteq docs /\ overlooked \subseteq docs

\* What an attempt of this kind would read, if the process died now.
WouldRead(mode, n) == UNION {ReadBy(plan.filters) : plan \in {Plan(mode, n, PresentTypes)}}

\* The plan for one partition of the empty filter forgets a type whose first
\* unfinished partition has not begun (clampPartition).
ForgetsAType(mode, n) ==
    /\ mode = "parallel" /\ n = 1 /\ EffectiveMode(mode, n) = "resample"
    /\ \E t \in PresentTypes : MinOf(PlannedMin(files), t) = NoId

\* Checkpoints of an attempt that failed to discover the types know only the
\* types its saved batches had.
KnowsEveryType == \A k \in Known(files) : PresentTypes \subseteq DOMAIN files[k].prog

\* Whenever the process dies, the files it leaves are such that any next
\* attempt, sequential or parallel, with as many partitions as it likes, reads
\* all that is neither written nor in the dead letter queue: acknowledgements
\* out of order, failed saves, races and crashes included.  Excepted are the
\* two plans named above, and what they left out before.
EveryPlanReadsTheRest ==
    outcome = "none" /\ KnowsEveryType =>
        \A m \in Modes :
            Possible(m[1], m[2]) /\ ~ForgetsAType(m[1], m[2])
                => Unsettled \subseteq WouldRead(m[1], m[2]) \cup skipped \cup overlooked

\* ClampPartitionsWithGlobalMinSafeIDs "skips already-completed partitions/types
\* entirely": a plan leaves out settled documents only.
PlansSkipOnlySettled ==
    outcome = "none" /\ KnowsEveryType =>
        \A m \in Modes : Possible(m[1], m[2]) => Unsettled \subseteq WouldRead(m[1], m[2]) \cup overlooked

\* A copy that reports success has settled every document, except those a plan
\* left out and those whose error lost the race at the end of a partition.
SuccessMeansSettled == outcome = "ok" => Unsettled \subseteq skipped \cup overlooked

\* migrator.go: at doneChan "All workers finished successfully".  The end of
\* the workers is not taken for their success.
NoErrorIsOverlooked == overlooked = {}

\* An attempt comes to its end, whatever fails: neither the bounded channel
\* nor workers that left can block its reader for ever.
AttemptsEnd == outcome = "running" ~> outcome # "running"

\* A checkpoint covers what lies between the start of its partition and the
\* last _id it saved, which is read again.
Covers(cp, id) ==
    /\ id.t \in DOMAIN cp.prog /\ cp.prog[id.t].saved.t = id.t
    /\ id.v < cp.prog[id.t].saved.v
    /\ cp.prog[id.t].lo # NoId => cp.prog[id.t].lo.v <= id.v

\* The attempts together are a CollectionCopy: the bookmark is the set of
\* documents the files on disk cover, at every moment of every attempt.
Copy == INSTANCE CollectionCopy WITH
    settled <- Settled,
    excused <- skipped \cup overlooked,
    bookmarked <- {id \in docs : \E k \in Slots : Covers(files[k], id)},
    outcome <- IF outcome = "running" THEN "none" ELSE outcome

BackfillIsACopy == Copy!CopySpec
=============================================================================
