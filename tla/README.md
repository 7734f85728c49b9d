# Verification of fsdr

`fsdr` moves a MongoDB-compatible Firestore database to another one: it copies every collection (the *initial
migration* or *backfill*), then follows the change stream of the source (*live replication*) until the operator cuts
over. This directory holds TLA+ modules of the parts that decide whether data survives that, TLC configurations that
check them on small instances, and TLAPS proofs for instances of any size.

    tlc -workers 2 -config MCPipelineSteady.cfg MCPipeline.tla
    tlapm PartitionTrackerProofs.tla

## 1. The system

| Component | Code | State it keeps | Operations | Hard behaviour | What makes it correct |
|---|---|---|---|---|---|
| Checkpoint ledger | `parallel.go` `PartitionTracker` | unacknowledged events, pending sequence numbers, last checkpoint, resume-token file | Register, Ack, ticker, Close | acknowledgements out of order, failing saves, crash between acknowledgement and save | a token covers acknowledged events only, never regresses, catches up |
| Live pipeline | `parallel.go` `EventDistributor`, `Worker` | ingest queue, per worker a batching queue, a group, a write queue; DLQ failures; cancellation | read, route, group, flush, bulk write, retry, record or clear a failure, acknowledge, shut down | 1 + 2n goroutines and the readers over bounded channels; partial bulk failures; cancellation in the middle of a write | nothing behind a token is lost; per-document order; every event is settled; shutdown ends |
| Replication lifecycle | `client_stream.go`, `migrationstate.go`, `migrator.go` `startChangeStreamReplication`, `resolveCompletedWithFailures`, `reprocessDLQ` | token files, migration-state file, DLQ file | start, capture token, backfill, open streams, fall back after history loss, retry the DLQ | a crash between any two file operations; gates that may lock each other | every combination of files a crash leaves can be resumed without loss |
| Token store | `resumetoken.go` | token file and its rotated backups | save, load, delete | crash during rotation, unparsable file | load returns the latest complete save |
| Dead letter queue | `dlq.go`, `dlq_reader.go`, `migrator.go` `reprocessDLQ` | JSONL file of failures and tombstones, an in-memory index | record, resolve, scan, back up, reprocess | three readers of one file; crash in the middle of a reprocessing | the readers agree on which documents still fail |
| Backfill | `migrator.go` `migrateCollection`, `migrateCollectionParallel`, `writeBatch`; `parallel_read.go` | batches in flight, counters, partition checkpoints | read, write a batch, checkpoint, finish | a failing worker racing the end of the collection; resume of a half-copied partition | a collection reported as migrated is migrated, or its failures are in the DLQ |
| Backfill tracker, resumption | `backfill_tracker.go`, `backfill_checkpoint.go`, `backfill_resumption.go` | per partition the identifiers in flight, the safe identifier | register, acknowledge, checkpoint, recompute the partitions | batches acknowledged out of order; mixed `_id` types | a resumed backfill skips copied documents only |
| Dispatch of the collections | `client_stream.go`, `initial_migrator.go` | per collection its goroutine, the first error, the state file | start, wait, record the outcome | ends in any order, interruptions | the state says completed only when every collection is loaded |
| Deferred index build | `deferred_index.go`, `lag_tracker.go`, `pkg/db/mongodb.go` | streak of samples, once guard | observe, trigger, build | idle streams, lag returning | indexes are built once, and after the load |
| Throttling, reconfiguration | `throttler.go`, `resizable_sem.go`, `reconfig.go` | permits held, limit | acquire, release, resize | shrinking under load | never more new holders than the limit |
| Console, metrics, progress | `pkg/console`, `pkg/metrics`, `pkg/progress` | job, counters | start, stop, pause, report | concurrent requests | one job at a time |
| Assess, remediate, verify, idmap, wizard, config | the packages of these names | none shared | sequential tools | - | - |

How they interact. `processDatabasePair` starts the lifecycle, which captures a resume token *before* the backfill,
copies the collections, then opens the change streams behind the token and hands them to the pipeline. The readers of
the pipeline register each event with the ledger and pass it through three levels of channels; whoever disposes of an
event acknowledges it to the ledger; the ledger alone writes the token file the lifecycle reads on the next start.
Writers and the backfill share the DLQ. A backfill worker writes its batch through the retry policy, and its partition
keeps checkpoint files the next start plans from. The load of the collections runs under a semaphore the console may
resize; when it is done, the recent lag of the stream triggers the index build. One context, cancelled by a signal, by a failed stream or by a collection
drop, reaches every goroutine.

## 2. Modules

| Module | Content |
|---|---|
| `PartitionTracker` | the ledger; any registered event may be acknowledged at any time |
| `PartitionTrackerProofs` | its theorems |
| `ChangeStreamPipeline` | the goroutines of the pipeline around the same ledger |
| `ReplicationLifecycle` | one database pair over all its starts: gates, copy, history loss, streaming, retry of the DLQ, and the files they leave |
| `ReadPartitioning` | pure operators: the filters a collection is cut into |
| `PartitionReader` | the walk over these partitions, page by page |
| `BackfillResumption` | pure operators: what a start plans from the checkpoint files it finds |
| `Backfill` | the attempts at copying one collection: readers, channels, workers, trackers, files |
| `CollectionCopy` | the abstract promise of such attempts, which `Backfill` implements |
| `DeadLetters` | the lines of a dead letter queue and its three readers |
| `BatchWriter` | one call of `writeBatch`, with all its retries, over such a queue |
| `TokenStore` | the resume-token files and their backups, file operation by file operation |
| `CollectionDispatch` | the load of a pair's collections under the resizable semaphore, and `Reconfig` |
| `DeferredIndexes` | the index build behind that load and the stream |
| `PipelineProofs`, `LifecycleProofs`, `PartitionReaderProofs` (and `ReadPartitioning`), `BackfillProofs`, `BatchWriterProofs`, `TokenStoreProofs`, `DispatchProofs` (and `DeferredIndexes`) | the theorems of the other modules (section 4) |
| `MC...` | instances for TLC |

`Backfill` EXTENDS `BackfillResumption`, which EXTENDS `ReadPartitioning`, as does `PartitionReader`. `DeferredIndexes`
EXTENDS `CollectionDispatch`, so that the index build is checked together with the load it follows.
`ReplicationLifecycle` takes one save of a token and one copied document as one step; `TokenStore`, `Backfill` and
`BatchWriter` show what happens inside these steps.

### PartitionTracker

Each method runs under one mutex, so each is one action: `Register`, `Ack`, `PeriodicSave` (the ticker goroutine),
`Close`, and `Crash`/`Restart` for the process. `SaveCheckpoints` is `saveCheckpointsLocked`: per stream it prunes the
leading run of acknowledged sequence numbers and saves the token of the last one if it is beyond `lastCheckpointSeq`.
A token is the position of its event in the stream. The elapsed interval in `Ack` and the outcome of a file write
are choices. `settled` and `saveFailed` are history variables for the properties; no guard reads them. The guard of the
ticker (an acknowledgement since the last save, or an interval gone by) is left out: without an acknowledgement a save
changes nothing but a counter that is zero already.

### ChangeStreamPipeline

| Code | Actions |
|---|---|
| reader goroutine of `Start` | `ReaderNext` (read and register), `ReaderPush` / `ReaderAbandon` (the two branches of the select), `ReaderStop` (end or failure of the stream) |
| main loop of `Start` | `DistTake` (with the drop, unsupported and invalid events), `DistPush` / `DistAbandon`, `DistStop` |
| `eventLoop`, `ProcessEvent` | `ProcessEvent`, `TimeoutFlush`, `LoopStop` |
| `processBatchWriteQueue`, `executeBatchWrite`, `handleBulkWriteResult`, `retryIndividualOperation` | `WriterTake`, `BulkSucceeds`, `BulkPartlyFails`, `BulkErrors`, `BulkCancelled`, `RetrySucceeds`, `RetryMatchesNothing`, `RetryFails`, `RetryCancelled`, `WriterResolve`, `WriterAck` |
| deferred calls of `Start`, `Shutdown`, `Close` | the guard `QueueClosed` of `LoopStop`, `CloseTracker` |
| ticker, signal, process | `TickerSave`, `Interrupt`, `ProcessCrash`, `ProcessRestart` |

A document of the target is the position of the event it reflects (a delete included), a DLQ entry the position of the
failure. So a lost write shows as a position that is too small and a reordered one as a position that moves back.
`unwritten` records which events an error path disposed of without writing them or leaving them in the DLQ; no guard
reads it.

A retry that is refused with a duplicate-key error is repeated without upsert (`parallel.go:1302-1319`, `1357-1373`). If its own document was
written concurrently this replaces it (`RetrySucceeds`). If another document has the value in a unique index and the target lacks this
one, it matches nothing, returns no error and counts as written (`RetryMatchesNothing`). `Clashing` names the events this may happen to.

What is simplified. Events without an `operationType`, a `documentKey` or a readable body are acknowledged and skipped
where the code does so, like `unsupported` (in the distributor) and `updateWithoutDocument` (in the worker). Backoff
retries are folded into the outcome of the call. The replay of an event after a restart writes the same state
again. A delete whose identifier Firestore cannot hold, which `markDLQ` counts as done, is a delete that succeeds.
Hashes of documents are the documents. `ProcessEvent` pushes and takes its event in one step: a blocked push keeps its
event in the queue, so the model has one event less between the queues than the code. Token writes do not fail here
(they do in the ledger's own module). Statistics, dry run and a nil target are left out.

### ReplicationLifecycle

| Code | Actions |
|---|---|
| `startChangeStreamReplication`, `BackupAndClearDLQ`, `resolveCompletedWithFailures` | `StartLive`, `BackupDLQ`, `RefuseFailures`, `ResetState`, `KeepDLQ` |
| gates of `StartReplication` | `ScanCheckpoints`, `RefuseEmptyCheckpoint`, `RefuseAtGates` (`GateAnswer`), `PassGates` |
| `CaptureAndSaveInitialResumeToken` | `CaptureToken`, `SaveGlobalToken` |
| the initial migration | `BeginCopy`, `CopyDoc`, `CopyDocFails`, `DropDoc`, `SaveProgress`, `CopyInterrupted`, `FinishCopy`, `RecordOutcome` |
| opening the stream, `ChangeStreamHistoryLost` | `OpenStream`, `HistoryLost`, `DeleteGlobalToken`, `DeleteState` |
| live replication, abstractly | `ApplyEvent`, `ApplyEventFails`, `DropEvent`, `SaveToken`, `StopStreaming` |
| `reprocessDLQ`, `reprocessDLQLoop`, `restoreLeftoverTempDLQ` | `StartRetry`, `RenameDLQ`, `NothingToRetry`, `RetryDoc`, `RetryDocFails`, `RetryDocCancelled`, `RetryAborts`, `FinishRetry`, `RemoveTemp` |
| `CleanResidualState`, one kind of file after the other, each removal may fail | `FreshStart`, `CleanGlobalToken`, `CleanState`, `CleanQueue`, `CleanCheckpoint` |
| source, process, operator | `SourceChanges`, `HistoryExpires`, `Crash`, `ClearTokens`, `ClearState`, `ClearQueue` |

The process is one sequence of file operations with a program counter, and a crash may fall after each. `run` is its
memory: what it loaded at the start, not what is on disk now. The target holds a version per document, the DLQ its
unresolved failures with the version of the snapshot they carry, and the phases of its lines. `writtenOff` is a history
variable: it collects the documents the code gives up, at the steps that do so, and is read by the properties only:

* `BackupDLQ`: the failures of an unfinished copy are moved to a backup nothing reads again (`migrator.go:473`);
* `CaptureToken`: a new token while the target holds older documents, or the queue older snapshots (after a lost
  history, a clean-up, or in `live-only`); a copy skips a document that is there and a retry replays what is in the
  queue;
* `OpenStream` at `-live-start-timestamp`: what the operator says is there already;
* `StartRetry`: the temporary file of a crashed retry replaces a queue with newer failures, or will put back
  snapshots older than the target (`migrator.go:2971`);
* `ClearQueue`: the operator clears a queue of two phases;
* `CleanQueue`: the clean start removes the queue before the backfill checkpoints (`state_cleanup.go:26-33`); if it is cut short in
  between, the checkpoint left behind skips a document whose failure is gone;
* `RetryDocCancelled`: the context ends while the last record of a retry is written: `WriteFailed` leaves such a failure out
  (`dlq.go:77`), the loop looks at the context only before a further record, and the copy of the queue is removed;
* `DropDoc`, `DropEvent`: what the copy and the pipeline themselves take for written although it is not (`migrator.go:1171`, `parallel.go:911`,
  `:1084`, `:1309`); `Backfill` and `ChangeStreamPipeline` say when.

A document leaves the set when it is written anew. Without it, `NothingLost` would be false in each of these ways.

What is simplified. Documents are changed and never deleted. The pipeline writes a document and clears its failure in
one step (the pipeline module has the steps), and its tombstone has the phase of its failure. One collection,
one partition. The backfill checkpoint is a prefix of the documents. An error that ends the run anywhere is a `Crash`: both leave the
files as they are. An unreadable token file reads as an empty one. Index-only runs, dry runs and the upgrade of old
token files are left out.

### ReadPartitioning and PartitionReader

An `_id` is a record of a type and a number, and a filter a set of clauses (a type, two bounds, a remainder), one of
which a document must satisfy. `Partition` is the method of that name: it dispatches on `IDTypeForPartition`, on the type
found by the sample and on the threshold to `MinMaxPartitions`, `QuantileRanges`, `UniformSlices`, `GroupedByType` or
`LegacySampled`, and `CapFinalPartition` bounds the last one. The sample is any subset of the collection. The number of a string is its
rank as text: `PrefixRank` is the rank of the prefix that `%02x` prints for a number, so `"100"` comes before `"ff"` and between `"10"` and `"11"`. `Radix` is 16 in
the code; prefixes have up to four digits.

| Code (`migrateCollectionParallel`, the closure `readPage`) | Actions |
|---|---|
| a page and the walk over it, with the bound and the order check | `ReadPage` |
| the memory-limit error of the endpoint: a smaller page from the last document, a bounded number of retries | `MemoryLimit` |
| the application | `Insert` |

### BackfillResumption, Backfill and CollectionCopy

`BackfillResumption` has `DetermineBackfillResumptionPlan` as operators: whether the files are one valid set
(`IsValidSet`), the filters to go on with (`FilterOf`), the global minimum per type (`GlobalMin`), and the partitions
cut anew and clamped to it (`ClampPartitions`).

| Code | Actions |
|---|---|
| `migrateCollection`, `migrateCollectionParallel`: the plan, the deletion of the files it does not use, the goroutines | `StartSequential`, `StartParallel` |
| the reader: a batch, `RegisterBatch`, the send on the bounded channel, an error or the end of the context instead | `ReadBatch`, `Send`, `ReaderFails`, `QueryFails`, `EndOfRead` |
| a worker | `Take`, `Write`, `WriteFails`, `Ack` |
| the tracker's ticker; its saves at the threshold and at the end are part of `Ack`, `PartitionCompletes` and `Fail` | `Tick` |
| the select at the end of a partition | `PartitionCompletes`, `PartitionFails` |
| the end of the collection, the deletion of its files | `CollectionEnds`, `CrashInDelete` |
| context, process | `Cancel`, `Crash` |

A partition's acknowledged batches, its pending numbers and its batches in flight are one sequence, `pend`. The file of a
partition has the greatest `_id` of each type among the leading acknowledged batches. `skipped` and `overlooked` are history
variables: what a plan left out although it was not settled, and what was unsettled when `doneChan` was taken although
an error or the end of the context was there too. No guard reads them.

`CollectionCopy` has five variables and two actions: documents get settled and stay so, success needs all of them, and
a bookmark covers settled documents only. `BackfillIsACopy` maps the union of what the files on disk cover to that
bookmark, so it speaks about every moment at which the process may die.

What is simplified. In the instances a batch holds one document. The documents do not change and are not deleted. Estimates and
byte counts only decide how many partitions there are, which is a choice. A collection of several types is read by one
cursor here; its paging is `PartitionReader`'s subject.

### DeadLetters and BatchWriter

| Code | Actions |
|---|---|
| `writeBatch` with a DLQ | `TransformFails`, `ProactiveSkip`, `ThrottlerFails`, `BulkInsert`, `BulkRetry`, `Replace`, `Single`, `AllSettled` |
| `RetryWithSplit` over `processBatch`, without one | `StartSplit`, `RunJob` |
| context, application and live replication | `Cancel`, `NewerVersion`, `LiveWrite` |

The target answers a bulk operation per document, or not at all while any part of it is applied. A document of the target
is absent, as copied, or newer. `jobs` is the recursion of `RetryWithSplit` unrolled: the parts still to be written in
order. An error names positions in the list it was given, because `processBatch` returns those of its own list (the
duplicates of its insert) to a `RetryWithSplit` that applies them to the batch.

`DeadLetters` has the lines in order, and `PopulateActiveFailedIDs` (in order), `HasActiveFailedRecords` (any line that is
not the header, tombstones included) and `ReadDLQReport` (all tombstones first, under the printed `_id`).

What is simplified. `config.go:353` turns the conversion of invalid identifiers off, and requires `MinBatchSize` and
`MaxRetries` to be positive. The throttler is its failure with the end of the context; its waiting is time.

### TokenStore

| Code | Actions |
|---|---|
| `StartReplication`: the upgrade of the file without a partition, the scan, the load of each partition's token, the minimum of several, the new file, the deletion of the old ones | `UpgradeLegacy`, `Scan`, `Refuse`, `Load`, `Assess`, `CleanUp`, `DeleteNext`, `CleanedUp`, `OpenStream` |
| `SaveResumeToken`, `LoadResumeToken` (with the restoration of a backup), `DeleteResumeToken`, `copyFile` | the operation lists `SaveOps`, `RestoreOps`, `DeleteOps`, done one by one by `Perform`, or failing in `Fault` |
| the tracker's saves | `SaveToken` |
| process, disk | `Crash`, `Corrupt` |

A copy truncates its target before it fills it and is two steps; a rename is one. A file is missing, torn, of another version, or
has a token. The position of a token and the second its file records are different things (`Second`), since the code
compares seconds. `floor` is what all partitions had dealt with. The old files of a changed layout are deleted one after
the other in any order (a range over a Go map, `old`), and a main file that cannot be deleted keeps its backups. `Init`
starts from any layout an earlier release may have left: a file for each of its partitions, under numbered or contiguous
names, of today's version or of an older one.

### CollectionDispatch and DeferredIndexes

| Code | Actions |
|---|---|
| `StartReplication`: the limit, the semaphore, the loop over the collections, `wg.Wait` and what follows | `ReadLimit`, `Register`, `Admit`, `Park`, `EndDispatch`, `AllDone`, `StreamEnds` |
| `resizableSem`: `Acquire` (`Admit`, `Park`, `AfterFunc`), `Release`, `SetLimit` | `EndLoad`, `Resize`, `AfterFunc` |
| `effectivePartitioning`, asked twice: for the parallel read and for the workers of each partition | `Gate`, `ReadKnobs` |
| `Migrator.Reconfig`: the configuration, the limit outside the lock, the knobs | `Submit`, `Resize`, `Apply` |
| another pair's `setCollSem` and `clearCollSem` | `OtherPair` |
| the stream | `Arrive`, `ApplyEvent` |
| `DeferredIndexController` | `Observe`, `Report` |
| `syncIndexes` | `SyncId`, `SyncSecondary` |
| `CreateIndexFromDefinitionAsync` | `TakeSlot`, `Create`, `Backoff` |

The condition variable is modelled as such: `parked` is a dispatcher in `cond.Wait`, which only a broadcast wakes. The
reading of the lag is that of the last applied event, "none" before the first. `Ended` means the program is
gone, since every return of `StartReplication` ends it. An explicit index list, the index-only mode and per-collection
settings in the initial configuration are left out. So is the tuned `maxReadPartitions`: the byte-aware count is authoritative (`migrator.go:1362-1391`), the setting
only raises a warning there and is a fallback of the partitioner. Builds run with a context of their own that only its limit of
four hours ends.

## 3. Runs

| Run | Checks | States |
|---|---|---|
| `tracker` | the ledger: two streams of 3 and 1 events, threshold 2, any acknowledgement order, failing writes, any number of crashes and restarts | 3646 |
| `pipeline_steady` | the pipeline without cancellation, grouping by distinct document, one event that clashes, one crash or restart | 70059 |
| `pipeline_shutdown` | the pipeline with grouping by operation type, a document that does not transform, one that clashes, signals, failing streams and a drop | 41534 |
| `lifecycle` | two documents, three changes (1, 2, 1), both modes, a start time, the clean start of the console, two failing or dropped writes, one crash, interruption or failed call, any number of stops, starts, retries and expirations | 1123642 |
| `reader` | collections of 2 to 4 documents out of ten `_id`s of three types and one of five strings, any sample, 2, 3 or 5 partitions asked for, prefixes of two binary digits, 3 configured, pages of 2, one retry of the smallest page, one insert | 131017 |
| `backfill` | two attempts, sequential or with 1 or 2 partitions, at {two strings} and {two strings, one ObjectID}; 2 workers, a channel of 1, a save at each acknowledgement; any failure, cancellation and crash | 819841 |
| `backfill_ends` | one attempt at three documents with one worker: more batches than the worker and its channel hold | 53814 |
| `tokens` | no file, today's file, two partitions, one or two contiguous names; 3 backups, 4 positions, 2 to a second; two crashes, one failing call, one corrupted file | 1173815 |
| `batch_writer` | three documents, two of which print alike; 2 retries, split down to 1, two writes by others; a document that breaks another index, one that does not transform, the end of the context | 88743 |
| `dispatch` | three collections, one of them large, a limit of 1, two requests out of two contents, one act of another pair | 760747 |
| `index_build` | two collections, three indexes, two events, a streak of 2, one slot, one retry | 789400 |
| `backfill_race` | the disagreement of section 6 the project keeps a run for | - |

**Bounds of the ledger and the pipeline.** One stream, as `config.go` forces `IncrementalStreamPartitions` to 1. Four events: enough for a group of
two, for a second group behind it, for an event of the other worker that overtakes, and for a threshold of two to be
crossed in the middle. Two documents on two workers (`WorkerOf` puts each on its own), because order matters within a
document and independence between workers. Every queue has capacity one, so that every blocking send blocks. One
restart: a second one starts from a token and a target of the same kind.

**Properties.** `CheckpointCoversOnlyAcked`, `CheckpointNeverRegresses`, `CloseFlushesBoundary` and
`AckedProgressIsSaved` say what the ledger promises. `CheckpointedDocIsSafe` and `SettledDocIsCurrent` say what it is
for: no document behind a token is lost, and no older event has the last word. Both except a document whose last event, or a later one, is a write that
may clash with another document (`MayVanish`: the retry matches nothing, and its success clears the failures of the document); `NothingBehindATokenIsLost` has no exception, and is refuted in three ways (section 6). `TrackerRefined` says the pipeline is
an implementation of `PartitionTracker`'s specification, so that what is proved of the ledger holds in the pipeline.
`LossIsConfined` is what remains true under cancellation: it names the only events that can be lost.
`EventsAreSettled` and `ShutdownCompletes` are the liveness properties.

`NothingLost` looks at the files only: at every moment, what a crash would leave accounts for every document.
`FollowedDocumentsAreCurrent` looks at the running pair. They allow for `writtenOff`, so they say that there is no
loss but those listed in section 2. What the copy or the pipeline drops enters there as one step (`DropDoc`, `DropEvent`); that they drop nothing else is
what `SuccessMeansSettled` and `LossIsConfined` say of their own modules. `ReplicationResumes` says that no combination of files locks a pair out.

`UniformCollectionIsReadWhole` and `NoDocumentIsReadTwice` say of every way to cut a collection that the partitions leave no
gap and do not overlap, under retries and inserts, but that slices of strings overlap once there are more of them than prefixes of two digits (`OverlappingSlices`). `EveryPlanReadsTheRest` looks at the checkpoint files after any death
of the process: whatever the next start plans from them, it reads all that is not settled. `SuccessMeansSettled` is the
same for a success that is reported. Both name what they except: `skipped`, `overlooked`, files that do not know every
type, and the plan of section 6 that forgets one. `AttemptsEnd` and `WalkEnds` say that the goroutines of an attempt cannot wait for each
other for ever and that the page walk is bounded.

`ReturnMeansSettled`, `FailuresAreCounted` and `ReportCountsOpenFailures` tie together four views of one batch: what the
call returns, what it counts, what the target has, what the queue says to its readers. `InsertsKeepNewer` is the
"Safety Fix 4" of `writeBatch`. `StreamStartsBehindEveryPartition` is the safety of the token files,
`RefusalHasACause` their availability, `ProgressStaysOnDisk` and `CorruptionCostsOneSave` what a crash and a bad file
may cost. `LimitFollowsConfig` and `TuningReachesQueued` say that what the console is told has been set is what runs;
`NothingFollowsAnUnfinishedLoad` is the "ONE canonical rule" of `deferred_index.go`, and `CaughtUpStreamIsIndexed` its
liveness: the build does come, through failing builds and a single slot.

The type invariants `ReaderTypeOK`, `BackfillTypeOK`, `BatchWriterTypeOK`, `DispatchTypeOK` (the number of held
permits included) and `IndexTypeOK` hold in the same instances, all but `BackfillTypeOK` also by a theorem; they are in no listed run and may be added to the `.cfg` files.

**Bounds of the other modules.** `reader`: the ten `_id`s have a negative number, numbers apart and close together, and the types that the code
treats differently; five slices of strings are more than the four prefixes of two binary digits, as 257 are in the code; four documents are more than two pages, and with three partitions between
the ends of a collection the middle one may be turned around (section 6). `backfill`: two attempts, since what an attempt starts from is
the files, and two may leave every kind of them; two workers make acknowledgements come out of order; a third document
of another type makes a checkpoint of two types. `tokens`: two crashes and a fault let an interrupted save be
followed by an interrupted restoration; each crash costs a version at most, so three backups stand for ten
(`CorruptionCostsOneSave` asks for fewer crashes than backups, `ProgressStaysOnDisk` for one failing call at most: section 4).
`batch_writer`: three documents split into unequal halves; of two retries one is not the last. `dispatch`: three
collections leave one queued while one runs and one ends; the two contents of requests raise the limit and tune one
collection, so that requests overlap. `index_build`: three indexes on one slot leave one waiting
behind a failing one. The two workers of `backfill` are symmetric; `backfill_ends` checks a liveness property and uses no symmetry.

The bounds of the lifecycle: two documents, one checkpointed and one not; the three changes let a document change
before, during and after a copy, and change again behind a failure; two failures make a queue of two phases; one
crash, since its effects last until the files are gone; the bound on crashes is that on failing removals and cancelled retries too (two crashes, with and without `-dlq-resync-from-source`,
were checked for the safety properties without a run of their own). The start time is position 0.

**Fairness.** Weak fairness for each goroutine: Go's scheduler runs every runnable goroutine, the source delivers
the events of its log, and every call to the target returns (it has a timeout of 90 s, or 10 s during a shutdown). No
fairness for a crash, a signal or a stream error, nor for the success of a write. `AckedProgressIsSaved` and
`EventsAreSettled` allow for the process to stop. The run with a shutdown does not check for deadlock: the process ends.

In the other modules it is weak fairness of the readers and workers of an attempt, of the dispatcher, of each
collection's goroutine, of each index build, of the ticker unless the context has ended, and of the batch writer's next
step; none for the end of a stream, arriving events, requests, cancellation or crashes. Their operations return because each has a timeout. `BatchWriter` does not
assume that a retry succeeds, and `PartitionReader` not that a query does. Most of these runs do not check for
deadlock because the modelled process ends.

In the lifecycle, the process goes on with its file operations, an operator acts on a refusal, and starts are tried
again (strong fairness of `StartLive`, since retries and clean starts may come in between). Nothing is assumed of
crashes, failures, stops, the source or the console.

## 4. Proofs

Every theorem holds for every value of the constants that satisfies the assumption of its module; these say that numbers
are natural numbers, that sizes are positive where the code makes them so, that sets the code iterates over are finite, and
that the time in an ObjectID is unsigned. Each
invariant below is inductive: it holds initially and each action preserves it, and each proof has a lemma per action (or
per group of actions of one goroutine). What runs check and theorems state are the same definitions.

### The ledger: `PartitionTrackerProofs`

`TrackerTypeCorrect`, `CheckpointIsSafe`, `CheckpointIsMonotonic`, `CloseFlushes`.

`CheckpointCoversOnlyAcked` is not inductive: nothing in it says that the token of a pending event lies
behind the saved one. The inductive invariant `TrackerInv` adds that, while the process is up, the pending sequence
numbers of a stream are the interval from the first unpruned number to `NextSeq - 1` in order (`PendingShape`), the
event map holds exactly them, the token of number `q` is the position `cursor + 1 - NextSeq + q`, an acknowledged
event is settled, and every position before the first pending one is settled. `LeadingRunIsInterval` shows that the pruned prefix
is an interval `1..k`, `PruneKeepsShape` and `GaplessRun` carry the shape over a save. For `CloseFlushes`, `BoundaryInv`
adds where the file stands relative to the first pending event (`FileAtBoundary`) unless a write failed.

### The pipeline: `PipelineProofs`

`PipelineDrivesLedger` is the refinement `Spec => TrackerRefined`: each step of the readers, the distributor, the
workers and the process is a step of the ledger or leaves it alone. A step of the ledger needs the event it registers or acknowledges to be
known, so the invariant `PipeInv` adds to `TrackerInv` that whatever lies in a hand, a queue, a group or a writer's
bookkeeping is a live event. `PipelineTypeCorrect` is part of it; `PipelineCheckpointIsSafe`, `PipelineCheckpointIsMonotonic` and
`PipelineCloseFlushes` are the ledger's theorems carried over.

Its second part is about documents. `LossIsOnErrorPaths` (`LossIsConfined`) and `NoWriteDisappears` hold for every log and every
option, with signals, drops, failing streams, crashes and restarts. `CleanRunLosesNothing` (`CheckpointedDocIsSafe`) and `CleanRunStaysCurrent`
(`SettledDocIsCurrent`) hold under `CleanRun`: groups of distinct documents (`GroupOpsByDistinctId`, not `ForceOrdered`), events that all transform, no
drop in a log, nobody cancels. Operations may fail there, and the process may crash; the instance of
`pipeline_steady` is one of them; section 6 has configurations that lose a document without some of these hypotheses, and one that loses a document that clashes. The invariant `LossInv` has four parts besides `PipeInv`:

* `OrderInv`: of two events of a stream the earlier is further down the pipeline, queue by queue and group by group, and a document's events are with its
  worker (`RouteInv`);
* `UnackedInv`: a position the ledger has not settled is in some hand, queue or group;
* `Accounted`: a write that was read is coming, undecided in its writer, or safe: in the target, in the DLQ, or given up;
* `Passed`: a write that has left the writer is older than what is there or behind it, unless it was given up; and `Rejected`:
  operations that do not transform are in the DLQ before the bulk write is sent.

A retry that matches nothing counts as given up, in `unwritten`. `CleanInv` does not exclude it, and so says of documents outside `MayVanish` only that what counts as
written is in the target: its success also clears the failures of earlier events of its document, which is why the exception
(`Vanishable`) has those events too. `Flow` is the step they share: events move down one place and leave only by an error path. `CleanInv` adds that nobody has
cancelled, that groups are distinct, and that what a writer holds for a success is in the target.

### The lifecycle: `LifecycleProofs`

`LifecycleTypeCorrect`, `NothingIsLost` (`NothingLost`) and `FollowersAreCurrent` (`FollowedDocumentsAreCurrent`), for any number of documents, any
log and any number of crashes, retries and restarts. `LifecycleInv` says that the memory of a run agrees with the files it was loaded from, at each
value of the program counter (`MemoryInv`, `ModeInv`); that the global token is never ahead of the partition's and no token on disk ahead of
the run (`TokensInv`); that what the copy or its checkpoint takes for dealt with is in the target or accounted for (`DealtInv`); that retrying an entry of the queue takes its
document no further back than the token, or the entry was overtaken (`QueueInv`), and that a retry has brought its documents up to the token or keeps a record of them (`RetryInv`); and that a document a
restart does not copy is covered up to the token on disk (`LossInv`), and in a run that streams up to its cursor (`FollowInv`).

### The page walk: `PartitionReaderProofs`

`NothingIsReadTwice` (`NoDocumentIsReadTwice`), `UniformCollectionsAreReadWhole` (`UniformCollectionIsReadWhole`) and `ReaderTypeCorrect`, for any collection of
any number of documents, any sample and setting, any number of partitions, any page size and any number of retries and inserts.

The first part is about the cut. Every way of cutting, but the one by remainders, makes consecutive ranges between boundaries (`Segments`), and the
ranges do not overlap if the boundaries never descend (`Increasing`, `RangesAreApart`); that they do not is shown for samples, quantiles, equal steps and
prefixes of strings (`SampledIsIncreasing`, `QuantilesAreIncreasing`, `StepsAreIncreasing`, `PrefixBoundsAreStrings`). Prefixes
are in order for as many slices as there are prefixes of two digits; beyond, the slices share strings and nothing else (`Overlapping`), which every statement about the cut
then excepts. `GroupedByTypeIsACut` merges the slices of
the types, `CapKeepsCut` bounds the last range. `CutIsApart` puts them together, with one exception, `Excepted`: between the ends of a collection of several types an
end of another type counts as 0 and the boundaries may descend; the ranges then share no document of the collection, but may share one inserted later. There an end
that is no ObjectID reads as 0, which is below every time: hence the assumption on the sign.

For a collection of one type, whose `_id`s are not below zero, the ranges also leave no gap (`SegmentsCover` and what follows). `CutFits` says so of every way to
cut, but for one: a setting that names another type gives ranges of that type, whose first is a `Misfit`.

The walk is `WalkInv`: what was emitted is of an earlier partition, or of this one and not above the last `_id` read. A page adds to it documents above
the last `_id` (`PageMeetsFilter`, `WalkAscends`), so they are new. `NoDocumentIsReadTwice` itself is the other conjunct that needs induction. `WholeInv` is the converse: whatever is of
an earlier partition, or not above the last `_id`, was emitted. It rests on `PageIsComplete`, that a page has all the query selects or as many as the page size,
the least ones, so that a page cut short, halved or retried leaves no gap, and a short page is the end; on `PastIsAbove`, that a document past the bound is above all of the
partition; and on `MisfitStops`, that a range of another type fails at its first document: it fails loudly, and never ends as done.

### The backfill: `BackfillProofs` and `BatchWriterProofs`

`SuccessSettles` (`SuccessMeansSettled`) follows a document through an attempt. `PlanInv`: each document is read by a partition of the plan, settled, or
among those the plan skipped. `FlowInv`: a document of a partition is settled, or before the reader, in its hands, in the channel or with a
worker, or something broke, and a worker leaves for an error only. `EndInv`: a reader that ended has nothing left, and a partition
that completes has settled what it read, or took `doneChan` with an error waiting. `TrackInv` says the same of the
tracker and yields `ForgottenIsSettled`. `BatchIsLeast` (from the order of the `_id`s) shows that the batches of a reader leave no gap, `SaveForgets` that a save
forgets acknowledged batches only. It needs `Workers # {}`: without a worker the end of the workers would come at once; `migrator.go:631` and `:1648` give each
partition at least one.

Two further theorems are about the files an attempt leaves. `BackfillImplementsCopy` is the refinement `Spec => BackfillIsACopy`, by the lemma
`CopyStepRefines`: each step maps to a step of `CollectionCopy` or to a stutter, where the bookmark is what the files cover. It rests on `CopyInv`: a
checkpoint, on disk or in memory, covers accounted documents only (`CoversOnly`), and whatever its partition has not to read below a document that it
does read is accounted for (`ReadsDown`); so the greatest acknowledged `_id` of a prefix of the batches may be saved, and a plan made from such files
leaves files of the same kind. The partitions get there by `CutIsAChain`: for each cut of the collection and each type the partitions are slices
from one boundary to the next. The boundaries need not ascend (slices of strings beyond 256 overlap): an `_id` is in the first slice whose upper boundary is above it.

`TheNextAttemptReadsTheRest` (`EveryPlanReadsTheRest`) is the converse: what is not accounted for is read by any next plan. It needs `BoundsInv`: the bounds a
checkpoint keeps are those its partition has in the cut, since `ReadsDown` says nothing of a checkpoint whose bounds are too narrow, and a plan
resampled from such files reads between these bounds. `Pieces` says which documents lie between them, and `UnsettledIsHeld` that an unsettled document
is above what its piece has saved, for each of the plans that look at the files.

`BatchWriterProofs` proves `BatchWriterTypeCorrect`, `ReturnSettles`, `CountIsRecorded`, `ReportIsConsistent` and the action property `InsertsRevertNothing`.
`WriterInv` says that each document is dealt with, in the target, an open failure or one of the excepted two kinds (`DealtWith`), or still in hand: in the list of the
current operation or in a job still to run (`InHand`), and that the counter is the number of recorded failures (`Counted`).
The lemmas `...IsGood` give what each bulk operation may do to a document, whatever the target answers.

### The token files: `TokenStoreProofs`

`TokenStoreTypeCorrect`, `NeverAheadOfAPartition` (`StreamStartsBehindEveryPartition`), `RefusedForACause` (`RefusalHasACause`),
`ProgressIsNeverLost` (`ProgressStaysOnDisk`) and `CorruptionCostsAtMostOneSave` (`CorruptionCostsOneSave`), for any set of layouts, each of any number of partitions, and any number of backups, crashes,
corrupted files and failing operations.

What the files mean depends on how they began, which no variable remembers. The invariant `TokenStoreInv` therefore says that there is
a `Beginning`: the layout `L`, the token `start[f]` of each of its files, the file `h` that holds the least of them, and whether the files are of
today's version. It is chosen in the initial state and each step keeps the same one. For it, `StoreInv` says:

* `TodoInv`: what is ahead is the rest of a save of today's file that ends with its write, of a deletion of an old file, or of a restoration over a torn main
  file (`Restoring`). So every prefix of a list of operations is covered without counting how much of it is done;
* `FilesInv`, `DeleteInv`: until today's file is written all old ones are there; unless a deletion was cut short all
  or none are; while the old ones are being deleted each that is left is about to go, but the one that a single fault kept;
* `LoadInv`, `FineInv`: what has been loaded, and that no version of today's file or of `h` is ahead of `floor` (in seconds), nor the
  minimum once `h` took part in it. Only two files matter, so that the restoration of the others is no concern;
* `IntactInv`, `ProgressInv`: as long as every file can be read, an old file that is left still has its first token, and the progress is in today's file, or,
  before that is written, in `h`. It is not overwritten: an old layout is in force again only while `floor` is still its least token.

`InForce` says which files `ActiveFiles` and `HistoricalTotal` find in such a directory: today's file, or the files of the layout that are left
(`ActiveShape` has the two ways of numbering them). `Loaded`, `Effects`, `SaveOpsShape` and `DeleteOpsShape` say what loading, one operation and the
two lists of operations do.

`CorruptionCostsOneSave` needs a second invariant, `ChainInv`, kept together with `TokenStoreInv`: where the last two saves are in the chain of
backups while and after a rotation is interrupted. It is claimed only as long as no operation failed, at most one
file was corrupted and there were fewer crashes than backups (`Mild`), which is what the property supposes and what no step makes true again:

* `RotationInv`: the length of what is left of a rotation tells how far it is. The rotation goes from the last backup to the first, so the version about to
  be overwritten is a hole or a file that was cut off (never one that can be read), and before the main file is written the first backup is a copy of it;
* `KeptInv`: the first backup that can be read (`FirstIn`) is one of the last two saves, and no further down than `Reach`: an interrupted rotation may
  leave a hole or a second copy, which moves the older save down by one version, so `Reach` is one (the first backup) plus the number of crashes. Where a change
  of the layout is still to be done over again it is one less, since that will rotate the files once more, whether or not the main one can be read.
  `Within` allows one version more to a save that the rotation under way has moved already;
* `MainInv`, `ReadableInv`, `TransitionInv`: the main file is torn or one of the last two saves; tokens are saved only over a main file that can be read,
  and what is restored is one of the last two saves; the stream is not running while a layout is being changed.

`MovedDown`, `Overwritten` and `RotationKeeps` are the lemmas about the chain: what one rename, one removal and the copy of the main file do to the first
version that can be read. The bound cannot be raised: with two backups, two
crashes can leave none of the last two saves to be read.

### The dispatch and the index build: `DispatchProofs`

`SemaphoreCountsHolders`, `LimitIsConfigured`, `TuningIsHonoured`; `IndexTypeCorrect`, `IndexesFollowTheLoad`, `BuildsWaitForLag`, `NoFailureIsUnreported`.

The invariant `DispatchInv` has a part for each. `HeldInv` says that the count is the number of collections
between `Admit` and `EndLoad`. `LimitFollowsConfig` is not inductive, since the limit lags behind the configuration
while a request is between its two steps: `LimitInv` adds that such a request carries the configured limit, that it is
alone, and that nobody can have found the semaphore before it was registered. `TuningInv` adds that an override, once
there, is never taken back. `LoadInv` follows a collection's end to the dispatcher: a failed one has set `critical`, a
partial one presupposes the end of the context, and a dispatcher that waits without it has none queued.
`IndexInv` adds to it that a controller that runs has seen the completed state, and that the last `streak` samples are low
(`LowTail`; `OneMoreSample` carries it over a tick). `BuildInv` follows each index: not launched yet, in one of the states of its
goroutine, on the target or failed (`NothingForgotten`), with the slots counted (`SlotInv`).

### What the proofs found

* `LossIsConfined` was false on instances larger than those of the runs: the history `unwritten` did not name three ways in which an error path gives up
  a write. Two operations of a document rejected in one group leave only the later one in the DLQ, and an earlier operation that succeeds clears both. An operation behind the failed one of an
  ordered bulk write, never sent, is counted as a success and clears an earlier failure of its document that was acknowledged. And with two
  operations that do not transform in front of them (groups of five), the shifted indexes retry an older operation of a document after a newer one was written. The
  history now has them; the code is what section 6 describes.
* `NothingLost` needed `StaleFailures`: when a new token is captured, or a stream opened at a start time, a queued failure may carry a snapshot older than that token;
  a later retry brings its document to the snapshot, and the changes in between are not replayed. `writtenOff` has these documents.
* A save prunes acknowledged batches whether or not the context has ended; that their documents are settled rests on the check of
  the context before `AckBatch`, since with the context ended a batch counts as written whose refused documents were dropped.
* `ProgressStaysOnDisk` was false with two failing operations, more than its run has: two old main files that cannot be deleted are taken for the layout in force at
  a later start, whose minimum then overwrites today's file: the stream goes back and repeats itself, and no change is skipped. The
  property now allows one.
* `NoDocumentIsReadTwice` was false for three partitions between the ends of a collection of several types; its run had two. It now excepts
  documents inserted into such a collection (section 6), and the run has three.
* `TokenStore` deleted the old files in the order of their numbers, while the code ranges over a map; `DeleteNext` takes any order.

### What is only checked

* Liveness (`AckedProgressIsSaved`, `EventsAreSettled`, `ShutdownCompletes`, `ReplicationResumes`, `AttemptsEnd`, `WalkEnds`, `WriteReturns`,
  `CaughtUpStreamIsIndexed`): fairness is outside what the prover does.
* The properties of section 6, which are false.

## 5. What is modelled and what is not

Modelled: the ledger, the pipeline, the lifecycle, the backfill with its resumption, the dead letter queue,
the token store, the dispatch and the index build. Each has theorems, and every safety property of a passing run is among
them. None of the modules declares a RECURSIVE
operator, so that each can be proved about.

Not modelled:

* the throttler's ramp (`throttler.go`): it delays operations and takes part in no decision but its failure at the
  end of the context, which `BatchWriter` has;
* the averages and percentiles of `lag_tracker.go`, statistics, progress and metrics: they are reported, not acted upon,
  except for the recent lag, which `DeferredIndexes` has;
* the job control of the console: HTTP handlers around one job; what they change in a running job is `Reconfig`;
* document transformation (`transform.go`) and error classification (`retry.go`): functions of text and of documents
  without state; the models take any outcome of them;
* index-only runs, dry runs, the legacy `migrate` mode, explicit index lists;
* drivers, identifiers, command line, configuration, and the offline tools (`assess`, `remediate`, `verify`, `idmap`): I/O, or
  sequential scans without shared state.

## 6. Disagreements found

Each is a configuration TLC finds violated. The first is a listed run; the others can be run by hand
(`tlc -config MCIndexIdle.cfg MCIndexes.tla`); they are not repeated with the runs.

* `MCBackfillRace` (run `backfill_race`, `NoErrorIsOverlooked`): a worker that leaves because of an error closes
  `doneChan` like one that has finished, and the select at the end of a partition may take that branch although the error is waiting
  (`migrator.go:1171`, `:2041`); the collection is then reported as migrated. The comment on the branch says "All workers finished
  successfully".
* `MCPipelineClash` (`MCPipeline`, `NothingBehindATokenIsLost`): a replace that another document keeps out of a unique index is retried
  without upsert, matches nothing and counts as written (`parallel.go:1309`, `:1363`), where `README.md:32` says that a record that still fails "is
  written to the dead-letter queue rather than dropped".
* `MCPipelineOrdered` (`MCPipeline`, the same property): an ordered bulk write stops at its first failure, and `handleBulkWriteResult` takes the
  operations behind it for written (`parallel.go:1084`), where `docs/CONFIGURATION.md:713` promises a fallback "to individual operations for the failed items".
* `MCPipelineCancelled` (`MCPipeline`, the same property): an event that is abandoned because the context is done, or whose write was cancelled, is
  acknowledged all the same, and the final checkpoint moves past it (`parallel.go:304`, `:414`, `:911`), where
  `docs/CONFIGURATION.md:693` says "No data is lost or duplicated during the recovery".
* `MCReaderOverlap` (`MCReader`, `NoRangeIsScannedAgain`): the boundaries of slices of strings are printed as `%02x`; with more than 256 slices they get a
  third digit and are no longer in the order of text, so that the last slice contains what earlier ones have (`parallel_read.go:1201`). No document is left out. A comment
  (`migrator.go:1373`) guards against boundaries "which would re-scan some ranges".
* `MCIndexIdle` (`MCIndexes`, `IdleStreamIsIndexed`): `incremental_stats_manager.go:161` and `:354` say that the recent lag is -1 when the stream is
  idle, and `deferred_index.go:61` counts that as caught up; nothing sets it back to -1, so a stream whose last event was
  late and that then falls idle gets no indexes.
* `MCBatchReport` (`MCBatchWriter`, `ReportShowsOpenFailures`): `ReadDLQReport` lets a tombstone cancel failures
  recorded after it, and `_id`s that print alike cancel each other (`dlq_reader.go:72`, `:120`).
* `MCReaderMixed` (`MCReader`, `EveryDocumentIsRead`): a collection with strings and ObjectIDs read with the setting
  `objectId` is cut by the type of its minimum and loses the documents of the other, where a comment of
  `migrator.go` promises "we FAIL LOUD rather than lose data".
* `MCBackfillClamp` (`MCBackfill`, `PlansSkipOnlySettled`): a plan for one partition clamps the empty filter to the types
  with a minimum, and forgets a type whose first partition has not begun (`backfill_resumption.go:372`).
* `MCPipelineResolved` (`MCPipeline`, `ResolvedMeansWritten`): in a group by operation type, the success of an earlier operation on a document clears the
  failure a later operation on it has just recorded (`parallel.go:1034`; `dlq.go:126`).
* `MCLifecyclePhases` (`MCLifecycle`, `FailuresStayRetryable`): failures of the copy and of the stream share a queue, which `retry-dlq` then refuses for its two
  phases (`migrator.go:2852`), so that they can only be given up, against `initial_outcome.go:29`.
* `MCLifecycleReset` (`MCLifecycle`, `ResetIsNotRefused`): `resolveCompletedWithFailures` deletes the state and keeps the token; the start goes on into the
  refusal of a token without a state (`client_stream.go:255`), against `migrator.go:519`.
* `MCLifecycleStale` (`MCLifecycle`, `FreshCopyRenewsDocuments`): the fresh copy after a lost history skips documents the target has (`migrator.go:2461`), and they
  stay as they were before the gap, against `client_stream.go:418`.

Met on the way and allowed for in the properties, which name them:

* slices of a small numeric collection by remainder never match negative numbers, and a date or boolean `_id` gets slices of
  strings (`parallel_read.go`); the global minimum over slices by remainder means nothing;
* `ExtractTypeRangeBoundariesFromFilter` drops the inclusive ceiling of a last partition, which only reads more;
* a sequential attempt that fails to discover the types of a collection warns and goes on;
* the collector of the partitions returns at the first error while the others go on until the process exits;
* in the copy, error 11000 of another unique index is taken for "the document exists", and the document is skipped (`clash`);
* a tuned `maxReadPartitions` is overridden by the byte-aware count and only raises a warning (`migrator.go:1368-1391`), so `TuningReachesQueued` is about
  the parallel read and the workers per partition;
* `ReplaceOne` for refused documents may revert a newer one; only the insert path is careful;
* with the setting `numeric`, a collection of several types is cut between its least and greatest `_id`, of which one that is no number counts as 0: if
  the greatest is a string, the boundaries descend, the first and the last range overlap, and a number inserted after the cut is copied twice
  (`parallel_read.go:729`, `:768`; `NoDocumentIsReadTwice`);
* the second a token file records ties between partitions, so that the stream may start ahead within one second;
  a main file whose restoration failed is left out of the minimum; a crash while the old files of a layout change
  are deleted leaves files every later start refuses (`client_stream.go:156`);
* a request that comes between the reading of the limit and `setCollSem`, requests that overlap, and a second pair's
  semaphore leave a limit that differs from the configuration (`strayed`);
* operations that do not transform are left out of the bulk write, and the indexes of its errors are applied to the whole
  group, so that the wrong operations are retried (`parallel.go:1084`, `:1111`; allowed for by `LossIsConfined`).

The places where the lifecycle gives up documents are listed with `writtenOff` in section 2.
