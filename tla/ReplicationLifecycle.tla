------------------------ MODULE ReplicationLifecycle ------------------------
(***************************************************************************)
(* One database pair from its first start to live replication, and over    *)
(* every restart: startChangeStreamReplication, StartReplication,          *)
(* reprocessDLQ and CleanResidualState, the files they leave behind and    *)
(* the operator who reacts to a refused start.                             *)
(*                                                                         *)
(* A step writes one file, so that a crash falls between any two writes;   *)
(* only moves of the queue (rename it and open the next, remove it and     *)
(* rename the old one back) are one step, as a crash inside them leaves    *)
(* what one before or after them leaves to the next start.                 *)
(*                                                                         *)
(* A resume token is a position of the source's change log; the version of *)
(* a document is the position of the last change it reflects.  The copy    *)
(* and the pipeline appear by what they promise and by what they may drop  *)
(* (DropDoc, DropEvent): the copy checkpoints a prefix of the documents it *)
(* has dealt with, the pipeline saves tokens of events it has dealt with.  *)
(***************************************************************************)
EXTENDS Integers, Sequences, FiniteSets

CONSTANTS
  NumDocs,            \* documents, numbered in the order of their _id
  Log,                \* bound: the changes the source makes, a document each
  Modes,              \* subset of {"live", "live-only"}
  StartTimes,         \* positions -live-start-timestamp may name
  ResyncFromSource,   \* -dlq-resync-from-source
  Console,            \* the job is started from the console
  MaxFailures,        \* bound: documents that fail to be written
  MaxMishaps          \* bound: crashes, failed calls and cancelled runs

Docs == 1..NumDocs

ASSUME LifecycleAssumption ==
  /\ NumDocs \in Nat \ {0}
  /\ Log \in Seq(Docs)
  /\ Modes \subseteq {"live", "live-only"} /\ Modes # {}
  /\ StartTimes \subseteq 0..Len(Log)
  /\ ResyncFromSource \in BOOLEAN /\ Console \in BOOLEAN
  /\ MaxFailures \in Nat /\ MaxMishaps \in Nat

NoToken == -1    \* no token: an empty file, or nil in memory
NoFile  == -2    \* there is no token file
NoTime  == -1    \* -live-start-timestamp is not given
Absent  == -1    \* the version of a document the target lacks

Positions == 0..Len(Log)
Statuses == {"none", "in_progress", "completed", "completed_with_failures",
             "skipped"}

VARIABLES
  \* files
  globalToken,  \* resumeToken-global.json
  partToken,    \* resumeToken-global-partition-1-of-1.json
  migState,     \* initialMigrationState-global.json; "none": no file
  saved,        \* backfill checkpoint: documents 1..saved are dealt with
  dlq,          \* dlq-global.jsonl
  retryTemp,    \* dlq-global.jsonl.retry-temp
  \* the two databases
  head,         \* last change of the source
  floor,        \* oldest token the source still accepts
  target,       \* version of every document in the target
  \* the process and the operator
  mode,         \* what this pair is run with
  pc, run,      \* the step the process is at, its memory
  refusal,      \* why the last start or retry was refused
  failures, mishaps,  \* used up of the bounds
  writtenOff    \* history: documents given up by BackupDLQ, CaptureToken,
                \* DropDoc, OpenStream, DropEvent, StartRetry, RetryDocCancelled,
                \* CleanQueue or the operator; no guard reads it

tokenFiles == <<globalToken, partToken>>
dlqFiles   == <<dlq, retryTemp>>
files      == <<tokenFiles, migState, saved, dlqFiles>>
world      == <<head, floor, target, writtenOff>>
bounds     == <<failures, mishaps>>
lifecycleVars == <<files, world, mode, pc, run, refusal, bounds>>

-----------------------------------------------------------------------------
(* Documents and their versions. *)

\* The version of document d after the first p changes.
Version(d, p) ==
  LET changes == {q \in 1..p : Log[q] = d}
  IN  IF changes = {} THEN 0
      ELSE CHOOSE q \in changes : \A r \in changes : r <= q

\* Documents that are older than the first p changes make them.
Older(p) == {d \in Docs : target[d] < Version(d, p)}

(* The dead letter queue: the failures that no later line resolves, and the
   phases its lines carry.  A file without a phase holds its header only. *)
NoDlq    == [exists |-> FALSE, fails |-> {}, phases |-> {}]
EmptyDlq == [NoDlq EXCEPT !.exists = TRUE]

FailedDocs(file) == {r.doc : r \in file.fails}
HasLines(file) == file.phases # {}

WriteFailed(file, d, version, phase) ==
  [file EXCEPT !.fails  = {r \in @ : r.doc # d}
                 \cup {[doc |-> d, version |-> version, phase |-> phase]},
               !.phases = @ \cup {phase}]

(* A tombstone, if the document is in the index of active failures.  It has
   the phase of the failure. *)
WriteResolved(file, d) == [file EXCEPT !.fails = {r \in @ : r.doc # d}]

\* NewDLQWriter creates the file if it is not there.
Opened(file) == [file EXCEPT !.exists = TRUE]

MixedPhases(file) == Cardinality(file.phases) > 1

Finished == {"completed", "completed_with_failures", "skipped"}

\* Documents a retry of the dead letter queue can still bring over.
Retryable == FailedDocs(dlq) \cup FailedDocs(retryTemp)

\* Documents whose failure is from before a change that is among the first p.
StaleFailures(p) ==
  {r.doc : r \in {x \in dlq.fails \cup retryTemp.fails :
                     x.version < Version(x.doc, p)}}

-----------------------------------------------------------------------------
(* The process.  from: where its stream starts, or -live-start-timestamp
   before it is open; wrote: dlq.Count() > 0; done: documents dealt with. *)

Idle == [token |-> NoToken, state |-> "none", reset |-> FALSE,
         from |-> NoTime, cursor |-> 0, done |-> {}, wrote |-> FALSE]

LifecycleInit ==
  /\ mode \in Modes
  /\ globalToken = NoToken /\ partToken = NoFile
  /\ migState = "none" /\ saved = 0
  /\ dlq = NoDlq /\ retryTemp = NoDlq
  /\ head = 0 /\ floor = 0
  \* live-only follows a copy that somebody else has made
  /\ target = [d \in Docs |-> IF mode = "live" THEN Absent ELSE 0]
  /\ pc = "down" /\ run = Idle /\ refusal = "none"
  /\ failures = 0 /\ mishaps = 0
  /\ writtenOff = {}

Exit(reason) == pc' = "down" /\ run' = Idle /\ refusal' = reason

\* The next step is s; nobody is refused anything.
GoTo(s) == pc' = s /\ UNCHANGED refusal

(* startChangeStreamReplication up to its DLQ check: load what is there. *)
StartLive ==
  /\ pc = "down" /\ refusal \in {"none", "start_time"}
  /\ \E t \in StartTimes \cup {NoTime} :
       /\ t # NoTime => mode = "live-only" /\ refusal # "start_time"
       /\ run' = [Idle EXCEPT !.token = globalToken, !.state = migState,
                              !.from = t]
  /\ pc' = "dlqCheck" /\ refusal' = "none"
  /\ UNCHANGED <<files, world, mode, bounds>>

(* An unfinished copy: BackupAndClearDLQ moves a queue with lines away and
   NewDLQWriter opens the next one. *)
BackupDLQ ==
  /\ pc = "dlqCheck" /\ run.state \notin Finished
  /\ IF HasLines(dlq)
       THEN dlq' = EmptyDlq /\ writtenOff' = writtenOff \cup FailedDocs(dlq)
       ELSE dlq' = Opened(dlq) /\ UNCHANGED writtenOff
  /\ GoTo("scan")
  /\ UNCHANGED <<tokenFiles, migState, saved, retryTemp, head, floor, target,
                 mode, run, bounds>>

(* resolveCompletedWithFailures: refuse, or take the state for stale. *)
RefuseFailures ==
  /\ pc = "dlqCheck" /\ run.state = "completed_with_failures"
  /\ HasLines(dlq)
  /\ Exit("dlq")
  /\ UNCHANGED <<files, world, mode, bounds>>

ResetState ==
  /\ pc = "dlqCheck" /\ run.state = "completed_with_failures"
  /\ ~HasLines(dlq)
  /\ migState' = "none" /\ run' = [run EXCEPT !.state = "none", !.reset = TRUE]
  /\ dlq' = Opened(dlq)
  /\ GoTo("scan")
  /\ UNCHANGED <<tokenFiles, saved, retryTemp, world, mode, bounds>>

KeepDLQ ==
  /\ pc = "dlqCheck" /\ run.state \in {"completed", "skipped"}
  /\ dlq' = Opened(dlq)
  /\ GoTo("scan")
  /\ UNCHANGED <<tokenFiles, migState, saved, retryTemp, world, mode, run,
                 bounds>>

-----------------------------------------------------------------------------
(* StartReplication *)

(* The partition file, if there is one, decides; else it is made from the
   global file. *)
ScanCheckpoints ==
  /\ pc = "scan" /\ partToken # NoToken
  /\ IF partToken # NoFile
       THEN run' = [run EXCEPT !.token = partToken] /\ UNCHANGED partToken
       ELSE /\ partToken' = (IF run.token = NoToken THEN NoFile ELSE run.token)
            /\ UNCHANGED run
  /\ GoTo("gates")
  /\ UNCHANGED <<globalToken, migState, saved, dlqFiles, world, mode, bounds>>

RefuseEmptyCheckpoint ==
  /\ pc = "scan" /\ partToken = NoToken
  /\ Exit("empty_checkpoint")
  /\ UNCHANGED <<files, world, mode, bounds>>

\* The answer of the gates: why the start is refused, or "none".
GateAnswer ==
  IF run.state = "completed_with_failures" \/ run.wrote THEN "dlq"
  ELSE IF run.from # NoTime
       THEN IF run.token # NoToken THEN "start_time" ELSE "none"
  ELSE IF run.state = "none" /\ run.token # NoToken THEN "token_without_state"
  ELSE IF run.state \in {"completed", "skipped"} /\ run.token = NoToken
       THEN "state_without_token"
  ELSE "none"

RefuseAtGates ==
  /\ pc = "gates" /\ GateAnswer # "none"
  /\ Exit(GateAnswer)
  /\ UNCHANGED <<files, world, mode, bounds>>

\* Mutant: any state file says that there has been a copy.
NeedsCopyOnce == run.state = "none"

\* The whole initial migration is ahead.
NeedsCopy == run.state \notin Finished

(* live-only records that it skips the copy before it has a token. *)
PassGates ==
  /\ pc = "gates" /\ GateAnswer = "none"
  /\ IF NeedsCopy /\ mode = "live-only"
       THEN migState' = "skipped" /\ run' = [run EXCEPT !.state = "skipped"]
       ELSE UNCHANGED <<migState, run>>
  /\ GoTo(IF run.token = NoToken /\ run.from = NoTime THEN "capture"
          ELSE IF NeedsCopy /\ mode = "live" THEN "begin" ELSE "open")
  /\ UNCHANGED <<tokenFiles, saved, dlqFiles, world, mode, bounds>>

(* CaptureAndSaveInitialResumeToken: the partition file, then the global one.
   Nothing brings the changes before the new token to a document that the
   target already has: a copy skips it, and no stream replays them.  A failure
   from before them stays in its queue, to be replayed over what is newer. *)
CaptureToken ==
  /\ pc = "capture"
  /\ run' = [run EXCEPT !.token = head]
  /\ partToken' = head
  /\ writtenOff' = writtenOff
       \cup {d \in Older(head) : target[d] # Absent} \cup StaleFailures(head)
  /\ GoTo("saveGlobal")
  /\ UNCHANGED <<globalToken, migState, saved, dlqFiles, head, floor, target,
                 mode, bounds>>

SaveGlobalToken ==
  /\ pc = "saveGlobal"
  /\ globalToken' = run.token
  /\ GoTo(IF NeedsCopy THEN "begin" ELSE "open")
  /\ UNCHANGED <<partToken, migState, saved, dlqFiles, world, mode, run,
                 bounds>>

(* Save InProgress, then find out where an interrupted copy has got to: the
   checkpointed document itself is read again. *)
BeginCopy ==
  /\ pc = "begin"
  /\ migState' = "in_progress"
  /\ run' = [run EXCEPT !.done = 1..(saved - 1)]
  /\ GoTo("copy")
  /\ UNCHANGED <<tokenFiles, saved, dlqFiles, world, mode, bounds>>

(* writeBatch: a document the target already has is skipped. *)
CopyDoc(d) ==
  /\ pc = "copy" /\ d \notin run.done
  /\ target' = IF target[d] = Absent
                 THEN [target EXCEPT ![d] = Version(d, head)] ELSE target
  /\ writtenOff' = IF target[d] = Absent /\ d \notin Retryable
                     THEN writtenOff \ {d} ELSE writtenOff
  /\ run' = [run EXCEPT !.done = @ \cup {d}]
  /\ UNCHANGED <<files, head, floor, mode, pc, refusal, bounds>>

CopyDocFails(d) ==
  /\ pc = "copy" /\ d \notin run.done /\ failures < MaxFailures
  /\ dlq' = WriteFailed(dlq, d, Version(d, head), "initial")
  /\ run' = [run EXCEPT !.done = @ \cup {d}, !.wrote = TRUE]
  /\ failures' = failures + 1
  /\ UNCHANGED <<tokenFiles, migState, saved, retryTemp, world, mode, pc,
                 refusal, mishaps>>

(* The copy takes a document for written that it has not written: the error
   of a worker is still waiting when its partition is found completed. *)
DropDoc(d) ==
  /\ pc = "copy" /\ d \notin run.done /\ target[d] = Absent
  /\ failures < MaxFailures /\ failures' = failures + 1
  /\ writtenOff' = writtenOff \cup {d}
  /\ run' = [run EXCEPT !.done = @ \cup {d}]
  /\ UNCHANGED <<files, head, floor, target, mode, pc, refusal, mishaps>>

\* The documents a checkpoint may cover: all before the first missing one.
CopiedPrefix == CHOOSE k \in 0..NumDocs :
  1..k \subseteq run.done /\ (k < NumDocs => k + 1 \notin run.done)

\* Mutant: the checkpoint is the last document dealt with, holes or not.
SaveProgressPastHoles ==
  /\ pc = "copy" /\ \E d \in run.done : d > saved /\ saved' = d
  /\ UNCHANGED <<tokenFiles, migState, dlqFiles, world, mode, pc, run,
                 refusal, bounds>>

SaveProgress ==
  /\ pc = "copy" /\ CopiedPrefix > saved
  /\ saved' = CopiedPrefix
  /\ UNCHANGED <<tokenFiles, migState, dlqFiles, world, mode, pc, run,
                 refusal, bounds>>

(* A cancelled or failed copy leaves the state in progress. *)
CopyInterrupted ==
  /\ pc = "copy" /\ mishaps < MaxMishaps
  /\ saved' = IF CopiedPrefix > saved THEN CopiedPrefix ELSE saved
  /\ mishaps' = mishaps + 1
  /\ Exit("none")
  /\ UNCHANGED <<tokenFiles, migState, dlqFiles, world, mode, failures>>

(* The end of the collection deletes its checkpoint. *)
FinishCopy ==
  /\ pc = "copy" /\ run.done = Docs
  /\ saved' = 0
  /\ GoTo("outcome")
  /\ UNCHANGED <<tokenFiles, migState, dlqFiles, world, mode, run, bounds>>

(* resolveInitialMigrationOutcome; failures do not stop the run. *)
RecordOutcome ==
  /\ pc = "outcome"
  /\ migState' = IF run.wrote THEN "completed_with_failures" ELSE "completed"
  /\ GoTo("open")
  /\ UNCHANGED <<tokenFiles, saved, dlqFiles, world, mode, run, bounds>>

\* Where the stream starts: the partition file, else the token in memory,
\* else the start time.
StreamFrom ==
  IF partToken >= 0 THEN partToken
  ELSE IF run.token # NoToken THEN run.token ELSE run.from

(* LoadResumeToken leaves an empty file where there is none.  A start time
   gives up the changes before it, and leaves their failures in the queue. *)
OpenStream ==
  /\ pc = "open" /\ StreamFrom >= floor
  /\ partToken' = IF partToken = NoFile THEN NoToken ELSE partToken
  /\ run' = [run EXCEPT !.from = StreamFrom, !.cursor = StreamFrom]
  /\ writtenOff' = writtenOff \cup
       (IF run.token = NoToken
          THEN Older(StreamFrom) \cup StaleFailures(StreamFrom) ELSE {})
  /\ GoTo("streaming")
  /\ UNCHANGED <<globalToken, migState, saved, dlqFiles, head, floor, target,
                 mode, bounds>>

(* ChangeStreamHistoryLost: delete the token files, then the state file, and
   enter StartReplication again with nothing. *)
HistoryLost ==
  /\ pc = "open" /\ StreamFrom < floor
  /\ partToken' = NoFile
  /\ GoTo("lostGlobal")
  /\ UNCHANGED <<globalToken, migState, saved, dlqFiles, world, mode, run,
                 bounds>>

DeleteGlobalToken ==
  /\ pc = "lostGlobal"
  /\ globalToken' = NoToken
  /\ GoTo("lostState")
  /\ UNCHANGED <<partToken, migState, saved, dlqFiles, world, mode, run,
                 bounds>>

\* Mutant: the stream is opened again at once, without a fresh token.
DeleteStateAndReopen ==
  /\ pc = "lostState"
  /\ migState' = "none"
  /\ run' = [Idle EXCEPT !.wrote = run.wrote]
  /\ GoTo("open")
  /\ UNCHANGED <<tokenFiles, saved, dlqFiles, world, mode, bounds>>

DeleteState ==
  /\ pc = "lostState"
  /\ migState' = "none"
  /\ run' = [Idle EXCEPT !.wrote = run.wrote]
  /\ GoTo("scan")
  /\ UNCHANGED <<tokenFiles, saved, dlqFiles, world, mode, bounds>>

-----------------------------------------------------------------------------
(* Live replication *)

ApplyEvent ==
  /\ pc = "streaming" /\ run.cursor < head
  /\ LET d == Log[run.cursor + 1] IN
       /\ target' = [target EXCEPT ![d] = run.cursor + 1]
       /\ dlq' = WriteResolved(dlq, d)
       /\ writtenOff' = writtenOff \ ({d} \ FailedDocs(retryTemp))
  /\ run' = [run EXCEPT !.cursor = @ + 1]
  /\ UNCHANGED <<tokenFiles, migState, saved, retryTemp, head, floor, mode,
                 pc, refusal, bounds>>

ApplyEventFails ==
  /\ pc = "streaming" /\ run.cursor < head /\ failures < MaxFailures
  /\ dlq' = WriteFailed(dlq, Log[run.cursor + 1], run.cursor + 1, "incremental")
  /\ run' = [run EXCEPT !.cursor = @ + 1, !.wrote = TRUE]
  /\ failures' = failures + 1
  /\ UNCHANGED <<tokenFiles, migState, saved, retryTemp, world, mode, pc,
                 refusal, mishaps>>

(* The pipeline takes an event for applied that it has not written, and may
   resolve an earlier failure of its document. *)
DropEvent ==
  /\ pc = "streaming" /\ run.cursor < head
  /\ failures < MaxFailures /\ failures' = failures + 1
  /\ LET d == Log[run.cursor + 1] IN
       /\ dlq' \in {dlq, WriteResolved(dlq, d)}
       /\ writtenOff' = writtenOff \cup {d}
  /\ run' = [run EXCEPT !.cursor = @ + 1]
  /\ UNCHANGED <<tokenFiles, migState, saved, retryTemp, head, floor, target,
                 mode, pc, refusal, mishaps>>

\* Mutant: the token of the next event is saved, not that of the last.
SaveNextToken ==
  /\ pc = "streaming"
  /\ \E p \in (run.from + 1)..run.cursor : p > partToken /\ partToken' = p + 1
  /\ UNCHANGED <<globalToken, migState, saved, dlqFiles, world, mode, pc, run,
                 refusal, bounds>>

(* The checkpoint ledger saves the token of any event dealt with. *)
SaveToken ==
  /\ pc = "streaming"
  /\ \E p \in (run.from + 1)..run.cursor : p > partToken /\ partToken' = p
  /\ UNCHANGED <<globalToken, migState, saved, dlqFiles, world, mode, pc, run,
                 refusal, bounds>>

(* A signal or a stream error: the last checkpoint, then the end. *)
StopStreaming ==
  /\ pc = "streaming"
  /\ partToken' = IF run.cursor > run.from THEN run.cursor ELSE partToken
  /\ Exit("none")
  /\ UNCHANGED <<globalToken, migState, saved, dlqFiles, world, mode, bounds>>

-----------------------------------------------------------------------------
(* retry-dlq: reprocessDLQ and reprocessDLQLoop *)

(* restoreLeftoverTempDLQ: the file of a crashed retry replaces the queue.
   What the queue holds besides is gone, and so is what has happened since
   to a document the old file will put back. *)
StartRetry ==
  /\ pc = "down" /\ refusal \in {"none", "dlq"}
  /\ run' = [Idle EXCEPT !.state = migState]
  /\ IF retryTemp = NoDlq
       THEN UNCHANGED <<dlqFiles, writtenOff>>
       ELSE /\ dlq' = retryTemp /\ retryTemp' = NoDlq
            /\ writtenOff' = writtenOff
                 \cup {r.doc : r \in dlq.fails \ retryTemp.fails}
                 \cup {r.doc : r \in {x \in retryTemp.fails :
                                        target[x.doc] > x.version}}
  /\ pc' = "retryRename" /\ refusal' = "none"
  /\ UNCHANGED <<tokenFiles, migState, saved, head, floor, target, mode,
                 bounds>>

RenameDLQ ==
  /\ pc = "retryRename" /\ dlq.exists
  /\ retryTemp' = dlq /\ dlq' = EmptyDlq
  /\ GoTo("retry")
  /\ UNCHANGED <<tokenFiles, migState, saved, world, mode, run, bounds>>

NothingToRetry ==
  /\ pc = "retryRename" /\ ~dlq.exists
  /\ Exit("none")
  /\ UNCHANGED <<files, world, mode, bounds>>

(* Every error discards the new queue and puts the old one back. *)
RetryAborts ==
  /\ pc = "retry"
  /\ \/ MixedPhases(retryTemp) /\ Exit("mixed_phases") /\ UNCHANGED mishaps
     \/ /\ ~MixedPhases(retryTemp) /\ mishaps < MaxMishaps
        /\ Exit("none") /\ mishaps' = mishaps + 1
  /\ dlq' = retryTemp /\ retryTemp' = NoDlq
  /\ UNCHANGED <<tokenFiles, migState, saved, world, mode, failures>>

ToRetry(r) ==
  /\ pc = "retry" /\ ~MixedPhases(retryTemp)
  /\ r \in retryTemp.fails /\ r.doc \notin run.done

\* What a retry of r writes: the snapshot, or what the source has now.
Replayed(r) == IF ResyncFromSource THEN Version(r.doc, head) ELSE r.version

RetryDoc(r) ==
  /\ ToRetry(r)
  /\ target' = [target EXCEPT ![r.doc] = Replayed(r)]
  /\ writtenOff' = IF Replayed(r) = Version(r.doc, head)
                     THEN writtenOff \ {r.doc} ELSE writtenOff
  /\ run' = [run EXCEPT !.done = @ \cup {r.doc}]
  /\ UNCHANGED <<files, head, floor, mode, pc, refusal, bounds>>

RetryDocFails(r) ==
  /\ ToRetry(r) /\ failures < MaxFailures
  /\ dlq' = WriteFailed(dlq, r.doc, r.version, r.phase)
  /\ run' = [run EXCEPT !.done = @ \cup {r.doc}, !.wrote = TRUE]
  /\ failures' = failures + 1
  /\ UNCHANGED <<tokenFiles, migState, saved, retryTemp, world, mode, pc,
                 refusal, mishaps>>

(* The context ends while r is being written: WriteFailed leaves such an error
   out, and only the next record would look at the context.  After the last
   one the retry goes on as if it were over. *)
RetryDocCancelled(r) ==
  /\ ToRetry(r) /\ FailedDocs(retryTemp) \subseteq run.done \cup {r.doc}
  /\ mishaps < MaxMishaps /\ mishaps' = mishaps + 1
  /\ target' \in {target, [target EXCEPT ![r.doc] = Replayed(r)]}
  /\ writtenOff' = writtenOff \cup {r.doc}
  /\ run' = [run EXCEPT !.done = @ \cup {r.doc}, !.wrote = TRUE]
  /\ UNCHANGED <<files, head, floor, mode, pc, refusal, failures>>

(* The state file follows a retry of the failures of the copy. *)
FinishRetry ==
  /\ pc = "retry" /\ ~MixedPhases(retryTemp)
  /\ FailedDocs(retryTemp) \subseteq run.done
  /\ migState' = IF /\ retryTemp.phases = {"initial"} /\ ~run.wrote
                    /\ run.state = "completed_with_failures"
                   THEN "completed" ELSE migState
  /\ GoTo("retryRemove")
  /\ UNCHANGED <<tokenFiles, saved, dlqFiles, world, mode, run, bounds>>

RemoveTemp ==
  /\ pc = "retryRemove"
  /\ retryTemp' = NoDlq
  /\ Exit("none")
  /\ UNCHANGED <<tokenFiles, migState, saved, dlq, world, mode, bounds>>

-----------------------------------------------------------------------------
(* The environment: the source, the machine and the operator. *)

SourceChanges ==
  /\ head < Len(Log)
  /\ head' = head + 1
  /\ UNCHANGED <<files, floor, target, writtenOff, mode, pc, run, refusal,
                 bounds>>

HistoryExpires ==
  /\ floor < head
  /\ floor' = head
  /\ UNCHANGED <<files, head, target, writtenOff, mode, pc, run, refusal,
                 bounds>>

(* A crash anywhere, or a call that fails and ends the run where it is. *)
Crash ==
  /\ pc # "down" /\ mishaps < MaxMishaps
  /\ mishaps' = mishaps + 1
  /\ Exit("none")
  /\ UNCHANGED <<files, world, mode, failures>>

(* The operator does what the message of a refusal says: clear the token
   files, clear the state file, clear the queue. *)
ClearTokens ==
  /\ pc = "down" /\ refusal \in {"token_without_state", "empty_checkpoint"}
  /\ globalToken' = NoToken /\ partToken' = NoFile
  /\ refusal' = "none"
  /\ UNCHANGED <<migState, saved, dlqFiles, world, mode, pc, run, bounds>>

ClearState ==
  /\ pc = "down" /\ refusal = "state_without_token"
  /\ migState' = "none" /\ refusal' = "none"
  /\ UNCHANGED <<tokenFiles, saved, dlqFiles, world, mode, pc, run, bounds>>

ClearQueue ==
  /\ pc = "down" /\ refusal = "mixed_phases"
  /\ dlq' = NoDlq /\ refusal' = "none"
  /\ writtenOff' = writtenOff \cup FailedDocs(dlq)
  /\ UNCHANGED <<tokenFiles, migState, saved, retryTemp, head, floor, target,
                 mode, pc, run, bounds>>

(* CleanResidualState before a job of the console: one kind of file after the
   other, in this order.  A removal that fails is logged and the next one is
   tried.  Its patterns do not match the temporary file of a retry. *)
Removed(file, none) ==
  \/ file' = none /\ UNCHANGED mishaps
  \/ mishaps < MaxMishaps /\ mishaps' = mishaps + 1 /\ UNCHANGED file

FreshStart ==
  /\ Console /\ pc = "down"
  /\ Removed(partToken, NoFile)
  /\ pc' = "cleanGlobal" /\ refusal' = "none"
  /\ UNCHANGED <<globalToken, migState, saved, dlqFiles, world, mode, run,
                 failures>>

CleanGlobalToken ==
  /\ pc = "cleanGlobal"
  /\ Removed(globalToken, NoToken)
  /\ GoTo("cleanState")
  /\ UNCHANGED <<partToken, migState, saved, dlqFiles, world, mode, run,
                 failures>>

CleanState ==
  /\ pc = "cleanState"
  /\ Removed(migState, "none")
  /\ GoTo("cleanQueue")
  /\ UNCHANGED <<tokenFiles, saved, dlqFiles, world, mode, run, failures>>

(* The failures go before the checkpoint that has passed by their documents;
   a copy from the start brings these over, one from the checkpoint does not. *)
CleanQueue ==
  /\ pc = "cleanQueue"
  /\ Removed(dlq, NoDlq)
  /\ writtenOff' = writtenOff \cup (FailedDocs(dlq) \ FailedDocs(dlq'))
  /\ GoTo("cleanSaved")
  /\ UNCHANGED <<tokenFiles, migState, saved, retryTemp, head, floor, target,
                 mode, run, failures>>

CleanCheckpoint ==
  /\ pc = "cleanSaved"
  /\ Removed(saved, 0)
  /\ GoTo("down")
  /\ UNCHANGED <<tokenFiles, migState, dlqFiles, world, mode, run, failures>>

-----------------------------------------------------------------------------

Gates == \/ StartLive \/ BackupDLQ \/ RefuseFailures \/ ResetState \/ KeepDLQ
         \/ ScanCheckpoints \/ RefuseEmptyCheckpoint \/ RefuseAtGates
         \/ PassGates \/ CaptureToken \/ SaveGlobalToken

Copy == \/ BeginCopy \/ SaveProgress \/ FinishCopy \/ RecordOutcome
        \/ \E d \in Docs : CopyDoc(d) \/ CopyDocFails(d) \/ DropDoc(d)

Follow == \/ OpenStream \/ HistoryLost \/ DeleteGlobalToken \/ DeleteState
          \/ ApplyEvent \/ ApplyEventFails \/ DropEvent \/ SaveToken

Retry == \/ RenameDLQ \/ NothingToRetry \/ FinishRetry \/ RemoveTemp
         \/ RetryAborts
         \/ \E r \in retryTemp.fails :
              RetryDoc(r) \/ RetryDocFails(r) \/ RetryDocCancelled(r)

Cleaning == CleanGlobalToken \/ CleanState \/ CleanQueue \/ CleanCheckpoint

Operator == ClearTokens \/ ClearState \/ ClearQueue

LifecycleNext == \/ Gates \/ Copy \/ Follow \/ Retry \/ Cleaning \/ Operator
                 \/ StartRetry \/ FreshStart \/ StopStreaming
                 \/ CopyInterrupted \/ SourceChanges \/ HistoryExpires \/ Crash

LifecycleSafetySpec == LifecycleInit /\ [][LifecycleNext]_lifecycleVars

(* Fairness.  A process that is up goes on with what it does and an operator
   who is told what is in the way removes it; a start is tried again and again
   even if retries and clean-ups come in between, hence the strong fairness.
   Failures, crashes, stops and changes of the source need not happen. *)
LifecycleFairness ==
  /\ WF_lifecycleVars(Gates /\ pc # "down") /\ SF_lifecycleVars(StartLive)
  /\ WF_lifecycleVars(Copy) /\ WF_lifecycleVars(Follow) /\ WF_lifecycleVars(Retry)
  /\ WF_lifecycleVars(Cleaning) /\ WF_lifecycleVars(Operator)
  /\ WF_lifecycleVars(refusal = "dlq" /\ StartRetry)

LifecycleSpec == LifecycleSafetySpec /\ LifecycleFairness

-----------------------------------------------------------------------------
(* Properties *)

(* Types; and no checkpoint is ahead of the source or of the log it names. *)
LifecycleTypeOK ==
  LET Tokens == {NoToken} \cup 0..head
      DlqFile == [exists : BOOLEAN,
                  fails : SUBSET [doc : Docs, version : Positions,
                                  phase : {"initial", "incremental"}],
                  phases : SUBSET {"initial", "incremental"}]
  IN  /\ globalToken \in Tokens /\ partToken \in Tokens \cup {NoFile}
      /\ migState \in Statuses /\ saved \in 0..NumDocs
      /\ dlq \in DlqFile /\ retryTemp \in DlqFile
      /\ head \in Positions /\ floor \in 0..head
      /\ target \in [Docs -> {Absent} \cup 0..head]
      /\ mode \in Modes /\ writtenOff \subseteq Docs
      /\ run \in [token : Tokens, state : Statuses, reset : BOOLEAN,
                  from : {NoTime} \cup Positions, cursor : Positions,
                  done : SUBSET Docs, wrote : BOOLEAN]
      /\ failures \in 0..MaxFailures /\ mishaps \in 0..MaxMishaps

\* The token a restart follows the source from.
DiskToken == IF partToken >= 0 THEN partToken ELSE globalToken

(* The documents a restart does not copy: all if the state file says that the
   copy is over, else those before the checkpoint of the copy, and those the
   target has. *)
NotCopiedAgain ==
  IF migState \in Finished THEN Docs
  ELSE {d \in Docs : d < saved \/ target[d] # Absent}

(* Whatever happens, at every moment the files a crash would leave behind
   account for every document: it will be copied again, or it will be
   replayed because its last missing change is after the token on disk, or it
   is in the dead letter queue (dlq.go, reprocessDLQ), or it is one of the
   documents given up at one of the few places that do so (writtenOff). *)
NothingLost ==
  DiskToken >= 0 =>
    NotCopiedAgain \cap Older(DiskToken) \subseteq Retryable \cup writtenOff

(* The same of a running pair: once it streams (client_stream.go 667), every
   document is as new as the events dealt with, or can be retried, or has
   been given up. *)
FollowedDocumentsAreCurrent ==
  pc = "streaming" => Older(run.cursor) \subseteq Retryable \cup writtenOff

(* The gates never wedge a pair for good: an operator who does what the
   refusals of client_stream.go 233-262 and migrator.go 529 say gets back to
   live replication. *)
ReplicationResumes == []<>(pc = "streaming")

-----------------------------------------------------------------------------
(* What comments of the code say and the code does not do. *)

(* initial_outcome.go 29: what the copy could not write "is recovered
   afterwards with -mode retry-dlq", while the pair streams.  A queue that
   streaming has added to is refused by that mode. *)
FailuresStayRetryable ==
  MixedPhases(dlq) => FailedDocs(dlq) = {}

(* migrator.go 516: a completed_with_failures without failures is reset "so
   the caller re-runs the initial migration cleanly". *)
ResetIsNotRefused ==
  pc = "gates" /\ run.reset => GateAnswer = "none"

(* client_stream.go 418: the copy "always performs upserts on duplicates", so
   a copy that starts over after a lost history leaves no stale document. *)
FreshCopyRenewsDocuments ==
  pc = "streaming" => Older(run.cursor) \subseteq Retryable
=============================================================================
