---------------------------- MODULE BatchWriter ----------------------------
(***************************************************************************)
(* One call of writeBatch, which a backfill worker makes for its batch,    *)
(* with the retries below it: the resilient mode with a dead letter queue, *)
(* and the fail-fast mode with RetryWithSplit.                             *)
(*                                                                         *)
(* The target answers a bulk operation document by document, or not at all *)
(* while it has applied any part of it; the context may end at any time;   *)
(* another writer changes documents meanwhile.  After the call the live    *)
(* replication goes on with the same queue.                                *)
(***************************************************************************)
EXTENDS DeadLetters

CONSTANTS
    MaxRetries,       \* at least 1, by configuration
    EnableBatchSplit,
    MinBatchSize,     \* at least 1, by configuration
    MaxLive,          \* bound: changes by others
    ReportMax         \* entries of a collection the report returns

ASSUME BatchWriterAssumption ==
    /\ MaxRetries \in Nat \ {0} /\ MinBatchSize \in Nat \ {0}
    /\ EnableBatchSplit \in BOOLEAN /\ MaxLive \in Nat /\ ReportMax \in Nat

\* A document of the target: absent, as in the batch, or newer than that.
Absent == "absent"
Copied == "copied"
Newer == "newer"

VARIABLES
    target,     \* the documents of the target
    clash,      \* documents that would break another unique index
    broken,     \* documents that cannot be transformed
    resilient,  \* opts.DLQ is given
    upsert,     \* opts.UpsertMode
    skipFlag,   \* proactiveSkipEnabled, shared by all workers
    cancelled,  \* the context has ended
    dlq,        \* the lines of the dead letter queue
    pc,         \* "start", "insert", "bulkRetry", "replace", "single", "split", "ok", "error"
    batch,      \* the documents left to write
    todo,       \* those to write one by one
    tries,      \* retries left of the present operation, 0 before it first runs
    jobs,       \* RetryWithSplit: the parts of the batch still to write
    broke,      \* RetryWithSplit: a part has failed
    failed,     \* batchFailed
    live        \* changes by others so far

inputs == <<clash, broken, resilient, upsert>>
vars == <<target, inputs, skipFlag, cancelled, dlq, pc, batch, todo, tries, jobs, broke, failed, live>>

(***************************************************************************)
(* The target.  An error names positions in the list it was given.         *)
(***************************************************************************)
Done == [kind |-> "none", bulk |-> FALSE, dup |-> {}, bad |-> {}]
Error(kind) == [Done EXCEPT !.kind = kind]
BulkError(kind, dup, bad) == [kind |-> kind, bulk |-> TRUE, dup |-> dup, bad |-> bad]
Kinds == {"connection", "contention", "other"} \cup (IF cancelled THEN {"canceled"} ELSE {})
Transient(err) == err.kind \in {"connection", "contention"}
\* Mutant: one duplicate makes the error one about duplicates.
AllDuplicatesAny(err) == err.bulk /\ err.dup # {}
AllDuplicates(err) == err.bulk /\ err.bad = {}

Position(b, d) == Cardinality({x \in b : x <= d})
Positions(b, ds) == {Position(b, d) : d \in ds}
At(b, positions) == {d \in b : Position(b, d) \in positions}

Written(t, ds) == [d \in Docs |-> IF d \in ds THEN Copied ELSE t[d]]

\* InsertMany, unordered.
InsertMany(b, t) ==
    LET dup == {d \in b : t[d] # Absent \/ d \in clash}
        answered == {[target |-> Written(t, (b \ dup) \ bad),
                      err |-> IF dup \cup bad = {} THEN Done
                              ELSE BulkError(kind, Positions(b, dup), Positions(b, bad))] :
                        bad \in SUBSET (b \ dup), kind \in Kinds \ {"canceled"}}
        unanswered == {[target |-> Written(t, some), err |-> Error(kind)] :
                        some \in SUBSET (b \ dup), kind \in Kinds}
    IN {o \in answered : o.err.bad = {} => o.err.kind \in {"none", "other"}} \cup unanswered

\* BulkWrite of ReplaceOne models with upsert, unordered.
ReplaceMany(b, t) ==
    LET dup == {d \in b : t[d] = Absent /\ d \in clash}
        answered == {[target |-> Written(t, (b \ dup) \ bad),
                      err |-> IF dup \cup bad = {} THEN Done
                              ELSE BulkError(kind, Positions(b, dup), Positions(b, bad))] :
                        bad \in SUBSET (b \ dup), kind \in Kinds \ {"canceled"}}
        unanswered == {[target |-> Written(t, some), err |-> Error(kind)] :
                        some \in SUBSET (b \ dup), kind \in Kinds}
    IN {o \in answered : o.err.bad = {} => o.err.kind \in {"none", "other"}} \cup unanswered

\* The single operations of the fallbacks are bulk operations of one.
InsertOne(d, t) == InsertMany({d}, t)
ReplaceOne(d, t) == ReplaceMany({d}, t)

(***************************************************************************)
(* The call.                                                               *)
(***************************************************************************)
Init ==
    /\ target \in [Docs -> {Absent, Copied}]
    /\ clash \in {{}} \cup {{d} : d \in Docs} /\ broken \in {{}} \cup {{d} : d \in Docs}
    /\ resilient \in BOOLEAN /\ upsert \in IF resilient THEN {FALSE} ELSE BOOLEAN
    /\ skipFlag \in IF resilient THEN BOOLEAN ELSE {FALSE}
    /\ \A d \in clash : target[d] = Absent
    /\ cancelled = FALSE /\ dlq = NewFile
    /\ pc = "start" /\ batch = Docs /\ todo = {} /\ tries = 0
    /\ jobs = <<>> /\ broke = FALSE /\ failed = 0 /\ live = 0

\* The call returns.
Return(how) == pc' = how /\ UNCHANGED <<batch, todo, tries, jobs, broke>>

\* Resilient: a batch that cannot be transformed goes to the queue as a whole.
TransformFails ==
    /\ pc = "start" /\ resilient /\ broken \cap batch # {}
    /\ dlq' = dlq \o [i \in 1..Cardinality(batch) |-> Failed(CHOOSE d \in batch : Position(batch, d) = i)]
    /\ failed' = Cardinality(batch)
    /\ Return("ok")
    /\ UNCHANGED <<target, inputs, skipFlag, cancelled, live>>

\* The documents found there already are left out; the search may break off, or fail.
ProactiveSkip ==
    /\ pc = "start" /\ resilient /\ broken \cap batch = {}
    /\ \/ \E found \in SUBSET {d \in batch : target[d] # Absent} :
            /\ skipFlag
            /\ IF found = batch THEN Return("ok") /\ UNCHANGED skipFlag
               ELSE /\ batch' = batch \ found /\ skipFlag' = FALSE
                    /\ pc' = "insert" /\ UNCHANGED <<todo, tries, jobs, broke>>
       \/ pc' = "insert" /\ UNCHANGED <<skipFlag, batch, todo, tries, jobs, broke>>
    /\ UNCHANGED <<target, inputs, cancelled, dlq, failed, live>>

\* The throttler's wait ends with the context.
ThrottlerFails ==
    /\ cancelled /\ pc \in {"start", "insert"} /\ (pc = "start" => ~resilient)
    /\ Return("error")
    /\ UNCHANGED <<target, inputs, skipFlag, cancelled, dlq, failed, live>>

\* InsertMany: what was refused for other reasons than a duplicate is replaced
\* one by one; without an answer that is bulk-inserted again, or inserted one
\* by one.
BulkInsert ==
    /\ pc = "insert"
    /\ \E o \in InsertMany(batch, target) :
         /\ target' = o.target
         /\ skipFlag' = (skipFlag \/ (AllDuplicates(o.err) /\ Cardinality(o.err.dup) = Cardinality(batch)))
         /\ \/ o.err = Done /\ Return("ok")
            \/ /\ o.err.bulk
               /\ todo' = At(batch, o.err.bad) /\ pc' = "replace" /\ UNCHANGED <<batch, tries, jobs, broke>>
            \/ /\ o.err # Done /\ ~o.err.bulk /\ Transient(o.err)
               /\ pc' = "bulkRetry" /\ tries' = MaxRetries /\ UNCHANGED <<batch, todo, jobs, broke>>
            \/ /\ o.err # Done /\ ~o.err.bulk /\ ~Transient(o.err)
               /\ pc' = "single" /\ todo' = batch /\ UNCHANGED <<batch, tries, jobs, broke>>
    /\ UNCHANGED <<inputs, cancelled, dlq, failed, live>>

\* RetryWithBackoff on InsertMany: when the last error is about duplicates only,
\* an attempt that went unanswered has written them.
BulkRetry ==
    /\ pc = "bulkRetry"
    /\ \E o \in InsertMany(batch, target) :
         /\ target' = o.target
         /\ \/ o.err = Done /\ Return("ok") /\ UNCHANGED skipFlag
            \/ /\ o.err # Done /\ tries > 1 /\ ~cancelled
               /\ tries' = tries - 1 /\ UNCHANGED <<pc, batch, todo, jobs, broke, skipFlag>>
            \/ /\ o.err # Done /\ tries = 1 /\ ~cancelled /\ AllDuplicates(o.err)
               /\ skipFlag' = TRUE /\ Return("ok")
            \/ /\ o.err # Done /\ (cancelled \/ (tries = 1 /\ ~AllDuplicates(o.err)))
               /\ pc' = "single" /\ todo' = batch /\ tries' = 0 /\ UNCHANGED <<batch, jobs, broke, skipFlag>>
    /\ UNCHANGED <<inputs, cancelled, dlq, failed, live>>

\* executeWithRetry on the next document: a first error that is transient is
\* followed by RetryWithBackoff.
Again(err) == IF tries = 0 THEN Transient(err) /\ ~cancelled ELSE tries > 1 /\ ~cancelled
NextTries == IF tries = 0 THEN MaxRetries ELSE tries - 1

\* RetryWithBackoff returns the end of the context for whatever happened.
Final(err) == IF err # Done /\ tries > 0 /\ cancelled THEN Error("canceled") ELSE err

\* The document is dealt with: an error other than "it exists" is recorded.
\* Mutant: a document that exists is counted as a failure.
SettleCounting(d, err, existing) ==
    /\ todo' = todo \ {d} /\ tries' = 0
    /\ dlq' = IF err = Done \/ existing THEN dlq ELSE WriteFailed(dlq, d, err.kind)
    /\ failed' = IF err = Done THEN failed ELSE failed + 1
Settle(d, err, existing) ==
    /\ todo' = todo \ {d} /\ tries' = 0
    /\ IF err = Done \/ existing THEN UNCHANGED <<dlq, failed>>
       ELSE dlq' = WriteFailed(dlq, d, err.kind) /\ failed' = failed + 1

First(ds) == CHOOSE d \in ds : \A x \in ds : d <= x

\* ReplaceOne with upsert, which any error refuses.
Replace ==
    /\ pc = "replace" /\ todo # {}
    /\ \E o \in ReplaceOne(First(todo), target) :
         /\ target' = o.target
         /\ \/ o.err # Done /\ Again(o.err) /\ tries' = NextTries /\ UNCHANGED <<todo, dlq, failed>>
            \/ (o.err = Done \/ ~Again(o.err)) /\ Settle(First(todo), Final(o.err), FALSE)
    /\ UNCHANGED <<inputs, skipFlag, cancelled, pc, batch, jobs, broke, live>>

\* InsertOne: a document that exists is left alone.
\* Mutant: the fallback replaces with upsert.
SingleReplaces ==
    /\ pc = "single" /\ todo # {}
    /\ \E o \in ReplaceOne(First(todo), target) :
         /\ target' = o.target
         /\ \/ o.err # Done /\ Again(o.err) /\ tries' = NextTries /\ UNCHANGED <<todo, dlq, failed>>
            \/ (o.err = Done \/ ~Again(o.err)) /\ Settle(First(todo), Final(o.err), Final(o.err).dup # {})
    /\ UNCHANGED <<inputs, skipFlag, cancelled, pc, batch, jobs, broke, live>>
Single ==
    /\ pc = "single" /\ todo # {}
    /\ \E o \in InsertOne(First(todo), target) :
         /\ target' = o.target
         /\ \/ o.err # Done /\ Again(o.err) /\ tries' = NextTries /\ UNCHANGED <<todo, dlq, failed>>
            \/ (o.err = Done \/ ~Again(o.err)) /\ Settle(First(todo), Final(o.err), Final(o.err).dup # {})
    /\ UNCHANGED <<inputs, skipFlag, cancelled, pc, batch, jobs, broke, live>>

AllSettled ==
    /\ pc \in {"replace", "single"} /\ todo = {}
    /\ Return("ok")
    /\ UNCHANGED <<target, inputs, skipFlag, cancelled, dlq, failed, live>>

(***************************************************************************)
(* Fail-fast: RetryWithSplit over processBatch.                            *)
(***************************************************************************)
Job(docs, at) == [docs |-> docs, at |-> at, tries |-> IF at = "backoff" THEN MaxRetries ELSE 0]

\* processBatch: replace at once in upsert mode, else insert, and replace what
\* turned out to be duplicates when nothing else went wrong.  The positions in
\* the error of that replacement are those of its own list.
ProcessBatch(b, t) ==
    IF b = {} THEN {[target |-> t, err |-> Done]}
    ELSE IF b \cap broken # {} THEN {[target |-> t, err |-> Error("other")]}
    ELSE IF upsert THEN ReplaceMany(b, t)
    ELSE UNION {IF AllDuplicates(o.err) THEN ReplaceMany(At(b, o.err.dup), o.target) ELSE {o} :
                  o \in InsertMany(b, t)}

StartSplit ==
    /\ pc = "start" /\ ~resilient
    /\ pc' = "split" /\ jobs' = <<Job(batch, "first")>>
    /\ UNCHANGED <<target, inputs, skipFlag, cancelled, dlq, batch, todo, tries, broke, failed, live>>

\* The first half of a set of documents, by their order.
FirstHalf(b) == At(b, 1..(Cardinality(b) \div 2))

\* A batch this small is not split.
\* Mutant: only a smaller one is not.
SmallerOnly(b) == ~EnableBatchSplit \/ Cardinality(b) < MinBatchSize
Small(b) == ~EnableBatchSplit \/ Cardinality(b) <= MinBatchSize

\* What follows a failed first attempt on a part of the batch.
Parts(b, err) ==
    IF Small(b) THEN <<Job(b, "backoff")>>
    ELSE IF err.kind = "contention" THEN <<Job(FirstHalf(b), "first"), Job(b \ FirstHalf(b), "first")>>
    ELSE IF err.kind # "connection" /\ AllDuplicates(err) THEN <<Job(At(b, err.dup), "last")>>
    ELSE <<Job(b, "backoff")>>

\* A part is done: the next, unless the context has ended.
Finish(failure) ==
    /\ broke' = (broke \/ failure)
    /\ jobs' = Tail(jobs)
    /\ pc' = IF Len(jobs) = 1 THEN (IF broke \/ failure THEN "error" ELSE "ok")
             ELSE IF cancelled THEN "error" ELSE "split"
    /\ failed' = IF pc' = "error" THEN Cardinality(batch) ELSE 0

RunJob ==
    /\ pc = "split"
    /\ LET job == Head(jobs)
       IN \E o \in ProcessBatch(job.docs, target) :
            /\ target' = o.target
            /\ \/ o.err = Done /\ Finish(FALSE)
               \/ /\ o.err # Done /\ job.at = "first"
                  /\ jobs' = Parts(job.docs, o.err) \o Tail(jobs) /\ UNCHANGED <<pc, broke, failed>>
               \/ /\ o.err # Done /\ job.at = "backoff" /\ job.tries > 1 /\ ~cancelled
                  /\ jobs' = <<[job EXCEPT !.tries = job.tries - 1]>> \o Tail(jobs)
                  /\ UNCHANGED <<pc, broke, failed>>
               \/ /\ o.err # Done
                  /\ job.at = "last" \/ (job.at = "backoff" /\ (job.tries = 1 \/ cancelled))
                  /\ Finish(TRUE)
    /\ UNCHANGED <<inputs, skipFlag, cancelled, dlq, batch, todo, tries, live>>

(***************************************************************************)
(* The environment.                                                        *)
(***************************************************************************)
Running == pc \notin {"ok", "error"}

Cancel ==
    /\ Running /\ ~cancelled /\ cancelled' = TRUE
    /\ UNCHANGED <<target, inputs, skipFlag, dlq, pc, batch, todo, tries, jobs, broke, failed, live>>

\* Somebody else writes a newer version.
NewerVersion(d) ==
    /\ Running /\ live < MaxLive /\ live' = live + 1
    /\ d \notin clash /\ target' = [target EXCEPT ![d] = Newer]
    /\ UNCHANGED <<inputs, skipFlag, cancelled, dlq, pc, batch, todo, tries, jobs, broke, failed>>

\* Live replication writes a document and takes back its failure, or fails too.
LiveWrite(d) ==
    /\ pc = "ok" /\ resilient /\ live < MaxLive /\ live' = live + 1
    /\ \/ /\ target' = [target EXCEPT ![d] = Newer]
          /\ dlq' = IF d \in PopulateActiveFailedIDs(dlq) THEN WriteResolved(dlq, d) ELSE dlq
       \/ /\ dlq' = WriteFailed(dlq, d, "other") /\ UNCHANGED target
    /\ UNCHANGED <<inputs, skipFlag, cancelled, pc, batch, todo, tries, jobs, broke, failed>>

WriteStep ==
    \/ TransformFails \/ ProactiveSkip \/ ThrottlerFails \/ BulkInsert \/ BulkRetry
    \/ Replace \/ Single \/ AllSettled \/ StartSplit \/ RunJob

Next == WriteStep \/ Cancel \/ \E d \in Docs : NewerVersion(d) \/ LiveWrite(d)

\* The worker runs, and every operation returns.
Spec == Init /\ [][Next]_vars /\ WF_vars(WriteStep)

(***************************************************************************)
(* Properties.                                                             *)
(***************************************************************************)
BatchWriterTypeOK ==
    /\ target \in [Docs -> {Absent, Copied, Newer}]
    /\ pc \in {"start", "insert", "bulkRetry", "replace", "single", "split", "ok", "error"}
    /\ todo \subseteq batch /\ batch \subseteq Docs
    /\ tries \in 0..MaxRetries /\ failed \in 0..Cardinality(Docs)
    /\ \A i \in DOMAIN jobs : jobs[i].docs \subseteq batch /\ jobs[i].tries \in 0..MaxRetries
    /\ \A i \in DOMAIN dlq : dlq[i] \in Lines

\* When the call returns without an error, every document of the batch is in the
\* target or an open failure of the queue: after any mixture of unanswered,
\* partly applied, retried and split operations.  Excepted are documents that
\* break another unique index, whose error looks like that of a document that
\* exists, and those given up when the context ends.
ReturnMeansSettled ==
    pc = "ok" => \A d \in Docs : \/ target[d] # Absent \/ d \in PopulateActiveFailedIDs(dlq)
                                 \/ d \in clash \/ (resilient /\ cancelled)

\* Without live replication, the failures the call counts are those it recorded.
FailuresAreCounted ==
    pc = "ok" /\ live = 0 /\ ~cancelled => failed = Cardinality(PopulateActiveFailedIDs(dlq))

\* writeBatch's "Safety Fix 4": the insert fallback never reverts newer updates
\* applied concurrently.  Only the replacement of refused documents may.
InsertsKeepNewer ==
    [][resilient /\ pc # "replace" => \A d \in Docs : target[d] = Newer => target'[d] = Newer]_vars

\* The call returns, whatever the target answers: retries and splits are bounded.
WriteReturns == <>(pc \in {"ok", "error"})

\* The three readers of the queue agree as far as they can: the report counts at
\* least the open failures whose name was never resolved, and a queue with an
\* open failure never passes for an empty one.  The report may leave out those
\* that failed again after their tombstone, and those that share their printed
\* _id with a resolved one.
ReportCountsOpenFailures ==
    LET open == {NameOf[d] : d \in PopulateActiveFailedIDs(dlq)}
        report == ReadDLQReport(dlq, ReportMax)
    IN /\ report.count <= Cardinality(open)
       /\ Cardinality(open \ Named(dlq, "resolved")) <= report.count
       /\ report.returned <= ReportMax
       /\ open # {} => HasActiveFailedRecords(dlq)

\* dlq_reader.go, ReadDLQReport: it "cancels failures that a later tombstone
\* marks resolved", so a failure without a later tombstone is on the report.
ReportShowsOpenFailures ==
    Cardinality({NameOf[d] : d \in PopulateActiveFailedIDs(dlq)}) = ReadDLQReport(dlq, ReportMax).count
=============================================================================
