--------------------------- MODULE DeferredIndexes ---------------------------
(***************************************************************************)
(* The index build of a database pair, after the load of its collections:  *)
(* DeferredIndexController starts it once when the replication lag has     *)
(* settled, syncIndexes launches one goroutine for each missing index, and *)
(* the target's semaphore lets a few of them run at a time.                *)
(***************************************************************************)
EXTENDS CollectionDispatch, Sequences

CONSTANTS
    Indexes,          \* the indexes the source collections call for
    CollOf,           \* the collection of each
    IdIndexes,        \* those on _id
    StableChecks,     \* IndexBuildLagStableChecks
    IndexConcurrency, \* indexes built at a time
    MaxRetries,       \* retries after contention (3 in the code)
    MaxEvents         \* bound: events of the stream

ASSUME IndexAssumption ==
    /\ CollOf \in [Indexes -> Collections] /\ IdIndexes \subseteq Indexes
    /\ StableChecks \in Nat \ {0} /\ IndexConcurrency \in Nat \ {0}
    /\ MaxRetries \in Nat /\ MaxEvents \in Nat

\* pending and arrived only bound the stream.
VARIABLES
    pending,   \* events of the stream not yet applied
    arrived,   \* events so far
    lag,       \* recentLagNs: "none" before an event was applied, else "low" or "high"
    streak,    \* lowLagStreak
    samples,   \* history: the last StableChecks samples
    run,       \* the controller: "none", "ids", "secondary", "waiting", "reported"
    todo,      \* collections syncIndexes has not come to in its present loop
    unlisted,  \* history: collections whose source indexes could not be listed
    onTarget,  \* the indexes of the target
    build,     \* the goroutine of an index: "none", "queued", "building", "backoff", "ended"
    tries,     \* its retries
    slots,     \* free slots of indexSemaphore
    failed     \* failedIndexes

streamVars == <<pending, arrived, lag>>
buildVars == <<onTarget, build, tries, slots, failed>>
indexVars == <<streamVars, streak, samples, run, todo, unlisted, buildVars>>
vars == <<dispatchVars, indexVars>>

Init ==
    /\ DispatchInit
    /\ pending = 0 /\ arrived = 0 /\ lag = "none"
    /\ streak = 0 /\ samples = <<>>
    /\ run = "none" /\ todo = {} /\ unlisted = {}
    /\ onTarget \in SUBSET Indexes
    /\ build = [i \in Indexes |-> "none"] /\ tries = [i \in Indexes |-> 0]
    /\ slots = 1 /\ failed = {}

(***************************************************************************)
(* The change stream, as far as its lag goes.                              *)
(***************************************************************************)
Arrive ==
    /\ pc = "streaming" /\ arrived < MaxEvents
    /\ arrived' = arrived + 1 /\ pending' = pending + 1
    /\ UNCHANGED <<dispatchVars, lag, streak, samples, run, todo, unlisted, buildVars>>

\* RecordLags keeps the lag of the event applied last; an event that ended in
\* the dead letter queue leaves it.
ApplyEvent ==
    /\ pc = "streaming" /\ pending > 0
    /\ pending' = pending - 1 /\ lag' \in {"low", "high", lag}
    /\ UNCHANGED <<dispatchVars, arrived, streak, samples, run, todo, unlisted, buildVars>>

(***************************************************************************)
(* The controller.                                                         *)
(***************************************************************************)
Latest(s) == IF Len(s) > StableChecks THEN Tail(s) ELSE s

\* No lag at all counts as a low one.
\* Mutant: a high lag does not end the streak.
NewStreakKept == IF lag # "high" THEN streak + 1 ELSE streak
NewStreak == IF lag # "high" THEN streak + 1 ELSE 0

\* The ticker, and Observe: the run starts when the streak is long enough, once.
\* The ticker may be served once more after the end of the context.
Observe ==
    /\ pc = "streaming" /\ run = "none"
    /\ streak' = NewStreak
    /\ samples' = Latest(Append(samples, lag))
    /\ IF NewStreak >= StableChecks
       THEN run' = "ids" /\ todo' = Collections /\ slots' = IndexConcurrency
       ELSE UNCHANGED <<run, todo, slots>>
    /\ UNCHANGED <<dispatchVars, streamVars, unlisted, onTarget, build, tries, failed>>

Launch(is) == build' = [i \in Indexes |-> IF i \in is THEN "queued" ELSE build[i]]

\* What the target says it has: nothing when it cannot be asked.
Listed(c) == {{}} \cup (IF cancelled THEN {} ELSE {{i \in onTarget : CollOf[i] = c}})
EndLoop(next) == run' = IF Cardinality(todo) = 1 THEN next ELSE run

\* syncIndexes: first the _id index of every collection.
SyncId(c) ==
    /\ run = "ids" /\ pc = "streaming" /\ c \in todo
    /\ \E there \in Listed(c) : Launch({i \in IdIndexes \ there : CollOf[i] = c})
    /\ EndLoop("secondary")
    /\ todo' = IF Cardinality(todo) = 1 THEN Collections ELSE todo \ {c}
    /\ UNCHANGED <<dispatchVars, streamVars, streak, samples, unlisted, onTarget, tries, slots, failed>>

\* Then the other indexes of the source; a collection is left out when these
\* cannot be listed.
SyncSecondary(c) ==
    /\ run = "secondary" /\ pc = "streaming" /\ c \in todo
    /\ \/ /\ unlisted' = unlisted \cup {c} /\ UNCHANGED build
       \/ /\ ~cancelled /\ UNCHANGED unlisted
          /\ \E there \in Listed(c) : Launch({i \in (Indexes \ IdIndexes) \ there : CollOf[i] = c})
    /\ EndLoop("waiting") /\ todo' = todo \ {c}
    /\ UNCHANGED <<dispatchVars, streamVars, streak, samples, onTarget, tries, slots, failed>>

\* WaitForIndexCreation and logFailedIndexes.
\* Mutant: builds that have not begun are not waited for.
BuildsEndedQueued == \A i \in Indexes : build[i] \notin {"building", "backoff"}
BuildsEnded == \A i \in Indexes : build[i] \in {"none", "ended"}

Report ==
    /\ run = "waiting" /\ pc = "streaming" /\ BuildsEnded
    /\ run' = "reported"
    /\ UNCHANGED <<dispatchVars, streamVars, streak, samples, todo, unlisted, buildVars>>

(***************************************************************************)
(* The goroutine of an index (CreateIndexFromDefinitionAsync).  It does    *)
(* not know the context of the job.                                        *)
(***************************************************************************)
TakeSlot(i) ==
    /\ pc = "streaming" /\ build[i] = "queued" /\ slots > 0
    /\ slots' = slots - 1
    /\ build' = [build EXCEPT ![i] = "building"]
    /\ UNCHANGED <<dispatchVars, streamVars, streak, samples, run, todo, unlisted, onTarget, tries, failed>>

\* The goroutine ends, and gives its slot back.
\* Mutant: the slot is lost when the index has failed.
EndBuildLeaks(i, ok) ==
    /\ build' = [build EXCEPT ![i] = "ended"] /\ slots' = (IF ok THEN slots + 1 ELSE slots)
    /\ IF ok THEN onTarget' = onTarget \cup {i} /\ UNCHANGED failed
       ELSE failed' = failed \cup {i} /\ UNCHANGED onTarget
EndBuild(i, ok) ==
    /\ build' = [build EXCEPT ![i] = "ended"] /\ slots' = slots + 1
    /\ IF ok THEN onTarget' = onTarget \cup {i} /\ UNCHANGED failed
       ELSE failed' = failed \cup {i} /\ UNCHANGED onTarget

\* The index is created, refused for contention, or fails otherwise (a
\* connection that is not made included).
MayRetry(i) == tries[i] < MaxRetries

Create(i) ==
    /\ pc = "streaming" /\ build[i] = "building"
    /\ \/ \E ok \in BOOLEAN : EndBuild(i, ok) /\ UNCHANGED tries
       \/ /\ MayRetry(i)
          /\ build' = [build EXCEPT ![i] = "backoff"] /\ UNCHANGED <<onTarget, tries, slots, failed>>
    /\ UNCHANGED <<dispatchVars, streamVars, streak, samples, run, todo, unlisted>>

\* The pause before a retry, cut short by the limit of four hours.
Backoff(i) ==
    /\ pc = "streaming" /\ build[i] = "backoff"
    /\ \/ /\ build' = [build EXCEPT ![i] = "building"]
          /\ tries' = [tries EXCEPT ![i] = tries[i] + 1]
          /\ UNCHANGED <<onTarget, slots, failed>>
       \/ EndBuild(i, FALSE) /\ UNCHANGED tries
    /\ UNCHANGED <<dispatchVars, streamVars, streak, samples, run, todo, unlisted>>

BuildStep(i) == TakeSlot(i) \/ Create(i) \/ Backoff(i)
Sync == \E c \in Collections : SyncId(c) \/ SyncSecondary(c)

Next ==
    \/ DispatchNext /\ UNCHANGED indexVars
    \/ Arrive \/ ApplyEvent
    \/ Observe \/ Sync \/ Report
    \/ \E i \in Indexes : BuildStep(i)

\* The goroutines run: the ticker ticks, and every request to a database is
\* answered.  The ticker may stop with the context; nothing makes the stream
\* end or events arrive.
Spec ==
    /\ Init /\ [][Next]_vars
    /\ WF_vars(Dispatcher /\ UNCHANGED indexVars)
    /\ \A c \in Collections : WF_vars(LoadStep(c) /\ UNCHANGED indexVars)
    /\ WF_vars(ApplyEvent) /\ WF_vars((Observe /\ ~cancelled) \/ Sync \/ Report)
    /\ \A i \in Indexes : WF_vars(BuildStep(i))

(***************************************************************************)
(* Properties.                                                             *)
(***************************************************************************)
IndexTypeOK ==
    /\ DispatchTypeOK
    /\ pending \in 0..arrived /\ arrived \in 0..MaxEvents /\ lag \in {"none", "low", "high"}
    /\ streak \in 0..StableChecks /\ Len(samples) <= StableChecks
    /\ run \in {"none", "ids", "secondary", "waiting", "reported"}
    /\ todo \subseteq Collections /\ unlisted \subseteq Collections /\ failed \subseteq Indexes
    /\ tries \in [Indexes -> 0..MaxRetries]
    /\ run # "none" => slots + Cardinality({i \in Indexes : build[i] \in {"building", "backoff"}}) = IndexConcurrency

\* The "ONE canonical rule" of deferred_index.go: no index is built before the
\* data is loaded.  The same holds of the completed state: both follow a load in
\* which no collection failed, was interrupted or never got its turn.
NothingFollowsAnUnfinishedLoad ==
    state = "completed" \/ run # "none" => \A c \in Collections : coll[c] = "loaded"

\* The build starts only after StableChecks samples in a row without a high
\* lag, and starts once.
BuildWaitsForLag ==
    [][/\ run = "none" /\ run' # "none" =>
            Len(samples') = StableChecks /\ \A k \in 1..StableChecks : samples'[k] # "high"
       /\ run # "none" => run' # "none"]_vars

\* When the controller reports, every index is on the target or on the list of
\* the failed ones, secondary indexes of collections that could not be listed
\* excepted.
FailuresAreReported ==
    run = "reported" => \A i \in Indexes : \/ i \in onTarget \cup failed
                                           \/ i \notin IdIndexes /\ CollOf[i] \in unlisted

\* A stream that goes on and whose last lag is never high again gets its
\* indexes: the build starts, its goroutines get their slots one after the
\* other, retry a bounded number of times, and the controller reports.  That the
\* stream is idle is not enough: the lag of its last event is kept.
CaughtUpStreamIsIndexed ==
    <>[](pc = "streaming" /\ ~cancelled /\ lag # "high") => <>(run = "reported")

\* incremental_stats_manager.go (RecentLagSeconds): the lag is "-1 when no op
\* has been applied yet / the stream is idle", which Observe counts as caught
\* up.  So a stream that has become idle gets its indexes.
IdleStreamIsIndexed ==
    <>[](pc = "streaming" /\ ~cancelled /\ pending = 0) => <>(run = "reported")
=============================================================================
