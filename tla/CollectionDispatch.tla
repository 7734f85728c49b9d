------------------------- MODULE CollectionDispatch -------------------------
(***************************************************************************)
(* The initial migration of a database pair as a whole: StartReplication   *)
(* sends its collections through a semaphore whose limit the console may   *)
(* change while the job runs (resizableSem, Migrator.Reconfig).            *)
(*                                                                         *)
(* A migrator has one field for the semaphore; another pair of the same    *)
(* job may put its own there.                                              *)
(***************************************************************************)
EXTENDS Integers, FiniteSets

CONSTANTS
    Collections,   \* the collections of the pair
    Large,         \* those above the configured size for parallel reads
    StartLimit,    \* ConcurrentCollections of the configuration
    StartWorkers,  \* WorkersPerPartition of the configuration, Unset for "auto"
    MaxRequests,   \* bound: the requests to the console
    Contents,      \* what they may ask for
    MaxOther       \* bound: registrations and removals by another pair

ASSUME DispatchAssumption ==
    /\ IsFiniteSet(Collections) /\ Large \subseteq Collections
    /\ StartLimit \in Nat \ {0} /\ StartWorkers \in Nat
    /\ Contents \subseteq [coll : Collections \cup {"all"}, conc : Nat, workers : Nat]
    /\ MaxRequests \in Nat /\ MaxOther \in Nat

\* The requests, numbered as they come.
Requests == 1..MaxRequests

\* A knob a request leaves unchanged, and a global request.
Unset == 0
\* What "auto" comes to.
AutoWorkers == 4
AllCollections == "all"
NoOverride == -1

VARIABLES
    pc,         \* the dispatcher: "start", "limitRead", "dispatch", "parked" (in cond.Wait),
                \* "wait" (wg.Wait), "streaming", "error", "interrupted", "stopped"
    read,       \* the limit it has read from the configuration
    conc,       \* config.ConcurrentCollections
    workersPerPart, \* config.WorkersPerPartition
    override,   \* CollectionTuning: workers per partition, NoOverride if it has no entry
    collSem,    \* Migrator.collSem: "none", "own" or "other"
    limit,      \* resizableSem.limit
    held,       \* resizableSem.held
    coll,       \* "queued", "dispatched", "gated", "loading", "loaded", "partial" or "failed"
    parallel,   \* whether a collection is read in parallel
    knobs,      \* workers of each of its partitions, Unset before that is known
    promised,   \* history: the override when the collection was dispatched
    critical,   \* criticalErr is set
    state,      \* initialMigrationState: "in_progress" or "completed"
    cancelled,  \* the context has ended
    req,        \* the requests and how far they are
    other,      \* registrations and removals by another pair so far
    strayed     \* history: a request overlapped another, or came after the dispatcher has
                \* read the limit and found no semaphore or another pair's

semVars == <<limit, held>>
tuningVars == <<conc, workersPerPart, override>>
loadVars == <<coll, parallel, knobs, promised, critical>>
dispatchVars == <<pc, read, tuningVars, collSem, semVars, loadVars, state, cancelled, req, other, strayed>>

Idle == [at |-> "idle", asks |-> [coll |-> AllCollections, conc |-> Unset, workers |-> Unset], sem |-> "none"]
\* StartReplication has returned, and the program ends with it.
Ended == pc \in {"error", "interrupted", "stopped"}
Active(c) == coll[c] \in {"dispatched", "gated", "loading"}

DispatchInit ==
    /\ pc = "start" /\ read = Unset
    /\ conc = StartLimit /\ workersPerPart = StartWorkers
    /\ override = [c \in Collections |-> NoOverride]
    /\ collSem = "none" /\ limit = 1 /\ held = 0
    /\ coll = [c \in Collections |-> "queued"]
    /\ parallel = [c \in Collections |-> FALSE]
    /\ knobs = [c \in Collections |-> Unset]
    /\ promised = [c \in Collections |-> NoOverride]
    /\ critical = FALSE /\ state = "in_progress" /\ cancelled = FALSE
    /\ req = [r \in Requests |-> Idle] /\ other = 0 /\ strayed = FALSE

(***************************************************************************)
(* The dispatcher.                                                         *)
(***************************************************************************)
ReadLimit ==
    /\ pc = "start" /\ pc' = "limitRead" /\ read' = conc
    /\ UNCHANGED <<tuningVars, collSem, semVars, loadVars, state, cancelled, req, other, strayed>>

\* newResizableSem and setCollSem.
Register ==
    /\ pc = "limitRead" /\ pc' = "dispatch"
    /\ limit' = read /\ held' = 0 /\ collSem' = "own"
    /\ UNCHANGED <<read, tuningVars, loadVars, state, cancelled, req, other, strayed>>

\* A broadcast wakes the dispatcher, which looks again.
Broadcast == pc' = IF pc = "parked" THEN "dispatch" ELSE pc

\* Acquire has found a slot: the collection starts in a goroutine of its own.
Admit(c) ==
    /\ pc = "dispatch" /\ ~cancelled /\ held < limit /\ coll[c] = "queued"
    /\ held' = held + 1
    /\ coll' = [coll EXCEPT ![c] = "dispatched"]
    /\ promised' = [promised EXCEPT ![c] = override[c]]
    /\ UNCHANGED <<pc, read, tuningVars, collSem, limit, parallel, knobs, critical, state, cancelled, req, other, strayed>>

Queued == {c \in Collections : coll[c] = "queued"}

Park ==
    /\ pc = "dispatch" /\ Queued # {} /\ ~cancelled /\ held >= limit
    /\ pc' = "parked"
    /\ UNCHANGED <<read, tuningVars, collSem, semVars, loadVars, state, cancelled, req, other, strayed>>

\* All collections are on their way, or Acquire has returned the end of the context.
EndDispatch ==
    /\ pc = "dispatch" /\ (Queued = {} \/ cancelled) /\ pc' = "wait"
    /\ UNCHANGED <<read, tuningVars, collSem, semVars, loadVars, state, cancelled, req, other, strayed>>

\* The function Acquire has left with the context.
AfterFunc ==
    /\ cancelled /\ pc = "parked" /\ Broadcast
    /\ UNCHANGED <<read, tuningVars, collSem, semVars, loadVars, state, cancelled, req, other, strayed>>

\* clearCollSem leaves another pair's semaphore alone.
ClearCollSem == collSem' = IF collSem = "own" THEN "none" ELSE collSem

\* What follows wg.Wait: an error, an interrupted run left as it is, or the
\* state file and the change stream.
\* Mutant: the end of the context is not looked at.
OutcomeUnchecked == IF critical THEN "error" ELSE "streaming"
Outcome == IF critical THEN "error" ELSE IF cancelled THEN "interrupted" ELSE "streaming"

AllDone ==
    /\ pc = "wait" /\ ~\E c \in Collections : Active(c)
    /\ pc' = Outcome
    /\ IF Outcome = "streaming" THEN state' = "completed" /\ UNCHANGED collSem
       ELSE ClearCollSem /\ UNCHANGED state
    /\ UNCHANGED <<read, tuningVars, semVars, loadVars, cancelled, req, other, strayed>>

\* StartReplication returns, on the end of the context or an error of the
\* stream, and the program with it.
StreamEnds ==
    /\ pc = "streaming" /\ pc' = "stopped" /\ ClearCollSem
    /\ UNCHANGED <<read, tuningVars, semVars, loadVars, state, cancelled, req, other, strayed>>

(***************************************************************************)
(* The goroutine of a collection.                                          *)
(***************************************************************************)
\* effectivePartitioning, which is asked twice: for the choice between a single
\* cursor and parallel reads, and for the workers that write each partition.
\* (The number of partitions is sized by bytes; MaxReadPartitions only raises a
\* warning there.)
\* Mutant: the global value wins.
EffectiveWorkersGlobal(c) == IF workersPerPart > 0 THEN workersPerPart ELSE AutoWorkers
EffectiveWorkers(c) ==
    IF override[c] > 0 THEN override[c] ELSE IF workersPerPart > 0 THEN workersPerPart ELSE AutoWorkers
OpensGate(c) == c \in Large \/ override[c] # NoOverride

Gate(c) ==
    /\ coll[c] = "dispatched"
    /\ coll' = [coll EXCEPT ![c] = IF OpensGate(c) THEN "gated" ELSE "loading"]
    /\ parallel' = [parallel EXCEPT ![c] = OpensGate(c)]
    /\ UNCHANGED <<pc, read, tuningVars, collSem, semVars, knobs, promised, critical, state, cancelled, req, other, strayed>>

ReadKnobs(c) ==
    /\ coll[c] = "gated"
    /\ coll' = [coll EXCEPT ![c] = "loading"]
    /\ knobs' = [knobs EXCEPT ![c] = EffectiveWorkers(c)]
    /\ UNCHANGED <<pc, read, tuningVars, collSem, semVars, parallel, promised, critical, state, cancelled, req, other, strayed>>

\* Release gives the slot back and wakes the dispatcher.
\* Mutant: it wakes nobody.
ReleaseSilent == held' = (IF held > 0 THEN held - 1 ELSE 0) /\ UNCHANGED pc
Release == held' = (IF held > 0 THEN held - 1 ELSE 0) /\ Broadcast

\* What the goroutine knew goes with it.
Forget(c) ==
    /\ parallel' = [parallel EXCEPT ![c] = FALSE]
    /\ knobs' = [knobs EXCEPT ![c] = Unset]
    /\ promised' = [promised EXCEPT ![c] = NoOverride]

\* The collection ends: loaded or empty, with an error, or, when the context
\* has ended, in part and without an error.
EndLoad(c) ==
    /\ Active(c)
    /\ \E how \in {"loaded", "failed"} \cup (IF cancelled THEN {"partial"} ELSE {}) :
         /\ how = "loaded" => coll[c] # "gated"
         /\ coll' = [coll EXCEPT ![c] = how]
         /\ critical' = (critical \/ how = "failed")
    /\ Release /\ Forget(c)
    /\ UNCHANGED <<read, tuningVars, collSem, limit, state, cancelled, req, other, strayed>>

(***************************************************************************)
(* Reconfig: the limit in two steps, then the knobs.                       *)
(***************************************************************************)
Submit(r) ==
    /\ req[r] = Idle /\ ~Ended /\ \A q \in Requests : q < r => req[q] # Idle
    /\ \E q \in Contents :
         /\ req' = [req EXCEPT ![r] = [at |-> IF q.conc = Unset THEN "apply" ELSE "resize",
                                       asks |-> q, sem |-> IF q.conc = Unset THEN "none" ELSE collSem]]
         /\ conc' = IF q.conc = Unset THEN conc ELSE q.conc
         /\ strayed' = (strayed \/ (q.conc # Unset /\ pc # "start"
                                    /\ (collSem # "own" \/ \E p \in Requests : req[p].at = "resize")))
    /\ UNCHANGED <<pc, read, workersPerPart, override, collSem, semVars, loadVars, state, cancelled, other>>

\* A request goes on to its next step.
Step(r, to) == req' = [req EXCEPT ![r] = [at |-> to, asks |-> req[r].asks, sem |-> req[r].sem]]

\* SetLimit, outside the lock of the configuration.
\* Mutant: the semaphore keeps its limit.
NewLimitKept(r) == limit
NewLimit(r) == req[r].asks.conc

Resize(r) ==
    /\ req[r].at = "resize" /\ ~Ended /\ Step(r, "apply")
    /\ IF req[r].sem = "own" THEN limit' = NewLimit(r) /\ Broadcast ELSE UNCHANGED <<limit, pc>>
    /\ UNCHANGED <<read, tuningVars, collSem, held, loadVars, state, cancelled, other, strayed>>

Apply(r) ==
    /\ req[r].at = "apply" /\ ~Ended /\ Step(r, "done")
    /\ LET p == req[r].asks.workers IN
       IF req[r].asks.coll = AllCollections
       THEN workersPerPart' = (IF p = Unset THEN workersPerPart ELSE p) /\ UNCHANGED override
       ELSE /\ LET c == req[r].asks.coll IN
               override' = [override EXCEPT ![c] =
                              IF p # Unset \/ override[c] = NoOverride THEN p ELSE override[c]]
            /\ UNCHANGED workersPerPart
    /\ UNCHANGED <<pc, read, conc, collSem, semVars, loadVars, state, cancelled, other, strayed>>

(***************************************************************************)
(* The environment: the context ends; another pair of the job registers    *)
(* its semaphore, and later takes it away.                                 *)
(***************************************************************************)
Cancel ==
    /\ ~cancelled /\ ~Ended /\ cancelled' = TRUE
    /\ UNCHANGED <<pc, read, tuningVars, collSem, semVars, loadVars, state, req, other, strayed>>

OtherPair ==
    /\ ~Ended /\ other < MaxOther /\ other' = other + 1
    /\ collSem' \in {"none", "other"} /\ (collSem = "other") # (collSem' = "other")
    /\ strayed' = (strayed \/ (collSem = "own"))
    /\ UNCHANGED <<pc, read, tuningVars, semVars, loadVars, state, cancelled, req>>

LoadStep(c) == Gate(c) \/ ReadKnobs(c) \/ EndLoad(c)
Dispatcher == ReadLimit \/ Register \/ Park \/ EndDispatch \/ AfterFunc \/ AllDone \/ \E c \in Collections : Admit(c)
Request(r) == Submit(r) \/ Resize(r) \/ Apply(r)

DispatchNext ==
    \/ Dispatcher \/ StreamEnds \/ Cancel \/ OtherPair
    \/ \E c \in Collections : LoadStep(c)
    \/ \E r \in Requests : Request(r)

\* The dispatcher runs, and every collection comes to an end.
DispatchSpec ==
    /\ DispatchInit /\ [][DispatchNext]_dispatchVars
    /\ WF_dispatchVars(Dispatcher) /\ \A c \in Collections : WF_dispatchVars(LoadStep(c))

(***************************************************************************)
(* Properties.                                                             *)
(***************************************************************************)
DispatchTypeOK ==
    /\ pc \in {"start", "limitRead", "dispatch", "parked", "wait", "streaming", "error", "interrupted", "stopped"}
    /\ limit \in Nat \ {0} /\ read \in Nat /\ conc \in Nat \ {0}
    /\ override \in [Collections -> Nat \cup {NoOverride}] /\ knobs \in [Collections -> Nat]
    /\ held = Cardinality({c \in Collections : Active(c)})

\* The limit of the running semaphore follows the last request.  Excepted are
\* requests that overlap each other or the registration of the semaphore (its
\* limit is read before it can be found), and those of a job whose other pair
\* has taken the field.
LimitFollowsConfig ==
    pc \in {"dispatch", "parked", "wait"} /\ ~strayed /\ (\A r \in Requests : req[r].at # "resize")
      => limit = conc

\* A collection tuned while it waits for a slot is read in parallel, and its
\* partitions are written with the workers it was given (or was given by a
\* request since), whatever else is set globally or for other collections.
TuningReachesQueued ==
    \A c \in Collections : promised[c] # NoOverride /\ coll[c] \in {"gated", "loading"} =>
        /\ parallel[c]
        /\ promised[c] > 0 /\ coll[c] = "loading" =>
             \/ knobs[c] = promised[c]
             \/ \E r \in Requests : req[r].asks.coll = c /\ req[r].asks.workers = knobs[c]

\* The load comes to an end whatever limits the console asks for and when: the
\* dispatcher is woken by every release, and by the end of the context.
LoadEnds == <>(pc = "streaming" \/ Ended)
=============================================================================
