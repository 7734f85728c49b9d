--------------------------- MODULE DispatchProofs ---------------------------
(***************************************************************************)
(* Proofs about CollectionDispatch and about DeferredIndexes, which goes   *)
(* on where it ends, for any collections, indexes, bounds and start values *)
(* and any number of requests of any content: the semaphore counts its     *)
(* holders, its limit follows the configuration, a tuning reaches the      *)
(* collection it is meant for, and the completed state follows a load that *)
(* is complete; so does the index build, which waits for its run of low    *)
(* samples and starts once.                                                *)
(***************************************************************************)
EXTENDS DeferredIndexes, FiniteSetTheorems, SequenceTheorems, TLAPS

Phases == {"start", "limitRead", "dispatch", "parked", "wait", "streaming",
           "error", "interrupted", "stopped"}
CollStates == {"queued", "dispatched", "gated", "loading", "loaded", "partial", "failed"}
Overrides == Nat \cup {NoOverride}
Asks == [coll : Collections \cup {AllCollections}, conc : Nat, workers : Nat]
RequestRecord == [at : {"idle", "resize", "apply", "done"}, asks : Asks,
                  sem : {"none", "own", "other"}]

(* The parts of the state, by the variables they speak of.                 *)
ControlTypes ==
  /\ pc \in Phases /\ cancelled \in BOOLEAN /\ critical \in BOOLEAN /\ strayed \in BOOLEAN
  /\ state \in {"in_progress", "completed"} /\ collSem \in {"none", "own", "other"}

LimitTypes ==
  /\ conc \in Nat \ {0} /\ limit \in Nat \ {0} /\ read \in Nat
  /\ pc = "limitRead" => read # 0

CollTypes ==
  /\ workersPerPart \in Nat
  /\ override \in [Collections -> Overrides]
  /\ coll \in [Collections -> CollStates]
  /\ parallel \in [Collections -> BOOLEAN]
  /\ knobs \in [Collections -> Nat]
  /\ promised \in [Collections -> Overrides]

RequestTypes ==
  /\ req \in [Requests -> RequestRecord]
  /\ \A r \in Requests : req[r].at = "resize" => req[r].asks.conc # 0
  /\ \A r \in Requests : req[r].at = "idle" => req[r].asks.workers = 0

Types == ControlTypes /\ LimitTypes /\ CollTypes /\ RequestTypes

(* Before the dispatcher has its semaphore nothing has begun.              *)
Early == pc \in {"start", "limitRead"}
Holders == {c \in Collections : Active(c)}
HeldInv ==
  /\ Early => \A c \in Collections : coll[c] = "queued"
  /\ held = Cardinality(Holders)

(* A request on its way to the own semaphore carries the configured limit; *)
(* without one the limit is the configured one already.                    *)
OnItsWay(r) == req[r].at = "resize" /\ req[r].sem = "own"
LimitInv ==
  /\ Early => collSem # "own" /\ \A r \in Requests : ~OnItsWay(r)
  /\ ~strayed =>
       /\ pc = "limitRead" => read = conc
       /\ \A r \in Requests : OnItsWay(r) => req[r].asks.conc = conc
       /\ pc \in {"dispatch", "parked", "wait"} /\ (\A r \in Requests : ~OnItsWay(r)) => limit = conc

(* Workers v of collection c were promised to it, or asked for since.      *)
Granted(c, v) ==
  v # 0 /\ (v = promised[c] \/ \E r \in Requests : req[r].asks.coll = c /\ req[r].asks.workers = v)

TuningInv ==
  \A c \in Collections : Active(c) /\ promised[c] # NoOverride =>
    /\ override[c] # NoOverride
    /\ promised[c] > 0 => Granted(c, override[c])
    /\ coll[c] # "dispatched" => parallel[c]
    /\ coll[c] = "loading" /\ promised[c] > 0 => Granted(c, knobs[c])

(* What is known of the collections once the dispatcher waits for them.    *)
LoadInv ==
  /\ Early => state = "in_progress"
  /\ pc = "wait" /\ ~cancelled => \A c \in Collections : coll[c] # "queued"
  /\ \A c \in Collections : (coll[c] = "failed" => critical) /\ (coll[c] = "partial" => cancelled)
  /\ state = "completed" => \A c \in Collections : coll[c] = "loaded"
  /\ pc = "streaming" => state = "completed"

DispatchInv == Types /\ HeldInv /\ LimitInv /\ TuningInv /\ LoadInv

-----------------------------------------------------------------------------

LEMMA DispatchInvInit == DispatchInit => DispatchInv
<1> SUFFICES ASSUME DispatchInit PROVE DispatchInv
  OBVIOUS
<1> USE DispatchAssumption
<1>1. Types
  <2>1. ControlTypes
    BY DEF ControlTypes, DispatchInit, Phases
  <2>2. LimitTypes
    BY DEF LimitTypes, DispatchInit, Unset
  <2>3. CollTypes
    BY DEF CollTypes, DispatchInit, CollStates, Overrides, NoOverride, Unset
  <2>4. RequestTypes
    BY DEF RequestTypes, DispatchInit, Asks, RequestRecord, Idle, Unset, AllCollections
  <2> QED BY <2>1, <2>2, <2>3, <2>4 DEF Types
<1>2. HeldInv
  <2>1. Holders = {}
    BY DEF Holders, Active, DispatchInit
  <2> QED BY <2>1, FS_EmptySet DEF HeldInv, DispatchInit, Early
<1>3. LimitInv
  BY DEF LimitInv, DispatchInit, OnItsWay, Idle, Early
<1>4. TuningInv
  BY DEF TuningInv, DispatchInit, Active
<1>5. LoadInv
  BY DEF LoadInv, DispatchInit, Early
<1> QED BY <1>1, <1>2, <1>3, <1>4, <1>5 DEF DispatchInv
-----------------------------------------------------------------------------

(* Every step is one of the actions.                                       *)
LEMMA StepIsAnAction ==
  ASSUME [DispatchNext]_dispatchVars
  PROVE  \/ ReadLimit \/ Register \/ Park \/ EndDispatch \/ AfterFunc \/ AllDone \/ StreamEnds
         \/ Cancel \/ OtherPair \/ UNCHANGED dispatchVars
         \/ \E c \in Collections : Admit(c) \/ Gate(c) \/ ReadKnobs(c) \/ EndLoad(c)
         \/ \E r \in Requests : Submit(r) \/ Resize(r) \/ Apply(r)
BY DEF DispatchNext, Dispatcher, LoadStep, Request

(* The types of the control state.                                         *)
LEMMA ControlTypesKept == DispatchInv /\ [DispatchNext]_dispatchVars => ControlTypes'
<1> SUFFICES ASSUME DispatchInv, [DispatchNext]_dispatchVars PROVE ControlTypes'
  OBVIOUS
<1> USE DEF ControlTypes, Phases
<1>0. ControlTypes
  BY DEF DispatchInv, Types
<1>1. CASE ReadLimit \/ Register \/ Park \/ EndDispatch
  BY <1>0, <1>1 DEF ReadLimit, Register, Park, EndDispatch, loadVars
<1>2. CASE AfterFunc \/ AllDone \/ StreamEnds \/ Cancel \/ OtherPair
  BY <1>0, <1>2 DEF AfterFunc, Broadcast, AllDone, Outcome, ClearCollSem, StreamEnds, Cancel, OtherPair, loadVars
<1>3. ASSUME NEW c \in Collections, Admit(c) \/ Gate(c) \/ ReadKnobs(c) \/ EndLoad(c) PROVE ControlTypes'
  <2>1. CASE Admit(c) \/ Gate(c) \/ ReadKnobs(c)
    BY <1>0, <2>1 DEF Admit, Gate, ReadKnobs
  <2>2. CASE EndLoad(c)
    BY <1>0, <2>2 DEF EndLoad, Release, Broadcast, Forget
  <2> QED BY <1>3, <2>1, <2>2
<1>4. ASSUME NEW r \in Requests, Submit(r) \/ Resize(r) \/ Apply(r) PROVE ControlTypes'
  <2>1. CASE Submit(r)
    BY <1>0, <2>1 DEF Submit, loadVars
  <2>2. CASE Resize(r) \/ Apply(r)
    BY <1>0, <2>2 DEF Resize, Broadcast, Apply, loadVars
  <2> QED BY <1>4, <2>1, <2>2
<1>5. CASE UNCHANGED dispatchVars
  BY <1>0, <1>5 DEF dispatchVars, semVars, tuningVars, loadVars
<1> QED BY <1>1, <1>2, <1>3, <1>4, <1>5, StepIsAnAction

(* The types of the limits.                                                *)
LEMMA LimitTypesKept == DispatchInv /\ [DispatchNext]_dispatchVars => LimitTypes'
<1> SUFFICES ASSUME DispatchInv, [DispatchNext]_dispatchVars PROVE LimitTypes'
  OBVIOUS
<1> USE DEF LimitTypes
<1>0. LimitTypes /\ RequestTypes
  BY DEF DispatchInv, Types
<1>1. CASE ReadLimit \/ Register \/ Park \/ EndDispatch
  BY <1>0, <1>1 DEF ReadLimit, Register, Park, EndDispatch, semVars, tuningVars
<1>2. CASE AfterFunc \/ AllDone \/ StreamEnds \/ Cancel \/ OtherPair
  BY <1>0, <1>2 DEF AfterFunc, Broadcast, AllDone, Outcome, StreamEnds, Cancel, OtherPair, semVars, tuningVars
<1>3. ASSUME NEW c \in Collections, Admit(c) \/ Gate(c) \/ ReadKnobs(c) \/ EndLoad(c) PROVE LimitTypes'
  BY <1>0, <1>3 DEF Admit, Gate, ReadKnobs, EndLoad, Release, Broadcast, semVars, tuningVars
<1>4. ASSUME NEW r \in Requests, Submit(r) \/ Resize(r) \/ Apply(r) PROVE LimitTypes'
  <2>1. CASE Submit(r)
    <3>1. \A q \in Contents : q.conc \in Nat
      BY DispatchAssumption
    <3> QED BY <1>0, <2>1, <3>1 DEF Submit, semVars, Unset
  <2>2. CASE Resize(r)
    <3>1. req[r].asks.conc \in Nat \ {0}
      BY <1>0, <2>2 DEF RequestTypes, RequestRecord, Asks, Resize
    <3> QED BY <1>0, <2>2, <3>1 DEF Resize, NewLimit, Broadcast, tuningVars
  <2>3. CASE Apply(r)
    BY <1>0, <2>3 DEF Apply, semVars
  <2> QED BY <1>4, <2>1, <2>2, <2>3
<1>5. CASE UNCHANGED dispatchVars
  BY <1>0, <1>5 DEF dispatchVars, semVars, tuningVars
<1> QED BY <1>1, <1>2, <1>3, <1>4, <1>5, StepIsAnAction

(* The types of what is known of the collections.                          *)
LEMMA CollTypesKept == DispatchInv /\ [DispatchNext]_dispatchVars => CollTypes'
<1> SUFFICES ASSUME DispatchInv, [DispatchNext]_dispatchVars PROVE CollTypes'
  OBVIOUS
<1> USE DEF CollTypes, CollStates
<1>0. CollTypes /\ RequestTypes
  BY DEF DispatchInv, Types
<1>1. CASE ReadLimit \/ Register \/ Park \/ EndDispatch
  BY <1>0, <1>1 DEF ReadLimit, Register, Park, EndDispatch, loadVars, tuningVars
<1>2. CASE AfterFunc \/ AllDone \/ StreamEnds \/ Cancel \/ OtherPair
  BY <1>0, <1>2 DEF AfterFunc, AllDone, StreamEnds, Cancel, OtherPair, loadVars, tuningVars
<1>3. ASSUME NEW c \in Collections, Admit(c) \/ Gate(c) \/ ReadKnobs(c) \/ EndLoad(c) PROVE CollTypes'
  <2>1. CASE Admit(c)
    BY <1>0, <2>1 DEF Admit, tuningVars
  <2>2. CASE Gate(c)
    BY <1>0, <2>2 DEF Gate, OpensGate, Unset, tuningVars
  <2>3. CASE ReadKnobs(c)
    <3>1. EffectiveWorkers(c) \in Nat
      BY <1>0 DEF EffectiveWorkers, AutoWorkers, Overrides, NoOverride
    <3> QED BY <1>0, <2>3, <3>1 DEF ReadKnobs, tuningVars
  <2>4. CASE EndLoad(c)
    BY <1>0, <2>4 DEF EndLoad, Forget, Overrides, NoOverride, Unset, tuningVars
  <2> QED BY <1>3, <2>1, <2>2, <2>3, <2>4
<1>4. ASSUME NEW r \in Requests, Submit(r) \/ Resize(r) \/ Apply(r) PROVE CollTypes'
  <2>1. CASE Submit(r) \/ Resize(r)
    BY <1>0, <2>1 DEF Submit, Resize, loadVars, tuningVars
  <2>2. CASE Apply(r)
    <3>1. req[r].asks.workers \in Nat /\ req[r].asks.coll \in Collections \cup {AllCollections}
      BY <1>0 DEF RequestTypes, RequestRecord, Asks
    <3> QED BY <1>0, <2>2, <3>1 DEF Apply, Overrides, NoOverride, Unset, loadVars
  <2> QED BY <1>4, <2>1, <2>2
<1>5. CASE UNCHANGED dispatchVars
  BY <1>0, <1>5 DEF dispatchVars, loadVars, tuningVars
<1> QED BY <1>1, <1>2, <1>3, <1>4, <1>5, StepIsAnAction

(* The types of the requests.                                              *)
LEMMA RequestTypesKept == DispatchInv /\ [DispatchNext]_dispatchVars => RequestTypes'
<1> SUFFICES ASSUME DispatchInv, [DispatchNext]_dispatchVars PROVE RequestTypes'
  OBVIOUS
<1> USE DEF RequestTypes
<1>0. RequestTypes /\ ControlTypes
  BY DEF DispatchInv, Types
<1>1. CASE UNCHANGED req
  BY <1>0, <1>1
<1>2. ASSUME NEW r \in Requests, Submit(r) \/ Resize(r) \/ Apply(r) PROVE RequestTypes'
  <2>1. CASE Submit(r)
    <3>1. PICK q \in Contents :
            req' = [req EXCEPT ![r] = [at |-> IF q.conc = Unset THEN "apply" ELSE "resize",
                                       asks |-> q, sem |-> IF q.conc = Unset THEN "none" ELSE collSem]]
      BY <2>1 DEF Submit
    <3>2. q \in Asks
      BY DispatchAssumption DEF Asks, AllCollections
    <3> DEFINE new == [at |-> IF q.conc = Unset THEN "apply" ELSE "resize",
                       asks |-> q, sem |-> IF q.conc = Unset THEN "none" ELSE collSem]
    <3>3. new \in RequestRecord /\ new.at # "idle" /\ (new.at = "resize" => new.asks.conc # 0)
      BY <1>0, <3>2 DEF RequestRecord, ControlTypes, Unset
    <3> HIDE DEF new
    <3>4. req' = [req EXCEPT ![r] = new]
      BY <3>1 DEF new
    <3> QED BY <1>0, <3>3, <3>4
  <2>2. CASE Resize(r) \/ Apply(r)
    <3>1. PICK to \in {"apply", "done"} : Step(r, to)
      BY <2>2 DEF Resize, Apply
    <3> QED BY <1>0, <3>1 DEF Step, RequestRecord
  <2> QED BY <1>2, <2>1, <2>2
<1>3. CASE UNCHANGED dispatchVars
  BY <1>1, <1>3 DEF dispatchVars
<1>4. CASE ReadLimit \/ Register \/ Park \/ EndDispatch \/ AfterFunc \/ AllDone \/ StreamEnds \/ Cancel \/ OtherPair
  BY <1>1, <1>4 DEF ReadLimit, Register, Park, EndDispatch, AfterFunc, AllDone, StreamEnds, Cancel, OtherPair
<1>5. ASSUME NEW c \in Collections, Admit(c) \/ Gate(c) \/ ReadKnobs(c) \/ EndLoad(c) PROVE RequestTypes'
  BY <1>1, <1>5 DEF Admit, Gate, ReadKnobs, EndLoad
<1> QED BY <1>2, <1>3, <1>4, <1>5, StepIsAnAction
(* The semaphore counts the collections that hold a slot.                  *)
LEMMA HeldInvKept == DispatchInv /\ [DispatchNext]_dispatchVars => HeldInv'
<1> SUFFICES ASSUME DispatchInv, [DispatchNext]_dispatchVars PROVE HeldInv'
  OBVIOUS
<1>0. HeldInv /\ CollTypes /\ ControlTypes
  BY DEF DispatchInv, Types
<1>1. IsFiniteSet(Holders)
  BY FS_Subset, DispatchAssumption DEF Holders
<1>2. ASSUME coll' = coll, held' = held, Early' => Early PROVE HeldInv'
  <2>1. Holders' = Holders
    BY <1>2 DEF Holders, Active
  <2> QED BY <1>0, <1>2, <2>1 DEF HeldInv
<1>3. CASE ReadLimit \/ Park \/ EndDispatch \/ AfterFunc \/ AllDone \/ StreamEnds
  BY <1>0, <1>2, <1>3 DEF ReadLimit, Park, EndDispatch, AfterFunc, AllDone, Outcome, StreamEnds, Broadcast, loadVars, semVars, Early
<1>4. CASE Cancel \/ OtherPair \/ UNCHANGED dispatchVars
  BY <1>0, <1>2, <1>4 DEF Cancel, OtherPair, dispatchVars, loadVars, semVars, Early
<1>5. CASE Register
  <2>1. Holders' = {}
    BY <1>0, <1>5 DEF HeldInv, Early, Holders, Active, Register, loadVars
  <2> QED BY <2>1, <1>5, FS_EmptySet DEF HeldInv, Early, Register
<1>6. ASSUME NEW c \in Collections, Admit(c) \/ Gate(c) \/ ReadKnobs(c) \/ EndLoad(c) PROVE HeldInv'
  <2>1. CASE Admit(c)
    <3>1. Holders' = Holders \cup {c} /\ c \notin Holders
      BY <1>0, <2>1 DEF Holders, Active, Admit, CollTypes
    <3> QED BY <1>0, <1>1, <2>1, <3>1, FS_AddElement DEF HeldInv, Admit, Early
  <2>2. CASE Gate(c) \/ ReadKnobs(c)
    <3>1. Holders' = Holders
      BY <1>0, <2>2 DEF Holders, Active, Gate, ReadKnobs, CollTypes
    <3>2. ~Early'
      BY <1>0, <2>2 DEF HeldInv, Early, Gate, ReadKnobs
    <3> QED BY <1>0, <2>2, <3>1, <3>2 DEF HeldInv, Gate, ReadKnobs, semVars
  <2>3. CASE EndLoad(c)
    <3>1. Holders' = Holders \ {c} /\ c \in Holders
      BY <1>0, <2>3 DEF Holders, Active, EndLoad, CollTypes
    <3>2. ~Early'
      BY <1>0, <2>3 DEF HeldInv, Early, EndLoad, Active, Release, Broadcast
    <3>3. Cardinality(Holders) \in Nat /\ Cardinality(Holders) # 0
      BY <1>1, <3>1, FS_CardinalityType, FS_EmptySet
    <3>4. Cardinality(Holders') = Cardinality(Holders) - 1
      BY <1>1, <3>1, FS_RemoveElement
    <3>5. held' = held - 1
      BY <1>0, <2>3, <3>3 DEF HeldInv, EndLoad, Release
    <3> QED BY <1>0, <3>2, <3>4, <3>5 DEF HeldInv
  <2> QED BY <1>6, <2>1, <2>2, <2>3
<1>7. ASSUME NEW r \in Requests, Submit(r) \/ Resize(r) \/ Apply(r) PROVE HeldInv'
  BY <1>0, <1>2, <1>7 DEF Submit, Resize, Broadcast, Apply, loadVars, semVars, Early
<1> QED BY <1>3, <1>4, <1>5, <1>6, <1>7, StepIsAnAction

(* The limit: it is read before a request can reach the semaphore, and     *)
(* with no overlap one request at a time is on its way.                    *)
LEMMA LimitInvKept == DispatchInv /\ [DispatchNext]_dispatchVars => LimitInv'
<1> SUFFICES ASSUME DispatchInv, [DispatchNext]_dispatchVars PROVE LimitInv'
  OBVIOUS
<1> USE DEF Early
<1>0. LimitInv /\ ControlTypes /\ RequestTypes
  BY DEF DispatchInv, Types
<1>1. CASE ReadLimit \/ Register \/ Park \/ EndDispatch
  BY <1>0, <1>1 DEF LimitInv, OnItsWay, ReadLimit, Register, Park, EndDispatch, tuningVars, semVars
<1>2. CASE AfterFunc \/ AllDone \/ StreamEnds
  BY <1>0, <1>2 DEF LimitInv, OnItsWay, AfterFunc, Broadcast, AllDone, Outcome, ClearCollSem, StreamEnds, tuningVars, semVars
<1>3. CASE Cancel \/ OtherPair \/ UNCHANGED dispatchVars
  BY <1>0, <1>3 DEF LimitInv, OnItsWay, Cancel, OtherPair, dispatchVars, tuningVars, semVars, ControlTypes
<1>4. ASSUME NEW c \in Collections, Admit(c) \/ Gate(c) \/ ReadKnobs(c) \/ EndLoad(c) PROVE LimitInv'
  BY <1>0, <1>4 DEF LimitInv, OnItsWay, Admit, Gate, ReadKnobs, EndLoad, Release, Broadcast, tuningVars, semVars
<1>5. ASSUME NEW r \in Requests, Submit(r) \/ Resize(r) \/ Apply(r) PROVE LimitInv'
  <2>1. CASE Submit(r)
    <3>1. PICK q \in Contents :
            /\ req' = [req EXCEPT ![r] = [at |-> IF q.conc = Unset THEN "apply" ELSE "resize",
                                          asks |-> q, sem |-> IF q.conc = Unset THEN "none" ELSE collSem]]
            /\ conc' = IF q.conc = Unset THEN conc ELSE q.conc
            /\ strayed' = (strayed \/ (q.conc # Unset /\ pc # "start"
                                       /\ (collSem # "own" \/ \E p \in Requests : req[p].at = "resize")))
      BY <2>1 DEF Submit
    <3>2. /\ \A p \in Requests : p # r => req'[p] = req[p]
          /\ req'[r].at = IF q.conc = Unset THEN "apply" ELSE "resize"
          /\ req'[r].asks = q
          /\ req'[r].sem = IF q.conc = Unset THEN "none" ELSE collSem
      BY <1>0, <3>1 DEF RequestTypes
    <3>3. req[r].at = "idle"
      BY <2>1 DEF Submit, Idle
    <3>4. UNCHANGED <<pc, read, limit, collSem>>
      BY <2>1 DEF Submit, semVars
    <3>5. CASE q.conc = Unset
      <4>1. \A p \in Requests : OnItsWay(p)' <=> OnItsWay(p)
        BY <3>2, <3>3, <3>5 DEF OnItsWay
      <4>2. \A p \in Requests : OnItsWay(p) => req'[p] = req[p]
        BY <3>2, <3>3 DEF OnItsWay
      <4>3. conc' = conc /\ strayed' = strayed
        BY <1>0, <3>1, <3>5 DEF ControlTypes
      <4> QED BY <1>0, <3>4, <4>1, <4>2, <4>3 DEF LimitInv
    <3>6. CASE q.conc # Unset /\ pc = "start"
      <4>1. \A p \in Requests : ~OnItsWay(p)'
        BY <1>0, <3>2, <3>6 DEF OnItsWay, LimitInv
      <4> QED BY <1>0, <3>4, <3>6, <4>1 DEF LimitInv
    <3>7. CASE q.conc # Unset /\ pc # "start" /\ ~strayed'
      <4>1. collSem = "own" /\ \A p \in Requests : req[p].at # "resize"
        BY <1>0, <3>1, <3>7 DEF ControlTypes
      <4>2. ~Early
        BY <1>0, <4>1 DEF LimitInv
      <4>3. \A p \in Requests : OnItsWay(p)' <=> p = r
        BY <3>2, <3>7, <4>1 DEF OnItsWay
      <4> QED BY <3>1, <3>2, <3>4, <3>7, <4>2, <4>3 DEF LimitInv
    <3>8. CASE q.conc # Unset /\ pc # "start" /\ strayed'
      <4>1. Early => collSem # "own" /\ \A p \in Requests : ~OnItsWay(p)'
        BY <1>0, <3>2 DEF LimitInv, OnItsWay
      <4> QED BY <3>4, <3>8, <4>1 DEF LimitInv
    <3> QED BY <3>5, <3>6, <3>7, <3>8
  <2>2. CASE Resize(r)
    <3>1. /\ \A p \in Requests : p # r => req'[p] = req[p]
          /\ req'[r].at = "apply"
      BY <1>0, <2>2 DEF Resize, Step, RequestTypes
    <3>2. \A p \in Requests : OnItsWay(p)' <=> OnItsWay(p) /\ p # r
      BY <3>1 DEF OnItsWay
    <3>3. UNCHANGED <<conc, read, collSem, strayed>>
      BY <2>2 DEF Resize, tuningVars
    <3>4. /\ Early' <=> Early
          /\ pc' = "limitRead" <=> pc = "limitRead"
          /\ pc' \in {"dispatch", "parked", "wait"} <=> pc \in {"dispatch", "parked", "wait"}
      BY <2>2 DEF Resize, Broadcast
    <3>5. CASE req[r].sem = "own"
      <4>1. OnItsWay(r) /\ limit' = req[r].asks.conc
        BY <2>2, <3>5 DEF Resize, OnItsWay, NewLimit
      <4> QED BY <1>0, <3>1, <3>2, <3>3, <3>4, <4>1 DEF LimitInv
    <3>6. CASE req[r].sem # "own"
      <4>1. ~OnItsWay(r) /\ limit' = limit
        BY <2>2, <3>6 DEF Resize, OnItsWay
      <4> QED BY <1>0, <3>1, <3>2, <3>3, <3>4, <4>1 DEF LimitInv
    <3> QED BY <3>5, <3>6
  <2>3. CASE Apply(r)
    <3>1. /\ \A p \in Requests : p # r => req'[p] = req[p]
          /\ req'[r].at = "done"
      BY <1>0, <2>3 DEF Apply, Step, RequestTypes
    <3>2. \A p \in Requests : (OnItsWay(p)' <=> OnItsWay(p)) /\ (OnItsWay(p) => req'[p] = req[p])
      BY <2>3, <3>1 DEF OnItsWay, Apply
    <3>3. UNCHANGED <<pc, conc, read, limit, collSem, strayed>>
      BY <2>3 DEF Apply, semVars
    <3> QED BY <1>0, <3>2, <3>3 DEF LimitInv
  <2> QED BY <1>5, <2>1, <2>2, <2>3
<1> QED BY <1>1, <1>2, <1>3, <1>4, <1>5, StepIsAnAction
(* Tuning: an override is never taken back, and a request keeps what it    *)
(* asks for.                                                               *)
LEMMA TuningInvKept == DispatchInv /\ [DispatchNext]_dispatchVars => TuningInv'
<1> SUFFICES ASSUME DispatchInv, [DispatchNext]_dispatchVars PROVE TuningInv'
  OBVIOUS
<1>0. TuningInv /\ CollTypes /\ RequestTypes
  BY DEF DispatchInv, Types
<1> DEFINE Tuned(d) == Active(d) /\ promised[d] # NoOverride =>
             /\ override[d] # NoOverride
             /\ promised[d] > 0 => Granted(d, override[d])
             /\ coll[d] # "dispatched" => parallel[d]
             /\ coll[d] = "loading" /\ promised[d] > 0 => Granted(d, knobs[d])
<1>1. CASE UNCHANGED <<coll, promised, override, parallel, knobs, req>>
  <2>1. \A d, v : Granted(d, v)' <=> Granted(d, v')
    BY <1>1 DEF Granted
  <2> QED BY <1>0, <1>1 DEF TuningInv, Active, Granted
<1>2. CASE ReadLimit \/ Register \/ Park \/ EndDispatch \/ AfterFunc \/ AllDone \/ StreamEnds
           \/ Cancel \/ OtherPair \/ UNCHANGED dispatchVars
  BY <1>1, <1>2 DEF ReadLimit, Register, Park, EndDispatch, AfterFunc, AllDone, StreamEnds, Cancel,
                    OtherPair, dispatchVars, loadVars, tuningVars
<1>3. ASSUME NEW c \in Collections, Admit(c) \/ Gate(c) \/ ReadKnobs(c) \/ EndLoad(c) PROVE TuningInv'
  <2>1. UNCHANGED <<override, req>>
    BY <1>3 DEF Admit, Gate, ReadKnobs, EndLoad, tuningVars
  <2>2. ASSUME NEW d \in Collections, d # c PROVE Tuned(d)'
    <3>1. /\ coll'[d] = coll[d] /\ promised'[d] = promised[d]
          /\ parallel'[d] = parallel[d] /\ knobs'[d] = knobs[d]
      BY <1>0, <1>3, <2>2 DEF Admit, Gate, ReadKnobs, EndLoad, Forget, CollTypes
    <3> QED BY <1>0, <2>1, <3>1 DEF TuningInv, Active, Granted
  <2>3. Tuned(c)'
    <3>1. CASE Admit(c)
      <4>1. coll'[c] = "dispatched" /\ promised'[c] = override[c]
        BY <1>0, <3>1 DEF Admit, CollTypes
      <4>2. override[c] \in Overrides
        BY <1>0 DEF CollTypes
      <4> QED BY <2>1, <4>1, <4>2 DEF Granted, Overrides, NoOverride
    <3>2. CASE Gate(c)
      <4>1. Active(c) /\ promised' = promised
        BY <3>2 DEF Gate, Active
      <4>2. OpensGate(c) => coll'[c] = "gated" /\ parallel'[c] = TRUE
        BY <1>0, <3>2 DEF Gate, CollTypes
      <4>3. promised[c] # NoOverride => OpensGate(c)
        BY <1>0, <4>1 DEF TuningInv, OpensGate
      <4> QED BY <1>0, <2>1, <4>1, <4>2, <4>3 DEF TuningInv, Granted
    <3>3. CASE ReadKnobs(c)
      <4>1. Active(c) /\ coll[c] = "gated" /\ promised' = promised /\ parallel' = parallel
        BY <3>3 DEF ReadKnobs, Active
      <4>2. knobs'[c] = EffectiveWorkers(c)
        BY <1>0, <3>3 DEF ReadKnobs, CollTypes
      <4>3. promised[c] > 0 => Granted(c, override[c])
        BY <1>0, <4>1 DEF TuningInv, CollTypes, Overrides, NoOverride
      <4>4. promised[c] > 0 => knobs'[c] = override[c]
        <5>1. override[c] \in Overrides /\ promised[c] \in Overrides
          BY <1>0 DEF CollTypes
        <5>2. promised[c] > 0 => promised[c] # NoOverride
          BY DEF NoOverride
        <5> QED BY <1>0, <4>1, <4>2, <4>3, <5>1, <5>2 DEF TuningInv, Granted, EffectiveWorkers, AutoWorkers, Overrides, NoOverride
      <4> QED BY <1>0, <2>1, <4>1, <4>3, <4>4 DEF TuningInv, Granted
    <3>4. CASE EndLoad(c)
      <4>1. coll'[c] \in {"loaded", "failed", "partial"}
        BY <1>0, <3>4 DEF EndLoad, CollTypes
      <4> QED BY <4>1 DEF Active
    <3> QED BY <1>3, <3>1, <3>2, <3>3, <3>4
  <2> QED BY <2>2, <2>3 DEF TuningInv
<1>4. ASSUME NEW r \in Requests, Submit(r) \/ Resize(r) \/ Apply(r) PROVE TuningInv'
  <2>1. UNCHANGED <<coll, promised, parallel, knobs>>
    BY <1>4 DEF Submit, Resize, Apply, loadVars
  <2>2. \A p \in Requests : req[p].asks.workers # 0 => req'[p].asks = req[p].asks
    <3>1. CASE Submit(r)
      <4>1. req[r].asks.workers = 0
        BY <1>0, <3>1 DEF Submit, RequestTypes, Idle
      <4>2. \A p \in Requests : p # r => req'[p] = req[p]
        BY <1>0, <3>1 DEF Submit, RequestTypes
      <4> QED BY <4>1, <4>2
    <3>2. CASE Resize(r) \/ Apply(r)
      BY <1>0, <3>2 DEF Resize, Apply, Step, RequestTypes
    <3> QED BY <1>4, <3>1, <3>2
  <2>3. ASSUME NEW c \in Collections, NEW v, Granted(c, v) PROVE Granted(c, v)'
    BY <2>1, <2>2, <2>3 DEF Granted
  <2>4. ASSUME NEW c \in Collections PROVE Tuned(c)'
    <3>1. CASE override'[c] = override[c]
      BY <1>0, <2>1, <2>3, <3>1 DEF TuningInv, Active, Granted
    <3>2. CASE override'[c] # override[c]
      <4>1. Apply(r) /\ req[r].asks.coll = c /\ c # AllCollections
        BY <1>0, <1>4, <3>2 DEF Submit, Resize, Apply, tuningVars, CollTypes
      <4>2. override'[c] = req[r].asks.workers
        BY <1>0, <3>2, <4>1 DEF Apply, CollTypes
      <4>3. req[r].asks.workers \in Nat
        BY <1>0 DEF RequestTypes, RequestRecord, Asks
      <4>4. req[r].asks.workers # 0 \/ override[c] = NoOverride
        BY <1>0, <3>2, <4>1 DEF Apply, CollTypes, Unset
      <4>5. req'[r].asks = req[r].asks
        BY <1>0, <4>1 DEF Apply, Step, RequestTypes
      <4>6. req[r].asks.workers # 0 => Granted(c, override[c])'
        BY <4>1, <4>2, <4>5 DEF Granted
      <4>7. Active(c) /\ promised[c] # NoOverride => override[c] # NoOverride
        BY <1>0 DEF TuningInv
      <4> QED BY <1>0, <2>1, <2>3, <4>2, <4>3, <4>4, <4>6, <4>7 DEF TuningInv, Active, NoOverride, Granted
    <3> QED BY <3>1, <3>2
  <2> QED BY <2>4 DEF TuningInv
<1> QED BY <1>2, <1>3, <1>4, StepIsAnAction

(* What is known of the collections when the dispatcher has waited.        *)
LEMMA LoadInvKept == DispatchInv /\ [DispatchNext]_dispatchVars => LoadInv'
<1> SUFFICES ASSUME DispatchInv, [DispatchNext]_dispatchVars PROVE LoadInv'
  OBVIOUS
<1> USE DEF Early
<1>0. LoadInv /\ HeldInv /\ CollTypes /\ ControlTypes
  BY DEF DispatchInv, Types
<1>1. CASE ReadLimit \/ Register \/ Park \/ AfterFunc \/ StreamEnds
  BY <1>0, <1>1 DEF LoadInv, ReadLimit, Register, Park, AfterFunc, Broadcast, StreamEnds, loadVars
<1>2. CASE Cancel \/ OtherPair \/ UNCHANGED dispatchVars
  BY <1>0, <1>2 DEF LoadInv, Cancel, OtherPair, dispatchVars, loadVars
<1>3. CASE EndDispatch
  BY <1>0, <1>3 DEF LoadInv, EndDispatch, Queued, loadVars
<1>4. CASE AllDone
  <2>1. CASE Outcome = "streaming"
    <3>1. ~critical /\ ~cancelled
      BY <2>1 DEF Outcome
    <3>2. \A c \in Collections : coll[c] = "loaded"
      BY <1>0, <1>4, <3>1 DEF AllDone, Active, LoadInv, CollTypes, CollStates
    <3> QED BY <1>4, <2>1, <3>1, <3>2 DEF LoadInv, AllDone, loadVars
  <2>2. CASE Outcome # "streaming"
    BY <1>0, <1>4, <2>2 DEF LoadInv, AllDone, Outcome, loadVars
  <2> QED BY <2>1, <2>2
<1>5. ASSUME NEW c \in Collections, Admit(c) \/ Gate(c) \/ ReadKnobs(c) \/ EndLoad(c) PROVE LoadInv'
  <2>1. state' = state /\ cancelled' = cancelled /\ coll[c] # "loaded"
    BY <1>5 DEF Admit, Gate, ReadKnobs, EndLoad, Active
  <2>2. state = "in_progress" /\ pc # "streaming"
    BY <1>0, <2>1 DEF LoadInv, ControlTypes
  <2>3. CASE Admit(c)
    BY <1>0, <2>1, <2>2, <2>3 DEF LoadInv, Admit, CollTypes
  <2>4. CASE Gate(c) \/ ReadKnobs(c)
    BY <1>0, <2>1, <2>2, <2>4 DEF LoadInv, Gate, ReadKnobs, CollTypes
  <2>5. CASE EndLoad(c)
    <3>1. pc' = "wait" => pc = "wait"
      BY <2>5 DEF EndLoad, Release, Broadcast
    <3>2. pc' # "streaming"
      BY <2>2, <2>5 DEF EndLoad, Release, Broadcast
    <3>3. PICK how \in {"loaded", "failed", "partial"} :
            /\ coll' = [coll EXCEPT ![c] = how] /\ critical' = (critical \/ how = "failed")
            /\ how = "partial" => cancelled
      BY <2>5 DEF EndLoad
    <3> QED BY <1>0, <2>1, <2>2, <3>1, <3>2, <3>3 DEF LoadInv, CollTypes, ControlTypes
  <2> QED BY <1>5, <2>3, <2>4, <2>5
<1>6. ASSUME NEW r \in Requests, Submit(r) \/ Resize(r) \/ Apply(r) PROVE LoadInv'
  BY <1>0, <1>6 DEF LoadInv, Submit, Resize, Broadcast, Apply, loadVars
<1> QED BY <1>1, <1>2, <1>3, <1>4, <1>5, <1>6, StepIsAnAction

-----------------------------------------------------------------------------

LEMMA DispatchInvInductive == DispatchInv /\ [DispatchNext]_dispatchVars => DispatchInv'
BY ControlTypesKept, LimitTypesKept, CollTypesKept, RequestTypesKept, HeldInvKept, LimitInvKept,
   TuningInvKept, LoadInvKept DEF DispatchInv, Types

THEOREM DispatchInvariant == DispatchSpec => []DispatchInv
BY DispatchInvInit, DispatchInvInductive, PTL DEF DispatchSpec

LEMMA DispatchIsTyped == DispatchInv => DispatchTypeOK
BY DEF DispatchInv, Types, ControlTypes, Phases, LimitTypes, CollTypes, HeldInv, Holders, Overrides, DispatchTypeOK

(* The variables have their types, and the semaphore of StartReplication   *)
(* counts exactly the collections being loaded: no slot is lost or given   *)
(* twice, whatever ends them.                                              *)
THEOREM SemaphoreCountsHolders == DispatchSpec => []DispatchTypeOK
BY DispatchIsTyped, DispatchInvariant, PTL

(* Once no request is on its way, the semaphore has the configured limit,  *)
(* unless requests overlapped or came too early (strayed).                 *)
THEOREM LimitIsConfigured == DispatchSpec => []LimitFollowsConfig
<1>1. DispatchInv => LimitFollowsConfig
  BY DEF DispatchInv, LimitInv, OnItsWay, LimitFollowsConfig
<1> QED BY <1>1, DispatchInvariant, PTL

(* A collection that was tuned while it waited is read in parallel, with   *)
(* its own number of workers or one asked for it since.                    *)
THEOREM TuningIsHonoured == DispatchSpec => []TuningReachesQueued
<1>1. DispatchInv => TuningReachesQueued
  BY DEF DispatchInv, TuningInv, Active, Granted, TuningReachesQueued
<1> QED BY <1>1, DispatchInvariant, PTL

-----------------------------------------------------------------------------
(* The index build.                                                        *)

Lags == {"none", "low", "high"}

(* The last n samples are low.                                             *)
LowTail(n, s) ==
  /\ s \in Seq(Lags) /\ n \in Nat
  /\ n <= Len(s) /\ Len(s) <= StableChecks
  /\ \A k \in 1..Len(s) : k > Len(s) - n => s[k] # "high"

StreakInv ==
  /\ lag \in Lags
  /\ streak \in 0..StableChecks /\ Len(samples) <= StableChecks
  /\ run = "none" => streak < StableChecks /\ LowTail(streak, samples)

IndexInv ==
  /\ DispatchInv
  /\ run # "none" => state = "completed"
  /\ StreakInv

-----------------------------------------------------------------------------

(* One more sample keeps what is known of the last ones.                   *)
LEMMA OneMoreSample ==
  ASSUME NEW n, NEW s, NEW x \in Lags, NEW m, LowTail(n, s), n < StableChecks,
         m = IF x # "high" THEN n + 1 ELSE 0
  PROVE  LowTail(m, Latest(Append(s, x)))
<1> USE IndexAssumption DEF LowTail
<1>1. /\ Append(s, x) \in Seq(Lags) /\ Len(Append(s, x)) = Len(s) + 1
      /\ \A k \in 1..(Len(s) + 1) : Append(s, x)[k] = IF k = Len(s) + 1 THEN x ELSE s[k]
  BY AppendProperties
<1>2. CASE Len(s) + 1 > StableChecks
  <2>1. Latest(Append(s, x)) = Tail(Append(s, x))
    BY <1>1, <1>2 DEF Latest
  <2>2. /\ Tail(Append(s, x)) \in Seq(Lags) /\ Len(Tail(Append(s, x))) = Len(s)
        /\ \A k \in 1..Len(s) : Tail(Append(s, x))[k] = Append(s, x)[k + 1]
    <3>1. Append(s, x) # <<>>
      BY <1>1
    <3> QED BY <1>1, <3>1, HeadTailProperties
  <2>3. Len(s) = StableChecks
    BY <1>2
  <2> DEFINE t == Tail(Append(s, x))
  <2>4. \A k \in 1..Len(s) : t[k] = IF k = Len(s) THEN x ELSE s[k + 1]
    BY <1>1, <2>2
  <2>5. t \in Seq(Lags) /\ Len(t) = Len(s)
    BY <2>2
  <2> HIDE DEF t
  <2>6. ASSUME NEW k \in 1..Len(t), k > Len(t) - m PROVE t[k] # "high"
    <3>1. Len(s) \in Nat /\ n \in Nat /\ k \in Nat
      BY <2>5
    <3>2. x # "high" /\ m = n + 1
      BY <2>5, <2>6, <3>1
    <3>3. CASE k = Len(s)
      BY <2>4, <2>5, <3>2, <3>3
    <3>4. CASE k # Len(s)
      <4>1. k + 1 \in 1..Len(s) /\ k + 1 > Len(s) - n
        BY <2>5, <2>6, <3>1, <3>2, <3>4
      <4> QED BY <2>4, <2>5, <2>6, <3>4, <4>1
    <3> QED BY <3>3, <3>4
  <2>7. LowTail(m, t)
    BY <2>3, <2>5, <2>6
  <2> QED BY <2>1, <2>7 DEF t
<1>3. CASE ~(Len(s) + 1 > StableChecks)
  <2>1. Latest(Append(s, x)) = Append(s, x)
    BY <1>1, <1>3 DEF Latest
  <2> QED BY <1>1, <1>3, <2>1
<1> QED BY <1>2, <1>3

LEMMA IndexInvInit == Init => IndexInv
<1> SUFFICES ASSUME Init PROVE IndexInv
  OBVIOUS
<1>1. DispatchInv
  BY DispatchInvInit DEF Init
<1>2. LowTail(0, <<>>)
  BY IndexAssumption DEF LowTail
<1> QED BY <1>1, <1>2, IndexAssumption DEF Init, IndexInv, StreakInv, Lags

(* A step of the load, or one that leaves the load alone.                  *)
LEMMA LoadOrIndexes ==
  ASSUME [Next]_vars
  PROVE  [DispatchNext]_dispatchVars
<1>1. CASE DispatchNext \/ UNCHANGED vars
  BY <1>1 DEF vars
<1>2. CASE Arrive \/ ApplyEvent \/ Observe \/ Sync \/ Report
  BY <1>2 DEF Arrive, ApplyEvent, Observe, Sync, SyncId, SyncSecondary, Report
<1>3. ASSUME NEW i \in Indexes, BuildStep(i) PROVE UNCHANGED dispatchVars
  BY <1>3 DEF BuildStep, TakeSlot, Create, Backoff
<1> QED BY <1>1, <1>2, <1>3 DEF Next

(* The controller starts the build in Observe only.                        *)
LEMMA IndexInvInductive ==
  IndexInv /\ [Next]_vars =>
    /\ IndexInv'
    /\ run = "none" /\ run' # "none" =>
         Len(samples') = StableChecks /\ \A k \in 1..StableChecks : samples'[k] # "high"
    /\ run # "none" => run' # "none"
<1> SUFFICES ASSUME IndexInv, [Next]_vars
             PROVE  /\ IndexInv'
                    /\ run = "none" /\ run' # "none" =>
                         Len(samples') = StableChecks /\ \A k \in 1..StableChecks : samples'[k] # "high"
                    /\ run # "none" => run' # "none"
  OBVIOUS
<1> USE DEF IndexInv
<1>1. DispatchInv'
  BY LoadOrIndexes, DispatchInvInductive
<1>2. state = "completed" => state' = "completed"
  BY LoadOrIndexes, StepIsAnAction
     DEF ReadLimit, Register, Park, EndDispatch, AfterFunc, AllDone, StreamEnds, Cancel, OtherPair,
         dispatchVars, Admit, Gate, ReadKnobs, EndLoad, Submit, Resize, Apply
<1>3. CASE UNCHANGED <<run, streak, samples>> /\ lag' \in Lags
  BY <1>1, <1>2, <1>3 DEF StreakInv, LowTail
<1>4. CASE (DispatchNext /\ UNCHANGED indexVars) \/ UNCHANGED vars
  BY <1>3, <1>4 DEF vars, indexVars, streamVars, StreakInv
<1>5. CASE Arrive \/ ApplyEvent
  BY <1>3, <1>5 DEF Arrive, ApplyEvent, StreakInv, Lags
<1>6. ASSUME NEW i \in Indexes, BuildStep(i) PROVE UNCHANGED <<run, streak, samples>> /\ lag' \in Lags
  BY <1>6 DEF BuildStep, TakeSlot, Create, Backoff, streamVars, StreakInv
<1>7. CASE Observe
  <2>1. pc = "streaming" /\ run = "none" /\ UNCHANGED <<lag, state>>
    BY <1>7 DEF Observe, dispatchVars, streamVars
  <2>2. state = "completed"
    BY <2>1 DEF DispatchInv, LoadInv
  <2>3. streak < StableChecks /\ LowTail(streak, samples) /\ lag \in Lags
    BY <2>1 DEF StreakInv
  <2>4. streak' = NewStreak /\ samples' = Latest(Append(samples, lag))
    BY <1>7 DEF Observe
  <2>5. LowTail(streak', samples')
    BY <2>3, <2>4, OneMoreSample DEF NewStreak
  <2>6. streak' \in 0..StableChecks /\ Len(samples') <= StableChecks
    BY <2>5, IndexAssumption DEF LowTail
  <2>7. CASE NewStreak >= StableChecks
    <3>1. streak' = StableChecks /\ run' = "ids"
      BY <1>7, <2>4, <2>5, <2>6, <2>7, IndexAssumption DEF Observe, LowTail
    <3>2. Len(samples') = StableChecks /\ \A k \in 1..StableChecks : samples'[k] # "high"
      BY <2>5, <3>1, IndexAssumption DEF LowTail
    <3> QED BY <1>1, <2>1, <2>2, <2>3, <2>6, <3>1, <3>2 DEF StreakInv
  <2>8. CASE ~(NewStreak >= StableChecks)
    <3>1. streak' < StableChecks /\ run' = run
      BY <1>7, <2>4, <2>5, <2>8, IndexAssumption DEF Observe, LowTail
    <3> QED BY <1>1, <2>1, <2>3, <2>5, <2>6, <3>1 DEF StreakInv
  <2> QED BY <2>7, <2>8
<1>8. CASE Sync \/ Report
  <2>1. run # "none" /\ run' # "none" /\ UNCHANGED <<lag, streak, samples>>
    BY <1>8 DEF Sync, SyncId, SyncSecondary, Report, EndLoop, streamVars
  <2> QED BY <1>1, <1>2, <2>1 DEF StreakInv
<1> QED BY <1>3, <1>4, <1>5, <1>6, <1>7, <1>8 DEF Next

THEOREM StreakIsKept == Spec => []IndexInv
BY IndexInvInit, IndexInvInductive, PTL DEF Spec

-----------------------------------------------------------------------------
(* The builds: which indexes the controller has come to, who has a slot.   *)

Runs == {"none", "ids", "secondary", "waiting", "reported"}
BuildStates == {"none", "queued", "building", "backoff", "ended"}
Working == {i \in Indexes : build[i] \in {"building", "backoff"}}

BuildTypes ==
  /\ pending \in 0..arrived /\ arrived \in 0..MaxEvents
  /\ run \in Runs /\ todo \subseteq Collections /\ unlisted \subseteq Collections
  /\ onTarget \subseteq Indexes /\ failed \subseteq Indexes
  /\ build \in [Indexes -> BuildStates] /\ tries \in [Indexes -> 0..MaxRetries]
  /\ \A i \in Indexes : build[i] = "backoff" => tries[i] < MaxRetries

SlotInv ==
  run # "none" => /\ IsFiniteSet(Working) /\ slots \in Nat
                  /\ slots + Cardinality(Working) = IndexConcurrency

(* No goroutine was launched for an index the controller has not come to.  *)
NotYetLaunched ==
  /\ run = "none" => \A i \in Indexes : build[i] = "none"
  /\ run = "ids" => \A i \in Indexes : i \notin IdIndexes \/ CollOf[i] \in todo => build[i] = "none"
  /\ run = "secondary" => \A i \in Indexes \ IdIndexes : CollOf[i] \in todo => build[i] = "none"

(* One it has come to was found on the target or is built, and no build is *)
(* forgotten when it ends.                                                 *)
CameTo(i) == i \in onTarget \cup failed \/ build[i] \in {"queued", "building", "backoff"}

NothingForgotten ==
  /\ run = "ids" => \A i \in IdIndexes : CollOf[i] \in todo \/ CameTo(i)
  /\ run \in {"secondary", "waiting", "reported"} => \A i \in IdIndexes : CameTo(i)
  /\ run = "secondary" => \A i \in Indexes \ IdIndexes : CollOf[i] \in todo \cup unlisted \/ CameTo(i)
  /\ run \in {"waiting", "reported"} => \A i \in Indexes \ IdIndexes : CollOf[i] \in unlisted \/ CameTo(i)
  /\ \A i \in Indexes : build[i] = "ended" => i \in onTarget \cup failed
  /\ run = "reported" => BuildsEnded

BuildInv == BuildTypes /\ SlotInv /\ NotYetLaunched /\ NothingForgotten

LEMMA LastOne ==
  ASSUME NEW c \in todo, todo \subseteq Collections, Cardinality(todo) = 1
  PROVE  todo = {c}
<1>1. IsFiniteSet(todo) /\ Cardinality(todo \ {c}) = 0 /\ IsFiniteSet(todo \ {c})
  BY DispatchAssumption, FS_Subset, FS_RemoveElement
<1> QED BY <1>1, FS_EmptySet

LEMMA BuildInvInit ==
  ASSUME Init
  PROVE  BuildInv
<1>1. /\ pending = 0 /\ arrived = 0 /\ run = "none" /\ todo = {} /\ unlisted = {} /\ failed = {}
      /\ onTarget \subseteq Indexes
      /\ build = [i \in Indexes |-> "none"] /\ tries = [i \in Indexes |-> 0]
  BY DEF Init
<1>2. 0 \in 0..MaxRetries /\ 0 \in 0..MaxEvents /\ 0 \in 0..0
  BY IndexAssumption
<1>3. build \in [Indexes -> BuildStates] /\ tries \in [Indexes -> 0..MaxRetries]
  BY <1>1, <1>2 DEF BuildStates
<1>4. BuildTypes
  BY <1>1, <1>2, <1>3 DEF BuildTypes, Runs
<1>5. SlotInv /\ NotYetLaunched /\ NothingForgotten
  BY <1>1 DEF SlotInv, NotYetLaunched, NothingForgotten
<1> QED BY <1>4, <1>5 DEF BuildInv

(* The load, the stream, and a sample that does not start the build.       *)
LEMMA OthersKeepBuilds ==
  ASSUME BuildInv, pending' \in 0..arrived', arrived' \in 0..MaxEvents,
         UNCHANGED <<run, todo, unlisted, onTarget, build, tries, slots, failed>>
  PROVE  BuildInv'
<1>1. BuildTypes'
  BY DEF BuildInv, BuildTypes
<1>2. SlotInv'
  BY DEF BuildInv, SlotInv, Working
<1>3. NotYetLaunched' /\ NothingForgotten'
  BY DEF BuildInv, NotYetLaunched, NothingForgotten, CameTo, BuildsEnded
<1> QED BY <1>1, <1>2, <1>3 DEF BuildInv

LEMMA ObserveKeepsBuilds ==
  ASSUME BuildInv, Observe
  PROVE  BuildInv'
<1>1. /\ run = "none" /\ UNCHANGED <<pending, arrived, unlisted, onTarget, build, tries, failed>>
      /\ \/ UNCHANGED <<run, todo, slots>>
         \/ run' = "ids" /\ todo' = Collections /\ slots' = IndexConcurrency
  BY DEF Observe, streamVars
<1>2. \A i \in Indexes : build[i] = "none"
  BY <1>1 DEF BuildInv, NotYetLaunched
<1>3. CASE UNCHANGED <<run, todo, slots>>
  BY <1>1, <1>3, OthersKeepBuilds DEF BuildInv, BuildTypes
<1>4. CASE run' = "ids" /\ todo' = Collections /\ slots' = IndexConcurrency
  <2>1. BuildTypes'
    BY <1>1, <1>4 DEF BuildInv, BuildTypes, Runs
  <2>2. Working' = {}
    BY <1>1, <1>2 DEF Working
  <2>3. SlotInv'
    BY <1>4, <2>2, FS_EmptySet, IndexAssumption DEF SlotInv
  <2>4. NotYetLaunched'
    BY <1>1, <1>2, <1>4 DEF NotYetLaunched
  <2>5. NothingForgotten'
    BY <1>1, <1>2, <1>4, IndexAssumption DEF NothingForgotten
  <2> QED BY <2>1, <2>3, <2>4, <2>5 DEF BuildInv
<1> QED BY <1>1, <1>3, <1>4

(* What a launch does, when no goroutine was launched for these before.    *)
LEMMA LaunchQueues ==
  ASSUME BuildTypes, NEW is \in SUBSET Indexes, Launch(is), \A i \in is : build[i] = "none"
  PROVE  /\ build' \in [Indexes -> BuildStates] /\ Working' = Working
         /\ \A i \in is : build'[i] = "queued"
         /\ \A i \in Indexes \ is : build'[i] = build[i]
<1>1. /\ build' = [i \in Indexes |-> IF i \in is THEN "queued" ELSE build[i]]
      /\ build \in [Indexes -> BuildStates]
  BY DEF Launch, BuildTypes
<1>2. build' \in [Indexes -> BuildStates]
  BY <1>1 DEF BuildStates
<1>3. Working' = Working
  BY <1>1 DEF Working
<1> QED BY <1>1, <1>2, <1>3

LEMMA SyncIdKeepsBuilds ==
  ASSUME BuildInv, NEW c \in Collections, SyncId(c)
  PROVE  BuildInv'
<1>1. /\ run = "ids" /\ c \in todo
      /\ UNCHANGED <<pending, arrived, unlisted, onTarget, tries, slots, failed>>
      /\ \/ todo = {c} /\ run' = "secondary" /\ todo' = Collections
         \/ run' = "ids" /\ todo' = todo \ {c}
  BY LastOne DEF SyncId, EndLoop, streamVars, BuildInv, BuildTypes
<1>2. PICK there \in SUBSET onTarget : Launch({i \in IdIndexes \ there : CollOf[i] = c})
  BY DEF SyncId, Listed
<1> DEFINE is == {i \in IdIndexes \ there : CollOf[i] = c}
<1>3. is \in SUBSET Indexes /\ \A i \in is : build[i] = "none"
  BY <1>1, IndexAssumption DEF BuildInv, NotYetLaunched
<1>4. /\ build' \in [Indexes -> BuildStates] /\ Working' = Working
      /\ \A i \in is : build'[i] = "queued"
      /\ \A i \in Indexes \ is : build'[i] = build[i]
  BY <1>2, <1>3, LaunchQueues DEF BuildInv
<1>5. BuildTypes'
  BY <1>1, <1>4 DEF BuildInv, BuildTypes, Runs
<1>6. SlotInv'
  BY <1>1, <1>4 DEF BuildInv, SlotInv
<1>7. NotYetLaunched'
  BY <1>1, <1>4, IndexAssumption DEF BuildInv, NotYetLaunched
<1>8. \A i \in IdIndexes : CollOf[i] \in todo \ {c} \/ CameTo(i)'
  <2>1. \A i \in IdIndexes : CollOf[i] \in todo \/ CameTo(i)
    BY <1>1 DEF BuildInv, NothingForgotten
  <2>2. \A i \in IdIndexes : CollOf[i] = c => CameTo(i)'
    BY <1>1, <1>4 DEF CameTo
  <2>3. \A i \in IdIndexes : CollOf[i] # c => CameTo(i) = CameTo(i)'
    BY <1>1, <1>4, IndexAssumption DEF CameTo
  <2> QED BY <2>1, <2>2, <2>3
<1>9. \A i \in Indexes : build'[i] = "ended" => i \in onTarget' \cup failed'
  BY <1>1, <1>4 DEF BuildInv, NothingForgotten
<1>10. NothingForgotten'
  BY <1>1, <1>8, <1>9, IndexAssumption DEF NothingForgotten
<1> QED BY <1>5, <1>6, <1>7, <1>10 DEF BuildInv

LEMMA SyncSecondaryKeepsBuilds ==
  ASSUME BuildInv, NEW c \in Collections, SyncSecondary(c)
  PROVE  BuildInv'
<1>1. /\ run = "secondary" /\ c \in todo /\ todo' = todo \ {c}
      /\ UNCHANGED <<pending, arrived, onTarget, tries, slots, failed>>
      /\ unlisted' \in {unlisted, unlisted \cup {c}}
      /\ \/ todo = {c} /\ run' = "waiting"
         \/ run' = "secondary"
  BY LastOne DEF SyncSecondary, EndLoop, streamVars, BuildInv, BuildTypes
<1>2. PICK is \in SUBSET (Indexes \ IdIndexes) :
        /\ Launch(is) /\ \A i \in is : CollOf[i] = c
        /\ c \in unlisted' \/ \A i \in Indexes \ IdIndexes : CollOf[i] = c => i \in is \cup onTarget
  <2>1. CASE UNCHANGED build /\ c \in unlisted'
    <3>1. Launch({})
      BY <2>1 DEF Launch, BuildInv, BuildTypes
    <3> QED BY <2>1, <3>1
  <2>2. CASE \E there \in Listed(c) : Launch({i \in (Indexes \ IdIndexes) \ there : CollOf[i] = c})
    <3>1. PICK there \in SUBSET onTarget : Launch({i \in (Indexes \ IdIndexes) \ there : CollOf[i] = c})
      BY <2>2 DEF Listed
    <3> QED BY <3>1
  <2> QED BY <2>1, <2>2 DEF SyncSecondary
<1>3. \A i \in is : build[i] = "none"
  BY <1>1, <1>2 DEF BuildInv, NotYetLaunched
<1>4. /\ build' \in [Indexes -> BuildStates] /\ Working' = Working
      /\ \A i \in is : build'[i] = "queued"
      /\ \A i \in Indexes \ is : build'[i] = build[i]
  BY <1>2, <1>3, LaunchQueues DEF BuildInv
<1>5. BuildTypes'
  BY <1>1, <1>4 DEF BuildInv, BuildTypes, Runs
<1>6. SlotInv'
  BY <1>1, <1>4 DEF BuildInv, SlotInv
<1>7. NotYetLaunched'
  BY <1>1, <1>2, <1>4 DEF BuildInv, NotYetLaunched
<1>8. \A i \in Indexes : CameTo(i) => CameTo(i)'
  BY <1>1, <1>3, <1>4 DEF CameTo
<1>9. \A i \in Indexes \ IdIndexes : CollOf[i] \in (todo \ {c}) \cup unlisted' \/ CameTo(i)'
  <2>1. \A i \in Indexes \ IdIndexes : CollOf[i] \in todo \cup unlisted \/ CameTo(i)
    BY <1>1 DEF BuildInv, NothingForgotten
  <2>2. c \in unlisted' \/ \A i \in Indexes \ IdIndexes : CollOf[i] = c => CameTo(i)'
    BY <1>1, <1>2, <1>4 DEF CameTo
  <2> QED BY <1>1, <1>8, <2>1, <2>2
<1>10. \A i \in Indexes : build'[i] = "ended" => i \in onTarget' \cup failed'
  BY <1>1, <1>4 DEF BuildInv, NothingForgotten
<1>11. \A i \in IdIndexes : CameTo(i)'
  BY <1>1, <1>8, IndexAssumption DEF BuildInv, NothingForgotten
<1>12. NothingForgotten'
  BY <1>1, <1>9, <1>10, <1>11 DEF NothingForgotten
<1> QED BY <1>5, <1>6, <1>7, <1>12 DEF BuildInv

LEMMA ReportKeepsBuilds ==
  ASSUME BuildInv, Report
  PROVE  BuildInv'
<1>1. /\ run = "waiting" /\ BuildsEnded /\ run' = "reported"
      /\ UNCHANGED <<pending, arrived, todo, unlisted, onTarget, build, tries, slots, failed>>
  BY DEF Report, streamVars, buildVars
<1>2. BuildTypes'
  BY <1>1 DEF BuildInv, BuildTypes, Runs
<1>3. SlotInv' /\ NotYetLaunched'
  BY <1>1 DEF BuildInv, SlotInv, Working, NotYetLaunched
<1>4. NothingForgotten'
  BY <1>1 DEF BuildInv, NothingForgotten, CameTo, BuildsEnded
<1> QED BY <1>2, <1>3, <1>4 DEF BuildInv

(* A goroutine takes a slot, gives it back when it ends, and ends only     *)
(* with its index built or failed.                                         *)
LEMMA BuildStepKeepsBuilds ==
  ASSUME BuildInv, NEW i \in Indexes, BuildStep(i)
  PROVE  BuildInv'
<1>1. PICK to \in {"building", "backoff", "ended"} :
        /\ build' = [build EXCEPT ![i] = to]
        /\ to = "ended" => i \in onTarget' \cup failed'
        /\ \/ build[i] = "queued" /\ to = "building" /\ slots > 0 /\ slots' = slots - 1
           \/ build[i] \in {"building", "backoff"} /\ to = "ended" /\ slots' = slots + 1
           \/ build[i] \in {"building", "backoff"} /\ to # "ended" /\ slots' = slots
        /\ to = "backoff" => tries[i] < MaxRetries
        /\ \/ tries' = tries
           \/ to = "building" /\ tries[i] < MaxRetries /\ tries' = [tries EXCEPT ![i] = tries[i] + 1]
        /\ onTarget \subseteq onTarget' /\ onTarget' \subseteq onTarget \cup {i}
        /\ failed \subseteq failed' /\ failed' \subseteq failed \cup {i}
  <2>1. CASE TakeSlot(i)
    BY <2>1 DEF TakeSlot
  <2>2. CASE Create(i)
    BY <2>2 DEF Create, EndBuild, MayRetry
  <2>3. CASE Backoff(i)
    <3>1. build[i] = "backoff" /\ tries[i] < MaxRetries
      BY <2>3 DEF Backoff, BuildInv, BuildTypes
    <3> QED BY <2>3, <3>1 DEF Backoff, EndBuild
  <2> QED BY <2>1, <2>2, <2>3 DEF BuildStep
<1>2. UNCHANGED <<pending, arrived, run, todo, unlisted>>
  BY DEF BuildStep, TakeSlot, Create, Backoff, streamVars
<1>3. /\ build \in [Indexes -> BuildStates] /\ tries \in [Indexes -> 0..MaxRetries] /\ MaxRetries \in Nat
      /\ onTarget \subseteq Indexes /\ failed \subseteq Indexes
  BY IndexAssumption DEF BuildInv, BuildTypes
<1>4. build' \in [Indexes -> BuildStates]
  BY <1>1, <1>3 DEF BuildStates
<1>5. tries' \in [Indexes -> 0..MaxRetries]
  <2>1. tries[i] < MaxRetries => tries[i] + 1 \in 0..MaxRetries
    BY <1>3
  <2> QED BY <1>1, <1>3, <2>1
<1>6. \A j \in Indexes : build'[j] = "backoff" => tries'[j] < MaxRetries
  <2>1. \A j \in Indexes : build[j] = "backoff" => tries[j] < MaxRetries
    BY DEF BuildInv, BuildTypes
  <2> QED BY <1>1, <1>3, <2>1
<1>7. BuildTypes'
  BY <1>1, <1>2, <1>3, <1>4, <1>5, <1>6 DEF BuildInv, BuildTypes
<1>8. run # "none"
  BY <1>1 DEF BuildInv, NotYetLaunched
<1>9. SlotInv'
  <2>1. /\ IsFiniteSet(Working) /\ slots \in Nat /\ Cardinality(Working) \in Nat
        /\ slots + Cardinality(Working) = IndexConcurrency
    BY <1>8, FS_CardinalityType DEF BuildInv, SlotInv
  <2>2. CASE build[i] = "queued" /\ to = "building" /\ slots > 0 /\ slots' = slots - 1
    <3>1. i \notin Working /\ Working' = Working \cup {i}
      BY <1>1, <1>3, <2>2 DEF Working
    <3>2. IsFiniteSet(Working') /\ Cardinality(Working') = Cardinality(Working) + 1
      BY <2>1, <3>1, FS_AddElement
    <3> QED BY <2>1, <2>2, <3>2 DEF SlotInv
  <2>3. CASE build[i] \in {"building", "backoff"} /\ to = "ended" /\ slots' = slots + 1
    <3>1. i \in Working /\ Working' = Working \ {i}
      BY <1>1, <1>3, <2>3 DEF Working
    <3>2. IsFiniteSet(Working') /\ Cardinality(Working') = Cardinality(Working) - 1
      BY <2>1, <3>1, FS_RemoveElement
    <3> QED BY <2>1, <2>3, <3>2 DEF SlotInv
  <2>4. CASE build[i] \in {"building", "backoff"} /\ to # "ended" /\ slots' = slots
    <3>1. Working' = Working
      BY <1>1, <1>3, <2>4 DEF Working
    <3> QED BY <2>1, <2>4, <3>1 DEF SlotInv
  <2> QED BY <1>1, <2>2, <2>3, <2>4
<1>10. NotYetLaunched'
  <2>1. build[i] # "none" /\ \A j \in Indexes : build[j] = "none" => build'[j] = "none"
    BY <1>1, <1>3
  <2> QED BY <1>2, <1>8, <2>1, IndexAssumption DEF BuildInv, NotYetLaunched
<1>11. NothingForgotten'
  <2>1. \A j \in Indexes : CameTo(j) => CameTo(j)'
    BY <1>1, <1>3 DEF CameTo
  <2>2. \A j \in Indexes : build'[j] = "ended" => j \in onTarget' \cup failed'
    BY <1>1, <1>3 DEF BuildInv, NothingForgotten
  <2>3. run # "reported"
    BY <1>1 DEF BuildInv, NothingForgotten, BuildsEnded
  <2> QED BY <1>2, <1>8, <2>1, <2>2, <2>3, IndexAssumption DEF BuildInv, NothingForgotten
<1> QED BY <1>7, <1>9, <1>10, <1>11 DEF BuildInv

LEMMA BuildInvInductive ==
  ASSUME BuildInv, [Next]_vars
  PROVE  BuildInv'
<1>1. /\ pending \in 0..arrived /\ arrived \in 0..MaxEvents /\ MaxEvents \in Nat
  BY IndexAssumption DEF BuildInv, BuildTypes
<1>2. CASE (DispatchNext /\ UNCHANGED indexVars) \/ UNCHANGED vars
  BY <1>1, <1>2, OthersKeepBuilds DEF vars, indexVars, streamVars, buildVars
<1>3. CASE Arrive
  BY <1>1, <1>3, OthersKeepBuilds DEF Arrive, buildVars
<1>4. CASE ApplyEvent
  BY <1>1, <1>4, OthersKeepBuilds DEF ApplyEvent, buildVars
<1>5. CASE Observe
  BY <1>5, ObserveKeepsBuilds
<1>6. CASE Sync
  BY <1>6, SyncIdKeepsBuilds, SyncSecondaryKeepsBuilds DEF Sync
<1>7. CASE Report
  BY <1>7, ReportKeepsBuilds
<1>8. ASSUME NEW i \in Indexes, BuildStep(i) PROVE BuildInv'
  BY <1>8, BuildStepKeepsBuilds
<1> QED BY <1>2, <1>3, <1>4, <1>5, <1>6, <1>7, <1>8 DEF Next

THEOREM BuildsAreTracked == Spec => []BuildInv
  BY BuildInvInit, BuildInvInductive, PTL DEF Spec

(* When the controller reports, no index of a collection that could be     *)
(* listed is missing from both the target and the list of the failed ones, *)
(* however the builds were interleaved, refused and cut short.             *)
THEOREM NoFailureIsUnreported == Spec => []FailuresAreReported
<1>1. ASSUME BuildInv PROVE FailuresAreReported
  BY <1>1, IndexAssumption DEF BuildInv, NothingForgotten, CameTo, BuildsEnded, FailuresAreReported
<1> QED BY <1>1, BuildsAreTracked, PTL

(* The types of the build, and that its semaphore never has more or fewer  *)
(* slots than IndexConcurrency, taken or free.                             *)
THEOREM IndexTypeCorrect == Spec => []IndexTypeOK
<1>1. ASSUME IndexInv, BuildInv PROVE IndexTypeOK
  <2>1. DispatchTypeOK
    BY <1>1, DispatchIsTyped DEF IndexInv
  <2>2. streak \in 0..StableChecks /\ Len(samples) <= StableChecks
    BY <1>1 DEF IndexInv, StreakInv
  <2> QED BY <1>1, <2>1, <2>2 DEF IndexInv, StreakInv, Lags, BuildInv, BuildTypes, SlotInv, Runs, Working, IndexTypeOK
<1> QED BY <1>1, BuildsAreTracked, StreakIsKept, PTL

-----------------------------------------------------------------------------

(* The state file says completed, and indexes are built, only after every  *)
(* collection has been loaded to its end.                                  *)
THEOREM IndexesFollowTheLoad == Spec => []NothingFollowsAnUnfinishedLoad
<1>1. IndexInv => NothingFollowsAnUnfinishedLoad
  BY DEF IndexInv, DispatchInv, LoadInv, NothingFollowsAnUnfinishedLoad
<1> QED BY <1>1, StreakIsKept, PTL

(* The build starts once, after StableChecks samples without a high lag.   *)
THEOREM BuildsWaitForLag == Spec => BuildWaitsForLag
<1>1. IndexInv /\ [Next]_vars =>
        [/\ run = "none" /\ run' # "none" =>
              Len(samples') = StableChecks /\ \A k \in 1..StableChecks : samples'[k] # "high"
         /\ run # "none" => run' # "none"]_vars
  BY IndexInvInductive
<1> QED BY <1>1, StreakIsKept, PTL DEF Spec, BuildWaitsForLag
=============================================================================
