-------------------------- MODULE LifecycleProofs --------------------------
(***************************************************************************)
(* Proofs about ReplicationLifecycle, for every number of documents, every *)
(* log of the source, every start time, every mode and any number of       *)
(* failures, crashes and restarts: the files a crash would leave account   *)
(* for every document, and a pair that streams is as current as it claims. *)
(***************************************************************************)
EXTENDS ReplicationLifecycle, FiniteSetTheorems, WellFoundedInduction, TLAPS

-----------------------------------------------------------------------------
(* The inductive invariant.                                                *)

Phases == {"initial", "incremental"}
DlqFiles == [exists : BOOLEAN,
             fails  : SUBSET [doc : Docs, version : Positions, phase : Phases],
             phases : SUBSET Phases]

Runs(h) == [token : {NoToken} \cup 0..h, state : Statuses, reset : BOOLEAN,
            from : {NoTime} \cup Positions, cursor : Positions,
            done : SUBSET Docs, wrote : BOOLEAN]

\* The versions of a queue's failures have happened.
HasHappened(file) == \A r \in file.fails : r.version <= head

PlainTypes ==
  /\ globalToken \in {NoToken} \cup 0..head
  /\ partToken \in {NoFile, NoToken} \cup 0..head
  /\ migState \in Statuses /\ saved \in 0..NumDocs
  /\ dlq \in DlqFiles /\ retryTemp \in DlqFiles
  /\ HasHappened(dlq) /\ HasHappened(retryTemp)
  /\ head \in Positions /\ floor \in 0..head
  /\ target \in [Docs -> {Absent} \cup 0..head]
  /\ mode \in Modes /\ writtenOff \in SUBSET Docs
  /\ run \in Runs(head)
  /\ failures \in 0..MaxFailures /\ mishaps \in 0..MaxMishaps

Accounted == Retryable \cup writtenOff

\* The memory of the process agrees with the files it was loaded from.
BeforeCopy == {"gates", "capture", "saveGlobal", "begin"}
Opening == {"gates", "saveGlobal", "begin", "copy", "outcome", "open"}
InRetry == {"retry", "retryRemove"}

MemoryInv ==
  /\ pc \in {"dlqCheck", "scan", "retryRename", "retry"} \cup BeforeCopy
       => run.state = migState
  /\ pc \in {"dlqCheck", "scan"} => run.token = globalToken
  /\ pc \in Opening /\ run.token # NoToken => partToken = run.token
  /\ pc \in {"gates", "capture", "begin", "copy", "outcome", "open"}
       /\ run.token = NoToken => partToken = NoFile /\ globalToken = NoToken
  /\ pc = "saveGlobal" => run.token # NoToken
  /\ pc \in {"begin", "copy", "outcome", "open"}
       /\ run.token = NoToken => run.from # NoTime
  /\ pc = "capture" => run.token = NoToken
  /\ pc = "lostState" => globalToken = NoToken
  /\ pc = "retryRename" => run.done = {}
  /\ pc = "capture" /\ mode = "live" => migState \notin Finished
  /\ pc = "open" => migState \in Finished

ModeInv ==
  /\ mode = "live" => migState # "skipped"
  /\ mode = "live-only" => \A d \in Docs : target[d] # Absent

\* The token of the global file is never ahead of the partition's.
TokensInv ==
  /\ partToken # NoFile => globalToken <= partToken
  /\ pc = "streaming" =>
       /\ partToken # NoFile /\ partToken <= run.cursor
       /\ run.from <= run.cursor
       /\ run.cursor > run.from => run.cursor <= head

\* What the copy or its checkpoint takes for dealt with.
DealtWith ==
  1..saved \cup (IF pc = "copy" THEN run.done ELSE {})
           \cup (IF pc = "outcome" THEN Docs ELSE {})
DealtInv == \A d \in DealtWith : target[d] # Absent \/ d \in Accounted

\* The changes up to here will not be replayed.
Tok == IF pc = "streaming" THEN run.cursor ELSE DiskToken

OneEach(file) == \A r, s \in file.fails : r.doc = s.doc => r = s

\* Retrying r takes its document no further back than the token.
Safe(r, p) ==
  \/ ResyncFromSource
  \/ r.doc \in writtenOff
  \/ r.version >= Version(r.doc, p)

\* A failure of an interrupted retry may have been overtaken: by a change
\* that went through, or by a newer failure.
Overtaken(r) ==
  \/ target[r.doc] > r.version
  \/ \E s \in dlq.fails \ retryTemp.fails : s.doc = r.doc

QueueInv ==
  /\ OneEach(dlq) /\ OneEach(retryTemp)
  /\ pc = "retryRename" => retryTemp = NoDlq
  /\ pc \in InRetry => dlq.fails \subseteq retryTemp.fails
  /\ \A r \in dlq.fails : Safe(r, Tok)
  /\ \A r \in retryTemp.fails :
       Safe(r, Tok) \/ (pc \notin InRetry /\ Overtaken(r))

\* A retry brings its documents up to the token, or keeps a record of them.
Caught(d) ==
  \/ d \in FailedDocs(dlq) \cup writtenOff
  \/ target[d] # Absent /\ target[d] >= Version(d, DiskToken)

RetryInv ==
  /\ pc = "retry" => \A d \in FailedDocs(retryTemp) \cap run.done : Caught(d)
  /\ pc = "retryRemove" => \A d \in FailedDocs(retryTemp) : Caught(d)

\* Document d is as new as p changes make it, or is accounted for.
Covered(d, p) == d \in Accounted \/ target[d] >= Version(d, p)

\* A restart does not copy d.
PassedBy(d) == migState \in Finished \/ d < saved \/ target[d] # Absent

LossInv ==
  DiskToken >= 0 => \A d \in Docs : PassedBy(d) => Covered(d, DiskToken)
FollowInv ==
  pc = "streaming" => \A d \in Docs : Covered(d, run.cursor)

LifecycleInv ==
  /\ PlainTypes /\ MemoryInv /\ ModeInv /\ TokensInv /\ DealtInv
  /\ QueueInv /\ RetryInv /\ LossInv /\ FollowInv

-----------------------------------------------------------------------------
(* Versions of documents.                                                  *)

LEMMA LeastNumber ==
  ASSUME NEW S \in SUBSET Nat, S # {}
  PROVE  \E m \in S : \A x \in S : m <= x
<1> DEFINE less == {p \in Nat \X Nat : p[1] < p[2]}
<1>1. IsWellFoundedOn(less, Nat)
  <2>1. OpToRel(<, Nat) = less
    BY DEF OpToRel
  <2> QED BY <2>1, NatLessThanWellFounded
<1>2. \E m \in S : \A x \in S : <<x, m>> \notin less
  BY <1>1, WFMin
<1>3. \A x, m \in Nat : <<x, m>> \in less \/ m <= x
  OBVIOUS
<1> HIDE DEF less
<1> QED BY <1>2, <1>3

LEMMA GreatestNumber ==
  ASSUME NEW p \in Nat, NEW S \in SUBSET (1..p), S # {}
  PROVE  \E m \in S : \A x \in S : x <= m
<1> DEFINE T == {p - x : x \in S}
<1>1. T \in SUBSET Nat /\ T # {}
  <2>1. \A x \in S : p - x \in Nat
    OBVIOUS
  <2> QED BY <2>1
<1>2. PICK m \in T : \A x \in T : m <= x
  BY <1>1, LeastNumber
<1>3. PICK q \in S : m = p - q
  BY <1>2
<1>4. \A x \in S : m <= p - x
  BY <1>2
<1> HIDE DEF T
<1> QED BY <1>3, <1>4

\* The version after p changes is the last of them that is about d.
LEMMA VersionIsLast ==
  ASSUME NEW d, NEW p \in Int
  PROVE  /\ Version(d, p) \in Nat
         /\ Version(d, p) \in 0..p \/ (p < 0 /\ Version(d, p) = 0)
         /\ Version(d, p) = 0 \/ Log[Version(d, p)] = d
         /\ \A q \in 1..p : Log[q] = d => q <= Version(d, p)
<1> DEFINE changes == {q \in 1..p : Log[q] = d}
<1>1. CASE changes = {}
  <2>1. Version(d, p) = 0
    BY <1>1 DEF Version
  <2> QED BY <1>1, <2>1
<1>2. CASE changes # {}
  <2>1. changes \in SUBSET (1..p) /\ p \in Nat
    BY <1>2
  <2>2. \E q \in changes : \A r \in changes : r <= q
    <3> HIDE DEF changes
    <3> QED BY <1>2, <2>1, GreatestNumber
  <2>3. Version(d, p) \in changes /\ \A r \in changes : r <= Version(d, p)
    <3>1. Version(d, p) = CHOOSE q \in changes : \A r \in changes : r <= q
      BY <1>2 DEF Version
    <3> HIDE DEF changes
    <3> QED BY <2>2, <3>1
  <2> QED BY <2>1, <2>3
<1> QED BY <1>1, <1>2

LEMMA VersionsGrow ==
  ASSUME NEW d, NEW p \in Int, NEW q \in Int, p <= q
  PROVE  Version(d, p) <= Version(d, q)
BY VersionIsLast

LEMMA VersionOfNext ==
  ASSUME NEW d, NEW p \in Nat
  PROVE  Version(d, p + 1) = IF Log[p + 1] = d THEN p + 1 ELSE Version(d, p)
<1>1. /\ Version(d, p) \in 0..p
      /\ Version(d, p) = 0 \/ Log[Version(d, p)] = d
      /\ \A q \in 1..p : Log[q] = d => q <= Version(d, p)
  BY VersionIsLast
<1>2. /\ Version(d, p + 1) \in 0..(p + 1)
      /\ Version(d, p + 1) = 0 \/ Log[Version(d, p + 1)] = d
      /\ \A q \in 1..(p + 1) : Log[q] = d => q <= Version(d, p + 1)
  <2>1. p + 1 \in Nat
    OBVIOUS
  <2> QED BY <2>1, VersionIsLast
<1> QED BY <1>1, <1>2

-----------------------------------------------------------------------------
(* The checkpoint of the copy and the dead letter queue.                   *)

LEMMA PrefixIsDone ==
  ASSUME LifecycleAssumption
  PROVE  CopiedPrefix \in 0..NumDocs /\ 1..CopiedPrefix \subseteq run.done
<1> DEFINE open == {d \in Docs : d \notin run.done}
<1>1. NumDocs \in Nat
  BY DEF LifecycleAssumption
<1>2. \E k \in 0..NumDocs :
         1..k \subseteq run.done /\ (k < NumDocs => k + 1 \notin run.done)
  <2>1. CASE open = {}
    <3>1. 1..NumDocs \subseteq run.done
      BY <2>1 DEF Docs
    <3> QED BY <1>1, <3>1
  <2>2. CASE open # {}
    <3>1. open \in SUBSET Nat
      BY <1>1 DEF Docs
    <3>2. PICK m \in open : \A x \in open : m <= x
      <4> HIDE DEF open
      <4> QED BY <2>2, <3>1, LeastNumber
    <3>3. m \in 1..NumDocs /\ m \notin run.done
      BY <3>2 DEF Docs
    <3>4. \A x \in 1..(m - 1) : x \in run.done
      BY <1>1, <3>2, <3>3 DEF Docs
    <3> HIDE DEF open
    <3>5. m - 1 \in 0..NumDocs /\ (m - 1) + 1 = m
      BY <1>1, <3>3
    <3> QED BY <3>3, <3>4, <3>5
  <2> QED BY <2>1, <2>2
<1> QED BY <1>2 DEF CopiedPrefix

LEMMA EmptyQueues ==
  /\ NoDlq \in DlqFiles /\ EmptyDlq \in DlqFiles
  /\ NoDlq.fails = {} /\ EmptyDlq.fails = {}
BY DEF NoDlq, EmptyDlq, DlqFiles

LEMMA OpenedQueue ==
  ASSUME NEW f \in DlqFiles
  PROVE  Opened(f) \in DlqFiles /\ Opened(f).fails = f.fails
BY DEF Opened, DlqFiles

LEMMA FailureIsWritten ==
  ASSUME NEW f \in DlqFiles, NEW d \in Docs, NEW v \in Positions, NEW ph \in Phases
  PROVE  /\ WriteFailed(f, d, v, ph) \in DlqFiles
         /\ WriteFailed(f, d, v, ph).fails =
              {r \in f.fails : r.doc # d} \cup {[doc |-> d, version |-> v, phase |-> ph]}
         /\ OneEach(f) => OneEach(WriteFailed(f, d, v, ph))
<1> DEFINE g == WriteFailed(f, d, v, ph)
           one == [doc |-> d, version |-> v, phase |-> ph]
<1>1. g.fails = {r \in f.fails : r.doc # d} \cup {one}
  BY DEF WriteFailed, DlqFiles
<1>2. g \in DlqFiles
  <2>1. PICK A, B : /\ A = {r \in f.fails : r.doc # d} \cup {one}
                    /\ B = f.phases \cup {ph}
    OBVIOUS
  <2>2. A \in SUBSET [doc : Docs, version : Positions, phase : Phases] /\ B \in SUBSET Phases
    BY <2>1 DEF DlqFiles
  <2>3. g = [f EXCEPT !.fails = A, !.phases = B]
    BY <2>1 DEF WriteFailed
  <2> QED BY <2>2, <2>3 DEF DlqFiles
<1>3. one.doc = d
  OBVIOUS
<1>4. OneEach(f) => OneEach(g)
  <2> HIDE DEF one, g
  <2> QED BY <1>1, <1>3 DEF OneEach
<1> QED BY <1>1, <1>2, <1>4

LEMMA FailureIsResolved ==
  ASSUME NEW f \in DlqFiles, NEW d
  PROVE  /\ WriteResolved(f, d) \in DlqFiles
         /\ WriteResolved(f, d).fails = {r \in f.fails : r.doc # d}
         /\ OneEach(f) => OneEach(WriteResolved(f, d))
<1>1. /\ WriteResolved(f, d) \in DlqFiles
      /\ WriteResolved(f, d).fails = {r \in f.fails : r.doc # d}
  BY DEF WriteResolved, DlqFiles
<1> QED BY <1>1 DEF OneEach

-----------------------------------------------------------------------------
(* Steps that leave the documents and their failures alone.                *)

LEMMA Statics ==
  /\ NumDocs \in Nat /\ Docs = 1..NumDocs /\ Len(Log) \in Nat /\ Positions = 0..Len(Log)
  /\ \A q \in 1..Len(Log) : Log[q] \in Docs
  /\ \A t \in StartTimes : t \in Positions
  /\ \A m \in Modes : m \in {"live", "live-only"}
<1>1. Log \in Seq(Docs)
  BY LifecycleAssumption DEF LifecycleAssumption
<1>2. Len(Log) \in Nat /\ \A q \in 1..Len(Log) : Log[q] \in Docs
  BY <1>1
<1> QED BY <1>2, LifecycleAssumption DEF LifecycleAssumption, Docs, Positions

LEMMA TokIsInt ==
  ASSUME LifecycleInv
  PROVE  /\ Tok \in Int /\ DiskToken \in {NoToken} \cup 0..head /\ DiskToken <= Tok
         /\ head \in Nat
<1>1. head \in Nat
  BY Statics DEF LifecycleInv, PlainTypes
<1>2. DiskToken \in {NoToken} \cup 0..head
  BY <1>1 DEF LifecycleInv, PlainTypes, DiskToken, NoFile, NoToken
<1>3. run.cursor \in Nat
  BY Statics DEF LifecycleInv, PlainTypes, Runs
<1> QED
  BY <1>1, <1>2, <1>3 DEF LifecycleInv, TokensInv, PlainTypes, Tok, DiskToken, NoFile, NoToken

LEMMA SafeBelow ==
  ASSUME NEW r, NEW p \in Int, NEW q \in Int, q <= p, r.version \in Int, Safe(r, p)
  PROVE  Safe(r, q)
BY VersionsGrow, VersionIsLast DEF Safe

LEMMA CoveredBelow ==
  ASSUME NEW d, NEW p \in Int, NEW q \in Int, q <= p, target[d] \in Int, Covered(d, p)
  PROVE  Covered(d, q)
BY VersionsGrow, VersionIsLast DEF Covered

LEMMA VersionsAreInts ==
  ASSUME LifecycleInv
  PROVE  /\ \A r \in dlq.fails \cup retryTemp.fails :
              r.version \in Nat /\ r.version <= head /\ r.doc \in Docs
         /\ \A d \in Docs : target[d] \in Int /\ target[d] <= head
<1>1. /\ dlq.fails \in SUBSET [doc : Docs, version : Positions, phase : Phases]
      /\ retryTemp.fails \in SUBSET [doc : Docs, version : Positions, phase : Phases]
  BY DEF LifecycleInv, PlainTypes, DlqFiles
<1>2. \A r \in dlq.fails \cup retryTemp.fails : r.version \in Nat /\ r.doc \in Docs
  BY <1>1, Statics
<1>3. \A d \in Docs : target[d] \in Int /\ target[d] <= head
  BY TokIsInt DEF LifecycleInv, PlainTypes, Absent
<1> QED BY <1>2, <1>3 DEF LifecycleInv, PlainTypes, HasHappened

LEMMA QuietStep ==
  ASSUME LifecycleInv,
         target' = target, retryTemp' = retryTemp,
         dlq'.fails \subseteq dlq.fails, writtenOff \subseteq writtenOff',
         \A r \in dlq.fails : r \in dlq'.fails \/ r.doc \in writtenOff',
         DealtWith' \subseteq DealtWith,
         pc' \notin InRetry \cup {"streaming", "retryRename"},
         DiskToken' \in Int, DiskToken' <= Tok,
         pc # "streaming" => \A d \in Docs : PassedBy(d)' => PassedBy(d) \/ d \in Accounted
  PROVE  DealtInv' /\ QueueInv' /\ RetryInv' /\ LossInv' /\ FollowInv'
<1>1. Accounted \subseteq Accounted'
  BY DEF Accounted, Retryable, FailedDocs
<1>2. Tok' = DiskToken' /\ Tok \in Int /\ DiskToken \in Int /\ DiskToken <= Tok
  BY TokIsInt DEF Tok, NoToken
<1>3. DealtInv'
  BY <1>1 DEF LifecycleInv, DealtInv
<1>4. QueueInv'
  <2>1. OneEach(dlq)' /\ OneEach(retryTemp)'
    BY DEF LifecycleInv, QueueInv, OneEach
  <2>2. \A r \in dlq.fails \cup retryTemp.fails : Safe(r, Tok) => Safe(r, Tok)'
    <3>1. \A r \in dlq.fails \cup retryTemp.fails : Safe(r, Tok) => Safe(r, DiskToken')
      BY <1>2, SafeBelow, VersionsAreInts
    <3> QED BY <1>2, <3>1 DEF Safe
  <2>3. \A r : Overtaken(r) => Overtaken(r)' \/ Safe(r, Tok)'
    BY DEF Overtaken, Safe
  <2> QED BY <2>1, <2>2, <2>3 DEF LifecycleInv, QueueInv, InRetry
<1>5. RetryInv'
  BY DEF RetryInv, InRetry
<1>6. LossInv'
  <2>1. SUFFICES ASSUME DiskToken' >= 0, NEW d \in Docs, PassedBy(d)'
                 PROVE  Covered(d, DiskToken)'
    BY DEF LossInv
  <2>2. Covered(d, Tok)
    <3>1. CASE pc = "streaming"
      BY <3>1 DEF LifecycleInv, FollowInv, Tok
    <3>2. CASE pc # "streaming"
      BY <1>2, <2>1, <3>2 DEF LifecycleInv, LossInv, Tok, Covered
    <3> QED BY <3>1, <3>2
  <2>3. Covered(d, DiskToken')
    BY <1>2, <2>2, CoveredBelow, VersionsAreInts
  <2> QED BY <1>1, <2>3 DEF Covered
<1>7. FollowInv'
  BY DEF FollowInv
<1> QED BY <1>3, <1>4, <1>5, <1>6, <1>7

-----------------------------------------------------------------------------
(* The steps one by one.                                                   *)

LEMMA IdleIsTyped ==
  /\ \A h \in Nat : Idle \in Runs(h)
  /\ Idle.token = NoToken /\ Idle.state = "none" /\ Idle.from = NoTime
  /\ Idle.done = {}
<1>1. PICK no : no = FALSE
  OBVIOUS
<1>2. Idle = [token |-> NoToken, state |-> "none", reset |-> no, from |-> NoTime,
              cursor |-> 0, done |-> {}, wrote |-> no]
  BY <1>1 DEF Idle
<1>3. no \in BOOLEAN
  BY <1>1
<1> QED BY <1>2, <1>3, Statics DEF Runs, Statuses

LEMMA StartLiveKeeps ==
  ASSUME LifecycleInv, StartLive
  PROVE  LifecycleInv'
<1>1. PICK t \in StartTimes \cup {NoTime} :
        run' = [Idle EXCEPT !.token = globalToken, !.state = migState, !.from = t]
  BY DEF StartLive
<1>2. /\ run'.token = globalToken /\ run'.state = migState /\ run'.from = t
      /\ run' \in Runs(head)
  BY <1>1, Statics, IdleIsTyped, TokIsInt DEF LifecycleInv, PlainTypes, Runs
<1>3. PlainTypes'
  BY <1>2 DEF LifecycleInv, PlainTypes, StartLive, HasHappened, files, tokenFiles, dlqFiles, world, bounds
<1>4. MemoryInv'
  BY <1>2 DEF LifecycleInv, MemoryInv, StartLive, files, tokenFiles, BeforeCopy, Opening
<1>5. ModeInv' /\ TokensInv'
  BY DEF LifecycleInv, ModeInv, TokensInv, StartLive, files, tokenFiles, world
<1>6. DealtInv' /\ QueueInv' /\ RetryInv' /\ LossInv' /\ FollowInv'
  <2>1. /\ target' = target /\ dlq'.fails = dlq.fails /\ retryTemp' = retryTemp
        /\ writtenOff' = writtenOff
    BY DEF StartLive, files, dlqFiles, world
  <2>2. DealtWith' \subseteq DealtWith /\ pc' \notin InRetry \cup {"streaming", "retryRename"}
    BY DEF StartLive, files, DealtWith, InRetry
  <2>3. DiskToken' \in Int /\ DiskToken' <= Tok
    BY TokIsInt DEF StartLive, files, tokenFiles, DiskToken, NoToken
  <2>4. \A d \in Docs : PassedBy(d)' => PassedBy(d)
    BY DEF StartLive, files, world, PassedBy
  <2> QED BY <2>1, <2>2, <2>3, <2>4, QuietStep
<1> QED BY <1>3, <1>4, <1>5, <1>6 DEF LifecycleInv

LEMMA ExitKeeps ==
  ASSUME LifecycleInv, NEW reason, Exit(reason), UNCHANGED <<files, world, mode, failures>>,
         mishaps' \in 0..MaxMishaps
  PROVE  LifecycleInv'
<1>1. run' \in Runs(head) /\ run'.token = NoToken /\ run'.state = "none"
  BY IdleIsTyped, TokIsInt DEF Exit
<1>2. PlainTypes'
  BY <1>1, TokIsInt, Statics, OpenedQueue
  DEF LifecycleInv, PlainTypes, Exit, HasHappened, files, tokenFiles, dlqFiles, world, bounds, Statuses, Runs
<1>3. MemoryInv'
  BY <1>1 DEF LifecycleInv, MemoryInv, Exit, files, tokenFiles, BeforeCopy, Opening, Finished
<1>4. ModeInv' /\ TokensInv'
  BY <1>1, TokIsInt DEF LifecycleInv, PlainTypes, MemoryInv, ModeInv, TokensInv, Exit, files, tokenFiles, world,
     NoFile, NoToken, Opening
<1>5. DealtInv' /\ QueueInv' /\ RetryInv' /\ LossInv' /\ FollowInv'
  <2>1. /\ target' = target /\ dlq'.fails = dlq.fails /\ retryTemp' = retryTemp
        /\ writtenOff' = writtenOff
    BY OpenedQueue DEF LifecycleInv, PlainTypes, Exit, files, dlqFiles, world
  <2>2. DealtWith' \subseteq DealtWith /\ pc' \notin InRetry \cup {"streaming", "retryRename"}
    BY DEF Exit, files, DealtWith, InRetry
  <2>3. DiskToken' \in Int /\ DiskToken' <= Tok
    BY TokIsInt, <1>2 DEF LifecycleInv, PlainTypes, MemoryInv, TokensInv, Exit, files, tokenFiles, DiskToken, Tok, NoToken, NoFile, Opening
  <2>4. pc # "streaming" => \A d \in Docs : PassedBy(d)' => PassedBy(d)
    BY DEF LifecycleInv, ModeInv, Exit, files, world, PassedBy, Finished
  <2> QED BY <2>1, <2>2, <2>3, <2>4, QuietStep
<1> QED BY <1>2, <1>3, <1>4, <1>5 DEF LifecycleInv

LEMMA ResetStateKeeps ==
  ASSUME LifecycleInv, ResetState
  PROVE  LifecycleInv'
<1>1. run' \in Runs(head) /\ run'.token = run.token /\ run'.state = "none"
  BY DEF LifecycleInv, PlainTypes, ResetState, Runs, Statuses
<1>2. PlainTypes'
  BY <1>1, TokIsInt, Statics, OpenedQueue
  DEF LifecycleInv, PlainTypes, ResetState, GoTo, HasHappened, files, tokenFiles, dlqFiles, world, bounds, Statuses, Runs
<1>3. MemoryInv'
  BY <1>1 DEF LifecycleInv, MemoryInv, ResetState, GoTo, files, tokenFiles, BeforeCopy, Opening, Finished
<1>4. ModeInv' /\ TokensInv'
  BY <1>1, TokIsInt DEF LifecycleInv, PlainTypes, MemoryInv, ModeInv, TokensInv, ResetState, GoTo, files, tokenFiles, world,
     NoFile, NoToken, Opening
<1>5. DealtInv' /\ QueueInv' /\ RetryInv' /\ LossInv' /\ FollowInv'
  <2>1. /\ target' = target /\ dlq'.fails = dlq.fails /\ retryTemp' = retryTemp
        /\ writtenOff' = writtenOff
    BY OpenedQueue DEF LifecycleInv, PlainTypes, ResetState, GoTo, files, dlqFiles, world
  <2>2. DealtWith' \subseteq DealtWith /\ pc' \notin InRetry \cup {"streaming", "retryRename"}
    BY DEF ResetState, GoTo, files, DealtWith, InRetry
  <2>3. DiskToken' \in Int /\ DiskToken' <= Tok
    BY TokIsInt, <1>2 DEF LifecycleInv, PlainTypes, MemoryInv, TokensInv, ResetState, GoTo, files, tokenFiles, DiskToken, Tok, NoToken, NoFile, Opening
  <2>4. pc # "streaming" => \A d \in Docs : PassedBy(d)' => PassedBy(d)
    BY DEF LifecycleInv, ModeInv, ResetState, GoTo, files, world, PassedBy, Finished
  <2> QED BY <2>1, <2>2, <2>3, <2>4, QuietStep
<1> QED BY <1>2, <1>3, <1>4, <1>5 DEF LifecycleInv

LEMMA KeepDLQKeeps ==
  ASSUME LifecycleInv, KeepDLQ
  PROVE  LifecycleInv'
<1>1. run' \in Runs(head)
  BY DEF LifecycleInv, PlainTypes, KeepDLQ
<1>2. PlainTypes'
  BY <1>1, TokIsInt, Statics, OpenedQueue
  DEF LifecycleInv, PlainTypes, KeepDLQ, GoTo, HasHappened, files, tokenFiles, dlqFiles, world, bounds, Statuses, Runs
<1>3. MemoryInv'
  BY <1>1 DEF LifecycleInv, MemoryInv, KeepDLQ, GoTo, files, tokenFiles, BeforeCopy, Opening, Finished
<1>4. ModeInv' /\ TokensInv'
  BY <1>1, TokIsInt DEF LifecycleInv, PlainTypes, MemoryInv, ModeInv, TokensInv, KeepDLQ, GoTo, files, tokenFiles, world,
     NoFile, NoToken, Opening
<1>5. DealtInv' /\ QueueInv' /\ RetryInv' /\ LossInv' /\ FollowInv'
  <2>1. /\ target' = target /\ dlq'.fails = dlq.fails /\ retryTemp' = retryTemp
        /\ writtenOff' = writtenOff
    BY OpenedQueue DEF LifecycleInv, PlainTypes, KeepDLQ, GoTo, files, dlqFiles, world
  <2>2. DealtWith' \subseteq DealtWith /\ pc' \notin InRetry \cup {"streaming", "retryRename"}
    BY DEF KeepDLQ, GoTo, files, DealtWith, InRetry
  <2>3. DiskToken' \in Int /\ DiskToken' <= Tok
    BY TokIsInt, <1>2 DEF LifecycleInv, PlainTypes, MemoryInv, TokensInv, KeepDLQ, GoTo, files, tokenFiles, DiskToken, Tok, NoToken, NoFile, Opening
  <2>4. pc # "streaming" => \A d \in Docs : PassedBy(d)' => PassedBy(d)
    BY DEF LifecycleInv, ModeInv, KeepDLQ, GoTo, files, world, PassedBy, Finished
  <2> QED BY <2>1, <2>2, <2>3, <2>4, QuietStep
<1> QED BY <1>2, <1>3, <1>4, <1>5 DEF LifecycleInv

LEMMA SaveGlobalTokenKeeps ==
  ASSUME LifecycleInv, SaveGlobalToken
  PROVE  LifecycleInv'
<1>1. run' \in Runs(head)
  BY DEF LifecycleInv, PlainTypes, SaveGlobalToken
<1>2. PlainTypes'
  BY <1>1, TokIsInt, Statics, OpenedQueue
  DEF LifecycleInv, PlainTypes, SaveGlobalToken, GoTo, HasHappened, files, tokenFiles, dlqFiles, world, bounds, Statuses, Runs
<1>3. MemoryInv'
  BY <1>1 DEF LifecycleInv, MemoryInv, SaveGlobalToken, GoTo, files, tokenFiles, BeforeCopy, Opening, Finished,
     NeedsCopy
<1>4. ModeInv' /\ TokensInv'
  BY <1>1, TokIsInt DEF LifecycleInv, PlainTypes, MemoryInv, ModeInv, TokensInv, SaveGlobalToken, GoTo, files, tokenFiles, world,
     NoFile, NoToken, Opening
<1>5. DealtInv' /\ QueueInv' /\ RetryInv' /\ LossInv' /\ FollowInv'
  <2>1. /\ target' = target /\ dlq'.fails = dlq.fails /\ retryTemp' = retryTemp
        /\ writtenOff' = writtenOff
    BY OpenedQueue DEF LifecycleInv, PlainTypes, SaveGlobalToken, GoTo, files, dlqFiles, world
  <2>2. DealtWith' \subseteq DealtWith /\ pc' \notin InRetry \cup {"streaming", "retryRename"}
    BY DEF SaveGlobalToken, GoTo, files, DealtWith, InRetry
  <2>3. DiskToken' \in Int /\ DiskToken' <= Tok
    BY TokIsInt, <1>2 DEF LifecycleInv, PlainTypes, MemoryInv, TokensInv, SaveGlobalToken, GoTo, files, tokenFiles, DiskToken, Tok, NoToken, NoFile, Opening
  <2>4. pc # "streaming" => \A d \in Docs : PassedBy(d)' => PassedBy(d)
    BY DEF LifecycleInv, ModeInv, SaveGlobalToken, GoTo, files, world, PassedBy, Finished
  <2> QED BY <2>1, <2>2, <2>3, <2>4, QuietStep
<1> QED BY <1>2, <1>3, <1>4, <1>5 DEF LifecycleInv

LEMMA HistoryLostKeeps ==
  ASSUME LifecycleInv, HistoryLost
  PROVE  LifecycleInv'
<1>1. run' \in Runs(head)
  BY DEF LifecycleInv, PlainTypes, HistoryLost
<1>2. PlainTypes'
  BY <1>1, TokIsInt, Statics, OpenedQueue
  DEF LifecycleInv, PlainTypes, HistoryLost, GoTo, HasHappened, files, tokenFiles, dlqFiles, world, bounds, Statuses, Runs
<1>3. MemoryInv'
  BY <1>1 DEF LifecycleInv, MemoryInv, HistoryLost, GoTo, files, tokenFiles, BeforeCopy, Opening, Finished
<1>4. ModeInv' /\ TokensInv'
  BY <1>1, TokIsInt DEF LifecycleInv, PlainTypes, MemoryInv, ModeInv, TokensInv, HistoryLost, GoTo, files, tokenFiles, world,
     NoFile, NoToken, Opening
<1>5. DealtInv' /\ QueueInv' /\ RetryInv' /\ LossInv' /\ FollowInv'
  <2>1. /\ target' = target /\ dlq'.fails = dlq.fails /\ retryTemp' = retryTemp
        /\ writtenOff' = writtenOff
    BY OpenedQueue DEF LifecycleInv, PlainTypes, HistoryLost, GoTo, files, dlqFiles, world
  <2>2. DealtWith' \subseteq DealtWith /\ pc' \notin InRetry \cup {"streaming", "retryRename"}
    BY DEF HistoryLost, GoTo, files, DealtWith, InRetry
  <2>3. DiskToken' \in Int /\ DiskToken' <= Tok
    BY TokIsInt, <1>2 DEF LifecycleInv, PlainTypes, MemoryInv, TokensInv, HistoryLost, GoTo, files, tokenFiles, DiskToken, Tok, NoToken, NoFile, Opening
  <2>4. pc # "streaming" => \A d \in Docs : PassedBy(d)' => PassedBy(d)
    BY DEF LifecycleInv, ModeInv, HistoryLost, GoTo, files, world, PassedBy, Finished
  <2> QED BY <2>1, <2>2, <2>3, <2>4, QuietStep
<1> QED BY <1>2, <1>3, <1>4, <1>5 DEF LifecycleInv

LEMMA DeleteGlobalTokenKeeps ==
  ASSUME LifecycleInv, DeleteGlobalToken
  PROVE  LifecycleInv'
<1>1. run' \in Runs(head)
  BY DEF LifecycleInv, PlainTypes, DeleteGlobalToken
<1>2. PlainTypes'
  BY <1>1, TokIsInt, Statics, OpenedQueue
  DEF LifecycleInv, PlainTypes, DeleteGlobalToken, GoTo, HasHappened, files, tokenFiles, dlqFiles, world, bounds, Statuses, Runs
<1>3. MemoryInv'
  BY <1>1 DEF LifecycleInv, MemoryInv, DeleteGlobalToken, GoTo, files, tokenFiles, BeforeCopy, Opening, Finished
<1>4. ModeInv' /\ TokensInv'
  BY <1>1, TokIsInt DEF LifecycleInv, PlainTypes, MemoryInv, ModeInv, TokensInv, DeleteGlobalToken, GoTo, files, tokenFiles, world,
     NoFile, NoToken, Opening
<1>5. DealtInv' /\ QueueInv' /\ RetryInv' /\ LossInv' /\ FollowInv'
  <2>1. /\ target' = target /\ dlq'.fails = dlq.fails /\ retryTemp' = retryTemp
        /\ writtenOff' = writtenOff
    BY OpenedQueue DEF LifecycleInv, PlainTypes, DeleteGlobalToken, GoTo, files, dlqFiles, world
  <2>2. DealtWith' \subseteq DealtWith /\ pc' \notin InRetry \cup {"streaming", "retryRename"}
    BY DEF DeleteGlobalToken, GoTo, files, DealtWith, InRetry
  <2>3. DiskToken' \in Int /\ DiskToken' <= Tok
    BY TokIsInt, <1>2 DEF LifecycleInv, PlainTypes, MemoryInv, TokensInv, DeleteGlobalToken, GoTo, files, tokenFiles, DiskToken, Tok, NoToken, NoFile, Opening
  <2>4. pc # "streaming" => \A d \in Docs : PassedBy(d)' => PassedBy(d)
    BY DEF LifecycleInv, ModeInv, DeleteGlobalToken, GoTo, files, world, PassedBy, Finished
  <2> QED BY <2>1, <2>2, <2>3, <2>4, QuietStep
<1> QED BY <1>2, <1>3, <1>4, <1>5 DEF LifecycleInv

LEMMA ScanCheckpointsKeeps ==
  ASSUME LifecycleInv, ScanCheckpoints
  PROVE  LifecycleInv'
<1>1. run' \in Runs(head)
      /\ run'.state = run.state /\ run'.from = run.from
      /\ run'.token = IF partToken # NoFile THEN partToken ELSE run.token
  BY TokIsInt DEF LifecycleInv, PlainTypes, ScanCheckpoints, Runs, NoFile, NoToken
<1>2. PlainTypes'
  BY <1>1, TokIsInt, Statics, OpenedQueue
  DEF LifecycleInv, PlainTypes, ScanCheckpoints, GoTo, HasHappened, files, tokenFiles, dlqFiles, world, bounds, Statuses, Runs
<1>3. MemoryInv'
  BY <1>1 DEF LifecycleInv, MemoryInv, ScanCheckpoints, GoTo, files, tokenFiles, BeforeCopy, Opening, Finished
<1>4. ModeInv' /\ TokensInv'
  BY <1>1, TokIsInt DEF LifecycleInv, PlainTypes, MemoryInv, ModeInv, TokensInv, ScanCheckpoints, GoTo, files, tokenFiles, world,
     NoFile, NoToken, Opening
<1>5. DealtInv' /\ QueueInv' /\ RetryInv' /\ LossInv' /\ FollowInv'
  <2>1. /\ target' = target /\ dlq'.fails = dlq.fails /\ retryTemp' = retryTemp
        /\ writtenOff' = writtenOff
    BY OpenedQueue DEF LifecycleInv, PlainTypes, ScanCheckpoints, GoTo, files, dlqFiles, world
  <2>2. DealtWith' \subseteq DealtWith /\ pc' \notin InRetry \cup {"streaming", "retryRename"}
    BY DEF ScanCheckpoints, GoTo, files, DealtWith, InRetry
  <2>3. DiskToken' \in Int /\ DiskToken' <= Tok
    BY TokIsInt, <1>2 DEF LifecycleInv, PlainTypes, MemoryInv, TokensInv, ScanCheckpoints, GoTo, files, tokenFiles, DiskToken, Tok, NoToken, NoFile, Opening
  <2>4. pc # "streaming" => \A d \in Docs : PassedBy(d)' => PassedBy(d)
    BY DEF LifecycleInv, ModeInv, ScanCheckpoints, GoTo, files, world, PassedBy, Finished
  <2> QED BY <2>1, <2>2, <2>3, <2>4, QuietStep
<1> QED BY <1>2, <1>3, <1>4, <1>5 DEF LifecycleInv

LEMMA PassGatesKeeps ==
  ASSUME LifecycleInv, PassGates
  PROVE  LifecycleInv'
<1>1. run' \in Runs(head)
      /\ run'.token = run.token /\ run'.from = run.from
      /\ run'.state = migState'
  BY DEF LifecycleInv, PlainTypes, MemoryInv, BeforeCopy, PassGates, Runs, Statuses
<1>2. PlainTypes'
  BY <1>1, TokIsInt, Statics, OpenedQueue
  DEF LifecycleInv, PlainTypes, PassGates, GoTo, HasHappened, files, tokenFiles, dlqFiles, world, bounds, Statuses, Runs
<1>3. MemoryInv'
  <2>1. mode \in {"live", "live-only"}
    BY Statics DEF LifecycleInv, PlainTypes
  <2> QED
    BY <1>1, <2>1 DEF LifecycleInv, MemoryInv, PassGates, GoTo, tokenFiles, BeforeCopy, Opening,
       Finished, NeedsCopy, GateAnswer, ModeInv
<1>4. ModeInv' /\ TokensInv'
  BY <1>1, TokIsInt DEF LifecycleInv, PlainTypes, MemoryInv, ModeInv, TokensInv, PassGates, GoTo, files, tokenFiles, world,
     NoFile, NoToken, Opening
<1>5. DealtInv' /\ QueueInv' /\ RetryInv' /\ LossInv' /\ FollowInv'
  <2>1. /\ target' = target /\ dlq'.fails = dlq.fails /\ retryTemp' = retryTemp
        /\ writtenOff' = writtenOff
    BY OpenedQueue DEF LifecycleInv, PlainTypes, PassGates, GoTo, files, dlqFiles, world
  <2>2. DealtWith' \subseteq DealtWith /\ pc' \notin InRetry \cup {"streaming", "retryRename"}
    BY DEF PassGates, GoTo, files, DealtWith, InRetry
  <2>3. DiskToken' \in Int /\ DiskToken' <= Tok
    BY TokIsInt, <1>2 DEF LifecycleInv, PlainTypes, MemoryInv, TokensInv, PassGates, GoTo, files, tokenFiles, DiskToken, Tok, NoToken, NoFile, Opening
  <2>4. pc # "streaming" => \A d \in Docs : PassedBy(d)' => PassedBy(d)
    BY DEF LifecycleInv, ModeInv, PassGates, GoTo, files, world, PassedBy, Finished
  <2> QED BY <2>1, <2>2, <2>3, <2>4, QuietStep
<1> QED BY <1>2, <1>3, <1>4, <1>5 DEF LifecycleInv

LEMMA DeleteStateKeeps ==
  ASSUME LifecycleInv, DeleteState
  PROVE  LifecycleInv'
<1>1. run' \in Runs(head) /\ run'.token = NoToken /\ run'.state = "none"
  BY IdleIsTyped, TokIsInt DEF LifecycleInv, PlainTypes, DeleteState, Runs
<1>2. PlainTypes'
  BY <1>1, TokIsInt, Statics, OpenedQueue
  DEF LifecycleInv, PlainTypes, DeleteState, GoTo, HasHappened, files, tokenFiles, dlqFiles, world, bounds, Statuses, Runs
<1>3. MemoryInv'
  BY <1>1 DEF LifecycleInv, MemoryInv, DeleteState, GoTo, files, tokenFiles, BeforeCopy, Opening, Finished
<1>4. ModeInv' /\ TokensInv'
  BY <1>1, TokIsInt DEF LifecycleInv, PlainTypes, MemoryInv, ModeInv, TokensInv, DeleteState, GoTo, files, tokenFiles, world,
     NoFile, NoToken, Opening
<1>5. DealtInv' /\ QueueInv' /\ RetryInv' /\ LossInv' /\ FollowInv'
  <2>1. /\ target' = target /\ dlq'.fails = dlq.fails /\ retryTemp' = retryTemp
        /\ writtenOff' = writtenOff
    BY OpenedQueue DEF LifecycleInv, PlainTypes, DeleteState, GoTo, files, dlqFiles, world
  <2>2. DealtWith' \subseteq DealtWith /\ pc' \notin InRetry \cup {"streaming", "retryRename"}
    BY DEF DeleteState, GoTo, files, DealtWith, InRetry
  <2>3. DiskToken' \in Int /\ DiskToken' <= Tok
    BY TokIsInt, <1>2 DEF LifecycleInv, PlainTypes, MemoryInv, TokensInv, DeleteState, GoTo, files, tokenFiles, DiskToken, Tok, NoToken, NoFile, Opening
  <2>4. pc # "streaming" => \A d \in Docs : PassedBy(d)' => PassedBy(d)
    BY DEF LifecycleInv, ModeInv, DeleteState, GoTo, files, world, PassedBy, Finished
  <2> QED BY <2>1, <2>2, <2>3, <2>4, QuietStep
<1> QED BY <1>2, <1>3, <1>4, <1>5 DEF LifecycleInv

LEMMA ClearTokensKeeps ==
  ASSUME LifecycleInv, ClearTokens
  PROVE  LifecycleInv'
<1>1. run' \in Runs(head)
  BY DEF LifecycleInv, PlainTypes, ClearTokens
<1>2. PlainTypes'
  BY <1>1, TokIsInt, Statics, OpenedQueue
  DEF LifecycleInv, PlainTypes, ClearTokens, HasHappened, files, tokenFiles, dlqFiles, world, bounds, Statuses, Runs
<1>3. MemoryInv'
  BY <1>1 DEF LifecycleInv, MemoryInv, ClearTokens, files, tokenFiles, BeforeCopy, Opening, Finished
<1>4. ModeInv' /\ TokensInv'
  BY <1>1, TokIsInt DEF LifecycleInv, PlainTypes, MemoryInv, ModeInv, TokensInv, ClearTokens, files, tokenFiles, world,
     NoFile, NoToken, Opening
<1>5. DealtInv' /\ QueueInv' /\ RetryInv' /\ LossInv' /\ FollowInv'
  <2>1. /\ target' = target /\ dlq'.fails = dlq.fails /\ retryTemp' = retryTemp
        /\ writtenOff' = writtenOff
    BY OpenedQueue DEF LifecycleInv, PlainTypes, ClearTokens, files, dlqFiles, world
  <2>2. DealtWith' \subseteq DealtWith /\ pc' \notin InRetry \cup {"streaming", "retryRename"}
    BY DEF ClearTokens, files, DealtWith, InRetry
  <2>3. DiskToken' \in Int /\ DiskToken' <= Tok
    BY TokIsInt, <1>2 DEF LifecycleInv, PlainTypes, MemoryInv, TokensInv, ClearTokens, files, tokenFiles, DiskToken, Tok, NoToken, NoFile, Opening
  <2>4. pc # "streaming" => \A d \in Docs : PassedBy(d)' => PassedBy(d)
    BY DEF LifecycleInv, ModeInv, ClearTokens, files, world, PassedBy, Finished
  <2> QED BY <2>1, <2>2, <2>3, <2>4, QuietStep
<1> QED BY <1>2, <1>3, <1>4, <1>5 DEF LifecycleInv

LEMMA ClearStateKeeps ==
  ASSUME LifecycleInv, ClearState
  PROVE  LifecycleInv'
<1>1. run' \in Runs(head)
  BY DEF LifecycleInv, PlainTypes, ClearState
<1>2. PlainTypes'
  BY <1>1, TokIsInt, Statics, OpenedQueue
  DEF LifecycleInv, PlainTypes, ClearState, HasHappened, files, tokenFiles, dlqFiles, world, bounds, Statuses, Runs
<1>3. MemoryInv'
  BY <1>1 DEF LifecycleInv, MemoryInv, ClearState, files, tokenFiles, BeforeCopy, Opening, Finished
<1>4. ModeInv' /\ TokensInv'
  BY <1>1, TokIsInt DEF LifecycleInv, PlainTypes, MemoryInv, ModeInv, TokensInv, ClearState, files, tokenFiles, world,
     NoFile, NoToken, Opening
<1>5. DealtInv' /\ QueueInv' /\ RetryInv' /\ LossInv' /\ FollowInv'
  <2>1. /\ target' = target /\ dlq'.fails = dlq.fails /\ retryTemp' = retryTemp
        /\ writtenOff' = writtenOff
    BY OpenedQueue DEF LifecycleInv, PlainTypes, ClearState, files, dlqFiles, world
  <2>2. DealtWith' \subseteq DealtWith /\ pc' \notin InRetry \cup {"streaming", "retryRename"}
    BY DEF ClearState, files, DealtWith, InRetry
  <2>3. DiskToken' \in Int /\ DiskToken' <= Tok
    BY TokIsInt, <1>2 DEF LifecycleInv, PlainTypes, MemoryInv, TokensInv, ClearState, files, tokenFiles, DiskToken, Tok, NoToken, NoFile, Opening
  <2>4. pc # "streaming" => \A d \in Docs : PassedBy(d)' => PassedBy(d)
    BY DEF LifecycleInv, ModeInv, ClearState, files, world, PassedBy, Finished
  <2> QED BY <2>1, <2>2, <2>3, <2>4, QuietStep
<1> QED BY <1>2, <1>3, <1>4, <1>5 DEF LifecycleInv

LEMMA WorldKeeps ==
  ASSUME LifecycleInv, SourceChanges \/ HistoryExpires
  PROVE  LifecycleInv'
<1> USE DEF SourceChanges, HistoryExpires, files, tokenFiles, dlqFiles, world, bounds
<1>1. head \in 0..Len(Log) /\ head' \in 0..Len(Log) /\ head <= head' /\ floor' \in 0..head'
  BY Statics DEF LifecycleInv, PlainTypes
<1>2. PlainTypes'
  <2>1. run \in Runs(head')
    BY <1>1 DEF LifecycleInv, PlainTypes, Runs
  <2>2. /\ target \in [Docs -> {Absent} \cup 0..head']
        /\ globalToken \in {NoToken} \cup 0..head' /\ partToken \in {NoFile, NoToken} \cup 0..head'
    BY <1>1 DEF LifecycleInv, PlainTypes
  <2>3. HasHappened(dlq)' /\ HasHappened(retryTemp)'
    BY <1>1, VersionsAreInts, TokIsInt DEF LifecycleInv, PlainTypes, HasHappened
  <2> QED BY <1>1, <2>1, <2>2, <2>3, Statics DEF LifecycleInv, PlainTypes
<1>3. MemoryInv' /\ ModeInv'
  BY DEF LifecycleInv, MemoryInv, ModeInv
<1>4. TokensInv'
  BY <1>1, Statics DEF LifecycleInv, TokensInv, PlainTypes, Runs
<1>5. DealtInv' /\ QueueInv' /\ RetryInv' /\ LossInv' /\ FollowInv'
  BY DEF LifecycleInv, DealtInv, DealtWith, Accounted, Retryable, FailedDocs, QueueInv, OneEach, Safe,
     Tok, DiskToken, Overtaken, RetryInv, Caught, LossInv, PassedBy, Covered, FollowInv
<1> QED BY <1>2, <1>3, <1>4, <1>5 DEF LifecycleInv

LEMMA BackupDLQKeeps ==
  ASSUME LifecycleInv, BackupDLQ
  PROVE  LifecycleInv'
<1>1. run' \in Runs(head)
  BY DEF LifecycleInv, PlainTypes, BackupDLQ
<1>2. PlainTypes'
  <2>1. FailedDocs(dlq) \subseteq Docs
    BY VersionsAreInts DEF FailedDocs
  <2>2. dlq' \in DlqFiles /\ HasHappened(dlq)' /\ writtenOff' \in SUBSET Docs
    BY <2>1, OpenedQueue, EmptyQueues DEF BackupDLQ, LifecycleInv, PlainTypes, HasHappened, world
  <2> QED BY <1>1, <2>2 DEF LifecycleInv, PlainTypes, BackupDLQ, GoTo, HasHappened, files, tokenFiles, dlqFiles, world, bounds
<1>3. MemoryInv'
  BY <1>1 DEF LifecycleInv, MemoryInv, BackupDLQ, GoTo, files, tokenFiles, BeforeCopy, Opening, Finished
<1>4. ModeInv' /\ TokensInv'
  BY <1>1, TokIsInt DEF LifecycleInv, PlainTypes, MemoryInv, ModeInv, TokensInv, BackupDLQ, GoTo, files, tokenFiles, world,
     NoFile, NoToken, Opening
<1>5. DealtInv' /\ QueueInv' /\ RetryInv' /\ LossInv' /\ FollowInv'
  <2>1. /\ target' = target /\ retryTemp' = retryTemp
        /\ dlq'.fails \subseteq dlq.fails /\ writtenOff \subseteq writtenOff'
        /\ \A r \in dlq.fails : r \in dlq'.fails \/ r.doc \in writtenOff'
    BY OpenedQueue, EmptyQueues DEF FailedDocs, LifecycleInv, PlainTypes, BackupDLQ, GoTo, files, dlqFiles, world
  <2>2. DealtWith' \subseteq DealtWith /\ pc' \notin InRetry \cup {"streaming", "retryRename"}
    BY DEF BackupDLQ, GoTo, files, DealtWith, InRetry
  <2>3. DiskToken' \in Int /\ DiskToken' <= Tok
    BY TokIsInt, <1>2 DEF LifecycleInv, PlainTypes, MemoryInv, TokensInv, BackupDLQ, GoTo, files, tokenFiles, DiskToken, Tok, NoToken, NoFile, Opening
  <2>4. pc # "streaming" => \A d \in Docs : PassedBy(d)' => PassedBy(d)
    BY DEF LifecycleInv, ModeInv, BackupDLQ, GoTo, files, world, PassedBy, Finished
  <2> QED BY <2>1, <2>2, <2>3, <2>4, QuietStep
<1> QED BY <1>2, <1>3, <1>4, <1>5 DEF LifecycleInv


LEMMA ClearQueueKeeps ==
  ASSUME LifecycleInv, ClearQueue
  PROVE  LifecycleInv'
<1>1. run' \in Runs(head)
  BY DEF LifecycleInv, PlainTypes, ClearQueue
<1>2. PlainTypes'
  <2>1. FailedDocs(dlq) \subseteq Docs
    BY VersionsAreInts DEF FailedDocs
  <2>2. dlq' \in DlqFiles /\ HasHappened(dlq)' /\ writtenOff' \in SUBSET Docs
    BY <2>1, OpenedQueue, EmptyQueues DEF ClearQueue, LifecycleInv, PlainTypes, HasHappened, world
  <2> QED BY <1>1, <2>2 DEF LifecycleInv, PlainTypes, ClearQueue, HasHappened, files, tokenFiles, dlqFiles, world, bounds
<1>3. MemoryInv'
  BY <1>1 DEF LifecycleInv, MemoryInv, ClearQueue, files, tokenFiles, BeforeCopy, Opening, Finished
<1>4. ModeInv' /\ TokensInv'
  BY <1>1, TokIsInt DEF LifecycleInv, PlainTypes, MemoryInv, ModeInv, TokensInv, ClearQueue, files, tokenFiles, world,
     NoFile, NoToken, Opening
<1>5. DealtInv' /\ QueueInv' /\ RetryInv' /\ LossInv' /\ FollowInv'
  <2>1. /\ target' = target /\ retryTemp' = retryTemp
        /\ dlq'.fails \subseteq dlq.fails /\ writtenOff \subseteq writtenOff'
        /\ \A r \in dlq.fails : r \in dlq'.fails \/ r.doc \in writtenOff'
    BY OpenedQueue, EmptyQueues DEF FailedDocs, LifecycleInv, PlainTypes, ClearQueue, files, dlqFiles, world
  <2>2. DealtWith' \subseteq DealtWith /\ pc' \notin InRetry \cup {"streaming", "retryRename"}
    BY DEF ClearQueue, files, DealtWith, InRetry
  <2>3. DiskToken' \in Int /\ DiskToken' <= Tok
    BY TokIsInt, <1>2 DEF LifecycleInv, PlainTypes, MemoryInv, TokensInv, ClearQueue, files, tokenFiles, DiskToken, Tok, NoToken, NoFile, Opening
  <2>4. pc # "streaming" => \A d \in Docs : PassedBy(d)' => PassedBy(d)
    BY DEF LifecycleInv, ModeInv, ClearQueue, files, world, PassedBy, Finished
  <2> QED BY <2>1, <2>2, <2>3, <2>4, QuietStep
<1> QED BY <1>2, <1>3, <1>4, <1>5 DEF LifecycleInv


LEMMA CopyInterruptedKeeps ==
  ASSUME LifecycleInv, CopyInterrupted
  PROVE  LifecycleInv'
<1>1. run' \in Runs(head) /\ run'.token = NoToken /\ run'.state = "none"
  BY IdleIsTyped, TokIsInt DEF CopyInterrupted, Exit
<1>2. PlainTypes'
  <2>1. saved' \in 0..NumDocs /\ mishaps' \in 0..MaxMishaps
    BY PrefixIsDone, LifecycleAssumption DEF CopyInterrupted, LifecycleInv, PlainTypes, LifecycleAssumption
  <2> QED BY <1>1, <2>1 DEF LifecycleInv, PlainTypes, CopyInterrupted, HasHappened, files, tokenFiles, dlqFiles, world, bounds
<1>3. MemoryInv'
  BY <1>1 DEF LifecycleInv, MemoryInv, CopyInterrupted, Exit, files, tokenFiles, BeforeCopy, Opening, Finished
<1>4. ModeInv' /\ TokensInv'
  BY <1>1, TokIsInt DEF LifecycleInv, PlainTypes, MemoryInv, ModeInv, TokensInv, CopyInterrupted, Exit, files, tokenFiles, world,
     NoFile, NoToken, Opening
<1>5. DealtInv' /\ QueueInv' /\ RetryInv' /\ LossInv' /\ FollowInv'
  <2>1. /\ target' = target /\ retryTemp' = retryTemp
        /\ dlq'.fails \subseteq dlq.fails /\ writtenOff \subseteq writtenOff'
        /\ \A r \in dlq.fails : r \in dlq'.fails \/ r.doc \in writtenOff'
    BY OpenedQueue, EmptyQueues DEF FailedDocs, LifecycleInv, PlainTypes, CopyInterrupted, Exit, files, dlqFiles, world
  <2>2. DealtWith' \subseteq DealtWith /\ pc' \notin InRetry \cup {"streaming", "retryRename"}
    <3>1. pc = "copy" /\ pc' = "down" /\ (saved' = saved \/ saved' = CopiedPrefix)
      BY DEF CopyInterrupted, Exit
    <3>2. 1..saved' \subseteq 1..saved \cup run.done
      BY <3>1, PrefixIsDone, LifecycleAssumption
    <3> QED BY <3>1, <3>2 DEF DealtWith, InRetry
  <2>3. DiskToken' \in Int /\ DiskToken' <= Tok
    BY TokIsInt, <1>2 DEF LifecycleInv, PlainTypes, MemoryInv, TokensInv, CopyInterrupted, Exit, files, tokenFiles, DiskToken, Tok, NoToken, NoFile, Opening
  <2>4. \A d \in Docs : PassedBy(d)' => PassedBy(d) \/ d \in Accounted
    <3>1. SUFFICES ASSUME NEW d \in Docs, d < saved'
                   PROVE  target[d] # Absent \/ d \in Accounted
      BY Statics DEF CopyInterrupted, world, PassedBy, LifecycleInv, PlainTypes
    <3>2. d \in 1..saved'
      BY <1>2, <3>1, Statics DEF PlainTypes
    <3>3. d \in DealtWith
      BY <2>2, <3>2 DEF DealtWith
    <3> QED BY <3>3 DEF LifecycleInv, DealtInv
  <2> QED BY <2>1, <2>2, <2>3, <2>4, QuietStep
<1> QED BY <1>2, <1>3, <1>4, <1>5 DEF LifecycleInv


LEMMA StopStreamingKeeps ==
  ASSUME LifecycleInv, StopStreaming
  PROVE  LifecycleInv'
<1>1. run' \in Runs(head) /\ run'.token = NoToken /\ run'.state = "none"
  BY IdleIsTyped, TokIsInt DEF StopStreaming, Exit
<1>2. PlainTypes'
  <2>1. partToken' \in {NoFile, NoToken} \cup 0..head
    BY TokIsInt, Statics DEF StopStreaming, LifecycleInv, PlainTypes, TokensInv, Runs, NoTime
  <2> QED BY <1>1, <2>1 DEF LifecycleInv, PlainTypes, StopStreaming, HasHappened, files, dlqFiles, world, bounds
<1>3. MemoryInv'
  BY <1>1 DEF LifecycleInv, MemoryInv, StopStreaming, Exit, files, tokenFiles, BeforeCopy, Opening, Finished
<1>4. ModeInv' /\ TokensInv'
  <2>1. run.cursor \in Int /\ globalToken \in Int /\ partToken \in Int
    BY Statics, TokIsInt DEF LifecycleInv, PlainTypes, Runs, NoToken, NoFile
  <2> QED BY <2>1 DEF LifecycleInv, ModeInv, TokensInv, StopStreaming, Exit, world
<1>5. DealtInv' /\ QueueInv' /\ RetryInv' /\ LossInv' /\ FollowInv'
  <2>1. /\ target' = target /\ retryTemp' = retryTemp
        /\ dlq'.fails \subseteq dlq.fails /\ writtenOff \subseteq writtenOff'
        /\ \A r \in dlq.fails : r \in dlq'.fails \/ r.doc \in writtenOff'
    BY OpenedQueue, EmptyQueues DEF FailedDocs, LifecycleInv, PlainTypes, StopStreaming, Exit, files, dlqFiles, world
  <2>2. DealtWith' \subseteq DealtWith /\ pc' \notin InRetry \cup {"streaming", "retryRename"}
    BY DEF StopStreaming, Exit, files, DealtWith, InRetry
  <2>3. DiskToken' \in Int /\ DiskToken' <= Tok
    BY TokIsInt, <1>2 DEF LifecycleInv, PlainTypes, MemoryInv, TokensInv, StopStreaming, Exit, files, tokenFiles, DiskToken, Tok, NoToken, NoFile, Opening
  <2>4. pc # "streaming" => \A d \in Docs : PassedBy(d)' => PassedBy(d)
    BY DEF LifecycleInv, ModeInv, StopStreaming, Exit, files, world, PassedBy, Finished
  <2> QED BY <2>1, <2>2, <2>3, <2>4, QuietStep
<1> QED BY <1>2, <1>3, <1>4, <1>5 DEF LifecycleInv

LEMMA SaveProgressKeeps ==
  ASSUME LifecycleInv, SaveProgress
  PROVE  LifecycleInv'
<1>1. run' \in Runs(head)
  BY DEF LifecycleInv, PlainTypes, SaveProgress
<1>2. PlainTypes'
  <2>1. saved' \in 0..NumDocs
    BY PrefixIsDone, LifecycleAssumption DEF SaveProgress
  <2> QED BY <1>1, <2>1 DEF LifecycleInv, PlainTypes, SaveProgress, HasHappened, files, tokenFiles, dlqFiles, world, bounds
<1>3. MemoryInv'
  BY <1>1 DEF LifecycleInv, MemoryInv, SaveProgress, files, tokenFiles, BeforeCopy, Opening, Finished
<1>4. ModeInv' /\ TokensInv'
  BY <1>1, TokIsInt DEF LifecycleInv, PlainTypes, MemoryInv, ModeInv, TokensInv, SaveProgress, files, tokenFiles, world,
     NoFile, NoToken, Opening
<1>5. DealtInv' /\ QueueInv' /\ RetryInv' /\ LossInv' /\ FollowInv'
  <2>1. /\ target' = target /\ retryTemp' = retryTemp
        /\ dlq'.fails = dlq.fails /\ writtenOff' = writtenOff
    BY DEF SaveProgress, dlqFiles, files, world
  <2>2. DealtWith' \subseteq DealtWith /\ pc' \notin InRetry \cup {"streaming", "retryRename"}
    <3>1. pc = "copy" /\ pc' = "copy" /\ saved' = CopiedPrefix /\ run' = run
      BY DEF SaveProgress
    <3>2. 1..saved' \subseteq run.done
      BY <3>1, PrefixIsDone, LifecycleAssumption
    <3> QED BY <3>1, <3>2 DEF DealtWith, InRetry
  <2>3. DiskToken' \in Int /\ DiskToken' <= Tok
    BY TokIsInt, <1>2 DEF LifecycleInv, PlainTypes, MemoryInv, TokensInv, SaveProgress, files, tokenFiles, DiskToken, Tok, NoToken, NoFile, Opening
  <2>4. \A d \in Docs : PassedBy(d)' => PassedBy(d) \/ d \in Accounted
    <3>1. SUFFICES ASSUME NEW d \in Docs, d < saved'
                   PROVE  target[d] # Absent \/ d \in Accounted
      BY DEF SaveProgress, world, PassedBy
    <3>2. d \in 1..saved'
      BY <1>2, <3>1, Statics DEF PlainTypes
    <3>3. d \in DealtWith
      BY <2>2, <3>2 DEF DealtWith
    <3> QED BY <3>3 DEF LifecycleInv, DealtInv
  <2> QED BY <2>1, <2>2, <2>3, <2>4, QuietStep
<1> QED BY <1>2, <1>3, <1>4, <1>5 DEF LifecycleInv


LEMMA FinishCopyKeeps ==
  ASSUME LifecycleInv, FinishCopy
  PROVE  LifecycleInv'
<1>1. run' \in Runs(head)
  BY DEF LifecycleInv, PlainTypes, FinishCopy
<1>2. PlainTypes'
  BY <1>1, TokIsInt, Statics, OpenedQueue
  DEF LifecycleInv, PlainTypes, FinishCopy, GoTo, HasHappened, files, tokenFiles, dlqFiles, world, bounds, Statuses, Runs
<1>3. MemoryInv'
  BY <1>1 DEF LifecycleInv, MemoryInv, FinishCopy, GoTo, files, tokenFiles, BeforeCopy, Opening, Finished
<1>4. ModeInv' /\ TokensInv'
  BY <1>1, TokIsInt DEF LifecycleInv, PlainTypes, MemoryInv, ModeInv, TokensInv, FinishCopy, GoTo, files, tokenFiles, world,
     NoFile, NoToken, Opening
<1>5. DealtInv' /\ QueueInv' /\ RetryInv' /\ LossInv' /\ FollowInv'
  <2>1. /\ target' = target /\ retryTemp' = retryTemp
        /\ dlq'.fails = dlq.fails /\ writtenOff' = writtenOff
    BY DEF FinishCopy, dlqFiles, files, world
  <2>2. DealtWith' \subseteq DealtWith /\ pc' \notin InRetry \cup {"streaming", "retryRename"}
    <3>1. pc = "copy" /\ pc' = "outcome" /\ saved' = 0 /\ run.done = Docs
      BY DEF FinishCopy, GoTo
    <3> QED BY <3>1 DEF DealtWith, InRetry
  <2>3. DiskToken' \in Int /\ DiskToken' <= Tok
    BY TokIsInt, <1>2 DEF LifecycleInv, PlainTypes, MemoryInv, TokensInv, FinishCopy, GoTo, files, tokenFiles, DiskToken, Tok, NoToken, NoFile, Opening
  <2>4. pc # "streaming" => \A d \in Docs : PassedBy(d)' => PassedBy(d)
    BY Statics DEF LifecycleInv, ModeInv, FinishCopy, GoTo, files, world, PassedBy, Finished
  <2> QED BY <2>1, <2>2, <2>3, <2>4, QuietStep
<1> QED BY <1>2, <1>3, <1>4, <1>5 DEF LifecycleInv


LEMMA RecordOutcomeKeeps ==
  ASSUME LifecycleInv, RecordOutcome
  PROVE  LifecycleInv'
<1>1. run' \in Runs(head)
  BY DEF LifecycleInv, PlainTypes, RecordOutcome
<1>2. PlainTypes'
  BY <1>1, TokIsInt, Statics, OpenedQueue
  DEF LifecycleInv, PlainTypes, RecordOutcome, GoTo, HasHappened, files, tokenFiles, dlqFiles, world, bounds, Statuses, Runs
<1>3. MemoryInv'
  BY <1>1 DEF LifecycleInv, MemoryInv, RecordOutcome, GoTo, files, tokenFiles, BeforeCopy, Opening, Finished
<1>4. ModeInv' /\ TokensInv'
  BY <1>1, TokIsInt DEF LifecycleInv, PlainTypes, MemoryInv, ModeInv, TokensInv, RecordOutcome, GoTo, files, tokenFiles, world,
     NoFile, NoToken, Opening
<1>5. DealtInv' /\ QueueInv' /\ RetryInv' /\ LossInv' /\ FollowInv'
  <2>1. /\ target' = target /\ retryTemp' = retryTemp
        /\ dlq'.fails = dlq.fails /\ writtenOff' = writtenOff
    BY DEF RecordOutcome, dlqFiles, files, world
  <2>2. DealtWith' \subseteq DealtWith /\ pc' \notin InRetry \cup {"streaming", "retryRename"}
    BY DEF RecordOutcome, GoTo, files, DealtWith, InRetry
  <2>3. DiskToken' \in Int /\ DiskToken' <= Tok
    BY TokIsInt, <1>2 DEF LifecycleInv, PlainTypes, MemoryInv, TokensInv, RecordOutcome, GoTo, files, tokenFiles, DiskToken, Tok, NoToken, NoFile, Opening
  <2>4. \A d \in Docs : PassedBy(d)' => PassedBy(d) \/ d \in Accounted
    <3>1. \A d \in Docs : d \in DealtWith
      BY DEF RecordOutcome, DealtWith
    <3> QED BY <3>1 DEF LifecycleInv, DealtInv, PassedBy
  <2> QED BY <2>1, <2>2, <2>3, <2>4, QuietStep
<1> QED BY <1>2, <1>3, <1>4, <1>5 DEF LifecycleInv


LEMMA BeginCopyKeeps ==
  ASSUME LifecycleInv, BeginCopy
  PROVE  LifecycleInv'
<1>1. run' \in Runs(head)
      /\ run'.token = run.token /\ run'.from = run.from /\ run'.done = 1..(saved - 1)
  <2>1. run \in Runs(head) /\ saved \in 0..NumDocs
    BY DEF LifecycleInv, PlainTypes
  <2>2. PICK early : early = 1..(saved - 1)
    OBVIOUS
  <2>3. early \in SUBSET Docs
    BY <2>1, <2>2, Statics
  <2>4. run' = [run EXCEPT !.done = early]
    BY <2>2 DEF BeginCopy
  <2> QED BY <2>1, <2>2, <2>3, <2>4 DEF Runs
<1>2. PlainTypes'
  <2>1. PlainTypes
    BY DEF LifecycleInv
  <2>2. /\ UNCHANGED <<globalToken, partToken, saved, dlq, retryTemp, head, floor, target>>
        /\ UNCHANGED <<writtenOff, mode, failures, mishaps>>
        /\ migState' = "in_progress"
    BY DEF BeginCopy, tokenFiles, dlqFiles, world, bounds
  <2>3. migState' \in Statuses
    BY <2>2 DEF Statuses
  <2>4. HasHappened(dlq)' /\ HasHappened(retryTemp)'
    BY <2>1, <2>2 DEF PlainTypes, HasHappened
  <2>5. run' \in Runs(head')
    BY <1>1, <2>2
  <2> QED BY <2>1, <2>2, <2>3, <2>4, <2>5 DEF PlainTypes
<1>3. MemoryInv'
  BY <1>1 DEF LifecycleInv, MemoryInv, BeginCopy, GoTo, files, tokenFiles, BeforeCopy, Opening, Finished
<1>4. ModeInv' /\ TokensInv'
  BY <1>1, TokIsInt DEF LifecycleInv, PlainTypes, MemoryInv, ModeInv, TokensInv, BeginCopy, GoTo, files, tokenFiles, world,
     NoFile, NoToken, Opening
<1>5. DealtInv' /\ QueueInv' /\ RetryInv' /\ LossInv' /\ FollowInv'
  <2>1. /\ target' = target /\ retryTemp' = retryTemp
        /\ dlq'.fails = dlq.fails /\ writtenOff' = writtenOff
    BY DEF BeginCopy, dlqFiles, files, world
  <2>2. DealtWith' \subseteq DealtWith /\ pc' \notin InRetry \cup {"streaming", "retryRename"}
    <3>1. pc = "begin" /\ pc' = "copy" /\ saved' = saved /\ saved \in Nat
      BY Statics DEF BeginCopy, GoTo, LifecycleInv, PlainTypes
    <3>2. 1..(saved - 1) \subseteq 1..saved
      BY <3>1
    <3> QED BY <1>1, <3>1, <3>2 DEF DealtWith, InRetry
  <2>3. DiskToken' \in Int /\ DiskToken' <= Tok
    BY TokIsInt, <1>2 DEF LifecycleInv, PlainTypes, MemoryInv, TokensInv, BeginCopy, GoTo, files, tokenFiles, DiskToken, Tok, NoToken, NoFile, Opening
  <2>4. pc # "streaming" => \A d \in Docs : PassedBy(d)' => PassedBy(d)
    BY DEF LifecycleInv, ModeInv, BeginCopy, GoTo, files, world, PassedBy, Finished
  <2> QED BY <2>1, <2>2, <2>3, <2>4, QuietStep
<1> QED BY <1>2, <1>3, <1>4, <1>5 DEF LifecycleInv


LEMMA CleaningKeeps ==
  ASSUME LifecycleInv, FreshStart \/ Cleaning
  PROVE  LifecycleInv'
<1> DEFINE Steps == {"cleanGlobal", "cleanState", "cleanQueue", "cleanSaved", "down"}
<1>1. /\ pc \in Steps /\ pc' \in Steps
      /\ partToken' \in {partToken, NoFile} /\ globalToken' \in {globalToken, NoToken}
      /\ migState' \in {migState, "none"} /\ saved' \in {saved, 0}
      /\ dlq' \in {dlq, NoDlq} /\ mishaps' \in {mishaps, mishaps + 1}
      /\ mishaps' = mishaps \/ mishaps < MaxMishaps
      /\ writtenOff' = writtenOff \cup (FailedDocs(dlq) \ FailedDocs(dlq'))
      /\ UNCHANGED <<retryTemp, head, floor, target, mode, run, failures>>
  <2>1. CASE FreshStart
    BY <2>1 DEF FreshStart, Removed, dlqFiles, world
  <2>2. CASE CleanGlobalToken
    BY <2>2 DEF CleanGlobalToken, Removed, GoTo, dlqFiles, world
  <2>3. CASE CleanState
    BY <2>3 DEF CleanState, Removed, GoTo, tokenFiles, dlqFiles, world
  <2>4. CASE CleanQueue
    BY <2>4 DEF CleanQueue, Removed, GoTo, tokenFiles
  <2>5. CASE CleanCheckpoint
    BY <2>5 DEF CleanCheckpoint, Removed, GoTo, tokenFiles, dlqFiles, world
  <2> QED BY <2>1, <2>2, <2>3, <2>4, <2>5 DEF Cleaning
<1>2. /\ dlq' \in DlqFiles /\ dlq'.fails \subseteq dlq.fails
      /\ \A r \in dlq.fails : r \in dlq'.fails \/ r.doc \in writtenOff'
      /\ writtenOff' \in SUBSET Docs
  <2>1. \A r \in dlq.fails : r.doc \in Docs
    BY VersionsAreInts
  <2>2. CASE dlq' = dlq
    BY <1>1, <2>2 DEF LifecycleInv, PlainTypes
  <2>3. CASE dlq' = NoDlq
    BY <1>1, <2>1, <2>3, EmptyQueues DEF LifecycleInv, PlainTypes, FailedDocs
  <2> QED BY <1>1, <2>2, <2>3
<1>3. PlainTypes'
  <2>1. mishaps' \in 0..MaxMishaps
    BY <1>1, LifecycleAssumption DEF LifecycleInv, PlainTypes, LifecycleAssumption
  <2>2. HasHappened(dlq)' /\ HasHappened(retryTemp)'
    BY <1>1, <1>2 DEF LifecycleInv, PlainTypes, HasHappened
  <2>3. saved' \in 0..NumDocs /\ migState' \in Statuses
    BY <1>1, Statics DEF LifecycleInv, PlainTypes, Statuses
  <2> QED BY <1>1, <1>2, <2>1, <2>2, <2>3 DEF LifecycleInv, PlainTypes
<1>4. MemoryInv'
  BY <1>1 DEF MemoryInv, BeforeCopy, Opening
<1>5. ModeInv' /\ TokensInv'
  <2>1. globalToken \in Int /\ NoToken <= globalToken /\ NoToken \in Int
    BY TokIsInt DEF LifecycleInv, PlainTypes, NoToken
  <2>2. partToken' # NoFile => partToken' = partToken /\ globalToken' <= globalToken
    BY <1>1, <2>1
  <2>3. TokensInv'
    <3>1. partToken \in Int
      BY TokIsInt DEF LifecycleInv, PlainTypes, NoToken, NoFile
    <3>2. partToken' # NoFile => globalToken' <= partToken'
      BY <1>1, <2>1, <2>2, <3>1 DEF LifecycleInv, TokensInv
    <3> QED BY <1>1, <3>2 DEF TokensInv
  <2> QED BY <1>1, <2>3 DEF LifecycleInv, ModeInv
<1>6. DiskToken' \in Int /\ DiskToken' <= Tok
  <2>1. /\ globalToken \in {NoToken} \cup 0..head
        /\ partToken \in {NoFile, NoToken} \cup 0..head /\ head \in Nat
        /\ partToken # NoFile => globalToken <= partToken
    BY TokIsInt DEF LifecycleInv, PlainTypes, TokensInv
  <2>2. Tok = DiskToken
    BY <1>1 DEF Tok
  <2> QED BY <1>1, <2>1, <2>2 DEF DiskToken, NoFile, NoToken
<1>7. DealtInv' /\ QueueInv' /\ RetryInv' /\ LossInv' /\ FollowInv'
  <2>1. DealtWith' \subseteq DealtWith
    BY <1>1, Statics DEF DealtWith, LifecycleInv, PlainTypes
  <2>2. \A d \in Docs : PassedBy(d)' => PassedBy(d)
    BY <1>1, Statics DEF PassedBy, Finished, LifecycleInv, PlainTypes
  <2>3. pc' \notin InRetry \cup {"streaming", "retryRename"}
    BY <1>1 DEF InRetry
  <2> QED BY <1>1, <1>2, <1>6, <2>1, <2>2, <2>3, QuietStep
<1> QED BY <1>3, <1>4, <1>5, <1>7 DEF LifecycleInv

(* Tok is the token on disk unless the pair streams.                       *)
LEMMA CopyDocKeeps ==
  ASSUME LifecycleInv, NEW e \in Docs, CopyDoc(e)
  PROVE  LifecycleInv'
<1> USE DEF CopyDoc, files, tokenFiles, dlqFiles, bounds
<1>1. /\ pc = "copy" /\ pc' = "copy"
      /\ run' \in Runs(head) /\ run'.done = run.done \cup {e}
      /\ run'.token = run.token /\ run'.from = run.from
  BY DEF LifecycleInv, PlainTypes, Runs
<1>2. /\ target' \in [Docs -> {Absent} \cup 0..head]
      /\ \A d \in Docs : target'[d] = IF d = e /\ target[e] = Absent
                                      THEN Version(e, head) ELSE target[d]
      /\ Version(e, head) \in 0..head
  BY VersionIsLast, TokIsInt DEF LifecycleInv, PlainTypes
<1>3. target'[e] # Absent /\ \A d \in Docs : target[d] # Absent => target'[d] = target[d]
  BY <1>2, TokIsInt DEF Absent
<1>4. PlainTypes'
  BY <1>1, <1>2 DEF LifecycleInv, PlainTypes, HasHappened
<1>5. MemoryInv'
  BY <1>1 DEF LifecycleInv, MemoryInv, BeforeCopy, Opening
<1>6. ModeInv' /\ TokensInv'
  BY <1>1, <1>3 DEF LifecycleInv, ModeInv, TokensInv
<1>7. /\ Retryable' = Retryable
      /\ \A d \in Docs \ {e} : d \in writtenOff => d \in writtenOff'
      /\ e \in writtenOff /\ (target[e] # Absent \/ e \in Retryable) => e \in writtenOff'
  BY DEF Retryable, FailedDocs
<1>8. \A d \in Docs : d \in Accounted => d \in Accounted' \/ (d = e /\ target[e] = Absent)
  BY <1>7 DEF Accounted
<1>9. Tok' = Tok /\ DiskToken' = DiskToken /\ Tok = DiskToken
  BY <1>1 DEF Tok, DiskToken
<1>10. DealtInv'
  <2>1. \A d \in DealtWith' : d = e \/ d \in DealtWith
    BY <1>1 DEF DealtWith
  <2>2. DealtWith \subseteq Docs
    BY <1>1, Statics DEF DealtWith, LifecycleInv, PlainTypes, Runs
  <2> QED BY <1>3, <1>8, <2>1, <2>2 DEF LifecycleInv, DealtInv
<1>11. target[e] = Absent => target'[e] >= Version(e, DiskToken)
  BY <1>2, VersionsGrow, VersionIsLast, TokIsInt DEF NoToken
<1>12. LossInv' /\ FollowInv'
  <2>1. ASSUME DiskToken >= 0, NEW d \in Docs, PassedBy(d)'
        PROVE  Covered(d, DiskToken)'
    <3>1. CASE d = e /\ target[e] = Absent
      BY <1>9, <1>11, <3>1 DEF Covered
    <3>2. CASE ~(d = e /\ target[e] = Absent)
      <4>1. target'[d] = target[d] /\ PassedBy(d)
        BY <1>2, <2>1, <3>2 DEF PassedBy
      <4>2. Covered(d, DiskToken)
        BY <2>1, <4>1 DEF LifecycleInv, LossInv
      <4> QED BY <1>8, <1>9, <3>2, <4>1, <4>2 DEF Covered
    <3> QED BY <3>1, <3>2
  <2> QED BY <1>1, <1>9, <2>1 DEF LossInv, FollowInv
<1>13. QueueInv'
  <2>1. \A r \in dlq.fails \cup retryTemp.fails : Safe(r, Tok) => Safe(r, Tok)'
    <3>1. \A r \in dlq.fails \cup retryTemp.fails : r.doc \in Retryable
      BY DEF Retryable, FailedDocs
    <3>2. \A r \in dlq.fails \cup retryTemp.fails : r.doc \in writtenOff => r.doc \in writtenOff'
      BY <1>7, <3>1, VersionsAreInts
    <3> QED BY <1>9, <3>2 DEF Safe
  <2>2. \A r \in retryTemp.fails : Overtaken(r) => Overtaken(r)'
    <3>1. ASSUME NEW r \in retryTemp.fails, target[r.doc] > r.version
          PROVE  target'[r.doc] > r.version
      <4>1. target[r.doc] # Absent
        BY <3>1, VersionsAreInts DEF Absent
      <4> QED BY <1>3, <3>1, <4>1, VersionsAreInts
    <3> QED BY <3>1 DEF Overtaken
  <2> QED BY <1>1, <2>1, <2>2 DEF LifecycleInv, QueueInv, OneEach, InRetry
<1>14. RetryInv'
  BY <1>1 DEF RetryInv
<1> QED BY <1>4, <1>5, <1>6, <1>10, <1>12, <1>13, <1>14 DEF LifecycleInv

(* A failure that is written to the queue is the newest of its document.   *)
LEMMA NewFailure ==
  ASSUME LifecycleInv, pc' = pc, pc \notin InRetry \cup {"retryRename"},
         NEW e \in Docs, NEW v \in 0..head, NEW ph \in Phases,
         dlq' = WriteFailed(dlq, e, v, ph), retryTemp' = retryTemp,
         target' = target, writtenOff' = writtenOff, head' = head,
         Tok' \in Int, v >= Version(e, Tok'),
         \A d \in Docs \ {e} : Version(d, Tok') <= Version(d, Tok)
  PROVE  /\ QueueInv' /\ Accounted' = Accounted \cup {e}
         /\ dlq' \in DlqFiles /\ HasHappened(dlq)'
<1> DEFINE one == [doc |-> e, version |-> v, phase |-> ph]
<1>1. one.doc = e /\ one.version = v
  OBVIOUS
<1>2. /\ dlq' \in DlqFiles /\ OneEach(dlq)'
      /\ dlq'.fails = {r \in dlq.fails : r.doc # e} \cup {one}
  <2>1. v \in Positions
    BY Statics DEF LifecycleInv, PlainTypes
  <2>2. dlq \in DlqFiles /\ OneEach(dlq)
    BY DEF LifecycleInv, PlainTypes, QueueInv
  <2>3. OneEach(dlq') => OneEach(dlq)'
    BY DEF OneEach
  <2> QED BY <2>1, <2>2, <2>3, FailureIsWritten
<1> HIDE DEF one
<1>3. HasHappened(dlq)'
  <2>1. head' = head
    OBVIOUS
  <2>2. \A r \in dlq'.fails : r = one \/ r \in dlq.fails
    BY <1>2
  <2>3. one.version <= head /\ \A r \in dlq.fails : r.version <= head
    BY <1>1, VersionsAreInts
  <2> QED BY <2>1, <2>2, <2>3 DEF HasHappened
<1>4. Accounted' = Accounted \cup {e}
  BY <1>1, <1>2 DEF Accounted, Retryable, FailedDocs
<1>5. \A r \in dlq.fails \cup retryTemp.fails :
        r.doc # e /\ Safe(r, Tok) => Safe(r, Tok)'
  BY VersionsAreInts, VersionIsLast, TokIsInt DEF Safe
<1>6. Safe(one, Tok)'
  BY <1>1 DEF Safe
<1>7. \A r \in retryTemp.fails : r.doc # e /\ Overtaken(r) => Overtaken(r)'
  BY <1>2 DEF Overtaken
<1>8. \A r \in retryTemp.fails : r.doc = e => Safe(r, Tok)' \/ Overtaken(r)'
  <2>1. ASSUME NEW r \in retryTemp.fails, r.doc = e, one \in retryTemp.fails
        PROVE  r = one
    BY <1>1, <2>1 DEF LifecycleInv, QueueInv, OneEach
  <2>2. ASSUME NEW r \in retryTemp.fails, r.doc = e, one \notin retryTemp.fails
        PROVE  Overtaken(r)'
    BY <1>1, <1>2, <2>2 DEF Overtaken
  <2> QED BY <1>6, <2>1, <2>2
<1>9. QueueInv'
  BY <1>2, <1>5, <1>6, <1>7, <1>8 DEF LifecycleInv, QueueInv, OneEach, InRetry
<1> QED BY <1>2, <1>3, <1>4, <1>9

LEMMA CopyDocFailsKeeps ==
  ASSUME LifecycleInv, NEW e \in Docs, CopyDocFails(e)
  PROVE  LifecycleInv'
<1> USE DEF CopyDocFails, tokenFiles, world
<1>1. /\ pc = "copy" /\ pc' = "copy"
      /\ run' \in Runs(head) /\ run'.done = run.done \cup {e}
      /\ run'.token = run.token /\ run'.from = run.from
  BY DEF LifecycleInv, PlainTypes, Runs
<1>2. Tok' = Tok /\ DiskToken' = DiskToken /\ Tok = DiskToken /\ Tok \in Int
  BY <1>1, TokIsInt DEF Tok, DiskToken
<1>3. Version(e, head) \in 0..head /\ Version(e, Tok) <= Version(e, head)
  BY <1>2, VersionIsLast, VersionsGrow, TokIsInt DEF NoToken
<1>4. /\ QueueInv' /\ Accounted' = Accounted \cup {e}
      /\ dlq' \in DlqFiles /\ HasHappened(dlq)'
  <2>1. pc \notin InRetry \cup {"retryRename"} /\ "initial" \in Phases
    BY <1>1 DEF InRetry, Phases
  <2>2. \A d \in Docs \ {e} : Version(d, Tok') <= Version(d, Tok)
    BY <1>2, VersionIsLast
  <2> QED BY <1>1, <1>2, <1>3, <2>1, <2>2, NewFailure
<1>5. PlainTypes'
  <2>1. failures' \in 0..MaxFailures
    BY LifecycleAssumption DEF LifecycleInv, PlainTypes, LifecycleAssumption
  <2> QED BY <1>1, <1>4, <2>1 DEF LifecycleInv, PlainTypes, HasHappened
<1>6. MemoryInv'
  BY <1>1 DEF LifecycleInv, MemoryInv, BeforeCopy, Opening
<1>7. ModeInv' /\ TokensInv' /\ RetryInv' /\ FollowInv'
  BY <1>1 DEF LifecycleInv, ModeInv, TokensInv, RetryInv, FollowInv
<1>8. DealtInv'
  BY <1>1, <1>4 DEF LifecycleInv, DealtInv, DealtWith
<1>9. LossInv'
  BY <1>2, <1>4 DEF LifecycleInv, LossInv, PassedBy, Covered
<1> QED BY <1>4, <1>5, <1>6, <1>7, <1>8, <1>9 DEF LifecycleInv

(* A new token gives up what is from before it.                            *)
LEMMA DropDocKeeps ==
  ASSUME LifecycleInv, NEW e \in Docs, DropDoc(e)
  PROVE  LifecycleInv'
<1>1. /\ pc = "copy" /\ pc' = "copy" /\ UNCHANGED <<files, head, floor, target, mode, mishaps>>
      /\ run' \in Runs(head) /\ run'.done = run.done \cup {e}
      /\ run'.token = run.token /\ run'.from = run.from
      /\ writtenOff' = writtenOff \cup {e}
      /\ failures' = failures + 1 /\ failures < MaxFailures
  BY DEF DropDoc, LifecycleInv, PlainTypes, Runs
<1> USE DEF files, tokenFiles, dlqFiles
<1>2. Tok' = Tok /\ DiskToken' = DiskToken
  BY <1>1 DEF Tok, DiskToken
<1>3. PlainTypes'
  <2>1. failures' \in 0..MaxFailures
    BY <1>1, LifecycleAssumption DEF LifecycleInv, PlainTypes, LifecycleAssumption
  <2> QED BY <1>1, <2>1 DEF LifecycleInv, PlainTypes, HasHappened
<1>4. MemoryInv'
  BY <1>1 DEF LifecycleInv, MemoryInv, BeforeCopy, Opening
<1>5. ModeInv' /\ TokensInv' /\ RetryInv' /\ FollowInv'
  BY <1>1 DEF LifecycleInv, ModeInv, TokensInv, RetryInv, FollowInv
<1>6. Accounted' = Accounted \cup {e}
  BY <1>1 DEF Accounted, Retryable, FailedDocs
<1>7. DealtInv'
  BY <1>1, <1>6 DEF LifecycleInv, DealtInv, DealtWith
<1>8. LossInv'
  BY <1>1, <1>2, <1>6 DEF LifecycleInv, LossInv, PassedBy, Covered
<1>9. QueueInv'
  BY <1>1, <1>2 DEF LifecycleInv, QueueInv, OneEach, InRetry, Safe, Overtaken
<1> QED BY <1>3, <1>4, <1>5, <1>7, <1>8, <1>9 DEF LifecycleInv

LEMMA CaptureTokenKeeps ==
  ASSUME LifecycleInv, CaptureToken
  PROVE  LifecycleInv'
<1> USE DEF CaptureToken, GoTo
<1>1. /\ pc = "capture" /\ pc' = "saveGlobal"
      /\ run' \in Runs(head) /\ run'.token = head /\ run'.state = run.state
      /\ partToken' = head /\ globalToken' = globalToken
  BY TokIsInt DEF LifecycleInv, PlainTypes, Runs
<1>2. /\ writtenOff \subseteq writtenOff'
      /\ \A d \in Docs : target[d] # Absent /\ target[d] < Version(d, head) => d \in writtenOff'
      /\ \A r \in dlq.fails \cup retryTemp.fails :
           r.version < Version(r.doc, head) => r.doc \in writtenOff'
  BY DEF Older, StaleFailures
<1>3. writtenOff' \in SUBSET Docs
  BY VersionsAreInts DEF Older, StaleFailures, LifecycleInv, PlainTypes
<1>4. PlainTypes'
  BY <1>1, <1>3, TokIsInt DEF LifecycleInv, PlainTypes, HasHappened, dlqFiles, bounds
<1>5. MemoryInv'
  BY <1>1, TokIsInt DEF LifecycleInv, MemoryInv, BeforeCopy, Opening, NoToken
<1>6. ModeInv' /\ TokensInv'
  BY <1>1, TokIsInt DEF LifecycleInv, PlainTypes, ModeInv, TokensInv, NoToken
<1>7. Accounted \subseteq Accounted' /\ writtenOff' \subseteq Accounted'
  BY <1>2 DEF Accounted, Retryable, FailedDocs, dlqFiles
<1>8. DealtInv'
  BY <1>1, <1>7 DEF LifecycleInv, DealtInv, DealtWith
<1>9. DiskToken' = head /\ Tok' = head
  BY <1>1, TokIsInt DEF DiskToken, Tok
<1>10. QueueInv'
  <2>1. \A r \in dlq.fails \cup retryTemp.fails : Safe(r, Tok)'
    BY <1>2, <1>9, VersionsAreInts, VersionIsLast, TokIsInt DEF Safe
  <2> QED BY <1>1, <2>1 DEF LifecycleInv, QueueInv, OneEach, InRetry, dlqFiles
<1>11. LossInv'
  <2>1. ASSUME NEW d \in Docs, PassedBy(d)', target[d] = Absent
        PROVE  d \in Accounted
    <3>1. migState \notin Finished
      <4>1. mode \in {"live", "live-only"}
        BY Statics DEF LifecycleInv, PlainTypes
      <4> QED BY <1>1, <2>1, <4>1 DEF LifecycleInv, MemoryInv, ModeInv
    <3>2. d < saved
      BY <2>1, <3>1 DEF PassedBy
    <3>3. d \in DealtWith
      BY <3>2, Statics DEF DealtWith, LifecycleInv, PlainTypes
    <3> QED BY <2>1, <3>3 DEF LifecycleInv, DealtInv
  <2>2. ASSUME NEW d \in Docs, PassedBy(d)'
        PROVE  Covered(d, head)'
    BY <1>2, <1>7, <2>1, <2>2, VersionsAreInts, VersionIsLast, TokIsInt DEF Covered
  <2> QED BY <1>9, <2>2 DEF LossInv, Covered
<1>12. RetryInv' /\ FollowInv'
  BY <1>1 DEF RetryInv, FollowInv
<1> QED BY <1>4, <1>5, <1>6, <1>8, <1>10, <1>11, <1>12 DEF LifecycleInv

LEMMA OpenStreamKeeps ==
  ASSUME LifecycleInv, OpenStream
  PROVE  LifecycleInv'
<1> USE DEF OpenStream, GoTo
<1>1. /\ pc = "open" /\ pc' = "streaming" /\ target' = target /\ migState' = migState
      /\ partToken' = (IF partToken = NoFile THEN NoToken ELSE partToken)
      /\ globalToken' = globalToken
  BY DEF bounds
<1>2. /\ run.token # NoToken => StreamFrom = partToken /\ partToken = run.token /\ partToken >= 0
      /\ run.token = NoToken => StreamFrom = run.from /\ partToken = NoFile /\ globalToken = NoToken
      /\ StreamFrom \in Positions
  <2>1. run.token \in {NoToken} \cup 0..head /\ run.from \in {NoTime} \cup Positions
    BY DEF LifecycleInv, PlainTypes, Runs
  <2>2. run.token # NoToken => partToken = run.token
    BY <1>1 DEF LifecycleInv, MemoryInv, Opening
  <2>3. run.token = NoToken => partToken = NoFile /\ globalToken = NoToken /\ run.from # NoTime
    BY <1>1 DEF LifecycleInv, MemoryInv
  <2> QED
    BY <2>1, <2>2, <2>3, Statics, TokIsInt
    DEF StreamFrom, NoToken, NoFile, NoTime, LifecycleInv, PlainTypes
<1>3. /\ StreamFrom \in Nat /\ run' \in Runs(head) /\ run'.cursor = StreamFrom /\ run'.from = StreamFrom
  <2>1. StreamFrom \in Positions /\ StreamFrom \in Nat
    BY <1>2, Statics
  <2>2. run \in Runs(head)
    BY DEF LifecycleInv, PlainTypes
  <2>3. run' = [run EXCEPT !.from = StreamFrom, !.cursor = StreamFrom]
    OBVIOUS
  <2> QED BY <2>1, <2>2, <2>3 DEF Runs
<1>4. /\ writtenOff \subseteq writtenOff' /\ writtenOff' \in SUBSET Docs
      /\ run.token = NoToken =>
           /\ \A d \in Docs : target[d] < Version(d, StreamFrom) => d \in writtenOff'
           /\ \A r \in dlq.fails \cup retryTemp.fails :
                r.version < Version(r.doc, StreamFrom) => r.doc \in writtenOff'
  BY VersionsAreInts DEF Older, StaleFailures, LifecycleInv, PlainTypes
<1>5. PlainTypes'
  BY <1>1, <1>3, <1>4, TokIsInt DEF LifecycleInv, PlainTypes, HasHappened, dlqFiles, bounds
<1>6. MemoryInv'
  BY <1>1 DEF MemoryInv, BeforeCopy, Opening
<1>7. ModeInv' /\ TokensInv'
  BY <1>1, <1>2, <1>3, TokIsInt DEF LifecycleInv, PlainTypes, ModeInv, TokensInv, NoToken, NoFile
<1>8. Accounted \subseteq Accounted' /\ writtenOff' \subseteq Accounted'
  BY <1>4 DEF Accounted, Retryable, FailedDocs, dlqFiles
<1>9. DealtInv'
  BY <1>1, <1>8 DEF LifecycleInv, DealtInv, DealtWith
<1>10. DiskToken' = DiskToken /\ Tok' = StreamFrom /\ Tok = DiskToken
  BY <1>1, <1>3 DEF DiskToken, Tok, NoFile, NoToken
<1>11. run.token # NoToken => DiskToken = StreamFrom
  BY <1>2 DEF DiskToken
<1>12. QueueInv'
  <2>1. \A r \in dlq.fails \cup retryTemp.fails : Safe(r, Tok) => Safe(r, Tok)'
    BY <1>3, <1>4, <1>10, <1>11, VersionsAreInts, VersionIsLast DEF Safe
  <2>2. \A r : Overtaken(r) => Overtaken(r)'
    BY <1>1 DEF Overtaken, dlqFiles
  <2>3. run.token = NoToken => \A r \in retryTemp.fails : Safe(r, Tok)'
    BY <1>3, <1>4, <1>10, VersionsAreInts, VersionIsLast DEF Safe
  <2> QED BY <1>1, <2>1, <2>2, <2>3 DEF LifecycleInv, QueueInv, OneEach, InRetry, dlqFiles
<1>13. LossInv'
  BY <1>1, <1>8, <1>10 DEF LifecycleInv, LossInv, PassedBy, Covered
<1>14. FollowInv'
  <2>1. \A d \in Docs : d \in Accounted' \/ target[d] >= Version(d, StreamFrom)
    <3>1. CASE run.token = NoToken
      BY <1>3, <1>4, <1>8, <3>1, VersionsAreInts, VersionIsLast
    <3>2. CASE run.token # NoToken
      <4>1. \A d \in Docs : PassedBy(d)
        BY <1>1 DEF LifecycleInv, MemoryInv, PassedBy
      <4>2. DiskToken = StreamFrom /\ DiskToken >= 0
        BY <1>2, <1>11, <3>2
      <4> QED BY <1>8, <4>1, <4>2 DEF LifecycleInv, LossInv, Covered
    <3> QED BY <3>1, <3>2
  <2> QED BY <1>1, <1>3, <2>1 DEF FollowInv, Covered
<1>15. RetryInv'
  BY <1>1 DEF RetryInv
<1> QED BY <1>5, <1>6, <1>7, <1>9, <1>12, <1>13, <1>14, <1>15 DEF LifecycleInv

LEMMA ApplyEventKeeps ==
  ASSUME LifecycleInv, ApplyEvent
  PROVE  LifecycleInv'
<1> DEFINE c == run.cursor
           e == Log[run.cursor + 1]
<1>1. /\ pc = "streaming" /\ pc' = "streaming" /\ c < head /\ c \in Nat /\ c + 1 <= Len(Log)
      /\ run' \in Runs(head) /\ run'.cursor = c + 1 /\ run'.from = run.from
      /\ run.from \in {NoTime} \cup Positions
  <2>1. run \in Runs(head) /\ head \in 0..Len(Log) /\ Len(Log) \in Nat
    BY Statics DEF LifecycleInv, PlainTypes
  <2>2. run.cursor \in Nat /\ run.from \in {NoTime} \cup Positions
    BY <2>1, Statics DEF Runs
  <2>3. pc = "streaming" /\ pc' = "streaming" /\ run.cursor < head
    BY DEF ApplyEvent
  <2>4. c + 1 \in Positions
    BY <2>1, <2>2, <2>3, Statics
  <2>5. run' \in Runs(head) /\ run'.cursor = c + 1 /\ run'.from = run.from
    BY <2>1, <2>4 DEF ApplyEvent, Runs
  <2> QED BY <2>1, <2>2, <2>3, <2>5
<1>2. e \in Docs
  BY <1>1, Statics
<1>3. /\ target' = [target EXCEPT ![e] = c + 1] /\ dlq' = WriteResolved(dlq, e)
      /\ writtenOff' = writtenOff \ ({e} \ FailedDocs(retryTemp))
      /\ retryTemp' = retryTemp
  BY DEF ApplyEvent
<1>4. \A d \in Docs : Version(d, c + 1) = IF d = e THEN c + 1 ELSE Version(d, c)
  BY <1>1, VersionOfNext
<1> HIDE DEF c, e
<1>5. /\ target' \in [Docs -> {Absent} \cup 0..head] /\ target'[e] = c + 1
      /\ \A d \in Docs \ {e} : target'[d] = target[d]
  BY <1>1, <1>2, <1>3, TokIsInt DEF LifecycleInv, PlainTypes
<1>6. /\ dlq' \in DlqFiles /\ OneEach(dlq)' /\ dlq'.fails = {r \in dlq.fails : r.doc # e}
  <2>1. dlq \in DlqFiles /\ OneEach(dlq)
    BY DEF LifecycleInv, PlainTypes, QueueInv
  <2>2. OneEach(dlq') => OneEach(dlq)'
    BY DEF OneEach
  <2> QED BY <1>3, <2>1, <2>2, FailureIsResolved
<1>7. /\ \A d \in Docs \ {e} : d \in Accounted => d \in Accounted'
      /\ \A d \in Docs \ {e} : d \in writtenOff => d \in writtenOff'
      /\ \A r \in retryTemp.fails : r.doc \in writtenOff => r.doc \in writtenOff'
  BY <1>3, <1>6 DEF Accounted, Retryable, FailedDocs
<1>8. PlainTypes'
  BY <1>1, <1>3, <1>5, <1>6 DEF LifecycleInv, PlainTypes, HasHappened, ApplyEvent, tokenFiles, bounds
<1>9. MemoryInv' /\ RetryInv'
  BY <1>1 DEF MemoryInv, BeforeCopy, Opening, RetryInv
<1>10. ModeInv' /\ TokensInv'
  <2>1. target'[e] # Absent
    BY <1>1, <1>5 DEF Absent
  <2>2. partToken' = partToken /\ globalToken' = globalToken /\ partToken \in Int /\ head' = head
    BY TokIsInt DEF LifecycleInv, PlainTypes, ApplyEvent, tokenFiles, NoFile, NoToken
  <2>3. partToken <= c /\ run.from <= c /\ partToken # NoFile
    BY <1>1 DEF LifecycleInv, TokensInv, c
  <2>4. run.from \in Int
    BY <1>1, Statics DEF NoTime
  <2>5. TokensInv'
    BY <1>1, <2>2, <2>3, <2>4, TokIsInt DEF LifecycleInv, TokensInv
  <2>6. ModeInv'
    BY <1>5, <2>1 DEF LifecycleInv, ModeInv, ApplyEvent
  <2> QED BY <2>5, <2>6
<1>11. Tok = c /\ Tok' = c + 1 /\ DiskToken' = DiskToken /\ DiskToken <= c + 1 /\ DiskToken \in Int
  <2>1. Tok = c /\ Tok' = c + 1 /\ DiskToken' = DiskToken
    BY <1>1 DEF Tok, DiskToken, ApplyEvent, tokenFiles, c
  <2>2. DiskToken \in Int /\ DiskToken <= Tok
    BY TokIsInt DEF NoToken
  <2> QED BY <1>1, <2>1, <2>2
<1>12. DealtInv'
  <2>1. DealtWith' = DealtWith /\ DealtWith \subseteq Docs
    BY <1>1, Statics DEF DealtWith, ApplyEvent, LifecycleInv, PlainTypes
  <2>2. target'[e] # Absent
    BY <1>1, <1>5 DEF Absent
  <2> QED BY <1>5, <1>7, <2>1, <2>2 DEF LifecycleInv, DealtInv
<1>13. QueueInv'
  <2>1. \A r \in dlq'.fails : Safe(r, Tok)'
    <3>1. ASSUME NEW r \in dlq'.fails
          PROVE  Safe(r, Tok)'
      <4>1. r \in dlq.fails /\ r.doc # e /\ r.doc \in Docs
        BY <1>6, <3>1, VersionsAreInts
      <4>2. Safe(r, Tok)
        BY <4>1 DEF LifecycleInv, QueueInv
      <4> QED BY <1>4, <1>7, <1>11, <4>1, <4>2 DEF Safe
    <3> QED BY <3>1
  <2>2. \A r \in retryTemp.fails : Safe(r, Tok)' \/ Overtaken(r)'
    <3>1. ASSUME NEW r \in retryTemp.fails, r.doc = e
          PROVE  Safe(r, Tok)' \/ Overtaken(r)'
      <4>1. r.version >= c + 1 \/ target'[r.doc] > r.version
        BY <1>1, <1>5, <3>1, VersionsAreInts
      <4>2. Version(r.doc, c + 1) = c + 1
        BY <1>2, <1>4, <3>1
      <4> QED BY <1>11, <4>1, <4>2 DEF Safe, Overtaken
    <3>2. ASSUME NEW r \in retryTemp.fails, r.doc # e
          PROVE  Safe(r, Tok)' \/ Overtaken(r)'
      <4>1. r.doc \in Docs /\ (Safe(r, Tok) \/ Overtaken(r))
        BY VersionsAreInts DEF LifecycleInv, QueueInv
      <4>2. Safe(r, Tok) => Safe(r, Tok)'
        BY <1>4, <1>7, <1>11, <3>2, <4>1 DEF Safe
      <4>3. Overtaken(r) => Overtaken(r)'
        BY <1>3, <1>5, <1>6, <3>2, <4>1 DEF Overtaken
      <4> QED BY <4>1, <4>2, <4>3
    <3> QED BY <3>1, <3>2
  <2>3. OneEach(retryTemp)'
    BY <1>3 DEF LifecycleInv, QueueInv, OneEach
  <2> QED BY <1>1, <1>3, <1>6, <2>1, <2>2, <2>3 DEF QueueInv, InRetry
<1>14. LossInv'
  <2>1. ASSUME NEW d \in Docs, PassedBy(d)', DiskToken >= 0
        PROVE  Covered(d, DiskToken)'
    <3>1. CASE d = e
      <4>1. Version(e, DiskToken) <= c + 1
        BY <1>11, <2>1, VersionIsLast
      <4> QED BY <1>5, <1>11, <3>1, <4>1 DEF Covered
    <3>2. CASE d # e
      <4>1. Covered(d, DiskToken)
        BY <1>5, <2>1, <3>2 DEF LifecycleInv, LossInv, PassedBy, ApplyEvent
      <4> QED BY <1>5, <1>7, <1>11, <3>2, <4>1 DEF Covered
    <3> QED BY <3>1, <3>2
  <2> QED BY <1>11, <2>1 DEF LossInv
<1>15. FollowInv'
  <2>1. \A d \in Docs : d \in Accounted' \/ target'[d] >= Version(d, c + 1)
    <3>1. \A d \in Docs : Covered(d, c)
      BY <1>1 DEF LifecycleInv, FollowInv, c
    <3> QED BY <1>1, <1>4, <1>5, <1>7, <3>1 DEF Covered
  <2> QED BY <1>1, <2>1 DEF FollowInv, Covered
<1> QED BY <1>8, <1>9, <1>10, <1>12, <1>13, <1>14, <1>15 DEF LifecycleInv

LEMMA ApplyEventFailsKeeps ==
  ASSUME LifecycleInv, ApplyEventFails
  PROVE  LifecycleInv'
<1> DEFINE c == run.cursor
           e == Log[run.cursor + 1]
<1> USE DEF ApplyEventFails, tokenFiles, world
<1>1. /\ pc = "streaming" /\ pc' = "streaming" /\ c < head /\ c \in Nat /\ c + 1 <= Len(Log)
      /\ run' \in Runs(head) /\ run'.cursor = c + 1 /\ run'.from = run.from
      /\ run.from \in {NoTime} \cup Positions
  <2>1. run \in Runs(head) /\ head \in 0..Len(Log) /\ Len(Log) \in Nat
    BY Statics DEF LifecycleInv, PlainTypes
  <2>2. run.cursor \in Nat /\ run.from \in {NoTime} \cup Positions
    BY <2>1, Statics DEF Runs
  <2>3. pc = "streaming" /\ pc' = "streaming" /\ run.cursor < head
    OBVIOUS
  <2>4. c + 1 \in Positions
    BY <2>1, <2>2, <2>3, Statics
  <2>5. run' \in Runs(head) /\ run'.cursor = c + 1 /\ run'.from = run.from
    BY <2>1, <2>4 DEF Runs
  <2> QED BY <2>1, <2>2, <2>3, <2>5
<1>2. e \in Docs
  BY <1>1, Statics
<1>3. dlq' = WriteFailed(dlq, e, c + 1, "incremental")
  OBVIOUS
<1>4. \A d \in Docs : Version(d, c + 1) = IF d = e THEN c + 1 ELSE Version(d, c)
  BY <1>1, VersionOfNext
<1>5. Tok = c /\ Tok' = c + 1 /\ DiskToken' = DiskToken
  BY <1>1 DEF Tok, DiskToken
<1> HIDE DEF c, e
<1>6. /\ QueueInv' /\ Accounted' = Accounted \cup {e}
      /\ dlq' \in DlqFiles /\ HasHappened(dlq)'
  <2>1. pc \notin InRetry \cup {"retryRename"} /\ "incremental" \in Phases
    BY <1>1 DEF InRetry, Phases
  <2>2. \A d \in Docs \ {e} : Version(d, Tok') <= Version(d, Tok)
    BY <1>1, <1>4, <1>5, VersionIsLast
  <2>3. c + 1 \in 0..head /\ Tok' \in Int /\ c + 1 >= Version(e, Tok')
    BY <1>1, <1>2, <1>4, <1>5, TokIsInt
  <2>4. retryTemp' = retryTemp /\ target' = target /\ writtenOff' = writtenOff /\ head' = head /\ pc' = pc
    OBVIOUS
  <2> QED BY <1>2, <1>3, <2>1, <2>2, <2>3, <2>4, NewFailure
<1>7. PlainTypes'
  <2>1. failures' \in 0..MaxFailures
    BY LifecycleAssumption DEF LifecycleInv, PlainTypes, LifecycleAssumption
  <2> QED BY <1>1, <1>6, <2>1 DEF LifecycleInv, PlainTypes, HasHappened
<1>8. MemoryInv' /\ RetryInv'
  BY <1>1 DEF MemoryInv, BeforeCopy, Opening, RetryInv
<1>9. ModeInv' /\ TokensInv'
  <2>1. partToken <= c /\ run.from <= c /\ partToken # NoFile
    BY <1>1 DEF LifecycleInv, TokensInv, c
  <2>2. run.from \in Int /\ partToken \in Int
    <3>1. /\ run \in Runs(head) /\ head \in Positions
          /\ partToken \in {NoFile, NoToken} \cup 0..head
      BY DEF LifecycleInv, PlainTypes
    <3>2. run.from \in {NoTime} \cup Positions
      BY <3>1 DEF Runs
    <3>3. head \in Int /\ NoTime \in Int /\ NoFile \in Int /\ NoToken \in Int
      BY <3>1, Statics DEF NoTime, NoFile, NoToken
    <3>4. run.from \in Int
      BY <3>2, <3>3, Statics
    <3> QED BY <3>1, <3>3, <3>4
  <2>3. TokensInv'
    BY <1>1, <2>1, <2>2, TokIsInt DEF LifecycleInv, TokensInv
  <2> QED BY <2>3 DEF LifecycleInv, ModeInv
<1>10. DealtInv'
  BY <1>1, <1>6 DEF LifecycleInv, DealtInv, DealtWith
<1>11. LossInv'
  BY <1>5, <1>6 DEF LifecycleInv, LossInv, PassedBy, Covered
<1>12. FollowInv'
  <2>1. \A d \in Docs : Covered(d, c)
    BY <1>1 DEF LifecycleInv, FollowInv, c
  <2>2. \A d \in Docs : d \in Accounted' \/ target[d] >= Version(d, c + 1)
    BY <1>4, <1>6, <2>1 DEF Covered
  <2> QED BY <1>1, <2>2 DEF FollowInv, Covered
<1> QED BY <1>6, <1>7, <1>8, <1>9, <1>10, <1>11, <1>12 DEF LifecycleInv

LEMMA DropEventKeeps ==
  ASSUME LifecycleInv, DropEvent
  PROVE  LifecycleInv'
<1> DEFINE c == run.cursor
           e == Log[run.cursor + 1]
<1>1. /\ pc = "streaming" /\ pc' = "streaming" /\ c < head
      /\ dlq' \in {dlq, WriteResolved(dlq, e)} /\ writtenOff' = writtenOff \cup {e}
      /\ run' = [run EXCEPT !.cursor = c + 1]
      /\ failures' = failures + 1 /\ failures < MaxFailures
      /\ UNCHANGED <<globalToken, partToken, migState, saved, retryTemp, head, floor, target, mode, mishaps>>
  BY DEF DropEvent, tokenFiles
<1>2. /\ c \in Nat /\ c + 1 <= Len(Log)
      /\ run' \in Runs(head) /\ run'.cursor = c + 1 /\ run'.from = run.from
      /\ run.from \in {NoTime} \cup Positions
  <2>1. run \in Runs(head) /\ head \in 0..Len(Log) /\ Len(Log) \in Nat
    BY Statics DEF LifecycleInv, PlainTypes
  <2>2. run.cursor \in Nat /\ run.from \in {NoTime} \cup Positions
    BY <2>1, Statics DEF Runs
  <2>3. c + 1 \in Positions
    BY <1>1, <2>1, <2>2, Statics
  <2>4. run' \in Runs(head) /\ run'.cursor = c + 1 /\ run'.from = run.from
    BY <1>1, <2>1, <2>3 DEF Runs
  <2> QED BY <1>1, <2>1, <2>2, <2>4
<1>3. e \in Docs
  BY <1>2, Statics
<1>4. \A d \in Docs : Version(d, c + 1) = IF d = e THEN c + 1 ELSE Version(d, c)
  BY <1>2, VersionOfNext
<1>5. Tok = c /\ Tok' = c + 1 /\ DiskToken' = DiskToken
  BY <1>1, <1>2 DEF Tok, DiskToken
<1> HIDE DEF c, e
<1>6. /\ dlq' \in DlqFiles /\ dlq'.fails \subseteq dlq.fails
      /\ \A r \in dlq.fails : r \in dlq'.fails \/ r.doc = e
  <2>1. dlq \in DlqFiles
    BY DEF LifecycleInv, PlainTypes
  <2> QED BY <1>1, <2>1, FailureIsResolved
<1>7. Accounted \cup {e} \subseteq Accounted'
  BY <1>1, <1>6 DEF Accounted, Retryable, FailedDocs
<1>8. PlainTypes'
  <2>1. failures' \in 0..MaxFailures
    BY <1>1, LifecycleAssumption DEF LifecycleInv, PlainTypes, LifecycleAssumption
  <2>2. HasHappened(dlq)' /\ HasHappened(retryTemp)'
    BY <1>1, <1>6 DEF LifecycleInv, PlainTypes, HasHappened
  <2> QED BY <1>1, <1>2, <1>3, <1>6, <2>1, <2>2 DEF LifecycleInv, PlainTypes
<1>9. MemoryInv' /\ RetryInv'
  BY <1>1 DEF MemoryInv, BeforeCopy, Opening, RetryInv
<1>10. ModeInv' /\ TokensInv'
  <2>1. partToken <= c /\ run.from <= c /\ partToken # NoFile
    BY <1>1 DEF LifecycleInv, TokensInv, c
  <2>2. run.from \in Int /\ partToken \in Int
    <3>1. partToken \in {NoFile, NoToken} \cup 0..head
      BY DEF LifecycleInv, PlainTypes
    <3> QED BY <1>2, <3>1, Statics, TokIsInt DEF NoTime, NoFile, NoToken
  <2>3. TokensInv'
    BY <1>1, <1>2, <2>1, <2>2, TokIsInt DEF LifecycleInv, TokensInv
  <2> QED BY <1>1, <2>3 DEF LifecycleInv, ModeInv
<1>11. DealtInv'
  BY <1>1, <1>7 DEF LifecycleInv, DealtInv, DealtWith
<1>12. LossInv'
  BY <1>1, <1>5, <1>7 DEF LifecycleInv, LossInv, PassedBy, Covered
<1>13. FollowInv'
  <2>1. \A d \in Docs : Covered(d, c)
    BY <1>1 DEF LifecycleInv, FollowInv, c
  <2>2. \A d \in Docs : d \in Accounted' \/ target[d] >= Version(d, c + 1)
    BY <1>4, <1>7, <2>1 DEF Covered
  <2> QED BY <1>1, <1>2, <2>2 DEF FollowInv, Covered
<1>14. QueueInv'
  <2>1. \A r \in dlq.fails \cup retryTemp.fails : Safe(r, Tok) => Safe(r, Tok)'
    <3>1. ASSUME NEW r \in dlq.fails \cup retryTemp.fails, Safe(r, Tok)
          PROVE  Safe(r, Tok)'
      <4>1. CASE r.doc = e
        BY <1>1, <4>1 DEF Safe
      <4>2. CASE r.doc # e
        <5>1. Version(r.doc, c + 1) = Version(r.doc, c)
          BY <1>4, <4>2, VersionsAreInts
        <5> QED BY <1>1, <1>5, <3>1, <5>1 DEF Safe
      <4> QED BY <4>1, <4>2
    <3> QED BY <3>1
  <2>2. \A r \in retryTemp.fails : Overtaken(r) => Overtaken(r)' \/ Safe(r, Tok)'
    BY <1>1, <1>6 DEF Overtaken, Safe
  <2> QED BY <1>1, <1>6, <2>1, <2>2 DEF LifecycleInv, QueueInv, OneEach, InRetry
<1> QED BY <1>8, <1>9, <1>10, <1>11, <1>12, <1>13, <1>14 DEF LifecycleInv

LEMMA SaveTokenKeeps ==
  ASSUME LifecycleInv, SaveToken
  PROVE  LifecycleInv'
<1> USE DEF SaveToken, dlqFiles, world, bounds
<1>1. PICK p \in (run.from + 1)..run.cursor : p > partToken /\ partToken' = p
  OBVIOUS
<1>2. /\ pc = "streaming" /\ run.cursor \in Nat /\ run.from \in Int /\ run.from >= -1
      /\ partToken \in Int /\ partToken >= NoToken /\ globalToken \in Int
  BY Statics, TokIsInt DEF LifecycleInv, PlainTypes, Runs, TokensInv, NoToken, NoFile, NoTime
<1>3. p \in 0..head /\ p <= run.cursor /\ run.from < run.cursor
  BY <1>1, <1>2, TokIsInt DEF LifecycleInv, TokensInv
<1>4. PlainTypes'
  BY <1>1, <1>3 DEF LifecycleInv, PlainTypes, HasHappened
<1>5. MemoryInv' /\ RetryInv'
  BY <1>2 DEF MemoryInv, BeforeCopy, Opening, RetryInv
<1>6. ModeInv' /\ TokensInv'
  BY <1>1, <1>2, <1>3 DEF LifecycleInv, ModeInv, TokensInv, NoFile
<1>7. DiskToken' = p /\ Tok' = Tok /\ Tok = run.cursor
  BY <1>1, <1>2, <1>3 DEF DiskToken, Tok
<1>8. DealtInv' /\ QueueInv' /\ FollowInv'
  BY <1>7 DEF LifecycleInv, DealtInv, DealtWith, Accounted, Retryable, FailedDocs, QueueInv, OneEach, Safe,
     Overtaken, FollowInv, Covered
<1>9. LossInv'
  <2>1. \A d \in Docs : Covered(d, run.cursor)
    BY <1>2 DEF LifecycleInv, FollowInv
  <2>2. \A d \in Docs : Covered(d, p)
    BY <1>2, <1>3, <2>1, CoveredBelow, VersionsAreInts
  <2> QED BY <1>7, <2>2 DEF LossInv, Covered, Accounted, Retryable, FailedDocs
<1> QED BY <1>4, <1>5, <1>6, <1>8, <1>9 DEF LifecycleInv

-----------------------------------------------------------------------------
(* The retry of the dead letter queue.                                     *)

LEMMA StartRetryKeeps ==
  ASSUME LifecycleInv, StartRetry
  PROVE  LifecycleInv'
<1> USE DEF StartRetry, tokenFiles, bounds
<1>1. /\ pc = "down" /\ pc' = "retryRename" /\ target' = target /\ head' = head
      /\ run' \in Runs(head) /\ run'.state = migState /\ migState' = migState
      /\ run'.done = {}
  BY IdleIsTyped, TokIsInt DEF LifecycleInv, PlainTypes, Runs
<1>2. /\ retryTemp' = NoDlq /\ dlq' \in {dlq, retryTemp}
      /\ writtenOff \subseteq writtenOff' /\ writtenOff' \in SUBSET Docs
  BY VersionsAreInts DEF LifecycleInv, PlainTypes, dlqFiles
<1>3. DiskToken' = DiskToken
  BY DEF DiskToken
<1>4. ASSUME retryTemp = NoDlq
      PROVE  Accounted \subseteq Accounted' /\ \A r \in dlq'.fails : Safe(r, Tok)'
  <2>1. dlq' = dlq /\ writtenOff' = writtenOff
    BY <1>4 DEF dlqFiles
  <2>2. Accounted' = Accounted
    BY <1>2, <1>4, <2>1 DEF Accounted, Retryable, FailedDocs
  <2>3. Tok' = Tok
    BY <1>1, <1>3 DEF Tok
  <2> QED BY <2>1, <2>2, <2>3 DEF LifecycleInv, QueueInv, Safe
<1>5. ASSUME retryTemp # NoDlq
      PROVE  Accounted \subseteq Accounted' /\ \A r \in dlq'.fails : Safe(r, Tok)'
  <2>1. /\ dlq' = retryTemp
        /\ \A r \in dlq.fails : r \in retryTemp.fails \/ r.doc \in writtenOff'
        /\ \A r \in retryTemp.fails : target[r.doc] > r.version => r.doc \in writtenOff'
    BY <1>5
  <2>2. Accounted \subseteq Accounted'
    BY <1>2, <2>1 DEF Accounted, Retryable, FailedDocs
  <2>3. \A r \in retryTemp.fails : Safe(r, Tok) \/ Overtaken(r)
    BY DEF LifecycleInv, QueueInv
  <2>4. \A r \in retryTemp.fails : Overtaken(r) => r.doc \in writtenOff'
    BY <2>1 DEF Overtaken
  <2>5. Tok' = Tok
    BY <1>1, <1>3 DEF Tok
  <2> QED BY <1>2, <2>1, <2>2, <2>3, <2>4, <2>5 DEF Safe
<1>6. PlainTypes'
  <2>1. dlq' \in DlqFiles /\ retryTemp' \in DlqFiles /\ HasHappened(dlq)' /\ HasHappened(retryTemp)'
    BY <1>1, <1>2, EmptyQueues DEF LifecycleInv, PlainTypes, HasHappened
  <2> QED BY <1>1, <1>2, <2>1 DEF LifecycleInv, PlainTypes
<1>7. MemoryInv' /\ RetryInv' /\ FollowInv'
  BY <1>1 DEF MemoryInv, BeforeCopy, Opening, RetryInv, FollowInv
<1>8. ModeInv' /\ TokensInv'
  BY <1>1 DEF LifecycleInv, ModeInv, TokensInv
<1>9. DealtInv'
  BY <1>1, <1>4, <1>5 DEF LifecycleInv, DealtInv, DealtWith
<1>10. LossInv'
  BY <1>1, <1>3, <1>4, <1>5 DEF LifecycleInv, LossInv, PassedBy, Covered
<1>11. QueueInv'
  <2>1. OneEach(dlq)' /\ OneEach(retryTemp)'
    BY <1>2, EmptyQueues DEF LifecycleInv, QueueInv, OneEach
  <2> QED BY <1>1, <1>2, <1>4, <1>5, <2>1, EmptyQueues DEF QueueInv, InRetry
<1> QED BY <1>6, <1>7, <1>8, <1>9, <1>10, <1>11 DEF LifecycleInv

LEMMA RenameDLQKeeps ==
  ASSUME LifecycleInv, RenameDLQ
  PROVE  LifecycleInv'
<1> USE DEF RenameDLQ, GoTo, tokenFiles, world, bounds
<1>1. /\ pc = "retryRename" /\ pc' = "retry" /\ run' = run /\ retryTemp = NoDlq
      /\ retryTemp' = dlq /\ dlq'.fails = {} /\ dlq' \in DlqFiles
  BY EmptyQueues DEF LifecycleInv, QueueInv
<1>2. Accounted' = Accounted
  BY <1>1, EmptyQueues DEF Accounted, Retryable, FailedDocs
<1>3. Tok' = Tok
  BY <1>1 DEF Tok, DiskToken
<1>4. PlainTypes'
  BY <1>1 DEF LifecycleInv, PlainTypes, HasHappened
<1>5. MemoryInv' /\ FollowInv'
  BY <1>1 DEF LifecycleInv, MemoryInv, BeforeCopy, Opening, FollowInv
<1>6. ModeInv' /\ TokensInv'
  BY <1>1 DEF LifecycleInv, ModeInv, TokensInv
<1>7. DealtInv'
  BY <1>1, <1>2 DEF LifecycleInv, DealtInv, DealtWith
<1>8. LossInv'
  BY <1>1, <1>2 DEF LifecycleInv, LossInv, DiskToken, PassedBy, Covered
<1>9. QueueInv'
  BY <1>1, <1>3 DEF LifecycleInv, QueueInv, OneEach, InRetry, Safe
<1>10. RetryInv'
  BY <1>1 DEF LifecycleInv, MemoryInv, RetryInv
<1> QED BY <1>4, <1>5, <1>6, <1>7, <1>8, <1>9, <1>10 DEF LifecycleInv

LEMMA RetryAbortsKeeps ==
  ASSUME LifecycleInv, RetryAborts
  PROVE  LifecycleInv'
<1> USE DEF RetryAborts, Exit, tokenFiles, world
<1>1. /\ pc = "retry" /\ pc' = "down" /\ run' = Idle
      /\ dlq' = retryTemp /\ retryTemp' = NoDlq
      /\ mishaps' \in 0..MaxMishaps
  <2>1. pc = "retry" /\ pc' = "down" /\ run' = Idle /\ dlq' = retryTemp /\ retryTemp' = NoDlq
    OBVIOUS
  <2>2. mishaps \in 0..MaxMishaps /\ MaxMishaps \in Nat
    BY LifecycleAssumption DEF LifecycleInv, PlainTypes, LifecycleAssumption
  <2>3. mishaps' = mishaps \/ (mishaps < MaxMishaps /\ mishaps' = mishaps + 1)
    OBVIOUS
  <2> QED BY <2>1, <2>2, <2>3
<1>2. Accounted' = Accounted
  BY <1>1, EmptyQueues DEF Accounted, Retryable, FailedDocs, LifecycleInv, QueueInv, InRetry
<1>3. Tok' = Tok
  BY <1>1 DEF Tok, DiskToken
<1>4. PlainTypes'
  <2>1. run' \in Runs(head)
    BY <1>1, IdleIsTyped, TokIsInt
  <2> QED BY <1>1, <2>1, EmptyQueues DEF LifecycleInv, PlainTypes, HasHappened
<1>5. MemoryInv' /\ FollowInv' /\ RetryInv'
  BY <1>1 DEF MemoryInv, BeforeCopy, Opening, FollowInv, RetryInv
<1>6. ModeInv' /\ TokensInv'
  BY <1>1 DEF LifecycleInv, ModeInv, TokensInv
<1>7. DealtInv'
  BY <1>1, <1>2 DEF LifecycleInv, DealtInv, DealtWith
<1>8. LossInv'
  BY <1>1, <1>2 DEF LifecycleInv, LossInv, DiskToken, PassedBy, Covered
<1>9. QueueInv'
  BY <1>1, <1>3, EmptyQueues DEF LifecycleInv, QueueInv, OneEach, InRetry, Safe
<1> QED BY <1>4, <1>5, <1>6, <1>7, <1>8, <1>9 DEF LifecycleInv

LEMMA RetryDocKeeps ==
  ASSUME LifecycleInv, NEW r \in retryTemp.fails, RetryDoc(r)
  PROVE  LifecycleInv'
<1> DEFINE e == r.doc
           v == Replayed(r)
<1>1. /\ pc = "retry" /\ pc' = "retry" /\ pc \in InRetry
      /\ retryTemp' = retryTemp /\ dlq' = dlq /\ saved' = saved /\ migState' = migState
      /\ globalToken' = globalToken /\ partToken' = partToken /\ head' = head
      /\ target' = [target EXCEPT ![e] = v]
      /\ run' = [run EXCEPT !.done = run.done \cup {e}]
      /\ writtenOff' = IF v = Version(e, head) THEN writtenOff \ {e} ELSE writtenOff
  BY DEF RetryDoc, ToRetry, files, tokenFiles, dlqFiles, InRetry
<1>2. e \in Docs /\ r.version \in 0..head /\ e \in FailedDocs(retryTemp) /\ head \in Nat
  BY VersionsAreInts, TokIsInt DEF FailedDocs
<1>3. /\ v \in 0..head
      /\ ResyncFromSource => v = Version(e, head)
      /\ ~ResyncFromSource => v = r.version
  <2>1. Version(e, head) \in 0..head
    BY <1>2, VersionIsLast
  <2> QED BY <1>2, <2>1 DEF Replayed
<1> HIDE DEF e, v
<1>4. /\ run' \in Runs(head) /\ run'.done = run.done \cup {e} /\ run'.state = run.state
  <2>1. run \in Runs(head)
    BY DEF LifecycleInv, PlainTypes
  <2>2. run.done \cup {e} \in SUBSET Docs
    BY <1>2, <2>1 DEF Runs
  <2> QED BY <1>1, <2>1, <2>2 DEF Runs
<1>5. /\ target' \in [Docs -> {Absent} \cup 0..head] /\ target'[e] = v /\ v # Absent
      /\ \A d \in Docs \ {e} : target'[d] = target[d]
  BY <1>1, <1>2, <1>3 DEF LifecycleInv, PlainTypes, Absent
<1>6. /\ Accounted \subseteq Accounted' /\ e \in Accounted'
      /\ \A d \in Docs \ {e} : d \in writtenOff => d \in writtenOff'
  BY <1>1, <1>2 DEF Accounted, Retryable, FailedDocs
<1>7. Tok' = Tok /\ Tok = DiskToken /\ DiskToken' = DiskToken /\ DiskToken \in Int /\ DiskToken <= head
  BY <1>1, TokIsInt DEF Tok, DiskToken, NoToken
<1>8. Version(e, DiskToken) <= Version(e, head) /\ Version(e, DiskToken) \in Int
  BY <1>2, <1>7, VersionsGrow, VersionIsLast
<1>9. PlainTypes'
  BY <1>1, <1>4, <1>5 DEF LifecycleInv, PlainTypes, HasHappened, RetryDoc, bounds
<1>10. MemoryInv' /\ FollowInv'
  BY <1>1, <1>4 DEF LifecycleInv, MemoryInv, BeforeCopy, Opening, FollowInv
<1>11. ModeInv' /\ TokensInv'
  BY <1>1, <1>5 DEF LifecycleInv, ModeInv, TokensInv, RetryDoc
<1>12. DealtInv'
  <2>1. DealtWith' = DealtWith /\ DealtWith \subseteq Docs
    BY <1>1, Statics DEF DealtWith, LifecycleInv, PlainTypes
  <2> QED BY <1>5, <1>6, <2>1 DEF LifecycleInv, DealtInv
<1>13. LossInv'
  <2>1. ASSUME NEW d \in Docs, PassedBy(d)', DiskToken >= 0, d # e
        PROVE  Covered(d, DiskToken)'
    <3>1. Covered(d, DiskToken)
      BY <1>1, <1>5, <2>1 DEF LifecycleInv, LossInv, PassedBy
    <3> QED BY <1>5, <1>6, <1>7, <2>1, <3>1 DEF Covered
  <2> QED BY <1>6, <1>7, <2>1 DEF LossInv, Covered
<1>14. \A s \in retryTemp.fails : s.doc \in Docs /\ Safe(s, Tok) /\ (s.doc = e => s = r)
  BY <1>1, VersionsAreInts DEF LifecycleInv, QueueInv, OneEach, e
<1>15. QueueInv'
  <2>1. \A s \in retryTemp.fails : Safe(s, Tok)'
    <3>1. ASSUME NEW s \in retryTemp.fails, s.doc # e
          PROVE  Safe(s, Tok)'
      BY <1>6, <1>7, <1>14, <3>1 DEF Safe
    <3>2. Safe(r, Tok)'
      <4>1. CASE v = Version(e, head)
        <5>1. ResyncFromSource \/ r.version >= Version(e, DiskToken)
          BY <1>3, <1>8, <4>1
        <5> QED BY <1>7, <5>1 DEF Safe, e
      <4>2. CASE v # Version(e, head)
        BY <1>1, <1>7, <1>14, <4>2 DEF Safe
      <4> QED BY <4>1, <4>2
    <3> QED BY <1>14, <3>1, <3>2
  <2> QED BY <1>1, <2>1 DEF LifecycleInv, QueueInv, OneEach, InRetry
<1>16. RetryInv'
  <2>1. Caught(e)'
    <3>1. e \in writtenOff' \/ v >= Version(e, DiskToken)
      <4>1. CASE v = Version(e, head)
        BY <1>8, <4>1
      <4>2. CASE v # Version(e, head)
        <5>1. Safe(r, DiskToken) /\ ~ResyncFromSource /\ v = r.version /\ writtenOff' = writtenOff
          BY <1>1, <1>3, <1>7, <1>14, <4>2
        <5> QED BY <5>1 DEF Safe, e
      <4> QED BY <4>1, <4>2
    <3> QED BY <1>5, <1>7, <3>1 DEF Caught
  <2>2. ASSUME NEW d \in FailedDocs(retryTemp) \cap run.done, d # e
        PROVE  Caught(d)'
    <3>1. Caught(d) /\ d \in Docs
      BY <1>1, <1>14, <2>2 DEF LifecycleInv, RetryInv, FailedDocs
    <3> QED BY <1>1, <1>5, <1>6, <1>7, <2>2, <3>1 DEF Caught
  <2> QED BY <1>1, <1>4, <2>1, <2>2 DEF RetryInv
<1> QED BY <1>9, <1>10, <1>11, <1>12, <1>13, <1>15, <1>16 DEF LifecycleInv

LEMMA RetryDocFailsKeeps ==
  ASSUME LifecycleInv, NEW r \in retryTemp.fails, RetryDocFails(r)
  PROVE  LifecycleInv'
<1> USE DEF RetryDocFails, ToRetry, tokenFiles, world
<1>1. /\ pc = "retry" /\ pc' = "retry" /\ pc \in InRetry
      /\ retryTemp' = retryTemp /\ dlq' = WriteFailed(dlq, r.doc, r.version, r.phase)
  BY DEF InRetry
<1>2. /\ r.doc \in Docs /\ r.version \in Positions /\ r.phase \in Phases /\ dlq \in DlqFiles
      /\ r = [doc |-> r.doc, version |-> r.version, phase |-> r.phase]
  BY DEF LifecycleInv, PlainTypes, DlqFiles
<1>3. /\ dlq' \in DlqFiles /\ dlq'.fails = {s \in dlq.fails : s.doc # r.doc} \cup {r}
  BY <1>1, <1>2, FailureIsWritten
<1>4. OneEach(dlq)' /\ dlq'.fails \subseteq retryTemp.fails
  BY <1>1, <1>3 DEF LifecycleInv, QueueInv, OneEach
<1>5. run' \in Runs(head) /\ run'.done = run.done \cup {r.doc} /\ run'.state = run.state
  <2>1. run \in Runs(head)
    BY DEF LifecycleInv, PlainTypes
  <2>2. run.done \cup {r.doc} \in SUBSET Docs
    BY <1>2, <2>1 DEF Runs
  <2> QED BY <2>1, <2>2 DEF Runs
<1>6. FailedDocs(dlq)' = FailedDocs(dlq) \cup {r.doc} /\ Accounted' = Accounted \cup {r.doc}
  BY <1>3 DEF FailedDocs, Accounted, Retryable
<1>7. Tok' = Tok /\ DiskToken' = DiskToken
  BY <1>1 DEF Tok, DiskToken
<1>8. PlainTypes'
  <2>1. failures' \in 0..MaxFailures
    BY LifecycleAssumption DEF LifecycleInv, PlainTypes, LifecycleAssumption
  <2>2. HasHappened(dlq)'
    BY <1>3, VersionsAreInts DEF HasHappened
  <2> QED BY <1>3, <1>5, <2>1, <2>2 DEF LifecycleInv, PlainTypes, HasHappened
<1>9. MemoryInv' /\ FollowInv' /\ ModeInv' /\ TokensInv'
  BY <1>1, <1>5 DEF LifecycleInv, MemoryInv, BeforeCopy, Opening, FollowInv, ModeInv, TokensInv
<1>10. DealtInv' /\ LossInv'
  BY <1>1, <1>6, <1>7 DEF LifecycleInv, DealtInv, DealtWith, LossInv, PassedBy, Covered
<1>11. QueueInv'
  BY <1>1, <1>4, <1>7 DEF LifecycleInv, QueueInv, OneEach, InRetry, Safe
<1>12. RetryInv'
  BY <1>1, <1>5, <1>6, <1>7 DEF LifecycleInv, RetryInv, Caught, FailedDocs
<1> QED BY <1>8, <1>9, <1>10, <1>11, <1>12 DEF LifecycleInv

LEMMA RetryDocCancelledKeeps ==
  ASSUME LifecycleInv, NEW r \in retryTemp.fails, RetryDocCancelled(r)
  PROVE  LifecycleInv'
<1> DEFINE e == r.doc
           v == Replayed(r)
<1>1. /\ pc = "retry" /\ pc' = "retry" /\ pc \in InRetry
      /\ retryTemp' = retryTemp /\ dlq' = dlq /\ saved' = saved /\ migState' = migState
      /\ globalToken' = globalToken /\ partToken' = partToken /\ head' = head
      /\ target' \in {target, [target EXCEPT ![e] = v]}
      /\ run'.done = run.done \cup {e} /\ run'.state = run.state
      /\ writtenOff' = writtenOff \cup {e}
      /\ mishaps' = mishaps + 1 /\ mishaps < MaxMishaps
      /\ UNCHANGED <<floor, mode, failures>>
  BY DEF RetryDocCancelled, ToRetry, files, tokenFiles, dlqFiles, InRetry, LifecycleInv, PlainTypes, Runs
<1>2. e \in Docs /\ r.version \in 0..head /\ head \in Nat
  BY VersionsAreInts, TokIsInt
<1>3. v \in 0..head
  <2>1. Version(e, head) \in 0..head
    BY <1>2, VersionIsLast
  <2> QED BY <1>2, <2>1 DEF Replayed
<1>4. run' \in Runs(head)
  <2>1. run \in Runs(head)
    BY DEF LifecycleInv, PlainTypes
  <2>2. run.done \cup {e} \in SUBSET Docs
    BY <1>2, <2>1 DEF Runs
  <2>3. run' = [run EXCEPT !.done = run.done \cup {e}, !.wrote = TRUE]
    BY DEF RetryDocCancelled
  <2> HIDE DEF e
  <2> QED BY <2>1, <2>2, <2>3 DEF Runs
<1> HIDE DEF e, v
<1>5. /\ target' \in [Docs -> {Absent} \cup 0..head]
      /\ \A d \in Docs \ {e} : target'[d] = target[d]
      /\ target[e] # Absent => target'[e] # Absent
  BY <1>1, <1>2, <1>3 DEF LifecycleInv, PlainTypes, Absent
<1>6. /\ Accounted' = Accounted \cup {e}
  BY <1>1 DEF Accounted, Retryable, FailedDocs
<1>7. Tok' = Tok /\ DiskToken' = DiskToken
  BY <1>1 DEF Tok, DiskToken
<1>8. PlainTypes'
  <2>1. mishaps' \in 0..MaxMishaps
    BY <1>1, LifecycleAssumption DEF LifecycleInv, PlainTypes, LifecycleAssumption
  <2> QED BY <1>1, <1>2, <1>4, <1>5, <2>1 DEF LifecycleInv, PlainTypes, HasHappened
<1>9. MemoryInv' /\ FollowInv'
  BY <1>1 DEF LifecycleInv, MemoryInv, BeforeCopy, Opening, FollowInv
<1>10. ModeInv' /\ TokensInv'
  BY <1>1, <1>5 DEF LifecycleInv, ModeInv, TokensInv
<1>11. DealtInv'
  <2>1. DealtWith' = DealtWith /\ DealtWith \subseteq Docs
    BY <1>1, Statics DEF DealtWith, LifecycleInv, PlainTypes
  <2> QED BY <1>5, <1>6, <2>1 DEF LifecycleInv, DealtInv
<1>12. LossInv'
  <2>1. ASSUME NEW d \in Docs, PassedBy(d)', DiskToken >= 0, d # e
        PROVE  Covered(d, DiskToken)'
    <3>1. Covered(d, DiskToken)
      BY <1>1, <1>5, <2>1 DEF LifecycleInv, LossInv, PassedBy
    <3> QED BY <1>5, <1>6, <1>7, <2>1, <3>1 DEF Covered
  <2> QED BY <1>6, <1>7, <2>1 DEF LossInv, Covered
<1>13. QueueInv'
  BY <1>1, <1>7 DEF LifecycleInv, QueueInv, OneEach, InRetry, Safe
<1>14. RetryInv'
  <2>1. ASSUME NEW d \in FailedDocs(retryTemp) \cap run.done, d # e
        PROVE  Caught(d)'
    <3>1. Caught(d) /\ d \in Docs
      BY <1>1, <2>1, VersionsAreInts DEF LifecycleInv, RetryInv, FailedDocs
    <3> QED BY <1>1, <1>5, <1>7, <2>1, <3>1 DEF Caught
  <2>2. Caught(e)'
    BY <1>1 DEF Caught
  <2> QED BY <1>1, <2>1, <2>2 DEF RetryInv
<1> QED BY <1>8, <1>9, <1>10, <1>11, <1>12, <1>13, <1>14 DEF LifecycleInv

LEMMA FinishRetryKeeps ==
  ASSUME LifecycleInv, FinishRetry
  PROVE  LifecycleInv'
<1> USE DEF FinishRetry, GoTo, tokenFiles, dlqFiles, world, bounds
<1>1. /\ pc = "retry" /\ pc' = "retryRemove" /\ FailedDocs(retryTemp) \subseteq run.done
      /\ migState' = migState \/ (migState = "completed_with_failures" /\ migState' = "completed")
  BY DEF LifecycleInv, MemoryInv
<1>2. PlainTypes'
  BY <1>1 DEF LifecycleInv, PlainTypes, HasHappened, Statuses
<1>3. MemoryInv' /\ FollowInv' /\ ModeInv' /\ TokensInv'
  BY <1>1 DEF LifecycleInv, MemoryInv, BeforeCopy, Opening, FollowInv, ModeInv, TokensInv
<1>4. DealtInv'
  BY <1>1 DEF LifecycleInv, DealtInv, DealtWith, Accounted, Retryable, FailedDocs
<1>5. LossInv'
  BY <1>1 DEF LifecycleInv, LossInv, PassedBy, Finished, Covered, DiskToken, Accounted, Retryable, FailedDocs
<1>6. QueueInv'
  BY <1>1 DEF LifecycleInv, QueueInv, OneEach, InRetry, Safe, Tok, DiskToken
<1>7. RetryInv'
  BY <1>1 DEF LifecycleInv, RetryInv, Caught, FailedDocs, DiskToken
<1> QED BY <1>2, <1>3, <1>4, <1>5, <1>6, <1>7 DEF LifecycleInv

LEMMA RemoveTempKeeps ==
  ASSUME LifecycleInv, RemoveTemp
  PROVE  LifecycleInv'
<1> USE DEF RemoveTemp, Exit, tokenFiles, world, bounds
<1>1. /\ pc = "retryRemove" /\ pc' = "down" /\ retryTemp' = NoDlq /\ dlq' = dlq /\ run' = Idle
  OBVIOUS
<1>2. \A d \in Docs : d \in Accounted =>
        d \in Accounted' \/ (target[d] # Absent /\ target[d] >= Version(d, DiskToken))
  BY <1>1 DEF LifecycleInv, RetryInv, Caught, Accounted, Retryable, FailedDocs
<1>3. PlainTypes'
  <2>1. run' \in Runs(head)
    BY <1>1, IdleIsTyped, TokIsInt
  <2> QED BY <1>1, <2>1, EmptyQueues DEF LifecycleInv, PlainTypes, HasHappened
<1>4. MemoryInv' /\ FollowInv' /\ ModeInv' /\ TokensInv' /\ RetryInv'
  BY <1>1 DEF LifecycleInv, MemoryInv, BeforeCopy, Opening, FollowInv, ModeInv, TokensInv, RetryInv
<1>5. DealtInv'
  <2>1. DealtWith' = DealtWith /\ DealtWith \subseteq Docs
    BY <1>1, Statics DEF DealtWith, LifecycleInv, PlainTypes
  <2> QED BY <1>2, <2>1 DEF LifecycleInv, DealtInv
<1>6. LossInv'
  BY <1>2 DEF LifecycleInv, LossInv, PassedBy, Covered, DiskToken
<1>7. QueueInv'
  BY <1>1, EmptyQueues DEF LifecycleInv, QueueInv, OneEach, InRetry, Safe, Tok, DiskToken
<1> QED BY <1>3, <1>4, <1>5, <1>6, <1>7 DEF LifecycleInv

-----------------------------------------------------------------------------
(* The theorems.                                                           *)

LEMMA LifecycleStarts ==
  LifecycleInit => LifecycleInv
<1> SUFFICES ASSUME LifecycleInit PROVE LifecycleInv
  OBVIOUS
<1> USE DEF LifecycleInit
<1>1. mode \in {"live", "live-only"} /\ head = 0 /\ 0 \in Positions /\ NumDocs \in Nat
  BY Statics
<1>2. target \in [Docs -> {Absent, 0}] /\ (mode = "live-only" => \A d \in Docs : target[d] = 0)
  BY <1>1
<1>3. run = Idle /\ Idle \in Runs(0)
  BY IdleIsTyped
<1>4. PlainTypes
  BY <1>1, <1>2, <1>3, EmptyQueues, LifecycleAssumption
  DEF PlainTypes, HasHappened, Statuses, LifecycleAssumption
<1>5. MemoryInv /\ ModeInv /\ TokensInv /\ RetryInv /\ FollowInv
  BY <1>2 DEF MemoryInv, BeforeCopy, Opening, ModeInv, TokensInv, RetryInv, FollowInv, Absent
<1>6. DealtInv /\ LossInv
  BY DEF DealtInv, DealtWith, LossInv, DiskToken, NoFile, NoToken
<1>7. QueueInv
  BY EmptyQueues DEF QueueInv, OneEach, InRetry
<1> QED BY <1>4, <1>5, <1>6, <1>7 DEF LifecycleInv

LEMMA LifecycleSteps ==
  LifecycleInv /\ [LifecycleNext]_lifecycleVars => LifecycleInv'
<1> SUFFICES ASSUME LifecycleInv, [LifecycleNext]_lifecycleVars PROVE LifecycleInv'
  OBVIOUS
<1>1. ASSUME NEW reason, Exit(reason), UNCHANGED <<files, world, mode, failures>>,
             mishaps' \in 0..MaxMishaps
      PROVE  LifecycleInv'
  BY <1>1, ExitKeeps
<1>2. CASE Gates
  <2>1. mishaps' = mishaps => mishaps' \in 0..MaxMishaps
    BY DEF LifecycleInv, PlainTypes
  <2>2. RefuseFailures \/ RefuseEmptyCheckpoint \/ RefuseAtGates => LifecycleInv'
    BY <1>1, <2>1 DEF RefuseFailures, RefuseEmptyCheckpoint, RefuseAtGates, bounds
  <2> QED
    BY <1>2, <2>2, StartLiveKeeps, BackupDLQKeeps, ResetStateKeeps, KeepDLQKeeps, ScanCheckpointsKeeps,
       PassGatesKeeps, CaptureTokenKeeps, SaveGlobalTokenKeeps DEF Gates
<1>3. CASE Copy
  BY <1>3, BeginCopyKeeps, SaveProgressKeeps, FinishCopyKeeps, RecordOutcomeKeeps, CopyDocKeeps,
     CopyDocFailsKeeps, DropDocKeeps DEF Copy
<1>4. CASE Follow
  BY <1>4, OpenStreamKeeps, HistoryLostKeeps, DeleteGlobalTokenKeeps, DeleteStateKeeps, ApplyEventKeeps,
     ApplyEventFailsKeeps, DropEventKeeps, SaveTokenKeeps DEF Follow
<1>5. CASE Retry
  <2>1. NothingToRetry => LifecycleInv'
    BY <1>1 DEF NothingToRetry, bounds, LifecycleInv, PlainTypes
  <2> QED
    BY <1>5, <2>1, RenameDLQKeeps, FinishRetryKeeps, RemoveTempKeeps, RetryAbortsKeeps, RetryDocKeeps,
       RetryDocFailsKeeps, RetryDocCancelledKeeps DEF Retry
<1>6. CASE Operator
  BY <1>6, ClearTokensKeeps, ClearStateKeeps, ClearQueueKeeps DEF Operator
<1>7. CASE Crash
  <2>1. mishaps' \in 0..MaxMishaps
    BY <1>7, LifecycleAssumption DEF Crash, LifecycleInv, PlainTypes, LifecycleAssumption
  <2> QED BY <1>1, <1>7, <2>1 DEF Crash
<1>8. CASE UNCHANGED lifecycleVars
  <2>1. UNCHANGED <<globalToken, partToken, migState, saved, dlq, retryTemp, head, floor, target, mode, pc, run,
                    refusal, failures, mishaps, writtenOff>>
    BY <1>8 DEF lifecycleVars, files, tokenFiles, dlqFiles, world, bounds
  <2> QED
    BY <2>1 DEF LifecycleInv, PlainTypes, HasHappened, MemoryInv, ModeInv, TokensInv, DealtInv, DealtWith,
       Accounted, Retryable, FailedDocs, QueueInv, OneEach, Safe, Tok, DiskToken, Overtaken, RetryInv, Caught,
       LossInv, PassedBy, Covered, FollowInv
<1> QED
  BY <1>2, <1>3, <1>4, <1>5, <1>6, <1>7, <1>8, StartRetryKeeps, CleaningKeeps, StopStreamingKeeps,
     CopyInterruptedKeeps, WorldKeeps DEF LifecycleNext

\* The inductive invariant, over every restart.
THEOREM LifecycleInvHolds ==
  LifecycleSafetySpec => []LifecycleInv
<1>1. LifecycleInit => LifecycleInv
  BY LifecycleStarts
<1>2. LifecycleInv /\ [LifecycleNext]_lifecycleVars => LifecycleInv'
  BY LifecycleSteps
<1> QED BY <1>1, <1>2, PTL DEF LifecycleSafetySpec

\* Every variable keeps its type, no token on disk is ahead of the source, and
\* the stream starts at a position of the log (StartReplication).
THEOREM LifecycleTypeCorrect ==
  LifecycleSpec => []LifecycleTypeOK
<1>1. LifecycleInv => LifecycleTypeOK
  BY Statics DEF LifecycleInv, PlainTypes, LifecycleTypeOK, Runs, DlqFiles, Phases, LifecycleAssumption
<1> QED BY <1>1, LifecycleInvHolds, PTL DEF LifecycleSpec

\* However often the process is restarted, refused, cut off or told to retry,
\* the files on disk account for every document: what a restart neither copies
\* nor replays is in a queue or is one of those given up where the code does so.
THEOREM NothingIsLost ==
  LifecycleSpec => []NothingLost
<1>1. LifecycleInv => NothingLost
  <2>1. ASSUME LifecycleInv, DiskToken >= 0, NEW d \in NotCopiedAgain \cap Older(DiskToken)
        PROVE  d \in Retryable \cup writtenOff
    <3>1. d \in Docs /\ target[d] < Version(d, DiskToken) /\ PassedBy(d)
      BY <2>1 DEF NotCopiedAgain, Older, PassedBy
    <3>2. Covered(d, DiskToken)
      BY <2>1, <3>1 DEF LifecycleInv, LossInv
    <3>3. target[d] \in Int /\ Version(d, DiskToken) \in Int
      BY <2>1, <3>1, VersionsAreInts, VersionIsLast, TokIsInt DEF NoToken
    <3> QED BY <3>1, <3>2, <3>3 DEF Covered, Accounted
  <2> QED BY <2>1 DEF NothingLost
<1> QED BY <1>1, LifecycleInvHolds, PTL DEF LifecycleSpec

\* A pair that streams has brought every document up to the events it has
\* dealt with, or can retry it, or has given it up (client_stream.go).
THEOREM FollowersAreCurrent ==
  LifecycleSpec => []FollowedDocumentsAreCurrent
<1>1. LifecycleInv => FollowedDocumentsAreCurrent
  <2>1. ASSUME LifecycleInv, pc = "streaming", NEW d \in Older(run.cursor)
        PROVE  d \in Retryable \cup writtenOff
    <3>1. d \in Docs /\ target[d] < Version(d, run.cursor) /\ Covered(d, run.cursor)
      BY <2>1 DEF Older, LifecycleInv, FollowInv
    <3>2. run.cursor \in Nat
      BY <2>1, Statics DEF LifecycleInv, PlainTypes, Runs
    <3> QED BY <2>1, <3>1, <3>2, VersionsAreInts, VersionIsLast DEF Covered, Accounted
  <2> QED BY <2>1 DEF FollowedDocumentsAreCurrent
<1> QED BY <1>1, LifecycleInvHolds, PTL DEF LifecycleSpec
=============================================================================
