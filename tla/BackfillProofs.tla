--------------------------- MODULE BackfillProofs ---------------------------
(***************************************************************************)
(* Proofs about Backfill, for every collection, partition count, worker    *)
(* pool, channel, batch size and number of attempts: a copy that reports   *)
(* success has settled every document, a tracker forgets a batch only when *)
(* its documents are settled, the attempts together are a CollectionCopy,  *)
(* and whatever files a crash leaves, the next attempt reads what is not   *)
(* settled.                                                                *)
(*                                                                         *)
(* The first part follows a document: the plan reads it or it is accounted *)
(* for (PlanInv); until it is settled it is before the reader, in its      *)
(* hands, in the channel or with a worker, or something broke (FlowInv);   *)
(* a partition that completes has nothing left on its way (EndInv).        *)
(*                                                                         *)
(* The second follows the checkpoints: the cut of a collection is a chain  *)
(* of ranges (CutIsAChain); a checkpoint covers what is accounted for, and *)
(* what is below a document its partition reads is read by the partition   *)
(* too (CopyInv); a checkpoint of several partitions has the bounds of its *)
(* partition in the cut (BoundsInv), so that the ranges of a set of files  *)
(* have no gap (EveryPlanReadsTheRest).                                    *)
(***************************************************************************)
EXTENDS Backfill, FiniteSetTheorems, FunctionTheorems, SequenceTheorems, WellFoundedInduction, TLAPS

-----------------------------------------------------------------------------
(* The order of the _ids.                                                  *)

Ids == [t : IdTypes, v : Int]

LEMMA TypeRanks ==
  /\ IdTypes = {"number", "string", "objectId"}
  /\ TypeRank("number") = 1 /\ TypeRank("string") = 2 /\ TypeRank("objectId") = 3
<1>1. /\ DOMAIN TypeOrder = {1, 2, 3}
      /\ TypeOrder[1] = "number" /\ TypeOrder[2] = "string" /\ TypeOrder[3] = "objectId"
  BY DEF TypeOrder
<1>2. IdTypes = {"number", "string", "objectId"}
  BY <1>1 DEF IdTypes
<1> QED BY <1>1, <1>2 DEF TypeRank

LEMMA IdOrder ==
  ASSUME NEW a \in Ids, NEW b \in Ids, NEW c \in Ids
  PROVE  /\ a # NoId /\ ~IdLess(a, a)
         /\ IdLess(a, b) /\ IdLess(b, c) => IdLess(a, c)
         /\ IdLess(a, b) \/ IdLess(b, a) \/ a = b
         /\ a.t = b.t => (IdLess(a, b) <=> a.v < b.v)
<1>1. /\ a.t \in IdTypes /\ b.t \in IdTypes /\ c.t \in IdTypes
      /\ a.v \in Int /\ b.v \in Int /\ c.v \in Int
  BY DEF Ids
<1>2. a.t = b.t /\ a.v = b.v => a = b
  BY DEF Ids
<1>3. /\ TypeRank(a.t) \in {1, 2, 3} /\ TypeRank(b.t) \in {1, 2, 3} /\ TypeRank(c.t) \in {1, 2, 3}
      /\ TypeRank(a.t) = TypeRank(b.t) => a.t = b.t
      /\ TypeRank(b.t) = TypeRank(c.t) => b.t = c.t
  BY <1>1, TypeRanks
<1>4. a # NoId
  BY <1>1, TypeRanks DEF NoId
<1> HIDE DEF Ids
<1> QED BY <1>1, <1>2, <1>3, <1>4 DEF IdLess

LEMMA LeastNumber ==
  ASSUME NEW S \in SUBSET Nat, S # {}
  PROVE  \E m \in S : \A x \in S : m <= x
<1> DEFINE less == {p \in Nat \X Nat : p[1] < p[2]}
<1>1. IsWellFoundedOn(less, Nat)
  <2>1. OpToRel(<, Nat) = less
    BY DEF OpToRel
  <2> QED BY <2>1, NatLessThanWellFounded
<1>2. \E m \in S : \A x \in S : <<x, m>> \notin less
  BY <1>1, WFMin
<1>3. \A x, m \in Nat : <<x, m>> \in less \/ m <= x
  OBVIOUS
<1> HIDE DEF less
<1> QED BY <1>2, <1>3

(* The rank of an _id in a set: how many of the set are less.              *)
Rank(S, x) == Cardinality({y \in S : IdLess(y, x)})

LEMMA Ranks ==
  ASSUME NEW S \in SUBSET Ids, IsFiniteSet(S)
  PROVE  /\ Cardinality(S) \in Nat
         /\ \A x \in S : Rank(S, x) \in Nat /\ Rank(S, x) < Cardinality(S)
         /\ \A x, y \in S : IdLess(x, y) => Rank(S, x) < Rank(S, y)
         /\ \A x, y \in S : Rank(S, x) = Rank(S, y) => x = y
<1>1. Cardinality(S) \in Nat
  BY FS_CardinalityType
<1>2. ASSUME NEW x \in Ids
      PROVE  IsFiniteSet({y \in S : IdLess(y, x)}) /\ Rank(S, x) \in Nat
  <2>1. IsFiniteSet({y \in S : IdLess(y, x)})
    BY FS_Subset
  <2> QED BY <2>1, FS_CardinalityType DEF Rank
<1>3. ASSUME NEW x \in S PROVE Rank(S, x) < Cardinality(S)
  <2> DEFINE below == {y \in S : IdLess(y, x)}
  <2>1. below \subseteq S /\ below # S /\ IsFiniteSet(below)
    BY <1>2, IdOrder
  <2> HIDE DEF below
  <2>2. Cardinality(below) < Cardinality(S)
    BY <1>1, <2>1, FS_Subset, FS_CardinalityType
  <2> QED BY <2>2 DEF Rank, below
<1>4. ASSUME NEW x \in S, NEW y \in S, IdLess(x, y) PROVE Rank(S, x) < Rank(S, y)
  <2> DEFINE lower == {z \in S : IdLess(z, x)}
             upper == {z \in S : IdLess(z, y)}
  <2>1. lower \subseteq upper
    BY <1>4, IdOrder
  <2>2. x \in upper /\ x \notin lower
    BY <1>4, IdOrder
  <2>3. IsFiniteSet(upper) /\ IsFiniteSet(lower)
    BY <1>2
  <2> HIDE DEF lower, upper
  <2>4. Cardinality(lower) < Cardinality(upper)
    BY <2>1, <2>2, <2>3, FS_Subset, FS_CardinalityType
  <2> QED BY <2>4 DEF Rank, lower, upper
<1>5. ASSUME NEW x \in S, NEW y \in S, Rank(S, x) = Rank(S, y) PROVE x = y
  <2>1. Rank(S, x) \in Nat /\ Rank(S, y) \in Nat
    BY <1>2
  <2> QED BY <1>4, <1>5, <2>1, IdOrder
<1>6. \A x \in S : Rank(S, x) \in Nat /\ Rank(S, x) < Cardinality(S)
  BY <1>2, <1>3
<1> QED BY <1>1, <1>4, <1>5, <1>6

LEMMA LeastId ==
  ASSUME NEW S \in SUBSET Ids, IsFiniteSet(S), S # {}
  PROVE  \E m \in S : Rank(S, m) = 0
<1> DEFINE ranks == {Rank(S, x) : x \in S}
<1>1. ranks \in SUBSET Nat /\ ranks # {}
  BY Ranks
<1>2. PICK m \in S : \A r \in ranks : Rank(S, m) <= r
  BY <1>1, LeastNumber
<1>3. \A x \in S : Rank(S, m) <= Rank(S, x)
  BY <1>2
<1>4. \A x \in S : Rank(S, x) \in Nat /\ (IdLess(x, m) => Rank(S, x) < Rank(S, m))
  BY Ranks
<1>5. {y \in S : IdLess(y, m)} = {}
  BY <1>3, <1>4
<1> QED BY <1>5, FS_EmptySet DEF Rank

LEMMA MaxIdIsGreatest ==
  ASSUME NEW S \in SUBSET Ids, IsFiniteSet(S), S # {}
  PROVE  MaxId(S) \in S /\ \A x \in S : x = MaxId(S) \/ IdLess(x, MaxId(S))
<1> DEFINE n == Cardinality(S)
           depths == {n - Rank(S, x) : x \in S}
<1>1. n \in Nat /\ \A x \in S : Rank(S, x) \in Nat /\ Rank(S, x) < n
  BY Ranks
<1>2. \A x, y \in S : IdLess(x, y) => Rank(S, x) < Rank(S, y)
  BY Ranks
<1> HIDE DEF n
<1>3. depths \in SUBSET Nat /\ depths # {}
  BY <1>1
<1>4. PICK m \in S : \A r \in depths : n - Rank(S, m) <= r
  BY <1>3, LeastNumber
<1>5. \A x \in S : n - Rank(S, m) <= n - Rank(S, x)
  BY <1>4
<1>6. \A x \in S : ~IdLess(m, x)
  BY <1>1, <1>2, <1>5
<1>7. MaxId(S) \in S /\ \A x \in S : ~IdLess(MaxId(S), x)
  BY <1>6 DEF MaxId
<1> QED BY <1>7, IdOrder

-----------------------------------------------------------------------------
(* Partitions are numbered from one.                                       *)
Numbered(f) == Len(f) \in Nat /\ DOMAIN f = 1..Len(f)

LEMMA RangesAreNumbered ==
  ASSUME NEW c, NEW bounds, NEW n \in Nat \ {0}
  PROVE  Numbered(Ranges(c, bounds, n)) /\ Len(Ranges(c, bounds, n)) = n
BY DEF Ranges, Numbered

LEMMA CutIsNumbered ==
  ASSUME NEW S, NEW n \in Nat \ {0}
  PROVE  Numbered(Partition(S, "auto", S, MaxId(S), n, n, TRUE))
<1>1. \A filter : Numbered(<<filter>>)
  BY DEF Numbered
<1>2. \A c, t, least, greatest : Numbered(MinMaxRanges(c, t, least, greatest, n))
  BY <1>1, RangesAreNumbered DEF MinMaxRanges
<1>3. \A sample : Numbered(SampledRanges(sample, n))
  BY RangesAreNumbered DEF SampledRanges
<1>4. \A t : Numbered(TypedPartitions(t, S, S, n, n))
  BY <1>2, <1>3 DEF TypedPartitions, MinMaxPartitions
<1>5. Numbered(GroupedByType(S, S, n))
  <2>1. \A slices, types : Numbered([i \in 1..n |-> UNION {slices[t][i] : t \in types}])
    BY DEF Numbered
  <2> QED BY <1>1, <2>1 DEF GroupedByType, Numbered
<1>6. \A cut, seed : Numbered(cut) => Numbered(CapFinalPartition(cut, S, seed))
  BY DEF CapFinalPartition, Numbered
<1> QED BY <1>1, <1>4, <1>5, <1>6 DEF Partition

LEMMA PlanIsNumbered ==
  ASSUME BackfillAssumption, docs \in Sources, docs # {},
         NEW mode \in {"sequential", "parallel"}, NEW n \in Nat \ {0}, NEW types,
         mode = "sequential" => n = 1,
         mode = "parallel" => n \in Counts /\ n <= Cardinality(docs)
  PROVE  Numbered(Plan(mode, n, types).filters)
<1>1. \A filter : Numbered(<<filter>>)
  BY DEF Numbered
<1>2. ASSUME mode = "parallel" PROVE Numbered(Cut(n))
  <2>1. CutOf[docs] = [m \in {k \in Counts : k <= Cardinality(docs)} |->
                         Partition(docs, "auto", docs, MaxId(docs), m, m, TRUE)]
    BY DEF CutOf
  <2>2. Cut(n) = Partition(docs, "auto", docs, MaxId(docs), n, n, TRUE)
    BY <1>2, <2>1 DEF Cut
  <2> QED BY <2>2, CutIsNumbered
<1>3. Numbered(Direct(n).filters)
  BY DEF Direct, DirectFilters, Numbered
<1>4. Numbered(Fresh(mode, n, types).filters)
  BY <1>1, <1>2 DEF Fresh
<1>5. mode = "sequential" => Numbered(SequentialResample.filters)
  BY <1>1 DEF SequentialResample
<1>6. mode = "parallel" => Numbered(ParallelResample(n).filters)
  <2>1. ASSUME mode = "parallel" PROVE Numbered(ParallelResample(n).filters)
    <3>1. ParallelResample(n).filters = ClampPartitions(Cut(n), PlannedMin(files))
      BY DEF ParallelResample
    <3>2. \A raw, gmin : Numbered(raw) => Numbered(ClampPartitions(raw, gmin))
      BY DEF ClampPartitions, Numbered
    <3> QED BY <1>2, <2>1, <3>1, <3>2
  <2> QED BY <2>1
<1>7. EffectiveMode(mode, n) \in {"direct", "fresh", "resample"}
  BY DEF EffectiveMode, PlanMode
<1> QED BY <1>3, <1>4, <1>5, <1>6, <1>7 DEF Plan

-----------------------------------------------------------------------------
(* The invariant of an attempt.                                            *)

Batches ==
  [ids : SUBSET docs, max : {MaxPerType(b) : b \in SUBSET docs}, acked : BOOLEAN]
ReaderStates ==
  [last : Ids \cup {NoId}, ids : SUBSET docs,
   state : {"reading", "closed", "completed", "failed"}]
WorkerStates == [at : {"idle", "writing", "written", "gone"}, ids : SUBSET docs]

AttemptTypes ==
  /\ docs \in Sources /\ cancelled \in BOOLEAN
  /\ Numbered(parts)
  /\ rd \in [Parts -> ReaderStates] /\ chan \in [Parts -> Seq(SUBSET docs)]
  /\ work \in [Parts -> [Workers -> WorkerStates]] /\ err \in [Parts -> BOOLEAN]
  /\ pend \in [Parts -> Seq(Batches)]

(* A document of a partition is before its reader, or in its hands, in the *)
(* channel, or with a worker who has not written it.                       *)
OnItsWay(p, id) ==
  \/ id \in Rest(p) \/ id \in rd[p].ids
  \/ \E i \in DOMAIN chan[p] : id \in chan[p][i]
  \/ \E w \in Workers : work[p][w].at = "writing" /\ id \in work[p][w].ids

(* The partition has met an error, or its context has ended.               *)
Broken(p) == err[p] \/ cancelled \/ rd[p].state = "failed"

(* A document is settled, or on its way, or something broke: a worker      *)
(* leaves its batch for an error only, and refused documents are dropped   *)
(* at the end of the context only.                                         *)
FlowInv(p) ==
  /\ \A id \in Selected(docs, parts[p]) : id \in Settled \/ OnItsWay(p, id) \/ Broken(p)
  /\ \A w \in Workers : work[p][w].at = "gone" => Broken(p)

(* A reader that ended has handed on everything, and a partition completes *)
(* when everything is settled, or takes doneChan for a success though      *)
(* something broke.                                                        *)
EndInv(p) ==
  /\ rd[p].state \in {"closed", "completed"} => rd[p].ids = {} /\ Rest(p) = {}
  /\ rd[p].state = "completed" => Selected(docs, parts[p]) \subseteq Settled \cup overlooked

(* What the tracker holds: a batch it no longer knows, or knows as         *)
(* acknowledged, is settled.                                               *)
Pending(p, id) == \E i \in DOMAIN pend[p] : id \in pend[p][i].ids
TrackInv(p) ==
  /\ \A id \in Selected(docs, parts[p]) \ Rest(p) : id \in Settled \/ Pending(p, id)
  /\ \A i \in DOMAIN pend[p] : pend[p][i].acked => pend[p][i].ids \subseteq Settled
  /\ \A w \in Workers : work[p][w].at = "written" => work[p][w].ids \subseteq Settled \/ cancelled

PartInv(p) == FlowInv(p) /\ EndInv(p) /\ TrackInv(p)

(* What no partition of an attempt reads is settled or was left out.       *)
PlanInv ==
  IF outcome = "none" THEN parts = <<>>
  ELSE docs \subseteq ReadBy(parts) \cup Settled \cup skipped

BackfillInv ==
  /\ AttemptTypes /\ PlanInv /\ SuccessMeansSettled
  /\ \A p \in Parts : PartInv(p)

(* A step inside one partition.                                            *)
Unmoved(p) ==
  /\ rd'[p] = rd[p] /\ chan'[p] = chan[p] /\ work'[p] = work[p] /\ err'[p] = err[p]
  /\ pend'[p] = pend[p]

LEMMA UnmovedKeeps ==
  ASSUME BackfillInv, NEW p \in Parts, Unmoved(p), UNCHANGED <<docs, parts>>,
         Settled \subseteq Settled', overlooked \subseteq overlooked', cancelled' \in {cancelled, TRUE}
  PROVE  PartInv(p)'
<1>0. PartInv(p) /\ cancelled \in BOOLEAN
  BY DEF BackfillInv, AttemptTypes
<1>1. Rest(p)' = Rest(p) /\ Selected(docs, parts[p])' = Selected(docs, parts[p])
  BY DEF Rest, Selected, Unmoved
<1>2. \A id : OnItsWay(p, id)' <=> OnItsWay(p, id)
  BY <1>1 DEF OnItsWay, Unmoved
<1>3. Broken(p) => Broken(p)'
  BY <1>0 DEF Broken, Unmoved
<1>4. FlowInv(p)'
  BY <1>0, <1>1, <1>2, <1>3 DEF PartInv, FlowInv, Unmoved
<1>5. EndInv(p)'
  BY <1>0, <1>1 DEF PartInv, EndInv, Unmoved
<1>6. TrackInv(p)'
  <2>1. \A id : Pending(p, id)' <=> Pending(p, id)
    BY DEF Pending, Unmoved
  <2> QED BY <1>0, <1>1, <2>1 DEF PartInv, TrackInv, Unmoved
<1> QED BY <1>4, <1>5, <1>6 DEF PartInv

LEMMA PartitionStepKeeps ==
  ASSUME BackfillInv, NEW p \in Parts, UNCHANGED <<docs, parts, skipped, cancelled>>,
         \A r \in Parts : r # p => Unmoved(r),
         Settled \subseteq Settled', overlooked \subseteq overlooked', outcome' \in {outcome, "failed"},
         AttemptTypes', PartInv(p)'
  PROVE  BackfillInv'
<1>1. \A r \in Parts : PartInv(r)'
  <2>1. ASSUME NEW r \in Parts, r # p PROVE PartInv(r)'
    BY <2>1, UnmovedKeeps DEF BackfillInv, AttemptTypes
  <2> QED BY <2>1
<1>2. PlanInv'
  <2>1. outcome # "none"
    BY DEF BackfillInv, PlanInv, Parts
  <2> QED BY <2>1 DEF BackfillInv, PlanInv, ReadBy
<1>3. SuccessMeansSettled'
  BY DEF BackfillInv, SuccessMeansSettled, Unsettled
<1> QED BY <1>1, <1>2, <1>3 DEF BackfillInv, Parts

(* What a save does to the pending batches of its tracker: it forgets only *)
(* acknowledged ones.                                                      *)
Forgets(q, r) ==
  /\ r \in Seq(Batches)
  /\ \A j \in DOMAIN r : \E i \in DOMAIN q : r[j] = q[i]
  /\ \A i \in DOMAIN q : q[i].acked \/ \E j \in DOMAIN r : r[j] = q[i]

LEMMA FirstOpen ==
  ASSUME NEW n \in Nat, NEW T \in SUBSET (1..n), T # {}
  PROVE  /\ (CHOOSE i \in T : \A j \in T : i <= j) \in T
         /\ \A j \in T : (CHOOSE i \in T : \A j2 \in T : i <= j2) <= j
<1>1. T \in SUBSET Nat
  OBVIOUS
<1>2. \E m \in T : \A x \in T : m <= x
  BY <1>1, LeastNumber
<1> QED BY <1>2

LEMMA LeadingAreAcked ==
  ASSUME NEW S, NEW q \in Seq(S)
  PROVE  /\ LeadingAcked(q) \in 0..Len(q)
         /\ \A i \in 1..LeadingAcked(q) : q[i].acked
<1>1. Len(q) \in Nat /\ DOMAIN q = 1..Len(q)
  BY LenProperties
<1> DEFINE open == {i \in DOMAIN q : ~q[i].acked}
           first == CHOOSE i \in open : \A j \in open : i <= j
<1>2. open \in SUBSET (1..Len(q)) /\ \A i \in DOMAIN q : i \notin open => q[i].acked
  BY <1>1
<1>3. LeadingAcked(q) = IF open = {} THEN Len(q) ELSE first - 1
  BY DEF LeadingAcked
<1>4. ASSUME open # {} PROVE first \in open /\ \A j \in open : first <= j
  <2> HIDE DEF open
  <2> QED BY <1>1, <1>2, <1>4, FirstOpen
<1> HIDE DEF open, first
<1>5. CASE open = {}
  BY <1>1, <1>2, <1>3, <1>5
<1>6. CASE open # {}
  <2>1. first \in 1..Len(q) /\ LeadingAcked(q) = first - 1
    BY <1>2, <1>3, <1>4, <1>6
  <2>2. \A i \in 1..(first - 1) : i \in DOMAIN q /\ i \notin open
    BY <1>1, <1>4, <1>6, <2>1
  <2> QED BY <1>1, <1>2, <2>1, <2>2
<1> QED BY <1>5, <1>6

LEMMA SaveForgets ==
  ASSUME AttemptTypes, NEW p \in Parts, NEW q \in Seq(Batches), NEW d, Save(p, q, d)
  PROVE  \E r : Forgets(q, r) /\ pend' = [pend EXCEPT ![p] = r]
<1>1. Len(q) \in Nat /\ DOMAIN q = 1..Len(q)
  BY LenProperties
<1>2. CASE pend' = [pend EXCEPT ![p] = q]
  <2>1. Forgets(q, q)
    BY DEF Forgets
  <2> QED BY <1>2, <2>1
<1>3. CASE pend' = [pend EXCEPT ![p] = SubSeq(q, LeadingAcked(q) + 1, Len(q))]
  <2>1. PICK k : k = LeadingAcked(q)
    OBVIOUS
  <2>2. k \in 0..Len(q) /\ \A i \in 1..k : q[i].acked
    BY <2>1, LeadingAreAcked
  <2>3. PICK r : r = SubSeq(q, k + 1, Len(q))
    OBVIOUS
  <2>4. /\ r \in Seq(Batches) /\ DOMAIN r = 1..(Len(q) - k)
        /\ \A j \in 1..(Len(q) - k) : r[j] = q[j + k]
    <3>1. /\ r \in Seq(Batches) /\ Len(r) = Len(q) - k
          /\ \A j \in 1..(Len(q) - k) : r[j] = q[j + k]
      <4>1. \A i \in (k + 1)..Len(q) : q[i] \in Batches
        BY <1>1, <2>2, ElementOfSeq
      <4>2. Len(r) = Len(q) - k /\ \A j \in 1..(Len(q) - k) : r[j] = q[j + k]
        BY <1>1, <2>2, <2>3
      <4>3. r \in Seq(Batches)
        BY <1>1, <2>2, <2>3, <4>1, SubSeqProperties
      <4> QED BY <4>2, <4>3
    <3> QED BY <3>1, LenProperties
  <2>5. \A j \in DOMAIN r : j + k \in DOMAIN q
    BY <1>1, <2>2, <2>4
  <2>6. ASSUME NEW i \in DOMAIN q, ~q[i].acked PROVE \E j \in DOMAIN r : r[j] = q[i]
    <3>1. i > k
      BY <1>1, <2>2, <2>6
    <3>2. i - k \in 1..(Len(q) - k) /\ (i - k) + k = i
      BY <1>1, <2>2, <3>1
    <3> QED BY <2>4, <3>2
  <2>7. Forgets(q, r)
    BY <2>4, <2>5, <2>6 DEF Forgets
  <2> QED BY <1>3, <2>1, <2>3, <2>7
<1> QED BY <1>2, <1>3 DEF Save

LEMMA DocsAreIds ==
  ASSUME AttemptTypes
  PROVE  docs \in SUBSET Ids /\ IsFiniteSet(docs)
<1>1. docs \subseteq AllDocs /\ AllDocs \subseteq Ids /\ IsFiniteSet(AllDocs)
  BY BackfillAssumption DEF AttemptTypes, Ids
<1> QED BY <1>1, FS_Subset

(* A reader takes the least documents of what is left.                     *)
LEMMA BatchIsLeast ==
  ASSUME AttemptTypes, NEW p \in Parts, ReadBatch(p)
  PROVE  \E batch \in SUBSET Rest(p), no \in {FALSE} :
           /\ rd' = [rd EXCEPT ![p] = [last |-> MaxId(batch), ids |-> batch, state |-> "reading"]]
           /\ pend' = [pend EXCEPT ![p] =
                         Append(pend[p], [ids |-> batch, max |-> MaxPerType(batch), acked |-> no])]
           /\ MaxId(batch) \in batch
           /\ \A id \in Rest(p) \ batch : IdLess(MaxId(batch), id)
<1> DEFINE rest == Rest(p)
           batch == {id \in rest : Cardinality({x \in rest : IdLess(x, id)}) < BatchSize}
<1>1. /\ rd' = [rd EXCEPT ![p] = [last |-> MaxId(batch), ids |-> batch, state |-> "reading"]]
      /\ pend' = [pend EXCEPT ![p] =
                    Append(pend[p], [ids |-> batch, max |-> MaxPerType(batch), acked |-> FALSE])]
      /\ rest # {}
  BY DEF ReadBatch
<1>2. rest \in SUBSET Ids /\ IsFiniteSet(rest)
  <2>1. rest \subseteq docs
    BY DEF Rest, Selected
  <2> QED BY <2>1, DocsAreIds, FS_Subset
<1>3. batch = {id \in rest : Rank(rest, id) < BatchSize}
  BY DEF Rank
<1> HIDE DEF rest, batch
<1>4. PICK least \in rest : Rank(rest, least) = 0
  BY <1>1, <1>2, LeastId
<1>5. least \in batch /\ batch \subseteq rest
  BY <1>3, <1>4, BackfillAssumption
<1>6. batch \in SUBSET Ids /\ IsFiniteSet(batch)
  BY <1>2, <1>5, FS_Subset
<1>7. MaxId(batch) \in batch
  BY <1>5, <1>6, MaxIdIsGreatest
<1>8. ASSUME NEW id \in rest \ batch PROVE IdLess(MaxId(batch), id)
  <2>1. PICK m : m = MaxId(batch)
    OBVIOUS
  <2>2. m \in rest /\ m \in batch /\ m \in Ids /\ id \in Ids /\ m # id
    BY <1>2, <1>5, <1>7, <1>8, <2>1
  <2>3. /\ Rank(rest, m) < BatchSize /\ ~(Rank(rest, id) < BatchSize)
        /\ Rank(rest, m) \in Nat /\ Rank(rest, id) \in Nat /\ BatchSize \in Nat
    BY <1>2, <1>3, <1>8, <2>2, Ranks, BackfillAssumption
  <2>4. ~IdLess(id, m)
    BY <1>2, <1>8, <2>2, <2>3, Ranks
  <2> QED BY <2>1, <2>2, <2>4, IdOrder
<1> QED BY <1>1, <1>5, <1>7, <1>8 DEF rest

(* What a save leaves of the pending batches is enough.                    *)
LEMMA ForgetsKeeps ==
  ASSUME NEW p, NEW q, NEW r, Forgets(q, r), pend'[p] = r,
         \A i \in DOMAIN q : q[i].acked => q[i].ids \subseteq Settled'
  PROVE  /\ \A i \in DOMAIN q : \A id \in q[i].ids : id \in Settled' \/ Pending(p, id)'
         /\ \A i \in DOMAIN pend'[p] : pend'[p][i].acked => pend'[p][i].ids \subseteq Settled'
<1>1. ASSUME NEW i \in DOMAIN q, NEW id \in q[i].ids, id \notin Settled' PROVE Pending(p, id)'
  <2>1. PICK j \in DOMAIN r : r[j] = q[i]
    BY <1>1 DEF Forgets
  <2> QED BY <1>1, <2>1 DEF Pending
<1> QED BY <1>1 DEF Forgets

(* The tracker saves, on its ticker or as its partition ends.              *)
LEMMA SaveKeeps ==
  ASSUME BackfillInv, NEW p \in Parts, NEW d, Save(p, pend[p], d),
         UNCHANGED <<docs, target, dlq, parts, chan, work, skipped, cancelled>>,
         overlooked \subseteq overlooked', outcome' \in {outcome, "failed"},
         \/ rd' = rd /\ err' = err
         \/ rd' = [rd EXCEPT ![p].state = "failed"] /\ err' \in [Parts -> BOOLEAN]
            /\ \A r \in Parts : r # p => err'[r] = err[r]
         \/ /\ rd' = [rd EXCEPT ![p].state = "completed"] /\ err' = err
            /\ rd[p].state = "closed" /\ Selected(docs, parts[p]) \subseteq Settled \cup overlooked'
  PROVE  BackfillInv'
<1>0. AttemptTypes /\ PartInv(p)
  BY DEF BackfillInv
<1>1. pend[p] \in Seq(Batches) /\ rd[p] \in ReaderStates
  BY <1>0 DEF AttemptTypes
<1>2. PICK r : Forgets(pend[p], r) /\ pend' = [pend EXCEPT ![p] = r]
  BY <1>0, <1>1, SaveForgets
<1>3. r \in Seq(Batches) /\ pend'[p] = r /\ \A v \in Parts : v # p => pend'[v] = pend[v]
  BY <1>0, <1>2 DEF Forgets, AttemptTypes
<1>4. Settled' = Settled /\ Batches' = Batches /\ ReaderStates' = ReaderStates
      /\ WorkerStates' = WorkerStates /\ Parts' = Parts
  BY DEF Settled, Batches, ReaderStates, WorkerStates, Parts
<1>5. /\ rd'[p].last = rd[p].last /\ rd'[p].ids = rd[p].ids
      /\ rd'[p] \in ReaderStates
      /\ rd'[p].state \in {rd[p].state, "failed"} \/ (rd[p].state = "closed" /\ rd'[p].state = "completed")
      /\ \A v \in Parts : v # p => rd'[v] = rd[v]
      /\ rd' \in [Parts -> ReaderStates]
  <2>0. rd \in [Parts -> ReaderStates]
    BY <1>0 DEF AttemptTypes
  <2>1. CASE rd' = rd
    BY <1>1, <2>0, <2>1
  <2>2. ASSUME NEW state \in {"failed", "completed"}, rd' = [rd EXCEPT ![p].state = state]
        PROVE  /\ rd'[p].last = rd[p].last /\ rd'[p].ids = rd[p].ids
               /\ rd'[p] \in ReaderStates /\ rd'[p].state = state
               /\ \A v \in Parts : v # p => rd'[v] = rd[v]
               /\ rd' \in [Parts -> ReaderStates]
    <3>1. PICK one : one = [rd[p] EXCEPT !.state = state]
      OBVIOUS
    <3>2. one \in ReaderStates /\ one.last = rd[p].last /\ one.ids = rd[p].ids /\ one.state = state
      BY <1>1, <2>2, <3>1 DEF ReaderStates
    <3>3. rd' = [rd EXCEPT ![p] = one]
      BY <2>0, <2>2, <3>1
    <3> QED BY <2>0, <3>2, <3>3
  <2> QED BY <2>1, <2>2
<1>6. /\ rd'[p].state = "failed" \/ err' = err
      /\ rd[p].state = "failed" => rd'[p].state = "failed"
      /\ rd'[p].state = "completed" =>
           Selected(docs, parts[p]) \subseteq Settled \cup overlooked'
  BY <1>0, <1>1 DEF AttemptTypes, ReaderStates, PartInv, EndInv
<1>7. AttemptTypes'
  <2>1. pend' \in [Parts -> Seq(Batches)] /\ err' \in [Parts -> BOOLEAN]
    BY <1>0, <1>2, <1>3 DEF AttemptTypes
  <2> QED BY <1>0, <1>4, <1>5, <2>1 DEF AttemptTypes
<1>8. Rest(p)' = Rest(p) /\ Selected(docs, parts[p])' = Selected(docs, parts[p])
  BY <1>5 DEF Rest, Selected
<1>9. \A id : OnItsWay(p, id)' <=> OnItsWay(p, id)
  BY <1>5, <1>8 DEF OnItsWay
<1>10. Broken(p) => Broken(p)'
  BY <1>6 DEF Broken
<1>11. FlowInv(p)' /\ EndInv(p)'
  BY <1>0, <1>4, <1>5, <1>6, <1>8, <1>9, <1>10 DEF PartInv, FlowInv, EndInv
<1>12. TrackInv(p)'
  <2>1. \A i \in DOMAIN pend[p] : pend[p][i].acked => pend[p][i].ids \subseteq Settled'
    BY <1>0, <1>4 DEF PartInv, TrackInv
  <2>2. /\ \A i \in DOMAIN pend[p] : \A id \in pend[p][i].ids : id \in Settled' \/ Pending(p, id)'
        /\ \A i \in DOMAIN pend'[p] : pend'[p][i].acked => pend'[p][i].ids \subseteq Settled'
    BY <1>2, <1>3, <2>1, ForgetsKeeps
  <2>3. \A id \in Selected(docs, parts[p]) \ Rest(p) : id \in Settled' \/ Pending(p, id)'
    BY <1>0, <1>4, <2>2 DEF PartInv, TrackInv, Pending
  <2> QED BY <1>0, <1>4, <1>8, <2>2, <2>3 DEF PartInv, TrackInv
<1>13. \A v \in Parts : v # p => Unmoved(v)
  BY <1>3, <1>5 DEF Unmoved
<1>14. PartInv(p)'
  BY <1>11, <1>12 DEF PartInv
<1> QED BY <1>4, <1>7, <1>13, <1>14, PartitionStepKeeps

(* The reader registers a batch, sends it, and comes to its end.           *)
LEMMA ReadBatchKeeps ==
  ASSUME BackfillInv, NEW p \in Parts, ReadBatch(p)
  PROVE  BackfillInv'
<1>0. AttemptTypes /\ PartInv(p)
  BY DEF BackfillInv
<1>1. PICK batch \in SUBSET Rest(p), no \in {FALSE} :
        /\ rd' = [rd EXCEPT ![p] = [last |-> MaxId(batch), ids |-> batch, state |-> "reading"]]
        /\ pend' = [pend EXCEPT ![p] =
                      Append(pend[p], [ids |-> batch, max |-> MaxPerType(batch), acked |-> no])]
        /\ MaxId(batch) \in batch
        /\ \A id \in Rest(p) \ batch : IdLess(MaxId(batch), id)
  BY <1>0, BatchIsLeast
<1>2. /\ UNCHANGED <<docs, target, dlq, parts, chan, work, err, skipped, cancelled, overlooked, outcome>>
      /\ rd[p].ids = {} /\ rd[p].state = "reading" /\ ~err[p]
  BY DEF ReadBatch, diskVars
<1>3. PICK one, b : one = [last |-> MaxId(batch), ids |-> batch, state |-> "reading"]
                    /\ b = [ids |-> batch, max |-> MaxPerType(batch), acked |-> no]
  OBVIOUS
<1>4. /\ batch \subseteq docs /\ docs \subseteq Ids /\ MaxId(batch) \in Ids
      /\ batch \subseteq Selected(docs, parts[p])
  BY <1>0, <1>1, DocsAreIds DEF Rest, Selected
<1>5. one \in ReaderStates /\ one.ids = batch /\ one.last = MaxId(batch) /\ one.state = "reading"
  BY <1>3, <1>4 DEF ReaderStates
<1>6. b \in Batches /\ b.ids = batch /\ b.acked = FALSE
  <2>1. no \in BOOLEAN /\ MaxPerType(batch) \in {MaxPerType(x) : x \in SUBSET docs}
    BY <1>4
  <2>2. b.ids = batch /\ b.acked = no
    BY <1>3
  <2> QED BY <1>3, <1>4, <2>1, <2>2 DEF Batches
<1>7. /\ rd' \in [Parts -> ReaderStates] /\ rd'[p] = one /\ \A v \in Parts : v # p => rd'[v] = rd[v]
  BY <1>0, <1>1, <1>3, <1>5 DEF AttemptTypes
<1>8. PICK q : q = pend[p]
  OBVIOUS
<1>9. /\ q \in Seq(Batches) /\ Append(q, b) \in Seq(Batches)
      /\ DOMAIN q = 1..Len(q) /\ Len(q) \in Nat
      /\ DOMAIN Append(q, b) = 1..(Len(q) + 1)
      /\ \A i \in 1..Len(q) : Append(q, b)[i] = q[i]
      /\ Append(q, b)[Len(q) + 1] = b
  BY <1>0, <1>6, <1>8, AppendProperties, LenProperties DEF AttemptTypes
<1>10. pend' \in [Parts -> Seq(Batches)] /\ pend'[p] = Append(q, b)
       /\ \A v \in Parts : v # p => pend'[v] = pend[v]
  BY <1>0, <1>1, <1>3, <1>8, <1>9 DEF AttemptTypes
<1>11. Settled' = Settled /\ Batches' = Batches /\ ReaderStates' = ReaderStates
       /\ WorkerStates' = WorkerStates /\ Parts' = Parts
  BY <1>2 DEF Settled, Batches, ReaderStates, WorkerStates, Parts
<1>12. AttemptTypes'
  BY <1>0, <1>2, <1>7, <1>10, <1>11 DEF AttemptTypes
<1>13. Selected(docs, parts[p])' = Selected(docs, parts[p])
  BY <1>2 DEF Selected
<1>14. \A id \in Rest(p) : id \in batch \/ id \in Rest(p)'
  <2>1. ASSUME NEW id \in Rest(p) \ batch PROVE id \in Rest(p)'
    <3>1. id \in Selected(docs, parts[p])' /\ IdLess(MaxId(batch), id)
      BY <1>1, <1>13, <2>1 DEF Rest
    <3> QED BY <1>5, <1>7, <3>1 DEF Rest
  <2> QED BY <2>1
<1>15. FlowInv(p)'
  <2>1. \A id : OnItsWay(p, id) => OnItsWay(p, id)'
    BY <1>2, <1>5, <1>7, <1>14 DEF OnItsWay
  <2>2. Broken(p) => Broken(p)'
    BY <1>2 DEF Broken
  <2> QED BY <1>0, <1>2, <1>11, <1>13, <2>1, <2>2 DEF PartInv, FlowInv
<1>16. EndInv(p)'
  BY <1>5, <1>7 DEF EndInv
<1>17. TrackInv(p)'
  <2>1. \A id : Pending(p, id) => Pending(p, id)'
    BY <1>8, <1>9, <1>10 DEF Pending
  <2>2. \A id \in batch : Pending(p, id)'
    <3>1. Len(q) + 1 \in DOMAIN pend'[p] /\ pend'[p][Len(q) + 1].ids = batch
      BY <1>6, <1>9, <1>10
    <3> QED BY <3>1 DEF Pending
  <2>3. \A id \in Selected(docs, parts[p]) : id \in Rest(p)' \/ id \in Settled \/ Pending(p, id)'
    BY <1>0, <1>14, <2>1, <2>2 DEF PartInv, TrackInv
  <2>4. \A i \in DOMAIN pend'[p] : pend'[p][i].acked => pend'[p][i].ids \subseteq Settled
    BY <1>0, <1>6, <1>8, <1>9, <1>10 DEF PartInv, TrackInv
  <2> QED BY <1>0, <1>2, <1>11, <1>13, <2>3, <2>4 DEF PartInv, TrackInv
<1>18. \A v \in Parts : v # p => Unmoved(v)
  BY <1>2, <1>7, <1>10 DEF Unmoved
<1>19. PartInv(p)'
  BY <1>15, <1>16, <1>17 DEF PartInv
<1> QED BY <1>2, <1>11, <1>12, <1>18, <1>19, PartitionStepKeeps

LEMMA SendKeeps ==
  ASSUME BackfillInv, NEW p \in Parts, Send(p) \/ EndOfRead(p)
  PROVE  BackfillInv'
<1>0. AttemptTypes /\ PartInv(p)
  BY DEF BackfillInv
<1>1. /\ UNCHANGED <<docs, target, dlq, parts, work, err, pend, skipped, cancelled, overlooked, outcome>>
      /\ rd[p].state = "reading"
  BY DEF Send, EndOfRead, diskVars
<1>2. rd[p] \in ReaderStates /\ rd \in [Parts -> ReaderStates]
      /\ chan \in [Parts -> Seq(SUBSET docs)] /\ chan[p] \in Seq(SUBSET docs)
  BY <1>0 DEF AttemptTypes
<1>3. /\ rd' \in [Parts -> ReaderStates] /\ rd'[p].last = rd[p].last
      /\ \/ rd'[p].state = "reading" /\ rd'[p].ids = {}
         \/ rd'[p].state = "closed" /\ rd'[p].ids = rd[p].ids /\ rd[p].ids = {} /\ Rest(p) = {}
      /\ \A v \in Parts : v # p => rd'[v] = rd[v]
  <2>1. CASE Send(p)
    <3>1. PICK none \in SUBSET docs : none = {}
      OBVIOUS
    <3>2. PICK one : one = [rd[p] EXCEPT !.ids = none]
      OBVIOUS
    <3>3. one \in ReaderStates /\ one.last = rd[p].last /\ one.ids = {} /\ one.state = rd[p].state
      BY <1>2, <3>1, <3>2 DEF ReaderStates
    <3>4. rd' = [rd EXCEPT ![p] = one]
      BY <1>2, <2>1, <3>1, <3>2 DEF Send
    <3> QED BY <1>1, <1>2, <3>3, <3>4
  <2>2. CASE EndOfRead(p)
    <3>1. PICK one : one = [rd[p] EXCEPT !.state = "closed"]
      OBVIOUS
    <3>2. one \in ReaderStates /\ one.last = rd[p].last /\ one.ids = rd[p].ids /\ one.state = "closed"
      BY <1>2, <3>1 DEF ReaderStates
    <3>3. rd' = [rd EXCEPT ![p] = one] /\ rd[p].ids = {} /\ Rest(p) = {}
      BY <1>2, <2>2, <3>1 DEF EndOfRead
    <3> QED BY <1>1, <1>2, <3>2, <3>3
  <2> QED BY <2>1, <2>2
<1>4. PICK c, ids : c = chan[p] /\ ids = rd[p].ids
  OBVIOUS
<1>5. /\ chan' \in [Parts -> Seq(SUBSET docs)]
      /\ \A i \in DOMAIN c : \E j \in DOMAIN chan'[p] : chan'[p][j] = c[i]
      /\ \A id \in rd[p].ids : \E j \in DOMAIN chan'[p] : id \in chan'[p][j]
      /\ \A v \in Parts : v # p => chan'[v] = chan[v]
  <2>1. CASE Send(p)
    <3>1. ids \in SUBSET docs /\ c \in Seq(SUBSET docs)
      BY <1>2, <1>4 DEF ReaderStates
    <3>2. /\ Append(c, ids) \in Seq(SUBSET docs) /\ DOMAIN c = 1..Len(c) /\ Len(c) \in Nat
          /\ DOMAIN Append(c, ids) = 1..(Len(c) + 1)
          /\ \A i \in 1..Len(c) : Append(c, ids)[i] = c[i]
          /\ Append(c, ids)[Len(c) + 1] = ids
      BY <3>1, AppendProperties, LenProperties
    <3>3. chan' = [chan EXCEPT ![p] = Append(c, ids)]
      BY <1>4, <2>1 DEF Send
    <3>4. chan'[p] = Append(c, ids) /\ Len(c) + 1 \in DOMAIN Append(c, ids)
      BY <1>2, <3>2, <3>3
    <3> QED BY <1>2, <1>4, <3>2, <3>3, <3>4
  <2>2. CASE EndOfRead(p)
    BY <1>2, <1>4, <2>2 DEF EndOfRead
  <2> QED BY <2>1, <2>2
<1>6. Settled' = Settled /\ Batches' = Batches /\ ReaderStates' = ReaderStates
      /\ WorkerStates' = WorkerStates /\ Parts' = Parts
  BY <1>1 DEF Settled, Batches, ReaderStates, WorkerStates, Parts
<1>7. AttemptTypes'
  BY <1>0, <1>1, <1>3, <1>5, <1>6 DEF AttemptTypes
<1>8. Rest(p)' = Rest(p) /\ Selected(docs, parts[p])' = Selected(docs, parts[p])
  BY <1>1, <1>3 DEF Rest, Selected
<1>9. \A id : OnItsWay(p, id) => OnItsWay(p, id)'
  BY <1>1, <1>3, <1>4, <1>5, <1>8 DEF OnItsWay
<1>10. Broken(p) => Broken(p)'
  BY <1>1 DEF Broken
<1>11. FlowInv(p)' /\ EndInv(p)'
  BY <1>0, <1>1, <1>3, <1>6, <1>8, <1>9, <1>10 DEF PartInv, FlowInv, EndInv
<1>12. TrackInv(p)'
  <2>1. \A id : Pending(p, id)' <=> Pending(p, id)
    BY <1>1 DEF Pending
  <2> QED BY <1>0, <1>1, <1>6, <1>8, <2>1 DEF PartInv, TrackInv
<1>13. \A v \in Parts : v # p => Unmoved(v)
  BY <1>1, <1>3, <1>5 DEF Unmoved
<1>14. PartInv(p)'
  BY <1>11, <1>12 DEF PartInv
<1> QED BY <1>1, <1>6, <1>7, <1>13, <1>14, PartitionStepKeeps

(* A worker takes a batch, writes it and acknowledges it: what the steps   *)
(* have in common.                                                         *)
LEMMA WorkerKeeps ==
  ASSUME BackfillInv, NEW p \in Parts, NEW w \in Workers, NEW one \in WorkerStates,
         work' = [work EXCEPT ![p][w] = one],
         UNCHANGED <<docs, parts, rd, skipped, cancelled, overlooked, outcome>>,
         chan' \in [Parts -> Seq(SUBSET docs)], err' \in [Parts -> BOOLEAN],
         pend' \in [Parts -> Seq(Batches)],
         \A r \in Parts : r # p => chan'[r] = chan[r] /\ err'[r] = err[r] /\ pend'[r] = pend[r],
         err[p] => err'[p], Settled \subseteq Settled',
         \A id \in Selected(docs, parts[p]) :
           OnItsWay(p, id) => id \in Settled' \/ OnItsWay(p, id)' \/ Broken(p)',
         one.at = "gone" => Broken(p)',
         one.at = "written" => one.ids \subseteq Settled' \/ cancelled,
         \A id : Pending(p, id) => id \in Settled' \/ Pending(p, id)',
         \A i \in DOMAIN pend'[p] : pend'[p][i].acked => pend'[p][i].ids \subseteq Settled'
  PROVE  BackfillInv'
<1>0. AttemptTypes /\ PartInv(p)
  BY DEF BackfillInv
<1>1. PICK team : team = [work[p] EXCEPT ![w] = one]
  OBVIOUS
<1>2. /\ team \in [Workers -> WorkerStates] /\ team[w] = one
      /\ \A x \in Workers : x # w => team[x] = work[p][x]
  BY <1>0, <1>1 DEF AttemptTypes
<1>3. /\ work' \in [Parts -> [Workers -> WorkerStates]] /\ work'[p] = team
      /\ \A r \in Parts : r # p => work'[r] = work[r]
  BY <1>0, <1>1, <1>2 DEF AttemptTypes
<1>4. Batches' = Batches /\ ReaderStates' = ReaderStates
      /\ WorkerStates' = WorkerStates /\ Parts' = Parts
  BY DEF Batches, ReaderStates, WorkerStates, Parts
<1>5. AttemptTypes'
  BY <1>0, <1>3, <1>4 DEF AttemptTypes
<1>6. Rest(p)' = Rest(p) /\ Selected(docs, parts[p])' = Selected(docs, parts[p])
  BY DEF Rest, Selected
<1>7. Broken(p) => Broken(p)'
  BY DEF Broken
<1>8. FlowInv(p)'
  <2>1. \A id \in Selected(docs, parts[p]) : id \in Settled' \/ OnItsWay(p, id)' \/ Broken(p)'
    BY <1>0, <1>7 DEF PartInv, FlowInv
  <2>2. \A x \in Workers : work'[p][x].at = "gone" => Broken(p)'
    BY <1>0, <1>2, <1>3, <1>7 DEF PartInv, FlowInv
  <2> QED BY <1>6, <2>1, <2>2 DEF FlowInv
<1>9. EndInv(p)'
  BY <1>0, <1>6 DEF PartInv, EndInv
<1>10. TrackInv(p)'
  <2>1. \A id \in Selected(docs, parts[p]) \ Rest(p) : id \in Settled' \/ Pending(p, id)'
    BY <1>0 DEF PartInv, TrackInv
  <2>2. \A x \in Workers : work'[p][x].at = "written" => work'[p][x].ids \subseteq Settled' \/ cancelled
    BY <1>0, <1>2, <1>3 DEF PartInv, TrackInv
  <2> QED BY <1>6, <2>1, <2>2 DEF TrackInv
<1>11. \A r \in Parts : r # p => Unmoved(r)
  BY <1>3 DEF Unmoved
<1>12. PartInv(p)'
  BY <1>8, <1>9, <1>10 DEF PartInv
<1> QED BY <1>5, <1>11, <1>12, PartitionStepKeeps

LEMMA TakeKeeps ==
  ASSUME BackfillInv, NEW p \in Parts, NEW w \in Workers, Take(p, w)
  PROVE  BackfillInv'
<1>0. AttemptTypes /\ PartInv(p)
  BY DEF BackfillInv
<1>1. /\ UNCHANGED <<docs, target, dlq, parts, rd, skipped, cancelled, overlooked, outcome, err, pend>>
      /\ work[p][w] = Idle /\ chan[p] # <<>>
  BY DEF Take, diskVars
<1>2. PICK c : c = chan[p]
  OBVIOUS
<1>3. /\ c \in Seq(SUBSET docs) /\ c # <<>> /\ Head(c) \in SUBSET docs
      /\ Tail(c) \in Seq(SUBSET docs)
      /\ \A i \in DOMAIN c : c[i] = Head(c) \/ \E j \in DOMAIN Tail(c) : Tail(c)[j] = c[i]
  <2>1. c \in Seq(SUBSET docs) /\ c # <<>>
    BY <1>0, <1>1, <1>2 DEF AttemptTypes
  <2>2. /\ Head(c) \in SUBSET docs /\ Tail(c) \in Seq(SUBSET docs)
        /\ DOMAIN c = 1..Len(c) /\ Len(c) \in Nat /\ DOMAIN Tail(c) = 1..(Len(c) - 1)
        /\ Head(c) = c[1] /\ \A j \in 1..(Len(c) - 1) : Tail(c)[j] = c[j + 1]
    BY <2>1, HeadTailProperties, LenProperties
  <2>3. \A i \in DOMAIN c : i = 1 \/ (i - 1 \in 1..(Len(c) - 1) /\ (i - 1) + 1 = i)
    BY <2>2
  <2> QED BY <2>1, <2>2, <2>3
<1>4. PICK ids, writing : ids = Head(c) /\ writing = "writing"
  OBVIOUS
<1>5. PICK one : one = [at |-> writing, ids |-> ids]
  OBVIOUS
<1>6. one \in WorkerStates /\ one.at = "writing" /\ one.ids = ids
  BY <1>3, <1>4, <1>5 DEF WorkerStates
<1>7. work' = [work EXCEPT ![p][w] = one]
  BY <1>2, <1>4, <1>5 DEF Take
<1>8. /\ chan' \in [Parts -> Seq(SUBSET docs)] /\ chan'[p] = Tail(c)
      /\ \A r \in Parts : r # p => chan'[r] = chan[r]
  <2>1. chan' = [chan EXCEPT ![p] = Tail(c)]
    BY <1>2 DEF Take
  <2> QED BY <1>0, <1>3, <2>1 DEF AttemptTypes
<1>9. \A x \in Workers : work'[p][x] = IF x = w THEN one ELSE work[p][x]
  BY <1>0, <1>7 DEF AttemptTypes
<1>10. Rest(p)' = Rest(p)
  BY <1>1 DEF Rest, Selected
<1>11. \A id : OnItsWay(p, id) => OnItsWay(p, id)'
  <2>1. ASSUME NEW x \in Workers, NEW id \in work[p][x].ids, work[p][x].at = "writing"
        PROVE  OnItsWay(p, id)'
    BY <1>1, <1>9, <2>1 DEF OnItsWay, Idle
  <2>2. ASSUME NEW i \in DOMAIN chan[p], NEW id \in chan[p][i] PROVE OnItsWay(p, id)'
    <3>1. c[i] = Head(c) \/ \E j \in DOMAIN Tail(c) : Tail(c)[j] = c[i]
      BY <1>2, <1>3
    <3> QED BY <1>2, <1>4, <1>6, <1>8, <1>9, <3>1 DEF OnItsWay
  <2> QED BY <1>1, <1>10, <2>1, <2>2 DEF OnItsWay
<1>12. Settled' = Settled /\ \A id : Pending(p, id) <=> Pending(p, id)'
  BY <1>1 DEF Settled, Pending
<1>13. \A i \in DOMAIN pend'[p] : pend'[p][i].acked => pend'[p][i].ids \subseteq Settled'
  BY <1>0, <1>1, <1>12 DEF PartInv, TrackInv
<1> QED BY <1>0, <1>1, <1>6, <1>7, <1>8, <1>11, <1>12, <1>13, WorkerKeeps DEF AttemptTypes

LEMMA WriteKeeps ==
  ASSUME BackfillInv, NEW p \in Parts, NEW w \in Workers, Write(p, w)
  PROVE  BackfillInv'
<1>0. AttemptTypes /\ PartInv(p)
  BY DEF BackfillInv
<1>1. /\ UNCHANGED <<docs, parts, rd, chan, skipped, cancelled, overlooked, outcome, err, pend>>
      /\ work[p][w].at = "writing"
  BY DEF Write
<1>2. /\ Settled \subseteq Settled'
      /\ work[p][w].ids \subseteq Settled' \/ cancelled
  BY DEF Write, Settled
<1>3. PICK ids, written : ids = work[p][w].ids /\ written = "written"
  OBVIOUS
<1>4. PICK one : one = [work[p][w] EXCEPT !.at = written]
  OBVIOUS
<1>5. one \in WorkerStates /\ one.at = "written" /\ one.ids = ids
  <2>1. PICK old \in WorkerStates : old = work[p][w]
    BY <1>0 DEF AttemptTypes
  <2>2. one = [old EXCEPT !.at = written] /\ old.ids = ids /\ written \in {"idle", "writing", "written", "gone"}
    BY <1>3, <1>4, <2>1
  <2>3. one \in WorkerStates /\ one.at = written /\ one.ids = ids
    BY <2>1, <2>2 DEF WorkerStates
  <2> QED BY <1>3, <2>3
<1>6. work' = [work EXCEPT ![p][w] = one]
  BY <1>0, <1>3, <1>4 DEF Write, AttemptTypes
<1>7. \A x \in Workers : work'[p][x] = IF x = w THEN one ELSE work[p][x]
  BY <1>0, <1>6 DEF AttemptTypes
<1>8. Rest(p)' = Rest(p)
  BY <1>1 DEF Rest, Selected
<1>9. \A id : OnItsWay(p, id) => id \in Settled' \/ OnItsWay(p, id)' \/ Broken(p)'
  BY <1>1, <1>2, <1>7, <1>8 DEF OnItsWay, Broken
<1>10. \A id : Pending(p, id) <=> Pending(p, id)'
  BY <1>1 DEF Pending
<1>11. \A i \in DOMAIN pend'[p] : pend'[p][i].acked => pend'[p][i].ids \subseteq Settled'
  BY <1>0, <1>1, <1>2 DEF PartInv, TrackInv
<1> QED BY <1>0, <1>1, <1>2, <1>3, <1>5, <1>6, <1>9, <1>10, <1>11, WorkerKeeps DEF AttemptTypes

LEMMA WriteFailsKeeps ==
  ASSUME BackfillInv, NEW p \in Parts, NEW w \in Workers, WriteFails(p, w)
  PROVE  BackfillInv'
<1>0. AttemptTypes /\ PartInv(p)
  BY DEF BackfillInv
<1>1. UNCHANGED <<docs, parts, rd, chan, skipped, cancelled, overlooked, outcome, pend>>
  BY DEF WriteFails
<1>2. Settled \subseteq Settled'
  BY DEF WriteFails, Settled
<1>3. PICK one : one = Gone
  OBVIOUS
<1>4. one \in WorkerStates /\ one.at = "gone"
  BY <1>3 DEF WorkerStates, Gone
<1>5. work' = [work EXCEPT ![p][w] = one]
  BY <1>3 DEF WriteFails
<1>6. /\ err' \in [Parts -> BOOLEAN] /\ err'[p]
      /\ \A r \in Parts : r # p => err'[r] = err[r]
  BY <1>0 DEF WriteFails, AttemptTypes
<1>7. Broken(p)'
  BY <1>6 DEF Broken
<1>8. \A id : Pending(p, id) <=> Pending(p, id)'
  BY <1>1 DEF Pending
<1>9. \A i \in DOMAIN pend'[p] : pend'[p][i].acked => pend'[p][i].ids \subseteq Settled'
  BY <1>0, <1>1, <1>2 DEF PartInv, TrackInv
<1> QED BY <1>0, <1>1, <1>2, <1>4, <1>5, <1>6, <1>7, <1>8, <1>9, WorkerKeeps DEF AttemptTypes

LEMMA AckKeeps ==
  ASSUME BackfillInv, NEW p \in Parts, NEW w \in Workers, Ack(p, w)
  PROVE  BackfillInv'
<1>0. AttemptTypes /\ PartInv(p)
  BY DEF BackfillInv
<1>1. /\ UNCHANGED <<docs, target, dlq, parts, rd, chan, skipped, cancelled, overlooked, outcome, err>>
      /\ work[p][w].at = "written"
  BY DEF Ack
<1>2. Settled' = Settled /\ (work[p][w].ids \subseteq Settled \/ cancelled)
  BY <1>0, <1>1 DEF Settled, PartInv, TrackInv
<1>3. PICK old, ids, yes : old = pend[p] /\ ids = work[p][w].ids /\ yes = TRUE
  OBVIOUS
<1>4. PICK q : q = [i \in DOMAIN old |-> IF old[i].ids = ids THEN [old[i] EXCEPT !.acked = yes] ELSE old[i]]
  OBVIOUS
<1>5. old \in Seq(Batches) /\ Len(old) \in Nat /\ DOMAIN old = 1..Len(old)
      /\ \A i \in DOMAIN old : old[i] \in Batches
  BY <1>0, <1>3, LenProperties, ElementOfSeq DEF AttemptTypes
<1>6. /\ q \in Seq(Batches) /\ DOMAIN q = DOMAIN old
      /\ \A i \in DOMAIN q : q[i].ids = old[i].ids /\ (q[i].acked => old[i].acked \/ old[i].ids = ids)
  <2>1. ASSUME NEW b \in Batches, NEW c, c = [b EXCEPT !.acked = yes]
        PROVE  c \in Batches /\ c.ids = b.ids
    BY <1>3, <2>1 DEF Batches
  <2>2. \A i \in DOMAIN old :
          q[i] \in Batches /\ q[i].ids = old[i].ids /\ (q[i].acked => old[i].acked \/ old[i].ids = ids)
    BY <1>4, <1>5, <2>1
  <2>3. q \in [1..Len(old) -> Batches]
    BY <1>4, <1>5, <2>2
  <2> QED BY <1>4, <1>5, <2>2, <2>3, SeqDef
<1>7. PICK one : one = Idle
  OBVIOUS
<1>8. one \in WorkerStates /\ one.at = "idle"
  BY <1>7 DEF WorkerStates, Idle
<1>9. work' = [work EXCEPT ![p][w] = one]
  BY <1>7 DEF Ack
<1>10. \/ cancelled /\ pend' = pend
       \/ ~cancelled /\ pend' = [pend EXCEPT ![p] = q]
       \/ ~cancelled /\ \E d : Save(p, q, d)
  BY <1>3, <1>4 DEF Ack
<1>11. \A i \in DOMAIN old : old[i].acked => old[i].ids \subseteq Settled'
  BY <1>0, <1>2, <1>3 DEF PartInv, TrackInv
<1>12. ~cancelled => \A i \in DOMAIN q : q[i].acked => q[i].ids \subseteq Settled'
  BY <1>2, <1>3, <1>6, <1>11
<1>13. \E r : /\ r \in Seq(Batches) /\ pend' = [pend EXCEPT ![p] = r]
              /\ \A i \in DOMAIN old : \A id \in old[i].ids : id \in Settled' \/ \E j \in DOMAIN r : id \in r[j].ids
              /\ \A i \in DOMAIN r : r[i].acked => r[i].ids \subseteq Settled'
  <2>1. CASE cancelled /\ pend' = pend
    BY <1>0, <1>3, <1>5, <1>11, <2>1 DEF AttemptTypes
  <2>2. CASE ~cancelled /\ pend' = [pend EXCEPT ![p] = q]
    BY <1>6, <1>12, <2>2
  <2>3. CASE ~cancelled /\ \E d : Save(p, q, d)
    <3>1. PICK r : Forgets(q, r) /\ pend' = [pend EXCEPT ![p] = r]
      BY <1>0, <1>6, <2>3, SaveForgets
    <3>2. \A i \in DOMAIN q : \A id \in q[i].ids : id \in Settled' \/ \E j \in DOMAIN r : id \in r[j].ids
      <4>1. ASSUME NEW i \in DOMAIN q, NEW id \in q[i].ids, id \notin Settled'
            PROVE  \E j \in DOMAIN r : id \in r[j].ids
        <5>1. ~q[i].acked
          BY <1>12, <2>3, <4>1
        <5>2. PICK j \in DOMAIN r : r[j] = q[i]
          BY <3>1, <4>1, <5>1 DEF Forgets
        <5> QED BY <4>1, <5>2
      <4> QED BY <4>1
    <3>3. \A i \in DOMAIN r : r[i].acked => r[i].ids \subseteq Settled'
      <4>1. ASSUME NEW i \in DOMAIN r, r[i].acked PROVE r[i].ids \subseteq Settled'
        <5>1. PICK j \in DOMAIN q : r[i] = q[j]
          BY <3>1 DEF Forgets
        <5> QED BY <1>12, <2>3, <4>1, <5>1
      <4> QED BY <4>1
    <3>4. \A i \in DOMAIN old : \A id \in old[i].ids : id \in Settled' \/ \E j \in DOMAIN r : id \in r[j].ids
      BY <1>6, <3>2
    <3>5. r \in Seq(Batches)
      BY <3>1 DEF Forgets
    <3> QED BY <3>1, <3>3, <3>4, <3>5
  <2> QED BY <1>10, <2>1, <2>2, <2>3
<1>14. PICK r : /\ r \in Seq(Batches) /\ pend' = [pend EXCEPT ![p] = r]
                /\ \A i \in DOMAIN old : \A id \in old[i].ids :
                     id \in Settled' \/ \E j \in DOMAIN r : id \in r[j].ids
                /\ \A i \in DOMAIN r : r[i].acked => r[i].ids \subseteq Settled'
  BY <1>13
<1>15. /\ pend' \in [Parts -> Seq(Batches)] /\ pend'[p] = r
       /\ \A v \in Parts : v # p => pend'[v] = pend[v]
  BY <1>0, <1>14 DEF AttemptTypes
<1>16. \A id : Pending(p, id) => id \in Settled' \/ Pending(p, id)'
  BY <1>3, <1>14, <1>15 DEF Pending
<1>17. Rest(p)' = Rest(p)
  BY <1>1 DEF Rest, Selected
<1>18. \A x \in Workers : work'[p][x] = IF x = w THEN one ELSE work[p][x]
  BY <1>0, <1>9 DEF AttemptTypes
<1>19. \A id : OnItsWay(p, id) => OnItsWay(p, id)'
  BY <1>1, <1>17, <1>18 DEF OnItsWay
<1>20. /\ UNCHANGED <<docs, parts, rd, skipped, cancelled, overlooked, outcome>>
       /\ chan' \in [Parts -> Seq(SUBSET docs)] /\ err' \in [Parts -> BOOLEAN]
       /\ err[p] => err'[p]
  BY <1>0, <1>1 DEF AttemptTypes
<1>21. \A v \in Parts : v # p => chan'[v] = chan[v] /\ err'[v] = err[v] /\ pend'[v] = pend[v]
  BY <1>1, <1>15
<1>22. \A i \in DOMAIN pend'[p] : pend'[p][i].acked => pend'[p][i].ids \subseteq Settled'
  BY <1>14, <1>15
<1>23. one.at # "gone" /\ one.at # "written" /\ Settled \subseteq Settled'
  BY <1>2, <1>8
<1> QED BY <1>8, <1>9, <1>15, <1>16, <1>19, <1>20, <1>21, <1>22, <1>23, WorkerKeeps

(* The tracker saves on its ticker, and when its partition fails.          *)
LEMMA TickKeeps ==
  ASSUME BackfillInv, NEW p \in Parts, Tick(p)
  PROVE  BackfillInv'
BY SaveKeeps DEF Tick

LEMMA FailKeeps ==
  ASSUME BackfillInv, NEW p \in Parts, Fail(p)
  PROVE  BackfillInv'
<1>1. err \in [Parts -> BOOLEAN]
  BY DEF BackfillInv, AttemptTypes
<1>2. err' \in [Parts -> BOOLEAN] /\ \A r \in Parts : r # p => err'[r] = err[r]
  BY <1>1 DEF Fail
<1> QED BY <1>2, SaveKeeps DEF Fail

(* doneChan is ready when every worker has left.  Without an error they    *)
(* left an empty channel behind, and everything they took is settled.      *)
LEMMA CompletesKeeps ==
  ASSUME BackfillInv, NEW p \in Parts, PartitionCompletes(p)
  PROVE  BackfillInv'
<1>0. AttemptTypes /\ PartInv(p)
  BY DEF BackfillInv
<1>1. /\ rd[p].state = "closed" /\ rd[p].ids = {} /\ Rest(p) = {}
      /\ WorkersDone(p)
  BY <1>0 DEF PartitionCompletes, PartInv, EndInv
<1>2. ASSUME ~err[p], ~cancelled PROVE Selected(docs, parts[p]) \subseteq Settled
  <2>1. ~Broken(p)
    BY <1>1, <1>2 DEF Broken
  <2>2. \A w \in Workers : work[p][w] = Idle /\ chan[p] = <<>>
    BY <1>0, <1>1, <2>1 DEF WorkersDone, PartInv, FlowInv, Gone
  <2>3. chan[p] = <<>>
    BY <2>2, BackfillAssumption
  <2>4. DOMAIN chan[p] = {}
    BY <2>3
  <2>5. \A id : ~OnItsWay(p, id)
    BY <1>1, <2>2, <2>4 DEF OnItsWay, Idle
  <2> QED BY <1>0, <2>1, <2>5 DEF PartInv, FlowInv
<1>3. Selected(docs, parts[p]) \subseteq Settled \cup overlooked' /\ overlooked \subseteq overlooked'
  BY <1>2 DEF PartitionCompletes
<1> QED BY <1>1, <1>3, SaveKeeps DEF PartitionCompletes

(* Every partition is completed.                                           *)
LEMMA EndsKeeps ==
  ASSUME BackfillInv, CollectionEnds
  PROVE  BackfillInv'
<1>1. /\ UNCHANGED <<docs, target, dlq, parts, rd, chan, work, err, pend, skipped, cancelled, overlooked>>
      /\ outcome = "running" /\ outcome' = "ok" /\ \A p \in Parts : rd[p].state = "completed"
  BY DEF CollectionEnds, memVars
<1>2. Settled' = Settled /\ Parts' = Parts /\ ReadBy(parts)' = ReadBy(parts)
  BY <1>1 DEF Settled, Parts, ReadBy, Selected
<1>3. AttemptTypes'
  BY <1>1, <1>2 DEF BackfillInv, AttemptTypes, Batches, ReaderStates, WorkerStates
<1>4. \A p \in Parts : PartInv(p)'
  BY <1>1, <1>2, UnmovedKeeps DEF Unmoved, BackfillInv, AttemptTypes
<1>5. ReadBy(parts) \subseteq Settled \cup overlooked
  BY <1>1 DEF BackfillInv, PartInv, EndInv, ReadBy, Parts
<1>6. PlanInv'
  BY <1>1, <1>2 DEF BackfillInv, PlanInv
<1>7. SuccessMeansSettled'
  BY <1>1, <1>2, <1>5 DEF BackfillInv, PlanInv, SuccessMeansSettled, Unsettled
<1> QED BY <1>2, <1>3, <1>4, <1>6, <1>7 DEF BackfillInv

LEMMA CancelKeeps ==
  ASSUME BackfillInv, Cancel
  PROVE  BackfillInv'
<1>1. /\ UNCHANGED <<docs, target, dlq, parts, rd, chan, work, err, pend, skipped, overlooked, outcome>>
      /\ cancelled' = TRUE /\ outcome = "running"
  BY DEF Cancel, diskVars, memVars
<1>2. Settled' = Settled /\ Parts' = Parts /\ ReadBy(parts)' = ReadBy(parts)
  BY <1>1 DEF Settled, Parts, ReadBy, Selected
<1>3. AttemptTypes'
  BY <1>1, <1>2 DEF BackfillInv, AttemptTypes, Batches, ReaderStates, WorkerStates
<1>4. \A p \in Parts : PartInv(p)'
  BY <1>1, <1>2, UnmovedKeeps DEF Unmoved
<1>5. PlanInv' /\ SuccessMeansSettled'
  BY <1>1, <1>2 DEF BackfillInv, PlanInv, SuccessMeansSettled
<1> QED BY <1>2, <1>3, <1>4, <1>5 DEF BackfillInv

-----------------------------------------------------------------------------
(* The beginning of an attempt, and the moments between two of them.       *)
NoAttempt ==
  /\ docs \in Sources /\ cancelled = FALSE /\ outcome = "none"
  /\ parts = <<>> /\ rd = <<>> /\ chan = <<>> /\ work = <<>> /\ err = <<>> /\ pend = <<>>

LEMMA NoAttemptIsSafe == NoAttempt => BackfillInv
<1> SUFFICES ASSUME NoAttempt PROVE BackfillInv
  OBVIOUS
<1>1. Parts = {} /\ Numbered(parts)
  BY DEF NoAttempt, Parts, Numbered
<1>2. AttemptTypes
  <2>1. \A S : <<>> \in [{} -> S]
    OBVIOUS
  <2> QED BY <1>1, <2>1 DEF NoAttempt, AttemptTypes
<1>3. PlanInv /\ SuccessMeansSettled
  BY DEF NoAttempt, PlanInv, SuccessMeansSettled
<1> QED BY <1>1, <1>2, <1>3 DEF BackfillInv

FreshAttempt ==
  /\ docs \in Sources /\ cancelled = FALSE /\ outcome = "running"
  /\ Numbered(parts) /\ docs \subseteq ReadBy(parts) \cup Settled \cup skipped
  /\ rd = [p \in Parts |-> NewReader] /\ chan = [p \in Parts |-> <<>>]
  /\ work = [p \in Parts |-> [w \in Workers |-> Idle]]
  /\ err = [p \in Parts |-> FALSE] /\ pend = [p \in Parts |-> <<>>]

LEMMA FreshAttemptIsSafe == FreshAttempt => BackfillInv
<1> SUFFICES ASSUME FreshAttempt PROVE BackfillInv
  OBVIOUS
<1>1. PICK reader, worker : reader = NewReader /\ worker = Idle
  OBVIOUS
<1>2. /\ reader \in ReaderStates /\ reader.last = NoId /\ reader.ids = {} /\ reader.state = "reading"
      /\ worker \in WorkerStates /\ worker.at = "idle"
  BY <1>1 DEF ReaderStates, WorkerStates, NewReader, Idle
<1>3. /\ \A S : <<>> \in Seq(S)
      /\ DOMAIN <<>> = {}
  OBVIOUS
<1>4. AttemptTypes
  <2>1. work \in [Parts -> [Workers -> WorkerStates]] /\ rd \in [Parts -> ReaderStates]
    BY <1>1, <1>2 DEF FreshAttempt
  <2>2. chan \in [Parts -> Seq(SUBSET docs)] /\ pend \in [Parts -> Seq(Batches)] /\ err \in [Parts -> BOOLEAN]
    BY <1>3 DEF FreshAttempt
  <2> QED BY <2>1, <2>2 DEF FreshAttempt, AttemptTypes
<1>5. ASSUME NEW p \in Parts PROVE PartInv(p)
  <2>1. /\ rd[p] = reader /\ chan[p] = <<>> /\ err[p] = FALSE /\ pend[p] = <<>>
        /\ \A w \in Workers : work[p][w] = worker
    BY <1>1, <1>5 DEF FreshAttempt
  <2>2. Rest(p) = Selected(docs, parts[p])
    BY <1>2, <2>1 DEF Rest
  <2>3. FlowInv(p)
    BY <1>2, <2>1, <2>2 DEF FlowInv, OnItsWay
  <2>4. EndInv(p)
    BY <1>2, <2>1 DEF EndInv
  <2>5. TrackInv(p)
    BY <1>2, <1>3, <2>1, <2>2 DEF TrackInv
  <2> QED BY <2>3, <2>4, <2>5 DEF PartInv
<1>6. PlanInv /\ SuccessMeansSettled
  BY DEF FreshAttempt, PlanInv, SuccessMeansSettled
<1> QED BY <1>4, <1>5, <1>6 DEF BackfillInv

LEMMA StartKeeps ==
  ASSUME BackfillInv, Start
  PROVE  BackfillInv'
<1>0. docs \in Sources
  BY DEF BackfillInv, AttemptTypes
<1>1. UNCHANGED <<docs, target, dlq>> /\ outcome' = "running" /\ cancelled' = FALSE
  BY DEF Start, StartSequential, StartParallel, Begin
<1>2. \E plan, keep : Numbered(plan.filters) /\ StartWith(plan, keep)
  <2>1. CASE StartSequential
    <3>1. PICK types : \E keep : StartWith(Plan("sequential", 1, types), keep)
      BY <2>1 DEF StartSequential
    <3>2. Numbered(Plan("sequential", 1, types).filters)
      BY <1>0, <2>1, PlanIsNumbered, BackfillAssumption DEF StartSequential
    <3> QED BY <3>1, <3>2
  <2>2. ASSUME NEW n \in Counts, StartParallel(n) PROVE \E plan, keep : Numbered(plan.filters) /\ StartWith(plan, keep)
    <3>1. PICK types : \E keep : StartWith(Plan("parallel", n, types), keep)
      BY <2>2 DEF StartParallel
    <3>2. Numbered(Plan("parallel", n, types).filters)
      BY <1>0, <2>2, PlanIsNumbered, BackfillAssumption DEF StartParallel, Possible
    <3> QED BY <3>1, <3>2
  <2> QED BY <2>1, <2>2 DEF Start
<1>3. PICK filters, n :
        /\ filters' = filters /\ n' = n
        /\ Numbered(filters) /\ n = Len(filters) /\ parts' = filters
        /\ Goroutines(n) /\ skipped' = skipped \cup (Unsettled \ ReadBy(filters))
  BY <1>2 DEF StartWith
<1>4. Parts' = 1..n /\ Numbered(parts)'
  BY <1>3 DEF Parts, Numbered
<1>5. (docs \subseteq ReadBy(parts) \cup Settled \cup skipped)'
  <2>1. Settled' = Settled /\ ReadBy(parts)' = ReadBy(filters)
    BY <1>1, <1>3 DEF Settled, ReadBy, Selected
  <2> QED BY <1>1, <1>3, <2>1 DEF Unsettled
<1>6. FreshAttempt'
  BY <1>0, <1>1, <1>3, <1>4, <1>5 DEF FreshAttempt, Goroutines, NewReader, Idle
<1>7. FreshAttempt' => BackfillInv'
  BY FreshAttemptIsSafe, PTL
<1> QED BY <1>6, <1>7

LEMMA CrashKeeps ==
  ASSUME BackfillInv, Crash \/ CrashInDelete
  PROVE  BackfillInv'
<1>1. NoAttempt'
  BY DEF Crash, CrashInDelete, diskVars, MemoryIsGone, NoAttempt, BackfillInv, AttemptTypes
<1>2. NoAttempt' => BackfillInv'
  BY NoAttemptIsSafe, PTL
<1> QED BY <1>1, <1>2

LEMMA BackfillInvInductive == BackfillInv /\ [Next]_vars => BackfillInv'
<1> SUFFICES ASSUME BackfillInv, [Next]_vars PROVE BackfillInv'
  OBVIOUS
<1>1. CASE Start
  BY <1>1, StartKeeps
<1>2. CASE CollectionEnds
  BY <1>2, EndsKeeps
<1>3. CASE Cancel
  BY <1>3, CancelKeeps
<1>4. CASE Crash \/ CrashInDelete
  BY <1>4, CrashKeeps
<1>5. ASSUME NEW p \in Parts, Tick(p) \/ ReaderStep(p) \/ QueryFails(p) \/ WorkerStep(p) \/ EndStep(p)
      PROVE  BackfillInv'
  <2>1. CASE Tick(p)
    BY <2>1, TickKeeps
  <2>2. CASE ReadBatch(p)
    BY <2>2, ReadBatchKeeps
  <2>3. CASE Send(p) \/ EndOfRead(p)
    BY <2>3, SendKeeps
  <2>4. CASE ReaderFails(p) \/ QueryFails(p) \/ PartitionFails(p)
    BY <2>4, FailKeeps DEF ReaderFails, QueryFails, PartitionFails
  <2>5. CASE WorkerStep(p)
    BY <2>5, TakeKeeps, WriteKeeps, WriteFailsKeeps, AckKeeps DEF WorkerStep
  <2>6. CASE PartitionCompletes(p)
    BY <2>6, CompletesKeeps
  <2> QED BY <1>5, <2>1, <2>2, <2>3, <2>4, <2>5, <2>6 DEF ReaderStep, EndStep
<1>6. CASE UNCHANGED vars
  <2>1. UNCHANGED <<docs, target, dlq, parts, rd, chan, work, err, pend, skipped, overlooked, outcome, cancelled>>
    BY <1>6 DEF vars, memVars
  <2>2. Settled' = Settled /\ Parts' = Parts /\ ReadBy(parts)' = ReadBy(parts)
    BY <2>1 DEF Settled, Parts, ReadBy, Selected
  <2>3. AttemptTypes'
    BY <2>1, <2>2 DEF BackfillInv, AttemptTypes, Batches, ReaderStates, WorkerStates
  <2>4. \A p \in Parts : PartInv(p)'
    BY <2>1, <2>2, UnmovedKeeps DEF Unmoved, BackfillInv, AttemptTypes
  <2>5. PlanInv' /\ SuccessMeansSettled'
    BY <2>1, <2>2 DEF BackfillInv, PlanInv, SuccessMeansSettled, Unsettled
  <2> QED BY <2>2, <2>3, <2>4, <2>5 DEF BackfillInv
<1> QED BY <1>1, <1>2, <1>3, <1>4, <1>5, <1>6 DEF Next

THEOREM BackfillInvAlways == Spec => []BackfillInv
<1>1. Init => BackfillInv
  <2>1. Init => NoAttempt
    BY DEF Init, NoAttempt
  <2> QED BY <2>1, NoAttemptIsSafe
<1> QED BY <1>1, BackfillInvInductive, PTL DEF Spec

(* A copy that reports success (migrateCollection, migrateCollectionParallel *)
(* return without an error) has settled every document of the source, except *)
(* those a plan left out and those whose error lost the race with doneChan.  *)
THEOREM SuccessSettles == Spec => []SuccessMeansSettled
<1>1. BackfillInv => SuccessMeansSettled
  BY DEF BackfillInv
<1> QED BY <1>1, BackfillInvAlways, PTL

(* A batch a tracker forgets is settled: at every moment of every attempt    *)
(* a document behind the reader of its partition is settled or still in a    *)
(* batch the tracker waits for.                                              *)
TrackersForgetOnlySettled ==
  \A p \in Parts : \A id \in Selected(docs, parts[p]) \ Rest(p) : id \in Settled \/ Pending(p, id)

THEOREM ForgottenIsSettled == Spec => []TrackersForgetOnlySettled
<1>1. BackfillInv => TrackersForgetOnlySettled
  BY DEF BackfillInv, PartInv, TrackInv, TrackersForgetOnlySettled
<1> QED BY <1>1, BackfillInvAlways, PTL

-----------------------------------------------------------------------------
(* The partitions of a collection of one type are a chain of ranges.         *)

(* Sorted lists a set in its order.                                        *)
LEMMA SortedIsInOrder ==
  ASSUME NEW S \in SUBSET Ids, IsFiniteSet(S)
  PROVE  /\ Cardinality(S) \in Nat /\ Sorted(S) \in [1..Cardinality(S) -> S]
         /\ Len(Sorted(S)) = Cardinality(S)
         /\ \A i, j \in 1..Cardinality(S) : i < j => IdLess(Sorted(S)[i], Sorted(S)[j])
<1> DEFINE N == Cardinality(S)
           rank == [x \in S |-> Rank(S, x)]
           at(i) == CHOOSE x \in S : Rank(S, x) = i - 1
<1>1. /\ N \in Nat
      /\ \A x \in S : Rank(S, x) \in Nat /\ Rank(S, x) < N
      /\ \A x, y \in S : IdLess(x, y) => Rank(S, x) < Rank(S, y)
      /\ \A x, y \in S : Rank(S, x) = Rank(S, y) => x = y
  BY Ranks
<1>2. Sorted(S) = [i \in 1..N |-> at(i)]
  BY DEF Sorted, Rank
<1> HIDE DEF N
<1>3. rank \in Injection(S, 0..(N - 1))
  <2>1. rank \in [S -> 0..(N - 1)]
    BY <1>1
  <2>2. \A x, y \in S : rank[x] = rank[y] => x = y
    BY <1>1
  <2> HIDE DEF rank
  <2> QED BY <2>1, <2>2 DEF Injection, IsInjective
<1>4. rank \in Surjection(S, 0..(N - 1))
  <2>1. IsFiniteSet(0..(N - 1)) /\ Cardinality(0..(N - 1)) = N
    BY <1>1, FS_Interval
  <2> HIDE DEF rank
  <2> QED BY <1>3, <2>1, FS_Injection DEF N
<1>5. \A i \in 0..(N - 1) : \E x \in S : Rank(S, x) = i
  BY <1>4 DEF Surjection
<1>6. \A i \in 1..N : at(i) \in S /\ Rank(S, at(i)) = i - 1
  <2>1. ASSUME NEW i \in 1..N PROVE at(i) \in S /\ Rank(S, at(i)) = i - 1
    <3>1. i - 1 \in 0..(N - 1)
      BY <1>1
    <3> QED BY <1>5, <3>1
  <2> QED BY <2>1
<1> HIDE DEF at
<1>7. ASSUME NEW i \in 1..N, NEW j \in 1..N, i < j PROVE IdLess(at(i), at(j))
  <2>1. PICK a, b : a = at(i) /\ b = at(j)
    OBVIOUS
  <2>2. a \in S /\ b \in S /\ Rank(S, a) = i - 1 /\ Rank(S, b) = j - 1
    BY <1>6, <2>1
  <2>3. ~(Rank(S, b) < Rank(S, a)) /\ Rank(S, a) # Rank(S, b)
    BY <1>1, <1>7, <2>2
  <2>4. IdLess(a, b)
    BY <1>1, <2>2, <2>3, IdOrder
  <2> QED BY <2>1, <2>4
<1>8. Len(Sorted(S)) = N
  BY <1>1, <1>2
<1>9. Sorted(S) \in [1..N -> S]
  BY <1>2, <1>6
<1> QED BY <1>1, <1>2, <1>7, <1>8, <1>9 DEF N

LEMMA OneType ==
  ASSUME NEW S, NEW t, \A id \in S : id.t = t
  PROVE  OfType(S, t) = S /\ \A u : u # t => OfType(S, u) = {}
BY DEF OfType

LEMMA MinIdIsLeast ==
  ASSUME NEW S \in SUBSET Ids, IsFiniteSet(S), S # {}
  PROVE  MinId(S) \in S /\ \A x \in S : x = MinId(S) \/ IdLess(MinId(S), x)
<1>1. PICK m \in S : Rank(S, m) = 0
  BY LeastId
<1>2. \A x \in S : Rank(S, x) \in Nat /\ (IdLess(x, m) => Rank(S, x) < Rank(S, m))
  BY Ranks
<1>3. \A x \in S : ~IdLess(x, m)
  BY <1>1, <1>2
<1>4. MinId(S) \in S /\ \A x \in S : ~IdLess(x, MinId(S))
  BY <1>3 DEF MinId
<1> QED BY <1>4, IdOrder

(* A slice of a chain of half-open ranges of the _ids of type t, with the  *)
(* inner boundaries b, in order or not (more slices of strings than there  *)
(* are prefixes overlap); the last may have an inclusive ceiling over all. *)
Slice(c, i, n, b, t, D) ==
  /\ DOMAIN c = {"type", "lo", "loStrict", "hi", "hiIncl", "mod"}
  /\ c.type \in {"any", t} /\ ~c.loStrict /\ c.mod = NoMod
  /\ c.lo = IF i = 1 THEN NoId ELSE b[i - 1]
  /\ i < n => c.hi = b[i] /\ ~c.hiIncl
  /\ i = n => \/ c.hi = NoId /\ ~c.hiIncl
              \/ /\ c.hi \in Ids /\ c.hi.t = t /\ c.hiIncl
                 /\ \A id \in D : id.v <= c.hi.v

Inner(b, n, t) == \A i \in 1..(n - 1) : b[i] \in Ids /\ b[i].t = t

Chain(cut, n, b, t, D) ==
  /\ Numbered(cut) /\ Len(cut) = n /\ Inner(b, n, t)
  /\ \A i \in 1..n : \E c : cut[i] = {c} /\ Slice(c, i, n, b, t, D)

(* A clause without bounds.                                                *)
Unbound(c, t) ==
  /\ DOMAIN c = {"type", "lo", "loStrict", "hi", "hiIncl", "mod"}
  /\ c.type \in {"any", t} /\ ~c.loStrict /\ c.mod = NoMod
  /\ c.lo = NoId /\ c.hi = NoId /\ ~c.hiIncl

LEMMA UnboundClauses ==
  ASSUME NEW t
  PROVE  Unbound(AnyId, t) /\ Unbound(TypeClause(t), t)
BY DEF Unbound, AnyId, TypeClause

LEMMA RangesAreAChain ==
  ASSUME NEW t, NEW base, Unbound(base, t), NEW b, NEW n \in Nat \ {0}, NEW D, Inner(b, n, t)
  PROVE  Chain(Ranges(base, b, n), n, b, t, D)
<1> DEFINE low(i) == IF i = 1 THEN base ELSE From(base, b[i - 1])
           clause(i) == IF i = n THEN low(i) ELSE Below(low(i), b[i])
           type == base.type
<1>1. Ranges(base, b, n) = [i \in 1..n |-> {clause(i)}]
  BY DEF Ranges
<1>2. /\ DOMAIN base = {"type", "lo", "loStrict", "hi", "hiIncl", "mod"}
      /\ base.type = type /\ ~base.loStrict /\ base.mod = NoMod
      /\ base.lo = NoId /\ base.hi = NoId /\ ~base.hiIncl
      /\ type \in {"any", t}
  BY DEF Unbound
<1> HIDE DEF type
<1>3. ASSUME NEW i \in 1..n PROVE Slice(clause(i), i, n, b, t, D)
  <2>1. PICK l : l = low(i)
    OBVIOUS
  <2>2. /\ DOMAIN l = {"type", "lo", "loStrict", "hi", "hiIncl", "mod"}
        /\ l.type = type /\ ~l.loStrict /\ l.mod = NoMod
        /\ l.lo = (IF i = 1 THEN NoId ELSE b[i - 1]) /\ l.hi = NoId /\ ~l.hiIncl
    BY <1>2, <2>1 DEF From
  <2>3. CASE i = n
    BY <1>2, <2>1, <2>2, <2>3 DEF Slice
  <2>4. CASE i # n
    <3>1. PICK c : c = Below(l, b[i])
      OBVIOUS
    <3>2. /\ DOMAIN c = {"type", "lo", "loStrict", "hi", "hiIncl", "mod"}
          /\ c.type = type /\ ~c.loStrict /\ c.mod = NoMod
          /\ c.lo = l.lo /\ c.hi = b[i] /\ ~c.hiIncl
      BY <2>2, <3>1 DEF Below
    <3> QED BY <1>2, <2>1, <2>2, <2>4, <3>1, <3>2 DEF Slice
  <2> QED BY <2>3, <2>4
<1>4. Numbered(Ranges(base, b, n)) /\ Len(Ranges(base, b, n)) = n
  BY RangesAreNumbered
<1> QED BY <1>1, <1>3, <1>4 DEF Chain

LEMMA Division ==
  ASSUME NEW a \in Int, NEW n \in Nat \ {0}
  PROVE  /\ a \div n \in Int /\ n * (a \div n) <= a /\ a < n * (a \div n) + n
         /\ a >= 0 => a \div n >= 0
         /\ a >= n => a \div n >= 1
OBVIOUS

LEMMA Products ==
  ASSUME NEW a \in Int, NEW b \in Int, NEW k \in Nat, a <= b
  PROVE  k * a \in Int /\ k * b \in Int /\ k * a <= k * b /\ a * k <= b * k /\ k * a = a * k
OBVIOUS

(* Boundaries taken from a sorted sample.                                  *)
LEMMA SampleIsInner ==
  ASSUME NEW S \in SUBSET Ids, IsFiniteSet(S), NEW t, \A id \in S : id.t = t,
         NEW n \in Nat \ {0}, NEW at, \A i \in 1..(n - 1) : at[i] \in 1..Cardinality(S)
  PROVE  Inner([i \in 1..(n - 1) |-> Sorted(S)[at[i]]], n, t)
<1> DEFINE s == Sorted(S)
           N == Cardinality(S)
<1>1. s \in [1..N -> S]
  BY SortedIsInOrder
<1>2. \A i \in 1..(n - 1) : at[i] \in 1..N
  OBVIOUS
<1> HIDE DEF s, N, Ids
<1>3. \A i \in 1..N : s[i] \in Ids /\ s[i].t = t
  BY <1>1
<1> QED BY <1>2, <1>3 DEF Inner, s

LEMMA SampledIsInner ==
  ASSUME NEW S \in SUBSET Ids, IsFiniteSet(S), NEW t, \A id \in S : id.t = t,
         NEW n \in Nat \ {0}, NEW N, N = Cardinality(S), n + 1 <= N
  PROVE  Inner([i \in 1..(n - 1) |-> Sorted(S)[(i + 1) * (N \div (n + 1)) + 1]], n, t)
<1>1. N \in Nat
  BY FS_CardinalityType
<1>2. PICK step \in Int : step = N \div (n + 1) /\ step >= 1 /\ (n + 1) * step <= N
  <2>1. PICK k \in Nat \ {0} : k = n + 1 /\ N >= k
    BY <1>1
  <2>2. N \div k \in Int /\ k * (N \div k) <= N /\ N \div k >= 1
    BY <1>1, <2>1, Division
  <2> QED BY <2>1, <2>2
<1>3. step \in Nat
  BY <1>2
<1> DEFINE at == [i \in 1..(n - 1) |-> (i + 1) * step + 1]
<1>4. ASSUME NEW i \in 1..(n - 1) PROVE at[i] \in 1..N
  <2>1. (i + 1) * step \in Int /\ 0 <= (i + 1) * step /\ (i + 1) * step <= n * step
    <3>1. 0 * step <= (i + 1) * step /\ (i + 1) * step \in Int
      BY <1>3, Products
    <3>2. (i + 1) * step <= n * step
      BY <1>3, Products
    <3> QED BY <3>1, <3>2
  <2>2. n * step + step = (n + 1) * step /\ n * step \in Int
    BY <1>3
  <2> QED BY <1>1, <1>2, <2>1, <2>2
<1>5. Inner([i \in 1..(n - 1) |-> Sorted(S)[at[i]]], n, t)
  <2> HIDE DEF at
  <2> QED BY <1>4, SampleIsInner
<1> QED BY <1>2, <1>5

LEMMA QuantilesAreInner ==
  ASSUME NEW S \in SUBSET Ids, IsFiniteSet(S), NEW t, \A id \in S : id.t = t,
         NEW n \in Nat \ {0}, NEW N, N = Cardinality(S), n <= N
  PROVE  Inner([i \in 1..(n - 1) |-> Sorted(S)[i * (N \div n) + 1]], n, t)
<1>1. N \in Nat
  BY FS_CardinalityType
<1>2. PICK step \in Int : step = N \div n /\ step >= 1 /\ n * step <= N
  <2>1. N \div n \in Int /\ n * (N \div n) <= N /\ (N >= n => N \div n >= 1)
    BY <1>1, Division
  <2>2. N >= n
    BY <1>1
  <2> QED BY <2>1, <2>2
<1>3. step \in Nat
  BY <1>2
<1> DEFINE at == [i \in 1..(n - 1) |-> i * step + 1]
<1>4. ASSUME NEW i \in 1..(n - 1) PROVE at[i] \in 1..N
  <2>1. i * step \in Int /\ 0 <= i * step /\ (i + 1) * step <= n * step
    <3>1. 0 * step <= i * step /\ i * step \in Int
      BY <1>3, Products
    <3>2. (i + 1) * step <= n * step
      BY <1>3, Products
    <3> QED BY <3>1, <3>2
  <2>2. i * step + step = (i + 1) * step /\ n * step \in Int
    BY <1>3
  <2> QED BY <1>1, <1>2, <2>1, <2>2
<1>5. Inner([i \in 1..(n - 1) |-> Sorted(S)[at[i]]], n, t)
  <2> HIDE DEF at
  <2> QED BY <1>4, SampleIsInner
<1> QED BY <1>2, <1>5

LEMMA StepsAreInner ==
  ASSUME NEW t \in IdTypes, NEW least \in Int, NEW greatest \in Int,
         NEW n \in Nat \ {0}
  PROVE  Inner([i \in 1..(n - 1) |-> [t |-> t, v |-> least + ((greatest - least) * i) \div n]], n, t)
<1> DEFINE b == [i \in 1..(n - 1) |-> [t |-> t, v |-> least + ((greatest - least) * i) \div n]]
<1>1. PICK span \in Int : span = greatest - least
  OBVIOUS
<1>2. ASSUME NEW i \in 1..(n - 1) PROVE b[i] \in Ids /\ b[i].t = t
  <2>1. span * i \in Int
    BY Products
  <2>2. (span * i) \div n \in Int
    BY <2>1, Division
  <2> QED BY <1>1, <2>2 DEF Ids
<1> HIDE DEF b
<1>3. Inner(b, n, t)
  BY <1>2 DEF Inner
<1> QED BY <1>3 DEF b

(* The boundaries of StringSlices.                                         *)
PrefixBounds(n) ==
  [i \in 1..(n - 1) |-> [t |-> "string", v |-> PrefixRank(i * AtLeast1(Prefixes \div n))]]

LEMMA PrefixesAreInner ==
  ASSUME NEW n \in Nat \ {0}
  PROVE  Inner(PrefixBounds(n), n, "string")
<1>1. PICK P \in Int, R \in Int : P = Prefixes /\ R = Radix
  <2>1. Radix \in Nat
    BY RadixAssumption
  <2>2. Radix * Radix \in Int
    BY <2>1, Products
  <2> QED BY <2>1, <2>2 DEF Prefixes
<1>2. PICK step \in Nat : step = AtLeast1(P \div n)
  <2>1. P \div n \in Int
    BY Division
  <2> QED BY <2>1 DEF AtLeast1
<1>3. ASSUME NEW i \in 1..(n - 1) PROVE PrefixRank(i * step) \in Int
  <2>1. PICK k \in Int : k = i * step
    BY Products
  <2>2. PICK a \in Int, c \in Int : a = P * k /\ c = R * k
    OBVIOUS
  <2>3. 5 * a + 2 \in Int /\ 5 * c + 3 \in Int /\ 5 * k + 4 \in Int
    OBVIOUS
  <2>4. PrefixRank(k) \in {5 * (P * k) + 2, 5 * (R * k) + 3, 5 * k + 4}
    BY <1>1 DEF PrefixRank
  <2> QED BY <2>1, <2>2, <2>3, <2>4
<1>4. PICK b : b = PrefixBounds(n)
  OBVIOUS
<1>5. \A i \in 1..(n - 1) : b[i] = [t |-> "string", v |-> PrefixRank(i * step)]
  BY <1>1, <1>2, <1>4 DEF PrefixBounds
<1>6. ASSUME NEW i \in 1..(n - 1) PROVE b[i] \in Ids /\ b[i].t = "string"
  <2>1. PICK v \in Int : v = PrefixRank(i * step)
    BY <1>3
  <2>2. b[i] = [t |-> "string", v |-> v]
    BY <1>5, <2>1
  <2>3. [t |-> "string", v |-> v] \in Ids
    BY TypeRanks DEF Ids
  <2> QED BY <2>2, <2>3
<1> QED BY <1>4, <1>6 DEF Inner

(* The greatest document caps the last slice of a chain.                   *)
LEMMA CapKeepsChain ==
  ASSUME NEW cut, NEW n \in Nat \ {0}, NEW b, NEW t \in IdTypes,
         NEW D \in SUBSET Ids, IsFiniteSet(D), D # {}, \A id \in D : id.t = t,
         Chain(cut, n, b, t, D)
  PROVE  Chain(CapFinalPartition(cut, D, MaxId(D)), n, b, t, D)
<1> DEFINE seed == MaxId(D)
           c == CHOOSE x \in cut[n] : TRUE
           top == TrueMaxId(D, c, seed)
           capped == CapFinalPartition(cut, D, seed)
<1>1. seed \in D /\ seed \in Ids /\ \A x \in D : x = seed \/ IdLess(x, seed)
  BY MaxIdIsGreatest
<1>2. \A x \in D : x.v <= seed.v /\ ~(seed.v < x.v)
  <2>1. ASSUME NEW x \in D PROVE x.v <= seed.v /\ ~(seed.v < x.v)
    <3>1. x.v \in Int /\ seed.v \in Int /\ x.t = seed.t /\ x \in Ids
      BY <1>1 DEF Ids
    <3>2. x = seed \/ x.v < seed.v
      BY <1>1, <3>1, IdOrder
    <3> QED BY <3>1, <3>2
  <2> QED BY <2>1
<1>3. seed # NoId
  BY <1>1, IdOrder
<1>4. top = seed
  <2>1. {id \in D : Satisfies(id, c) /\ (seed # NoId => id.t = seed.t /\ seed.v < id.v)} = {}
    BY <1>2, <1>3
  <2> QED BY <2>1 DEF TrueMaxId
<1>5. n \in 1..n /\ Len(cut) = n /\ DOMAIN cut = 1..n
  BY DEF Chain, Numbered
<1>6. PICK last : cut[n] = {last} /\ Slice(last, n, n, b, t, D)
  BY <1>5 DEF Chain
<1>7. c = last
  BY <1>6
<1> HIDE DEF seed, c, top
<1>8. capped = cut \/ capped = [cut EXCEPT ![n] = {[c EXCEPT !.hi = top, !.hiIncl = TRUE]}]
  BY <1>5 DEF CapFinalPartition, seed, c, top
<1>9. CASE capped = cut
  BY <1>9 DEF seed
<1>10. CASE capped = [cut EXCEPT ![n] = {[c EXCEPT !.hi = top, !.hiIncl = TRUE]}]
  <2>1. PICK closed : closed = [last EXCEPT !.hi = seed, !.hiIncl = TRUE]
    OBVIOUS
  <2>2. Slice(closed, n, n, b, t, D)
    BY <1>1, <1>2, <1>6, <2>1 DEF Slice
  <2>3. capped = [cut EXCEPT ![n] = {closed}]
    BY <1>4, <1>7, <1>10, <2>1
  <2>4. DOMAIN capped = 1..n /\ Len(capped) = n /\ capped[n] = {closed}
        /\ \A i \in 1..n : i # n => capped[i] = cut[i]
    BY <1>5, <2>3
  <2>5. \A i \in 1..n : \E x : capped[i] = {x} /\ Slice(x, i, n, b, t, D)
    BY <2>2, <2>4 DEF Chain
  <2> HIDE DEF capped
  <2>6. Numbered(capped) /\ Inner(b, n, t)
    BY <2>4 DEF Numbered, Chain
  <2>7. Chain(capped, n, b, t, D)
    BY <2>4, <2>5, <2>6 DEF Chain
  <2> QED BY <2>7 DEF capped, seed
<1> QED BY <1>8, <1>9, <1>10

(* A collection of one type is cut into a chain.                           *)
LEMMA TypedCutIsAChain ==
  ASSUME NEW n \in Nat \ {0, 1}, NEW t \in IdTypes,
         NEW D \in SUBSET Ids, IsFiniteSet(D), D # {}, \A id \in D : id.t = t
  PROVE  \E b : Chain(TypedPartitions(t, D, D, n, n), n, b, t, D)
<1> DEFINE N == Cardinality(D)
<1>1. OfType(D, t) = D /\ N \in Nat /\ Len(Sorted(D)) = N
  BY OneType, SortedIsInOrder
<1>2. Unbound(AnyId, t)
  BY UnboundClauses
<1>3. CASE n + 1 <= N
  <2>1. PICK b : b = [i \in 1..(n - 1) |-> Sorted(D)[(i + 1) * (N \div (n + 1)) + 1]]
    OBVIOUS
  <2>2. TypedPartitions(t, D, D, n, n) = Ranges(AnyId, b, n)
    BY <1>1, <1>3, <2>1 DEF TypedPartitions, SampledRanges
  <2>3. Inner(b, n, t)
    BY <1>3, <2>1, SampledIsInner
  <2> QED BY <1>2, <2>2, <2>3, RangesAreAChain
<1>4. CASE ~(n + 1 <= N)
  <2>1. /\ MinId(D) \in D /\ MaxId(D) \in D /\ MinId(D) \in Ids /\ MaxId(D) \in Ids
        /\ MinId(D).t = t /\ MaxId(D).t = t
    BY MinIdIsLeast, MaxIdIsGreatest
  <2>2. PICK lo \in Int, hi \in Int : lo = MinId(D).v /\ hi = MaxId(D).v
    BY <2>1 DEF Ids
  <2>3. PICK b : b = [i \in 1..(n - 1) |-> [t |-> t, v |-> lo + ((hi - lo) * i) \div n]]
    OBVIOUS
  <2>4. TypedPartitions(t, D, D, n, n) = MinMaxPartitions(t, D, n)
    BY <1>1, <1>4 DEF TypedPartitions
  <2>5. MinMaxPartitions(t, D, n) = MinMaxRanges(AnyId, t, lo, hi, n)
    BY <2>1, <2>2 DEF MinMaxPartitions
  <2>6. MinMaxRanges(AnyId, t, lo, hi, n) = Ranges(AnyId, b, n)
    BY <2>3 DEF MinMaxRanges
  <2>7. Inner(b, n, t)
    BY <2>3, StepsAreInner
  <2>8. Chain(Ranges(AnyId, b, n), n, b, t, D)
    BY <1>2, <2>7, RangesAreAChain
  <2> QED BY <2>4, <2>5, <2>6, <2>8
<1> QED BY <1>3, <1>4

LEMMA StringCutIsAChain ==
  ASSUME NEW n \in Nat \ {0, 1}, NEW D \in SUBSET Ids, IsFiniteSet(D), D # {},
         \A id \in D : id.t = "string"
  PROVE  \E b : Chain(GroupedByType(D, D, n), n, b, "string", D)
<1> DEFINE N == Cardinality(D)
           slices(t) == IF Cardinality(OfType(D, t)) >= QuantileThreshold /\ Len(Sorted(OfType(D, t))) >= n
                        THEN QuantileRanges(TypeClause(t), Sorted(OfType(D, t)), n)
                        ELSE UniformSlices(t, D, n)
           types == {t \in IdTypes : OfType(D, t) # {}}
<1>1. OfType(D, "string") = D /\ N \in Nat /\ Len(Sorted(D)) = N
  BY OneType, SortedIsInOrder
<1>2. types = {"string"}
  BY <1>1, OneType, TypeRanks
<1>3. GroupedByType(D, D, n) = [i \in 1..n |-> UNION {slices(t)[i] : t \in types}]
  BY <1>2 DEF GroupedByType
<1>4. PICK s : s = slices("string")
  OBVIOUS
<1>5. GroupedByType(D, D, n) = [i \in 1..n |-> s[i]]
  <2> HIDE DEF slices
  <2>1. \A i : UNION {slices(t)[i] : t \in types} = s[i]
    BY <1>2, <1>4
  <2> QED BY <1>3, <2>1
<1>6. PICK string : string = "string"
  OBVIOUS
<1>7. Unbound(TypeClause(string), string)
  BY UnboundClauses
<1>9. \E b : Chain(s, n, b, string, D)
  <2>1. CASE N >= QuantileThreshold /\ N >= n
    <3>1. s = QuantileRanges(TypeClause(string), Sorted(D), n)
      BY <1>1, <1>4, <1>6, <2>1
    <3>2. PICK b : b = [i \in 1..(n - 1) |-> Sorted(D)[i * (N \div n) + 1]]
      OBVIOUS
    <3>3. s = Ranges(TypeClause(string), b, n)
      BY <1>1, <3>1, <3>2 DEF QuantileRanges
    <3>4. n <= N
      BY <1>1, <2>1
    <3>5. Inner(b, n, string)
      BY <1>6, <3>2, <3>4, QuantilesAreInner
    <3> QED BY <1>7, <3>3, <3>5, RangesAreAChain
  <2>2. CASE ~(N >= QuantileThreshold /\ N >= n)
    <3>1. s = UniformSlices(string, D, n)
      BY <1>1, <1>4, <1>6, <2>2
    <3>2. s = StringSlices(string, n)
      BY <1>6, <3>1 DEF UniformSlices
    <3>3. PICK b : b = PrefixBounds(n)
      OBVIOUS
    <3>4. s = Ranges(TypeClause(string), b, n)
      BY <3>2, <3>3 DEF StringSlices, PrefixBounds
    <3>5. Inner(b, n, string)
      BY <1>6, <3>3, PrefixesAreInner
    <3> QED BY <1>7, <3>4, <3>5, RangesAreAChain
  <2> QED BY <2>1, <2>2
<1>10. [i \in 1..n |-> s[i]] = s
  <2>1. PICK b : Chain(s, n, b, string, D)
    BY <1>9
  <2>2. DOMAIN s = 1..n
    BY <2>1 DEF Chain, Numbered
  <2>3. s = [i \in DOMAIN s |-> s[i]]
    <3>1. CASE N >= QuantileThreshold /\ N >= n
      BY <1>1, <1>4, <3>1 DEF QuantileRanges, Ranges
    <3>2. CASE ~(N >= QuantileThreshold /\ N >= n)
      <4>1. s = StringSlices("string", n)
        BY <1>1, <1>4, <3>2 DEF UniformSlices
      <4> QED BY <4>1 DEF StringSlices, Ranges
    <3> QED BY <3>1, <3>2
  <2> QED BY <2>2, <2>3
<1> QED BY <1>5, <1>6, <1>9, <1>10

LEMMA CutIsAChain ==
  ASSUME NEW n \in Nat \ {0, 1}, NEW t \in IdTypes,
         NEW D \in SUBSET Ids, IsFiniteSet(D), D # {}, \A id \in D : id.t = t
  PROVE  \E b : Chain(Partition(D, "auto", D, MaxId(D), n, n, TRUE), n, b, t, D)
<1>1. PICK id \in D : id.t = t
  OBVIOUS
<1>2. CASE t = "objectId"
  <2>1. Recommend(D) = "objectid"
    BY <1>2 DEF Recommend
  <2>2. PICK cut : cut = TypedPartitions("objectId", D, D, n, n)
    OBVIOUS
  <2>3. Partition(D, "auto", D, MaxId(D), n, n, TRUE) = CapFinalPartition(cut, D, MaxId(D))
    BY <2>1, <2>2 DEF Partition
  <2>4. PICK b : Chain(cut, n, b, t, D)
    BY <1>2, <2>2, TypedCutIsAChain
  <2> QED BY <2>3, <2>4, CapKeepsChain
<1>3. CASE t = "number"
  <2>1. Recommend(D) = "numeric"
    BY <1>1, <1>3 DEF Recommend
  <2>2. PICK cut : cut = TypedPartitions("number", D, D, n, n)
    OBVIOUS
  <2>3. Partition(D, "auto", D, MaxId(D), n, n, TRUE) = CapFinalPartition(cut, D, MaxId(D))
    BY <2>1, <2>2 DEF Partition
  <2>4. PICK b : Chain(cut, n, b, t, D)
    BY <1>3, <2>2, TypedCutIsAChain
  <2> QED BY <2>3, <2>4, CapKeepsChain
<1>4. CASE t = "string"
  <2>1. Recommend(D) = "mixed"
    BY <1>1, <1>4 DEF Recommend
  <2>2. PICK cut : cut = GroupedByType(D, D, n)
    OBVIOUS
  <2>3. Partition(D, "auto", D, MaxId(D), n, n, TRUE) = CapFinalPartition(cut, D, MaxId(D))
    BY <2>1, <2>2 DEF Partition
  <2>4. PICK b : Chain(cut, n, b, t, D)
    BY <1>4, <2>2, StringCutIsAChain
  <2> QED BY <2>3, <2>4, CapKeepsChain
<1> QED BY <1>2, <1>3, <1>4, TypeRanks

-----------------------------------------------------------------------------
(* The checkpoints of an attempt, and what a plan makes of them.             *)

(* What a checkpoint says.  An _id is accounted for when it is settled, or *)
(* was left out by a plan or by an error that lost its race.               *)
Bounds == Ids \cup {NoId}
Accounted == Settled \cup skipped \cup overlooked

TypedCp(cp) ==
  /\ cp = [total |-> cp.total, prog |-> cp.prog] /\ DOMAIN cp.prog \subseteq IdTypes
  /\ \A t \in DOMAIN cp.prog : cp.prog[t] \in [lo : Bounds, hi : Bounds, saved : Bounds]

(* A checkpoint covers documents of A only.                                *)
CoversOnly(cp, D, A) == \A id \in D : Covers(cp, id) => id \in A

(* A filter reads whatever is below a document it reads, down to the start *)
(* of the range its checkpoint names, except documents of A.               *)
NotBefore(cp, id) ==
  id.t \in DOMAIN cp.prog /\ cp.prog[id.t].lo # NoId => cp.prog[id.t].lo.v <= id.v
ReadsDown(filter, cp, D, A) ==
  \A x \in Selected(D, filter), id \in D :
    id.t = x.t /\ id.v < x.v /\ NotBefore(cp, id) => id \in Selected(D, filter) \cup A

LEMMA GrowingKeeps ==
  ASSUME NEW cp, NEW filter, NEW D, NEW A, NEW B, A \subseteq B
  PROVE  /\ CoversOnly(cp, D, A) => CoversOnly(cp, D, B)
         /\ ReadsDown(filter, cp, D, A) => ReadsDown(filter, cp, D, B)
BY DEF CoversOnly, ReadsDown

LEMMA NoIdIsNone ==
  /\ NoId.t = "none" /\ \A id \in Ids : id.t # "none" /\ id # NoId /\ id.t \in IdTypes /\ id.v \in Int
  /\ \A x \in Bounds : x # NoId => x \in Ids
BY TypeRanks DEF NoId, Ids, Bounds

(* The filter of a checkpoint.                                             *)
Within(b, id) ==
  /\ ResumeAt(b) # NoId => ResumeAt(b).t = id.t /\ ResumeAt(b).v <= id.v
  /\ b.hi # NoId => b.hi.t = id.t /\ id.v < b.hi.v

LEMMA FilterSelects ==
  ASSUME NEW cp, TypedCp(cp), NEW id \in Ids
  PROVE  Matches(id, FilterOf(cp)) <=>
           id.t \in DOMAIN cp.prog /\ ~Completed(cp.prog[id.t]) /\ Within(cp.prog[id.t], id)
<1> DEFINE clause(t) == [TypeClause(t) EXCEPT !.lo = ResumeAt(cp.prog[t]), !.hi = cp.prog[t].hi]
           open == {u \in DOMAIN cp.prog : ~Completed(cp.prog[u])}
<1>1. FilterOf(cp) = {clause(t) : t \in open}
  BY DEF FilterOf
<1>2. ASSUME NEW t
      PROVE  /\ clause(t).type = t /\ clause(t).lo = ResumeAt(cp.prog[t]) /\ ~clause(t).loStrict
             /\ clause(t).hi = cp.prog[t].hi /\ ~clause(t).hiIncl /\ clause(t).mod = NoMod
  BY DEF TypeClause, AnyId
<1>3. ASSUME NEW t \in DOMAIN cp.prog
      PROVE  ResumeAt(cp.prog[t]) \in Bounds /\ cp.prog[t].hi \in Bounds
  BY DEF TypedCp, ResumeAt
<1> HIDE DEF clause
<1>4. id.t # "any" /\ id.v \in Int
  BY NoIdIsNone, TypeRanks
<1>5. ASSUME NEW t \in open, Satisfies(id, clause(t)) PROVE t = id.t
  BY <1>2, <1>4, <1>5, TypeRanks DEF TypedCp, Satisfies
<1>6. ASSUME NEW t \in open, t = id.t
      PROVE  Satisfies(id, clause(t)) <=> Within(cp.prog[t], id)
  <2>1. PICK lo \in Bounds, hi \in Bounds : lo = ResumeAt(cp.prog[t]) /\ hi = cp.prog[t].hi
    BY <1>3
  <2>2. (lo # NoId => lo.v \in Int) /\ (hi # NoId => hi.v \in Int)
    BY <2>1, NoIdIsNone
  <2> QED BY <1>2, <1>4, <1>6, <2>1, <2>2 DEF Satisfies, Within
<1> QED BY <1>1, <1>5, <1>6 DEF Matches

(* It reads nothing the checkpoint covers, and reads down to the start of  *)
(* its range whatever the checkpoint does not cover.                       *)
LEMMA FilterLeavesCovered ==
  ASSUME NEW cp, TypedCp(cp), NEW id \in Ids, Covers(cp, id)
  PROVE  ~Matches(id, FilterOf(cp))
<1>1. PICK b \in [lo : Bounds, hi : Bounds, saved : Bounds] : id.t \in DOMAIN cp.prog /\ b = cp.prog[id.t]
  BY DEF Covers, TypedCp
<1>2. b.saved.t = id.t /\ id.v < b.saved.v /\ b.saved # NoId /\ b.saved \in Bounds
  BY <1>1, NoIdIsNone DEF Covers
<1>3. b.saved.v \in Int /\ id.v \in Int
  BY <1>2, NoIdIsNone
<1>4. ~Within(b, id)
  BY <1>2, <1>3 DEF Within, ResumeAt
<1> QED BY <1>1, <1>4, FilterSelects

LEMMA FilterReadsDown ==
  ASSUME NEW cp, TypedCp(cp), NEW D \in SUBSET Ids, NEW A, CoversOnly(cp, D, A)
  PROVE  ReadsDown(FilterOf(cp), cp, D, A)
<1> SUFFICES ASSUME NEW x \in Selected(D, FilterOf(cp)), NEW id \in D,
                    id.t = x.t, id.v < x.v, NotBefore(cp, id), id \notin A
             PROVE  id \in Selected(D, FilterOf(cp))
  BY DEF ReadsDown
<1>1. x \in Ids /\ id \in Ids /\ Matches(x, FilterOf(cp)) /\ x.v \in Int /\ id.v \in Int
  BY NoIdIsNone DEF Selected
<1>2. PICK b \in [lo : Bounds, hi : Bounds, saved : Bounds] : id.t \in DOMAIN cp.prog /\ b = cp.prog[id.t]
  BY <1>1, FilterSelects DEF TypedCp
<1>3. ~Completed(b) /\ Within(b, x)
  BY <1>1, <1>2, FilterSelects
<1>4. /\ b.lo # NoId => b.lo.v \in Int
      /\ b.hi # NoId => b.hi.v \in Int
      /\ b.saved # NoId => b.saved.v \in Int
  BY NoIdIsNone
<1>5. b.lo # NoId => b.lo.v <= id.v
  BY <1>2 DEF NotBefore
<1>6. ~Covers(cp, id)
  BY DEF CoversOnly
<1>7. ~(b.saved.t = id.t /\ id.v < b.saved.v)
  BY <1>2, <1>5, <1>6 DEF Covers
<1>8. Within(b, id)
  BY <1>1, <1>3, <1>4, <1>5, <1>7 DEF Within, ResumeAt
<1>9. Matches(id, FilterOf(cp))
  BY <1>1, <1>2, <1>3, <1>8, FilterSelects
<1> QED BY <1>9 DEF Selected

(* The ranges a partition is clamped to.                                   *)
TypedRanges(r) ==
  DOMAIN r \subseteq IdTypes /\ \A t \in DOMAIN r : r[t] \in [lo : Bounds, hi : Bounds, saved : {NoId}]
TypedMin(gmin) == \A t \in DOMAIN gmin : gmin[t] \in Bounds
RangesOf(filter, gmin) ==
  IF Boundaries(filter) = <<>> /\ filter = Everything
  THEN [t \in {u \in DOMAIN gmin : gmin[u] # NoId} |-> Boundary(gmin[t], NoId, NoId)]
  ELSE Boundaries(filter)
ClampedCp(filter, gmin) ==
  LET r == RangesOf(filter, gmin)
  IN [total |-> 0, prog |-> [t \in {u \in DOMAIN r : ~BelowMin(u, r[u], MinOf(gmin, u))}
                               |-> Clamped(t, r[t], MinOf(gmin, t))]]

LEMMA ClampIsFilterOf ==
  ASSUME NEW filter, NEW gmin
  PROVE  ClampPartition(filter, gmin) = FilterOf(ClampedCp(filter, gmin))
BY DEF ClampPartition, ClampedCp, RangesOf

LEMMA ClampedIsTyped ==
  ASSUME NEW filter, NEW gmin, TypedMin(gmin), TypedRanges(RangesOf(filter, gmin))
  PROVE  TypedCp(ClampedCp(filter, gmin))
<1> DEFINE r == RangesOf(filter, gmin)
           prog == [t \in {u \in DOMAIN r : ~BelowMin(u, r[u], MinOf(gmin, u))}
                      |-> Clamped(t, r[t], MinOf(gmin, t))]
<1>1. \A t : MinOf(gmin, t) \in Bounds
  BY DEF TypedMin, MinOf, Bounds
<1>2. \A b, min, t : b \in [lo : Bounds, hi : Bounds, saved : {NoId}] /\ min \in Bounds
                       => Clamped(t, b, min) \in [lo : Bounds, hi : Bounds, saved : Bounds]
  BY DEF Clamped, Boundary, Bounds
<1>3. \A t \in DOMAIN r : r[t] \in [lo : Bounds, hi : Bounds, saved : {NoId}] /\ t \in IdTypes
  BY DEF TypedRanges
<1> HIDE DEF r
<1>4. DOMAIN prog \subseteq DOMAIN r /\ \A t \in DOMAIN prog : prog[t] = Clamped(t, r[t], MinOf(gmin, t))
  OBVIOUS
<1>5. DOMAIN prog \subseteq IdTypes /\ \A t \in DOMAIN prog : prog[t] \in [lo : Bounds, hi : Bounds, saved : Bounds]
  <2> HIDE DEF prog
  <2> QED BY <1>1, <1>2, <1>3, <1>4
<1>6. ClampedCp(filter, gmin) = [total |-> 0, prog |-> prog]
  BY DEF ClampedCp, r
<1> HIDE DEF prog
<1> QED BY <1>5, <1>6 DEF TypedCp

(* No clamped partition reads below a minimum.                             *)
UnderMin(gmin, id) == id.t \in DOMAIN gmin /\ gmin[id.t].t = id.t /\ id.v < gmin[id.t].v

LEMMA ClampReadsAboveMin ==
  ASSUME NEW filter, NEW gmin, TypedMin(gmin), TypedRanges(RangesOf(filter, gmin)),
         NEW id \in Ids, UnderMin(gmin, id)
  PROVE  ~Matches(id, ClampPartition(filter, gmin))
<1> DEFINE cp == ClampedCp(filter, gmin)
           r == RangesOf(filter, gmin)
<1>1. TypedCp(cp)
  BY ClampedIsTyped
<1>2. ASSUME id.t \in DOMAIN cp.prog PROVE ~Within(cp.prog[id.t], id)
  <2>1. PICK b \in [lo : Bounds, hi : Bounds, saved : {NoId}], min \in Bounds : b = r[id.t] /\ min = gmin[id.t]
    BY <1>2 DEF ClampedCp, TypedRanges, TypedMin, UnderMin
  <2>2. min.t = id.t /\ id.v < min.v /\ min # NoId /\ min.v \in Int /\ id.v \in Int
    BY <2>1, NoIdIsNone DEF UnderMin
  <2>3. MinOf(gmin, id.t) = min
    BY <2>1 DEF MinOf, UnderMin
  <2>4. cp.prog[id.t] = Clamped(id.t, b, min)
    BY <1>2, <2>1, <2>3 DEF ClampedCp
  <2>5. b.lo # NoId => b.lo.v \in Int
    BY NoIdIsNone
  <2>6. ResumeAt(Clamped(id.t, b, min)) = IF b.lo = NoId \/ (b.lo.t = min.t /\ b.lo.v < min.v) THEN min ELSE b.lo
    BY <2>2 DEF Clamped, Boundary, ResumeAt
  <2>7. ~Within(Clamped(id.t, b, min), id)
    BY <2>2, <2>5, <2>6 DEF Within
  <2> QED BY <2>4, <2>7
<1> HIDE DEF cp, r
<1>3. ~Matches(id, FilterOf(cp))
  BY <1>1, <1>2, FilterSelects
<1> QED BY <1>3, ClampIsFilterOf DEF cp

(* A clamped partition reads down to where the partition begins, except    *)
(* below the minimum.                                                      *)
LEMMA ClampReadsDown ==
  ASSUME NEW filter, NEW gmin, TypedMin(gmin), TypedRanges(RangesOf(filter, gmin)),
         NEW cp, NEW D \in SUBSET Ids, NEW A, \A id \in D : UnderMin(gmin, id) => id \in A,
         \A t \in DOMAIN Boundaries(filter) : t \in DOMAIN cp.prog /\ cp.prog[t].lo = Boundaries(filter)[t].lo
  PROVE  ReadsDown(ClampPartition(filter, gmin), cp, D, A)
<1> DEFINE cc == ClampedCp(filter, gmin)
           r == RangesOf(filter, gmin)
<1> SUFFICES ASSUME NEW x \in Selected(D, ClampPartition(filter, gmin)), NEW id \in D,
                    id.t = x.t, id.v < x.v, NotBefore(cp, id), id \notin A
             PROVE  id \in Selected(D, ClampPartition(filter, gmin))
  BY DEF ReadsDown
<1>1. TypedCp(cc) /\ ClampPartition(filter, gmin) = FilterOf(cc)
  BY ClampedIsTyped, ClampIsFilterOf
<1>2. x \in Ids /\ id \in Ids /\ x.v \in Int /\ id.v \in Int /\ Matches(x, FilterOf(cc))
  BY <1>1, NoIdIsNone DEF Selected
<1> HIDE DEF cc, r
<1>3. id.t \in DOMAIN cc.prog /\ ~Completed(cc.prog[id.t]) /\ Within(cc.prog[id.t], x)
  BY <1>1, <1>2, FilterSelects
<1>4. PICK t : t = id.t
  OBVIOUS
<1>5. PICK b \in [lo : Bounds, hi : Bounds, saved : {NoId}], min \in Bounds :
        t \in DOMAIN r /\ b = r[t] /\ min = MinOf(gmin, t) /\ cc.prog[t] = Clamped(t, b, min)
  <2>1. t \in DOMAIN r /\ cc.prog[t] = Clamped(t, r[t], MinOf(gmin, t))
    BY <1>3, <1>4 DEF cc, r, ClampedCp
  <2>2. r[t] \in [lo : Bounds, hi : Bounds, saved : {NoId}] /\ MinOf(gmin, t) \in Bounds
    BY <2>1 DEF r, TypedRanges, TypedMin, MinOf, Bounds
  <2> QED BY <2>1, <2>2
<1>6. min # NoId /\ min.t = t => min.v <= id.v
  <2>1. min # NoId => t \in DOMAIN gmin /\ min = gmin[t] /\ min.v \in Int
    BY <1>5, NoIdIsNone DEF MinOf
  <2>2. ~UnderMin(gmin, id)
    OBVIOUS
  <2> QED BY <1>2, <1>4, <2>1, <2>2 DEF UnderMin
<1>7. b.lo = NoId \/ b.lo.v <= id.v
  <2>1. CASE r = Boundaries(filter)
    BY <1>4, <1>5, <2>1 DEF NotBefore
  <2>2. CASE r # Boundaries(filter)
    <3>1. r = [u \in {w \in DOMAIN gmin : gmin[w] # NoId} |-> Boundary(gmin[u], NoId, NoId)]
      BY <2>2 DEF r, RangesOf
    <3>2. b.lo = gmin[t] /\ min = gmin[t] /\ min # NoId
      BY <1>5, <3>1 DEF Boundary, MinOf
    <3>3. min.t = t
      <4>1. ResumeAt(cc.prog[t]) = min
        BY <1>5, <3>2 DEF Clamped, Boundary, ResumeAt
      <4> QED BY <1>3, <1>4, <3>2, <4>1 DEF Within
    <3> QED BY <1>6, <3>2, <3>3
  <2> QED BY <2>1, <2>2
<1>8. /\ ResumeAt(cc.prog[t]) \in {NoId, min, b.lo} /\ cc.prog[t].hi = b.hi
      /\ ResumeAt(cc.prog[t]) \in {b.lo} \/ (ResumeAt(cc.prog[t]) = min /\ min.t = t /\ min # NoId)
  BY <1>5 DEF Clamped, Boundary, ResumeAt
<1>9. b.hi # NoId => b.hi.v \in Int
  BY NoIdIsNone
<1>10. Within(cc.prog[t], id)
  BY <1>2, <1>3, <1>4, <1>6, <1>7, <1>8, <1>9 DEF Within
<1>11. Matches(id, FilterOf(cc))
  BY <1>1, <1>2, <1>3, <1>4, <1>10, FilterSelects
<1> QED BY <1>1, <1>11 DEF Selected

(* What a slice reads, and the bounds a checkpoint keeps of it.            *)
LEMMA SliceSelects ==
  ASSUME NEW n \in Nat \ {0, 1}, NEW i \in 1..n, NEW t \in IdTypes, NEW b, Inner(b, n, t),
         NEW D \in SUBSET Ids, NEW c, Slice(c, i, n, b, t, D), NEW id \in D, id.t = t
  PROVE  Matches(id, {c}) <=> (i > 1 => b[i - 1].v <= id.v) /\ (i < n => id.v < b[i].v)
<1>1. id.v \in Int /\ c.type \in {"any", t} /\ ~c.loStrict /\ c.mod = NoMod
  BY NoIdIsNone DEF Slice
<1>2. i > 1 => /\ c.lo # NoId /\ c.lo = b[i - 1] /\ c.lo.t = t /\ b[i - 1].v \in Int
  <2>1. i > 1 => i - 1 \in 1..(n - 1)
    OBVIOUS
  <2> QED BY <2>1, NoIdIsNone DEF Slice, Inner
<1>3. i < n => /\ c.hi # NoId /\ c.hi = b[i] /\ c.hi.t = t /\ b[i].v \in Int /\ ~c.hiIncl
  <2>1. i < n => i \in 1..(n - 1)
    OBVIOUS
  <2> QED BY <2>1, NoIdIsNone DEF Slice, Inner
<1>4. i = 1 => c.lo = NoId
  BY DEF Slice
<1>5. i = n /\ c.hi # NoId => c.hi.t = t /\ c.hiIncl /\ id.v <= c.hi.v /\ c.hi.v \in Int
  BY NoIdIsNone DEF Slice
<1>6. i = 1 \/ i > 1
  OBVIOUS
<1>7. i = n \/ i < n
  OBVIOUS
<1>8. (c.lo # NoId => c.lo.t = id.t /\ (c.lo.v < id.v \/ (c.lo.v = id.v /\ ~c.loStrict)))
        <=> (i > 1 => b[i - 1].v <= id.v)
  <2>1. CASE i = 1
    BY <1>4, <2>1
  <2>2. CASE i > 1
    BY <1>1, <1>2, <2>2
  <2> QED BY <1>6, <2>1, <2>2
<1>9. (c.hi # NoId => c.hi.t = id.t /\ (id.v < c.hi.v \/ (c.hi.v = id.v /\ c.hiIncl)))
        <=> (i < n => id.v < b[i].v)
  <2>1. CASE i = n
    BY <1>1, <1>5, <2>1
  <2>2. CASE i < n
    BY <1>1, <1>3, <2>2
  <2> QED BY <1>7, <2>1, <2>2
<1>10. Satisfies(id, c) <=> (i > 1 => b[i - 1].v <= id.v) /\ (i < n => id.v < b[i].v)
  BY <1>1, <1>8, <1>9 DEF Satisfies
<1> QED BY <1>10 DEF Matches

Ceiling(c) == IF c.hiIncl THEN NoId ELSE c.hi

LEMMA SliceBoundaries ==
  ASSUME NEW n \in Nat \ {0, 1}, NEW i \in 1..n, NEW t \in IdTypes, NEW b, Inner(b, n, t),
         NEW D, NEW c, Slice(c, i, n, b, t, D)
  PROVE  /\ DOMAIN Boundaries({c}) = {t}
         /\ Boundaries({c})[t] = Boundary(c.lo, Ceiling(c), NoId)
         /\ c.lo \in Bounds /\ c.hi \in Bounds
<1>1. i = 1 => c.hi # NoId /\ c.hi.t = t /\ ~c.hiIncl /\ c.lo = NoId
  <2>1. i = 1 => i < n /\ i \in 1..(n - 1)
    OBVIOUS
  <2> QED BY <2>1, NoIdIsNone DEF Slice, Inner
<1>2. i # 1 => c.lo # NoId /\ c.lo.t = t /\ c.lo \in Ids
  <2>1. i # 1 => i - 1 \in 1..(n - 1)
    OBVIOUS
  <2> QED BY <2>1, NoIdIsNone DEF Slice, Inner
<1>3. ClauseType(c) = t
  <2>1. CASE c.type = "any"
    BY <1>1, <1>2, <2>1 DEF ClauseType
  <2>2. CASE c.type # "any"
    BY <2>2 DEF ClauseType, Slice
  <2> QED BY <2>1, <2>2
<1>4. t # "none"
  BY TypeRanks
<1>5. {x \in {c} : ClauseType(x) # "none"} = {c}
  BY <1>3, <1>4
<1>6. (CHOOSE x \in {c} : ClauseType(x) = t) = c
  BY <1>3
<1>7. {ClauseType(x) : x \in {c}} = {t}
  BY <1>3
<1>8. Boundaries({c}) = [u \in {t} |-> LET x == CHOOSE x \in {c} : ClauseType(x) = u
                                       IN Boundary(x.lo, Ceiling(x), NoId)]
  BY <1>5, <1>7 DEF Boundaries, Ceiling
<1>9. c.lo \in Bounds /\ c.hi \in Bounds
  <2>1. i < n => i \in 1..(n - 1)
    OBVIOUS
  <2>2. c.hi \in Bounds
    BY <2>1 DEF Slice, Inner, Bounds
  <2> QED BY <1>1, <1>2, <2>2 DEF Bounds
<1> QED BY <1>6, <1>8, <1>9

LEMMA SliceRanges ==
  ASSUME NEW n \in Nat \ {0, 1}, NEW i \in 1..n, NEW t \in IdTypes, NEW b, Inner(b, n, t),
         NEW D, NEW c, Slice(c, i, n, b, t, D), NEW gmin
  PROVE  RangesOf({c}, gmin) = Boundaries({c}) /\ TypedRanges(Boundaries({c}))
<1>1. /\ DOMAIN Boundaries({c}) = {t}
      /\ Boundaries({c})[t] = Boundary(c.lo, Ceiling(c), NoId)
      /\ c.lo \in Bounds /\ c.hi \in Bounds /\ NoId \in Bounds
  BY SliceBoundaries DEF Bounds
<1>2. Boundaries({c}) # <<>>
  <2>1. DOMAIN <<>> = {}
    OBVIOUS
  <2> QED BY <1>1, <2>1
<1>3. Boundaries({c})[t] \in [lo : Bounds, hi : Bounds, saved : {NoId}]
  BY <1>1 DEF Boundary, Ceiling
<1> QED BY <1>1, <1>2, <1>3 DEF RangesOf, TypedRanges

LEMMA SliceReadsDown ==
  ASSUME NEW n \in Nat \ {0, 1}, NEW i \in 1..n, NEW t \in IdTypes, NEW b, Inner(b, n, t),
         NEW D \in SUBSET Ids, \A id \in D : id.t = t, NEW c, Slice(c, i, n, b, t, D),
         NEW cp, t \in DOMAIN cp.prog, cp.prog[t].lo = c.lo, NEW A
  PROVE  ReadsDown({c}, cp, D, A)
<1> SUFFICES ASSUME NEW x \in Selected(D, {c}), NEW id \in D, id.v < x.v, NotBefore(cp, id)
             PROVE  id \in Selected(D, {c})
  BY DEF ReadsDown
<1>1. x \in D /\ x.t = t /\ id.t = t /\ x.v \in Int /\ id.v \in Int /\ Matches(x, {c})
  BY NoIdIsNone DEF Selected
<1>2. i < n => x.v < b[i].v /\ b[i].v \in Int
  <2>1. i < n => i \in 1..(n - 1)
    OBVIOUS
  <2> QED BY <1>1, <2>1, SliceSelects, NoIdIsNone DEF Inner
<1>3. i > 1 => b[i - 1].v <= id.v
  <2>1. i > 1 => i - 1 \in 1..(n - 1) /\ i # 1
    OBVIOUS
  <2>2. i > 1 => c.lo = b[i - 1] /\ c.lo # NoId
    BY <2>1, NoIdIsNone DEF Slice, Inner
  <2> QED BY <1>1, <2>2 DEF NotBefore
<1>4. Matches(id, {c})
  BY <1>1, <1>2, <1>3, SliceSelects
<1> QED BY <1>4 DEF Selected

(* The documents, and how the collection of a parallel attempt is cut.     *)
LEMMA SourcesAreIds ==
  ASSUME docs \in Sources
  PROVE  docs \in SUBSET Ids /\ IsFiniteSet(docs)
<1>1. docs \subseteq AllDocs /\ AllDocs \subseteq Ids /\ IsFiniteSet(AllDocs)
  BY BackfillAssumption DEF Ids
<1> QED BY <1>1, FS_Subset

LEMMA OnePresentType ==
  ASSUME docs \in Sources, Cardinality(PresentTypes) = 1
  PROVE  \E t \in IdTypes : PresentTypes = {t} /\ \A id \in docs : id.t = t
<1>1. PresentTypes \subseteq IdTypes
  BY SourcesAreIds, NoIdIsNone DEF PresentTypes
<1>2. IsFiniteSet(IdTypes)
  <2>1. IsFiniteSet({"number", "string", "objectId"})
    <3>1. IsFiniteSet({"number"})
      BY FS_Singleton
    <3>2. IsFiniteSet({"number"} \cup {"string"})
      BY <3>1, FS_AddElement
    <3>3. IsFiniteSet(({"number"} \cup {"string"}) \cup {"objectId"})
      BY <3>2, FS_AddElement
    <3>4. {"number", "string", "objectId"} = ({"number"} \cup {"string"}) \cup {"objectId"}
      OBVIOUS
    <3> QED BY <3>3, <3>4
  <2> QED BY <2>1, TypeRanks
<1>3. IsFiniteSet(PresentTypes)
  BY <1>1, <1>2, FS_Subset
<1>4. PICK t : PresentTypes = {t}
  BY <1>3, FS_Singleton
<1> QED BY <1>1, <1>4 DEF PresentTypes

LEMMA CutIs ==
  ASSUME docs \in Sources, docs # {}, NEW n \in Counts, n <= Cardinality(docs)
  PROVE  Cut(n) = Partition(docs, "auto", docs, MaxId(docs), n, n, TRUE)
<1>1. CutOf[docs] = [m \in {k \in Counts : k <= Cardinality(docs)} |->
                       Partition(docs, "auto", docs, MaxId(docs), m, m, TRUE)]
  BY DEF CutOf
<1> QED BY <1>1 DEF Cut

LEMMA EverythingHasNoBounds ==
  ASSUME NEW D
  PROVE  /\ DOMAIN Boundaries(Everything) = {} /\ TypedRanges(Boundaries(Everything))
         /\ Everything # Nothing
         /\ \A id \in D : Matches(id, Everything)
<1>1. ClauseType(AnyId) = "none"
  BY DEF ClauseType, AnyId
<1>2. {c \in Everything : ClauseType(c) # "none"} = {}
  BY <1>1 DEF Everything
<1>3. DOMAIN Boundaries(Everything) = {}
  BY <1>2 DEF Boundaries
<1>4. ASSUME NEW id PROVE Matches(id, Everything)
  <2>1. Satisfies(id, AnyId)
    BY DEF Satisfies, AnyId
  <2> QED BY <2>1 DEF Matches, Everything
<1> QED BY <1>3, <1>4 DEF TypedRanges, Everything, Nothing

LEMMA CutPieces ==
  ASSUME docs \in Sources, docs # {}, NEW n \in Counts, n <= Cardinality(docs),
         Cardinality(PresentTypes) = 1, NEW i \in DOMAIN Cut(n),
         NEW gmin, TypedMin(gmin), DOMAIN gmin \subseteq IdTypes, NEW A
  PROVE  LET raw == Cut(n)[i]
         IN  /\ raw # Nothing
             /\ TypedRanges(Boundaries(raw)) /\ TypedRanges(RangesOf(raw, gmin))
             /\ DOMAIN Boundaries(raw) # {} => RangesOf(raw, gmin) = Boundaries(raw)
             /\ \A cp : (\A t \in DOMAIN Boundaries(raw) :
                           t \in DOMAIN cp.prog /\ cp.prog[t].lo = Boundaries(raw)[t].lo)
                          => ReadsDown(raw, cp, docs, A)
<1> DEFINE raw == Cut(n)[i]
<1>1. docs \in SUBSET Ids /\ IsFiniteSet(docs) /\ n \in Nat \ {0}
  BY SourcesAreIds, BackfillAssumption
<1>2. CASE n = 1
  <2>1. Cut(n) = <<Everything>>
    BY <1>2, CutIs DEF Partition
  <2>2. raw = Everything
    BY <2>1
  <2> HIDE DEF raw
  <2>3. TypedRanges(RangesOf(raw, gmin))
    <3>1. CASE RangesOf(raw, gmin) = Boundaries(raw)
      BY <2>2, <3>1, EverythingHasNoBounds
    <3>2. CASE RangesOf(raw, gmin) # Boundaries(raw)
      <4>1. RangesOf(raw, gmin) = [t \in {u \in DOMAIN gmin : gmin[u] # NoId} |-> Boundary(gmin[t], NoId, NoId)]
        BY <3>2 DEF RangesOf
      <4>2. \A t \in DOMAIN gmin : Boundary(gmin[t], NoId, NoId) \in [lo : Bounds, hi : Bounds, saved : {NoId}]
        BY DEF TypedMin, Boundary, Bounds
      <4> QED BY <4>1, <4>2 DEF TypedRanges
    <3> QED BY <3>1, <3>2
  <2>4. \A cp : ReadsDown(raw, cp, docs, A)
    BY <2>2, EverythingHasNoBounds DEF ReadsDown, Selected
  <2> QED BY <2>2, <2>3, <2>4, EverythingHasNoBounds DEF raw
<1>3. CASE n # 1
  <2>1. n \in Nat \ {0, 1}
    BY <1>1, <1>3
  <2>2. PICK t \in IdTypes : \A id \in docs : id.t = t
    BY OnePresentType
  <2>3. PICK b : Chain(Cut(n), n, b, t, docs)
    BY <1>1, <2>1, <2>2, CutIs, CutIsAChain
  <2>4. PICK c : i \in 1..n /\ raw = {c} /\ Slice(c, i, n, b, t, docs) /\ Inner(b, n, t)
    BY <2>3 DEF Chain, Numbered
  <2> HIDE DEF raw
  <2>5. RangesOf(raw, gmin) = Boundaries(raw) /\ TypedRanges(Boundaries(raw))
    BY <2>1, <2>4, SliceRanges
  <2>6. /\ DOMAIN Boundaries(raw) = {t}
        /\ Boundaries(raw)[t].lo = c.lo
    <3>1. DOMAIN Boundaries({c}) = {t}
          /\ Boundaries({c})[t] = Boundary(c.lo, Ceiling(c), NoId)
      <4>1. PICK D : D = docs
        OBVIOUS
      <4>2. Slice(c, i, n, b, t, D) /\ Inner(b, n, t) /\ i \in 1..n
        BY <2>4, <4>1
      <4>3. /\ DOMAIN Boundaries({c}) = {t}
            /\ Boundaries({c})[t] = Boundary(c.lo, Ceiling(c), NoId)
            /\ c.lo \in Bounds /\ c.hi \in Bounds
        BY <2>1, <2>2, <4>2, SliceBoundaries, Zenon
      <4> QED BY <4>3
    <3>2. \A lo, hi : Boundary(lo, hi, NoId).lo = lo
      BY DEF Boundary
    <3> QED BY <2>4, <3>1, <3>2
  <2>7. ASSUME NEW cp, \A u \in DOMAIN Boundaries(raw) :
                         u \in DOMAIN cp.prog /\ cp.prog[u].lo = Boundaries(raw)[u].lo
        PROVE  ReadsDown(raw, cp, docs, A)
    BY <1>1, <2>1, <2>2, <2>4, <2>6, <2>7, SliceReadsDown
  <2>8. raw # Nothing
    BY <2>4 DEF Nothing
  <2> QED BY <2>5, <2>7, <2>8 DEF raw
<1> QED BY <1>2, <1>3

-----------------------------------------------------------------------------
(* What a plan starts with.                                                *)
Sound(filter, cp, D, A) == TypedCp(cp) /\ CoversOnly(cp, D, A) /\ ReadsDown(filter, cp, D, A)

SoundPlan(plan, A) ==
  /\ DOMAIN plan.cps = DOMAIN plan.filters
  /\ \A i \in DOMAIN plan.filters : Sound(plan.filters[i], plan.cps[i], docs, A)

SoundFiles(A) ==
  DOMAIN files = Slots /\ \A k \in Slots : TypedCp(files[k]) /\ CoversOnly(files[k], docs, A)

LEMMA CpFields ==
  ASSUME NEW n, NEW prog
  PROVE  Cp(n, prog).prog = prog /\ Cp(n, prog) = [total |-> Cp(n, prog).total, prog |-> Cp(n, prog).prog]
BY DEF Cp

(* Nothing saved, nothing covered.                                         *)
LEMMA UnsavedCoversNothing ==
  ASSUME NEW cp, \A t \in DOMAIN cp.prog : cp.prog[t].saved = NoId, NEW D \in SUBSET Ids, NEW A
  PROVE  CoversOnly(cp, D, A)
BY NoIdIsNone DEF CoversOnly, Covers

LEMMA DirectIsSound ==
  ASSUME docs \in Sources, NEW n \in Counts \cup {1}, NEW A, SoundFiles(A)
  PROVE  SoundPlan(Direct(n), A)
<1>1. n \in Nat \ {0}
  BY BackfillAssumption
<1>2. \A i \in 1..n : <<i - 1, n>> \in Slots
  <2>1. \A i \in 1..n : i - 1 \in 0..(n - 1)
    BY <1>1
  <2> QED BY <2>1 DEF Slots
<1>3. Direct(n).filters = DirectFilters(files, n) /\ Direct(n).cps = [i \in 1..n |-> files[<<i - 1, n>>]]
  BY DEF Direct
<1>4. DOMAIN Direct(n).cps = 1..n /\ DOMAIN Direct(n).filters = 1..n
  BY <1>3 DEF DirectFilters
<1>5. ASSUME NEW i \in 1..n PROVE Sound(Direct(n).filters[i], Direct(n).cps[i], docs, A)
  <2>1. PICK cp : cp = files[<<i - 1, n>>]
    OBVIOUS
  <2>2. Direct(n).cps[i] = cp /\ Direct(n).filters[i] = FilterOf(cp)
    BY <1>3, <2>1 DEF DirectFilters
  <2>3. TypedCp(cp) /\ CoversOnly(cp, docs, A)
    BY <1>2, <2>1 DEF SoundFiles
  <2> QED BY <2>2, <2>3, FilterReadsDown, SourcesAreIds DEF Sound
<1> QED BY <1>4, <1>5 DEF SoundPlan

LEMMA FreshIsSound ==
  ASSUME docs \in Sources, docs # {}, NEW mode \in {"sequential", "parallel"}, NEW n \in Nat \ {0},
         mode = "parallel" => n \in Counts /\ Possible("parallel", n),
         NEW types \in SUBSET IdTypes, NEW A
  PROVE  SoundPlan(Fresh(mode, n, types), A)
<1> DEFINE cut == IF mode = "sequential" THEN <<Everything>> ELSE Cut(n)
           own(i) == Boundaries(cut[i])
           prog(i) == [t \in DOMAIN own(i) \cup types |-> IF t \in DOMAIN own(i) THEN own(i)[t] ELSE Unbounded]
           cps == [i \in DOMAIN cut |-> Cp(Len(cut), prog(i))]
<1>1. Fresh(mode, n, types).filters = cut /\ Fresh(mode, n, types).cps = cps
  BY DEF Fresh
<1>2. DOMAIN cps = DOMAIN cut
  OBVIOUS
<1>3. ASSUME NEW i \in DOMAIN cut
      PROVE  /\ TypedRanges(own(i))
             /\ \A cp : (\A t \in DOMAIN own(i) : t \in DOMAIN cp.prog /\ cp.prog[t].lo = own(i)[t].lo)
                          => ReadsDown(cut[i], cp, docs, A)
  <2>1. CASE mode = "sequential"
    <3>1. cut[i] = Everything
      BY <1>3, <2>1
    <3> HIDE DEF cut
    <3> QED BY <3>1, EverythingHasNoBounds DEF ReadsDown, Selected
  <2>2. CASE mode = "parallel"
    <3>1. cut = Cut(n) /\ n \in Counts /\ n <= Cardinality(docs) /\ Cardinality(PresentTypes) = 1
      BY <2>2 DEF Possible
    <3>2. PICK gmin : gmin = [t \in {} |-> NoId]
      OBVIOUS
    <3>3. TypedMin(gmin) /\ DOMAIN gmin \subseteq IdTypes
      BY <3>2 DEF TypedMin
    <3> HIDE DEF cut
    <3> QED BY <1>3, <3>1, <3>3, CutPieces
  <2> QED BY <2>1, <2>2
<1>4. ASSUME NEW i \in DOMAIN cut PROVE Sound(cut[i], cps[i], docs, A)
  <2>1. PICK cp : cp = cps[i]
    OBVIOUS
  <2>2. cp = Cp(Len(cut), prog(i))
    BY <1>4, <2>1
  <2>3. cp.prog = prog(i) /\ cp = [total |-> cp.total, prog |-> cp.prog]
    BY <2>2, CpFields
  <2> HIDE DEF cut, cps
  <2>4. PICK r : r = own(i)
    OBVIOUS
  <2>5. TypedRanges(r)
    BY <1>3, <1>4, <2>4
  <2>6. Unbounded \in [lo : Bounds, hi : Bounds, saved : {NoId}]
    BY DEF Unbounded, Boundary, Bounds
  <2>7. /\ DOMAIN cp.prog = DOMAIN r \cup types
        /\ \A t \in DOMAIN cp.prog : cp.prog[t] = IF t \in DOMAIN r THEN r[t] ELSE Unbounded
    BY <2>3, <2>4
  <2> HIDE DEF own, prog
  <2>8. \A t \in DOMAIN cp.prog : cp.prog[t] \in [lo : Bounds, hi : Bounds, saved : {NoId}]
    BY <2>5, <2>6, <2>7 DEF TypedRanges
  <2>9. \A t \in DOMAIN cp.prog : cp.prog[t] \in [lo : Bounds, hi : Bounds, saved : Bounds] /\ cp.prog[t].saved = NoId
    <3>1. NoId \in Bounds
      BY DEF Bounds
    <3> QED BY <2>8, <3>1
  <2>10. TypedCp(cp)
    BY <2>3, <2>5, <2>7, <2>9 DEF TypedCp, TypedRanges
  <2>11. CoversOnly(cp, docs, A)
    BY <2>9, UnsavedCoversNothing, SourcesAreIds
  <2>12. ReadsDown(cut[i], cp, docs, A)
    BY <1>3, <1>4, <2>4, <2>7
  <2> QED BY <2>1, <2>10, <2>11, <2>12 DEF Sound
<1> HIDE DEF cut, cps
<1> QED BY <1>1, <1>2, <1>4 DEF SoundPlan

(* The global minima are _ids of the checkpoints.                          *)
LEMMA MinimaAreTyped ==
  ASSUME NEW A, SoundFiles(A), NEW n \in HistoricalSizes(files)
  PROVE  /\ n \in Nat \ {0} /\ \A i \in 0..(n - 1) : <<i, n>> \in Slots
         /\ TypedMin(GlobalMin(files, n)) /\ DOMAIN GlobalMin(files, n) \subseteq IdTypes
         /\ \A t \in DOMAIN GlobalMin(files, n) : \E i \in Unfinished(files, n, t) :
              /\ GlobalMin(files, n)[t] = ResumeAt(files[<<i, n>>].prog[t])
              /\ \A j \in Unfinished(files, n, t) : i <= j
<1>1. Known(files) \subseteq Slots
  BY DEF Known, SoundFiles
<1>2. n \in Nat \ {0}
  <2>1. PICK k \in Known(files) : n = k[2]
    BY DEF HistoricalSizes
  <2>2. PICK m \in Counts \cup {1} : \E i \in 0..(m - 1) : k = <<i, m>>
    BY <1>1, <2>1 DEF Slots
  <2> QED BY <2>1, <2>2, BackfillAssumption
<1>3. \A i \in 0..(n - 1) : <<i, n>> \in Slots
  BY <1>1 DEF HistoricalSizes, IsValidSet
<1> DEFINE least(t) == CHOOSE j \in Unfinished(files, n, t) : \A k \in Unfinished(files, n, t) : j <= k
<1>4. ASSUME NEW t, Unfinished(files, n, t) # {}
      PROVE  least(t) \in Unfinished(files, n, t) /\ \A k \in Unfinished(files, n, t) : least(t) <= k
  <2>1. Unfinished(files, n, t) \in SUBSET Nat
    BY <1>2 DEF Unfinished
  <2> QED BY <1>4, <2>1, LeastNumber
<1> HIDE DEF least
<1>5. GlobalMin(files, n) = [t \in {u \in IdTypes : Unfinished(files, n, u) # {}} |->
                               ResumeAt(files[<<least(t), n>>].prog[t])]
  BY DEF GlobalMin, least
<1>6. ASSUME NEW t, NEW i \in Unfinished(files, n, t) PROVE ResumeAt(files[<<i, n>>].prog[t]) \in Bounds
  <2>1. i \in 0..(n - 1) /\ t \in DOMAIN files[<<i, n>>].prog
    BY <1>6 DEF Unfinished
  <2>2. TypedCp(files[<<i, n>>])
    BY <1>3, <2>1 DEF SoundFiles
  <2>3. files[<<i, n>>].prog[t] \in [lo : Bounds, hi : Bounds, saved : Bounds]
    BY <2>1, <2>2 DEF TypedCp
  <2> QED BY <2>3 DEF ResumeAt
<1>7. TypedMin(GlobalMin(files, n)) /\ DOMAIN GlobalMin(files, n) \subseteq IdTypes
  BY <1>4, <1>5, <1>6 DEF TypedMin
<1> QED BY <1>2, <1>3, <1>4, <1>5, <1>7

LEMMA SequentialResampleIsSound ==
  ASSUME docs \in Sources, NEW A, SoundFiles(A), HistoricalSizes(files) # {},
         docs \ ReadBy(SequentialResample.filters) \subseteq A
  PROVE  SoundPlan(SequentialResample, A)
<1> DEFINE gmin == PlannedMin(files)
           cp == MinCheckpoint(gmin)
<1>1. TypedMin(gmin) /\ DOMAIN gmin \subseteq IdTypes
  BY MinimaAreTyped DEF PlannedMin
<1>2. SequentialResample.filters = <<FilterOf(cp)>> /\ SequentialResample.cps = <<cp>>
  BY DEF SequentialResample
<1> HIDE DEF gmin
<1>3. /\ cp.prog = [t \in DOMAIN gmin |-> Boundary(NoId, NoId, gmin[t])]
      /\ cp = [total |-> cp.total, prog |-> cp.prog]
  BY DEF MinCheckpoint
<1> HIDE DEF cp
<1>4. TypedCp(cp)
  <2>1. \A t \in DOMAIN cp.prog : cp.prog[t] \in [lo : Bounds, hi : Bounds, saved : Bounds]
    BY <1>1, <1>3 DEF TypedMin, Boundary, Bounds
  <2> QED BY <1>1, <1>3, <2>1 DEF TypedCp
<1>5. ReadBy(<<FilterOf(cp)>>) = Selected(docs, FilterOf(cp))
  BY DEF ReadBy
<1>6. CoversOnly(cp, docs, A)
  <2>1. ASSUME NEW id \in docs, Covers(cp, id) PROVE id \in A
    BY <1>2, <1>4, <1>5, <2>1, FilterLeavesCovered, SourcesAreIds DEF Selected
  <2> QED BY <2>1 DEF CoversOnly
<1>7. Sound(FilterOf(cp), cp, docs, A)
  BY <1>4, <1>6, FilterReadsDown, SourcesAreIds DEF Sound
<1> QED BY <1>2, <1>7 DEF SoundPlan

(* A partition that is skipped lies below the minimum.                     *)
LEMMA SkippedIsUnderMin ==
  ASSUME NEW filter, NEW gmin, ClampPartition(filter, gmin) = Nothing,
         RangesOf(filter, gmin) = Boundaries(filter), TypedMin(gmin), TypedRanges(Boundaries(filter)),
         NEW t \in DOMAIN Boundaries(filter)
  PROVE  BelowMin(t, Boundaries(filter)[t], MinOf(gmin, t))
<1> DEFINE r == Boundaries(filter)
           cp == ClampedCp(filter, gmin)
<1> SUFFICES ASSUME ~BelowMin(t, r[t], MinOf(gmin, t)) PROVE FALSE
  OBVIOUS
<1>1. t \in DOMAIN cp.prog /\ cp.prog[t] = Clamped(t, r[t], MinOf(gmin, t))
  BY DEF ClampedCp
<1>2. r[t].saved = NoId
  BY DEF TypedRanges
<1>3. ~Completed(cp.prog[t])
  <2>1. cp.prog[t].saved = NoId
    BY <1>1, <1>2 DEF Clamped, Boundary
  <2> QED BY <2>1 DEF Completed
<1>4. FilterOf(cp) # {}
  BY <1>1, <1>3 DEF FilterOf
<1> QED BY <1>4, ClampIsFilterOf DEF Nothing

LEMMA SkippedProgressIsTyped ==
  ASSUME NEW r, TypedRanges(r), NEW gmin, TypedMin(gmin)
  PROVE  /\ DOMAIN SkippedProgress(r, gmin) = DOMAIN r
         /\ \A t \in DOMAIN r :
              /\ SkippedProgress(r, gmin)[t] \in [lo : Bounds, hi : Bounds, saved : Bounds]
              /\ SkippedProgress(r, gmin)[t].lo = r[t].lo /\ SkippedProgress(r, gmin)[t].hi = r[t].hi
              /\ r[t].hi # NoId => SkippedProgress(r, gmin)[t].saved = r[t].hi
              /\ r[t].hi = NoId => SkippedProgress(r, gmin)[t].saved = MinOf(gmin, t)
<1>1. DOMAIN SkippedProgress(r, gmin) = DOMAIN r
  BY DEF SkippedProgress
<1>2. ASSUME NEW t \in DOMAIN r
      PROVE  /\ SkippedProgress(r, gmin)[t] \in [lo : Bounds, hi : Bounds, saved : Bounds]
             /\ SkippedProgress(r, gmin)[t].lo = r[t].lo /\ SkippedProgress(r, gmin)[t].hi = r[t].hi
             /\ r[t].hi # NoId => SkippedProgress(r, gmin)[t].saved = r[t].hi
             /\ r[t].hi = NoId => SkippedProgress(r, gmin)[t].saved = MinOf(gmin, t)
  <2>1. PICK b \in [lo : Bounds, hi : Bounds, saved : {NoId}] : b = r[t]
    BY <1>2 DEF TypedRanges
  <2>2. PICK s \in Bounds : s = IF b.hi # NoId THEN b.hi ELSE MinOf(gmin, t)
    BY DEF MinOf, TypedMin, Bounds
  <2>3. SkippedProgress(r, gmin)[t] = [b EXCEPT !.saved = s]
    BY <1>2, <2>1, <2>2 DEF SkippedProgress
  <2> QED BY <2>1, <2>2, <2>3
<1> QED BY <1>1, <1>2

LEMMA ParallelResampleIsSound ==
  ASSUME docs \in Sources, docs # {}, NEW n \in Counts, Possible("parallel", n),
         NEW A, SoundFiles(A), HistoricalSizes(files) # {},
         docs \ ReadBy(ParallelResample(n).filters) \subseteq A
  PROVE  SoundPlan(ParallelResample(n), A)
<1> DEFINE gmin == PlannedMin(files)
           raw == Cut(n)
           clamped == ClampPartitions(raw, gmin)
           own(i) == Boundaries(raw[i])
           prog(i) == IF clamped[i] = Nothing THEN SkippedProgress(own(i), gmin) ELSE own(i)
           cps == [i \in DOMAIN raw |-> Cp(Len(raw), prog(i))]
<1>1. ParallelResample(n).filters = clamped /\ ParallelResample(n).cps = cps
  BY DEF ParallelResample
<1>2. TypedMin(gmin) /\ DOMAIN gmin \subseteq IdTypes
  BY MinimaAreTyped DEF PlannedMin
<1>3. n <= Cardinality(docs) /\ Cardinality(PresentTypes) = 1 /\ docs \in SUBSET Ids
  BY SourcesAreIds DEF Possible
<1> HIDE DEF gmin
<1>4. /\ DOMAIN clamped = DOMAIN raw
      /\ \A i \in DOMAIN raw : clamped[i] = IF DOMAIN gmin = {} THEN raw[i] ELSE ClampPartition(raw[i], gmin)
  BY DEF ClampPartitions
<1>5. ASSUME NEW i \in DOMAIN raw
      PROVE  /\ raw[i] # Nothing /\ TypedRanges(own(i)) /\ TypedRanges(RangesOf(raw[i], gmin))
             /\ DOMAIN own(i) # {} => RangesOf(raw[i], gmin) = own(i)
             /\ \A cp : (\A t \in DOMAIN own(i) : t \in DOMAIN cp.prog /\ cp.prog[t].lo = own(i)[t].lo)
                          => ReadsDown(raw[i], cp, docs, A)
  BY <1>2, <1>3, <1>5, CutPieces
<1>6. DOMAIN cps = DOMAIN raw /\ \A i \in DOMAIN raw : cps[i] = Cp(Len(raw), prog(i))
  OBVIOUS
<1> HIDE DEF raw, cps, clamped
<1>7. ASSUME NEW id \in docs, UnderMin(gmin, id) PROVE id \in A
  <2>1. DOMAIN gmin # {}
    BY <1>7 DEF UnderMin
  <2>2. ASSUME NEW i \in DOMAIN clamped PROVE ~Matches(id, clamped[i])
    <3>1. i \in DOMAIN raw /\ clamped[i] = ClampPartition(raw[i], gmin) /\ id \in Ids
      BY <1>3, <1>4, <2>1, <2>2
    <3> QED BY <1>2, <1>5, <1>7, <3>1, ClampReadsAboveMin
  <2>3. id \notin ReadBy(clamped)
    BY <2>2 DEF ReadBy, Selected
  <2> QED BY <1>1, <2>3
<1>8. ASSUME NEW i \in DOMAIN raw PROVE Sound(clamped[i], cps[i], docs, A)
  <2>1. PICK cp, r : cp = cps[i] /\ r = own(i)
    OBVIOUS
  <2>2. cp.prog = prog(i) /\ cp = [total |-> cp.total, prog |-> cp.prog]
    BY <1>6, <1>8, <2>1, CpFields
  <2>3. TypedRanges(r) /\ NoId \in Bounds
    BY <1>5, <1>8, <2>1 DEF Bounds
  <2>4. /\ DOMAIN cp.prog = DOMAIN r
        /\ \A t \in DOMAIN r : /\ cp.prog[t] \in [lo : Bounds, hi : Bounds, saved : Bounds]
                               /\ cp.prog[t].lo = r[t].lo
    <3>1. CASE clamped[i] = Nothing
      BY <1>2, <2>1, <2>2, <2>3, <3>1, SkippedProgressIsTyped
    <3>2. CASE clamped[i] # Nothing
      BY <2>1, <2>2, <2>3, <3>2 DEF TypedRanges
    <3> QED BY <3>1, <3>2
  <2>5. TypedCp(cp)
    BY <2>2, <2>3, <2>4 DEF TypedCp, TypedRanges
  <2>6. ReadsDown(clamped[i], cp, docs, A)
    <3>1. CASE DOMAIN gmin = {}
      BY <1>4, <1>5, <1>8, <2>1, <2>4, <3>1
    <3>2. CASE DOMAIN gmin # {}
      <4>1. clamped[i] = ClampPartition(raw[i], gmin) /\ TypedRanges(RangesOf(raw[i], gmin))
        BY <1>4, <1>5, <1>8, <3>2
      <4> QED BY <1>2, <1>3, <1>7, <2>1, <2>4, <4>1, ClampReadsDown
    <3> QED BY <3>1, <3>2
  <2>7. CoversOnly(cp, docs, A)
    <3>1. CASE clamped[i] # Nothing
      <4>1. \A t \in DOMAIN cp.prog : cp.prog[t].saved = NoId
        BY <2>1, <2>2, <2>3, <3>1 DEF TypedRanges
      <4> QED BY <1>3, <4>1, UnsavedCoversNothing
    <3>2. CASE clamped[i] = Nothing
      <4>1. ASSUME NEW id \in docs, Covers(cp, id) PROVE id \in A
        <5>1. PICK t : t = id.t
          OBVIOUS
        <5>2. t \in DOMAIN r /\ cp.prog[t].saved.t = t /\ id.v < cp.prog[t].saved.v
          BY <2>4, <4>1, <5>1 DEF Covers
        <5>3. DOMAIN gmin # {} /\ ClampPartition(raw[i], gmin) = Nothing
          BY <1>4, <1>5, <1>8, <3>2
        <5>4. BelowMin(t, r[t], MinOf(gmin, t))
          BY <1>2, <1>5, <1>8, <2>1, <5>2, <5>3, SkippedIsUnderMin
        <5>5. PICK min, hi : min = MinOf(gmin, t) /\ hi = r[t].hi
          OBVIOUS
        <5>6. min.t = t /\ hi.t = t /\ hi.v <= min.v
          BY <5>4, <5>5 DEF BelowMin
        <5>7. id \in Ids /\ t # "none" /\ id.v \in Int
          BY <1>3, <5>1, NoIdIsNone
        <5>8. hi # NoId /\ min # NoId /\ hi \in Bounds /\ min \in Bounds
          BY <1>2, <2>3, <5>2, <5>5, <5>6, <5>7, NoIdIsNone DEF TypedRanges, TypedMin, MinOf
        <5>9. hi.v \in Int /\ min.v \in Int
          BY <5>8, NoIdIsNone
        <5>10. cp.prog[t].saved = hi
          BY <1>2, <2>1, <2>2, <2>3, <3>2, <5>2, <5>5, <5>8, SkippedProgressIsTyped
        <5>11. id.v < min.v
          BY <5>2, <5>6, <5>7, <5>9, <5>10
        <5>12. t \in DOMAIN gmin /\ gmin[t] = min
          BY <5>5, <5>8 DEF MinOf
        <5> QED BY <1>7, <5>1, <5>6, <5>11, <5>12 DEF UnderMin
      <4> QED BY <4>1 DEF CoversOnly
    <3> QED BY <3>1, <3>2
  <2> QED BY <2>1, <2>5, <2>6, <2>7 DEF Sound
<1> QED BY <1>1, <1>4, <1>6, <1>8 DEF SoundPlan

LEMMA PlanIsSound ==
  ASSUME docs \in Sources, docs # {}, NEW mode \in {"sequential", "parallel"}, NEW n \in Nat \ {0},
         mode = "sequential" => n = 1, mode = "parallel" => n \in Counts /\ Possible("parallel", n),
         NEW types \in SUBSET IdTypes, NEW A, SoundFiles(A),
         docs \ ReadBy(Plan(mode, n, types).filters) \subseteq A
  PROVE  SoundPlan(Plan(mode, n, types), A)
<1>1. CASE EffectiveMode(mode, n) = "direct"
  BY <1>1, DirectIsSound DEF Plan
<1>2. CASE EffectiveMode(mode, n) = "fresh"
  BY <1>2, FreshIsSound DEF Plan
<1>3. CASE EffectiveMode(mode, n) = "resample"
  <2>1. HistoricalSizes(files) # {}
    BY <1>3 DEF EffectiveMode, PlanMode
  <2>2. Plan(mode, n, types) = IF mode = "sequential" THEN SequentialResample ELSE ParallelResample(n)
    BY <1>3 DEF Plan
  <2> QED BY <2>1, <2>2, SequentialResampleIsSound, ParallelResampleIsSound
<1>4. EffectiveMode(mode, n) \in {"direct", "fresh", "resample"}
  BY DEF EffectiveMode, PlanMode
<1> QED BY <1>1, <1>2, <1>3, <1>4

-----------------------------------------------------------------------------
(* The invariant of the copy.                                              *)

(* The pending batches of a tracker are read documents, in their order.    *)
Ordered(q, read) ==
  /\ \A i \in DOMAIN q : q[i].ids \subseteq read /\ q[i].max = MaxPerType(q[i].ids)
  /\ \A i, j \in DOMAIN q : i < j => \A a \in q[i].ids, b \in q[j].ids : IdLess(a, b)
OrderInv(p) == Ordered(pend[p], Selected(docs, parts[p]) \ Rest(p))

CopyPart(p) ==
  /\ Sound(parts[p], ck[p], docs, Accounted) /\ OrderInv(p)
  /\ rd[p].state = "completed" => WorkersDone(p)

CopyInv ==
  /\ target \subseteq docs /\ dlq \subseteq docs
  /\ SoundFiles(Accounted)
  /\ DOMAIN ck = Parts /\ \A p \in Parts : CopyPart(p)
  /\ outcome = "ok" => \A p \in Parts : rd[p].state = "completed"

(* The greatest _id of each type of a batch is one of the batch.           *)
LEMMA BatchMaxima ==
  ASSUME NEW ids \in SUBSET Ids, IsFiniteSet(ids), NEW t \in DOMAIN MaxPerType(ids)
  PROVE  MaxPerType(ids)[t] \in ids /\ MaxPerType(ids)[t].t = t
<1>1. OfType(ids, t) # {} /\ MaxPerType(ids)[t] = MaxId(OfType(ids, t)) /\ OfType(ids, t) \subseteq ids
  BY DEF MaxPerType, OfType
<1>2. OfType(ids, t) \in SUBSET Ids /\ IsFiniteSet(OfType(ids, t))
  BY <1>1, FS_Subset
<1>3. MaxId(OfType(ids, t)) \in OfType(ids, t)
  BY <1>1, <1>2, MaxIdIsGreatest
<1> QED BY <1>1, <1>3 DEF OfType

(* A document is behind the reader when one above it is.                   *)
LEMMA BehindTheReader ==
  ASSUME AttemptTypes, NEW p \in Parts, NEW a \in Selected(docs, parts[p]),
         NEW m \in Selected(docs, parts[p]) \ Rest(p), IdLess(a, m)
  PROVE  a \notin Rest(p)
<1>1. docs \subseteq Ids /\ a \in Ids /\ m \in Ids
  BY DocsAreIds DEF Selected
<1>2. rd[p].last \in Bounds
  BY DEF AttemptTypes, ReaderStates, Bounds
<1>3. rd[p].last # NoId /\ ~IdLess(rd[p].last, m)
  BY DEF Rest
<1>4. rd[p].last \in Ids
  BY <1>2, <1>3, NoIdIsNone
<1>5. ~IdLess(rd[p].last, a)
  BY <1>1, <1>3, <1>4, IdOrder
<1> QED BY <1>3, <1>5 DEF Rest

(* A tracker saves the progress of its leading acknowledged batches: what  *)
(* the new checkpoint covers is accounted for.                             *)
LEMMA LastOf ==
  ASSUME NEW n \in Nat, NEW T \in SUBSET (1..n), T # {}
  PROVE  /\ (CHOOSE i \in T : \A j \in T : j <= i) \in T
         /\ \A j \in T : j <= (CHOOSE i \in T : \A j2 \in T : j2 <= i)
<1> DEFINE depths == {n - i : i \in T}
<1>1. depths \in SUBSET Nat /\ depths # {}
  <2>1. \A i \in T : n - i \in Nat
    OBVIOUS
  <2>2. PICK i \in T : TRUE
    OBVIOUS
  <2> QED BY <2>1, <2>2
<1>2. PICK m \in T : \A d \in depths : n - m <= d
  BY <1>1, LeastNumber
<1>3. \A j \in T : n - m <= n - j
  BY <1>2
<1>4. \A j \in T : j <= m
  BY <1>3
<1> QED BY <1>4

(* The acknowledged batches at the head of the pending ones.               *)
Leading(p, q, k) ==
  /\ DOMAIN q = DOMAIN pend[p] /\ k \in Nat
  /\ \A i \in 1..k : i \in DOMAIN q
  /\ \A i \in DOMAIN q : q[i].ids = pend[p][i].ids /\ q[i].max = pend[p][i].max
  /\ \A i \in 1..k : q[i].ids \subseteq Settled

LeadingMaximum(p, q, k, m) ==
  \E i \in 1..k : /\ m \in q[i].ids /\ m \in Ids
                 /\ q[i].ids \subseteq Selected(docs, parts[p]) \ Rest(p)
OldBounds(cp, t) == IF t \in DOMAIN cp.prog THEN cp.prog[t] ELSE Unbounded

LEMMA AdvanceFields ==
  ASSUME BackfillInv, CopyInv, NEW p \in Parts, NEW q, NEW k, Leading(p, q, k),
         NEW cp, cp = ck[p], NEW new, new = Advanced(cp, q, k)
  PROVE  /\ new = [total |-> cp.total, prog |-> new.prog]
         /\ DOMAIN cp.prog \subseteq DOMAIN new.prog
         /\ \A t \in DOMAIN new.prog :
              /\ t \in IdTypes /\ new.prog[t] \in [lo : Bounds, hi : Bounds, saved : Bounds]
              /\ new.prog[t].lo = OldBounds(cp, t).lo /\ new.prog[t].hi = OldBounds(cp, t).hi
              /\ \/ t \in DOMAIN cp.prog /\ new.prog[t] = cp.prog[t]
                 \/ new.prog[t].saved.t = t /\ LeadingMaximum(p, q, k, new.prog[t].saved)
<1> DEFINE seen(t) == {i \in 1..k : t \in DOMAIN q[i].max}
           latest(t) == q[CHOOSE i \in seen(t) : \A j \in seen(t) : j <= i].max[t]
           types == UNION {DOMAIN q[i].max : i \in 1..k}
           old(t) == IF t \in DOMAIN cp.prog THEN cp.prog[t] ELSE Unbounded
           prog == [t \in DOMAIN cp.prog \cup types |->
                      IF seen(t) = {} THEN old(t) ELSE [old(t) EXCEPT !.saved = latest(t)]]
<1>0. AttemptTypes /\ CopyPart(p) /\ docs \in SUBSET Ids /\ IsFiniteSet(docs)
  BY DocsAreIds DEF BackfillInv, CopyInv
<1>1. TypedCp(cp)
  BY <1>0 DEF CopyPart, Sound
<1>2. new = [total |-> cp.total, prog |-> prog]
  <2>1. new = [cp EXCEPT !.prog = prog]
    BY DEF Advanced
  <2> HIDE DEF prog
  <2>2. PICK total, before : cp = [total |-> total, prog |-> before]
    BY <1>1 DEF TypedCp
  <2>3. [cp EXCEPT !.prog = prog] = [total |-> total, prog |-> prog] /\ cp.total = total
    BY <2>2
  <2> QED BY <2>1, <2>3
<1>3. ASSUME NEW t, seen(t) # {}
      PROVE  \E i \in 1..k : /\ t \in DOMAIN q[i].max /\ latest(t) = q[i].max[t]
  <2>1. seen(t) \in SUBSET (1..k) /\ k \in Nat
    BY DEF Leading
  <2>2. (CHOOSE i \in seen(t) : \A j \in seen(t) : j <= i) \in seen(t)
    <3> HIDE DEF seen
    <3> QED BY <1>3, <2>1, LastOf
  <2> QED BY <2>2
<1> HIDE DEF latest
<1>4. ASSUME NEW t, seen(t) # {}
      PROVE  latest(t).t = t /\ LeadingMaximum(p, q, k, latest(t))
  <2>1. PICK i \in 1..k : t \in DOMAIN q[i].max /\ latest(t) = q[i].max[t]
    BY <1>3, <1>4
  <2>2. PICK ids : ids = q[i].ids
    OBVIOUS
  <2>3. ids \subseteq Selected(docs, parts[p]) \ Rest(p) /\ q[i].max = MaxPerType(ids)
    BY <1>0, <2>2 DEF Leading, CopyPart, OrderInv, Ordered
  <2>4. ids \in SUBSET Ids /\ ids \subseteq docs /\ IsFiniteSet(ids)
    BY <1>0, <2>3, FS_Subset DEF Selected
  <2>5. latest(t) \in ids /\ latest(t).t = t /\ latest(t) \in Ids
    BY <2>1, <2>2, <2>3, <2>4, BatchMaxima
  <2> QED BY <2>2, <2>3, <2>5 DEF LeadingMaximum
<1>5. \A t \in types : seen(t) # {}
  OBVIOUS
<1> HIDE DEF seen, types
<1>6. ASSUME NEW t \in DOMAIN prog
      PROVE  /\ t \in IdTypes /\ prog[t] \in [lo : Bounds, hi : Bounds, saved : Bounds]
             /\ prog[t].lo = OldBounds(cp, t).lo /\ prog[t].hi = OldBounds(cp, t).hi
             /\ \/ t \in DOMAIN cp.prog /\ prog[t] = cp.prog[t]
                \/ prog[t].saved.t = t /\ LeadingMaximum(p, q, k, prog[t].saved)
  <2>1. NoId \in Bounds
    BY DEF Bounds
  <2>2. PICK b \in [lo : Bounds, hi : Bounds, saved : Bounds] : b = old(t) /\ b = OldBounds(cp, t)
    <3>1. Unbounded \in [lo : Bounds, hi : Bounds, saved : Bounds]
      BY <2>1 DEF Unbounded, Boundary
    <3>2. \A u \in DOMAIN cp.prog : cp.prog[u] \in [lo : Bounds, hi : Bounds, saved : Bounds]
      BY <1>1 DEF TypedCp
    <3> QED BY <3>1, <3>2 DEF OldBounds
  <2>3. CASE seen(t) = {}
    <3>1. prog[t] = b /\ t \in DOMAIN cp.prog
      BY <1>5, <2>2, <2>3
    <3> QED BY <1>1, <2>2, <2>3, <3>1 DEF TypedCp
  <2>4. CASE seen(t) # {}
    <3>1. PICK m : m = latest(t) /\ m.t = t /\ LeadingMaximum(p, q, k, m)
      BY <1>4, <2>4
    <3>2. prog[t] = [b EXCEPT !.saved = m] /\ m \in Bounds /\ t \in IdTypes
      BY <2>2, <2>4, <3>1, NoIdIsNone DEF Bounds, LeadingMaximum
    <3>3. /\ [b EXCEPT !.saved = m] \in [lo : Bounds, hi : Bounds, saved : Bounds]
          /\ [b EXCEPT !.saved = m].lo = b.lo /\ [b EXCEPT !.saved = m].hi = b.hi
          /\ [b EXCEPT !.saved = m].saved = m
      BY <3>2
    <3> QED BY <2>2, <3>1, <3>2, <3>3
  <2> QED BY <2>3, <2>4
<1>7. DOMAIN cp.prog \subseteq DOMAIN prog
  OBVIOUS
<1> HIDE DEF prog
<1>8. new.prog = prog
  BY <1>2
<1> QED BY <1>2, <1>6, <1>7, <1>8

LEMMA AdvanceIsSound ==
  ASSUME BackfillInv, CopyInv, NEW p \in Parts, NEW q, NEW k, Leading(p, q, k)
  PROVE  Sound(parts[p], Advanced(ck[p], q, k), docs, Accounted)
<1>1. PICK cp, new : cp = ck[p] /\ new = Advanced(cp, q, k)
  OBVIOUS
<1>2. AttemptTypes /\ PartInv(p) /\ CopyPart(p) /\ docs \in SUBSET Ids /\ IsFiniteSet(docs)
  BY DocsAreIds DEF BackfillInv, CopyInv
<1>3. TypedCp(cp) /\ CoversOnly(cp, docs, Accounted) /\ ReadsDown(parts[p], cp, docs, Accounted)
  BY <1>1, <1>2 DEF CopyPart, Sound
<1>4. /\ new = [total |-> cp.total, prog |-> new.prog]
      /\ DOMAIN cp.prog \subseteq DOMAIN new.prog
      /\ \A t \in DOMAIN new.prog :
           /\ t \in IdTypes /\ new.prog[t] \in [lo : Bounds, hi : Bounds, saved : Bounds]
           /\ new.prog[t].lo = OldBounds(cp, t).lo
           /\ \/ t \in DOMAIN cp.prog /\ new.prog[t] = cp.prog[t]
              \/ new.prog[t].saved.t = t /\ LeadingMaximum(p, q, k, new.prog[t].saved)
  BY <1>1, AdvanceFields
<1>5. TypedCp(new)
  <2>1. new.total = cp.total
    BY <1>4
  <2> QED BY <1>4, <2>1 DEF TypedCp
<1>6. ASSUME NEW id \in docs PROVE NotBefore(new, id) <=> NotBefore(cp, id)
  <2>1. PICK t : t = id.t
    OBVIOUS
  <2>2. Unbounded.lo = NoId
    BY DEF Unbounded, Boundary
  <2> QED BY <1>4, <2>1, <2>2 DEF NotBefore, OldBounds
<1>7. ReadsDown(parts[p], new, docs, Accounted)
  BY <1>3, <1>6 DEF ReadsDown
<1>8. ASSUME NEW id \in docs, Covers(new, id) PROVE id \in Accounted
  <2>1. PICK t : t = id.t
    OBVIOUS
  <2>2. t \in DOMAIN new.prog /\ NotBefore(new, id) /\ new.prog[t].saved.t = t /\ id.v < new.prog[t].saved.v
    BY <1>8, <2>1 DEF Covers, NotBefore
  <2>3. NotBefore(cp, id)
    BY <1>6, <2>2
  <2>4. CASE t \in DOMAIN cp.prog /\ new.prog[t] = cp.prog[t]
    <3>1. Covers(cp, id)
      BY <2>1, <2>2, <2>3, <2>4 DEF Covers, NotBefore
    <3> QED BY <1>3, <3>1 DEF CoversOnly
  <2>5. CASE LeadingMaximum(p, q, k, new.prog[t].saved)
    <3>1. PICK m, i : /\ i \in 1..k /\ m = new.prog[t].saved /\ m \in q[i].ids /\ m \in Ids
                      /\ q[i].ids \subseteq Selected(docs, parts[p]) \ Rest(p)
      BY <2>5 DEF LeadingMaximum
    <3>2. id.v < m.v /\ id.t = m.t /\ m \in Selected(docs, parts[p]) \ Rest(p)
      BY <2>1, <2>2, <3>1
    <3>3. SUFFICES ASSUME id \notin Accounted PROVE FALSE
      OBVIOUS
    <3>4. id \in Selected(docs, parts[p])
      BY <1>3, <2>3, <3>2, <3>3 DEF ReadsDown
    <3>5. id \in Ids /\ IdLess(id, m)
      BY <1>2, <3>1, <3>2, IdOrder
    <3>6. id \notin Rest(p)
      BY <1>2, <3>2, <3>4, <3>5, BehindTheReader
    <3>7. PICK j \in DOMAIN pend[p] : id \in pend[p][j].ids
      BY <1>2, <3>3, <3>4, <3>6 DEF PartInv, TrackInv, Pending, Accounted
    <3>8. i \in DOMAIN pend[p] /\ m \in pend[p][i].ids /\ i \in Int /\ k \in Int /\ j \in Int
      <4>1. pend[p] \in Seq(Batches)
        BY <1>2 DEF AttemptTypes
      <4>2. DOMAIN pend[p] = 1..Len(pend[p]) /\ Len(pend[p]) \in Nat
        BY <4>1, LenProperties
      <4> QED BY <3>1, <3>7, <4>2 DEF Leading
    <3>9. ~(i < j)
      <4>1. i < j => IdLess(m, id)
        BY <1>2, <3>7, <3>8 DEF CopyPart, OrderInv, Ordered
      <4> QED BY <3>1, <3>5, <4>1, IdOrder
    <3>10. j \in 1..k
      <4>1. j \in 1..Len(pend[p])
        BY <1>2, <3>7, LenProperties DEF AttemptTypes
      <4> QED BY <3>1, <3>8, <3>9, <4>1
    <3>11. id \in Settled
      BY <3>7, <3>10 DEF Leading
    <3> QED BY <3>3, <3>11 DEF Accounted
  <2> QED BY <1>4, <2>2, <2>4, <2>5
<1> QED BY <1>1, <1>5, <1>7, <1>8 DEF Sound, CoversOnly

-----------------------------------------------------------------------------
(* A save keeps its checkpoint sound: no step of a partition breaks CopyInv. *)

LEMMA CopyStep ==
  ASSUME BackfillInv, CopyInv, NEW p \in Parts, UNCHANGED <<docs, parts>>,
         Accounted \subseteq Accounted', target' \subseteq docs, dlq' \subseteq docs,
         DOMAIN files' = Slots, DOMAIN ck' = Parts,
         \A k \in Slots : \/ files'[k] = files[k]
                          \/ TypedCp(files'[k]) /\ CoversOnly(files'[k], docs, Accounted),
         \A r \in Parts : r # p => ck'[r] = ck[r] /\ Unmoved(r),
         Sound(parts[p], ck'[p], docs, Accounted), OrderInv(p)',
         rd'[p].state = "completed" => WorkersDone(p)',
         outcome' = "ok" => outcome = "ok" /\ rd' = rd
  PROVE  CopyInv'
<1>1. SoundFiles(Accounted)'
  <2>1. \A k \in Slots : TypedCp(files'[k]) /\ CoversOnly(files'[k], docs, Accounted)
    BY DEF CopyInv, SoundFiles
  <2>2. \A k \in Slots : TypedCp(files'[k]) /\ CoversOnly(files'[k], docs', Accounted')
    BY <2>1, GrowingKeeps
  <2> QED BY <2>2 DEF SoundFiles
<1>2. ASSUME NEW r \in Parts PROVE CopyPart(r)'
  <2>1. Sound(parts[r], ck'[r], docs, Accounted)
    BY DEF CopyInv, CopyPart
  <2>2. Sound(parts'[r], ck'[r], docs', Accounted')
    BY <2>1, GrowingKeeps DEF Sound
  <2>3. CASE r = p
    BY <2>2, <2>3 DEF CopyPart
  <2>4. CASE r # p
    <3>1. Rest(r)' = Rest(r) /\ Selected(docs, parts[r])' = Selected(docs, parts[r]) /\ pend'[r] = pend[r]
      BY <2>4 DEF Rest, Selected, Unmoved
    <3>2. OrderInv(r)'
      BY <3>1 DEF CopyInv, CopyPart, OrderInv
    <3>3. rd'[r].state = "completed" => WorkersDone(r)'
      BY <2>4 DEF CopyInv, CopyPart, WorkersDone, Unmoved
    <3> QED BY <2>2, <3>2, <3>3 DEF CopyPart
  <2> QED BY <2>3, <2>4
<1>3. Parts' = Parts
  BY DEF Parts
<1> QED BY <1>1, <1>2, <1>3 DEF CopyInv

LEMMA OrderedTail ==
  ASSUME NEW q \in Seq(Batches), NEW read, Ordered(q, read), NEW k \in 0..Len(q)
  PROVE  Ordered(SubSeq(q, k + 1, Len(q)), read)
<1>1. PICK m : m = Len(q) /\ m \in Nat /\ DOMAIN q = 1..m
  BY LenProperties
<1>2. PICK r : r = SubSeq(q, k + 1, Len(q))
  OBVIOUS
<1>3. k \in 0..m /\ r = SubSeq(q, k + 1, m)
  BY <1>1, <1>2
<1>4. /\ DOMAIN r = 1..(m - k)
      /\ \A j \in 1..(m - k) : r[j] = q[j + k] /\ j + k \in DOMAIN q
  <2>1. \A i \in (k + 1)..m : q[i] \in Batches
    BY <1>1, <1>3, ElementOfSeq
  <2>2. /\ r \in Seq(Batches)
        /\ Len(r) = IF k + 1 <= m THEN m - (k + 1) + 1 ELSE 0
        /\ \A j \in 1..(m - (k + 1) + 1) : r[j] = q[k + 1 + j - 1]
    <3>0. m \in Int /\ DOMAIN q = 1..m
      BY <1>1
    <3>1. PICK a \in Int : a = k + 1 /\ (\A i \in a..m : q[i] \in Batches) /\ r = SubSeq(q, a, m)
      BY <1>1, <1>3, <2>1
    <3>2. /\ SubSeq(q, a, m) \in Seq(Batches)
          /\ Len(SubSeq(q, a, m)) = IF a <= m THEN m - a + 1 ELSE 0
          /\ \A j \in 1..(m - a + 1) : SubSeq(q, a, m)[j] = q[a + j - 1]
      BY <3>0, <3>1, SubSeqProperties
    <3> QED BY <3>1, <3>2
  <2>3. Len(r) = m - k
    BY <1>1, <1>3, <2>2
  <2>4. \A j \in 1..(m - k) : r[j] = q[j + k]
    BY <1>1, <1>3, <2>2
  <2>5. \A j \in 1..(m - k) : j + k \in DOMAIN q
    BY <1>1, <1>3
  <2> QED BY <2>2, <2>3, <2>4, <2>5, LenProperties
<1>5. ASSUME NEW i \in DOMAIN r, NEW j \in DOMAIN r, i < j
      PROVE  \A a \in r[i].ids, b \in r[j].ids : IdLess(a, b)
  <2>1. i + k < j + k /\ i + k \in DOMAIN q /\ j + k \in DOMAIN q /\ r[i] = q[i + k] /\ r[j] = q[j + k]
    BY <1>1, <1>3, <1>4, <1>5
  <2> QED BY <2>1 DEF Ordered
<1>6. Ordered(r, read)
  BY <1>4, <1>5 DEF Ordered
<1> QED BY <1>2, <1>6

(* The batches of a tracker, some of them newly acknowledged.              *)
SameBatches(p, q) ==
  /\ q \in Seq(Batches) /\ DOMAIN q = DOMAIN pend[p]
  /\ \A i \in DOMAIN q : q[i].ids = pend[p][i].ids /\ q[i].max = pend[p][i].max
  /\ \A i \in DOMAIN q : q[i].acked => q[i].ids \subseteq Settled

LEMMA LeadingBatches ==
  ASSUME NEW p, NEW q, SameBatches(p, q)
  PROVE  LeadingAcked(q) \in 0..Len(q) /\ Leading(p, q, LeadingAcked(q))
<1>1. PICK k : k = LeadingAcked(q)
  OBVIOUS
<1>2. k \in 0..Len(q) /\ \A i \in 1..k : q[i].acked
  BY <1>1, LeadingAreAcked DEF SameBatches
<1>3. Len(q) \in Nat /\ DOMAIN q = 1..Len(q)
  BY LenProperties DEF SameBatches
<1>4. Leading(p, q, k)
  BY <1>2, <1>3 DEF Leading, SameBatches
<1> QED BY <1>1, <1>2, <1>4

LEMMA SaveIsSound ==
  ASSUME BackfillInv, CopyInv, NEW p \in Parts, NEW q, NEW d, SameBatches(p, q), Save(p, q, d)
  PROVE  /\ DOMAIN files' = Slots /\ DOMAIN ck' = Parts
         /\ \A k \in Slots : \/ files'[k] = files[k]
                             \/ TypedCp(files'[k]) /\ CoversOnly(files'[k], docs, Accounted)
         /\ \A r \in Parts : r # p => ck'[r] = ck[r] /\ pend'[r] = pend[r]
         /\ Sound(parts[p], ck'[p], docs, Accounted)
         /\ Ordered(pend'[p], Selected(docs, parts[p]) \ Rest(p))
<1> DEFINE read == Selected(docs, parts[p]) \ Rest(p)
<1>0. /\ DOMAIN files = Slots /\ DOMAIN ck = Parts /\ DOMAIN pend = Parts
      /\ Sound(parts[p], ck[p], docs, Accounted) /\ Ordered(pend[p], read)
  BY DEF BackfillInv, AttemptTypes, CopyInv, SoundFiles, CopyPart, OrderInv
<1>1. Ordered(q, read)
  BY <1>0 DEF SameBatches, Ordered
<1>2. PICK k : k = LeadingAcked(q)
  OBVIOUS
<1>3. k \in 0..Len(q)
  BY <1>2, LeadingBatches
<1>4. Leading(p, q, k)
  BY <1>2, LeadingBatches
<1>5. PICK new : new = Advanced(ck[p], q, k)
  OBVIOUS
<1>6. Sound(parts[p], new, docs, Accounted)
  BY <1>4, <1>5, AdvanceIsSound
<1>7. Ordered(SubSeq(q, k + 1, Len(q)), read)
  BY <1>1, <1>3, OrderedTail DEF SameBatches
<1> HIDE DEF read
<1>8. CASE /\ files' = [files EXCEPT ![<<p - 1, Len(parts)>>] = new]
           /\ ck' = [ck EXCEPT ![p] = new]
           /\ pend' = [pend EXCEPT ![p] = SubSeq(q, k + 1, Len(q))]
  <2>1. \A s \in Slots : files'[s] = files[s] \/ files'[s] = new
    BY <1>0, <1>8
  <2>2. ck'[p] = new /\ pend'[p] = SubSeq(q, k + 1, Len(q)) /\ DOMAIN ck' = Parts /\ DOMAIN files' = Slots
    BY <1>0, <1>8
  <2>3. \A r \in Parts : r # p => ck'[r] = ck[r] /\ pend'[r] = pend[r]
    BY <1>0, <1>8
  <2>4. TypedCp(new) /\ CoversOnly(new, docs, Accounted)
    BY <1>6 DEF Sound
  <2> QED BY <1>6, <1>7, <2>1, <2>2, <2>3, <2>4 DEF read
<1>9. CASE pend' = [pend EXCEPT ![p] = q] /\ UNCHANGED <<files, ck>>
  <2>1. pend'[p] = q /\ \A r \in Parts : r # p => pend'[r] = pend[r]
    BY <1>0, <1>9
  <2> QED BY <1>0, <1>1, <1>9, <2>1 DEF read
<1> QED BY <1>2, <1>5, <1>8, <1>9 DEF Save

LEMMA PlainStepCopies ==
  ASSUME BackfillInv, CopyInv, NEW p \in Parts,
         UNCHANGED <<docs, files, ck, parts, skipped, overlooked, outcome, pend>>,
         Settled \subseteq Settled', target' \subseteq docs, dlq' \subseteq docs,
         \A r \in Parts : r # p => Unmoved(r),
         rd'[p].last = rd[p].last, rd'[p].state = "completed" => WorkersDone(p)',
         outcome = "ok" => rd' = rd
  PROVE  CopyInv'
<1>1. /\ CopyPart(p) /\ DOMAIN files = Slots /\ DOMAIN ck = Parts
  BY DEF CopyInv, SoundFiles
<1>2. Accounted \subseteq Accounted'
  BY DEF Accounted
<1>3. Rest(p)' = Rest(p) /\ Selected(docs, parts[p])' = Selected(docs, parts[p])
  BY DEF Rest, Selected
<1>4. OrderInv(p)'
  BY <1>1, <1>3 DEF CopyPart, OrderInv
<1>5. Sound(parts[p], ck'[p], docs, Accounted)
  BY <1>1 DEF CopyPart
<1> QED BY <1>1, <1>2, <1>4, <1>5, CopyStep

LEMMA SaveCopies ==
  ASSUME BackfillInv, CopyInv, NEW p \in Parts, NEW q, NEW d, SameBatches(p, q), Save(p, q, d),
         UNCHANGED <<docs, target, dlq, parts, chan, skipped>>, overlooked \subseteq overlooked',
         rd'[p].last = rd[p].last,
         \A r \in Parts : r # p => rd'[r] = rd[r] /\ work'[r] = work[r] /\ err'[r] = err[r],
         rd'[p].state = "completed" => WorkersDone(p)',
         outcome' = "ok" => outcome = "ok" /\ rd' = rd
  PROVE  CopyInv'
<1>1. /\ DOMAIN files' = Slots /\ DOMAIN ck' = Parts
      /\ \A k \in Slots : \/ files'[k] = files[k]
                          \/ TypedCp(files'[k]) /\ CoversOnly(files'[k], docs, Accounted)
      /\ \A r \in Parts : r # p => ck'[r] = ck[r] /\ pend'[r] = pend[r]
      /\ Sound(parts[p], ck'[p], docs, Accounted)
      /\ Ordered(pend'[p], Selected(docs, parts[p]) \ Rest(p))
  BY SaveIsSound
<1>2. Settled' = Settled /\ Accounted \subseteq Accounted'
  BY DEF Settled, Accounted
<1>3. Rest(p)' = Rest(p) /\ Selected(docs, parts[p])' = Selected(docs, parts[p])
  BY DEF Rest, Selected
<1>4. OrderInv(p)'
  BY <1>1, <1>3 DEF OrderInv
<1>5. \A r \in Parts : r # p => ck'[r] = ck[r] /\ Unmoved(r)
  BY <1>1 DEF Unmoved
<1>6. target' \subseteq docs /\ dlq' \subseteq docs
  BY DEF CopyInv
<1> QED BY <1>1, <1>2, <1>4, <1>5, <1>6, CopyStep

(* The tracker saves what it has, its batches as they are.                 *)
LEMMA OwnBatches ==
  ASSUME BackfillInv, NEW p \in Parts
  PROVE  SameBatches(p, pend[p])
BY DEF BackfillInv, AttemptTypes, PartInv, TrackInv, SameBatches

LEMMA TickCopies ==
  ASSUME BackfillInv, CopyInv, NEW p \in Parts, Tick(p)
  PROVE  CopyInv'
<1>1. rd[p].state # "completed"
  BY DEF Tick
<1> QED BY <1>1, OwnBatches, SaveCopies DEF Tick

LEMMA FailCopies ==
  ASSUME BackfillInv, CopyInv, NEW p \in Parts, Fail(p)
  PROVE  CopyInv'
<1>0. rd \in [Parts -> ReaderStates] /\ err \in [Parts -> BOOLEAN]
  BY DEF BackfillInv, AttemptTypes
<1>1. PICK one : one = [rd[p] EXCEPT !.state = "failed"]
  OBVIOUS
<1>2. one.last = rd[p].last /\ one.state = "failed"
  BY <1>0, <1>1 DEF ReaderStates
<1>3. rd' = [rd EXCEPT ![p] = one]
  BY <1>0, <1>1 DEF Fail
<1>4. rd'[p] = one /\ \A r \in Parts : r # p => rd'[r] = rd[r] /\ err'[r] = err[r]
  BY <1>0, <1>3 DEF Fail
<1> QED BY <1>2, <1>4, OwnBatches, SaveCopies DEF Fail

LEMMA CompletesCopies ==
  ASSUME BackfillInv, CopyInv, NEW p \in Parts, PartitionCompletes(p)
  PROVE  CopyInv'
<1>0. rd \in [Parts -> ReaderStates]
  BY DEF BackfillInv, AttemptTypes
<1>1. PICK one : one = [rd[p] EXCEPT !.state = "completed"]
  OBVIOUS
<1>2. one.last = rd[p].last
  BY <1>0, <1>1 DEF ReaderStates
<1>3. rd' = [rd EXCEPT ![p] = one]
  BY <1>0, <1>1 DEF PartitionCompletes
<1>4. rd'[p] = one /\ \A r \in Parts : r # p => rd'[r] = rd[r]
  BY <1>0, <1>3
<1>5. WorkersDone(p)'
  BY DEF PartitionCompletes, WorkersDone
<1>6. outcome # "ok" /\ outcome' = outcome
  BY DEF PartitionCompletes, CopyInv
<1>7. overlooked \subseteq overlooked' /\ Save(p, pend[p], dirty[p])
      /\ UNCHANGED <<docs, target, dlq, parts, chan, skipped, work, err>>
  BY DEF PartitionCompletes
<1> QED BY <1>2, <1>4, <1>5, <1>6, <1>7, OwnBatches, SaveCopies

LEMMA SendCopies ==
  ASSUME BackfillInv, CopyInv, NEW p \in Parts, Send(p) \/ EndOfRead(p)
  PROVE  CopyInv'
<1>0. rd \in [Parts -> ReaderStates] /\ chan \in [Parts -> Seq(SUBSET docs)]
  BY DEF BackfillInv, AttemptTypes
<1>1. /\ UNCHANGED <<docs, files, target, dlq, ck, parts, work, err, pend, skipped, overlooked, outcome>>
      /\ rd[p].state = "reading"
  BY DEF Send, EndOfRead, diskVars
<1>2. PICK one : /\ rd' = [rd EXCEPT ![p] = one] /\ one.last = rd[p].last
                 /\ one.state # "completed"
  <2>1. CASE Send(p)
    <3>1. PICK none \in SUBSET docs : none = {}
      OBVIOUS
    <3>2. PICK one : one = [rd[p] EXCEPT !.ids = none]
      OBVIOUS
    <3>3. one.last = rd[p].last /\ one.state = rd[p].state
      BY <1>0, <3>2 DEF ReaderStates
    <3>4. rd' = [rd EXCEPT ![p] = one]
      BY <1>0, <2>1, <3>1, <3>2 DEF Send
    <3> QED BY <1>1, <3>3, <3>4
  <2>2. CASE EndOfRead(p)
    <3>1. PICK one : one = [rd[p] EXCEPT !.state = "closed"]
      OBVIOUS
    <3>2. one.last = rd[p].last /\ one.state = "closed"
      BY <1>0, <3>1 DEF ReaderStates
    <3>3. rd' = [rd EXCEPT ![p] = one]
      BY <1>0, <2>2, <3>1 DEF EndOfRead
    <3> QED BY <3>2, <3>3
  <2> QED BY <2>1, <2>2
<1>3. rd'[p] = one /\ \A r \in Parts : r # p => rd'[r] = rd[r] /\ chan'[r] = chan[r]
  BY <1>0, <1>2 DEF Send, EndOfRead
<1>4. \A r \in Parts : r # p => Unmoved(r)
  BY <1>1, <1>3 DEF Unmoved
<1>5. outcome # "ok" /\ Settled' = Settled /\ target' \subseteq docs /\ dlq' \subseteq docs
  BY <1>1 DEF CopyInv, Settled
<1> QED BY <1>1, <1>2, <1>3, <1>4, <1>5, PlainStepCopies

(* A worker of a completed partition has nothing to do.                    *)
LEMMA BusyWorker ==
  ASSUME CopyInv, NEW p \in Parts, NEW w \in Workers,
         work[p][w].at \in {"writing", "written"} \/ (work[p][w] = Idle /\ chan[p] # <<>>)
  PROVE  rd[p].state # "completed"
BY DEF CopyInv, CopyPart, WorkersDone, Idle, Gone

LEMMA WorkerCopies ==
  ASSUME BackfillInv, CopyInv, NEW p \in Parts, NEW w \in Workers,
         Take(p, w) \/ Write(p, w) \/ WriteFails(p, w)
  PROVE  CopyInv'
<1>0. /\ chan \in [Parts -> Seq(SUBSET docs)] /\ work \in [Parts -> [Workers -> WorkerStates]]
      /\ err \in [Parts -> BOOLEAN]
  BY DEF BackfillInv, AttemptTypes
<1>1. UNCHANGED <<docs, files, ck, parts, rd, pend, skipped, overlooked, outcome>>
  BY DEF Take, Write, WriteFails, diskVars
<1>2. rd[p].state # "completed"
  BY BusyWorker DEF Take, Write, WriteFails
<1>3. \A r \in Parts : r # p => work'[r] = work[r] /\ chan'[r] = chan[r] /\ err'[r] = err[r]
  BY <1>0 DEF Take, Write, WriteFails
<1>4. work[p][w].ids \subseteq docs
  <2>1. work[p][w] \in WorkerStates
    BY <1>0
  <2> QED BY <2>1 DEF WorkerStates
<1>5. Settled \subseteq Settled' /\ target' \subseteq docs /\ dlq' \subseteq docs
  <2>1. target \subseteq docs /\ dlq \subseteq docs
    BY DEF CopyInv
  <2>2. CASE Take(p, w)
    BY <2>1, <2>2 DEF Take, Settled, diskVars
  <2>3. CASE Write(p, w)
    <3>1. PICK refused \in SUBSET (work[p][w].ids \ target) :
            /\ target' = target \cup (work[p][w].ids \ refused)
            /\ \E recorded \in IF cancelled THEN SUBSET refused ELSE {refused} : dlq' = dlq \cup recorded
      BY <2>3 DEF Write
    <3>2. PICK recorded \in SUBSET refused : dlq' = dlq \cup recorded
      BY <3>1
    <3> QED BY <1>4, <2>1, <3>1, <3>2 DEF Settled
  <2>4. CASE WriteFails(p, w)
    BY <1>4, <2>1, <2>4 DEF WriteFails, Settled
  <2> QED BY <2>2, <2>3, <2>4
<1>6. \A r \in Parts : r # p => Unmoved(r)
  BY <1>1, <1>3 DEF Unmoved
<1> QED BY <1>1, <1>2, <1>5, <1>6, PlainStepCopies

(* A worker acknowledges its batch, unless the context has ended.          *)
LEMMA AckSaves ==
  ASSUME BackfillInv, NEW p \in Parts, NEW w \in Workers, Ack(p, w), ~cancelled
  PROVE  \E q, d : SameBatches(p, q) /\ Save(p, q, d)
<1>0. AttemptTypes /\ PartInv(p) /\ work[p][w].at = "written"
  BY DEF BackfillInv, Ack
<1>1. PICK old, ids, yes : old = pend[p] /\ ids = work[p][w].ids /\ yes = TRUE
  OBVIOUS
<1>2. PICK q : q = [i \in DOMAIN old |-> IF old[i].ids = ids THEN [old[i] EXCEPT !.acked = yes] ELSE old[i]]
  OBVIOUS
<1>3. \E d : Save(p, q, d)
  BY <1>1, <1>2 DEF Ack, Save
<1>4. old \in Seq(Batches) /\ Len(old) \in Nat /\ DOMAIN old = 1..Len(old)
      /\ \A i \in DOMAIN old : old[i] \in Batches
  BY <1>0, <1>1, LenProperties, ElementOfSeq DEF AttemptTypes
<1>5. ASSUME NEW b \in Batches, NEW c, c = [b EXCEPT !.acked = yes]
      PROVE  c \in Batches /\ c.ids = b.ids /\ c.max = b.max
  BY <1>1, <1>5 DEF Batches
<1>6. \A i \in DOMAIN old :
        /\ q[i] \in Batches /\ q[i].ids = old[i].ids /\ q[i].max = old[i].max
        /\ q[i].acked => old[i].acked \/ old[i].ids = ids
  BY <1>2, <1>4, <1>5
<1>7. q \in Seq(Batches) /\ DOMAIN q = DOMAIN old
  <2>1. q \in [1..Len(old) -> Batches]
    BY <1>2, <1>4, <1>6
  <2> QED BY <1>2, <1>4, <2>1, SeqDef
<1>8. ids \subseteq Settled /\ \A i \in DOMAIN old : old[i].acked => old[i].ids \subseteq Settled
  BY <1>0, <1>1 DEF PartInv, TrackInv
<1>9. SameBatches(p, q)
  BY <1>1, <1>6, <1>7, <1>8 DEF SameBatches
<1> QED BY <1>3, <1>9

LEMMA AckCopies ==
  ASSUME BackfillInv, CopyInv, NEW p \in Parts, NEW w \in Workers, Ack(p, w)
  PROVE  CopyInv'
<1>0. AttemptTypes
  BY DEF BackfillInv
<1>1. /\ UNCHANGED <<docs, target, dlq, parts, rd, chan, skipped, cancelled, overlooked, outcome, err>>
      /\ work[p][w].at = "written"
  BY DEF Ack
<1>2. rd[p].state # "completed" /\ target' \subseteq docs /\ dlq' \subseteq docs /\ Settled' = Settled
  BY <1>1, BusyWorker DEF CopyInv, Settled
<1>3. \A r \in Parts : r # p => work'[r] = work[r]
  BY <1>0 DEF Ack, AttemptTypes
<1>4. CASE cancelled
  <2>1. UNCHANGED <<files, ck, pend>>
    BY <1>4 DEF Ack
  <2>2. \A r \in Parts : r # p => Unmoved(r)
    BY <1>1, <1>3, <2>1 DEF Unmoved
  <2> QED BY <1>1, <1>2, <2>1, <2>2, PlainStepCopies
<1>5. CASE ~cancelled
  BY <1>1, <1>2, <1>3, <1>5, AckSaves, SaveCopies
<1> QED BY <1>4, <1>5

LEMMA ReadBatchCopies ==
  ASSUME BackfillInv, CopyInv, NEW p \in Parts, ReadBatch(p)
  PROVE  CopyInv'
<1>0. AttemptTypes /\ CopyPart(p) /\ DOMAIN files = Slots /\ DOMAIN ck = Parts
  BY DEF BackfillInv, CopyInv, SoundFiles
<1>1. PICK batch \in SUBSET Rest(p), no \in {FALSE} :
        /\ rd' = [rd EXCEPT ![p] = [last |-> MaxId(batch), ids |-> batch, state |-> "reading"]]
        /\ pend' = [pend EXCEPT ![p] =
                      Append(pend[p], [ids |-> batch, max |-> MaxPerType(batch), acked |-> no])]
        /\ MaxId(batch) \in batch
        /\ \A id \in Rest(p) \ batch : IdLess(MaxId(batch), id)
  BY <1>0, BatchIsLeast
<1>2. /\ UNCHANGED <<docs, files, target, dlq, ck, parts, chan, work, err, skipped, overlooked, outcome>>
      /\ rd[p].state = "reading"
  BY DEF ReadBatch, diskVars
<1>3. PICK one, b, top, rest, all :
        /\ one = [last |-> MaxId(batch), ids |-> batch, state |-> "reading"]
        /\ b = [ids |-> batch, max |-> MaxPerType(batch), acked |-> no]
        /\ top = MaxId(batch) /\ rest = Rest(p) /\ all = Selected(docs, parts[p])
  OBVIOUS
<1>4. one.last = top /\ one.state = "reading" /\ b.ids = batch /\ b.max = MaxPerType(batch)
  BY <1>3
<1>5. rest \subseteq all /\ all \subseteq docs /\ docs \subseteq Ids /\ IsFiniteSet(docs)
  BY <1>0, <1>3, DocsAreIds DEF Rest, Selected
<1>6. batch \in SUBSET Ids /\ IsFiniteSet(batch) /\ batch \subseteq rest /\ top \in batch
      /\ batch # {} /\ \A id \in rest \ batch : IdLess(top, id)
  <2>1. batch \subseteq rest /\ top \in batch /\ \A id \in rest \ batch : IdLess(top, id)
    BY <1>1, <1>3
  <2>2. batch \subseteq docs
    BY <1>5, <2>1
  <2> QED BY <1>5, <2>1, <2>2, FS_Subset
<1>7. \A x \in batch : x = top \/ IdLess(x, top)
  BY <1>3, <1>6, MaxIdIsGreatest
<1>8. rd'[p] = one /\ \A r \in Parts : r # p => rd'[r] = rd[r]
  BY <1>0, <1>1, <1>3 DEF AttemptTypes
<1>9. Rest(p)' = {id \in all : IdLess(top, id)}
  <2>1. docs' = docs /\ parts' = parts /\ rd'[p].last = top /\ top # NoId
    BY <1>2, <1>4, <1>6, <1>8, IdOrder
  <2> QED BY <1>3, <2>1 DEF Rest, Selected
<1>10. \A id \in all : id \in rest /\ id \notin batch <=> IdLess(top, id)
  <2>1. ASSUME NEW id \in all, IdLess(top, id) PROVE id \in rest /\ id \notin batch
    <3>1. id \in Ids /\ top \in Ids /\ ~IdLess(id, top) /\ id # top
      BY <1>5, <1>6, <2>1, IdOrder
    <3>2. id \notin batch
      BY <1>7, <3>1
    <3>3. id \in rest
      <4>1. top \in Rest(p) /\ id \in Selected(docs, parts[p]) /\ rd[p].last \in Bounds
        BY <1>0, <1>3, <1>6 DEF AttemptTypes, ReaderStates, Bounds
      <4>2. rd[p].last # NoId => rd[p].last \in Ids /\ IdLess(rd[p].last, top)
        BY <4>1, NoIdIsNone DEF Rest
      <4>3. rd[p].last # NoId => IdLess(rd[p].last, id)
        BY <2>1, <3>1, <4>2, IdOrder
      <4> QED BY <1>3, <4>1, <4>3 DEF Rest
    <3> QED BY <3>2, <3>3
  <2> QED BY <1>6, <2>1
<1>11. all \ rest \subseteq all \ Rest(p)' /\ batch \subseteq all \ Rest(p)'
  BY <1>5, <1>6, <1>9, <1>10
<1>12. PICK q : q = pend[p]
  OBVIOUS
<1>13. PICK m, r : /\ m = Len(q) /\ m \in Nat /\ DOMAIN q = 1..m
                   /\ r = Append(q, b) /\ DOMAIN r = 1..(m + 1)
                   /\ \A i \in 1..m : r[i] = q[i]
                   /\ r[m + 1] = b
  <2>1. q \in Seq(Batches)
    BY <1>0, <1>12 DEF AttemptTypes
  <2>2. PICK S : S = {b} \cup Batches
    OBVIOUS
  <2>3. b \in S /\ q \in Seq(S)
    <3>1. \A i \in 1..Len(q) : q[i] \in S
      BY <2>1, <2>2, ElementOfSeq
    <3>2. Len(q) \in Nat /\ q \in [1..Len(q) -> S]
      BY <2>1, <3>1, LenProperties
    <3> QED BY <2>2, <3>2, SeqDef
  <2>4. /\ Append(q, b) \in Seq(S) /\ Len(Append(q, b)) = Len(q) + 1
        /\ \A i \in 1..Len(q) : Append(q, b)[i] = q[i]
        /\ Append(q, b)[Len(q) + 1] = b
    BY <2>3, AppendProperties
  <2>5. Len(q) \in Nat /\ DOMAIN q = 1..Len(q) /\ DOMAIN Append(q, b) = 1..(Len(q) + 1)
    BY <2>3, <2>4, LenProperties
  <2> QED BY <2>4, <2>5
<1>14. pend'[p] = r /\ \A v \in Parts : v # p => pend'[v] = pend[v]
  BY <1>0, <1>1, <1>3, <1>12, <1>13 DEF AttemptTypes
<1>15. Ordered(q, all \ rest)
  BY <1>0, <1>3, <1>12 DEF CopyPart, OrderInv
<1>16. Ordered(r, all \ Rest(p)')
  <2>1. ASSUME NEW i \in DOMAIN r
        PROVE  r[i].ids \subseteq all \ Rest(p)' /\ r[i].max = MaxPerType(r[i].ids)
    <3>1. CASE i \in 1..m
      BY <1>11, <1>13, <1>15, <3>1 DEF Ordered
    <3>2. CASE i = m + 1
      BY <1>4, <1>11, <1>13, <3>2
    <3> QED BY <1>13, <3>1, <3>2
  <2>2. ASSUME NEW i \in DOMAIN r, NEW j \in DOMAIN r, i < j, NEW x \in r[i].ids, NEW y \in r[j].ids
        PROVE  IdLess(x, y)
    <3>0. i \in 1..m /\ j \in 1..(m + 1) /\ r[i] = q[i]
      BY <1>13, <2>2
    <3>1. CASE j \in 1..m
      BY <1>13, <1>15, <2>2, <3>0, <3>1 DEF Ordered
    <3>2. CASE j = m + 1
      <4>1. y \in batch /\ x \in all \ rest
        BY <1>4, <1>13, <1>15, <2>2, <3>0, <3>2 DEF Ordered
      <4>2. x \in Ids /\ y \in Ids /\ x # y /\ y \in rest
        BY <1>5, <1>6, <4>1
      <4>3. ~IdLess(y, x)
        <5>1. y \in Rest(p) /\ x \in Selected(docs, parts[p]) /\ x \notin Rest(p) /\ rd[p].last \in Bounds
          BY <1>0, <1>3, <4>1, <4>2 DEF AttemptTypes, ReaderStates, Bounds
        <5>2. rd[p].last # NoId => rd[p].last \in Ids /\ IdLess(rd[p].last, y)
          BY <5>1, NoIdIsNone DEF Rest
        <5>3. rd[p].last # NoId /\ ~IdLess(rd[p].last, x)
          BY <5>1 DEF Rest
        <5> QED BY <4>2, <5>2, <5>3, IdOrder
      <4> QED BY <4>2, <4>3, IdOrder
    <3> QED BY <1>13, <3>0, <3>1, <3>2
  <2> QED BY <2>1, <2>2 DEF Ordered
<1>17. OrderInv(p)'
  <2>1. Selected(docs, parts[p])' = all
    BY <1>2, <1>3 DEF Selected
  <2> QED BY <1>14, <1>16, <2>1 DEF OrderInv
<1>18. \A v \in Parts : v # p => ck'[v] = ck[v] /\ Unmoved(v)
  BY <1>2, <1>8, <1>14 DEF Unmoved
<1>19. Sound(parts[p], ck'[p], docs, Accounted)
  BY <1>0, <1>2 DEF CopyPart
<1>20. Accounted \subseteq Accounted' /\ target' \subseteq docs /\ dlq' \subseteq docs /\ outcome # "ok"
  BY <1>2 DEF CopyInv, Accounted, Settled
<1>21. rd'[p].state # "completed"
  BY <1>4, <1>8
<1> QED BY <1>0, <1>2, <1>17, <1>18, <1>19, <1>20, <1>21, CopyStep

(* Nothing moves in any partition.                                         *)
LEMMA NobodyMovesCopies ==
  ASSUME CopyInv, UNCHANGED <<docs, files, target, dlq, parts, ck, rd, chan, work, pend,
                              skipped, overlooked>>,
         outcome' = "ok" => outcome = "ok"
  PROVE  CopyInv'
<1>1. Accounted' = Accounted /\ Parts' = Parts
  BY DEF Accounted, Settled, Parts
<1>2. SoundFiles(Accounted)'
  BY <1>1 DEF CopyInv, SoundFiles
<1>3. ASSUME NEW p \in Parts PROVE CopyPart(p)'
  <2>1. OrderInv(p)' = OrderInv(p)
    BY DEF OrderInv, Rest, Selected
  <2>2. WorkersDone(p)' = WorkersDone(p)
    BY DEF WorkersDone
  <2> QED BY <1>1, <2>1, <2>2 DEF CopyInv, CopyPart
<1> QED BY <1>1, <1>2, <1>3 DEF CopyInv

(* Files that are gone cover nothing.                                      *)
LEMMA NoCheckpointIsSound ==
  ASSUME NEW D, NEW A
  PROVE  TypedCp(NoCheckpoint) /\ CoversOnly(NoCheckpoint, D, A)
<1>1. DOMAIN NoCheckpoint.prog = {} /\ NoCheckpoint = [total |-> NoCheckpoint.total, prog |-> NoCheckpoint.prog]
  BY DEF NoCheckpoint
<1> QED BY <1>1 DEF TypedCp, CoversOnly, Covers

LEMMA EndsCopies ==
  ASSUME BackfillInv, CopyInv, CollectionEnds
  PROVE  CopyInv'
<1>1. /\ UNCHANGED <<docs, target, dlq, parts, ck, rd, chan, work, pend, skipped, overlooked>>
      /\ \A p \in Parts : rd[p].state = "completed"
      /\ files' = NoFiles
  BY DEF CollectionEnds, memVars
<1>2. Accounted' = Accounted /\ Parts' = Parts
  BY <1>1 DEF Accounted, Settled, Parts
<1>3. SoundFiles(Accounted)'
  <2>1. DOMAIN files' = Slots /\ \A k \in Slots : files'[k] = NoCheckpoint
    BY <1>1 DEF NoFiles
  <2> QED BY <2>1, NoCheckpointIsSound DEF SoundFiles
<1>4. ASSUME NEW p \in Parts PROVE CopyPart(p)'
  <2>1. OrderInv(p)' = OrderInv(p)
    BY <1>1 DEF OrderInv, Rest, Selected
  <2>2. WorkersDone(p)' = WorkersDone(p)
    BY <1>1 DEF WorkersDone
  <2> QED BY <1>1, <1>2, <2>1, <2>2 DEF CopyInv, CopyPart
<1> QED BY <1>1, <1>2, <1>3, <1>4 DEF CopyInv

LEMMA CrashCopies ==
  ASSUME BackfillInv, CopyInv, Crash \/ CrashInDelete
  PROVE  CopyInv'
<1>1. /\ UNCHANGED <<docs, target, dlq, skipped, overlooked>>
      /\ parts' = <<>> /\ ck' = <<>> /\ outcome' = "none"
  BY DEF Crash, CrashInDelete, MemoryIsGone, diskVars
<1>2. Accounted' = Accounted /\ Parts' = {}
  BY <1>1 DEF Accounted, Settled, Parts
<1>3. DOMAIN files' = Slots /\ \A k \in Slots : files'[k] = files[k] \/ files'[k] = NoCheckpoint
  BY DEF Crash, CrashInDelete, diskVars, CopyInv, SoundFiles
<1>4. SoundFiles(Accounted)'
  <2>1. \A k \in Slots : TypedCp(files[k]) /\ CoversOnly(files[k], docs, Accounted)
    BY DEF CopyInv, SoundFiles
  <2>2. \A k \in Slots : TypedCp(files'[k]) /\ CoversOnly(files'[k], docs, Accounted)
    BY <1>3, <2>1, NoCheckpointIsSound
  <2> QED BY <1>1, <1>2, <1>3, <2>2 DEF SoundFiles
<1>5. DOMAIN ck' = {}
  BY <1>1
<1> QED BY <1>1, <1>2, <1>4, <1>5 DEF CopyInv

(* An attempt begins with a sound plan.                                    *)
LEMMA StartCopies ==
  ASSUME BackfillInv, CopyInv, Start
  PROVE  CopyInv'
<1>0. docs \in Sources
  BY DEF BackfillInv, AttemptTypes
<1>1. UNCHANGED <<docs, target, dlq, overlooked>> /\ outcome' = "running" /\ docs # {}
  BY DEF Start, StartSequential, StartParallel, Begin
<1>2. PresentTypes \in SUBSET IdTypes /\ {} \in SUBSET IdTypes
  BY <1>0, SourcesAreIds, NoIdIsNone DEF PresentTypes
<1>3. \E mode, n, types, keep :
        /\ mode \in {"sequential", "parallel"} /\ n \in Nat \ {0} /\ types \in SUBSET IdTypes
        /\ mode = "sequential" => n = 1
        /\ mode = "parallel" => n \in Counts /\ Possible("parallel", n)
        /\ StartWith(Plan(mode, n, types), keep)
  <2>1. CASE StartSequential
    BY <1>2, <2>1 DEF StartSequential
  <2>2. ASSUME NEW n \in Counts, StartParallel(n)
        PROVE  \E types, keep :
          types \in SUBSET IdTypes /\ Possible("parallel", n) /\ StartWith(Plan("parallel", n, types), keep)
    BY <1>2, <2>2 DEF StartParallel
  <2>3. \A n \in Counts : n \in Nat \ {0}
    BY BackfillAssumption
  <2> QED BY <2>1, <2>2, <2>3 DEF Start
<1>4. PICK mode, n, types, keep :
        /\ mode \in {"sequential", "parallel"} /\ n \in Nat \ {0} /\ types \in SUBSET IdTypes
        /\ mode = "sequential" => n = 1
        /\ mode = "parallel" => n \in Counts /\ Possible("parallel", n)
        /\ StartWith(Plan(mode, n, types), keep)
  BY <1>3
<1>5. PICK plan, A : plan = Plan(mode, n, types) /\ A = Accounted'
  OBVIOUS
<1>6. /\ files' = IF keep THEN files ELSE NoFiles
      /\ parts' = plan.filters /\ ck' = plan.cps /\ Goroutines(Len(plan.filters))
      /\ skipped' = skipped \cup (Unsettled \ ReadBy(plan.filters))
  BY <1>4, <1>5 DEF StartWith
<1>7. Accounted \subseteq A /\ docs \ ReadBy(plan.filters) \subseteq A
  BY <1>1, <1>5, <1>6 DEF Accounted, Settled, Unsettled
<1>8. DOMAIN files = Slots /\ \A k \in Slots : TypedCp(files[k]) /\ CoversOnly(files[k], docs, A)
  BY <1>7, GrowingKeeps DEF CopyInv, SoundFiles
<1>9. SoundFiles(A)
  BY <1>8 DEF SoundFiles
<1>10. SoundPlan(plan, A)
  BY <1>0, <1>1, <1>4, <1>5, <1>7, <1>9, PlanIsSound
<1>11. SoundFiles(Accounted)'
  <2>1. /\ DOMAIN files' = Slots
        /\ \A k \in Slots : files'[k] = files[k] \/ files'[k] = NoCheckpoint
    BY <1>6, <1>8 DEF NoFiles
  <2>2. \A k \in Slots : TypedCp(files'[k]) /\ CoversOnly(files'[k], docs, A)
    BY <1>8, <2>1, NoCheckpointIsSound
  <2> QED BY <1>1, <1>5, <2>1, <2>2 DEF SoundFiles
<1>12. PICK filters, cps, reader : filters = plan.filters /\ cps = plan.cps /\ reader = NewReader
  OBVIOUS
<1>13. /\ Numbered(filters)
       /\ DOMAIN cps = DOMAIN filters
       /\ \A i \in DOMAIN filters : Sound(filters[i], cps[i], docs, A)
  <2>1. Numbered(filters)
    BY <1>0, <1>1, <1>4, <1>5, <1>12, PlanIsNumbered, BackfillAssumption DEF Possible
  <2> QED BY <1>10, <1>12, <2>1 DEF SoundPlan
<1>14. /\ parts' = filters /\ ck' = cps /\ Parts' = DOMAIN filters
       /\ pend' = [p \in DOMAIN filters |-> <<>>] /\ rd' = [p \in DOMAIN filters |-> reader]
       /\ reader.state = "reading"
  BY <1>6, <1>12, <1>13 DEF Goroutines, Numbered, Parts, NewReader
<1>15. ASSUME NEW p \in DOMAIN filters PROVE CopyPart(p)'
  <2>1. pend'[p] = <<>> /\ rd'[p].state = "reading"
    BY <1>14
  <2>2. DOMAIN <<>> = {}
    OBVIOUS
  <2>3. OrderInv(p)'
    BY <2>1, <2>2 DEF OrderInv, Ordered
  <2>4. Sound(parts'[p], ck'[p], docs', A)
    BY <1>1, <1>13, <1>14
  <2> QED BY <1>5, <2>1, <2>3, <2>4 DEF CopyPart
<1>16. target' \subseteq docs' /\ dlq' \subseteq docs'
  BY <1>1 DEF CopyInv
<1> QED BY <1>1, <1>11, <1>13, <1>14, <1>15, <1>16 DEF CopyInv

LEMMA CopyInvInductive == BackfillInv /\ CopyInv /\ [Next]_vars => CopyInv'
<1> SUFFICES ASSUME BackfillInv, CopyInv, [Next]_vars PROVE CopyInv'
  OBVIOUS
<1>1. CASE Start
  BY <1>1, StartCopies
<1>2. CASE CollectionEnds
  BY <1>2, EndsCopies
<1>3. CASE Cancel
  BY <1>3, NobodyMovesCopies DEF Cancel, diskVars, memVars
<1>4. CASE Crash \/ CrashInDelete
  BY <1>4, CrashCopies
<1>5. ASSUME NEW p \in Parts, Tick(p) \/ ReaderStep(p) \/ QueryFails(p) \/ WorkerStep(p) \/ EndStep(p)
      PROVE  CopyInv'
  <2>1. CASE Tick(p)
    BY <2>1, TickCopies
  <2>2. CASE ReadBatch(p)
    BY <2>2, ReadBatchCopies
  <2>3. CASE Send(p) \/ EndOfRead(p)
    BY <2>3, SendCopies
  <2>4. CASE ReaderFails(p) \/ QueryFails(p) \/ PartitionFails(p)
    BY <2>4, FailCopies DEF ReaderFails, QueryFails, PartitionFails
  <2>5. CASE WorkerStep(p)
    BY <2>5, WorkerCopies, AckCopies DEF WorkerStep
  <2>6. CASE PartitionCompletes(p)
    BY <2>6, CompletesCopies
  <2> QED BY <1>5, <2>1, <2>2, <2>3, <2>4, <2>5, <2>6 DEF ReaderStep, EndStep
<1>6. CASE UNCHANGED vars
  BY <1>6, NobodyMovesCopies DEF vars, diskVars, memVars
<1> QED BY <1>1, <1>2, <1>3, <1>4, <1>5, <1>6 DEF Next

LEMMA CopyInvInitially == Init => CopyInv
<1> SUFFICES ASSUME Init PROVE CopyInv
  OBVIOUS
<1>1. /\ files = NoFiles /\ target = {} /\ dlq = {} /\ parts = <<>> /\ ck = <<>> /\ outcome = "none"
  BY DEF Init
<1>2. SoundFiles(Accounted)
  <2>1. DOMAIN files = Slots /\ \A k \in Slots : files[k] = NoCheckpoint
    BY <1>1 DEF NoFiles
  <2> QED BY <2>1, NoCheckpointIsSound DEF SoundFiles
<1>3. Parts = {} /\ DOMAIN ck = {}
  BY <1>1 DEF Parts
<1> QED BY <1>1, <1>2, <1>3 DEF CopyInv

(* Every checkpoint, on disk and in memory, covers accounted documents only  *)
(* and belongs to a partition that reads without gaps, at every moment of    *)
(* every attempt: acknowledgements out of order, failed saves, crashes and   *)
(* resampled partitions included.                                            *)
THEOREM CopyInvAlways == Spec => []CopyInv
<1>1. Init => CopyInv
  BY CopyInvInitially
<1> QED BY <1>1, BackfillInvAlways, CopyInvInductive, PTL DEF Spec

(* The attempts together are a CollectionCopy.                             *)
Bookmarked == {id \in docs : \E k \in Slots : Covers(files[k], id)}

LEMMA BookmarksAreHonest == CopyInv => Bookmarked \subseteq Accounted
BY DEF CopyInv, SoundFiles, CoversOnly, Bookmarked

-----------------------------------------------------------------------------
(* The refinement.                                                           *)

(* Nothing happens after success, and an attempt takes nothing back.       *)
LEMMA NoStepAfterSuccess ==
  ASSUME CopyInv, Next
  PROVE  outcome # "ok"
<1> SUFFICES ASSUME outcome = "ok" PROVE FALSE
  OBVIOUS
<1>1. \A p \in Parts : rd[p].state = "completed"
  BY DEF CopyInv
<1>2. PICK p \in Parts : Tick(p) \/ ReaderStep(p) \/ QueryFails(p) \/ WorkerStep(p) \/ EndStep(p)
  BY DEF Next, Start, StartSequential, StartParallel, Begin, CollectionEnds, Cancel, Crash, CrashInDelete
<1>3. PICK w \in Workers : Take(p, w) \/ Write(p, w) \/ WriteFails(p, w) \/ Ack(p, w)
  BY <1>1, <1>2 DEF Tick, ReaderStep, ReadBatch, Send, ReaderFails, EndOfRead, QueryFails, WorkerStep,
                    EndStep, PartitionCompletes, PartitionFails
<1>4. work[p][w].at \in {"writing", "written"} \/ (work[p][w] = Idle /\ chan[p] # <<>>)
  BY <1>3 DEF Take, Write, WriteFails, Ack
<1> QED BY <1>1, <1>4, BusyWorker

LEMMA NothingIsTakenBack ==
  ASSUME CopyInv, Next
  PROVE  /\ docs' = docs /\ Settled \subseteq Settled'
         /\ skipped \subseteq skipped' /\ overlooked \subseteq overlooked'
         /\ \/ outcome' = outcome \/ (outcome = "none" /\ outcome' = "running")
            \/ outcome' \in {"none", "failed"} /\ Settled' = Settled
            \/ outcome' = "ok" /\ UNCHANGED <<Settled, skipped, overlooked>>
<1>1. CASE Start
  BY <1>1 DEF Start, StartSequential, StartParallel, Begin, StartWith, Settled
<1>2. CASE CollectionEnds \/ Cancel \/ Crash \/ CrashInDelete
  BY <1>2 DEF CollectionEnds, Cancel, Crash, CrashInDelete, Settled, diskVars
<1>3. ASSUME NEW p \in Parts, Tick(p) \/ ReaderStep(p) \/ QueryFails(p) \/ EndStep(p)
      PROVE  /\ UNCHANGED <<docs, target, dlq, skipped>> /\ overlooked \subseteq overlooked'
             /\ outcome' \in {outcome, "failed"}
  <2>1. CASE Fail(p)
    BY <2>1 DEF Fail
  <2>2. CASE Tick(p) \/ ReadBatch(p) \/ Send(p) \/ EndOfRead(p) \/ PartitionCompletes(p)
    BY <2>2 DEF Tick, ReadBatch, Send, EndOfRead, PartitionCompletes, diskVars
  <2> QED BY <1>3, <2>1, <2>2 DEF ReaderStep, ReaderFails, QueryFails, EndStep, PartitionFails
<1>4. ASSUME NEW p \in Parts, NEW w \in Workers, Take(p, w) \/ Write(p, w) \/ WriteFails(p, w) \/ Ack(p, w)
      PROVE  UNCHANGED <<docs, skipped, overlooked, outcome>> /\ Settled \subseteq Settled'
  BY <1>4 DEF Take, Write, WriteFails, Ack, Settled, diskVars
<1>5. Settled = target \cup dlq /\ Settled' = target' \cup dlq'
  BY DEF Settled
<1> QED BY <1>1, <1>2, <1>3, <1>4, <1>5 DEF Next, WorkerStep

LEMMA CopyStepRefines ==
  ASSUME BackfillInv, BackfillInv', CopyInv, CopyInv', [Next]_vars
  PROVE  [Copy!CopyNext]_(Copy!copyVars)
<1>1. CASE UNCHANGED vars
  BY <1>1 DEF vars, Copy!copyVars, Settled, Slots, Covers
<1>2. CASE Next
  <2>1. /\ outcome # "ok" /\ docs' = docs /\ Settled \subseteq Settled'
        /\ skipped \subseteq skipped' /\ overlooked \subseteq overlooked'
        /\ \/ outcome' = outcome \/ (outcome = "none" /\ outcome' = "running")
           \/ outcome' \in {"none", "failed"} /\ Settled' = Settled
           \/ outcome' = "ok" /\ UNCHANGED <<Settled, skipped, overlooked>>
    BY <1>2, NoStepAfterSuccess, NothingIsTakenBack
  <2>2. Bookmarked' \subseteq Settled' \cup (skipped' \cup overlooked')
    <3>1. CopyInv' => (Bookmarked \subseteq Accounted)'
      BY BookmarksAreHonest, PTL
    <3>2. (Bookmarked \subseteq Accounted)'
      BY <3>1
    <3> QED BY <3>2 DEF Accounted
  <2>3. Settled' \subseteq docs
    BY <2>1 DEF CopyInv, Settled
  <2>4. outcome' = "ok" => docs \subseteq Settled \cup (skipped \cup overlooked)
    <3>1. outcome' = "ok" => docs \ Settled' \subseteq skipped' \cup overlooked'
      BY <2>1 DEF BackfillInv, SuccessMeansSettled, Unsettled
    <3> QED BY <2>1, <3>1
  <2>5. Copy!Honest
    BY <2>2 DEF Copy!Honest, Bookmarked
  <2>6. Copy!Progress \/ Copy!Report
    BY <2>1, <2>3, <2>4 DEF Copy!Progress, Copy!Report
  <2> QED BY <2>1, <2>5, <2>6 DEF Copy!CopyNext
<1> QED BY <1>1, <1>2

(* The attempts of a backfill, whatever their number and kind, implement   *)
(* the promise of CollectionCopy.                                          *)
THEOREM BackfillImplementsCopy == Spec => BackfillIsACopy
<1>1. Init => Copy!CopyInit
  <2>1. SUFFICES ASSUME Init PROVE Copy!CopyInit
    OBVIOUS
  <2>2. /\ docs \in Sources /\ target = {} /\ dlq = {} /\ skipped = {} /\ overlooked = {}
        /\ outcome = "none" /\ files = NoFiles
    BY <2>1 DEF Init
  <2>3. docs \in SUBSET AllDocs /\ Settled = {}
    BY <2>2, BackfillAssumption DEF Settled
  <2>4. \A id \in docs, k \in Slots : ~Covers(files[k], id)
    <3>1. DOMAIN NoCheckpoint.prog = {} /\ \A k \in Slots : files[k] = NoCheckpoint
      BY <2>2 DEF NoFiles, NoCheckpoint
    <3> QED BY <3>1 DEF Covers
  <2> QED BY <2>2, <2>3, <2>4 DEF Copy!CopyInit
<1>2. BackfillInv /\ BackfillInv' /\ CopyInv /\ CopyInv' /\ [Next]_vars => [Copy!CopyNext]_(Copy!copyVars)
  BY CopyStepRefines
<1> QED BY <1>1, <1>2, BackfillInvAlways, CopyInvAlways, PTL DEF Spec, BackfillIsACopy, Copy!CopySpec

-----------------------------------------------------------------------------
(* The bounds of the checkpoints.                                            *)

TypesOf(D) == {id.t : id \in D}

(* The i-th piece of n of a collection of one type lies between two inner  *)
(* bounds; the first has no lower and the last no upper one.               *)
Lower(b, i) == IF i = 1 THEN NoId ELSE b[i - 1]
Upper(b, i, n) == IF i < n THEN b[i] ELSE NoId
InPiece(id, i, n, b) == (i > 1 => b[i - 1].v <= id.v) /\ (i < n => id.v < b[i].v)

Pieces(cut, n, t, b, D) ==
  /\ Numbered(cut) /\ Len(cut) = n /\ Inner(b, n, t)
  /\ \A i \in 1..n : /\ DOMAIN Boundaries(cut[i]) = {t}
                     /\ Boundaries(cut[i])[t] = Boundary(Lower(b, i), Upper(b, i, n), NoId)
                     /\ \A id \in D : Matches(id, cut[i]) <=> InPiece(id, i, n, b)

LEMMA CutInPieces ==
  ASSUME NEW D \in Sources, NEW n \in Counts, n # 1, n <= Cardinality(D), Cardinality(TypesOf(D)) = 1
  PROVE  \E t, b : /\ t \in IdTypes /\ TypesOf(D) = {t} /\ \A id \in D : id.t = t
                   /\ Pieces(CutOf[D][n], n, t, b, D)
<1>1. D \subseteq AllDocs /\ AllDocs \subseteq Ids /\ IsFiniteSet(AllDocs) /\ n \in Nat \ {0, 1}
  BY BackfillAssumption DEF Ids
<1>2. D \in SUBSET Ids /\ IsFiniteSet(D)
  BY <1>1, FS_Subset
<1>3. D # {}
  <2>1. Cardinality({}) = 0
    BY FS_EmptySet
  <2> QED BY <1>1, <2>1
<1>4. PICK t \in IdTypes : TypesOf(D) = {t} /\ \A id \in D : id.t = t
  <2>1. IsFiniteSet(TypesOf(D))
    <3>1. IsFiniteSet(D) /\ TypesOf(D) = {id.t : id \in D}
      BY <1>2 DEF TypesOf
    <3>2. TypesOf(D) \subseteq {"number", "string", "objectId"}
      BY <1>2, TypeRanks DEF TypesOf, Ids
    <3>3. IsFiniteSet({"number"})
      BY FS_Singleton
    <3>4. IsFiniteSet({"number"} \cup {"string"})
      BY <3>3, FS_AddElement
    <3>5. IsFiniteSet(({"number"} \cup {"string"}) \cup {"objectId"})
      BY <3>4, FS_AddElement
    <3>6. TypesOf(D) \subseteq ({"number"} \cup {"string"}) \cup {"objectId"}
      BY <3>2
    <3> QED BY <3>5, <3>6, FS_Subset
  <2>2. PICK t : TypesOf(D) = {t}
    BY <2>1, FS_Singleton
  <2>3. \A id \in D : id.t = t /\ id.t \in IdTypes
    BY <1>2, <2>2 DEF TypesOf, Ids
  <2> QED BY <1>3, <2>2, <2>3
<1>5. PICK cut : cut = CutOf[D][n]
  OBVIOUS
<1>6. cut = Partition(D, "auto", D, MaxId(D), n, n, TRUE)
  <2>1. CutOf[D] = [m \in {k \in Counts : k <= Cardinality(D)} |->
                      Partition(D, "auto", D, MaxId(D), m, m, TRUE)]
    BY <1>3 DEF CutOf
  <2> QED BY <1>5, <2>1
<1>7. PICK b : Chain(cut, n, b, t, D)
  BY <1>1, <1>2, <1>3, <1>4, <1>6, CutIsAChain
<1>8. ASSUME NEW i \in 1..n
      PROVE  /\ DOMAIN Boundaries(cut[i]) = {t}
             /\ Boundaries(cut[i])[t] = Boundary(Lower(b, i), Upper(b, i, n), NoId)
             /\ \A id \in D : Matches(id, cut[i]) <=> InPiece(id, i, n, b)
  <2>1. PICK c : cut[i] = {c} /\ Slice(c, i, n, b, t, D)
    BY <1>7 DEF Chain
  <2>2. Inner(b, n, t)
    BY <1>7 DEF Chain
  <2>3. /\ DOMAIN Boundaries({c}) = {t}
        /\ Boundaries({c})[t] = Boundary(c.lo, Ceiling(c), NoId)
    <3>1. Slice(c, i, n, b, t, D) /\ Inner(b, n, t) /\ i \in 1..n /\ n \in Nat \ {0, 1} /\ t \in IdTypes
      BY <1>1, <2>1, <2>2
    <3>2. /\ DOMAIN Boundaries({c}) = {t}
          /\ Boundaries({c})[t] = Boundary(c.lo, Ceiling(c), NoId)
          /\ c.lo \in Bounds /\ c.hi \in Bounds
      BY <3>1, SliceBoundaries, Zenon
    <3> QED BY <3>2
  <2>4. c.lo = Lower(b, i)
    BY <2>1 DEF Slice, Lower
  <2>5. Ceiling(c) = Upper(b, i, n)
    <3>1. i < n \/ i = n
      BY <1>1
    <3>2. CASE i < n
      BY <2>1, <3>2 DEF Slice, Ceiling, Upper
    <3>3. CASE i = n
      BY <1>1, <2>1, <3>3 DEF Slice, Ceiling, Upper
    <3> QED BY <3>1, <3>2, <3>3
  <2>6. \A id \in D : Matches(id, {c}) <=> InPiece(id, i, n, b)
    <3>1. \A id \in D : Matches(id, {c}) <=> (i > 1 => b[i - 1].v <= id.v) /\ (i < n => id.v < b[i].v)
      BY <1>1, <1>2, <1>4, <2>1, <2>2, SliceSelects
    <3> QED BY <3>1 DEF InPiece
  <2>7. /\ DOMAIN Boundaries({c}) = {t}
        /\ Boundaries({c})[t] = Boundary(Lower(b, i), Upper(b, i, n), NoId)
    BY <2>3, <2>4, <2>5
  <2> QED BY <2>1, <2>6, <2>7
<1> QED BY <1>4, <1>5, <1>7, <1>8 DEF Chain, Pieces

(* The first piece whose upper bound is above an _id holds it: the bounds  *)
(* of all before are at most the _id, in whatever order they are.          *)
LEMMA InSomePiece ==
  ASSUME NEW n \in Nat \ {0}, NEW t, NEW b, Inner(b, n, t), NEW id \in Ids
  PROVE  \E i \in 1..n : InPiece(id, i, n, b) /\ \A j \in 1..(i - 1) : b[j].v <= id.v
<1> DEFINE S == {i \in 1..n : i = n \/ id.v < b[i].v}
<1>1. S \in SUBSET Nat /\ n \in S
  OBVIOUS
<1>2. PICK m \in S : \A i \in S : m <= i
  BY <1>1, LeastNumber
<1>3. m \in 1..n /\ (m < n => id.v < b[m].v)
  BY <1>2
<1>4. ASSUME NEW j \in 1..(m - 1) PROVE b[j].v <= id.v
  <2>1. j \in 1..(n - 1) /\ j \notin S
    BY <1>2, <1>3
  <2>2. b[j].v \in Int /\ id.v \in Int
    BY <2>1, NoIdIsNone DEF Inner
  <2>3. ~(id.v < b[j].v)
    BY <2>1
  <2> QED BY <2>2, <2>3
<1>5. m > 1 => m - 1 \in 1..(m - 1)
  BY <1>3
<1> QED BY <1>3, <1>4, <1>5 DEF InPiece

-----------------------------------------------------------------------------
(* The invariant of the checkpoints: what a partition saved is of the type *)
(* it is saved for; a checkpoint of one partition has no bounds, and one   *)
(* of several has those of its partition.                                  *)
SavedTyped(cp) == \A t \in DOMAIN cp.prog : cp.prog[t].saved = NoId \/ cp.prog[t].saved.t = t
Whole(cp) == \A t \in DOMAIN cp.prog : cp.prog[t].lo = NoId /\ cp.prog[t].hi = NoId
Piece(cp, i, n, D) ==
  /\ n \in Counts /\ n <= Cardinality(D) /\ Cardinality(TypesOf(D)) = 1
  /\ DOMAIN cp.prog = TypesOf(D)
  /\ \A t \in TypesOf(D) : /\ cp.prog[t].lo = Boundaries(CutOf[D][n][i])[t].lo
                           /\ cp.prog[t].hi = Boundaries(CutOf[D][n][i])[t].hi
Bounded(cp, i, n, D) ==
  SavedTyped(cp) /\ (n = 1 => Whole(cp)) /\ (n # 1 => Piece(cp, i, n, D))

BoundsInv ==
  /\ \A k \in Known(files) : Bounded(files[k], k[1] + 1, k[2], docs)
  /\ \A p \in Parts : Bounded(ck[p], p, Len(parts), docs)

(* The bounds of a checkpoint of several partitions.                       *)
LEMMA PieceBounds ==
  ASSUME NEW D \in Sources, NEW n \in Counts, n # 1, n <= Cardinality(D), Cardinality(TypesOf(D)) = 1
  PROVE  \E t, b :
           /\ t \in IdTypes
           /\ TypesOf(D) = {t} /\ (\A id \in D : id.t = t) /\ Inner(b, n, t)
           /\ \A cp : \A i \in 1..n : Piece(cp, i, n, D) =>
                DOMAIN cp.prog = {t} /\ cp.prog[t].lo = Lower(b, i) /\ cp.prog[t].hi = Upper(b, i, n)
<1>1. PICK t, b : /\ t \in IdTypes /\ TypesOf(D) = {t} /\ \A id \in D : id.t = t
                  /\ Pieces(CutOf[D][n], n, t, b, D)
  BY CutInPieces
<1>2. \A i \in 1..n : /\ Boundaries(CutOf[D][n][i])[t].lo = Lower(b, i)
                      /\ Boundaries(CutOf[D][n][i])[t].hi = Upper(b, i, n)
  <2>1. \A lo, hi : Boundary(lo, hi, NoId).lo = lo /\ Boundary(lo, hi, NoId).hi = hi
    BY DEF Boundary
  <2> QED BY <1>1, <2>1 DEF Pieces
<1> QED BY <1>1, <1>2 DEF Piece, Pieces

(* What a checkpoint that is sound makes of a document it does not cover.  *)
LEMMA OpenRange ==
  ASSUME NEW cp, TypedCp(cp), SavedTyped(cp), NEW D \in SUBSET Ids, NEW A, CoversOnly(cp, D, A),
         NEW id \in D, id \notin A, id.t \in DOMAIN cp.prog,
         cp.prog[id.t].lo # NoId => cp.prog[id.t].lo.t = id.t /\ cp.prog[id.t].lo.v <= id.v,
         cp.prog[id.t].hi # NoId => cp.prog[id.t].hi.t = id.t /\ id.v < cp.prog[id.t].hi.v
  PROVE  ~Completed(cp.prog[id.t]) /\ Within(cp.prog[id.t], id)
<1>1. PICK r \in [lo : Bounds, hi : Bounds, saved : Bounds] : r = cp.prog[id.t]
  BY DEF TypedCp
<1>2. ~Covers(cp, id)
  BY DEF CoversOnly
<1>3. r.saved # NoId => r.saved.t = id.t
  BY <1>1 DEF SavedTyped
<1>4. /\ r.lo # NoId => r.lo.v \in Int
      /\ r.hi # NoId => r.hi.v \in Int
      /\ r.saved # NoId => r.saved.v \in Int
      /\ id.v \in Int
  BY NoIdIsNone
<1>5. r.saved # NoId => r.saved.v <= id.v
  BY <1>1, <1>2, <1>3, <1>4 DEF Covers
<1> QED BY <1>1, <1>3, <1>4, <1>5 DEF Completed, Within, ResumeAt

(* Slots and the checkpoints in them.                                      *)
LEMMA SlotsOf ==
  /\ \A k \in Slots : k = <<k[1], k[2]>> /\ k[2] \in Counts \cup {1} /\ k[2] \in Nat \ {0} /\ k[1] \in 0..(k[2] - 1)
  /\ \A n \in Counts \cup {1} : n \in Nat \ {0} /\ \A i \in 1..n : <<i - 1, n>> \in Slots
<1>1. \A n \in Counts \cup {1} : n \in Nat \ {0}
  BY BackfillAssumption
<1>2. ASSUME NEW n \in Counts \cup {1} PROVE \A i \in 1..n : i - 1 \in 0..(n - 1)
  <2>1. n \in Nat
    BY <1>1
  <2> QED BY <2>1
<1> QED BY <1>1, <1>2 DEF Slots

(* A valid set of files: all of its partitions are known.                  *)
LEMMA ValidSets ==
  ASSUME BoundsInv, DOMAIN files = Slots, NEW n, IsValidSet(files, n), NEW i \in 1..n, n \in Nat
  PROVE  /\ <<i - 1, n>> \in Known(files) /\ <<i - 1, n>> \in Slots
         /\ Bounded(files[<<i - 1, n>>], i, n, docs)
<1>1. i - 1 \in 0..(n - 1) /\ (i - 1) + 1 = i
  OBVIOUS
<1>2. <<i - 1, n>> \in Known(files)
  BY <1>1 DEF IsValidSet
<1>3. Bounded(files[<<i - 1, n>>], <<i - 1, n>>[1] + 1, <<i - 1, n>>[2], docs)
  BY <1>2 DEF BoundsInv
<1>4. <<i - 1, n>>[1] + 1 = i /\ <<i - 1, n>>[2] = n
  BY <1>1
<1> QED BY <1>2, <1>3, <1>4 DEF Known

LEMMA HistoricalSet ==
  ASSUME BoundsInv, DOMAIN files = Slots, HistoricalSizes(files) # {}
  PROVE  \E n \in Counts \cup {1} : IsValidSet(files, n) /\ PlannedMin(files) = GlobalMin(files, n)
<1>1. PICK n : n \in HistoricalSizes(files) /\ PlannedMin(files) = GlobalMin(files, n)
  BY DEF PlannedMin
<1>2. PICK k \in Known(files) : n = k[2] /\ IsValidSet(files, n)
  BY <1>1 DEF HistoricalSizes
<1>3. k \in Slots
  BY <1>2 DEF Known
<1> QED BY <1>1, <1>2, <1>3, SlotsOf

(* The bounds of a checkpoint, whatever the number of partitions.          *)
LEMMA BoundedIsTyped ==
  ASSUME docs \in Sources, NEW n \in Counts \cup {1}, NEW i \in 1..n, NEW cp, Bounded(cp, i, n, docs),
         NEW t \in DOMAIN cp.prog
  PROVE  /\ cp.prog[t].lo = NoId \/ cp.prog[t].lo.t = t
         /\ cp.prog[t].hi = NoId \/ cp.prog[t].hi.t = t
         /\ cp.prog[t].saved = NoId \/ cp.prog[t].saved.t = t
<1>1. n \in Nat \ {0}
  BY SlotsOf
<1>2. CASE n = 1
  BY <1>2 DEF Bounded, Whole, SavedTyped
<1>3. CASE n # 1
  <2>1. PICK D : D = docs
    OBVIOUS
  <2>2. D \in Sources /\ n \in Counts /\ n <= Cardinality(D) /\ Cardinality(TypesOf(D)) = 1 /\ Piece(cp, i, n, D)
    BY <1>3, <2>1 DEF Bounded, Piece
  <2>3. PICK u, b : u \in IdTypes /\ Inner(b, n, u) /\ DOMAIN cp.prog = {u}
                                /\ cp.prog[u].lo = Lower(b, i) /\ cp.prog[u].hi = Upper(b, i, n)
    BY <1>3, <2>2, PieceBounds
  <2>4. Lower(b, i) = NoId \/ Lower(b, i).t = u
    <3>1. i # 1 => i - 1 \in 1..(n - 1)
      BY <1>1
    <3> QED BY <2>3, <3>1 DEF Lower, Inner
  <2>5. Upper(b, i, n) = NoId \/ Upper(b, i, n).t = u
    <3>1. i < n => i \in 1..(n - 1)
      BY <1>1
    <3> QED BY <2>3, <3>1 DEF Upper, Inner
  <2>6. t = u
    BY <2>3
  <2> QED BY <2>3, <2>4, <2>5, <2>6 DEF Bounded, SavedTyped
<1> QED BY <1>2, <1>3

(* A global minimum is of the type it is the minimum of.                   *)
LEMMA GlobalMinIsOf ==
  ASSUME BoundsInv, docs \in Sources, DOMAIN files = Slots,
         NEW n \in Counts \cup {1}, IsValidSet(files, n), NEW t \in DOMAIN GlobalMin(files, n)
  PROVE  \E i \in 0..(n - 1) :
           /\ t \in DOMAIN files[<<i, n>>].prog /\ ~Completed(files[<<i, n>>].prog[t])
           /\ \A j \in Unfinished(files, n, t) : i <= j
           /\ GlobalMin(files, n)[t] = ResumeAt(files[<<i, n>>].prog[t])
           /\ GlobalMin(files, n)[t] = NoId \/ GlobalMin(files, n)[t].t = t
<1>1. n \in Nat \ {0}
  BY SlotsOf
<1> DEFINE T == Unfinished(files, n, t)
<1>2. T # {} /\ T \in SUBSET Nat /\ T \subseteq 0..(n - 1)
  BY <1>1 DEF GlobalMin, Unfinished
<1>3. \E m \in T : \A x \in T : m <= x
  BY <1>2, LeastNumber
<1>4. PICK i : i = CHOOSE j \in T : \A k \in T : j <= k
  OBVIOUS
<1>5. i \in T /\ \A k \in T : i <= k
  BY <1>3, <1>4
<1>6. GlobalMin(files, n)[t] = ResumeAt(files[<<i, n>>].prog[t])
  BY <1>4 DEF GlobalMin
<1>7. t \in DOMAIN files[<<i, n>>].prog /\ ~Completed(files[<<i, n>>].prog[t])
  BY <1>5 DEF Unfinished
<1>8. i \in 0..(n - 1) /\ i + 1 \in 1..n /\ (i + 1) - 1 = i
  BY <1>1, <1>2, <1>5
<1>9. Bounded(files[<<i, n>>], i + 1, n, docs)
  <2>1. Bounded(files[<<(i + 1) - 1, n>>], i + 1, n, docs)
    BY <1>1, <1>8, ValidSets
  <2> QED BY <1>8, <2>1
<1>10. PICK r : r = files[<<i, n>>].prog[t] /\ (r.lo = NoId \/ r.lo.t = t) /\ (r.saved = NoId \/ r.saved.t = t)
  <2>1. PICK cp : cp = files[<<i, n>>]
    OBVIOUS
  <2>2. Bounded(cp, i + 1, n, docs) /\ t \in DOMAIN cp.prog
    BY <1>7, <1>9, <2>1
  <2>3. (cp.prog[t].lo = NoId \/ cp.prog[t].lo.t = t) /\ (cp.prog[t].saved = NoId \/ cp.prog[t].saved.t = t)
    BY <1>8, <2>2, BoundedIsTyped
  <2> QED BY <2>1, <2>3
<1>11. ResumeAt(r) = NoId \/ ResumeAt(r).t = t
  BY <1>10 DEF ResumeAt
<1> QED BY <1>5, <1>6, <1>7, <1>8, <1>10, <1>11

-----------------------------------------------------------------------------
(* What a plan starts with has the bounds of its partition.                *)
BoundedPlan(plan) ==
  \A i \in 1..Len(plan.filters) : Bounded(plan.cps[i], i, Len(plan.filters), docs)

LEMMA DirectIsBounded ==
  ASSUME BoundsInv, DOMAIN files = Slots, NEW n \in Counts \cup {1}, IsValidSet(files, n)
  PROVE  BoundedPlan(Direct(n))
<1>1. n \in Nat \ {0}
  BY SlotsOf
<1>2. Direct(n).filters = DirectFilters(files, n) /\ Direct(n).cps = [i \in 1..n |-> files[<<i - 1, n>>]]
  BY DEF Direct
<1>3. Len(DirectFilters(files, n)) = n
  BY <1>1 DEF DirectFilters
<1>4. ASSUME NEW i \in 1..n PROVE Bounded(Direct(n).cps[i], i, n, docs)
  <2>1. Direct(n).cps[i] = files[<<i - 1, n>>]
    BY <1>2
  <2> QED BY <1>1, <2>1, ValidSets
<1> QED BY <1>2, <1>3, <1>4 DEF BoundedPlan

LEMMA FreshIsBounded ==
  ASSUME docs \in Sources, docs # {}, NEW mode \in {"sequential", "parallel"}, NEW n \in Nat \ {0},
         mode = "sequential" => n = 1, mode = "parallel" => n \in Counts /\ Possible("parallel", n),
         NEW types \in SUBSET PresentTypes
  PROVE  BoundedPlan(Fresh(mode, n, types))
<1> DEFINE cut == IF mode = "sequential" THEN <<Everything>> ELSE Cut(n)
           own(i) == Boundaries(cut[i])
           prog(i) == [t \in DOMAIN own(i) \cup types |-> IF t \in DOMAIN own(i) THEN own(i)[t] ELSE Unbounded]
           cps == [i \in DOMAIN cut |-> Cp(Len(cut), prog(i))]
<1>1. Fresh(mode, n, types).filters = cut /\ Fresh(mode, n, types).cps = cps
  BY DEF Fresh
<1>2. Unbounded.lo = NoId /\ Unbounded.hi = NoId /\ Unbounded.saved = NoId
  BY DEF Unbounded, Boundary
<1>3. CASE n = 1
  <2>1. cut = <<Everything>>
    <3>1. mode = "parallel" => Cut(n) = Partition(docs, "auto", docs, MaxId(docs), n, n, TRUE)
      BY CutIs DEF Possible
    <3>2. mode = "parallel" => Cut(n) = <<Everything>>
      BY <1>3, <3>1 DEF Partition
    <3> QED BY <3>2
  <2>2. Len(cut) = 1 /\ DOMAIN cut = {1} /\ cut[1] = Everything
    BY <2>1
  <2> HIDE DEF cut
  <2>3. DOMAIN own(1) = {}
    BY <2>2, EverythingHasNoBounds
  <2>4. cps[1].prog = prog(1)
    BY <2>2, CpFields
  <2>5. prog(1) = [t \in types |-> Unbounded]
    BY <2>3
  <2>6. Bounded(cps[1], 1, 1, docs)
    BY <1>2, <2>4, <2>5 DEF Bounded, SavedTyped, Whole
  <2> QED BY <1>1, <2>2, <2>6 DEF BoundedPlan
<1>4. CASE n # 1
  <2>1. PICK D : D = docs
    OBVIOUS
  <2>2. /\ mode = "parallel" /\ n \in Counts /\ n <= Cardinality(D) /\ Cardinality(TypesOf(D)) = 1
        /\ D \in Sources /\ types \subseteq TypesOf(D)
    BY <1>4, <2>1 DEF Possible, PresentTypes, TypesOf
  <2>3. PICK t, b : t \in IdTypes /\ TypesOf(D) = {t} /\ Pieces(CutOf[D][n], n, t, b, D)
    BY <1>4, <2>2, CutInPieces
  <2>4. cut = CutOf[D][n] /\ Len(cut) = n /\ DOMAIN cut = 1..n
    BY <2>1, <2>2, <2>3 DEF Cut, Pieces, Numbered
  <2> HIDE DEF cut
  <2>5. ASSUME NEW i \in 1..n PROVE Bounded(cps[i], i, n, D)
    <3>1. PICK r : r = own(i)
      OBVIOUS
    <3>2. DOMAIN r = {t} /\ r[t].saved = NoId
      <4>1. r = Boundaries(CutOf[D][n][i])
        BY <2>4, <3>1
      <4>2. DOMAIN r = {t} /\ r[t] = Boundary(Lower(b, i), Upper(b, i, n), NoId)
        BY <2>3, <4>1 DEF Pieces
      <4> QED BY <4>2 DEF Boundary
    <3>3. cps[i].prog = prog(i)
      BY <2>4, CpFields
    <3>4. DOMAIN prog(i) = {t} /\ prog(i)[t] = r[t]
      BY <2>2, <2>3, <3>1, <3>2
    <3>5. r = Boundaries(CutOf[D][n][i])
      BY <2>4, <3>1
    <3> HIDE DEF cps, prog, own
    <3>6. SavedTyped(cps[i])
      BY <3>2, <3>3, <3>4 DEF SavedTyped
    <3>7. Piece(cps[i], i, n, D)
      BY <2>2, <2>3, <3>3, <3>4, <3>5 DEF Piece
    <3> QED BY <1>4, <3>6, <3>7 DEF Bounded
  <2> QED BY <1>1, <2>1, <2>4, <2>5 DEF BoundedPlan
<1> QED BY <1>3, <1>4

LEMMA SequentialResampleIsBounded ==
  ASSUME BoundsInv, docs \in Sources, DOMAIN files = Slots, HistoricalSizes(files) # {}
  PROVE  BoundedPlan(SequentialResample)
<1>1. PICK n \in Counts \cup {1} : IsValidSet(files, n) /\ PlannedMin(files) = GlobalMin(files, n)
  BY HistoricalSet
<1>2. PICK gmin, cp : gmin = PlannedMin(files) /\ cp = MinCheckpoint(gmin)
  OBVIOUS
<1>3. \A t \in DOMAIN gmin : gmin[t] = NoId \/ gmin[t].t = t
  <2>1. ASSUME NEW t \in DOMAIN GlobalMin(files, n)
        PROVE  GlobalMin(files, n)[t] = NoId \/ GlobalMin(files, n)[t].t = t
    BY <1>1, GlobalMinIsOf
  <2> QED BY <1>1, <1>2, <2>1
<1>4. SequentialResample.filters = <<FilterOf(cp)>> /\ SequentialResample.cps = <<cp>>
  BY <1>2 DEF SequentialResample
<1>5. DOMAIN cp.prog = DOMAIN gmin /\ \A t \in DOMAIN gmin : cp.prog[t] = Boundary(NoId, NoId, gmin[t])
  BY <1>2 DEF MinCheckpoint
<1>6. \A s : Boundary(NoId, NoId, s).lo = NoId /\ Boundary(NoId, NoId, s).hi = NoId /\ Boundary(NoId, NoId, s).saved = s
  BY DEF Boundary
<1>7. Bounded(cp, 1, 1, docs)
  BY <1>3, <1>5, <1>6 DEF Bounded, SavedTyped, Whole
<1>8. Len(<<FilterOf(cp)>>) = 1 /\ <<cp>>[1] = cp
  OBVIOUS
<1> QED BY <1>4, <1>7, <1>8 DEF BoundedPlan

LEMMA ParallelResampleIsBounded ==
  ASSUME BoundsInv, docs \in Sources, docs # {}, DOMAIN files = Slots, NEW n \in Counts,
         Possible("parallel", n), HistoricalSizes(files) # {}, NEW A, SoundFiles(A)
  PROVE  BoundedPlan(ParallelResample(n))
<1> DEFINE gmin == PlannedMin(files)
           raw == Cut(n)
           clamped == ClampPartitions(raw, gmin)
           own(i) == Boundaries(raw[i])
           prog(i) == IF clamped[i] = Nothing THEN SkippedProgress(own(i), gmin) ELSE own(i)
           cps == [i \in DOMAIN raw |-> Cp(Len(raw), prog(i))]
<1>1. ParallelResample(n).filters = clamped /\ ParallelResample(n).cps = cps
  BY DEF ParallelResample
<1>2. TypedMin(gmin) /\ \A t \in DOMAIN gmin : gmin[t] = NoId \/ gmin[t].t = t
  <2>1. PICK m \in Counts \cup {1} : IsValidSet(files, m) /\ PlannedMin(files) = GlobalMin(files, m)
    BY HistoricalSet
  <2>2. TypedMin(gmin)
    BY MinimaAreTyped DEF PlannedMin
  <2>3. ASSUME NEW t \in DOMAIN GlobalMin(files, m)
        PROVE  GlobalMin(files, m)[t] = NoId \/ GlobalMin(files, m)[t].t = t
    BY <2>1, GlobalMinIsOf
  <2> QED BY <2>1, <2>2, <2>3
<1>3. n \in Nat \ {0} /\ n <= Cardinality(docs)
  BY SlotsOf DEF Possible
<1> HIDE DEF gmin
<1>4. Numbered(raw) => Numbered(clamped) /\ Len(clamped) = Len(raw)
  BY DEF ClampPartitions, Numbered
<1>5. CASE n = 1
  <2>1. raw = <<Everything>>
    <3>1. Cut(n) = Partition(docs, "auto", docs, MaxId(docs), n, n, TRUE)
      BY <1>3, CutIs
    <3> QED BY <1>5, <3>1 DEF Partition
  <2>2. raw[1] = Everything /\ DOMAIN raw = {1} /\ Len(raw) = 1 /\ Numbered(raw)
    BY <2>1 DEF Numbered
  <2> HIDE DEF raw
  <2>3. DOMAIN own(1) = {} /\ TypedRanges(own(1))
    BY <2>2, EverythingHasNoBounds
  <2>4. DOMAIN prog(1) = {}
    BY <1>2, <2>3, SkippedProgressIsTyped
  <2>5. cps[1].prog = prog(1)
    BY <2>2, CpFields
  <2>6. Bounded(cps[1], 1, 1, docs)
    BY <2>4, <2>5 DEF Bounded, SavedTyped, Whole
  <2>7. Len(clamped) = 1
    BY <1>4, <2>2
  <2> HIDE DEF cps, clamped
  <2> QED BY <1>1, <2>6, <2>7 DEF BoundedPlan
<1>6. CASE n # 1
  <2>1. PICK D : D = docs
    OBVIOUS
  <2>2. n <= Cardinality(D) /\ Cardinality(TypesOf(D)) = 1 /\ D \in Sources
    BY <1>3, <2>1 DEF Possible, PresentTypes, TypesOf
  <2>3. PICK t, b : t \in IdTypes /\ TypesOf(D) = {t} /\ Pieces(CutOf[D][n], n, t, b, D)
    BY <1>6, <2>2, CutInPieces
  <2>4. raw = CutOf[D][n] /\ Len(raw) = n /\ DOMAIN raw = 1..n /\ Numbered(raw)
    BY <2>1, <2>3 DEF Cut, Pieces, Numbered
  <2>5. ASSUME NEW i \in 1..n PROVE Bounded(cps[i], i, n, D)
    <3>1. PICK r, s : r = own(i) /\ s = prog(i)
      OBVIOUS
    <3>2. r = Boundaries(CutOf[D][n][i]) /\ DOMAIN r = {t} /\ r[t] = Boundary(Lower(b, i), Upper(b, i, n), NoId)
      BY <2>3, <2>4, <3>1 DEF Pieces
    <3>3. r[t].hi = NoId \/ r[t].hi.t = t
      <4>1. i < n => i \in 1..(n - 1)
        BY <1>3
      <4> QED BY <2>3, <3>2, <4>1 DEF Pieces, Boundary, Upper, Inner
    <3>4. TypedRanges(r)
      <4>1. r[t].lo \in Bounds /\ r[t].hi \in Bounds
        <5>1. i # 1 => i - 1 \in 1..(n - 1)
          BY <1>3
        <5>2. i < n => i \in 1..(n - 1)
          BY <1>3
        <5> QED BY <2>3, <3>2, <5>1, <5>2 DEF Pieces, Boundary, Lower, Upper, Inner, Bounds
      <4>2. r[t] \in [lo : Bounds, hi : Bounds, saved : {NoId}]
        BY <3>2, <4>1 DEF Boundary
      <4> QED BY <2>3, <3>2, <4>2 DEF TypedRanges
    <3>5. cps[i].prog = s
      BY <2>4, <3>1, CpFields
    <3> HIDE DEF cps
    <3>6. s = r \/ s = SkippedProgress(r, gmin)
      BY <3>1
    <3>7. /\ DOMAIN s = {t} /\ s[t].lo = r[t].lo /\ s[t].hi = r[t].hi
          /\ s[t].saved = NoId \/ s[t].saved.t = t
      <4>1. CASE s = r
        BY <3>2, <4>1 DEF Boundary
      <4>2. CASE s = SkippedProgress(r, gmin)
        <5>1. MinOf(gmin, t) = NoId \/ MinOf(gmin, t).t = t
          BY <1>2 DEF MinOf
        <5>2. PICK min : min = MinOf(gmin, t)
          OBVIOUS
        <5>3. /\ DOMAIN s = {t} /\ s[t].lo = r[t].lo /\ s[t].hi = r[t].hi
              /\ s[t].saved = r[t].hi \/ s[t].saved = min
          BY <1>2, <3>2, <3>4, <4>2, <5>2, SkippedProgressIsTyped
        <5> QED BY <3>3, <5>1, <5>2, <5>3
      <4> QED BY <3>6, <4>1, <4>2
    <3>8. SavedTyped(cps[i])
      BY <3>5, <3>7 DEF SavedTyped
    <3>9. Piece(cps[i], i, n, D)
      BY <2>2, <2>3, <3>2, <3>5, <3>7 DEF Piece
    <3> QED BY <1>6, <3>8, <3>9 DEF Bounded
  <2>6. Len(clamped) = n
    BY <1>4, <2>4
  <2> QED BY <1>1, <2>1, <2>5, <2>6 DEF BoundedPlan
<1> QED BY <1>5, <1>6

LEMMA PlanIsBounded ==
  ASSUME BoundsInv, docs \in Sources, docs # {}, NEW mode \in {"sequential", "parallel"}, NEW n \in Nat \ {0},
         mode = "sequential" => n = 1, mode = "parallel" => n \in Counts /\ Possible("parallel", n),
         NEW types \in SUBSET PresentTypes, NEW A, SoundFiles(A)
  PROVE  BoundedPlan(Plan(mode, n, types))
<1>0. DOMAIN files = Slots /\ n \in Counts \cup {1}
  BY DEF SoundFiles
<1>1. CASE EffectiveMode(mode, n) = "direct"
  <2>1. PlanMode(files, n) = "direct"
    BY <1>1 DEF EffectiveMode
  <2>2. IsValidSet(files, n)
    BY <2>1 DEF PlanMode
  <2> QED BY <1>0, <1>1, <2>2, DirectIsBounded DEF Plan
<1>2. CASE EffectiveMode(mode, n) = "fresh"
  BY <1>2, FreshIsBounded DEF Plan
<1>3. CASE EffectiveMode(mode, n) = "resample"
  <2>1. HistoricalSizes(files) # {}
    BY <1>3 DEF EffectiveMode, PlanMode
  <2>2. Plan(mode, n, types) = IF mode = "sequential" THEN SequentialResample ELSE ParallelResample(n)
    BY <1>3 DEF Plan
  <2> QED BY <1>0, <2>1, <2>2, SequentialResampleIsBounded, ParallelResampleIsBounded
<1>4. EffectiveMode(mode, n) \in {"direct", "fresh", "resample"}
  BY DEF EffectiveMode, PlanMode
<1> QED BY <1>1, <1>2, <1>3, <1>4

(* A save keeps the bounds of its partition.                               *)
LEMMA AdvanceIsBounded ==
  ASSUME BackfillInv, CopyInv, NEW p \in Parts, NEW q, NEW k, Leading(p, q, k),
         NEW n, Bounded(ck[p], p, n, docs)
  PROVE  Bounded(Advanced(ck[p], q, k), p, n, docs)
<1>1. PICK cp, new, D : cp = ck[p] /\ new = Advanced(cp, q, k) /\ D = docs
  OBVIOUS
<1>2. /\ DOMAIN cp.prog \subseteq DOMAIN new.prog
      /\ \A t \in DOMAIN new.prog :
           /\ new.prog[t].lo = OldBounds(cp, t).lo /\ new.prog[t].hi = OldBounds(cp, t).hi
           /\ \/ t \in DOMAIN cp.prog /\ new.prog[t] = cp.prog[t]
              \/ new.prog[t].saved.t = t /\ LeadingMaximum(p, q, k, new.prog[t].saved)
  BY <1>1, AdvanceFields
<1>3. \A m : LeadingMaximum(p, q, k, m) => m \in D
  BY <1>1 DEF LeadingMaximum, Selected
<1>4. Bounded(cp, p, n, D)
  BY <1>1
<1>5. SavedTyped(new)
  BY <1>2, <1>4 DEF Bounded, SavedTyped
<1>6. Unbounded.lo = NoId /\ Unbounded.hi = NoId
  BY DEF Unbounded, Boundary
<1>7. Whole(cp) => Whole(new)
  BY <1>2, <1>6 DEF Whole, OldBounds
<1>8. Piece(cp, p, n, D) => Piece(new, p, n, D)
  <2>1. SUFFICES ASSUME Piece(cp, p, n, D) PROVE Piece(new, p, n, D)
    OBVIOUS
  <2>2. DOMAIN new.prog = TypesOf(D)
    <3>1. \A t \in DOMAIN new.prog : t \in DOMAIN cp.prog \/ t \in TypesOf(D)
      BY <1>2, <1>3 DEF TypesOf
    <3> QED BY <1>2, <2>1, <3>1 DEF Piece
  <2>3. \A t \in TypesOf(D) : new.prog[t].lo = cp.prog[t].lo /\ new.prog[t].hi = cp.prog[t].hi
    BY <1>2, <2>1, <2>2 DEF Piece, OldBounds
  <2> QED BY <2>1, <2>2, <2>3 DEF Piece
<1> QED BY <1>1, <1>4, <1>5, <1>7, <1>8 DEF Bounded

LEMMA SaveKeepsBounds ==
  ASSUME BackfillInv, CopyInv, BoundsInv, NEW p \in Parts, NEW q, NEW d,
         SameBatches(p, q), Save(p, q, d), UNCHANGED <<docs, parts>>
  PROVE  BoundsInv'
<1>1. PICK n, k : n = Len(parts) /\ k = LeadingAcked(q)
  OBVIOUS
<1>2. PICK new : new = Advanced(ck[p], q, k)
  OBVIOUS
<1>3. Bounded(new, p, n, docs)
  BY <1>1, <1>2, LeadingBatches, AdvanceIsBounded DEF BoundsInv
<1>4. DOMAIN files = Slots /\ DOMAIN ck = Parts /\ Parts' = Parts /\ p \in Int
  BY DEF CopyInv, SoundFiles, Parts, BackfillInv, AttemptTypes, Numbered
<1>5. CASE UNCHANGED <<files, ck>>
  BY <1>4, <1>5 DEF BoundsInv, Known
<1>6. CASE files' = [files EXCEPT ![<<p - 1, n>>] = new] /\ ck' = [ck EXCEPT ![p] = new]
  <2>1. ASSUME NEW r \in Parts PROVE Bounded(ck'[r], r, n, docs)
    BY <1>1, <1>3, <1>4, <1>6, <2>1 DEF BoundsInv
  <2>2. ASSUME NEW s \in Known(files)' PROVE Bounded(files'[s], s[1] + 1, s[2], docs)
    <3>1. s \in Slots /\ files'[s] # NoCheckpoint
      BY <1>4, <1>6, <2>2 DEF Known
    <3>2. CASE s = <<p - 1, n>>
      <4>1. files'[s] = new /\ s[1] + 1 = p /\ s[2] = n
        BY <1>4, <1>6, <3>1, <3>2
      <4> QED BY <1>3, <4>1
    <3>3. CASE s # <<p - 1, n>>
      <4>1. files'[s] = files[s] /\ s \in Known(files)
        BY <1>4, <1>6, <3>1, <3>3 DEF Known
      <4> QED BY <4>1 DEF BoundsInv
    <3> QED BY <3>2, <3>3
  <2> QED BY <1>1, <1>4, <2>1, <2>2 DEF BoundsInv
<1> QED BY <1>1, <1>2, <1>5, <1>6 DEF Save

LEMMA StartKeepsBounds ==
  ASSUME BackfillInv, CopyInv, BoundsInv, Start
  PROVE  BoundsInv'
<1>0. docs \in Sources
  BY DEF BackfillInv, AttemptTypes
<1>1. docs' = docs /\ docs # {}
  BY DEF Start, StartSequential, StartParallel, Begin
<1>2. PresentTypes \in SUBSET PresentTypes /\ {} \in SUBSET PresentTypes
  OBVIOUS
<1>3. \E mode, n, types, keep :
        /\ mode \in {"sequential", "parallel"} /\ n \in Nat \ {0} /\ types \in SUBSET PresentTypes
        /\ mode = "sequential" => n = 1
        /\ mode = "parallel" => n \in Counts /\ Possible("parallel", n)
        /\ StartWith(Plan(mode, n, types), keep)
  <2>1. CASE StartSequential
    BY <1>2, <2>1 DEF StartSequential
  <2>2. ASSUME NEW n \in Counts, StartParallel(n)
        PROVE  \E types, keep :
          types \in SUBSET PresentTypes /\ Possible("parallel", n) /\ StartWith(Plan("parallel", n, types), keep)
    BY <1>2, <2>2 DEF StartParallel
  <2>3. \A n \in Counts : n \in Nat \ {0}
    BY BackfillAssumption
  <2> QED BY <2>1, <2>2, <2>3 DEF Start
<1>4. PICK mode, n, types, keep :
        /\ mode \in {"sequential", "parallel"} /\ n \in Nat \ {0} /\ types \in SUBSET PresentTypes
        /\ mode = "sequential" => n = 1
        /\ mode = "parallel" => n \in Counts /\ Possible("parallel", n)
        /\ StartWith(Plan(mode, n, types), keep)
  BY <1>3
<1>5. PICK plan : plan = Plan(mode, n, types)
  OBVIOUS
<1>6. /\ files' = IF keep THEN files ELSE NoFiles
      /\ parts' = plan.filters /\ ck' = plan.cps
  BY <1>4, <1>5 DEF StartWith
<1>7. Numbered(plan.filters)
  BY <1>0, <1>1, <1>4, <1>5, PlanIsNumbered, BackfillAssumption DEF Possible
<1>8. SoundFiles(Accounted)
  BY DEF CopyInv
<1>9. BoundedPlan(plan)
  BY <1>0, <1>1, <1>4, <1>5, <1>8, PlanIsBounded
<1>10. PICK filters, cps, D : filters = plan.filters /\ cps = plan.cps /\ D = docs
  OBVIOUS
<1>11. \A i \in 1..Len(filters) : Bounded(cps[i], i, Len(filters), D)
  BY <1>9, <1>10 DEF BoundedPlan
<1>12. Parts' = 1..Len(filters) /\ parts' = filters /\ ck' = cps /\ docs' = D
  BY <1>1, <1>6, <1>7, <1>10 DEF Parts, Numbered
<1>13. ASSUME NEW k \in Known(files)' PROVE Bounded(files'[k], k[1] + 1, k[2], D)
  <2>1. files' = files \/ (files' = NoFiles /\ Known(files)' = {})
    BY <1>6 DEF NoFiles, Known
  <2>2. files' = files /\ k \in Known(files)
    BY <1>13, <2>1 DEF Known
  <2> QED BY <1>10, <2>2 DEF BoundsInv
<1> QED BY <1>11, <1>12, <1>13 DEF BoundsInv

LEMMA BoundsInvInductive == BackfillInv /\ CopyInv /\ BoundsInv /\ [Next]_vars => BoundsInv'
<1> SUFFICES ASSUME BackfillInv, CopyInv, BoundsInv, [Next]_vars PROVE BoundsInv'
  OBVIOUS
<1>0. DOMAIN files = Slots
  BY DEF CopyInv, SoundFiles
<1>1. ASSUME UNCHANGED <<docs, files, parts, ck>> PROVE BoundsInv'
  BY <1>1 DEF BoundsInv, Known, Parts
<1>2. CASE Start
  BY <1>2, StartKeepsBounds
<1>3. CASE CollectionEnds
  <2>1. UNCHANGED <<docs, parts, ck>> /\ files' = NoFiles
    BY <1>3 DEF CollectionEnds, memVars
  <2>2. Known(files)' = {} /\ Parts' = Parts
    BY <2>1 DEF Known, NoFiles, Parts
  <2> QED BY <2>1, <2>2 DEF BoundsInv
<1>4. CASE Cancel \/ UNCHANGED vars
  BY <1>1, <1>4 DEF Cancel, vars, diskVars, memVars
<1>5. CASE Crash \/ CrashInDelete
  <2>1. docs' = docs /\ parts' = <<>>
    BY <1>5 DEF Crash, CrashInDelete, MemoryIsGone, diskVars
  <2>2. /\ DOMAIN files' = Slots
        /\ \A k \in Slots : files'[k] = files[k] \/ files'[k] = NoCheckpoint
    BY <1>0, <1>5 DEF Crash, CrashInDelete, diskVars
  <2>3. \A k \in Known(files)' : k \in Known(files) /\ files'[k] = files[k]
    BY <1>0, <2>2 DEF Known
  <2>4. Parts' = {}
    BY <2>1 DEF Parts
  <2> QED BY <2>1, <2>3, <2>4 DEF BoundsInv
<1>6. ASSUME NEW p \in Parts, Tick(p) \/ ReaderStep(p) \/ QueryFails(p) \/ WorkerStep(p) \/ EndStep(p)
      PROVE  BoundsInv'
  <2>1. CASE Tick(p) \/ PartitionCompletes(p)
    BY <2>1, OwnBatches, SaveKeepsBounds DEF Tick, PartitionCompletes
  <2>2. CASE ReadBatch(p) \/ Send(p) \/ EndOfRead(p)
    BY <1>1, <2>2 DEF ReadBatch, Send, EndOfRead, diskVars
  <2>3. CASE ReaderFails(p) \/ QueryFails(p) \/ PartitionFails(p)
    BY <2>3, OwnBatches, SaveKeepsBounds DEF ReaderFails, QueryFails, PartitionFails, Fail
  <2>4. ASSUME NEW w \in Workers, Take(p, w) \/ Write(p, w) \/ WriteFails(p, w) PROVE BoundsInv'
    BY <1>1, <2>4 DEF Take, Write, WriteFails, diskVars
  <2>5. ASSUME NEW w \in Workers, Ack(p, w) PROVE BoundsInv'
    <3>1. UNCHANGED <<docs, parts>> /\ (cancelled => UNCHANGED <<files, ck>>)
      BY <2>5 DEF Ack
    <3>2. CASE cancelled
      BY <1>1, <3>1, <3>2
    <3>3. CASE ~cancelled
      BY <2>5, <3>1, <3>3, AckSaves, SaveKeepsBounds
    <3> QED BY <3>2, <3>3
  <2> QED BY <1>6, <2>1, <2>2, <2>3, <2>4, <2>5 DEF ReaderStep, EndStep, WorkerStep
<1> QED BY <1>2, <1>3, <1>4, <1>5, <1>6 DEF Next

(* Every checkpoint, on disk and in memory, has the bounds of its partition  *)
(* in the cut of the collection, whatever plan it was made by.               *)
THEOREM BoundsInvAlways == Spec => []BoundsInv
<1>1. Init => BoundsInv
  <2>1. Init => files = NoFiles /\ parts = <<>>
    BY DEF Init
  <2>2. files = NoFiles /\ parts = <<>> => Known(files) = {} /\ Parts = {}
    BY DEF Known, NoFiles, Parts
  <2> QED BY <2>1, <2>2 DEF BoundsInv
<1> QED BY <1>1, BackfillInvAlways, CopyInvAlways, BoundsInvInductive, PTL DEF Spec

-----------------------------------------------------------------------------
(* The next attempt.                                                         *)

(* Where the next attempt starts to read a type: not above this document.  *)
NotAbove(gmin, id) == gmin[id.t] = NoId \/ (gmin[id.t].t = id.t /\ gmin[id.t].v <= id.v)

(* In a valid set of files a document that is not accounted for lies in    *)
(* the open range of a partition, and no unfinished partition before that  *)
(* one goes on above it.                                                   *)
LEMMA UnsettledIsHeld ==
  ASSUME BoundsInv, docs \in Sources, NEW A, SoundFiles(A), KnowsEveryType,
         NEW n \in Counts \cup {1}, IsValidSet(files, n), NEW id \in docs, id \notin A
  PROVE  /\ \E i \in 1..n : /\ id.t \in DOMAIN files[<<i - 1, n>>].prog
                            /\ ~Completed(files[<<i - 1, n>>].prog[id.t])
                            /\ Within(files[<<i - 1, n>>].prog[id.t], id)
         /\ id.t \in DOMAIN GlobalMin(files, n) /\ NotAbove(GlobalMin(files, n), id)
<1>1. n \in Nat \ {0} /\ DOMAIN files = Slots /\ docs \in SUBSET Ids /\ id \in Ids /\ id.v \in Int /\ id.t \in IdTypes
  BY SlotsOf, SourcesAreIds, NoIdIsNone DEF SoundFiles
<1>2. PICK D, F : D = docs /\ F = files
  OBVIOUS
<1>3. ASSUME NEW i \in 1..n
      PROVE  /\ Bounded(F[<<i - 1, n>>], i, n, D) /\ id.t \in DOMAIN F[<<i - 1, n>>].prog
             /\ TypedCp(F[<<i - 1, n>>]) /\ CoversOnly(F[<<i - 1, n>>], D, A)
  <2>1. <<i - 1, n>> \in Known(files) /\ <<i - 1, n>> \in Slots /\ Bounded(files[<<i - 1, n>>], i, n, docs)
    BY <1>1, ValidSets
  <2>2. id.t \in PresentTypes
    BY DEF PresentTypes
  <2>3. id.t \in DOMAIN files[<<i - 1, n>>].prog
    BY <2>1, <2>2 DEF KnowsEveryType
  <2> QED BY <1>2, <2>1, <2>3 DEF SoundFiles
<1> DEFINE Open(i) == /\ ~Completed(F[<<i - 1, n>>].prog[id.t])
                      /\ Within(F[<<i - 1, n>>].prog[id.t], id)
           Restart(i) == ResumeAt(F[<<i - 1, n>>].prog[id.t])
<1>4. \E i \in 1..n : /\ Open(i)
                      /\ \A j \in 1..i : ~Completed(F[<<j - 1, n>>].prog[id.t]) =>
                           Restart(j) = NoId \/ (Restart(j).t = id.t /\ Restart(j).v <= id.v)
  <2>1. CASE n = 1
    <3>1. PICK k, cp : k = 1 /\ cp = F[<<k - 1, n>>]
      OBVIOUS
    <3>2. k \in 1..n /\ \A j \in 1..k : j = k
      BY <2>1, <3>1
    <3>3. Whole(cp) /\ SavedTyped(cp) /\ id.t \in DOMAIN cp.prog /\ TypedCp(cp) /\ CoversOnly(cp, D, A)
      BY <1>3, <2>1, <3>1, <3>2 DEF Bounded
    <3>4. ~Completed(cp.prog[id.t]) /\ Within(cp.prog[id.t], id)
      BY <1>1, <1>2, <3>3, OpenRange DEF Whole
    <3>5. PICK r : r = cp.prog[id.t] /\ r = F[<<k - 1, n>>].prog[id.t]
      BY <3>1
    <3>6. ResumeAt(r) = NoId \/ (ResumeAt(r).t = id.t /\ ResumeAt(r).v <= id.v)
      BY <3>4, <3>5 DEF Within
    <3>7. Open(k) /\ (Restart(k) = NoId \/ (Restart(k).t = id.t /\ Restart(k).v <= id.v))
      BY <3>4, <3>5, <3>6
    <3> HIDE DEF Open, Restart
    <3> QED BY <3>2, <3>7
  <2>2. CASE n # 1
    <3>1. D \in Sources /\ n \in Counts /\ n <= Cardinality(D) /\ Cardinality(TypesOf(D)) = 1
      <4>1. 1 \in 1..n
        BY <1>1
      <4>2. Piece(F[<<1 - 1, n>>], 1, n, D)
        BY <1>3, <2>2, <4>1 DEF Bounded
      <4> QED BY <1>2, <2>2, <4>2 DEF Piece
    <3>2. PICK t, b :
            /\ t \in IdTypes
            /\ TypesOf(D) = {t} /\ (\A x \in D : x.t = t) /\ Inner(b, n, t)
            /\ \A cp : \A i \in 1..n : Piece(cp, i, n, D) =>
                 DOMAIN cp.prog = {t} /\ cp.prog[t].lo = Lower(b, i) /\ cp.prog[t].hi = Upper(b, i, n)
      BY <2>2, <3>1, PieceBounds
    <3>3. id.t = t
      BY <1>2, <3>2
    <3>4. PICK i \in 1..n : InPiece(id, i, n, b) /\ \A j \in 1..(i - 1) : b[j].v <= id.v
      BY <1>1, <3>2, InSomePiece
    <3>5. \A k \in 1..(n - 1) : b[k] \in Ids /\ b[k] # NoId /\ b[k].t = t /\ b[k].v \in Int
      BY <3>2, NoIdIsNone DEF Inner
    <3>6. ASSUME NEW j \in 1..n
          PROVE  \E cp : /\ cp = F[<<j - 1, n>>] /\ TypedCp(cp) /\ SavedTyped(cp) /\ CoversOnly(cp, D, A)
                         /\ id.t \in DOMAIN cp.prog
                         /\ cp.prog[t].lo = Lower(b, j) /\ cp.prog[t].hi = Upper(b, j, n)
      BY <1>3, <2>2, <3>2 DEF Bounded
    <3>7. Open(i)
      <4>1. PICK cp : /\ cp = F[<<i - 1, n>>] /\ TypedCp(cp) /\ SavedTyped(cp) /\ CoversOnly(cp, D, A)
                      /\ id.t \in DOMAIN cp.prog
                      /\ cp.prog[t].lo = Lower(b, i) /\ cp.prog[t].hi = Upper(b, i, n)
        BY <3>6
      <4>2. Lower(b, i) # NoId => Lower(b, i).t = id.t /\ Lower(b, i).v <= id.v
        <5>1. i # 1 => i - 1 \in 1..(n - 1) /\ i > 1
          BY <1>1
        <5> QED BY <3>3, <3>4, <3>5, <5>1 DEF Lower, InPiece
      <4>3. Upper(b, i, n) # NoId => Upper(b, i, n).t = id.t /\ id.v < Upper(b, i, n).v
        <5>1. i < n => i \in 1..(n - 1)
          BY <1>1
        <5> QED BY <3>3, <3>4, <3>5, <5>1 DEF Upper, InPiece
      <4>4. /\ cp.prog[id.t].lo # NoId => cp.prog[id.t].lo.t = id.t /\ cp.prog[id.t].lo.v <= id.v
            /\ cp.prog[id.t].hi # NoId => cp.prog[id.t].hi.t = id.t /\ id.v < cp.prog[id.t].hi.v
        BY <3>3, <4>1, <4>2, <4>3
      <4>5. ~Completed(cp.prog[id.t]) /\ Within(cp.prog[id.t], id)
        BY <1>1, <1>2, <4>1, <4>4, OpenRange
      <4> QED BY <4>1, <4>5
    <3>8. ASSUME NEW j \in 1..i, ~Completed(F[<<j - 1, n>>].prog[id.t])
          PROVE  Restart(j) = NoId \/ (Restart(j).t = id.t /\ Restart(j).v <= id.v)
      <4>1. CASE j = i
        <5>1. PICK r : r = F[<<i - 1, n>>].prog[id.t]
          OBVIOUS
        <5>2. Within(r, id)
          BY <3>7, <5>1
        <5>3. ResumeAt(r) = NoId \/ (ResumeAt(r).t = id.t /\ ResumeAt(r).v <= id.v)
          BY <5>2 DEF Within
        <5> QED BY <4>1, <5>1, <5>3
      <4>2. CASE j # i
        <5>1. j \in 1..(n - 1) /\ j \in 1..(i - 1) /\ j \in 1..n /\ i > 1
          BY <1>1, <4>2
        <5>2. b[j].v \in Int
          BY <3>5, <5>1
        <5>3. b[j].v <= id.v
          BY <3>4, <5>1
        <5>4. PICK cp : /\ cp = F[<<j - 1, n>>] /\ TypedCp(cp) /\ SavedTyped(cp)
                        /\ id.t \in DOMAIN cp.prog
                        /\ cp.prog[t].lo = Lower(b, j) /\ cp.prog[t].hi = Upper(b, j, n)
          BY <3>6, <5>1
        <5>5. PICK r \in [lo : Bounds, hi : Bounds, saved : Bounds] : r = cp.prog[id.t]
          BY <5>4 DEF TypedCp
        <5>6. r.hi = b[j] /\ r.lo = Lower(b, j) /\ ~Completed(r) /\ Restart(j) = ResumeAt(r)
          <6>1. r.hi = Upper(b, j, n) /\ r.lo = Lower(b, j)
            BY <3>3, <5>4, <5>5
          <6>2. Upper(b, j, n) = b[j]
            BY <1>1, <5>1 DEF Upper
          <6>3. ~Completed(r) /\ Restart(j) = ResumeAt(r)
            BY <3>8, <5>4, <5>5
          <6> QED BY <6>1, <6>2, <6>3
        <5>7. r.saved # NoId => r.saved.t = id.t /\ r.saved.v \in Int
          BY <5>4, <5>5, NoIdIsNone DEF SavedTyped
        <5>8. r.saved # NoId => r.saved.v < b[j].v
          BY <3>5, <5>1, <5>2, <5>6, <5>7 DEF Completed
        <5>9. r.lo # NoId => r.lo.t = id.t /\ r.lo.v <= id.v
          <6>1. CASE j = 1
            BY <5>6, <6>1 DEF Lower
          <6>2. CASE j # 1
            <7>1. j - 1 \in 1..(n - 1) /\ j - 1 \in 1..(i - 1)
              BY <1>1, <5>1, <6>2
            <7>2. b[j - 1].v <= id.v /\ b[j - 1].v \in Int
              BY <3>4, <3>5, <5>1, <7>1
            <7> QED BY <1>1, <3>3, <3>5, <5>2, <5>3, <5>6, <6>2, <7>1, <7>2 DEF Lower
          <6> QED BY <6>1, <6>2
        <5>10. r.saved # NoId => r.saved.v <= id.v
          BY <1>1, <5>2, <5>3, <5>7, <5>8
        <5>11. ResumeAt(r) = NoId \/ (ResumeAt(r).t = id.t /\ ResumeAt(r).v <= id.v)
          BY <5>7, <5>9, <5>10 DEF ResumeAt
        <5> QED BY <5>6, <5>11
      <4> QED BY <4>1, <4>2
    <3> HIDE DEF Open, Restart
    <3> QED BY <3>7, <3>8
  <2> QED BY <2>1, <2>2
<1>5. PICK i \in 1..n : /\ Open(i)
                        /\ \A j \in 1..i : ~Completed(F[<<j - 1, n>>].prog[id.t]) =>
                             Restart(j) = NoId \/ (Restart(j).t = id.t /\ Restart(j).v <= id.v)
  BY <1>4
<1>6. id.t \in DOMAIN GlobalMin(files, n)
  <2>1. i - 1 \in Unfinished(files, n, id.t)
    BY <1>1, <1>2, <1>3, <1>5 DEF Unfinished
  <2> QED BY <1>1, <2>1 DEF GlobalMin
<1>7. NotAbove(GlobalMin(files, n), id)
  <2>1. PICK m : m = GlobalMin(files, n)[id.t]
    OBVIOUS
  <2>2. PICK k \in 0..(n - 1) : /\ ~Completed(files[<<k, n>>].prog[id.t])
                                /\ \A j \in Unfinished(files, n, id.t) : k <= j
                                /\ m = ResumeAt(files[<<k, n>>].prog[id.t])
    BY <1>1, <1>6, <2>1, GlobalMinIsOf
  <2>3. i - 1 \in Unfinished(files, n, id.t)
    BY <1>1, <1>2, <1>3, <1>5 DEF Unfinished
  <2>4. k <= i - 1
    BY <2>2, <2>3
  <2>5. k + 1 \in 1..i /\ (k + 1) - 1 = k
    BY <2>4
  <2>6. Restart(k + 1) = m /\ ~Completed(F[<<(k + 1) - 1, n>>].prog[id.t])
    BY <1>2, <2>2, <2>5
  <2>7. m = NoId \/ (m.t = id.t /\ m.v <= id.v)
    BY <1>5, <2>5, <2>6
  <2> QED BY <2>1, <2>7 DEF NotAbove
<1> QED BY <1>2, <1>3, <1>5, <1>6, <1>7

(* A document of some filter of a plan is read.                            *)
LEMMA OneFilterReads ==
  ASSUME NEW filters, NEW i \in DOMAIN filters, NEW id \in docs, Matches(id, filters[i])
  PROVE  id \in ReadBy(filters)
<1>1. id \in Selected(docs, filters[i])
  BY DEF Selected
<1> QED BY <1>1 DEF ReadBy

LEMMA DirectReadsTheRest ==
  ASSUME BoundsInv, docs \in Sources, NEW A, SoundFiles(A), KnowsEveryType,
         NEW n \in Counts \cup {1}, IsValidSet(files, n), NEW id \in docs, id \notin A
  PROVE  id \in ReadBy(Direct(n).filters)
<1>1. PICK i \in 1..n : /\ id.t \in DOMAIN files[<<i - 1, n>>].prog
                        /\ ~Completed(files[<<i - 1, n>>].prog[id.t])
                        /\ Within(files[<<i - 1, n>>].prog[id.t], id)
  BY UnsettledIsHeld
<1>2. PICK cp : cp = files[<<i - 1, n>>] /\ TypedCp(cp)
  BY SlotsOf DEF SoundFiles
<1>3. id \in Ids
  BY SourcesAreIds
<1>4. Matches(id, FilterOf(cp))
  BY <1>1, <1>2, <1>3, FilterSelects
<1>5. PICK filters : filters = Direct(n).filters /\ filters = [k \in 1..n |-> FilterOf(files[<<k - 1, n>>])]
  BY DEF Direct, DirectFilters
<1>6. i \in DOMAIN filters /\ filters[i] = FilterOf(cp)
  BY <1>2, <1>5
<1> QED BY <1>4, <1>5, <1>6, OneFilterReads

(* The ranges of a new cut have no gap either.                             *)
LEMMA CutHolds ==
  ASSUME docs \in Sources, NEW n \in Counts, Possible("parallel", n), NEW id \in docs
  PROVE  /\ n = 1 => Cut(n) = <<Everything>>
         /\ \E i \in DOMAIN Cut(n) :
              /\ Matches(id, Cut(n)[i])
              /\ n # 1 => /\ DOMAIN Boundaries(Cut(n)[i]) = {id.t}
                          /\ Within(Boundaries(Cut(n)[i])[id.t], id)
<1>1. n \in Nat \ {0} /\ n <= Cardinality(docs) /\ Cardinality(PresentTypes) = 1 /\ docs # {} /\ id \in Ids
  BY SlotsOf, SourcesAreIds DEF Possible
<1>2. CASE n = 1
  <2>1. Cut(n) = Partition(docs, "auto", docs, MaxId(docs), n, n, TRUE)
    BY <1>1, CutIs
  <2>2. Cut(n) = <<Everything>>
    BY <1>2, <2>1 DEF Partition
  <2>3. 1 \in DOMAIN Cut(n) /\ Cut(n)[1] = Everything
    BY <2>2
  <2> QED BY <1>2, <2>2, <2>3, EverythingHasNoBounds
<1>3. CASE n # 1
  <2>1. PICK D, cut : D = docs /\ cut = Cut(n)
    OBVIOUS
  <2>2. D \in Sources /\ n <= Cardinality(D) /\ Cardinality(TypesOf(D)) = 1
    BY <1>1, <2>1 DEF PresentTypes, TypesOf
  <2>3. PICK t, b : /\ t \in IdTypes /\ TypesOf(D) = {t} /\ \A x \in D : x.t = t
                    /\ Pieces(CutOf[D][n], n, t, b, D)
    BY <1>3, <2>2, CutInPieces
  <2>4. cut = CutOf[D][n] /\ Pieces(cut, n, t, b, D) /\ DOMAIN cut = 1..n /\ id.t = t
    BY <2>1, <2>3 DEF Cut, Pieces, Numbered
  <2>5. PICK i \in 1..n : InPiece(id, i, n, b)
    BY <1>1, <2>4, InSomePiece DEF Pieces
  <2>6. /\ Matches(id, cut[i]) /\ DOMAIN Boundaries(cut[i]) = {t}
        /\ Boundaries(cut[i])[t] = Boundary(Lower(b, i), Upper(b, i, n), NoId)
    BY <2>1, <2>4, <2>5 DEF Pieces
  <2>7. \A k \in 1..(n - 1) : b[k] \in Ids /\ b[k].t = t
    BY <2>4 DEF Pieces, Inner
  <2>8. (i # 1 => i - 1 \in 1..(n - 1) /\ i > 1) /\ (i < n => i \in 1..(n - 1))
    BY <1>1
  <2>9. PICK r : r = Boundary(Lower(b, i), Upper(b, i, n), NoId)
    OBVIOUS
  <2>10. Within(r, id)
    <3>1. r.lo = Lower(b, i) /\ r.hi = Upper(b, i, n) /\ ResumeAt(r) = Lower(b, i)
      BY <2>9 DEF Boundary, ResumeAt
    <3>2. Lower(b, i) # NoId => Lower(b, i).t = id.t /\ Lower(b, i).v <= id.v
      BY <2>4, <2>5, <2>7, <2>8 DEF Lower, InPiece
    <3>3. Upper(b, i, n) # NoId => Upper(b, i, n).t = id.t /\ id.v < Upper(b, i, n).v
      BY <2>4, <2>5, <2>7, <2>8 DEF Upper, InPiece
    <3> QED BY <3>1, <3>2, <3>3 DEF Within
  <2>11. Within(Boundaries(cut[i])[id.t], id)
    BY <2>4, <2>6, <2>9, <2>10
  <2> QED BY <1>3, <2>1, <2>4, <2>6, <2>11
<1> QED BY <1>2, <1>3

LEMMA FreshReadsAll ==
  ASSUME docs \in Sources, NEW mode \in {"sequential", "parallel"}, NEW n,
         mode = "parallel" => n \in Counts /\ Possible("parallel", n), NEW types, NEW id \in docs
  PROVE  id \in ReadBy(Fresh(mode, n, types).filters)
<1>1. PICK cut : cut = IF mode = "sequential" THEN <<Everything>> ELSE Cut(n)
  OBVIOUS
<1>2. Fresh(mode, n, types).filters = cut
  BY <1>1 DEF Fresh
<1>3. CASE mode = "sequential"
  <2>1. 1 \in DOMAIN cut /\ cut[1] = Everything
    BY <1>1, <1>3
  <2>2. Matches(id, cut[1])
    BY <2>1, EverythingHasNoBounds
  <2> QED BY <1>2, <2>1, <2>2, OneFilterReads
<1>4. CASE mode = "parallel"
  <2>1. PICK i \in DOMAIN Cut(n) : Matches(id, Cut(n)[i])
    BY <1>4, CutHolds
  <2>2. cut = Cut(n)
    BY <1>1, <1>4
  <2> QED BY <1>2, <2>1, <2>2, OneFilterReads
<1> QED BY <1>3, <1>4

(* A resampled plan starts where the historical files go on.               *)
LEMMA SequentialResampleReadsTheRest ==
  ASSUME NEW gmin, gmin = PlannedMin(files), TypedMin(gmin), DOMAIN gmin \subseteq IdTypes,
         NEW id \in docs, id \in Ids, id.t \in DOMAIN gmin, NotAbove(gmin, id)
  PROVE  id \in ReadBy(SequentialResample.filters)
<1>1. PICK cp : cp = MinCheckpoint(gmin)
  OBVIOUS
<1>2. SequentialResample.filters = <<FilterOf(cp)>>
  BY <1>1 DEF SequentialResample
<1>3. /\ cp.prog = [t \in DOMAIN gmin |-> Boundary(NoId, NoId, gmin[t])]
      /\ cp = [total |-> cp.total, prog |-> cp.prog]
  BY <1>1 DEF MinCheckpoint
<1>4. TypedCp(cp)
  <2>1. \A t \in DOMAIN cp.prog : cp.prog[t] \in [lo : Bounds, hi : Bounds, saved : Bounds]
    BY <1>3 DEF TypedMin, Boundary, Bounds
  <2> QED BY <1>3, <2>1 DEF TypedCp
<1>5. PICK r : r = cp.prog[id.t] /\ r = Boundary(NoId, NoId, gmin[id.t])
  BY <1>3
<1>6. r.lo = NoId /\ r.hi = NoId /\ r.saved = gmin[id.t]
  BY <1>5 DEF Boundary
<1>7. ~Completed(r) /\ Within(r, id)
  BY <1>6 DEF Completed, Within, ResumeAt, NotAbove
<1>8. id.t \in DOMAIN cp.prog
  BY <1>3
<1>9. Matches(id, FilterOf(cp))
  BY <1>4, <1>5, <1>7, <1>8, FilterSelects
<1>10. 1 \in DOMAIN <<FilterOf(cp)>> /\ <<FilterOf(cp)>>[1] = FilterOf(cp)
  OBVIOUS
<1> QED BY <1>2, <1>9, <1>10, OneFilterReads

LEMMA ClampKeepsTheRest ==
  ASSUME NEW filter, NEW gmin, TypedMin(gmin), TypedRanges(RangesOf(filter, gmin)), NEW id \in Ids,
         NEW r, r = RangesOf(filter, gmin), id.t \in DOMAIN r, Within(r[id.t], id),
         id.t \in DOMAIN gmin, NotAbove(gmin, id)
  PROVE  Matches(id, ClampPartition(filter, gmin))
<1>1. PICK min : min = gmin[id.t] /\ min = MinOf(gmin, id.t) /\ min \in Bounds
  BY DEF MinOf, TypedMin
<1>2. min = NoId \/ (min.t = id.t /\ min.v <= id.v /\ min.v \in Int)
  BY <1>1, NoIdIsNone DEF NotAbove
<1>3. PICK q \in [lo : Bounds, hi : Bounds, saved : {NoId}] : q = r[id.t]
  BY DEF TypedRanges
<1>4. /\ q.lo # NoId => q.lo.t = id.t /\ q.lo.v <= id.v /\ q.lo.v \in Int
      /\ q.hi # NoId => q.hi.t = id.t /\ id.v < q.hi.v /\ q.hi.v \in Int
      /\ q.saved = NoId
  BY <1>3, NoIdIsNone DEF Within, ResumeAt
<1>5. ~BelowMin(id.t, q, min)
  BY <1>2, <1>4, NoIdIsNone DEF BelowMin
<1>6. PICK k : k = Clamped(id.t, q, min)
  OBVIOUS
<1>7. k.saved = NoId /\ k.hi = q.hi /\ k.lo \in {q.lo, min}
  BY <1>4, <1>6 DEF Clamped, Boundary
<1>8. ~Completed(k) /\ Within(k, id)
  BY <1>2, <1>4, <1>7 DEF Completed, Within, ResumeAt
<1>9. PICK cp : cp = ClampedCp(filter, gmin)
  OBVIOUS
<1>10. id.t \in DOMAIN cp.prog /\ cp.prog[id.t] = k
  BY <1>1, <1>3, <1>5, <1>6, <1>9 DEF ClampedCp
<1>11. TypedCp(cp)
  BY <1>9, ClampedIsTyped
<1>12. Matches(id, FilterOf(cp))
  BY <1>8, <1>10, <1>11, FilterSelects
<1> QED BY <1>9, <1>12, ClampIsFilterOf

LEMMA ParallelResampleReadsTheRest ==
  ASSUME docs \in Sources, NEW n \in Counts, Possible("parallel", n),
         NEW gmin, gmin = PlannedMin(files), TypedMin(gmin), DOMAIN gmin \subseteq IdTypes,
         n = 1 => \A t \in PresentTypes : MinOf(gmin, t) # NoId,
         NEW id \in docs, id \in Ids, id.t \in DOMAIN gmin, NotAbove(gmin, id)
  PROVE  id \in ReadBy(ParallelResample(n).filters)
<1>1. n <= Cardinality(docs) /\ Cardinality(PresentTypes) = 1 /\ docs # {}
  BY DEF Possible
<1>2. PICK i \in DOMAIN Cut(n) :
        /\ n = 1 => Cut(n) = <<Everything>>
        /\ n # 1 => /\ DOMAIN Boundaries(Cut(n)[i]) = {id.t}
                    /\ Within(Boundaries(Cut(n)[i])[id.t], id)
  BY CutHolds
<1>3. PICK raw, filter : raw = Cut(n) /\ filter = raw[i]
  OBVIOUS
<1>4. PICK clamped : /\ clamped = [k \in DOMAIN raw |-> ClampPartition(raw[k], gmin)]
                     /\ ParallelResample(n).filters = clamped
  BY <1>3 DEF ParallelResample, ClampPartitions
<1>5. /\ TypedRanges(RangesOf(filter, gmin))
      /\ DOMAIN Boundaries(filter) # {} => RangesOf(filter, gmin) = Boundaries(filter)
  BY <1>1, <1>2, <1>3, CutPieces
<1>6. PICK r : r = RangesOf(filter, gmin)
  OBVIOUS
<1>7. id.t \in DOMAIN r /\ Within(r[id.t], id)
  <2>1. CASE n = 1
    <3>1. filter = Everything
      BY <1>2, <1>3, <2>1
    <3>2. Boundaries(Everything) = <<>>
      <4>1. PICK f : f = Boundaries(Everything) /\ f = [x \in DOMAIN f |-> f[x]] /\ DOMAIN f = {}
        BY EverythingHasNoBounds DEF Boundaries
      <4>2. f \in [1..0 -> Int]
        BY <4>1
      <4>3. f \in Seq(Int) /\ Len(f) = 0
        BY <4>2
      <4> QED BY <4>1, <4>3, EmptySeq
    <3>3. r = [t \in {u \in DOMAIN gmin : gmin[u] # NoId} |-> Boundary(gmin[t], NoId, NoId)]
      BY <1>6, <3>1, <3>2 DEF RangesOf
    <3>4. gmin[id.t] # NoId
      BY <2>1 DEF PresentTypes, MinOf
    <3>5. id.t \in DOMAIN r /\ r[id.t] = Boundary(gmin[id.t], NoId, NoId)
      BY <3>3, <3>4
    <3>6. PICK q : q = r[id.t] /\ q.lo = gmin[id.t] /\ q.hi = NoId /\ q.saved = NoId
      BY <3>5 DEF Boundary
    <3>7. Within(q, id)
      BY <3>4, <3>6 DEF Within, ResumeAt, NotAbove
    <3> QED BY <3>5, <3>6, <3>7
  <2>2. CASE n # 1
    <3>1. DOMAIN Boundaries(filter) = {id.t} /\ Within(Boundaries(filter)[id.t], id)
      BY <1>2, <1>3, <2>2
    <3>2. r = Boundaries(filter)
      BY <1>5, <1>6, <3>1
    <3> QED BY <3>1, <3>2
  <2> QED BY <2>1, <2>2
<1>8. Matches(id, ClampPartition(filter, gmin))
  BY <1>5, <1>6, <1>7, ClampKeepsTheRest
<1>9. i \in DOMAIN clamped /\ clamped[i] = ClampPartition(filter, gmin)
  BY <1>2, <1>3, <1>4
<1> QED BY <1>4, <1>8, <1>9, OneFilterReads

(* Whatever files there are, every possible plan reads what is not         *)
(* accounted for.                                                          *)
LEMMA PlanReadsTheRest ==
  ASSUME BoundsInv, docs \in Sources, NEW A, SoundFiles(A), KnowsEveryType,
         NEW mode \in {"sequential", "parallel"}, NEW n \in Counts \cup {1},
         mode = "sequential" => n = 1, mode = "parallel" => n \in Counts /\ Possible("parallel", n),
         ~ForgetsAType(mode, n), NEW types, NEW id \in docs, id \notin A
  PROVE  id \in ReadBy(Plan(mode, n, types).filters)
<1>1. CASE EffectiveMode(mode, n) = "direct"
  <2>1. PlanMode(files, n) = "direct"
    BY <1>1 DEF EffectiveMode
  <2>2. IsValidSet(files, n)
    BY <2>1 DEF PlanMode
  <2> QED BY <1>1, <2>2, DirectReadsTheRest DEF Plan
<1>2. CASE EffectiveMode(mode, n) = "fresh"
  BY <1>2, FreshReadsAll DEF Plan
<1>3. CASE EffectiveMode(mode, n) = "resample"
  <2>1. HistoricalSizes(files) # {} /\ DOMAIN files = Slots
    BY <1>3 DEF EffectiveMode, PlanMode, SoundFiles
  <2>2. PICK m \in Counts \cup {1} : IsValidSet(files, m) /\ PlannedMin(files) = GlobalMin(files, m)
    BY <2>1, HistoricalSet
  <2>3. PICK gmin : gmin = PlannedMin(files) /\ gmin = GlobalMin(files, m)
    BY <2>2
  <2>4. id.t \in DOMAIN GlobalMin(files, m) /\ NotAbove(GlobalMin(files, m), id)
    BY <2>2, UnsettledIsHeld
  <2>5. TypedMin(PlannedMin(files)) /\ DOMAIN PlannedMin(files) \subseteq IdTypes
    BY <2>1, MinimaAreTyped DEF PlannedMin
  <2>6. id \in Ids
    BY SourcesAreIds
  <2>7. TypedMin(gmin) /\ DOMAIN gmin \subseteq IdTypes /\ id.t \in DOMAIN gmin /\ NotAbove(gmin, id)
    BY <2>3, <2>4, <2>5
  <2>8. CASE mode = "sequential"
    <3>1. Plan(mode, n, types) = SequentialResample
      BY <1>3, <2>8 DEF Plan
    <3> QED BY <2>3, <2>6, <2>7, <3>1, SequentialResampleReadsTheRest
  <2>9. CASE mode = "parallel"
    <3>1. Plan(mode, n, types) = ParallelResample(n)
      BY <1>3, <2>9 DEF Plan
    <3>2. n = 1 => \A t \in PresentTypes : MinOf(gmin, t) # NoId
      BY <1>3, <2>3, <2>9 DEF ForgetsAType
    <3>3. n \in Counts /\ Possible("parallel", n)
      BY <2>9
    <3> QED BY <2>3, <2>6, <2>7, <3>1, <3>2, <3>3, ParallelResampleReadsTheRest
  <2> QED BY <2>8, <2>9
<1>4. EffectiveMode(mode, n) \in {"direct", "fresh", "resample"}
  BY DEF EffectiveMode, PlanMode
<1> QED BY <1>1, <1>2, <1>3, <1>4

(* Whenever the process dies, the files it leaves are such that any next     *)
(* attempt (DetermineBackfillResumptionPlan), with as many partitions as it  *)
(* likes, reads all that is neither written nor in the dead letter queue,    *)
(* but for what an earlier plan left out or an earlier race lost.            *)
THEOREM TheNextAttemptReadsTheRest == Spec => []EveryPlanReadsTheRest
<1>1. ASSUME BackfillInv, CopyInv, BoundsInv, KnowsEveryType, NEW m \in Modes,
             Possible(m[1], m[2]), ~ForgetsAType(m[1], m[2]), NEW id \in Unsettled,
             id \notin skipped \cup overlooked
      PROVE  id \in WouldRead(m[1], m[2])
  <2>1. PICK A : A = Accounted
    OBVIOUS
  <2>2. docs \in Sources /\ SoundFiles(A) /\ id \in docs /\ id \notin A
    BY <1>1, <2>1 DEF BackfillInv, AttemptTypes, CopyInv, Accounted, Unsettled
  <2>3. PICK mode, n : /\ mode = m[1] /\ n = m[2] /\ mode \in {"sequential", "parallel"}
                       /\ n \in Counts \cup {1} /\ (mode = "sequential" => n = 1)
                       /\ (mode = "parallel" => n \in Counts)
    BY <1>1 DEF Modes
  <2>4. Possible(mode, n) /\ ~ForgetsAType(mode, n) /\ (mode = "parallel" => Possible("parallel", n))
    BY <1>1, <2>3
  <2>5. id \in ReadBy(Plan(mode, n, PresentTypes).filters)
    BY <1>1, <2>2, <2>3, <2>4, PlanReadsTheRest
  <2> QED BY <2>3, <2>5 DEF WouldRead
<1>2. BackfillInv /\ CopyInv /\ BoundsInv => EveryPlanReadsTheRest
  BY <1>1 DEF EveryPlanReadsTheRest
<1> QED BY <1>2, BackfillInvAlways, CopyInvAlways, BoundsInvAlways, PTL
=============================================================================
