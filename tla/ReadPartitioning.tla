-------------------------- MODULE ReadPartitioning --------------------------
(***************************************************************************)
(* How a collection is cut into read partitions (parallel_read.go,         *)
(* pkg/partition) and how a partition is paged through (the keyset helpers *)
(* of migrator.go).  Pure operators; PartitionReader and Backfill use them.*)
(*                                                                         *)
(* An _id is a record of its BSON type and its rank among the values of    *)
(* that type.  A query filter is the set of its $or clauses: {AnyId} is    *)
(* the empty filter of Go, and the empty set is {_id: {$exists: false}}.   *)
(* MongoDB compares values of one type only, so a bound of another type    *)
(* matches nothing: a clause keeps the type of its bounds.                 *)
(***************************************************************************)
EXTENDS Integers, Sequences, FiniteSets

CONSTANTS
    QuantileThreshold, \* documents of a type from which it is sampled (2000 in the code)
    Radix              \* of the prefixes that cut strings (16 in the code)

ASSUME QuantileAssumption == QuantileThreshold \in Nat
ASSUME RadixAssumption == Radix \in Nat \ {0, 1}

NoId == [t |-> "none", v |-> 0]
NoMod == <<0, 0>>

\* BSON order of the types of _id a Firestore source can hold.
TypeOrder == <<"number", "string", "objectId">>
IdTypes == {TypeOrder[i] : i \in DOMAIN TypeOrder}
TypeRank(t) == CHOOSE i \in DOMAIN TypeOrder : TypeOrder[i] = t
IdLess(a, b) == TypeRank(a.t) < TypeRank(b.t) \/ (a.t = b.t /\ a.v < b.v)
MaxId(ids) == CHOOSE m \in ids : \A i \in ids : ~IdLess(m, i)
MinId(ids) == CHOOSE m \in ids : \A i \in ids : ~IdLess(i, m)
Sorted(ids) ==
    [i \in 1..Cardinality(ids) |->
        CHOOSE x \in ids : Cardinality({y \in ids : IdLess(y, x)}) = i - 1]

(***************************************************************************)
(* Filters.                                                                *)
(***************************************************************************)
AnyId == [type |-> "any", lo |-> NoId, loStrict |-> FALSE,
          hi |-> NoId, hiIncl |-> FALSE, mod |-> NoMod]
Everything == {AnyId}
Nothing == {}

TypeClause(t) == [AnyId EXCEPT !.type = t]
Below(c, id) == [c EXCEPT !.hi = id]
From(c, id) == [c EXCEPT !.lo = id]

\* Go and MongoDB truncate the remainder towards zero.
TruncMod(v, n) == IF v >= 0 THEN v % n ELSE -((-v) % n)

Satisfies(id, c) ==
    /\ c.type \in {"any", id.t}
    /\ c.lo # NoId => /\ c.lo.t = id.t
                      /\ c.lo.v < id.v \/ (c.lo.v = id.v /\ ~c.loStrict)
    /\ c.hi # NoId => /\ c.hi.t = id.t
                      /\ id.v < c.hi.v \/ (c.hi.v = id.v /\ c.hiIncl)
    /\ c.mod # NoMod => /\ id.t = "number"
                        /\ TruncMod(id.v, c.mod[1]) = c.mod[2]

Matches(id, filter) == \E c \in filter : Satisfies(id, c)
Selected(ids, filter) == {id \in ids : Matches(id, filter)}

(***************************************************************************)
(* How many partitions.                                                    *)
(***************************************************************************)
AtLeast1(n) == IF n < 1 THEN 1 ELSE n
AtMost(n, cap) == IF n > cap THEN cap ELSE n

\* partition.CountByBytes: the fewest partitions that keep each under the
\* budget, never more than documents; a lower manual cap is overridden.
CountByBytes(total, avg, budget) ==
    LET docsPer == AtLeast1(budget \div (IF avg <= 0 THEN 1024 ELSE avg))
    IN IF total <= 0 THEN 1
       ELSE AtMost(AtLeast1((total + docsPer - 1) \div docsPer), total)

\* The clamp to half the sample that follows it in migrateCollectionParallel.
SampleClamp(count, sampleSize) ==
    IF sampleSize \div 2 >= 1 THEN AtMost(count, sampleSize \div 2) ELSE count

\* partition.Count, the heuristic used without a forced count.
CountByDocs(total, minDocs, maxParts) ==
    LET per == AtLeast1(minDocs)
    IN IF total < per THEN 1 ELSE AtLeast1(AtMost(total \div per, AtLeast1(maxParts)))

\* CalculatePartitionCount of the partitioner: a forced count, within [1, count].
PartitionCount(forced, count, minDocs, maxParts) ==
    IF forced > 0 THEN AtLeast1(AtMost(forced, count)) ELSE CountByDocs(count, minDocs, maxParts)

\* partitionConcurrency: how many partitions run at once.
PartitionConcurrency(pool, workers, parts) ==
    LET c == AtLeast1(AtMost((IF pool <= 0 THEN 256 ELSE pool) \div (AtLeast1(workers) + 1), 8))
    IN IF parts > 0 THEN AtMost(c, parts) ELSE c

(***************************************************************************)
(* Boundaries.                                                             *)
(***************************************************************************)
\* Mutant of Ranges: the upper boundary of a range is inclusive ($lte for $lt).
RangesClosed(c, bounds, n) ==
    [i \in 1..n |->
        LET low == IF i = 1 THEN c ELSE From(c, bounds[i - 1])
        IN {IF i = n THEN low ELSE [Below(low, bounds[i]) EXCEPT !.hiIncl = TRUE]}]
\* n consecutive half-open ranges of clause c with the inner boundaries
\* bounds[1..n-1], open at both ends.
Ranges(c, bounds, n) ==
    [i \in 1..n |->
        LET low == IF i = 1 THEN c ELSE From(c, bounds[i - 1])
        IN {IF i = n THEN low ELSE Below(low, bounds[i])}]

\* create{ObjectID,Numeric}PartitionsWithSampling: the first step of the
\* sample is skipped.
SampledRanges(sample, n) ==
    LET step == Len(sample) \div (n + 1)
    IN Ranges(AnyId, [i \in 1..(n - 1) |-> sample[(i + 1) * step + 1]], n)

\* The boundaries of create{ObjectID,Numeric}PartitionsWithMinMax: equal steps
\* from the least to the greatest _id (of a number, or of the seconds of an
\* ObjectID).  The count is the configured maximum, not the one asked for.
MinMaxRanges(c, t, least, greatest, n) ==
    LET bound(i) == [t |-> t, v |-> least + ((greatest - least) * i) \div n]
    IN IF n = 1 THEN <<{Below(c, [t |-> t, v |-> greatest + 1])}>>
       ELSE Ranges(c, [i \in 1..(n - 1) |-> bound(i)], n)

\* buildPartitionFilters and buildTypeScopedPartitionFilters.
\* Mutant: the boundaries of a quantile slice are taken one step too far.
QuantileRangesTooFar(c, sample, n) ==
    LET step == Len(sample) \div n
    IN IF n = 1 THEN <<{c}>>
       ELSE [i \in 1..n |->
               LET low == IF i = 1 THEN c ELSE From(c, sample[(i - 1) * step + 1])
               IN {IF i = n THEN low ELSE Below(low, sample[(i - 1) * step + 1])}]
QuantileRanges(c, sample, n) ==
    LET step == Len(sample) \div n
    IN IF n = 1 THEN <<{c}>>
       ELSE Ranges(c, [i \in 1..(n - 1) |-> sample[i * step + 1]], n)

\* createNumberUniformSlices: by remainder.
NumberSlices(n) ==
    [i \in 1..n |-> {[TypeClause("number") EXCEPT !.mod = <<n, i - 1>>]}]

\* The prefixes of two digits.
Prefixes == Radix * Radix

\* The rank among the strings of k as "%02x" prints it: padded to two digits, so
\* that numbers of two, of three and of four digits (the bound on k) compare as
\* text, a prefix below what it begins: "10" < "100" < "11" < "ff".
PrefixRank(k) ==
    CASE k < Prefixes -> 5 * (Prefixes * k) + 2
      [] k >= Prefixes /\ k < Radix * Prefixes -> 5 * (Radix * k) + 3
      [] OTHER -> 5 * k + 4

\* createStringUniformSlices: between prefixes of the _id, whatever the type of
\* the documents is.  More slices than there are prefixes of two digits get
\* boundaries out of order: some are empty, and some overlap the last.
StringSlices(t, n) ==
    LET step == AtLeast1(Prefixes \div n)
    IN Ranges(TypeClause(t),
              [i \in 1..(n - 1) |-> [t |-> "string", v |-> PrefixRank(i * step)]], n)

\* createObjectIdUniformSlices: between the least and the greatest _id of the
\* whole collection, an error when these are not two different ObjectIDs.
ObjectIdSlices(docs, n) ==
    LET least == MinId(docs)
        greatest == MaxId(docs)
    IN IF docs = {} \/ least.t # "objectId" \/ greatest.t # "objectId" \/ least = greatest
       THEN StringSlices("objectId", n)
       ELSE MinMaxRanges(TypeClause("objectId"), "objectId", least.v, greatest.v, n)

\* createUniformSlicesForType.
UniformSlices(t, docs, n) ==
    IF n <= 1 THEN <<{TypeClause(t)}>>
    ELSE CASE t = "number" -> NumberSlices(n)
           [] t = "objectId" -> ObjectIdSlices(docs, n)
           [] OTHER -> StringSlices(t, n)

OfType(ids, t) == {id \in ids : id.t = t}

\* createPartitionsGroupedByType: the slices of each type, by quantiles of a
\* large type and uniformly otherwise, merged by position (mergeTypeSlices).
GroupedByType(docs, sample, n) ==
    LET types == {t \in IdTypes : OfType(docs, t) # {}}
        own(t) == Sorted(OfType(sample, t))
        slices(t) == IF Cardinality(OfType(docs, t)) >= QuantileThreshold /\ Len(own(t)) >= n
                     THEN QuantileRanges(TypeClause(t), own(t), n)
                     ELSE UniformSlices(t, docs, n)
    IN IF types = {} THEN <<Everything>>
       ELSE [i \in 1..n |-> UNION {slices(t)[i] : t \in types}]

\* createPartitionsWithSampling, when the types cannot be discovered.
LegacySampled(sample, n) ==
    IF Cardinality(sample) < n THEN <<Everything>> ELSE QuantileRanges(AnyId, Sorted(sample), n)

\* RecommendIDPartitioning: the type of every sampled _id, or "mixed".
Recommend(sample) ==
    CASE sample = {} -> "mixed"
      [] sample # {} /\ \A id \in sample : id.t = "objectId" -> "objectid"
      [] sample # {} /\ \A id \in sample : id.t = "number" -> "numeric"
      [] OTHER -> "mixed"

(***************************************************************************)
(* The upper end of the last partition.                                    *)
(***************************************************************************)
\* findTrueMaxID: from the greatest _id of a sample (NoId when there is none),
\* whatever its type, walk up the documents above it that meet the lower bound.
TrueMaxId(docs, clause, seed) ==
    LET tail == {id \in docs : /\ Satisfies(id, clause)
                               /\ seed # NoId => id.t = seed.t /\ seed.v < id.v}
    IN IF tail = {} THEN seed ELSE MaxId(tail)

\* capFinalPartitionUpperBound: only a plain range without an upper bound.
CapFinalPartition(parts, docs, seed) ==
    LET n == Len(parts)
        c == CHOOSE x \in parts[n] : TRUE
        top == TrueMaxId(docs, c, seed)
    IN IF Cardinality(parts[n]) # 1 \/ c.type # "any" \/ c.lo = NoId \/ c.hi # NoId \/ top = NoId
       THEN parts
       ELSE [parts EXCEPT ![n] = {[c EXCEPT !.hi = top, !.hiIncl = TRUE]}]

\* create{ObjectID,Numeric}PartitionsWithMinMax: a least or greatest _id of
\* another type reads as the zero value.
MinMaxPartitions(t, docs, n) ==
    LET rank(id) == IF id.t = t THEN id.v ELSE 0
    IN MinMaxRanges(AnyId, t, rank(MinId(docs)), rank(MaxId(docs)), n)

\* The partitions of one type, by its sample or between its ends.
TypedPartitions(t, docs, sample, n, maxParts) ==
    LET own == Sorted(OfType(sample, t))
    IN IF Len(own) >= n + 1 THEN SampledRanges(own, n) ELSE MinMaxPartitions(t, docs, maxParts)

\* CollectionPartitioner.Partition of a collection that is not empty.  The
\* sample serves the recommendation and the boundaries, the seed the search for
\* the maximum; a failed discovery of the types falls back to legacy sampling.
Partition(docs, idType, sample, seed, n, maxParts, discovered) ==
    LET strategy == IF idType = "auto" THEN Recommend(sample) ELSE idType
        cut == CASE strategy = "objectid" -> TypedPartitions("objectId", docs, sample, n, maxParts)
                 [] strategy = "numeric" -> TypedPartitions("number", docs, sample, n, maxParts)
                 [] OTHER -> IF discovered THEN GroupedByType(docs, sample, n)
                             ELSE LegacySampled(sample, n)
    IN IF n = 1 THEN <<Everything>> ELSE CapFinalPartition(cut, docs, seed)

(***************************************************************************)
(* Paging through a partition.                                             *)
(***************************************************************************)
\* parseIDRangeBounds: is the filter one plain range of _id?
IsPlainRange(filter) ==
    /\ Cardinality(filter) = 1
    /\ \A c \in filter : c.type = "any" /\ c.mod = NoMod /\ (c.lo # NoId \/ c.hi # NoId)

\* mergeKeysetPageFilter and keysetAndPageFilter: what the filter selects
\* above the last _id read, which only values of its own type are.
PageAfter(filter, last) ==
    {[c EXCEPT !.lo = IF c.lo # NoId /\ last.v < c.lo.v THEN c.lo ELSE last,
               !.loStrict = IF c.lo # NoId /\ last.v < c.lo.v THEN c.loStrict ELSE TRUE]
        : c \in {x \in filter : x.lo = NoId \/ x.lo.t = last.t}}

\* The filter of the next page: a plain range is queried without its upper
\* bound, which the reader enforces itself.
PageFilter(filter, last) ==
    LET c == CHOOSE x \in filter : TRUE
    IN IF IsPlainRange(filter)
       THEN {IF last # NoId THEN [AnyId EXCEPT !.lo = last, !.loStrict = TRUE]
             ELSE [AnyId EXCEPT !.lo = c.lo, !.loStrict = c.loStrict]}
       ELSE IF last = NoId THEN filter ELSE PageAfter(filter, last)
=============================================================================
