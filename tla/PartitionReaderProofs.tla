------------------------ MODULE PartitionReaderProofs ------------------------
(***************************************************************************)
(* Proofs about PartitionReader, for every collection, sample, partition   *)
(* count, page size and number of retries and inserts: no document present *)
(* when the partitions were cut is handed to the workers twice (strings cut *)
(* into more slices than there are prefixes excepted), and a collection of *)
(* one type is read whole when the walk ends well.                         *)
(*                                                                         *)
(* The first part is about ReadPartitioning: whatever way a collection is  *)
(* cut, no two of its filters select the same document, up to 256 slices   *)
(* of strings (CutIsApart): a slice between prefixes selects strings only, *)
(* and prefixes of two digits are in order as they are printed.  The       *)
(* second follows the walk: what was emitted is of an earlier partition,   *)
(* or of this one and not above the last _id read (WalkInv).  The third    *)
(* returns to the cut of a collection of one type: each document is in a   *)
(* partition, or the first partition is for another type (CutFits).  The   *)
(* last is the converse of the second: of an earlier partition, or of this *)
(* one up to the last _id read, everything was emitted (WholeInv).         *)
(***************************************************************************)
EXTENDS PartitionReader, FiniteSetTheorems, FunctionTheorems, SequenceTheorems,
        WellFoundedInduction, TLAPS

(* The _ids of the types a source can hold.                                *)
AllIds == [t : IdTypes, v : Int]

LEMMA TypeRanks ==
  /\ IdTypes = {"number", "string", "objectId"}
  /\ TypeRank("number") = 1 /\ TypeRank("string") = 2 /\ TypeRank("objectId") = 3
<1>1. /\ DOMAIN TypeOrder = {1, 2, 3}
      /\ TypeOrder[1] = "number" /\ TypeOrder[2] = "string" /\ TypeOrder[3] = "objectId"
  BY DEF TypeOrder
<1>2. IdTypes = {"number", "string", "objectId"}
  BY <1>1 DEF IdTypes
<1> QED BY <1>1, <1>2 DEF TypeRank

LEMMA IdOrder ==
  ASSUME NEW a \in AllIds, NEW b \in AllIds, NEW c \in AllIds
  PROVE  /\ a # NoId /\ ~IdLess(a, a)
         /\ IdLess(a, b) /\ IdLess(b, c) => IdLess(a, c)
         /\ IdLess(a, b) \/ IdLess(b, a) \/ a = b
         /\ a.t = b.t => (IdLess(a, b) <=> a.v < b.v)
<1>1. /\ a.t \in IdTypes /\ b.t \in IdTypes /\ c.t \in IdTypes
      /\ a.v \in Int /\ b.v \in Int /\ c.v \in Int
  BY DEF AllIds
<1>2. a.t = b.t /\ a.v = b.v => a = b
  BY DEF AllIds
<1>3. /\ TypeRank(a.t) \in {1, 2, 3} /\ TypeRank(b.t) \in {1, 2, 3} /\ TypeRank(c.t) \in {1, 2, 3}
      /\ TypeRank(a.t) = TypeRank(b.t) => a.t = b.t
      /\ TypeRank(b.t) = TypeRank(c.t) => b.t = c.t
  BY <1>1, TypeRanks
<1>4. a # NoId
  BY <1>1, TypeRanks DEF NoId
<1> HIDE DEF AllIds
<1> QED BY <1>1, <1>2, <1>3, <1>4 DEF IdLess

LEMMA LeastNumber ==
  ASSUME NEW S \in SUBSET Nat, S # {}
  PROVE  \E m \in S : \A x \in S : m <= x
<1> DEFINE less == {p \in Nat \X Nat : p[1] < p[2]}
<1>1. IsWellFoundedOn(less, Nat)
  <2>1. OpToRel(<, Nat) = less
    BY DEF OpToRel
  <2> QED BY <2>1, NatLessThanWellFounded
<1>2. \E m \in S : \A x \in S : <<x, m>> \notin less
  BY <1>1, WFMin
<1>3. \A x, m \in Nat : <<x, m>> \in less \/ m <= x
  OBVIOUS
<1> HIDE DEF less
<1> QED BY <1>2, <1>3

(* The rank of an _id in a set: how many of the set are less.              *)
Rank(S, x) == Cardinality({y \in S : IdLess(y, x)})

LEMMA Ranks ==
  ASSUME NEW S \in SUBSET AllIds, IsFiniteSet(S)
  PROVE  /\ Cardinality(S) \in Nat
         /\ \A x \in S : Rank(S, x) \in Nat /\ Rank(S, x) < Cardinality(S)
         /\ \A x, y \in S : IdLess(x, y) => Rank(S, x) < Rank(S, y)
         /\ \A x, y \in S : Rank(S, x) = Rank(S, y) => x = y
<1>1. Cardinality(S) \in Nat
  BY FS_CardinalityType
<1>2. ASSUME NEW x \in AllIds
      PROVE  IsFiniteSet({y \in S : IdLess(y, x)}) /\ Rank(S, x) \in Nat
  <2>1. IsFiniteSet({y \in S : IdLess(y, x)})
    BY FS_Subset
  <2> QED BY <2>1, FS_CardinalityType DEF Rank
<1>3. ASSUME NEW x \in S PROVE Rank(S, x) < Cardinality(S)
  <2> DEFINE below == {y \in S : IdLess(y, x)}
  <2>1. below \subseteq S /\ below # S /\ IsFiniteSet(below)
    BY <1>2, IdOrder
  <2> HIDE DEF below
  <2>2. Cardinality(below) < Cardinality(S)
    BY <1>1, <2>1, FS_Subset, FS_CardinalityType
  <2> QED BY <2>2 DEF Rank, below
<1>4. ASSUME NEW x \in S, NEW y \in S, IdLess(x, y) PROVE Rank(S, x) < Rank(S, y)
  <2> DEFINE lower == {z \in S : IdLess(z, x)}
             upper == {z \in S : IdLess(z, y)}
  <2>1. lower \subseteq upper
    BY <1>4, IdOrder
  <2>2. x \in upper /\ x \notin lower
    BY <1>4, IdOrder
  <2>3. IsFiniteSet(upper) /\ IsFiniteSet(lower)
    BY <1>2
  <2> HIDE DEF lower, upper
  <2>4. Cardinality(lower) < Cardinality(upper)
    BY <2>1, <2>2, <2>3, FS_Subset, FS_CardinalityType
  <2> QED BY <2>4 DEF Rank, lower, upper
<1>5. ASSUME NEW x \in S, NEW y \in S, Rank(S, x) = Rank(S, y) PROVE x = y
  <2>1. Rank(S, x) \in Nat /\ Rank(S, y) \in Nat
    BY <1>2
  <2> QED BY <1>4, <1>5, <2>1, IdOrder
<1>6. \A x \in S : Rank(S, x) \in Nat /\ Rank(S, x) < Cardinality(S)
  BY <1>2, <1>3
<1> QED BY <1>1, <1>4, <1>5, <1>6

LEMMA LeastId ==
  ASSUME NEW S \in SUBSET AllIds, IsFiniteSet(S), S # {}
  PROVE  \E m \in S : Rank(S, m) = 0
<1> DEFINE ranks == {Rank(S, x) : x \in S}
<1>1. ranks \in SUBSET Nat /\ ranks # {}
  BY Ranks
<1>2. PICK m \in S : \A r \in ranks : Rank(S, m) <= r
  BY <1>1, LeastNumber
<1>3. \A x \in S : Rank(S, m) <= Rank(S, x)
  BY <1>2
<1>4. \A x \in S : Rank(S, x) \in Nat /\ (IdLess(x, m) => Rank(S, x) < Rank(S, m))
  BY Ranks
<1>5. {y \in S : IdLess(y, m)} = {}
  BY <1>3, <1>4
<1> QED BY <1>5, FS_EmptySet DEF Rank

LEMMA MaxIdIsGreatest ==
  ASSUME NEW S \in SUBSET AllIds, IsFiniteSet(S), S # {}
  PROVE  MaxId(S) \in S /\ \A x \in S : x = MaxId(S) \/ IdLess(x, MaxId(S))
<1> DEFINE n == Cardinality(S)
           depths == {n - Rank(S, x) : x \in S}
<1>1. n \in Nat /\ \A x \in S : Rank(S, x) \in Nat /\ Rank(S, x) < n
  BY Ranks
<1>2. \A x, y \in S : IdLess(x, y) => Rank(S, x) < Rank(S, y)
  BY Ranks
<1> HIDE DEF n
<1>3. depths \in SUBSET Nat /\ depths # {}
  BY <1>1
<1>4. PICK m \in S : \A r \in depths : n - Rank(S, m) <= r
  BY <1>3, LeastNumber
<1>5. \A x \in S : n - Rank(S, m) <= n - Rank(S, x)
  BY <1>4
<1>6. \A x \in S : ~IdLess(m, x)
  BY <1>1, <1>2, <1>5
<1>7. MaxId(S) \in S /\ \A x \in S : ~IdLess(MaxId(S), x)
  BY <1>6 DEF MaxId
<1> QED BY <1>7, IdOrder

LEMMA MinIdIsLeast ==
  ASSUME NEW S \in SUBSET AllIds, IsFiniteSet(S), S # {}
  PROVE  MinId(S) \in S /\ \A x \in S : x = MinId(S) \/ IdLess(MinId(S), x)
<1>1. PICK m \in S : Rank(S, m) = 0
  BY LeastId
<1>2. \A x \in S : Rank(S, x) \in Nat /\ (IdLess(x, m) => Rank(S, x) < Rank(S, m))
  BY Ranks
<1>3. \A x \in S : ~IdLess(x, m)
  BY <1>1, <1>2
<1>4. MinId(S) \in S /\ \A x \in S : ~IdLess(x, MinId(S))
  BY <1>3 DEF MinId
<1> QED BY <1>4, IdOrder

(* Sorted lists a set in its order.                                        *)
LEMMA RanksOfSorted ==
  ASSUME NEW S \in SUBSET AllIds, IsFiniteSet(S)
  PROVE  /\ Cardinality(S) \in Nat /\ Sorted(S) \in [1..Cardinality(S) -> S]
         /\ Len(Sorted(S)) = Cardinality(S)
         /\ \A i \in 1..Cardinality(S) : Rank(S, Sorted(S)[i]) = i - 1
<1> DEFINE N == Cardinality(S)
           rank == [x \in S |-> Rank(S, x)]
           at(i) == CHOOSE x \in S : Rank(S, x) = i - 1
<1>1. /\ N \in Nat
      /\ \A x \in S : Rank(S, x) \in Nat /\ Rank(S, x) < N
      /\ \A x, y \in S : IdLess(x, y) => Rank(S, x) < Rank(S, y)
      /\ \A x, y \in S : Rank(S, x) = Rank(S, y) => x = y
  BY Ranks
<1>2. Sorted(S) = [i \in 1..N |-> at(i)]
  BY DEF Sorted, Rank
<1> HIDE DEF N
<1>3. rank \in Injection(S, 0..(N - 1))
  <2>1. rank \in [S -> 0..(N - 1)]
    BY <1>1
  <2>2. \A x, y \in S : rank[x] = rank[y] => x = y
    BY <1>1
  <2> HIDE DEF rank
  <2> QED BY <2>1, <2>2 DEF Injection, IsInjective
<1>4. rank \in Surjection(S, 0..(N - 1))
  <2>1. IsFiniteSet(0..(N - 1)) /\ Cardinality(0..(N - 1)) = N
    BY <1>1, FS_Interval
  <2> HIDE DEF rank
  <2> QED BY <1>3, <2>1, FS_Injection DEF N
<1>5. \A i \in 0..(N - 1) : \E x \in S : Rank(S, x) = i
  BY <1>4 DEF Surjection
<1>6. \A i \in 1..N : at(i) \in S /\ Rank(S, at(i)) = i - 1
  <2>1. ASSUME NEW i \in 1..N PROVE at(i) \in S /\ Rank(S, at(i)) = i - 1
    <3>1. i - 1 \in 0..(N - 1)
      BY <1>1
    <3> QED BY <1>5, <3>1
  <2> QED BY <2>1
<1> HIDE DEF at
<1>7. Len(Sorted(S)) = N
  BY <1>1, <1>2
<1>8. Sorted(S) \in [1..N -> S]
  BY <1>2, <1>6
<1> QED BY <1>1, <1>2, <1>6, <1>7, <1>8 DEF N

LEMMA SortedIsInOrder ==
  ASSUME NEW S \in SUBSET AllIds, IsFiniteSet(S)
  PROVE  /\ Cardinality(S) \in Nat /\ Sorted(S) \in [1..Cardinality(S) -> S]
         /\ Len(Sorted(S)) = Cardinality(S)
         /\ \A i, j \in 1..Cardinality(S) : i < j => IdLess(Sorted(S)[i], Sorted(S)[j])
<1>1. PICK N, s : N = Cardinality(S) /\ s = Sorted(S)
  OBVIOUS
<1>2. N \in Nat /\ s \in [1..N -> S] /\ Len(s) = N /\ \A i \in 1..N : Rank(S, s[i]) = i - 1
  BY <1>1, RanksOfSorted
<1>3. /\ \A x \in S : Rank(S, x) \in Nat
      /\ \A x, y \in S : IdLess(x, y) => Rank(S, x) < Rank(S, y)
  BY Ranks
<1>4. ASSUME NEW i \in 1..N, NEW j \in 1..N, i < j PROVE IdLess(s[i], s[j])
  <2>1. PICK a, b : a = s[i] /\ b = s[j]
    OBVIOUS
  <2>2. a \in S /\ b \in S /\ Rank(S, a) = i - 1 /\ Rank(S, b) = j - 1
    BY <1>2, <2>1
  <2>3. ~(Rank(S, b) < Rank(S, a)) /\ Rank(S, a) # Rank(S, b)
    BY <1>2, <1>4, <2>2
  <2>4. IdLess(a, b)
    BY <1>3, <2>2, <2>3, IdOrder
  <2> QED BY <2>1, <2>4
<1> QED BY <1>1, <1>2, <1>4

(* Every member of a set has its place in the order.                       *)
LEMMA SortedIsWhole ==
  ASSUME NEW S \in SUBSET AllIds, IsFiniteSet(S), NEW x \in S
  PROVE  \E i \in 1..Cardinality(S) : Sorted(S)[i] = x
<1>1. PICK N, s : N = Cardinality(S) /\ s = Sorted(S)
  OBVIOUS
<1>2. N \in Nat /\ s \in [1..N -> S] /\ \A i \in 1..N : Rank(S, s[i]) = i - 1
  BY <1>1, RanksOfSorted
<1>3. /\ Rank(S, x) \in Nat /\ Rank(S, x) < N
      /\ \A y \in S : Rank(S, x) = Rank(S, y) => x = y
  BY <1>1, Ranks
<1>4. PICK i \in 1..N : i = Rank(S, x) + 1
  BY <1>2, <1>3
<1>5. s[i] \in S /\ Rank(S, s[i]) = Rank(S, x)
  BY <1>2, <1>3, <1>4
<1> QED BY <1>1, <1>3, <1>5

LEMMA Division ==
  ASSUME NEW a \in Int, NEW n \in Nat \ {0}
  PROVE  /\ a \div n \in Int /\ n * (a \div n) <= a /\ a < n * (a \div n) + n
         /\ a >= 0 => a \div n >= 0
         /\ a >= n => a \div n >= 1
OBVIOUS

LEMMA Products ==
  ASSUME NEW a \in Int, NEW b \in Int, NEW k \in Nat, a <= b
  PROVE  k * a \in Int /\ k * b \in Int /\ k * a <= k * b /\ a * k <= b * k /\ k * a = a * k
OBVIOUS

LEMMA DivisionIsMonotone ==
  ASSUME NEW a \in Int, NEW b \in Int, NEW n \in Nat \ {0}, a <= b
  PROVE  a \div n <= b \div n
<1> PICK x \in Int, y \in Int : x = a \div n /\ y = b \div n
  BY Division
<1>1. n * x <= a /\ b < n * y + n
  BY Division
<1>2. SUFFICES ASSUME y < x PROVE FALSE
  OBVIOUS
<1>3. n * (y + 1) <= n * x
  BY <1>2, Products
<1>4. n * (y + 1) = n * y + n
  OBVIOUS
<1> QED BY <1>1, <1>3, <1>4

-----------------------------------------------------------------------------
(***************************************************************************)
(* Cuts.                                                                   *)
(***************************************************************************)
Numbered(f) == Len(f) \in Nat /\ DOMAIN f = 1..Len(f)

ClauseFields == {"type", "lo", "loStrict", "hi", "hiIncl", "mod"}
Clause(c) ==
  /\ DOMAIN c = ClauseFields
  /\ c.lo \in AllIds \cup {NoId} /\ c.hi \in AllIds \cup {NoId}

(* A filter has one clause, or clauses of known types.                     *)
Filter(f) ==
  /\ \A c \in f : Clause(c)
  /\ (\E c : f = {c}) \/ (\A c \in f : c.type # "any")

(* No two of the first n filters of f select the same _id, but for one of E. *)
Apart(f, n, E) ==
  \A i, j \in 1..n :
    i < j => \A id \in AllIds : Matches(id, f[i]) /\ Matches(id, f[j]) => id \in E

(* The inner boundaries of n ranges, in the order of the _ids.             *)
Increasing(b, n) ==
  /\ \A i \in 1..(n - 1) : b[i] \in AllIds
  /\ \A i, j \in 1..(n - 1) : i <= j => ~IdLess(b[j], b[i])

(* The i-th of n half-open ranges between boundaries, open at both ends.   *)
Segment(c, i, n, b, type) ==
  /\ DOMAIN c = ClauseFields
  /\ c.type = type /\ c.mod = NoMod /\ ~c.loStrict /\ ~c.hiIncl
  /\ c.lo = (IF i = 1 THEN NoId ELSE b[i - 1]) /\ c.hi = (IF i = n THEN NoId ELSE b[i])

Segments(f, n, b, type) ==
  DOMAIN f = 1..n /\ \A i \in 1..n : \E c : f[i] = {c} /\ Segment(c, i, n, b, type)

(* A clause without bounds.                                                *)
Open(c) ==
  /\ DOMAIN c = ClauseFields /\ c.mod = NoMod /\ ~c.loStrict /\ ~c.hiIncl
  /\ c.lo = NoId /\ c.hi = NoId

LEMMA OpenClauses ==
  /\ Open(AnyId) /\ AnyId.type = "any" /\ NoId \notin AllIds
  /\ \A t : Open(TypeClause(t)) /\ TypeClause(t).type = t
<1>1. NoId \notin AllIds
  BY TypeRanks DEF NoId, AllIds
<1> QED BY <1>1 DEF Open, AnyId, TypeClause, ClauseFields

LEMMA RangesAreSegments ==
  ASSUME NEW base, Open(base), NEW b, NEW n \in Nat \ {0}
  PROVE  Segments(Ranges(base, b, n), n, b, base.type)
<1> DEFINE low(i) == IF i = 1 THEN base ELSE From(base, b[i - 1])
           clause(i) == IF i = n THEN low(i) ELSE Below(low(i), b[i])
           type == base.type
<1>1. Ranges(base, b, n) = [i \in 1..n |-> {clause(i)}]
  BY DEF Ranges
<1>2. /\ DOMAIN base = ClauseFields /\ base.type = type /\ base.mod = NoMod
      /\ ~base.loStrict /\ ~base.hiIncl /\ base.lo = NoId /\ base.hi = NoId
  BY DEF Open
<1> HIDE DEF type
<1>3. ASSUME NEW i \in 1..n PROVE Segment(clause(i), i, n, b, type)
  <2>1. PICK l : l = low(i)
    OBVIOUS
  <2>2. /\ DOMAIN l = ClauseFields /\ l.type = type /\ l.mod = NoMod
        /\ ~l.loStrict /\ ~l.hiIncl
        /\ l.lo = (IF i = 1 THEN NoId ELSE b[i - 1]) /\ l.hi = NoId
    BY <1>2, <2>1 DEF From, ClauseFields
  <2>3. CASE i = n
    BY <2>1, <2>2, <2>3 DEF Segment
  <2>4. CASE i # n
    <3>1. PICK c : c = Below(l, b[i])
      OBVIOUS
    <3>2. /\ DOMAIN c = ClauseFields /\ c.type = type /\ c.mod = NoMod
          /\ ~c.loStrict /\ ~c.hiIncl /\ c.lo = l.lo /\ c.hi = b[i]
      BY <2>2, <3>1 DEF Below, ClauseFields
    <3> QED BY <2>1, <2>2, <2>4, <3>1, <3>2 DEF Segment
  <2> QED BY <2>3, <2>4
<1>4. \A i \in 1..n : Ranges(base, b, n)[i] = {clause(i)}
  BY <1>1
<1>5. DOMAIN Ranges(base, b, n) = 1..n
  BY <1>1
<1> QED BY <1>3, <1>4, <1>5 DEF Segments, type

(* n filters of one clause each.                                           *)
SingleClauses(f, n, type) ==
  DOMAIN f = 1..n /\ \A i \in 1..n : \E c : f[i] = {c} /\ Clause(c) /\ c.type = type

LEMMA SegmentsAreClauses ==
  ASSUME NEW f, NEW n \in Nat \ {0}, NEW b, NEW type, Increasing(b, n), Segments(f, n, b, type)
  PROVE  SingleClauses(f, n, type)
<1>1. ASSUME NEW i \in 1..n PROVE \E c : f[i] = {c} /\ Clause(c) /\ c.type = type
  <2>1. PICK c : f[i] = {c} /\ Segment(c, i, n, b, type)
    BY DEF Segments
  <2>2. i # 1 => b[i - 1] \in AllIds
    BY DEF Increasing
  <2>3. i # n => b[i] \in AllIds
    BY DEF Increasing
  <2>4. Clause(c) /\ c.type = type
    BY <2>1, <2>2, <2>3 DEF Segment, Clause
  <2> QED BY <2>1, <2>4
<1> QED BY <1>1 DEF SingleClauses, Segments

(* Half-open ranges between boundaries in order are disjoint.              *)
LEMMA SegmentsAreApart ==
  ASSUME NEW f, NEW n \in Nat \ {0}, NEW b, NEW type, Increasing(b, n), Segments(f, n, b, type)
  PROVE  Apart(f, n, {})
<1> SUFFICES ASSUME NEW i \in 1..n, NEW j \in 1..n, i < j, NEW id \in AllIds,
                    Matches(id, f[i]), Matches(id, f[j])
             PROVE  FALSE
  BY DEF Apart
<1>1. PICK c : f[i] = {c} /\ Segment(c, i, n, b, type)
  BY DEF Segments
<1>2. PICK d : f[j] = {d} /\ Segment(d, j, n, b, type)
  BY DEF Segments
<1>3. Satisfies(id, c) /\ Satisfies(id, d)
  BY <1>1, <1>2 DEF Matches
<1>4. PICK hi : hi = b[i]
  OBVIOUS
<1>5. PICK k \in 1..(n - 1) : k = j - 1 /\ i <= k
  OBVIOUS
<1>6. PICK lo : lo = b[k]
  OBVIOUS
<1>7. /\ hi \in AllIds /\ lo \in AllIds /\ ~IdLess(lo, hi)
  BY <1>4, <1>5, <1>6 DEF Increasing
<1>8. c.hi = hi /\ ~c.hiIncl /\ d.lo = lo
  BY <1>1, <1>2, <1>4, <1>5, <1>6 DEF Segment
<1>9. hi # NoId /\ lo # NoId
  BY <1>7, OpenClauses
<1>10. hi.t = id.t /\ id.v < hi.v /\ lo.t = id.t /\ (lo.v < id.v \/ lo.v = id.v)
  BY <1>3, <1>8, <1>9 DEF Satisfies
<1>11. id.v \in Int /\ lo.v \in Int /\ hi.v \in Int
  BY <1>7 DEF AllIds
<1>12. lo.v < hi.v
  BY <1>10, <1>11
<1> QED BY <1>7, <1>10, <1>12, IdOrder

(* Boundaries taken from a sorted sample at increasing places.             *)
LEMMA SampleIsIncreasing ==
  ASSUME NEW S \in SUBSET AllIds, IsFiniteSet(S), NEW n \in Nat \ {0}, NEW at,
         \A i \in 1..(n - 1) : at[i] \in 1..Cardinality(S),
         \A i, j \in 1..(n - 1) : i <= j => at[i] <= at[j]
  PROVE  Increasing([i \in 1..(n - 1) |-> Sorted(S)[at[i]]], n)
<1> DEFINE s == Sorted(S)
           N == Cardinality(S)
<1>1. /\ N \in Nat /\ s \in [1..N -> S]
      /\ \A i, j \in 1..N : i < j => IdLess(s[i], s[j])
  BY SortedIsInOrder
<1> HIDE DEF s, N
<1>2. \A i \in 1..N : s[i] \in AllIds
  BY <1>1
<1>3. ASSUME NEW i \in 1..N, NEW j \in 1..N, i <= j PROVE ~IdLess(s[j], s[i])
  <2>1. i = j \/ i < j
    BY <1>1, <1>3
  <2>2. i < j => IdLess(s[i], s[j])
    BY <1>1
  <2> QED BY <1>2, <2>1, <2>2, IdOrder
<1>4. \A i \in 1..(n - 1) : at[i] \in 1..N
  BY DEF N
<1> QED BY <1>2, <1>3, <1>4 DEF Increasing, s

LEMMA SampledIsIncreasing ==
  ASSUME NEW S \in SUBSET AllIds, IsFiniteSet(S), NEW n \in Nat \ {0},
         NEW N, N = Cardinality(S), n + 1 <= N
  PROVE  Increasing([i \in 1..(n - 1) |-> Sorted(S)[(i + 1) * (N \div (n + 1)) + 1]], n)
<1>1. N \in Nat
  BY FS_CardinalityType
<1>2. PICK step \in Int : step = N \div (n + 1) /\ step >= 1 /\ (n + 1) * step <= N
  <2>1. PICK k \in Nat \ {0} : k = n + 1 /\ N >= k
    BY <1>1
  <2>2. N \div k \in Int /\ k * (N \div k) <= N /\ N \div k >= 1
    BY <1>1, <2>1, Division
  <2> QED BY <2>1, <2>2
<1>3. step \in Nat
  BY <1>2
<1> DEFINE at == [i \in 1..(n - 1) |-> (i + 1) * step + 1]
<1>4. ASSUME NEW i \in 1..(n - 1) PROVE at[i] \in 1..N
  <2>1. (i + 1) * step \in Int /\ 0 <= (i + 1) * step /\ (i + 1) * step <= n * step
    <3>1. 0 * step <= (i + 1) * step /\ (i + 1) * step \in Int
      BY <1>3, Products
    <3>2. (i + 1) * step <= n * step
      BY <1>3, Products
    <3> QED BY <3>1, <3>2
  <2>2. n * step + step = (n + 1) * step /\ n * step \in Int
    BY <1>3
  <2> QED BY <1>1, <1>2, <2>1, <2>2
<1>5. \A i, j \in 1..(n - 1) : i <= j => at[i] <= at[j]
  <2>1. ASSUME NEW i \in 1..(n - 1), NEW j \in 1..(n - 1), i <= j PROVE at[i] <= at[j]
    <3>1. (i + 1) * step \in Int /\ (j + 1) * step \in Int /\ (i + 1) * step <= (j + 1) * step
      BY <1>3, <2>1, Products
    <3> QED BY <3>1
  <2> QED BY <2>1
<1>6. Increasing([i \in 1..(n - 1) |-> Sorted(S)[at[i]]], n)
  <2> HIDE DEF at
  <2> QED BY <1>4, <1>5, SampleIsIncreasing
<1> QED BY <1>2, <1>6

LEMMA QuantilesAreIncreasing ==
  ASSUME NEW S \in SUBSET AllIds, IsFiniteSet(S), NEW n \in Nat \ {0},
         NEW N, N = Cardinality(S), n <= N
  PROVE  Increasing([i \in 1..(n - 1) |-> Sorted(S)[i * (N \div n) + 1]], n)
<1>1. N \in Nat
  BY FS_CardinalityType
<1>2. PICK step \in Int : step = N \div n /\ step >= 1 /\ n * step <= N
  <2>1. N \div n \in Int /\ n * (N \div n) <= N /\ (N >= n => N \div n >= 1)
    BY <1>1, Division
  <2>2. N >= n
    BY <1>1
  <2> QED BY <2>1, <2>2
<1>3. step \in Nat
  BY <1>2
<1> DEFINE at == [i \in 1..(n - 1) |-> i * step + 1]
<1>4. ASSUME NEW i \in 1..(n - 1) PROVE at[i] \in 1..N
  <2>1. i * step \in Int /\ 0 <= i * step /\ (i + 1) * step <= n * step
    <3>1. 0 * step <= i * step /\ i * step \in Int
      BY <1>3, Products
    <3>2. (i + 1) * step <= n * step
      BY <1>3, Products
    <3> QED BY <3>1, <3>2
  <2>2. i * step + step = (i + 1) * step /\ n * step \in Int
    BY <1>3
  <2> QED BY <1>1, <1>2, <2>1, <2>2
<1>5. \A i, j \in 1..(n - 1) : i <= j => at[i] <= at[j]
  <2>1. ASSUME NEW i \in 1..(n - 1), NEW j \in 1..(n - 1), i <= j PROVE at[i] <= at[j]
    <3>1. i * step \in Int /\ j * step \in Int /\ i * step <= j * step
      BY <1>3, <2>1, Products
    <3> QED BY <3>1
  <2> QED BY <2>1
<1>6. Increasing([i \in 1..(n - 1) |-> Sorted(S)[at[i]]], n)
  <2> HIDE DEF at
  <2> QED BY <1>4, <1>5, SampleIsIncreasing
<1> QED BY <1>2, <1>6

LEMMA OneTypeIsIncreasing ==
  ASSUME NEW n, NEW b, NEW t,
         \A i \in 1..(n - 1) : b[i] \in AllIds /\ b[i].t = t,
         \A i, j \in 1..(n - 1) : i <= j => b[i].v <= b[j].v
  PROVE  Increasing(b, n)
<1> SUFFICES ASSUME NEW i \in 1..(n - 1), NEW j \in 1..(n - 1), i <= j PROVE ~IdLess(b[j], b[i])
  BY DEF Increasing
<1>1. b[i].v \in Int /\ b[j].v \in Int /\ b[i].v <= b[j].v
  BY DEF AllIds
<1>2. IdLess(b[j], b[i]) => b[j].v < b[i].v
  BY IdOrder
<1> QED BY <1>1, <1>2

LEMMA StepsAreIncreasing ==
  ASSUME NEW t \in IdTypes, NEW least \in Int, NEW greatest \in Int, least <= greatest,
         NEW n \in Nat \ {0}
  PROVE  Increasing([i \in 1..(n - 1) |-> [t |-> t, v |-> least + ((greatest - least) * i) \div n]], n)
<1> DEFINE b == [i \in 1..(n - 1) |-> [t |-> t, v |-> least + ((greatest - least) * i) \div n]]
<1>1. PICK span \in Nat : span = greatest - least
  OBVIOUS
<1>2. ASSUME NEW i \in 1..(n - 1) PROVE b[i] \in AllIds /\ b[i].t = t
  <2>1. span * i \in Int
    BY Products
  <2>2. (span * i) \div n \in Int
    BY <2>1, Division
  <2> QED BY <1>1, <2>2 DEF AllIds
<1>3. ASSUME NEW i \in 1..(n - 1), NEW j \in 1..(n - 1), i <= j PROVE b[i].v <= b[j].v
  <2>1. span * i \in Int /\ span * j \in Int /\ span * i <= span * j
    BY <1>3, Products
  <2>2. (span * i) \div n \in Int /\ (span * j) \div n \in Int
    BY <2>1, Division
  <2>3. (span * i) \div n <= (span * j) \div n
    BY <2>1, DivisionIsMonotone
  <2>4. b[i].v = least + (span * i) \div n /\ b[j].v = least + (span * j) \div n
    BY <1>1
  <2> HIDE DEF b
  <2> QED BY <2>2, <2>3, <2>4
<1> HIDE DEF b
<1>4. Increasing(b, n)
  BY <1>2, <1>3, OneTypeIsIncreasing
<1> QED BY <1>4 DEF b

(* The boundaries of StringSlices: of strings, and in order where two      *)
(* digits are enough.                                                      *)
PrefixBounds(n) ==
  [i \in 1..(n - 1) |-> [t |-> "string", v |-> PrefixRank(i * AtLeast1(Prefixes \div n))]]

LEMMA PrefixNumber == Prefixes \in Nat /\ Prefixes >= Radix /\ Prefixes \in Int
<1>1. Radix \in Nat /\ Radix \in Int /\ 1 <= Radix
  BY RadixAssumption
<1>2. Radix * 1 <= Radix * Radix /\ Radix * Radix \in Int
  BY <1>1, Products
<1> QED BY <1>1, <1>2 DEF Prefixes

LEMMA PrefixRanks ==
  /\ \A k \in Nat : PrefixRank(k) \in Int
  /\ \A j, k \in Nat : j <= k /\ k < Prefixes => PrefixRank(j) <= PrefixRank(k)
<1>1. PICK P \in Nat : P = Prefixes
  BY PrefixNumber
<1>2. PICK R \in Nat : R = Radix
  BY RadixAssumption
<1>3. ASSUME NEW k \in Nat PROVE PrefixRank(k) \in Int
  <2>1. PICK a \in Int, b \in Int : a = P * k /\ b = R * k
    BY Products
  <2>2. 5 * a + 2 \in Int /\ 5 * b + 3 \in Int /\ 5 * k + 4 \in Int
    OBVIOUS
  <2> QED BY <1>1, <1>2, <2>1, <2>2 DEF PrefixRank
<1>4. ASSUME NEW j \in Nat, NEW k \in Nat, j <= k, k < P PROVE PrefixRank(j) <= PrefixRank(k)
  <2>1. PICK a \in Int, b \in Int : a = P * j /\ b = P * k /\ a <= b
    BY <1>4, Products
  <2>2. j < P
    BY <1>4
  <2>3. PrefixRank(j) = 5 * a + 2 /\ PrefixRank(k) = 5 * b + 2
    BY <1>1, <1>4, <2>1, <2>2 DEF PrefixRank
  <2> QED BY <2>1, <2>3
<1> QED BY <1>1, <1>3, <1>4

LEMMA PrefixBoundsAreStrings ==
  ASSUME NEW n \in Nat \ {0}
  PROVE  /\ \A i \in 1..(n - 1) : PrefixBounds(n)[i] \in AllIds /\ PrefixBounds(n)[i].t = "string"
         /\ n <= Prefixes => Increasing(PrefixBounds(n), n)
<1>1. PICK P \in Nat : P = Prefixes
  BY PrefixNumber
<1>2. PICK step \in Nat : step = AtLeast1(P \div n) /\ (n <= P => n * step <= P)
  <2>1. P \div n \in Int /\ n * (P \div n) <= P /\ P \div n >= 0
    BY Division
  <2>2. n <= P => P \div n >= 1
    BY Division
  <2> QED BY <2>1, <2>2 DEF AtLeast1
<1>3. PICK string : string = "string"
  OBVIOUS
<1>4. PICK b : b = PrefixBounds(n)
  OBVIOUS
<1> DEFINE at(i) == i * step
<1>5. \A i \in 1..(n - 1) : at(i) \in Nat
  <2> SUFFICES ASSUME NEW i \in 1..(n - 1) PROVE at(i) \in Nat
    OBVIOUS
  <2>1. 0 * step <= i * step /\ i * step \in Int
    BY Products
  <2> QED BY <2>1
<1>6. \A i, j \in 1..(n - 1) : i <= j => at(i) <= at(j)
  BY Products
<1>7. ASSUME n <= P, NEW i \in 1..(n - 1) PROVE at(i) < P
  <2>1. CASE step = 0
    <3>1. at(i) = 0
      BY <2>1
    <3> QED BY <1>7, <3>1
  <2>2. CASE step # 0
    <3>1. (i + 1) * step <= n * step /\ (i + 1) * step \in Int /\ n * step \in Int
      BY Products
    <3>2. (i + 1) * step = at(i) + step /\ at(i) \in Int
      BY <1>5
    <3> HIDE DEF at
    <3> QED BY <1>2, <1>7, <2>2, <3>1, <3>2
  <2> QED BY <2>1, <2>2
<1>8. \A i \in 1..(n - 1) : b[i] = [t |-> string, v |-> PrefixRank(at(i))]
  BY <1>1, <1>2, <1>3, <1>4 DEF PrefixBounds
<1> HIDE DEF at
<1>9. string \in IdTypes
  BY <1>3, TypeRanks
<1>10. ASSUME NEW i \in 1..(n - 1)
       PROVE  b[i] \in AllIds /\ b[i].t = string /\ b[i].v = PrefixRank(at(i))
  <2>1. PICK v \in Int : v = PrefixRank(at(i))
    BY <1>5, PrefixRanks
  <2>2. b[i] = [t |-> string, v |-> v]
    BY <1>8, <2>1
  <2>3. [t |-> string, v |-> v] \in AllIds
    BY <1>9 DEF AllIds
  <2> QED BY <2>1, <2>2, <2>3
<1>11. ASSUME n <= P PROVE Increasing(b, n)
  <2>1. ASSUME NEW i \in 1..(n - 1), NEW j \in 1..(n - 1), i <= j PROVE b[i].v <= b[j].v
    <3>1. PICK h \in Nat, k \in Nat : h = at(i) /\ k = at(j) /\ h <= k /\ k < P
      BY <1>5, <1>6, <1>7, <1>11, <2>1
    <3>2. PrefixRank(h) <= PrefixRank(k)
      BY <1>1, <3>1, PrefixRanks
    <3> QED BY <1>10, <3>1, <3>2
  <2> QED BY <1>10, <2>1, OneTypeIsIncreasing
<1> QED BY <1>1, <1>3, <1>4, <1>10, <1>11

(* The ranges of a clause are disjoint.                                    *)
LEMMA RangesAreApart ==
  ASSUME NEW base, Open(base), NEW b, NEW n \in Nat \ {0}, Increasing(b, n)
  PROVE  /\ SingleClauses(Ranges(base, b, n), n, base.type)
         /\ Apart(Ranges(base, b, n), n, {})
<1>1. Segments(Ranges(base, b, n), n, b, base.type)
  BY RangesAreSegments
<1> QED BY <1>1, SegmentsAreClauses, SegmentsAreApart

(* The strings, where there are more slices than prefixes of two digits.   *)
Overlapping(n) == {id \in AllIds : n > Prefixes /\ id.t = "string"}

(* n slices of the _ids of type t, and n partitions of a collection.       *)
Slices(f, n, t) ==
  /\ DOMAIN f = 1..n
  /\ \A i \in 1..n : \A c \in f[i] : Clause(c) /\ c.type = t
  /\ Apart(f, n, Overlapping(n))

IsCut(f, E) ==
  /\ Numbered(f) /\ Len(f) >= 1
  /\ \A i \in 1..Len(f) : Filter(f[i])
  /\ Apart(f, Len(f), E \cup Overlapping(Len(f)))

LEMMA RangesAreSlices ==
  ASSUME NEW t, NEW b, NEW n \in Nat \ {0}, Increasing(b, n)
  PROVE  Slices(Ranges(TypeClause(t), b, n), n, t)
<1>1. PICK base : base = TypeClause(t)
  OBVIOUS
<1>2. Open(base) /\ base.type = t
  BY <1>1, OpenClauses
<1>3. PICK f : f = Ranges(base, b, n)
  OBVIOUS
<1>4. SingleClauses(f, n, t) /\ Apart(f, n, {})
  BY <1>2, <1>3, RangesAreApart
<1>5. Slices(f, n, t)
  BY <1>4 DEF Slices, SingleClauses, Apart
<1> QED BY <1>1, <1>3, <1>5

LEMMA RangesAreACut ==
  ASSUME NEW b, NEW n \in Nat \ {0}, Increasing(b, n), NEW E
  PROVE  IsCut(Ranges(AnyId, b, n), E)
<1>1. PICK base : base = AnyId /\ Open(base)
  BY OpenClauses
<1>2. PICK f : f = Ranges(base, b, n)
  OBVIOUS
<1>3. SingleClauses(f, n, base.type) /\ Apart(f, n, {})
  BY <1>1, <1>2, RangesAreApart
<1>4. Len(f) = n /\ Numbered(f)
  BY <1>2 DEF Ranges, Numbered
<1>5. \A i \in 1..n : Filter(f[i])
  BY <1>3 DEF Filter, SingleClauses
<1>6. Apart(f, n, E \cup Overlapping(n))
  BY <1>3 DEF Apart
<1>7. n >= 1
  OBVIOUS
<1> QED BY <1>1, <1>2, <1>4, <1>5, <1>6, <1>7 DEF IsCut

LEMMA OneFilterIsACut ==
  ASSUME NEW c, Clause(c), NEW E
  PROVE  IsCut(<<{c}>>, E)
<1>1. PICK f : f = <<{c}>>
  OBVIOUS
<1>2. Len(f) = 1 /\ DOMAIN f = 1..1 /\ f[1] = {c}
  BY <1>1
<1>3. Filter({c})
  BY DEF Filter
<1>4. \A i \in 1..1 : Filter(f[i])
  BY <1>2, <1>3
<1>5. Apart(f, 1, E \cup Overlapping(1))
  BY DEF Apart
<1>6. IsCut(f, E)
  BY <1>2, <1>4, <1>5 DEF IsCut, Numbered
<1> QED BY <1>1, <1>6

LEMMA OpenIsAClause == ASSUME NEW c, Open(c) PROVE Clause(c)
BY DEF Open, Clause

LEMMA OneSlice ==
  ASSUME NEW t
  PROVE  Slices(<<{TypeClause(t)}>>, 1, t)
<1>1. PICK c : c = TypeClause(t)
  OBVIOUS
<1>2. Clause(c) /\ c.type = t
  BY <1>1, OpenClauses, OpenIsAClause
<1>3. Slices(<<{c}>>, 1, t)
  BY <1>2 DEF Slices, Apart
<1> QED BY <1>1, <1>3

LEMMA NumberSlicesAreSlices ==
  ASSUME NEW n \in Nat \ {0}
  PROVE  Slices(NumberSlices(n), n, "number")
<1>1. PICK number : number = "number"
  OBVIOUS
<1>2. PICK base : base = TypeClause(number)
  OBVIOUS
<1>3. DOMAIN base = ClauseFields /\ base.type = number /\ base.lo = NoId /\ base.hi = NoId
  BY <1>2, OpenClauses DEF Open
<1> DEFINE clause(i) == [base EXCEPT !.mod = <<n, i - 1>>]
<1>4. PICK f : f = [i \in 1..n |-> {clause(i)}]
  OBVIOUS
<1>5. NumberSlices(n) = f
  BY <1>1, <1>2, <1>4 DEF NumberSlices
<1>6. ASSUME NEW i \in 1..n
      PROVE  Clause(clause(i)) /\ clause(i).type = number /\ clause(i).mod = <<n, i - 1>>
  <2>1. PICK c : c = clause(i)
    OBVIOUS
  <2>2. DOMAIN c = ClauseFields /\ c.type = number /\ c.lo = NoId /\ c.hi = NoId
        /\ c.mod = <<n, i - 1>>
    BY <1>3, <2>1 DEF ClauseFields
  <2>3. Clause(c)
    BY <2>2 DEF Clause
  <2> QED BY <2>1, <2>2, <2>3
<1> HIDE DEF clause
<1>7. \A i \in 1..n : f[i] = {clause(i)}
  BY <1>4
<1>8. ASSUME NEW i \in 1..n, NEW id \in AllIds, Matches(id, f[i]) PROVE TruncMod(id.v, n) = i - 1
  <2>1. PICK c : c = clause(i)
    OBVIOUS
  <2>2. Satisfies(id, c) /\ c.mod = <<n, i - 1>>
    BY <1>6, <1>7, <1>8, <2>1 DEF Matches
  <2>3. c.mod # NoMod /\ c.mod[1] = n /\ c.mod[2] = i - 1
    BY <2>2 DEF NoMod
  <2> QED BY <2>2, <2>3 DEF Satisfies
<1>9. Apart(f, n, {})
  <2> SUFFICES ASSUME NEW i \in 1..n, NEW j \in 1..n, i < j, NEW id \in AllIds,
                      Matches(id, f[i]), Matches(id, f[j])
               PROVE  FALSE
    BY DEF Apart
  <2>1. PICK r : r = TruncMod(id.v, n)
    OBVIOUS
  <2>2. r = i - 1 /\ r = j - 1
    BY <1>8, <2>1
  <2> QED BY <2>2
<1>10. DOMAIN f = 1..n
  BY <1>4
<1>11. \A i \in 1..n : \A c \in f[i] : Clause(c) /\ c.type = number
  BY <1>6, <1>7
<1> QED BY <1>1, <1>5, <1>9, <1>10, <1>11 DEF Slices, Apart

(* What a slice between prefixes selects, but for the only one, is a string. *)
LEMMA StringSlicesAreSlices ==
  ASSUME NEW t, NEW n \in Nat \ {0}
  PROVE  Slices(StringSlices(t, n), n, t)
<1>1. PICK b : b = PrefixBounds(n)
  OBVIOUS
<1>2. /\ \A i \in 1..(n - 1) : b[i] \in AllIds /\ b[i].t = "string"
      /\ n <= Prefixes => Increasing(b, n)
  BY <1>1, PrefixBoundsAreStrings
<1>3. StringSlices(t, n) = Ranges(TypeClause(t), b, n)
  BY <1>1 DEF StringSlices, PrefixBounds
<1>4. CASE n <= Prefixes
  BY <1>2, <1>3, <1>4, RangesAreSlices
<1>5. CASE ~(n <= Prefixes)
  <2>1. n > Prefixes
    BY <1>5, PrefixNumber
  <2>2. PICK base : base = TypeClause(t) /\ Open(base) /\ base.type = t
    BY OpenClauses
  <2>3. PICK f : f = Ranges(base, b, n)
    OBVIOUS
  <2>4. Segments(f, n, b, t)
    BY <2>2, <2>3, RangesAreSegments
  <2>5. ASSUME NEW i \in 1..n, NEW c \in f[i] PROVE Clause(c) /\ c.type = t
    <3>1. Segment(c, i, n, b, t)
      BY <2>4, <2>5 DEF Segments
    <3>2. i # 1 => b[i - 1] \in AllIds
      BY <1>2
    <3>3. i # n => b[i] \in AllIds
      BY <1>2
    <3> QED BY <3>1, <3>2, <3>3 DEF Segment, Clause
  <2>6. Apart(f, n, Overlapping(n))
    <3> SUFFICES ASSUME NEW i \in 1..n, NEW j \in 1..n, i < j, NEW id \in AllIds, Matches(id, f[i])
                 PROVE  id.t = "string"
      BY <2>1 DEF Apart, Overlapping
    <3>1. PICK c : f[i] = {c} /\ Segment(c, i, n, b, t)
      BY <2>4 DEF Segments
    <3>2. PICK bound : bound = b[i]
      OBVIOUS
    <3>3. i # n /\ bound \in AllIds /\ bound.t = "string"
      BY <1>2, <3>2
    <3>4. c.hi = bound /\ bound # NoId
      BY <3>1, <3>2, <3>3, OpenClauses DEF Segment
    <3>5. Satisfies(id, c)
      BY <3>1 DEF Matches
    <3> QED BY <3>3, <3>4, <3>5 DEF Satisfies
  <2>7. DOMAIN f = 1..n
    BY <2>4 DEF Segments
  <2>8. Slices(f, n, t)
    BY <2>5, <2>6, <2>7 DEF Slices
  <2> QED BY <1>3, <2>2, <2>3, <2>8
<1> QED BY <1>4, <1>5

LEMMA ObjectIdSlicesAreSlices ==
  ASSUME NEW D \in SUBSET AllIds, IsFiniteSet(D), NEW n \in Nat \ {0, 1}
  PROVE  Slices(ObjectIdSlices(D, n), n, "objectId")
<1>1. PICK t \in IdTypes : t = "objectId"
  BY TypeRanks
<1>2. PICK least, greatest : least = MinId(D) /\ greatest = MaxId(D)
  OBVIOUS
<1>3. CASE D = {} \/ least.t # t \/ greatest.t # t \/ least = greatest
  <2>1. ObjectIdSlices(D, n) = StringSlices(t, n)
    BY <1>1, <1>2, <1>3 DEF ObjectIdSlices
  <2> QED BY <1>1, <2>1, StringSlicesAreSlices
<1>4. CASE ~(D = {} \/ least.t # t \/ greatest.t # t \/ least = greatest)
  <2>1. ObjectIdSlices(D, n) = MinMaxRanges(TypeClause(t), t, least.v, greatest.v, n)
    BY <1>1, <1>2, <1>4 DEF ObjectIdSlices
  <2>2. least \in D /\ greatest \in D /\ (least = greatest \/ IdLess(least, greatest))
    BY <1>2, <1>4, MinIdIsLeast, MaxIdIsGreatest
  <2>3. PICK lo \in Int, hi \in Int : lo = least.v /\ hi = greatest.v
    BY <2>2 DEF AllIds
  <2>4. lo <= hi
    BY <1>4, <2>2, <2>3, IdOrder
  <2>5. PICK b : b = [i \in 1..(n - 1) |-> [t |-> t, v |-> lo + ((hi - lo) * i) \div n]]
    OBVIOUS
  <2>6. Increasing(b, n)
    <3>1. t \in IdTypes /\ n \in Nat \ {0} /\ lo \in Int /\ hi \in Int /\ lo <= hi
      BY <2>4
    <3>2. Increasing([i \in 1..(n - 1) |-> [t |-> t, v |-> lo + ((hi - lo) * i) \div n]], n)
      BY <3>1, StepsAreIncreasing, Zenon
    <3> QED BY <2>5, <3>2
  <2>7. MinMaxRanges(TypeClause(t), t, lo, hi, n) = Ranges(TypeClause(t), b, n)
    BY <2>5 DEF MinMaxRanges
  <2>8. ObjectIdSlices(D, n) = Ranges(TypeClause(t), b, n)
    BY <2>1, <2>3, <2>7
  <2>9. Slices(Ranges(TypeClause(t), b, n), n, t)
    BY <2>6, RangesAreSlices
  <2> QED BY <1>1, <2>8, <2>9
<1> QED BY <1>3, <1>4

LEMMA UniformSlicesAreSlices ==
  ASSUME NEW t \in IdTypes, NEW D \in SUBSET AllIds, IsFiniteSet(D), NEW n \in Nat \ {0}
  PROVE  Slices(UniformSlices(t, D, n), n, t)
<1>1. CASE n = 1
  BY <1>1, OneSlice DEF UniformSlices
<1>2. CASE n # 1
  <2>1. n \in Nat \ {0, 1} /\ ~(n <= 1)
    BY <1>2
  <2>2. CASE t = "number"
    BY <2>1, <2>2, NumberSlicesAreSlices DEF UniformSlices
  <2>3. CASE t = "objectId"
    BY <2>1, <2>3, ObjectIdSlicesAreSlices DEF UniformSlices
  <2>4. CASE t # "number" /\ t # "objectId"
    BY <2>1, <2>4, StringSlicesAreSlices DEF UniformSlices
  <2> QED BY <2>2, <2>3, <2>4
<1> QED BY <1>1, <1>2

LEMMA QuantileBoundaries ==
  ASSUME NEW S \in SUBSET AllIds, IsFiniteSet(S), NEW n \in Nat \ {0, 1}, Len(Sorted(S)) >= n, NEW c
  PROVE  \E b : Increasing(b, n) /\ QuantileRanges(c, Sorted(S), n) = Ranges(c, b, n)
<1>1. PICK N \in Nat : N = Len(Sorted(S)) /\ N = Cardinality(S) /\ n <= N
  BY SortedIsInOrder
<1>2. PICK b : b = [i \in 1..(n - 1) |-> Sorted(S)[i * (N \div n) + 1]]
  OBVIOUS
<1>3. Increasing(b, n)
  BY <1>1, <1>2, QuantilesAreIncreasing
<1>4. QuantileRanges(c, Sorted(S), n) = Ranges(c, b, n)
  BY <1>1, <1>2 DEF QuantileRanges
<1> QED BY <1>3, <1>4

LEMMA QuantileSlicesAreSlices ==
  ASSUME NEW t, NEW S \in SUBSET AllIds, IsFiniteSet(S), NEW n \in Nat \ {0}, Len(Sorted(S)) >= n
  PROVE  Slices(QuantileRanges(TypeClause(t), Sorted(S), n), n, t)
<1>1. CASE n = 1
  BY <1>1, OneSlice DEF QuantileRanges
<1>2. CASE n # 1
  <2>1. n \in Nat \ {0, 1}
    BY <1>2
  <2>2. PICK b : Increasing(b, n)
                 /\ QuantileRanges(TypeClause(t), Sorted(S), n) = Ranges(TypeClause(t), b, n)
    BY <2>1, QuantileBoundaries
  <2> QED BY <2>2, RangesAreSlices
<1> QED BY <1>1, <1>2

(* Slices of several types, merged by position, stay apart: an _id meets   *)
(* the clauses of its own type only.                                       *)
LEMMA GroupedByTypeIsACut ==
  ASSUME NEW D \in SUBSET AllIds, IsFiniteSet(D), NEW S \in SUBSET D, NEW n \in Nat \ {0}, NEW E
  PROVE  IsCut(GroupedByType(D, S, n), E)
<1> DEFINE types == {t \in IdTypes : OfType(D, t) # {}}
           own(t) == Sorted(OfType(S, t))
           slices(t) == IF Cardinality(OfType(D, t)) >= QuantileThreshold /\ Len(own(t)) >= n
                        THEN QuantileRanges(TypeClause(t), own(t), n)
                        ELSE UniformSlices(t, D, n)
           merged == [i \in 1..n |-> UNION {slices(t)[i] : t \in types}]
<1>1. GroupedByType(D, S, n) = IF types = {} THEN <<Everything>> ELSE merged
  BY DEF GroupedByType
<1>2. ASSUME NEW t \in types PROVE Slices(slices(t), n, t)
  <2>1. t \in IdTypes
    OBVIOUS
  <2>2. OfType(S, t) \in SUBSET AllIds /\ IsFiniteSet(OfType(S, t))
    <3>1. OfType(S, t) \subseteq D
      BY DEF OfType
    <3> QED BY <3>1, FS_Subset
  <2>3. Slices(UniformSlices(t, D, n), n, t)
    BY <2>1, UniformSlicesAreSlices
  <2>4. Len(own(t)) >= n => Slices(QuantileRanges(TypeClause(t), own(t), n), n, t)
    BY <2>2, QuantileSlicesAreSlices
  <2> QED BY <2>3, <2>4
<1>3. \A t \in types : t \in IdTypes /\ t # "any"
  BY TypeRanks
<1> HIDE DEF types, slices
<1>4. IsCut(<<Everything>>, E)
  BY OpenClauses, OpenIsAClause, OneFilterIsACut DEF Everything
<1>5. IsCut(merged, E)
  <2>1. PICK f : f = merged
    OBVIOUS
  <2>2. DOMAIN f = 1..n /\ Len(f) = n /\ Numbered(f)
    BY <2>1 DEF Numbered
  <2>3. ASSUME NEW i \in 1..n, NEW c \in f[i]
        PROVE  \E t \in types : c \in slices(t)[i] /\ Clause(c) /\ c.type = t
    BY <1>2, <2>1, <2>3 DEF Slices
  <2>4. \A i \in 1..n : Filter(f[i])
    BY <1>3, <2>3 DEF Filter
  <2>5. ASSUME NEW i \in 1..n, NEW id \in AllIds, Matches(id, f[i])
        PROVE  id.t \in types /\ Matches(id, slices(id.t)[i])
    <3>1. PICK c \in f[i] : Satisfies(id, c)
      BY <2>5 DEF Matches
    <3>2. PICK t \in types : c \in slices(t)[i] /\ c.type = t
      BY <2>3
    <3>3. t = id.t
      BY <1>3, <3>1, <3>2 DEF Satisfies
    <3> QED BY <3>1, <3>2, <3>3 DEF Matches
  <2>6. Apart(f, n, E \cup Overlapping(n))
    <3> SUFFICES ASSUME NEW i \in 1..n, NEW j \in 1..n, i < j, NEW id \in AllIds,
                        Matches(id, f[i]), Matches(id, f[j])
                 PROVE  id \in Overlapping(n)
      BY DEF Apart
    <3>1. id.t \in types /\ Matches(id, slices(id.t)[i]) /\ Matches(id, slices(id.t)[j])
      BY <2>5
    <3> QED BY <1>2, <3>1 DEF Slices, Apart
  <2> QED BY <2>1, <2>2, <2>4, <2>6 DEF IsCut
<1> QED BY <1>1, <1>4, <1>5

LEMMA LegacySampledIsACut ==
  ASSUME NEW S \in SUBSET AllIds, IsFiniteSet(S), NEW n \in Nat \ {0}, NEW E
  PROVE  IsCut(LegacySampled(S, n), E)
<1>1. IsCut(<<Everything>>, E)
  BY OpenClauses, OpenIsAClause, OneFilterIsACut DEF Everything
<1>2. CASE Cardinality(S) < n
  BY <1>1, <1>2 DEF LegacySampled
<1>3. CASE ~(Cardinality(S) < n) /\ n = 1
  BY <1>1, <1>3 DEF LegacySampled, QuantileRanges, Everything
<1>4. CASE ~(Cardinality(S) < n) /\ n # 1
  <2>1. LegacySampled(S, n) = QuantileRanges(AnyId, Sorted(S), n)
    BY <1>4 DEF LegacySampled
  <2>2. n \in Nat \ {0, 1} /\ Len(Sorted(S)) >= n
    BY <1>4, SortedIsInOrder
  <2>3. PICK b : Increasing(b, n) /\ QuantileRanges(AnyId, Sorted(S), n) = Ranges(AnyId, b, n)
    BY <2>2, QuantileBoundaries
  <2> QED BY <2>1, <2>3, RangesAreACut
<1> QED BY <1>2, <1>3, <1>4

(* Ids inserted into a collection of several types.                        *)
Excepted(D) == {id \in AllIds : id \notin D /\ ~OneType(D)}

(* The ends of the documents of one type: the least one in the collection  *)
(* is below them, and the least is above the greatest only where the       *)
(* collection has several types.                                           *)
EndOf(t, id) == IF id.t = t THEN id.v ELSE 0

LEMMA Ends ==
  ASSUME NEW D \in SUBSET AllIds, IsFiniteSet(D), D # {}, NEW t \in {"objectId", "number"},
         \A id \in D : id.t = "objectId" => id.v >= 0
  PROVE  /\ EndOf(t, MinId(D)) \in Int /\ EndOf(t, MaxId(D)) \in Int
         /\ \/ EndOf(t, MinId(D)) <= EndOf(t, MaxId(D))
            \/ /\ ~OneType(D)
               /\ \A id \in D : id.t = t => EndOf(t, MinId(D)) <= id.v
<1>1. PICK least \in D : least = MinId(D) /\ \A x \in D : x = least \/ IdLess(least, x)
  BY MinIdIsLeast
<1>2. PICK greatest \in D : greatest = MaxId(D) /\ \A x \in D : x = greatest \/ IdLess(x, greatest)
  BY MaxIdIsGreatest
<1>3. least \in AllIds /\ greatest \in AllIds /\ least.v \in Int /\ greatest.v \in Int
  BY DEF AllIds
<1>4. EndOf(t, least) \in Int /\ EndOf(t, greatest) \in Int
  BY <1>3 DEF EndOf
<1>5. CASE least.t = t /\ greatest.t = t
  <2>1. least.v <= greatest.v
    BY <1>1, <1>3, <1>5, IdOrder
  <2> QED BY <1>1, <1>2, <1>4, <1>5, <2>1 DEF EndOf
<1>6. CASE least.t = t /\ greatest.t # t
  <2>1. ~OneType(D)
    BY <1>6 DEF OneType, OfType
  <2>2. ASSUME NEW id \in D, id.t = t PROVE least.v <= id.v
    <3>1. id \in AllIds /\ id.v \in Int
      BY DEF AllIds
    <3> QED BY <1>1, <1>3, <1>6, <2>2, <3>1, IdOrder
  <2>3. EndOf(t, least) = least.v
    BY <1>6 DEF EndOf
  <2> QED BY <1>1, <1>2, <1>4, <2>1, <2>2, <2>3
<1>7. CASE least.t # t
  <2>1. EndOf(t, least) = 0
    BY <1>7 DEF EndOf
  <2>2. EndOf(t, greatest) >= 0
    <3>1. CASE greatest.t # t
      BY <3>1 DEF EndOf
    <3>2. CASE greatest.t = t /\ t = "objectId"
      BY <3>2 DEF EndOf
    <3>3. CASE greatest.t = t /\ t = "number"
      <4>1. IdLess(least, greatest)
        BY <1>1, <1>7, <3>3
      <4>2. TypeRank(greatest.t) = 1 /\ TypeRank(least.t) \in {2, 3}
        <5>1. least.t \in IdTypes /\ least.t # "number"
          BY <1>3, <1>7, <3>3 DEF AllIds
        <5> QED BY <3>3, <5>1, TypeRanks
      <4> QED BY <1>7, <3>3, <4>1, <4>2 DEF IdLess
    <3> QED BY <3>1, <3>2, <3>3
  <2> QED BY <1>1, <1>2, <1>4, <2>1, <2>2
<1> QED BY <1>5, <1>6, <1>7

(* Ranges whose boundaries descend from the least document: a document of  *)
(* the collection can only be in the last.                                 *)
LEMMA DescendingIsACut ==
  ASSUME NEW D \in SUBSET AllIds, ~OneType(D), NEW t \in IdTypes, NEW lo \in Int, NEW hi \in Int,
         hi < lo, \A id \in D : id.t = t => lo <= id.v, NEW n \in Nat \ {0}
  PROVE  IsCut(Ranges(AnyId, [i \in 1..(n - 1) |-> [t |-> t, v |-> lo + ((hi - lo) * i) \div n]], n),
               Excepted(D))
<1> DEFINE b == [i \in 1..(n - 1) |-> [t |-> t, v |-> lo + ((hi - lo) * i) \div n]]
<1>1. ASSUME NEW i \in 1..(n - 1) PROVE b[i] \in AllIds /\ b[i].t = t /\ b[i].v <= lo
  <2>1. PICK a \in Int : a = (hi - lo) * i /\ a <= 0
    <3>1. PICK span \in Int : span = hi - lo /\ span <= 0
      OBVIOUS
    <3>2. span * i <= 0 * i /\ span * i \in Int
      BY <3>1, Products
    <3> QED BY <3>1, <3>2
  <2>2. PICK q \in Int : q = a \div n /\ n * q <= a
    BY Division
  <2>3. q <= 0
    <3>1. SUFFICES ASSUME q >= 1 PROVE FALSE
      OBVIOUS
    <3>2. n * 1 <= n * q
      BY <3>1, Products
    <3> QED BY <2>1, <2>2, <3>2
  <2>4. b[i] = [t |-> t, v |-> lo + q]
    BY <2>1, <2>2
  <2> HIDE DEF b
  <2> QED BY <2>3, <2>4 DEF AllIds
<1> HIDE DEF b
<1>2. PICK base : base = AnyId /\ Open(base)
  BY OpenClauses
<1>3. PICK f : f = Ranges(base, b, n)
  OBVIOUS
<1>4. Segments(f, n, b, base.type)
  BY <1>2, <1>3, RangesAreSegments
<1>5. \A i \in 1..n : Filter(f[i])
  <2> SUFFICES ASSUME NEW i \in 1..n PROVE Filter(f[i])
    OBVIOUS
  <2>1. PICK c : f[i] = {c} /\ Segment(c, i, n, b, base.type)
    BY <1>4 DEF Segments
  <2>2. i # 1 => b[i - 1] \in AllIds
    BY <1>1
  <2>3. i # n => b[i] \in AllIds
    BY <1>1
  <2>4. Clause(c)
    BY <2>1, <2>2, <2>3 DEF Segment, Clause
  <2> QED BY <2>1, <2>4 DEF Filter
<1>6. Apart(f, n, Excepted(D) \cup Overlapping(n))
  <2> SUFFICES ASSUME NEW i \in 1..n, NEW j \in 1..n, i < j, NEW id \in AllIds, Matches(id, f[i])
               PROVE  id \notin D
    BY DEF Apart, Excepted
  <2>1. PICK c : f[i] = {c} /\ Segment(c, i, n, b, base.type)
    BY <1>4 DEF Segments
  <2>2. PICK bound : bound = b[i]
    OBVIOUS
  <2>3. i \in 1..(n - 1) /\ bound \in AllIds /\ bound.t = t /\ bound.v <= lo
    BY <1>1, <2>2
  <2>4. c.hi = bound /\ ~c.hiIncl /\ bound # NoId
    BY <2>1, <2>2, <2>3, OpenClauses DEF Segment
  <2>5. Satisfies(id, c)
    BY <2>1 DEF Matches
  <2>6. id.t = t /\ id.v < bound.v
    BY <2>3, <2>4, <2>5 DEF Satisfies
  <2>7. id.v \in Int /\ bound.v \in Int
    BY <2>3 DEF AllIds
  <2>8. ~(lo <= id.v)
    BY <2>3, <2>6, <2>7
  <2> QED BY <2>6, <2>8
<1>7. Len(f) = n /\ Numbered(f)
  BY <1>3 DEF Ranges, Numbered
<1>8. IsCut(f, Excepted(D))
  BY <1>5, <1>6, <1>7 DEF IsCut
<1> QED BY <1>2, <1>3, <1>8 DEF b

LEMMA MinMaxIsACut ==
  ASSUME NEW D \in SUBSET AllIds, IsFiniteSet(D), D # {}, NEW t \in {"objectId", "number"},
         \A id \in D : id.t = "objectId" => id.v >= 0, NEW n \in Nat \ {0}
  PROVE  IsCut(MinMaxPartitions(t, D, n), Excepted(D))
<1>1. PICK lo \in Int, hi \in Int : lo = EndOf(t, MinId(D)) /\ hi = EndOf(t, MaxId(D))
  BY Ends
<1>2. lo <= hi \/ (~OneType(D) /\ \A id \in D : id.t = t => lo <= id.v)
  BY <1>1, Ends
<1>3. t \in IdTypes
  BY TypeRanks
<1>4. MinMaxPartitions(t, D, n) = MinMaxRanges(AnyId, t, lo, hi, n)
  BY <1>1 DEF MinMaxPartitions, EndOf
<1>5. CASE n = 1
  <2>1. PICK c : c = Below(AnyId, [t |-> t, v |-> hi + 1])
    OBVIOUS
  <2>2. MinMaxRanges(AnyId, t, lo, hi, n) = <<{c}>>
    BY <1>5, <2>1 DEF MinMaxRanges
  <2>3. [t |-> t, v |-> hi + 1] \in AllIds
    BY <1>3 DEF AllIds
  <2>4. Clause(c)
    BY <2>1, <2>3 DEF Clause, Below, AnyId, ClauseFields
  <2> QED BY <1>4, <2>2, <2>4, OneFilterIsACut
<1>6. CASE n # 1
  <2>1. PICK b : b = [i \in 1..(n - 1) |-> [t |-> t, v |-> lo + ((hi - lo) * i) \div n]]
    OBVIOUS
  <2>2. MinMaxRanges(AnyId, t, lo, hi, n) = Ranges(AnyId, b, n)
    BY <1>6, <2>1 DEF MinMaxRanges
  <2>3. CASE lo <= hi
    <3>1. Increasing([i \in 1..(n - 1) |-> [t |-> t, v |-> lo + ((hi - lo) * i) \div n]], n)
      BY <1>3, <2>3, StepsAreIncreasing, Zenon
    <3>2. Increasing(b, n)
      BY <2>1, <3>1
    <3> QED BY <1>4, <2>2, <3>2, RangesAreACut
  <2>4. CASE ~(lo <= hi)
    <3>1. ~OneType(D) /\ hi < lo /\ \A id \in D : id.t = t => lo <= id.v
      BY <1>2, <2>4
    <3>2. IsCut(Ranges(AnyId, [i \in 1..(n - 1) |-> [t |-> t, v |-> lo + ((hi - lo) * i) \div n]], n),
                Excepted(D))
      BY <1>3, <3>1, DescendingIsACut, Zenon
    <3> QED BY <1>4, <2>1, <2>2, <3>2
  <2> QED BY <2>3, <2>4
<1> QED BY <1>5, <1>6

LEMMA TypedIsACut ==
  ASSUME NEW D \in SUBSET AllIds, IsFiniteSet(D), D # {}, NEW t \in {"objectId", "number"},
         \A id \in D : id.t = "objectId" => id.v >= 0, NEW S \in SUBSET D,
         NEW n \in Nat \ {0}, NEW maxParts \in Nat \ {0}
  PROVE  IsCut(TypedPartitions(t, D, S, n, maxParts), Excepted(D))
<1> DEFINE T == OfType(S, t)
<1>1. T \in SUBSET AllIds /\ IsFiniteSet(T)
  <2>1. T \subseteq D
    BY DEF OfType
  <2> QED BY <2>1, FS_Subset
<1> HIDE DEF T
<1>2. PICK N \in Nat : N = Cardinality(T) /\ N = Len(Sorted(T))
  BY <1>1, SortedIsInOrder
<1>3. CASE N >= n + 1
  <2>1. PICK b : b = [i \in 1..(n - 1) |-> Sorted(T)[(i + 1) * (N \div (n + 1)) + 1]]
    OBVIOUS
  <2>2. TypedPartitions(t, D, S, n, maxParts) = Ranges(AnyId, b, n)
    BY <1>2, <1>3, <2>1 DEF TypedPartitions, SampledRanges, T
  <2>3. n + 1 <= N
    BY <1>3
  <2>4. Increasing(b, n)
    BY <1>1, <1>2, <2>1, <2>3, SampledIsIncreasing
  <2> QED BY <2>2, <2>4, RangesAreACut
<1>4. CASE ~(N >= n + 1)
  <2>1. TypedPartitions(t, D, S, n, maxParts) = MinMaxPartitions(t, D, maxParts)
    BY <1>2, <1>4 DEF TypedPartitions, T
  <2> QED BY <2>1, MinMaxIsACut
<1> QED BY <1>3, <1>4

(* An upper end can only take documents from the last partition.           *)
LEMMA CapKeepsCut ==
  ASSUME NEW f, NEW E, IsCut(f, E), NEW D \in SUBSET AllIds, IsFiniteSet(D),
         NEW seed \in D \cup {NoId}
  PROVE  IsCut(CapFinalPartition(f, D, seed), E)
<1> DEFINE c == CHOOSE x \in f[Len(f)] : TRUE
           top == TrueMaxId(D, c, seed)
           capped == CapFinalPartition(f, D, seed)
           closed == [c EXCEPT !.hi = top, !.hiIncl = TRUE]
<1>0. Len(f) \in Nat /\ Len(f) >= 1 /\ DOMAIN f = 1..Len(f)
  BY DEF IsCut, Numbered
<1>1. PICK n \in Nat \ {0} : n = Len(f) /\ DOMAIN f = 1..n /\ n \in 1..n
  <2>1. PICK n : n = Len(f)
    OBVIOUS
  <2>2. n \in Nat \ {0} /\ n \in 1..n /\ DOMAIN f = 1..n
    BY <1>0, <2>1
  <2> QED BY <2>1, <2>2
<1>2. \A i \in 1..n : Filter(f[i])
  BY <1>1 DEF IsCut
<1>3. Apart(f, n, E \cup Overlapping(n))
  BY <1>1 DEF IsCut
<1>4. CASE capped = f
  BY <1>4
<1>5. CASE capped # f
  <2>1. /\ Cardinality(f[n]) = 1 /\ c.type = "any" /\ c.hi = NoId
        /\ capped = [f EXCEPT ![n] = {closed}]
    BY <1>1, <1>5 DEF CapFinalPartition
  <2>2. f[n] = {c} /\ Clause(c)
    <3>1. f[n] # {}
      <4>1. Cardinality(f[n]) = 1
        BY <2>1
      <4> HIDE DEF c, top, capped, closed
      <4>2. Cardinality({}) = 0
        BY FS_EmptySet
      <4> QED BY <4>1, <4>2
    <3>2. c \in f[n]
      BY <1>1, <3>1
    <3>3. (\E x : f[n] = {x}) \/ (\A x \in f[n] : x.type # "any")
      BY <1>1, <1>2 DEF Filter
    <3>4. \E x : f[n] = {x}
      BY <2>1, <3>2, <3>3
    <3>5. Clause(c)
      BY <1>1, <1>2, <3>2 DEF Filter
    <3> QED BY <3>2, <3>4, <3>5
  <2>3. top \in AllIds \cup {NoId}
    <3> DEFINE tail == {id \in D : Satisfies(id, c)
                                   /\ (seed # NoId => id.t = seed.t /\ seed.v < id.v)}
    <3>1. top = IF tail = {} THEN seed ELSE MaxId(tail)
      BY DEF TrueMaxId
    <3>2. tail \subseteq D /\ IsFiniteSet(tail)
      BY FS_Subset
    <3> HIDE DEF tail
    <3>3. tail # {} => MaxId(tail) \in tail
      BY <3>2, MaxIdIsGreatest
    <3> HIDE DEF top
    <3> QED BY <3>1, <3>2, <3>3
  <2>4. PICK h : h = top /\ h \in AllIds \cup {NoId}
    BY <2>3
  <2>5. PICK d : d = [c EXCEPT !.hi = h, !.hiIncl = TRUE]
    OBVIOUS
  <2>6. PICK g : g = [f EXCEPT ![n] = {d}]
    OBVIOUS
  <2>7. capped = g
    BY <2>1, <2>4, <2>5, <2>6
  <2> HIDE DEF c, top, capped, closed
  <2>8. /\ DOMAIN d = ClauseFields /\ d.type = c.type /\ d.mod = c.mod /\ d.hi = h
        /\ d.lo = c.lo /\ d.loStrict = c.loStrict
    BY <2>2, <2>5 DEF Clause, ClauseFields
  <2>9. Clause(d)
    BY <2>2, <2>4, <2>8 DEF Clause
  <2>10. \A id : Satisfies(id, d) => Satisfies(id, c)
    BY <2>1, <2>8 DEF Satisfies
  <2>11. DOMAIN g = 1..n /\ g[n] = {d} /\ \A i \in 1..n : i # n => g[i] = f[i]
    BY <1>1, <2>6
  <2>12. Len(g) = n /\ Numbered(g)
    BY <2>11 DEF Numbered
  <2>13. Filter({d})
    BY <2>9 DEF Filter
  <2>14. \A i \in 1..n : Filter(g[i])
    BY <1>2, <2>11, <2>13
  <2>15. \A i \in 1..n : \A id : Matches(id, g[i]) => Matches(id, f[i])
    BY <2>2, <2>10, <2>11 DEF Matches
  <2>16. Apart(g, n, E \cup Overlapping(n))
    <3> SUFFICES ASSUME NEW i \in 1..n, NEW j \in 1..n, i < j, NEW id \in AllIds,
                        Matches(id, g[i]), Matches(id, g[j])
                 PROVE  id \in E \cup Overlapping(n)
      BY DEF Apart
    <3>1. Matches(id, f[i]) /\ Matches(id, f[j])
      BY <2>15
    <3> QED BY <1>3, <3>1 DEF Apart
  <2>17. IsCut(g, E)
    BY <2>12, <2>14, <2>16 DEF IsCut
  <2> QED BY <2>7, <2>17 DEF capped
<1> QED BY <1>4, <1>5

(* Whatever way a collection is cut, no document of it is in two           *)
(* partitions, but for the strings where slices overlap.                   *)
LEMMA CutIsApart ==
  ASSUME NEW D \in SUBSET AllIds, IsFiniteSet(D), D # {},
         \A id \in D : id.t = "objectId" => id.v >= 0,
         NEW idType, NEW S \in SUBSET D, NEW seed \in D \cup {NoId},
         NEW n \in Nat \ {0}, NEW maxParts \in Nat \ {0}, NEW discovered \in BOOLEAN
  PROVE  IsCut(Partition(D, idType, S, seed, n, maxParts, discovered), Excepted(D))
<1> DEFINE strategy == IF idType = "auto" THEN Recommend(S) ELSE idType
           cut == CASE strategy = "objectid" -> TypedPartitions("objectId", D, S, n, maxParts)
                    [] strategy = "numeric" -> TypedPartitions("number", D, S, n, maxParts)
                    [] OTHER -> IF discovered THEN GroupedByType(D, S, n)
                                ELSE LegacySampled(S, n)
           E == Excepted(D)
<1>1. Partition(D, idType, S, seed, n, maxParts, discovered)
        = IF n = 1 THEN <<Everything>> ELSE CapFinalPartition(cut, D, seed)
  BY DEF Partition
<1>2. IsCut(<<Everything>>, E)
  BY OpenClauses, OpenIsAClause, OneFilterIsACut DEF Everything
<1>3. /\ IsCut(TypedPartitions("objectId", D, S, n, maxParts), E)
      /\ IsCut(TypedPartitions("number", D, S, n, maxParts), E)
  BY TypedIsACut
<1>4. IsCut(GroupedByType(D, S, n), E)
  BY GroupedByTypeIsACut
<1>5. IsCut(LegacySampled(S, n), E)
  BY FS_Subset, LegacySampledIsACut
<1> HIDE DEF strategy, E
<1>6. IsCut(cut, E)
  BY <1>3, <1>4, <1>5
<1> HIDE DEF cut
<1>7. IsCut(CapFinalPartition(cut, D, seed), E)
  BY <1>6, CapKeepsCut
<1> QED BY <1>1, <1>2, <1>7 DEF E

-----------------------------------------------------------------------------
(***************************************************************************)
(* Pages.                                                                  *)
(***************************************************************************)
LEMMA PlainRange ==
  ASSUME NEW f, Filter(f), IsPlainRange(f)
  PROVE  \E c : /\ f = {c} /\ c = (CHOOSE x \in f : TRUE) /\ Clause(c)
                /\ c.type = "any" /\ c.mod = NoMod
<1>1. \A x \in f : x.type = "any" /\ x.mod = NoMod /\ Clause(x)
  BY DEF IsPlainRange, Filter
<1>2. f # {}
  <2>1. Cardinality(f) = 1
    BY DEF IsPlainRange
  <2>2. Cardinality({}) = 0
    BY FS_EmptySet
  <2> QED BY <2>1, <2>2
<1>3. PICK c : c = CHOOSE x \in f : TRUE
  OBVIOUS
<1>4. c \in f
  BY <1>2, <1>3
<1>5. \E x : f = {x}
  BY <1>1, <1>4 DEF Filter
<1>6. f = {c}
  BY <1>4, <1>5
<1> QED BY <1>1, <1>3, <1>4, <1>6

(* What the query of a page returns, and the walk lets pass, is selected   *)
(* by the filter of the partition.                                         *)
LEMMA PageMeetsFilter ==
  ASSUME NEW f, Filter(f), NEW l \in AllIds \cup {NoId}, l # NoId => Matches(l, f),
         NEW id \in AllIds, Matches(id, PageFilter(f, l)),
         UpperBound(f) # NoId => Comparable(id, UpperBound(f)), ~PastBound(id, f)
  PROVE  Matches(id, f) /\ (l # NoId => id.t = l.t /\ l.v < id.v)
<1>1. id.v \in Int /\ (l # NoId => l.v \in Int)
  BY DEF AllIds
<1>2. CASE IsPlainRange(f)
  <2>1. PICK c : /\ f = {c} /\ c = (CHOOSE x \in f : TRUE) /\ Clause(c)
                 /\ c.type = "any" /\ c.mod = NoMod
    BY <1>2, PlainRange
  <2>2. PICK q : PageFilter(f, l) = {q}
                 /\ q = IF l # NoId THEN [AnyId EXCEPT !.lo = l, !.loStrict = TRUE]
                        ELSE [AnyId EXCEPT !.lo = c.lo, !.loStrict = c.loStrict]
    BY <1>2, <2>1 DEF PageFilter
  <2>3. Satisfies(id, q)
    BY <2>2 DEF Matches
  <2>4. l # NoId => q.lo = l /\ q.loStrict
    BY <2>2 DEF AnyId
  <2>5. l = NoId => q.lo = c.lo /\ q.loStrict = c.loStrict
    BY <2>2 DEF AnyId
  <2>6. l # NoId => l.t = id.t /\ l.v < id.v
    BY <2>3, <2>4 DEF Satisfies
  <2>7. l # NoId => Satisfies(l, c)
    BY <2>1 DEF Matches
  <2>8. c.lo # NoId => c.lo \in AllIds /\ c.lo.v \in Int
    BY <2>1 DEF Clause, AllIds
  <2>9. c.hi # NoId => c.hi \in AllIds /\ c.hi.v \in Int
    BY <2>1 DEF Clause, AllIds
  <2>10. c.lo # NoId => c.lo.t = id.t /\ (c.lo.v < id.v \/ (c.lo.v = id.v /\ ~c.loStrict))
    <3>1. CASE l = NoId
      BY <2>3, <2>5, <3>1 DEF Satisfies
    <3>2. CASE l # NoId
      <4>1. SUFFICES ASSUME c.lo # NoId PROVE c.lo.t = id.t /\ c.lo.v < id.v
        OBVIOUS
      <4>2. c.lo.t = l.t /\ c.lo.v <= l.v
        BY <2>7, <3>2, <4>1, <2>8, <1>1 DEF Satisfies
      <4> QED BY <1>1, <2>6, <2>8, <3>2, <4>1, <4>2
    <3> QED BY <3>1, <3>2
  <2>11. UpperBound(f) = c.hi
    BY <1>2, <2>1 DEF UpperBound
  <2>12. c.hi # NoId => c.hi.t = id.t /\ (id.v < c.hi.v \/ (c.hi.v = id.v /\ c.hiIncl))
    <3>1. SUFFICES ASSUME c.hi # NoId
                   PROVE  c.hi.t = id.t /\ (id.v < c.hi.v \/ (c.hi.v = id.v /\ c.hiIncl))
      OBVIOUS
    <3>2. Comparable(id, c.hi)
      BY <2>11, <3>1
    <3>3. ~(c.hi.v < id.v \/ (c.hi.v = id.v /\ ~c.hiIncl))
      BY <2>1, <2>11, <3>1, <3>2 DEF PastBound
    <3> QED BY <1>1, <2>9, <3>1, <3>2, <3>3 DEF Comparable
  <2>13. Satisfies(id, c)
    BY <2>1, <2>10, <2>12 DEF Satisfies
  <2> QED BY <2>1, <2>6, <2>13 DEF Matches
<1>3. CASE ~IsPlainRange(f) /\ l = NoId
  BY <1>3 DEF PageFilter
<1>4. CASE ~IsPlainRange(f) /\ l # NoId
  <2>1. PageFilter(f, l) = PageAfter(f, l)
    BY <1>4 DEF PageFilter
  <2>2. PICK q \in PageAfter(f, l) : Satisfies(id, q)
    BY <2>1 DEF Matches
  <2>3. PICK c \in f : /\ c.lo = NoId \/ c.lo.t = l.t
                       /\ q = [c EXCEPT !.lo = IF c.lo # NoId /\ l.v < c.lo.v THEN c.lo ELSE l,
                                        !.loStrict = IF c.lo # NoId /\ l.v < c.lo.v
                                                     THEN c.loStrict ELSE TRUE]
    BY <2>2 DEF PageAfter
  <2>4. Clause(c)
    BY DEF Filter
  <2>5. /\ q.type = c.type /\ q.hi = c.hi /\ q.hiIncl = c.hiIncl /\ q.mod = c.mod
        /\ q.lo = (IF c.lo # NoId /\ l.v < c.lo.v THEN c.lo ELSE l)
        /\ q.loStrict = (IF c.lo # NoId /\ l.v < c.lo.v THEN c.loStrict ELSE TRUE)
    BY <2>3, <2>4 DEF Clause, ClauseFields
  <2>6. c.lo # NoId => c.lo.v \in Int
    BY <2>4 DEF Clause, AllIds
  <2>7. CASE c.lo # NoId /\ l.v < c.lo.v
    <3>1. Satisfies(id, c)
      BY <2>2, <2>5, <2>7 DEF Satisfies
    <3>2. id.t = c.lo.t /\ c.lo.v <= id.v
      BY <1>1, <2>6, <2>7, <3>1 DEF Satisfies
    <3> QED BY <1>1, <2>3, <2>6, <2>7, <3>1, <3>2 DEF Matches
  <2>8. CASE ~(c.lo # NoId /\ l.v < c.lo.v)
    <3>1. q.lo = l /\ q.loStrict
      BY <2>5, <2>8
    <3>2. l.t = id.t /\ l.v < id.v
      BY <1>4, <2>2, <3>1 DEF Satisfies
    <3>3. c.lo # NoId => c.lo.t = id.t /\ c.lo.v < id.v
      BY <1>1, <1>4, <2>3, <2>6, <2>8, <3>2
    <3>4. Satisfies(id, c)
      BY <2>2, <2>5, <3>3 DEF Satisfies
    <3> QED BY <3>2, <3>4 DEF Matches
  <2> QED BY <2>7, <2>8
<1> QED BY <1>2, <1>3, <1>4

(* A page lists documents the query selects.                               *)
LEMMA PageIsOfDocuments ==
  ASSUME docs \in SUBSET AllIds, IsFiniteSet(docs), NEW f
  PROVE  Page(f) \in Seq(Selected(docs, PageFilter(f, last)))
<1> DEFINE matching == Selected(docs, PageFilter(f, last))
           rank(id) == Cardinality({x \in matching : IdLess(x, id)}) + 1
           first == {id \in matching : rank(id) <= size}
<1>1. Page(f) = SubSeq(Sorted(first), 1, Cardinality(first))
  BY DEF Page, SortedPage
<1>2. first \subseteq matching /\ matching \subseteq docs
  BY DEF Selected
<1> HIDE DEF first, matching
<1>3. first \in SUBSET AllIds /\ IsFiniteSet(first)
  BY <1>2, FS_Subset
<1>4. PICK N \in Nat : N = Cardinality(first) /\ Sorted(first) \in [1..N -> first]
  BY <1>3, SortedIsInOrder
<1>5. Sorted(first) \in Seq(matching)
  BY <1>2, <1>4
<1>6. SubSeq(Sorted(first), 1, N) \in Seq(matching)
  <2>1. PICK s \in Seq(matching) : s = Sorted(first) /\ Len(s) = N
    BY <1>4, <1>5
  <2> QED BY <2>1
<1> QED BY <1>1, <1>4, <1>6 DEF matching

(* The walk ends at the first document that stops it.                      *)
LEMMA WalkStops ==
  ASSUME NEW page \in Seq(AllIds), NEW f
  PROVE  /\ StopAt(page, f) \in 1..(Len(page) + 1)
         /\ \A m \in 1..(StopAt(page, f) - 1) : ~PastBound(page[m], f) /\ ~Unordered(page, m, f)
<1> DEFINE stops == {i \in DOMAIN page : PastBound(page[i], f) \/ Unordered(page, i, f)}
<1>1. Len(page) \in Nat /\ DOMAIN page = 1..Len(page)
  OBVIOUS
<1>2. StopAt(page, f) = IF stops = {} THEN Len(page) + 1
                        ELSE CHOOSE i \in stops : \A j \in stops : i <= j
  BY DEF StopAt
<1>3. stops \in SUBSET Nat /\ stops \subseteq 1..Len(page)
  BY <1>1
<1>4. \A m \in 1..Len(page) : m \notin stops => ~PastBound(page[m], f) /\ ~Unordered(page, m, f)
  BY <1>1
<1> HIDE DEF stops
<1>5. CASE stops = {}
  BY <1>1, <1>2, <1>4, <1>5
<1>6. CASE stops # {}
  <2>1. \E i \in stops : \A j \in stops : i <= j
    BY <1>3, <1>6, LeastNumber
  <2>2. PICK k : k = StopAt(page, f)
    OBVIOUS
  <2>3. k \in stops /\ \A j \in stops : k <= j
    BY <1>2, <1>6, <2>1, <2>2
  <2>4. k \in 1..Len(page)
    BY <1>3, <2>3
  <2>5. \A m \in 1..(k - 1) : m \notin stops /\ m \in 1..Len(page)
    BY <1>1, <2>3, <2>4
  <2> QED BY <1>1, <1>4, <2>2, <2>4, <2>5
<1> QED BY <1>5, <1>6

(* Up to there the _ids ascend, from the last one read on, and have one    *)
(* type.                                                                   *)
LEMMA WalkAscends ==
  ASSUME NEW page \in Seq(AllIds), NEW f, NEW k \in 0..Len(page),
         \A m \in 1..k : ~Unordered(page, m, f)
  PROVE  \A i, j \in 1..k : i < j => page[i].t = page[j].t /\ page[i].v < page[j].v
<1>1. \A i \in 1..k : page[i] \in AllIds /\ page[i].v \in Int
  <2>1. \A i \in 1..k : i \in 1..Len(page)
    OBVIOUS
  <2>2. \A i \in 1..k : page[i] \in AllIds
    BY <2>1
  <2>3. \A id \in AllIds : id.v \in Int
    BY DEF AllIds
  <2> QED BY <2>2, <2>3
<1>2. ASSUME NEW i \in 2..k PROVE page[i].t = page[i - 1].t /\ page[i - 1].v < page[i].v
  <2>1. PICK h \in 1..k : h = i - 1 /\ i # 1 /\ i \in 1..k
    OBVIOUS
  <2>2. page[h] \in AllIds /\ page[h].v \in Int /\ page[i].v \in Int
    BY <1>1, <2>1
  <2>3. page[h] # NoId
    BY <2>2, OpenClauses
  <2>4. Comparable(page[i], page[h]) /\ ~(page[i].v <= page[h].v)
    BY <2>1, <2>3 DEF Unordered
  <2> QED BY <2>1, <2>2, <2>4 DEF Comparable
<1>3. SUFFICES ASSUME NEW i \in 1..k, NEW j \in 1..k, i < j,
                      ~(page[i].t = page[j].t /\ page[i].v < page[j].v)
               PROVE  FALSE
  OBVIOUS
<1> DEFINE bad == {m \in 1..k : i < m /\ ~(page[i].t = page[m].t /\ page[i].v < page[m].v)}
<1>4. bad \in SUBSET Nat /\ bad # {}
  BY <1>3
<1>5. PICK m \in bad : \A x \in bad : m <= x
  BY <1>4, LeastNumber
<1>6. m \in 2..k /\ i < m /\ ~(page[i].t = page[m].t /\ page[i].v < page[m].v)
  OBVIOUS
<1>7. PICK h \in 1..k : h = m - 1 /\ i <= h
  BY <1>6
<1>8. page[m].t = page[h].t /\ page[h].v < page[m].v
  BY <1>2, <1>6, <1>7
<1>9. i # h
  BY <1>6, <1>8
<1>10. h \notin bad
  BY <1>5, <1>7
<1>11. page[i].t = page[h].t /\ page[i].v < page[h].v
  BY <1>7, <1>9, <1>10
<1> HIDE DEF bad
<1> QED BY <1>1, <1>6, <1>7, <1>8, <1>11

-----------------------------------------------------------------------------
(***************************************************************************)
(* The walk.                                                               *)
(***************************************************************************)
(* Read in an earlier partition, or in this one and not above the last.    *)
Earlier(f, c, id) == \E p \in 1..(c - 1) : Matches(id, f[p])
Here(f, c, l, id) == l # NoId /\ id.t = l.t /\ id.v <= l.v /\ Matches(id, f[c])
Reads(f, c, l, e) == \A i \in DOMAIN e : Earlier(f, c, e[i]) \/ Here(f, c, l, e[i])

WalkInv ==
  /\ docs \in SUBSET Ids /\ IsFiniteSet(docs) /\ before \subseteq docs
  /\ IsCut(parts, Excepted(before))
  /\ cur \in 1..(Len(parts) + 1) /\ (status = "reading" => cur <= Len(parts))
  /\ last \in Ids \cup {NoId} /\ (last # NoId => cur <= Len(parts) /\ Matches(last, parts[cur]))
  /\ emitted \in Seq(Ids)
  /\ Reads(parts, cur, last, emitted)
  /\ NoDocumentIsReadTwice

LEMMA IdsAreIds == Ids \subseteq AllIds /\ NoId \notin Ids
BY ReaderAssumption, OpenClauses DEF AllIds

LEMMA InitWalkInv == ReaderInit => WalkInv
<1> SUFFICES ASSUME ReaderInit PROVE WalkInv
  OBVIOUS
<1>1. /\ docs \in SUBSET Ids /\ docs # {} /\ IsFiniteSet(docs) /\ before = docs
      /\ \A id \in docs : id.t = "objectId" => id.v >= 0
  BY ReaderAssumption DEF ReaderInit
<1>2. PICK idType \in IdTypeSettings, sample \in SUBSET docs, seed \in docs \cup {NoId},
           n \in Counts, discovered \in BOOLEAN :
         parts = Partition(docs, idType, sample, seed, n, MaxReadPartitions, discovered)
  BY DEF ReaderInit
<1>3. docs \in SUBSET AllIds /\ n \in Nat \ {0} /\ MaxReadPartitions \in Nat \ {0}
  BY <1>1, IdsAreIds, ReaderAssumption
<1>4. IsCut(Partition(docs, idType, sample, seed, n, MaxReadPartitions, discovered), Excepted(docs))
  BY <1>1, <1>3, CutIsApart
<1>5. IsCut(parts, Excepted(before))
  BY <1>1, <1>2, <1>4
<1>6. Len(parts) \in Nat /\ Len(parts) >= 1
  BY <1>5 DEF IsCut, Numbered
<1>7. cur = 1 /\ last = NoId /\ emitted = <<>>
  BY DEF ReaderInit
<1>8. emitted \in Seq(Ids) /\ DOMAIN emitted = {}
  BY <1>7
<1>9. NoDocumentIsReadTwice
  BY <1>8 DEF NoDocumentIsReadTwice, OverlappingSlices
<1>10. Reads(parts, cur, last, emitted)
  BY <1>8 DEF Reads
<1> QED BY <1>1, <1>5, <1>6, <1>7, <1>8, <1>9, <1>10 DEF WalkInv

(* The documents a step emits from a page: they meet the filter of the     *)
(* partition and follow the last one read.                                 *)
FromPage(page, k) ==
  /\ page \in Seq(Ids) /\ k \in 0..Len(page)
  /\ \A m \in 1..k : /\ page[m] \in docs /\ Matches(page[m], parts[cur])
                     /\ last # NoId => page[m].t = last.t /\ last.v < page[m].v
  /\ \A i, j \in 1..k : i < j => page[i].t = page[j].t /\ page[i].v < page[j].v

LEMMA EmittedFromPage ==
  ASSUME WalkInv, status = "reading", NEW page, page = Page(parts[cur]),
         NEW k \in Nat, k <= StopAt(page, parts[cur]) - 1
  PROVE  FromPage(page, k)
<1>1. PICK f : f = parts[cur]
  OBVIOUS
<1>2. PICK l : l = last
  OBVIOUS
<1>3. docs \in SUBSET AllIds /\ IsFiniteSet(docs) /\ docs \in SUBSET Ids
      /\ l \in AllIds \cup {NoId} /\ (l # NoId => Matches(l, f))
  BY <1>1, <1>2, IdsAreIds DEF WalkInv
<1>4. cur \in 1..Len(parts)
  BY DEF WalkInv, IsCut, Numbered
<1>5. Filter(f)
  BY <1>1, <1>4 DEF WalkInv, IsCut
<1>6. page \in Seq(Selected(docs, PageFilter(f, l)))
  BY <1>1, <1>2, <1>3, PageIsOfDocuments
<1>7. Selected(docs, PageFilter(f, l)) \subseteq docs
      /\ \A id \in Selected(docs, PageFilter(f, l)) : Matches(id, PageFilter(f, l))
  BY DEF Selected
<1>8. page \in Seq(AllIds) /\ page \in Seq(Ids) /\ Len(page) \in Nat
  BY <1>3, <1>6, <1>7
<1>9. StopAt(page, f) \in 1..(Len(page) + 1)
      /\ \A m \in 1..(StopAt(page, f) - 1) : ~PastBound(page[m], f) /\ ~Unordered(page, m, f)
  BY <1>8, WalkStops
<1>10. PICK stop : stop = StopAt(page, f)
  OBVIOUS
<1>11. k \in 0..Len(page) /\ \A m \in 1..k : m \in 1..(stop - 1) /\ m \in 1..Len(page)
  BY <1>1, <1>8, <1>9, <1>10
<1>12. \A m \in 1..k : ~PastBound(page[m], f) /\ ~Unordered(page, m, f)
  BY <1>9, <1>10, <1>11
<1>13. \A i, j \in 1..k : i < j => page[i].t = page[j].t /\ page[i].v < page[j].v
  BY <1>8, <1>11, <1>12, WalkAscends
<1>14. ASSUME NEW m \in 1..k
       PROVE  /\ page[m] \in docs /\ Matches(page[m], f)
              /\ l # NoId => page[m].t = l.t /\ l.v < page[m].v
  <2>1. PICK id : id = page[m]
    OBVIOUS
  <2>2. id \in Selected(docs, PageFilter(f, l))
    BY <1>6, <1>11, <2>1
  <2>3. id \in docs /\ id \in AllIds /\ Matches(id, PageFilter(f, l))
    BY <1>3, <1>7, <2>2
  <2>4. ~PastBound(id, f) /\ (UpperBound(f) # NoId => Comparable(id, UpperBound(f)))
    BY <1>12, <2>1 DEF Unordered
  <2>5. Matches(id, f) /\ (l # NoId => id.t = l.t /\ l.v < id.v)
    BY <1>3, <1>5, <2>3, <2>4, PageMeetsFilter
  <2> QED BY <2>1, <2>3, <2>5
<1> QED BY <1>1, <1>2, <1>8, <1>11, <1>13, <1>14 DEF FromPage

LEMMA Appended ==
  ASSUME NEW S, NEW e \in Seq(S), NEW page \in Seq(S), NEW k \in 0..Len(page)
  PROVE  /\ e \o SubSeq(page, 1, k) \in Seq(S)
         /\ Len(e \o SubSeq(page, 1, k)) = Len(e) + k
         /\ \A i \in 1..Len(e) : (e \o SubSeq(page, 1, k))[i] = e[i]
         /\ \A i \in 1..k : (e \o SubSeq(page, 1, k))[Len(e) + i] = page[i]
<1>1. PICK s : s = SubSeq(page, 1, k)
  OBVIOUS
<1>2. s \in Seq(S) /\ Len(s) = k /\ \A i \in 1..k : s[i] = page[i]
  BY <1>1
<1> QED BY <1>1, <1>2

(* What a step emits is above what it emitted of this partition before,    *)
(* and in no earlier partition but for the excepted documents.             *)
Emits(page, k, new) ==
  /\ page \in Seq(Ids) /\ k \in 0..Len(page) /\ new \in Seq(Ids)
  /\ \A i \in DOMAIN new : Earlier(parts, cur, new[i]) \/ Matches(new[i], parts[cur])
  /\ \A i, j \in DOMAIN new :
       i < j /\ new[i] = new[j] => OverlappingSlices(new[i]) \/ (new[i] \notin before /\ ~OneType(before))
  /\ k = 0 => new = emitted
  /\ k # 0 => /\ page[k] \in Ids /\ Matches(page[k], parts[cur])
              /\ \A i \in DOMAIN new :
                   \/ Earlier(parts, cur, new[i])
                   \/ /\ new[i].t = page[k].t /\ new[i].v <= page[k].v
                      /\ Matches(new[i], parts[cur])

LEMMA EmittingKeepsOrder ==
  ASSUME WalkInv, status = "reading", NEW page, page = Page(parts[cur]),
         NEW k \in Nat, k <= StopAt(page, parts[cur]) - 1,
         NEW new, new = emitted \o SubSeq(page, 1, k)
  PROVE  Emits(page, k, new)
<1>1. /\ page \in Seq(Ids) /\ k \in 0..Len(page)
      /\ \A m \in 1..k : /\ page[m] \in docs /\ Matches(page[m], parts[cur])
                         /\ last # NoId => page[m].t = last.t /\ last.v < page[m].v
      /\ \A i, j \in 1..k : i < j => page[i].t = page[j].t /\ page[i].v < page[j].v
  <2>1. FromPage(page, k)
    BY EmittedFromPage
  <2> QED BY <2>1 DEF FromPage
<1>2. emitted \in Seq(Ids) /\ \A i \in DOMAIN emitted : Earlier(parts, cur, emitted[i]) \/ Here(parts, cur, last, emitted[i])
  BY DEF WalkInv, Reads
<1>3. PICK L \in Nat : L = Len(emitted) /\ DOMAIN emitted = 1..L
  BY <1>2
<1>4. /\ new \in Seq(Ids) /\ Len(new) = L + k
      /\ \A i \in 1..L : new[i] = emitted[i]
      /\ \A i \in 1..k : new[L + i] = page[i]
  BY <1>1, <1>2, <1>3, Appended
<1>5. DOMAIN new = 1..(L + k)
  BY <1>4
<1>6. \A i \in DOMAIN new : i \in 1..L \/ (\E m \in 1..k : i = L + m)
  <2>1. SUFFICES ASSUME NEW i \in 1..(L + k), i \notin 1..L PROVE \E m \in 1..k : i = L + m
    BY <1>5
  <2>2. i - L \in 1..k /\ i = L + (i - L)
    BY <1>1, <2>1
  <2> QED BY <2>2
<1>7. \A m \in 1..k : page[m] \in docs /\ page[m] \in AllIds /\ page[m].v \in Int
  <2>1. \A id \in docs : id \in AllIds /\ id.v \in Int
    BY IdsAreIds DEF WalkInv, AllIds
  <2> QED BY <1>1, <2>1
<1>8. last # NoId => last.v \in Int
  BY IdsAreIds DEF WalkInv, AllIds
<1>9. \A i \in DOMAIN new : new[i] \in Ids /\ new[i] \in AllIds /\ new[i].v \in Int
  <2>1. \A i \in DOMAIN new : new[i] \in Ids
    BY <1>4
  <2>2. \A id \in Ids : id \in AllIds /\ id.v \in Int
    BY IdsAreIds DEF AllIds
  <2> QED BY <2>1, <2>2
<1>10. \A i \in DOMAIN new : Earlier(parts, cur, new[i]) \/ Matches(new[i], parts[cur])
  <2> SUFFICES ASSUME NEW i \in DOMAIN new PROVE Earlier(parts, cur, new[i]) \/ Matches(new[i], parts[cur])
    OBVIOUS
  <2>1. CASE i \in 1..L
    BY <1>2, <1>3, <1>4, <2>1 DEF Here
  <2>2. CASE \E m \in 1..k : i = L + m
    BY <1>1, <1>4, <2>2
  <2> QED BY <1>6, <2>1, <2>2
<1>11. ASSUME NEW i \in DOMAIN new, NEW j \in DOMAIN new, i < j, new[i] = new[j]
       PROVE  OverlappingSlices(new[i]) \/ (new[i] \notin before /\ ~OneType(before))
  <2>1. CASE j \in 1..L
    <3>1. i \in 1..L
      BY <1>5, <1>11, <2>1
    <3>2. emitted[i] = emitted[j] /\ new[i] = emitted[i] /\ i \in DOMAIN emitted /\ j \in DOMAIN emitted
      BY <1>3, <1>4, <1>11, <2>1, <3>1
    <3>3. NoDocumentIsReadTwice
      BY DEF WalkInv
    <3> QED BY <1>11, <3>2, <3>3 DEF NoDocumentIsReadTwice, OverlappingSlices
  <2>2. CASE \E m \in 1..k : j = L + m
    <3>1. PICK m \in 1..k : j = L + m
      BY <2>2
    <3>2. PICK id : id = page[m]
      OBVIOUS
    <3>3. new[j] = id /\ new[i] = id /\ id \in AllIds /\ Matches(id, parts[cur]) /\ id.v \in Int
      BY <1>1, <1>4, <1>7, <1>11, <3>1, <3>2
    <3>4. CASE i \in 1..L
      <4>1. Earlier(parts, cur, id) \/ Here(parts, cur, last, id)
        BY <1>2, <1>3, <1>4, <3>3, <3>4
      <4>2. ~Here(parts, cur, last, id)
        BY <1>1, <1>8, <3>1, <3>2, <3>3 DEF Here
      <4>3. PICK p \in 1..(cur - 1) : Matches(id, parts[p])
        BY <4>1, <4>2 DEF Earlier
      <4>4. p \in 1..Len(parts) /\ cur \in 1..Len(parts) /\ p < cur
        BY DEF WalkInv, IsCut, Numbered
      <4>5. id \in Excepted(before) \cup Overlapping(Len(parts))
        BY <3>3, <4>3, <4>4 DEF WalkInv, IsCut, Apart
      <4>6. CASE id \in Excepted(before)
        BY <3>3, <4>6 DEF Excepted
      <4>7. CASE id \in Overlapping(Len(parts))
        BY <3>3, <4>7 DEF Overlapping, OverlappingSlices
      <4> QED BY <4>5, <4>6, <4>7
    <3>5. CASE \E h \in 1..k : i = L + h
      <4>1. PICK h \in 1..k : i = L + h
        BY <3>5
      <4>2. h < m /\ page[h] = page[m]
        <5>1. new[i] = page[h] /\ new[j] = page[m]
          BY <1>4, <3>1, <4>1
        <5>2. h < m
          BY <1>3, <1>11, <3>1, <4>1
        <5> QED BY <1>11, <5>1, <5>2
      <4>3. page[h].v < page[m].v
        BY <1>1, <4>2
      <4> QED BY <1>7, <4>2, <4>3
    <3> QED BY <1>6, <3>4, <3>5
  <2> QED BY <1>6, <2>1, <2>2
<1>12. ASSUME k = 0 PROVE new = emitted
  <2>1. Len(new) = Len(emitted) /\ \A i \in 1..L : new[i] = emitted[i]
    BY <1>3, <1>4, <1>12
  <2> QED BY <1>2, <1>3, <1>4, <2>1
<1>13. ASSUME k # 0
       PROVE  /\ page[k] \in Ids /\ Matches(page[k], parts[cur])
              /\ \A i \in DOMAIN new :
                   \/ Earlier(parts, cur, new[i])
                   \/ /\ new[i].t = page[k].t /\ new[i].v <= page[k].v
                      /\ Matches(new[i], parts[cur])
  <2>1. k \in 1..k
    BY <1>13
  <2>2. PICK top : top = page[k]
    OBVIOUS
  <2>3. top \in Ids /\ Matches(top, parts[cur]) /\ top.v \in Int
        /\ (last # NoId => top.t = last.t /\ last.v < top.v)
    BY <1>1, <1>7, <2>1, <2>2 DEF WalkInv
  <2>4. ASSUME NEW i \in DOMAIN new
        PROVE  \/ Earlier(parts, cur, new[i])
               \/ new[i].t = top.t /\ new[i].v <= top.v /\ Matches(new[i], parts[cur])
    <3>1. CASE i \in 1..L
      <4>1. Earlier(parts, cur, new[i]) \/ Here(parts, cur, last, new[i])
        BY <1>2, <1>3, <1>4, <3>1
      <4>2. ASSUME Here(parts, cur, last, new[i])
            PROVE  new[i].t = top.t /\ new[i].v <= top.v /\ Matches(new[i], parts[cur])
        BY <1>8, <1>9, <2>3, <4>2 DEF Here
      <4> QED BY <4>1, <4>2
    <3>2. CASE \E m \in 1..k : i = L + m
      <4>1. PICK m \in 1..k : i = L + m
        BY <3>2
      <4>2. new[i] = page[m] /\ Matches(page[m], parts[cur]) /\ page[m].v \in Int
        BY <1>1, <1>4, <1>7, <4>1
      <4>3. m < k => page[m].t = top.t /\ page[m].v < top.v
        BY <1>1, <2>1, <2>2
      <4>4. m = k \/ m < k
        OBVIOUS
      <4>5. CASE m = k
        <5>1. new[i] = top
          BY <2>2, <4>2, <4>5
        <5> QED BY <2>3, <5>1
      <4>6. CASE m < k
        BY <2>3, <4>2, <4>3, <4>6
      <4> QED BY <4>4, <4>5, <4>6
    <3> QED BY <1>6, <3>1, <3>2
  <2> QED BY <2>2, <2>3, <2>4
<1> QED BY <1>1, <1>4, <1>10, <1>11, <1>12, <1>13 DEF Emits

LEMMA EmitKeepsWalk ==
  ASSUME WalkInv, status = "reading", NEW page, page = Page(parts[cur]),
         NEW k \in Nat, k <= StopAt(page, parts[cur]) - 1,
         Emit(page, k), UNCHANGED <<docs, before, parts, cur>>
  PROVE  WalkInv'
<1>1. PICK new : new = emitted \o SubSeq(page, 1, k)
  OBVIOUS
<1>2. Emits(page, k, new)
  BY <1>1, EmittingKeepsOrder
<1>3. emitted' = new /\ last' = (IF k = 0 THEN last ELSE page[k])
  BY <1>1 DEF Emit
<1>4. docs' = docs /\ before' = before /\ parts' = parts /\ cur' = cur
  OBVIOUS
<1>5. /\ docs' \in SUBSET Ids /\ IsFiniteSet(docs') /\ before' \subseteq docs'
      /\ cur' \in 1..(Len(parts') + 1) /\ cur' <= Len(parts')
  BY <1>4 DEF WalkInv
<1>6. IsCut(parts', Excepted(before)')
  BY <1>4 DEF WalkInv, Excepted
<1>7. new \in Seq(Ids)
      /\ \A i, j \in DOMAIN new : i < j /\ new[i] = new[j] => OverlappingSlices(new[i]) \/ (new[i] \notin before /\ ~OneType(before))
  BY <1>2 DEF Emits
<1>8. NoDocumentIsReadTwice'
  BY <1>3, <1>4, <1>7 DEF NoDocumentIsReadTwice, OverlappingSlices
<1>9. CASE k = 0
  <2>1. new = emitted /\ last' = last
    BY <1>2, <1>3, <1>9 DEF Emits
  <2>2. last \in Ids \cup {NoId} /\ (last # NoId => cur <= Len(parts) /\ Matches(last, parts[cur]))
        /\ Reads(parts, cur, last, emitted)
    BY DEF WalkInv
  <2>4. emitted' = emitted
    BY <1>3, <2>1
  <2>5. Reads(parts', cur', last', emitted')
    BY <1>4, <2>1, <2>2, <2>4
  <2> QED BY <1>3, <1>4, <1>5, <1>6, <1>7, <1>8, <2>1, <2>2, <2>5 DEF WalkInv
<1>10. CASE k # 0
  <2>1. PICK top : top = page[k]
    OBVIOUS
  <2>2. /\ top \in Ids /\ Matches(top, parts[cur])
        /\ \A i \in DOMAIN new : \/ Earlier(parts, cur, new[i])
                                 \/ /\ new[i].t = top.t /\ new[i].v <= top.v
                                    /\ Matches(new[i], parts[cur])
    BY <1>2, <1>10, <2>1 DEF Emits
  <2>3. last' = top /\ top # NoId
    BY <1>3, <1>10, <2>1, <2>2, IdsAreIds
  <2>4. Reads(parts, cur, top, new)
    BY <2>2, <2>3 DEF Reads, Here
  <2>5. Reads(parts', cur', last', emitted')
    BY <1>3, <1>4, <2>3, <2>4
  <2>6. /\ last' \in Ids \cup {NoId}
        /\ last' # NoId => cur' <= Len(parts') /\ Matches(last', parts'[cur'])
    BY <1>4, <1>5, <2>2, <2>3
  <2> QED BY <1>3, <1>5, <1>6, <1>7, <1>8, <2>5, <2>6 DEF WalkInv
<1> QED BY <1>9, <1>10

(* The end of a partition: the next begins before its first document.      *)
LEMMA NextKeepsWalk ==
  ASSUME WalkInv, status = "reading", NEW page, page = Page(parts[cur]),
         NEW k \in Nat, k <= StopAt(page, parts[cur]) - 1,
         emitted' = emitted \o SubSeq(page, 1, k), last' = NoId, NextPartition,
         UNCHANGED <<docs, before, parts>>
  PROVE  WalkInv'
<1>1. PICK new : new = emitted \o SubSeq(page, 1, k)
  OBVIOUS
<1>2. Emits(page, k, new)
  BY <1>1, EmittingKeepsOrder
<1>3. /\ emitted' = new /\ last' = NoId /\ docs' = docs /\ before' = before /\ parts' = parts
      /\ cur' = cur + 1 /\ status' = IF cur = Len(parts) THEN "done" ELSE "reading"
  BY <1>1 DEF NextPartition
<1>4. cur \in 1..Len(parts) /\ Len(parts) \in Nat
  BY DEF WalkInv, IsCut, Numbered
<1>5. /\ docs' \in SUBSET Ids /\ IsFiniteSet(docs') /\ before' \subseteq docs'
      /\ cur' \in 1..(Len(parts') + 1) /\ (status' = "reading" => cur' <= Len(parts'))
  BY <1>3, <1>4 DEF WalkInv
<1>6. IsCut(parts', Excepted(before)')
  BY <1>3 DEF WalkInv, Excepted
<1>7. /\ new \in Seq(Ids)
      /\ \A i, j \in DOMAIN new : i < j /\ new[i] = new[j] => OverlappingSlices(new[i]) \/ (new[i] \notin before /\ ~OneType(before))
      /\ \A i \in DOMAIN new : Earlier(parts, cur, new[i]) \/ Matches(new[i], parts[cur])
  BY <1>2 DEF Emits
<1>8. NoDocumentIsReadTwice'
  BY <1>3, <1>7 DEF NoDocumentIsReadTwice, OverlappingSlices
<1>9. ASSUME NEW id, Earlier(parts, cur, id) \/ Matches(id, parts[cur]) PROVE Earlier(parts, cur + 1, id)
  <2>1. PICK p \in 1..cur : Matches(id, parts[p])
    BY <1>4, <1>9 DEF Earlier
  <2>2. p \in 1..((cur + 1) - 1)
    BY <1>4
  <2> QED BY <2>1, <2>2 DEF Earlier
<1>10. Reads(parts', cur', last', emitted')
  <2>1. Reads(parts, cur + 1, NoId, new)
    BY <1>7, <1>9 DEF Reads
  <2> QED BY <1>3, <2>1
<1> QED BY <1>3, <1>5, <1>6, <1>7, <1>8, <1>10 DEF WalkInv

LEMMA StopIsInPage ==
  ASSUME WalkInv, NEW f
  PROVE  Len(Page(f)) \in Nat /\ StopAt(Page(f), f) \in 1..(Len(Page(f)) + 1)
<1>1. docs \in SUBSET AllIds /\ IsFiniteSet(docs)
  BY IdsAreIds DEF WalkInv
<1>2. Page(f) \in Seq(Selected(docs, PageFilter(f, last)))
  BY <1>1, PageIsOfDocuments
<1>3. Selected(docs, PageFilter(f, last)) \subseteq AllIds
  BY <1>1 DEF Selected
<1>4. Page(f) \in Seq(AllIds)
  BY <1>2, <1>3
<1> QED BY <1>4, WalkStops

LEMMA WalkStep == WalkInv /\ [ReaderNext]_readerVars => WalkInv'
<1> SUFFICES ASSUME WalkInv, [ReaderNext]_readerVars PROVE WalkInv'
  OBVIOUS
<1> DEFINE page == Page(parts[cur])
           stop == StopAt(page, parts[cur])
<1>1. Len(page) \in Nat /\ stop \in 1..(Len(page) + 1)
  BY StopIsInPage
<1>2. CASE ReadPage
  <2>1. status = "reading" /\ UNCHANGED <<docs, before, parts>>
    BY <1>2 DEF ReadPage
  <2>2. \/ Emit(page, stop - 1) /\ UNCHANGED cur
        \/ /\ emitted' = emitted \o SubSeq(page, 1, stop - 1)
           /\ last' = NoId /\ NextPartition
        \/ ~(stop <= Len(page)) /\ Emit(page, Len(page)) /\ UNCHANGED cur
    BY <1>2 DEF ReadPage
  <2> HIDE DEF page, stop
  <2>3. stop - 1 \in Nat /\ Len(page) \in Nat /\ (~(stop <= Len(page)) => Len(page) = stop - 1)
    BY <1>1
  <2>4. PICK k \in Nat : k = stop - 1
    BY <2>3
  <2>5. CASE Emit(page, k) /\ UNCHANGED cur
    <3>1. k <= stop - 1
      BY <2>4
    <3> QED BY <2>1, <2>5, <3>1, EmitKeepsWalk DEF page, stop
  <2>6. CASE emitted' = emitted \o SubSeq(page, 1, k) /\ last' = NoId /\ NextPartition
    <3>1. k <= stop - 1
      BY <2>4
    <3> QED BY <2>1, <2>6, <3>1, NextKeepsWalk DEF page, stop
  <2> QED BY <2>2, <2>3, <2>4, <2>5, <2>6
<1>3. CASE MemoryLimit
  <2>1. status = "reading" /\ UNCHANGED <<docs, before, parts, cur>>
    BY <1>3 DEF MemoryLimit
  <2>2. PICK k \in 0..(stop - 1) : Emit(page, k)
    BY <1>3 DEF MemoryLimit, CutShort
  <2>3. k \in Nat /\ k <= stop - 1
    <3> HIDE DEF page, stop
    <3> QED BY <1>1
  <2> QED BY <2>1, <2>2, <2>3, EmitKeepsWalk
<1>4. CASE Insert
  <2>1. PICK id \in Ids : docs' = docs \cup {id}
    BY <1>4 DEF Insert
  <2>2. UNCHANGED <<before, parts, cur, last, emitted, status>>
    BY <1>4 DEF Insert
  <2>3. docs' \in SUBSET Ids /\ IsFiniteSet(docs') /\ before' \subseteq docs'
    BY <2>1, <2>2, FS_AddElement DEF WalkInv
  <2>4. NoDocumentIsReadTwice' <=> NoDocumentIsReadTwice
    BY <2>2 DEF NoDocumentIsReadTwice, OverlappingSlices
  <2>5. IsCut(parts', Excepted(before)')
    BY <2>2 DEF WalkInv, Excepted
  <2> QED BY <2>2, <2>3, <2>4, <2>5 DEF WalkInv
<1>5. CASE UNCHANGED readerVars
  <2>1. UNCHANGED <<docs, before, parts, cur, last, emitted, status>>
    BY <1>5 DEF readerVars
  <2>2. NoDocumentIsReadTwice' <=> NoDocumentIsReadTwice
    BY <2>1 DEF NoDocumentIsReadTwice, OverlappingSlices
  <2>3. IsCut(parts', Excepted(before)')
    BY <2>1 DEF WalkInv, Excepted
  <2> QED BY <2>1, <2>2, <2>3 DEF WalkInv
<1> QED BY <1>2, <1>3, <1>4, <1>5 DEF ReaderNext

(* The partitions are disjoint, and a document that was emitted is of an   *)
(* earlier partition or not above the last one read, at every moment.      *)
THEOREM WalkInvAlways == ReaderSpec => []WalkInv
  BY InitWalkInv, WalkStep, PTL DEF ReaderSpec

(* No document present when the partitions were cut is handed to the       *)
(* workers twice, nor one inserted into a collection of one type, but for  *)
(* the strings of a collection with more partitions than prefixes of two   *)
(* digits.                                                                 *)
THEOREM NothingIsReadTwice == ReaderSpec => []NoDocumentIsReadTwice
<1>1. WalkInv => NoDocumentIsReadTwice
  BY DEF WalkInv
<1> QED BY <1>1, WalkInvAlways, PTL

-----------------------------------------------------------------------------
(***************************************************************************)
(* A collection of one type is cut without a gap.                          *)
(***************************************************************************)
OfOneType(D, t) == \A id \in D : id.t = t
Whole(f, n, D) == \A id \in D : \E i \in 1..n : Matches(id, f[i])

(* The first partition of a cut for another type: a range below a bound    *)
(* the documents cannot be compared with.                                  *)
Misfit(f, t) ==
  \E c : /\ f = {c} /\ Clause(c) /\ c.type = "any" /\ c.mod = NoMod
         /\ c.lo = NoId /\ ~c.loStrict /\ c.hi # NoId /\ c.hi.t # t

LEMMA SegmentsCover ==
  ASSUME NEW f, NEW n \in Nat \ {0}, NEW b, NEW type, NEW t, Segments(f, n, b, type),
         type \in {"any", t}, \A i \in 1..(n - 1) : b[i] \in AllIds /\ b[i].t = t,
         NEW id \in AllIds, id.t = t
  PROVE  \E i \in 1..n : Matches(id, f[i])
<1> DEFINE above == {i \in 1..n : i = n \/ id.v < b[i].v}
<1>1. above \in SUBSET Nat /\ n \in above
  OBVIOUS
<1>2. PICK i \in above : \A j \in above : i <= j
  <2> HIDE DEF above
  <2>1. above # {}
    BY <1>1
  <2> QED BY <1>1, <2>1, LeastNumber
<1>3. i \in 1..n /\ (i = n \/ id.v < b[i].v)
  OBVIOUS
<1>4. i # 1 => b[i - 1] \in AllIds /\ b[i - 1].t = t /\ b[i - 1].v <= id.v
  <2>1. SUFFICES ASSUME i # 1 PROVE b[i - 1] \in AllIds /\ b[i - 1].t = t /\ b[i - 1].v <= id.v
    OBVIOUS
  <2>2. PICK h \in 1..(n - 1) : h = i - 1
    BY <1>3, <2>1
  <2>3. h \notin above
    BY <1>2, <1>3, <2>2
  <2>4. ~(id.v < b[h].v) /\ b[h] \in AllIds /\ b[h].t = t
    BY <2>2, <2>3
  <2>5. id.v \in Int /\ b[h].v \in Int
    BY <2>4 DEF AllIds
  <2> HIDE DEF above
  <2>6. b[h].v <= id.v
    BY <2>4, <2>5
  <2> QED BY <2>2, <2>4, <2>6
<1> HIDE DEF above
<1>5. i # n => i \in 1..(n - 1) /\ b[i] \in AllIds /\ b[i].t = t /\ id.v < b[i].v
  BY <1>3
<1>6. PICK c : f[i] = {c} /\ Segment(c, i, n, b, type)
  BY <1>3 DEF Segments
<1>7. c.type \in {"any", id.t} /\ c.mod = NoMod
  BY <1>6 DEF Segment
<1>8. c.lo # NoId => c.lo.t = id.t /\ (c.lo.v < id.v \/ (c.lo.v = id.v /\ ~c.loStrict))
  <2>1. CASE i = 1
    BY <1>6, <2>1 DEF Segment
  <2>2. CASE i # 1
    <3>1. PICK lo : lo = b[i - 1]
      OBVIOUS
    <3>2. lo \in AllIds /\ lo.t = id.t /\ lo.v <= id.v /\ c.lo = lo /\ ~c.loStrict
      BY <1>4, <1>6, <2>2, <3>1 DEF Segment
    <3>3. lo.v \in Int /\ id.v \in Int
      BY <3>2 DEF AllIds
    <3>4. lo.v < id.v \/ lo.v = id.v
      BY <3>2, <3>3
    <3> QED BY <3>2, <3>4
  <2> QED BY <2>1, <2>2
<1>9. c.hi # NoId => c.hi.t = id.t /\ id.v < c.hi.v
  <2>1. CASE i = n
    BY <1>6, <2>1 DEF Segment
  <2>2. CASE i # n
    BY <1>5, <1>6, <2>2 DEF Segment
  <2> QED BY <2>1, <2>2
<1>10. Satisfies(id, c)
  BY <1>7, <1>8, <1>9 DEF Satisfies
<1> QED BY <1>3, <1>6, <1>10 DEF Matches

LEMMA RangesCover ==
  ASSUME NEW base, Open(base), NEW b, NEW n \in Nat \ {0}, NEW t, base.type \in {"any", t},
         \A i \in 1..(n - 1) : b[i] \in AllIds /\ b[i].t = t,
         NEW D \in SUBSET AllIds, OfOneType(D, t)
  PROVE  Whole(Ranges(base, b, n), n, D)
<1>1. PICK f, type : f = Ranges(base, b, n) /\ type = base.type
  OBVIOUS
<1>2. Segments(f, n, b, type)
  BY <1>1, RangesAreSegments
<1>3. ASSUME NEW id \in D PROVE \E i \in 1..n : Matches(id, f[i])
  <2>1. id \in AllIds /\ id.t = t /\ type \in {"any", t}
    BY <1>1 DEF OfOneType
  <2> QED BY <1>2, <2>1, SegmentsCover
<1> QED BY <1>1, <1>3 DEF Whole

LEMMA BoundIsOfType ==
  ASSUME NEW t \in IdTypes, NEW lo \in Int, NEW hi \in Int, NEW n \in Nat \ {0}, NEW i \in Nat
  PROVE  [t |-> t, v |-> lo + ((hi - lo) * i) \div n] \in AllIds
<1>1. PICK a \in Int : a = (hi - lo) * i
  <2>1. PICK span \in Int : span = hi - lo
    OBVIOUS
  <2>2. span * i \in Int
    BY Products
  <2> QED BY <2>1, <2>2
<1>2. a \div n \in Int
  BY Division
<1> QED BY <1>1, <1>2 DEF AllIds

LEMMA NumberSlicesCover ==
  ASSUME NEW n \in Nat \ {0}, NEW D \in SUBSET AllIds, OfOneType(D, "number"),
         \A id \in D : id.v >= 0
  PROVE  Whole(NumberSlices(n), n, D)
<1> SUFFICES ASSUME NEW id \in D PROVE \E i \in 1..n : Matches(id, NumberSlices(n)[i])
  BY DEF Whole
<1>1. PICK number : number = "number"
  OBVIOUS
<1>2. id.t = number /\ id.v \in Nat
  BY <1>1 DEF OfOneType, AllIds
<1>3. PICK r \in 0..(n - 1) : r = id.v % n
  BY <1>2
<1>4. TruncMod(id.v, n) = r
  BY <1>2, <1>3 DEF TruncMod
<1>5. PICK i \in 1..n : i = r + 1 /\ i - 1 = r
  OBVIOUS
<1>6. PICK base : base = TypeClause(number)
  OBVIOUS
<1>7. DOMAIN base = ClauseFields /\ base.type = number /\ base.lo = NoId /\ base.hi = NoId
  BY <1>6, OpenClauses DEF Open
<1>8. PICK c : c = [base EXCEPT !.mod = <<n, r>>]
  OBVIOUS
<1>9. c.type = number /\ c.lo = NoId /\ c.hi = NoId /\ c.mod = <<n, r>>
  BY <1>7, <1>8 DEF ClauseFields
<1>10. c.mod[1] = n /\ c.mod[2] = r
  BY <1>9
<1>11. Satisfies(id, c)
  BY <1>1, <1>2, <1>4, <1>9, <1>10 DEF Satisfies
<1>12. NumberSlices(n)[i] = {c}
  BY <1>1, <1>5, <1>6, <1>8 DEF NumberSlices
<1> QED BY <1>11, <1>12 DEF Matches

LEMMA StringSlicesCover ==
  ASSUME NEW n \in Nat \ {0}, NEW D \in SUBSET AllIds, OfOneType(D, "string")
  PROVE  Whole(StringSlices("string", n), n, D)
<1>1. PICK string : string = "string"
  OBVIOUS
<1>2. PICK b : b = PrefixBounds(n)
  OBVIOUS
<1>3. \A i \in 1..(n - 1) : b[i] \in AllIds /\ b[i].t = string
  BY <1>1, <1>2, PrefixBoundsAreStrings
<1>4. StringSlices(string, n) = Ranges(TypeClause(string), b, n)
  BY <1>2 DEF StringSlices, PrefixBounds
<1>5. PICK base : base = TypeClause(string) /\ Open(base) /\ base.type = string
  BY OpenClauses
<1>6. Whole(Ranges(base, b, n), n, D)
  BY <1>1, <1>3, <1>5, RangesCover
<1> QED BY <1>1, <1>4, <1>5, <1>6

LEMMA TwoEnds ==
  ASSUME NEW D \in SUBSET AllIds, IsFiniteSet(D), NEW n \in Nat \ {0, 1}, n <= Cardinality(D)
  PROVE  D # {} /\ MinId(D) # MaxId(D)
<1>1. D # {}
  <2>1. Cardinality({}) = 0
    BY FS_EmptySet
  <2> QED BY <2>1
<1>2. SUFFICES ASSUME MinId(D) = MaxId(D) PROVE FALSE
  BY <1>1
<1>3. PICK m \in D : m = MinId(D) /\ \A x \in D : x = m \/ IdLess(m, x)
  BY <1>1, MinIdIsLeast
<1>4. \A x \in D : x = m \/ IdLess(x, m)
  BY <1>1, <1>2, <1>3, MaxIdIsGreatest
<1>5. \A x \in D : x = m
  BY <1>3, <1>4, IdOrder
<1>6. D = {m}
  BY <1>5
<1>7. Cardinality({m}) = 1
  BY FS_Singleton
<1> QED BY <1>6, <1>7

LEMMA ObjectIdSlicesCover ==
  ASSUME NEW D \in SUBSET AllIds, IsFiniteSet(D), OfOneType(D, "objectId"),
         NEW n \in Nat \ {0, 1}, n <= Cardinality(D)
  PROVE  Whole(ObjectIdSlices(D, n), n, D)
<1>1. PICK t \in IdTypes : t = "objectId"
  BY TypeRanks
<1>2. PICK least, greatest : least = MinId(D) /\ greatest = MaxId(D)
  OBVIOUS
<1>3. D # {} /\ least # greatest
  BY <1>2, TwoEnds
<1>4. least \in D /\ greatest \in D
  BY <1>2, <1>3, MinIdIsLeast, MaxIdIsGreatest
<1>5. least.t = t /\ greatest.t = t
  BY <1>1, <1>4 DEF OfOneType
<1>6. PICK lo \in Int, hi \in Int : lo = least.v /\ hi = greatest.v
  BY <1>4 DEF AllIds
<1>7. ObjectIdSlices(D, n) = MinMaxRanges(TypeClause(t), t, lo, hi, n)
  BY <1>1, <1>2, <1>3, <1>5, <1>6 DEF ObjectIdSlices
<1>8. PICK b : b = [i \in 1..(n - 1) |-> [t |-> t, v |-> lo + ((hi - lo) * i) \div n]]
  OBVIOUS
<1>9. \A i \in 1..(n - 1) : b[i] \in AllIds /\ b[i].t = t
  <2> SUFFICES ASSUME NEW i \in 1..(n - 1) PROVE b[i] \in AllIds /\ b[i].t = t
    OBVIOUS
  <2>1. b[i] = [t |-> t, v |-> lo + ((hi - lo) * i) \div n]
    BY <1>8
  <2>2. [t |-> t, v |-> lo + ((hi - lo) * i) \div n] \in AllIds
    <3>1. t \in IdTypes /\ lo \in Int /\ hi \in Int /\ n \in Nat \ {0} /\ i \in Nat
      OBVIOUS
    <3> QED BY <3>1, BoundIsOfType, Zenon
  <2> QED BY <2>1, <2>2
<1>10. MinMaxRanges(TypeClause(t), t, lo, hi, n) = Ranges(TypeClause(t), b, n)
  BY <1>8 DEF MinMaxRanges
<1>11. PICK base : base = TypeClause(t) /\ Open(base) /\ base.type = t
  BY OpenClauses
<1>12. Whole(Ranges(base, b, n), n, D)
  BY <1>1, <1>9, <1>11, RangesCover
<1> QED BY <1>7, <1>10, <1>11, <1>12

LEMMA OneSliceCovers ==
  ASSUME NEW D, NEW t, OfOneType(D, t), NEW c \in {AnyId, TypeClause(t)}
  PROVE  Whole(<<{c}>>, 1, D)
<1>1. c.type \in {"any", t} /\ c.lo = NoId /\ c.hi = NoId /\ c.mod = NoMod
  BY DEF AnyId, TypeClause
<1>2. \A id \in D : Satisfies(id, c)
  BY <1>1 DEF Satisfies, OfOneType
<1>3. PICK f : f = <<{c}>>
  OBVIOUS
<1>4. f[1] = {c} /\ 1 \in 1..1
  BY <1>3
<1>5. \A id \in D : Matches(id, f[1])
  BY <1>2, <1>4 DEF Matches
<1>6. Whole(f, 1, D)
  BY <1>4, <1>5 DEF Whole
<1> QED BY <1>3, <1>6

LEMMA UniformSlicesCover ==
  ASSUME NEW t \in IdTypes, NEW D \in SUBSET AllIds, IsFiniteSet(D), OfOneType(D, t),
         \A id \in D : id.v >= 0, NEW n \in Nat \ {0}, n <= Cardinality(D)
  PROVE  Whole(UniformSlices(t, D, n), n, D)
<1>1. CASE n = 1
  BY <1>1, OneSliceCovers DEF UniformSlices
<1>2. CASE n # 1
  <2>1. n \in Nat \ {0, 1} /\ ~(n <= 1)
    BY <1>2
  <2>2. CASE t = "number"
    BY <2>1, <2>2, NumberSlicesCover DEF UniformSlices
  <2>3. CASE t = "objectId"
    BY <2>1, <2>3, ObjectIdSlicesCover DEF UniformSlices
  <2>4. CASE t = "string"
    BY <2>1, <2>4, StringSlicesCover DEF UniformSlices
  <2> QED BY <2>2, <2>3, <2>4, TypeRanks
<1> QED BY <1>1, <1>2

LEMMA QuantilesCover ==
  ASSUME NEW t, NEW D \in SUBSET AllIds, IsFiniteSet(D), OfOneType(D, t), NEW S \in SUBSET D,
         NEW n \in Nat \ {0}, Len(Sorted(S)) >= n, NEW c \in {AnyId, TypeClause(t)}
  PROVE  Whole(QuantileRanges(c, Sorted(S), n), n, D)
<1>1. CASE n = 1
  BY <1>1, OneSliceCovers DEF QuantileRanges
<1>2. CASE n # 1
  <2>1. S \in SUBSET AllIds /\ IsFiniteSet(S)
    BY FS_Subset
  <2>2. PICK N \in Nat : N = Len(Sorted(S)) /\ Sorted(S) \in [1..N -> S] /\ n <= N
    BY <2>1, SortedIsInOrder
  <2>3. PICK step \in Nat : step = N \div n /\ n * step <= N /\ step >= 1
    <3>1. N >= n
      BY <2>2
    <3> QED BY <3>1, Division
  <2>4. PICK b : b = [i \in 1..(n - 1) |-> Sorted(S)[i * step + 1]]
    OBVIOUS
  <2>5. QuantileRanges(c, Sorted(S), n) = Ranges(c, b, n)
    BY <1>2, <2>2, <2>3, <2>4 DEF QuantileRanges
  <2>6. ASSUME NEW i \in 1..(n - 1) PROVE b[i] \in AllIds /\ b[i].t = t
    <3>1. i * step \in Int /\ 0 * step <= i * step /\ (i + 1) * step <= n * step
      BY Products
    <3>2. i * step + step = (i + 1) * step
      OBVIOUS
    <3>3. i * step + 1 \in 1..N
      BY <2>3, <3>1, <3>2
    <3>4. Sorted(S)[i * step + 1] \in S
      BY <2>2, <3>3
    <3> QED BY <2>1, <2>4, <3>4 DEF OfOneType
  <2>7. Open(c) /\ c.type \in {"any", t}
    BY OpenClauses
  <2>8. Whole(Ranges(c, b, n), n, D)
    BY <2>6, <2>7, RangesCover
  <2> QED BY <2>5, <2>8
<1> QED BY <1>1, <1>2

LEMMA GroupedByTypeCovers ==
  ASSUME NEW t \in IdTypes, NEW D \in SUBSET AllIds, IsFiniteSet(D), D # {}, OfOneType(D, t),
         \A id \in D : id.v >= 0, NEW S \in SUBSET D, NEW n \in Nat \ {0}, n <= Cardinality(D)
  PROVE  Whole(GroupedByType(D, S, n), n, D)
<1> DEFINE types == {u \in IdTypes : OfType(D, u) # {}}
           own(u) == Sorted(OfType(S, u))
           slices(u) == IF Cardinality(OfType(D, u)) >= QuantileThreshold /\ Len(own(u)) >= n
                        THEN QuantileRanges(TypeClause(u), own(u), n)
                        ELSE UniformSlices(u, D, n)
           merged == [i \in 1..n |-> UNION {slices(u)[i] : u \in types}]
<1>1. t \in types
  BY DEF OfType, OfOneType
<1>2. GroupedByType(D, S, n) = merged
  BY <1>1 DEF GroupedByType
<1>3. Whole(slices(t), n, D)
  <2>1. OfType(S, t) \in SUBSET D
    BY DEF OfType
  <2>2. Whole(UniformSlices(t, D, n), n, D)
    BY UniformSlicesCover
  <2>3. Len(own(t)) >= n => Whole(QuantileRanges(TypeClause(t), own(t), n), n, D)
    BY <2>1, QuantilesCover
  <2> QED BY <2>2, <2>3
<1> HIDE DEF types, slices
<1>4. PICK f : f = merged
  OBVIOUS
<1>5. \A i \in 1..n : \A c \in slices(t)[i] : c \in f[i]
  BY <1>1, <1>4
<1>6. Whole(f, n, D)
  BY <1>3, <1>5 DEF Whole, Matches
<1> QED BY <1>2, <1>4, <1>6

LEMMA LegacySampledCovers ==
  ASSUME NEW t, NEW D \in SUBSET AllIds, IsFiniteSet(D), OfOneType(D, t), NEW S \in SUBSET D,
         NEW n \in Nat \ {0}
  PROVE  \E m \in {1, n} : Whole(LegacySampled(S, n), m, D) /\ Len(LegacySampled(S, n)) = m
<1>1. S \in SUBSET AllIds /\ IsFiniteSet(S)
  BY FS_Subset
<1>2. CASE Cardinality(S) < n
  <2>1. LegacySampled(S, n) = <<{AnyId}>>
    BY <1>2 DEF LegacySampled, Everything
  <2>2. Whole(<<{AnyId}>>, 1, D) /\ Len(<<{AnyId}>>) = 1
    BY OneSliceCovers
  <2> QED BY <2>1, <2>2
<1>3. CASE ~(Cardinality(S) < n)
  <2>1. LegacySampled(S, n) = QuantileRanges(AnyId, Sorted(S), n)
    BY <1>3 DEF LegacySampled
  <2>2. Len(Sorted(S)) >= n
    BY <1>1, <1>3, SortedIsInOrder
  <2>3. Whole(QuantileRanges(AnyId, Sorted(S), n), n, D)
    BY <2>2, QuantilesCover
  <2>4. Len(QuantileRanges(AnyId, Sorted(S), n)) = n
    BY DEF QuantileRanges, Ranges
  <2> QED BY <2>1, <2>3, <2>4
<1> QED BY <1>2, <1>3

(* A cut either has all documents of the type or cannot be read.           *)
Fits(f, D, t) == Whole(f, Len(f), D) \/ Misfit(f[1], t)

LEMMA MinMaxFits ==
  ASSUME NEW D \in SUBSET AllIds, IsFiniteSet(D), D # {}, NEW t, OfOneType(D, t),
         NEW u \in {"objectId", "number"}, NEW n \in Nat \ {0}
  PROVE  Fits(MinMaxPartitions(u, D, n), D, t)
<1>1. u \in IdTypes
  BY TypeRanks
<1>2. /\ MinId(D) \in D /\ MaxId(D) \in D /\ MinId(D).t = t /\ MaxId(D).t = t
      /\ MinId(D).v \in Int /\ MaxId(D).v \in Int
  BY MinIdIsLeast, MaxIdIsGreatest DEF OfOneType, AllIds
<1>3. PICK lo \in Int, hi \in Int : lo = EndOf(u, MinId(D)) /\ hi = EndOf(u, MaxId(D))
  BY <1>2 DEF EndOf
<1>4. PICK f : f = MinMaxPartitions(u, D, n)
  OBVIOUS
<1>5. f = MinMaxRanges(AnyId, u, lo, hi, n)
  BY <1>3, <1>4 DEF MinMaxPartitions, EndOf
<1>6. CASE n = 1
  <2>1. PICK top : top = [t |-> u, v |-> hi + 1]
    OBVIOUS
  <2>2. top \in AllIds /\ top.t = u /\ top.v = hi + 1 /\ top # NoId
    <3>1. top \in AllIds
      BY <1>1, <2>1 DEF AllIds
    <3> QED BY <2>1, <3>1, OpenClauses
  <2>3. PICK c : c = Below(AnyId, top)
    OBVIOUS
  <2>4. f = <<{c}>>
    BY <1>5, <1>6, <2>1, <2>3 DEF MinMaxRanges
  <2>5. Len(f) = 1 /\ f[1] = {c}
    BY <2>4
  <2>6. /\ DOMAIN c = ClauseFields /\ c.type = "any" /\ c.mod = NoMod /\ c.lo = NoId
        /\ ~c.loStrict /\ c.hi = top
    BY <2>3 DEF Below, AnyId, ClauseFields
  <2>7. CASE u = t
    <3>1. ASSUME NEW id \in D PROVE Matches(id, f[1])
      <4>1. id.t = t /\ id.v \in Int /\ id \in AllIds
        BY DEF OfOneType, AllIds
      <4>2. hi = MaxId(D).v
        BY <1>2, <1>3, <2>7 DEF EndOf
      <4>3. id.v <= hi
        <5>1. PICK m \in D : m = MaxId(D) /\ (id = m \/ IdLess(id, m))
          BY MaxIdIsGreatest
        <5>2. m.t = t /\ m.v = hi
          BY <4>2, <5>1 DEF OfOneType
        <5> QED BY <4>1, <5>1, <5>2, IdOrder
      <4>4. id.v < top.v
        BY <2>2, <4>1, <4>3
      <4>5. Satisfies(id, c)
        BY <2>2, <2>6, <2>7, <4>1, <4>4 DEF Satisfies
      <4> QED BY <2>5, <4>5 DEF Matches
    <3>2. 1 \in 1..1
      OBVIOUS
    <3>3. Whole(f, 1, D)
      BY <3>1, <3>2 DEF Whole
    <3> QED BY <1>4, <2>5, <3>3 DEF Fits
  <2>8. CASE u # t
    <3>1. Clause(c)
      BY <2>2, <2>6 DEF Clause
    <3>2. Misfit(f[1], t)
      BY <2>2, <2>5, <2>6, <2>8, <3>1 DEF Misfit
    <3> QED BY <1>4, <3>2 DEF Fits
  <2> QED BY <2>7, <2>8
<1>7. CASE n # 1
  <2>1. PICK b : b = [i \in 1..(n - 1) |-> [t |-> u, v |-> lo + ((hi - lo) * i) \div n]]
    OBVIOUS
  <2>2. f = Ranges(AnyId, b, n)
    BY <1>5, <1>7, <2>1 DEF MinMaxRanges
  <2>3. \A i \in 1..(n - 1) : b[i] \in AllIds /\ b[i].t = u
    <3> SUFFICES ASSUME NEW i \in 1..(n - 1) PROVE b[i] \in AllIds /\ b[i].t = u
      OBVIOUS
    <3>1. b[i] = [t |-> u, v |-> lo + ((hi - lo) * i) \div n]
      BY <2>1
    <3>2. u \in IdTypes /\ lo \in Int /\ hi \in Int /\ n \in Nat \ {0} /\ i \in Nat
      BY <1>1
    <3>3. [t |-> u, v |-> lo + ((hi - lo) * i) \div n] \in AllIds
      BY <3>2, BoundIsOfType, Zenon
    <3> QED BY <3>1, <3>3
  <2>4. Len(f) = n
    BY <2>2 DEF Ranges
  <2>5. PICK base : base = AnyId /\ Open(base) /\ base.type = "any"
    BY OpenClauses
  <2>6. CASE u = t
    <3>1. Whole(Ranges(base, b, n), n, D)
      BY <2>3, <2>5, <2>6, RangesCover
    <3> QED BY <1>4, <2>2, <2>4, <2>5, <3>1 DEF Fits
  <2>7. CASE u # t
    <3>1. Segments(f, n, b, base.type)
      BY <2>2, <2>5, RangesAreSegments
    <3>2. PICK k : k = 1
      OBVIOUS
    <3>3. k \in 1..n /\ k # n /\ k \in 1..(n - 1)
      BY <1>7, <3>2
    <3>4. PICK c : f[k] = {c} /\ Segment(c, k, n, b, base.type)
      BY <3>1, <3>3 DEF Segments
    <3>5. PICK top : top = b[k] /\ top \in AllIds /\ top.t = u
      BY <2>3, <3>3
    <3>6. top # NoId
      BY <3>5, OpenClauses
    <3>7. /\ DOMAIN c = ClauseFields /\ c.type = "any" /\ c.mod = NoMod /\ c.lo = NoId
          /\ ~c.loStrict /\ c.hi = top
      BY <2>5, <3>2, <3>3, <3>4, <3>5 DEF Segment
    <3>8. Clause(c)
      BY <3>5, <3>7 DEF Clause
    <3>9. Misfit(f[k], t)
      BY <2>7, <3>4, <3>5, <3>6, <3>7, <3>8 DEF Misfit
    <3> QED BY <1>4, <3>2, <3>9 DEF Fits
  <2> QED BY <2>6, <2>7
<1> QED BY <1>6, <1>7

LEMMA TypedFits ==
  ASSUME NEW D \in SUBSET AllIds, IsFiniteSet(D), D # {}, NEW t, OfOneType(D, t),
         NEW u \in {"objectId", "number"}, NEW S \in SUBSET D,
         NEW n \in Nat \ {0}, NEW maxParts \in Nat \ {0}
  PROVE  Fits(TypedPartitions(u, D, S, n, maxParts), D, t)
<1>1. PICK T : T = OfType(S, u)
  OBVIOUS
<1>2. T \in SUBSET AllIds /\ IsFiniteSet(T) /\ (\A id \in T : id \in D /\ id.t = u)
  <2>1. T \subseteq D /\ \A id \in T : id.t = u
    BY <1>1 DEF OfType
  <2> QED BY <2>1, FS_Subset
<1>3. PICK N \in Nat : N = Cardinality(T) /\ N = Len(Sorted(T)) /\ Sorted(T) \in [1..N -> T]
  BY <1>2, SortedIsInOrder
<1>4. PICK f : f = TypedPartitions(u, D, S, n, maxParts)
  OBVIOUS
<1>5. CASE N >= n + 1
  <2>1. PICK step \in Nat : step = N \div (n + 1) /\ (n + 1) * step <= N /\ step >= 1
    <3>1. PICK k \in Nat \ {0} : k = n + 1 /\ N >= k
      BY <1>5
    <3>2. N \div k \in Int /\ k * (N \div k) <= N /\ (N >= k => N \div k >= 1)
      <4>1. N \in Int
        OBVIOUS
      <4> QED BY <4>1, Division, Zenon
    <3>3. PICK q \in Int : q = N \div k /\ k * q <= N /\ q >= 1
      BY <3>1, <3>2
    <3> QED BY <3>1, <3>3
  <2>2. PICK b : b = [i \in 1..(n - 1) |-> Sorted(T)[(i + 1) * step + 1]]
    OBVIOUS
  <2>3. f = Ranges(AnyId, b, n)
    BY <1>1, <1>3, <1>4, <1>5, <2>1, <2>2 DEF TypedPartitions, SampledRanges
  <2>4. u = t
    <3>1. T # {}
      <4>1. Cardinality({}) = 0
        BY FS_EmptySet
      <4> QED BY <1>3, <1>5, <4>1
    <3> QED BY <1>2, <3>1 DEF OfOneType
  <2>5. ASSUME NEW i \in 1..(n - 1) PROVE b[i] \in AllIds /\ b[i].t = t
    <3>1. (i + 1) * step \in Int /\ 0 * step <= (i + 1) * step /\ (i + 1) * step <= n * step
      BY Products
    <3>2. n * step + step = (n + 1) * step /\ n * step \in Int
      OBVIOUS
    <3>3. (i + 1) * step + 1 \in 1..N
      BY <2>1, <3>1, <3>2
    <3>4. Sorted(T)[(i + 1) * step + 1] \in T
      BY <1>3, <3>3
    <3> QED BY <1>2, <2>2, <2>4, <3>4
  <2>6. PICK base : base = AnyId /\ Open(base) /\ base.type = "any"
    BY OpenClauses
  <2>7. Whole(Ranges(base, b, n), n, D)
    BY <2>5, <2>6, RangesCover
  <2>8. Len(f) = n
    BY <2>3 DEF Ranges
  <2> QED BY <1>4, <2>3, <2>6, <2>7, <2>8 DEF Fits
<1>6. CASE ~(N >= n + 1)
  <2>1. f = MinMaxPartitions(u, D, maxParts)
    BY <1>1, <1>3, <1>4, <1>6 DEF TypedPartitions
  <2> QED BY <1>4, <2>1, MinMaxFits
<1> QED BY <1>5, <1>6

(* The upper end of the last partition is above the documents it has.      *)
LEMMA CapFits ==
  ASSUME NEW f, NEW E, IsCut(f, E), NEW D \in SUBSET AllIds, IsFiniteSet(D),
         NEW t, OfOneType(D, t), NEW seed \in D \cup {NoId}, Fits(f, D, t)
  PROVE  Fits(CapFinalPartition(f, D, seed), D, t)
<1> DEFINE c == CHOOSE x \in f[Len(f)] : TRUE
           top == TrueMaxId(D, c, seed)
           capped == CapFinalPartition(f, D, seed)
           closed == [c EXCEPT !.hi = top, !.hiIncl = TRUE]
<1>0. Len(f) \in Nat /\ Len(f) >= 1 /\ DOMAIN f = 1..Len(f) /\ (\A i \in 1..Len(f) : Filter(f[i]))
  BY DEF IsCut, Numbered
<1>1. PICK n \in Nat \ {0} : n = Len(f) /\ DOMAIN f = 1..n /\ n \in 1..n
  <2>1. PICK n : n = Len(f)
    OBVIOUS
  <2>2. n \in Nat \ {0} /\ n \in 1..n /\ DOMAIN f = 1..n
    BY <1>0, <2>1
  <2> QED BY <2>1, <2>2
<1>2. CASE capped = f
  BY <1>2
<1>3. CASE capped # f
  <2>1. /\ Cardinality(f[n]) = 1 /\ c.type = "any" /\ c.lo # NoId /\ c.hi = NoId /\ top # NoId
        /\ capped = [f EXCEPT ![n] = {closed}]
    BY <1>1, <1>3 DEF CapFinalPartition
  <2>2. PICK h, d : h = top /\ d = closed
    OBVIOUS
  <2>3. PICK l : l = c
    OBVIOUS
  <2>4. PICK g : g = [f EXCEPT ![n] = {d}]
    OBVIOUS
  <2>5. /\ Cardinality(f[n]) = 1 /\ l.type = "any" /\ l.lo # NoId /\ l.hi = NoId /\ h # NoId
        /\ capped = g /\ d = [l EXCEPT !.hi = h, !.hiIncl = TRUE]
        /\ l = CHOOSE x \in f[n] : TRUE
    BY <1>1, <2>1, <2>2, <2>3, <2>4
  <2>6. h = TrueMaxId(D, l, seed)
    BY <2>2, <2>3
  <2> HIDE DEF c, top, capped, closed
  <2>7. f[n] = {l} /\ Clause(l)
    <3>1. f[n] # {}
      <4>1. Cardinality({}) = 0
        BY FS_EmptySet
      <4> QED BY <2>5, <4>1
    <3>2. l \in f[n]
      BY <2>5, <3>1
    <3>3. Filter(f[n])
      BY <1>0, <1>1
    <3>4. (\E x : f[n] = {x}) \/ (\A x \in f[n] : x.type # "any")
      BY <3>3 DEF Filter
    <3>5. \E x : f[n] = {x}
      BY <2>5, <3>2, <3>4
    <3>6. Clause(l)
      BY <3>2, <3>3 DEF Filter
    <3> QED BY <3>2, <3>5, <3>6
  <2>8. /\ d.type = l.type /\ d.mod = l.mod /\ d.lo = l.lo /\ d.loStrict = l.loStrict
        /\ d.hi = h /\ d.hiIncl
    BY <2>5, <2>7 DEF Clause, ClauseFields
  <2>9. DOMAIN g = 1..n /\ g[n] = {d} /\ \A i \in 1..n : i # n => g[i] = f[i]
    BY <1>1, <2>4
  <2>10. Len(g) = n
    BY <2>9
  <2>11. ASSUME NEW id \in D, Satisfies(id, l) PROVE id.t = h.t /\ id.v <= h.v
    <3> DEFINE tail == {x \in D : Satisfies(x, l) /\ (seed # NoId => x.t = seed.t /\ seed.v < x.v)}
    <3>1. h = IF tail = {} THEN seed ELSE MaxId(tail)
      BY <2>6 DEF TrueMaxId
    <3>2. tail \in SUBSET AllIds /\ IsFiniteSet(tail) /\ tail \subseteq D
      BY FS_Subset
    <3>3. ~(seed # NoId => id.t = seed.t /\ seed.v < id.v) => id \notin tail
      OBVIOUS
    <3>4. id \notin tail => seed # NoId /\ ~(id.t = seed.t /\ seed.v < id.v)
      BY <2>11
    <3>5. \A x \in D : x \in AllIds /\ x.t = t /\ x.v \in Int
      BY DEF OfOneType, AllIds
    <3> HIDE DEF tail
    <3>6. CASE id \in tail
      <4>1. h \in tail /\ (id = h \/ IdLess(id, h))
        BY <3>1, <3>2, <3>6, MaxIdIsGreatest
      <4>2. h \in D
        BY <3>2, <4>1
      <4> QED BY <3>5, <4>1, <4>2, IdOrder
    <3>7. CASE id \notin tail
      <4>1. seed \in D /\ ~(seed.v < id.v) /\ id.t = seed.t
        BY <3>4, <3>5, <3>7
      <4>2. id.v <= seed.v
        BY <3>5, <4>1
      <4>3. CASE tail = {}
        BY <3>1, <4>1, <4>2, <4>3
      <4>4. CASE tail # {}
        <5>1. h \in tail
          BY <3>1, <3>2, <4>4, MaxIdIsGreatest
        <5>2. seed.v < h.v /\ h \in D
          BY <3>2, <4>1, <5>1, OpenClauses DEF tail
        <5> QED BY <3>5, <4>1, <4>2, <5>2
      <4> QED BY <4>3, <4>4
    <3> QED BY <3>6, <3>7
  <2>12. CASE Whole(f, Len(f), D)
    <3>1. ASSUME NEW id \in D PROVE \E i \in 1..n : Matches(id, g[i])
      <4>1. PICK i \in 1..n : Matches(id, f[i])
        BY <1>1, <2>12 DEF Whole
      <4>2. CASE i # n
        BY <2>9, <4>1, <4>2
      <4>3. CASE i = n
        <5>1. Satisfies(id, l)
          BY <2>7, <4>1, <4>3 DEF Matches
        <5>2. id.t = h.t /\ id.v <= h.v /\ id.v \in Int
          BY <2>11, <5>1 DEF AllIds
        <5>3. id.v < h.v \/ h.v = id.v
          <6>1. h \in AllIds
            <7> DEFINE tail == {x \in D : /\ Satisfies(x, l)
                                          /\ seed # NoId => x.t = seed.t /\ seed.v < x.v}
            <7>1. h = IF tail = {} THEN seed ELSE MaxId(tail)
              BY <2>6 DEF TrueMaxId
            <7>2. tail \in SUBSET AllIds /\ IsFiniteSet(tail)
              BY FS_Subset
            <7> HIDE DEF tail
            <7> QED BY <2>5, <7>1, <7>2, MaxIdIsGreatest
          <6>2. h.v \in Int
            BY <6>1 DEF AllIds
          <6> QED BY <5>2, <6>2
        <5>4. Satisfies(id, d)
          BY <2>8, <5>1, <5>2, <5>3 DEF Satisfies
        <5> QED BY <2>9, <4>3, <5>4 DEF Matches
      <4> QED BY <4>2, <4>3
    <3>2. Whole(g, n, D)
      BY <3>1 DEF Whole
    <3> QED BY <2>5, <2>10, <3>2 DEF Fits, capped
  <2>13. CASE Misfit(f[1], t)
    <3>1. n # 1
      <4>1. PICK x : f[1] = {x} /\ x.lo = NoId
        BY <2>13 DEF Misfit
      <4> QED BY <2>5, <2>7, <4>1
    <3>2. g[1] = f[1]
      BY <2>9, <3>1
    <3> QED BY <2>5, <2>13, <3>2 DEF Fits, capped
  <2> QED BY <2>12, <2>13 DEF Fits
<1> QED BY <1>2, <1>3

(* Whatever way a collection of one type is cut, each of its documents is  *)
(* in a partition, or the first partition is for another type.             *)
LEMMA CutFits ==
  ASSUME NEW t \in IdTypes, NEW D \in SUBSET AllIds, IsFiniteSet(D), D # {}, OfOneType(D, t),
         \A id \in D : id.v >= 0,
         NEW idType, NEW S \in SUBSET D, NEW seed \in D \cup {NoId},
         NEW n \in Nat \ {0}, n <= Cardinality(D), NEW maxParts \in Nat \ {0},
         NEW discovered \in BOOLEAN
  PROVE  Fits(Partition(D, idType, S, seed, n, maxParts, discovered), D, t)
<1> DEFINE strategy == IF idType = "auto" THEN Recommend(S) ELSE idType
           cut == CASE strategy = "objectid" -> TypedPartitions("objectId", D, S, n, maxParts)
                    [] strategy = "numeric" -> TypedPartitions("number", D, S, n, maxParts)
                    [] OTHER -> IF discovered THEN GroupedByType(D, S, n)
                                ELSE LegacySampled(S, n)
           E == Excepted(D)
<1>1. Partition(D, idType, S, seed, n, maxParts, discovered)
        = IF n = 1 THEN <<Everything>> ELSE CapFinalPartition(cut, D, seed)
  BY DEF Partition
<1>2. \A id \in D : id.t = "objectId" => id.v >= 0
  OBVIOUS
<1>3. Fits(<<Everything>>, D, t)
  <2>1. Whole(<<{AnyId}>>, 1, D) /\ Len(<<{AnyId}>>) = 1
    BY OneSliceCovers
  <2> QED BY <2>1 DEF Fits, Everything
<1>4. /\ Fits(TypedPartitions("objectId", D, S, n, maxParts), D, t)
      /\ Fits(TypedPartitions("number", D, S, n, maxParts), D, t)
      /\ IsCut(TypedPartitions("objectId", D, S, n, maxParts), E)
      /\ IsCut(TypedPartitions("number", D, S, n, maxParts), E)
  BY <1>2, TypedFits, TypedIsACut
<1>5. Fits(GroupedByType(D, S, n), D, t) /\ IsCut(GroupedByType(D, S, n), E)
  <2>1. Whole(GroupedByType(D, S, n), n, D)
    BY GroupedByTypeCovers
  <2>2. Len(GroupedByType(D, S, n)) = n
    <3>1. {u \in IdTypes : OfType(D, u) # {}} # {}
      BY DEF OfType, OfOneType
    <3> QED BY <3>1 DEF GroupedByType
  <2> QED BY <2>1, <2>2, GroupedByTypeIsACut DEF Fits
<1>6. Fits(LegacySampled(S, n), D, t) /\ IsCut(LegacySampled(S, n), E)
  <2>1. \E m \in {1, n} : Whole(LegacySampled(S, n), m, D) /\ Len(LegacySampled(S, n)) = m
    BY LegacySampledCovers
  <2> QED BY <2>1, FS_Subset, LegacySampledIsACut DEF Fits
<1> HIDE DEF strategy, E
<1>7. Fits(cut, D, t) /\ IsCut(cut, E)
  BY <1>4, <1>5, <1>6
<1> HIDE DEF cut
<1>8. Fits(CapFinalPartition(cut, D, seed), D, t)
  BY <1>7, CapFits
<1> QED BY <1>1, <1>3, <1>8

-----------------------------------------------------------------------------
(***************************************************************************)
(* Such a collection is read whole.                                        *)
(***************************************************************************)
(* A page of at most n documents has every one of M, or n and those left   *)
(* out are above all of them.                                              *)
PageComplete(page, M, n) ==
  /\ Len(page) \in Nat /\ (M # {} => Len(page) # 0)
  /\ \A j \in 1..Len(page) : page[j] \in M
  /\ \A i, j \in 1..Len(page) : i < j => IdLess(page[i], page[j])
  /\ \A id \in M : \/ \E j \in 1..Len(page) : page[j] = id
                   \/ n <= Len(page) /\ \A j \in 1..Len(page) : IdLess(page[j], id)

LEMMA FirstAreComplete ==
  ASSUME NEW M \in SUBSET AllIds, IsFiniteSet(M), NEW n \in Nat \ {0},
         NEW first, first = {id \in M : Rank(M, id) + 1 <= n}
  PROVE  PageComplete(SortedPage(first), M, n)
<1>1. first \in SUBSET AllIds /\ first \subseteq M /\ IsFiniteSet(first)
  <2>1. first \subseteq M
    OBVIOUS
  <2> QED BY <2>1, FS_Subset
<1>2. PICK N, s : N = Cardinality(first) /\ s = Sorted(first)
  OBVIOUS
<1>3. N \in Nat /\ s \in [1..N -> first] /\ \A i, j \in 1..N : i < j => IdLess(s[i], s[j])
  BY <1>1, <1>2, SortedIsInOrder
<1>4. ASSUME NEW x \in first PROVE \E i \in 1..N : s[i] = x
  <2>1. \E i \in 1..Cardinality(first) : Sorted(first)[i] = x
    BY <1>1, SortedIsWhole
  <2> QED BY <1>2, <2>1
<1>5. PICK page : page = SortedPage(first)
  OBVIOUS
<1>6. page = SubSeq(s, 1, N)
  BY <1>2, <1>5 DEF SortedPage
<1>7. Len(page) = N /\ \A i \in 1..N : page[i] = s[i]
  <2>1. s \in Seq(first) /\ Len(s) = N
    BY <1>3
  <2> QED BY <1>3, <1>6, <2>1
<1>8. \A x \in M : Rank(M, x) \in Nat
  BY Ranks
<1>9. PICK C, u : C = Cardinality(M) /\ u = Sorted(M)
  OBVIOUS
<1>10. C \in Nat /\ u \in [1..C -> M] /\ \A i \in 1..C : Rank(M, u[i]) = i - 1
  BY <1>9, RanksOfSorted
<1>11. \A x \in M : Rank(M, x) < C
  BY <1>9, Ranks
<1>12. ASSUME M # {} PROVE N # 0
  <2>1. PICK x \in M : TRUE
    BY <1>12
  <2>2. 1 \in 1..C
    BY <1>8, <1>10, <1>11, <2>1
  <2>3. u[1] \in M /\ Rank(M, u[1]) = 0
    BY <1>10, <2>2
  <2>4. u[1] \in first
    BY <2>3
  <2> QED BY <1>3, <1>4, <2>4
<1>13. ASSUME NEW id \in M, id \notin first
       PROVE  n <= N /\ \A j \in 1..N : IdLess(s[j], id)
  <2>1. n <= Rank(M, id)
    BY <1>8, <1>13
  <2>2. n < C
    BY <1>8, <1>10, <1>11, <2>1
  <2>3. \A i \in 1..n : u[i] \in first
    <3>1. SUFFICES ASSUME NEW i \in 1..n PROVE u[i] \in first
      OBVIOUS
    <3>2. i \in 1..C
      BY <1>10, <2>2
    <3>3. u[i] \in M /\ Rank(M, u[i]) = i - 1
      BY <1>10, <3>2
    <3> QED BY <3>3
  <2>4. n <= N
    <3> DEFINE g == [i \in 1..n |-> u[i]]
    <3>1. g \in [1..n -> first]
      BY <2>3
    <3>2. \A i, j \in 1..n : g[i] = g[j] => i = j
      <4>1. \A i \in 1..n : i \in 1..C /\ Rank(M, u[i]) = i - 1
        BY <1>10, <2>2
      <4> QED BY <4>1
    <3>3. IsFiniteSet(1..n) /\ Cardinality(1..n) = n
      BY FS_Interval
    <3> HIDE DEF g
    <3>4. g \in Injection(1..n, first)
      BY <3>1, <3>2 DEF Injection, IsInjective
    <3> QED BY <1>1, <1>2, <3>3, <3>4, FS_Injection
  <2>5. ASSUME NEW j \in 1..N PROVE IdLess(s[j], id)
    <3>1. PICK x : x = s[j]
      OBVIOUS
    <3>2. x \in first /\ x \in M /\ Rank(M, x) + 1 <= n
      BY <1>3, <3>1
    <3>3. Rank(M, x) < Rank(M, id) /\ ~(Rank(M, id) < Rank(M, x))
      BY <1>8, <2>1, <3>2
    <3>4. ~IdLess(id, x)
      BY <3>2, <3>3, Ranks
    <3>5. x # id /\ x \in AllIds /\ id \in AllIds
      BY <1>13, <3>2
    <3> QED BY <3>1, <3>4, <3>5, IdOrder
  <2> QED BY <2>4, <2>5
<1>14. PageComplete(page, M, n)
  <2>1. \A id \in M : \/ \E j \in 1..N : page[j] = id
                      \/ n <= N /\ \A j \in 1..N : IdLess(page[j], id)
    <3>1. SUFFICES ASSUME NEW id \in M
                   PROVE  \/ \E j \in 1..N : page[j] = id
                          \/ n <= N /\ \A j \in 1..N : IdLess(page[j], id)
      OBVIOUS
    <3>2. CASE id \in first
      BY <1>4, <1>7, <3>2
    <3>3. CASE id \notin first
      BY <1>7, <1>13, <3>3
    <3> QED BY <3>2, <3>3
  <2>2. \A i \in 1..N : page[i] \in M
    BY <1>1, <1>3, <1>7
  <2>3. \A i, j \in 1..N : i < j => IdLess(page[i], page[j])
    BY <1>3, <1>7
  <2> QED BY <1>3, <1>7, <1>12, <2>1, <2>2, <2>3 DEF PageComplete
<1> QED BY <1>5, <1>14

LEMMA PageIsComplete ==
  ASSUME docs \in SUBSET AllIds, IsFiniteSet(docs), size \in Nat \ {0}, NEW f
  PROVE  PageComplete(Page(f), Selected(docs, PageFilter(f, last)), size)
<1>1. PICK M, n : M = Selected(docs, PageFilter(f, last)) /\ n = size
  OBVIOUS
<1>2. M \subseteq docs
  BY <1>1 DEF Selected
<1>3. M \in SUBSET AllIds /\ IsFiniteSet(M) /\ n \in Nat \ {0}
  BY <1>1, <1>2, FS_Subset
<1>4. PICK first : first = {id \in M : Rank(M, id) + 1 <= n}
  OBVIOUS
<1>5. Page(f) = SortedPage(first)
  BY <1>1, <1>4 DEF Page, Rank
<1>6. PageComplete(SortedPage(first), M, n)
  BY <1>3, <1>4, FirstAreComplete
<1> QED BY <1>1, <1>5, <1>6

(* What the filter of the partition selects above the last _id read, the   *)
(* query of the page selects.                                              *)
LEMMA FilterMeetsPage ==
  ASSUME NEW f, Filter(f), NEW l \in AllIds \cup {NoId},
         NEW id \in AllIds, Matches(id, f), l # NoId => id.t = l.t /\ l.v < id.v
  PROVE  Matches(id, PageFilter(f, l))
<1>1. id.v \in Int /\ (l # NoId => l.v \in Int)
  BY DEF AllIds
<1>2. CASE IsPlainRange(f)
  <2>1. PICK c : /\ f = {c} /\ c = (CHOOSE x \in f : TRUE) /\ Clause(c)
                 /\ c.type = "any" /\ c.mod = NoMod
    BY <1>2, PlainRange
  <2>2. PICK q : PageFilter(f, l) = {q}
                 /\ q = IF l # NoId THEN [AnyId EXCEPT !.lo = l, !.loStrict = TRUE]
                        ELSE [AnyId EXCEPT !.lo = c.lo, !.loStrict = c.loStrict]
    BY <1>2, <2>1 DEF PageFilter
  <2>3. Satisfies(id, c)
    BY <2>1 DEF Matches
  <2>4. q.type = "any" /\ q.hi = NoId /\ q.mod = NoMod
    BY <2>2 DEF AnyId
  <2>5. l # NoId => q.lo = l /\ q.loStrict
    BY <2>2 DEF AnyId
  <2>6. l = NoId => q.lo = c.lo /\ q.loStrict = c.loStrict
    BY <2>2 DEF AnyId
  <2>7. q.lo # NoId => q.lo.t = id.t /\ (q.lo.v < id.v \/ (q.lo.v = id.v /\ ~q.loStrict))
    <3>1. CASE l = NoId
      BY <2>3, <2>6, <3>1 DEF Satisfies
    <3>2. CASE l # NoId
      BY <2>5, <3>2
    <3> QED BY <3>1, <3>2
  <2>8. Satisfies(id, q)
    BY <2>4, <2>7 DEF Satisfies
  <2> QED BY <2>2, <2>8 DEF Matches
<1>3. CASE ~IsPlainRange(f) /\ l = NoId
  BY <1>3 DEF PageFilter
<1>4. CASE ~IsPlainRange(f) /\ l # NoId
  <2>1. PageFilter(f, l) = PageAfter(f, l)
    BY <1>4 DEF PageFilter
  <2>2. PICK c \in f : Satisfies(id, c)
    BY DEF Matches
  <2>3. Clause(c)
    BY DEF Filter
  <2>4. c.lo # NoId => c.lo.t = l.t /\ c.lo.v \in Int
    BY <1>4, <2>2, <2>3 DEF Satisfies, Clause, AllIds
  <2>5. PICK q : q = [c EXCEPT !.lo = IF c.lo # NoId /\ l.v < c.lo.v THEN c.lo ELSE l,
                               !.loStrict = IF c.lo # NoId /\ l.v < c.lo.v
                                            THEN c.loStrict ELSE TRUE]
    OBVIOUS
  <2>6. q \in PageAfter(f, l)
    BY <2>4, <2>5 DEF PageAfter
  <2>7. /\ q.type = c.type /\ q.hi = c.hi /\ q.hiIncl = c.hiIncl /\ q.mod = c.mod
        /\ q.lo = (IF c.lo # NoId /\ l.v < c.lo.v THEN c.lo ELSE l)
        /\ q.loStrict = (IF c.lo # NoId /\ l.v < c.lo.v THEN c.loStrict ELSE TRUE)
    BY <2>3, <2>5 DEF Clause, ClauseFields
  <2>8. Satisfies(id, q)
    BY <1>1, <1>4, <2>2, <2>7 DEF Satisfies
  <2> QED BY <2>1, <2>6, <2>8 DEF Matches
<1> QED BY <1>2, <1>3, <1>4

(* A document past the bound is above all the partition selects.           *)
LEMMA PastIsAbove ==
  ASSUME NEW f, Filter(f), NEW past \in AllIds, PastBound(past, f),
         NEW id \in AllIds, Matches(id, f)
  PROVE  id.v < past.v
<1>1. IsPlainRange(f)
  BY DEF PastBound, UpperBound
<1>2. PICK c : /\ f = {c} /\ c = (CHOOSE x \in f : TRUE) /\ Clause(c)
               /\ c.type = "any" /\ c.mod = NoMod
  BY <1>1, PlainRange
<1>3. Satisfies(id, c)
  BY <1>2 DEF Matches
<1>4. c.hi # NoId
  BY <1>1, <1>2 DEF PastBound, UpperBound
<1>5. c.hi.v \in Int /\ id.v \in Int /\ past.v \in Int
  BY <1>2, <1>4 DEF Clause, AllIds
<1>6. id.v < c.hi.v \/ (c.hi.v = id.v /\ c.hiIncl)
  BY <1>3, <1>4 DEF Satisfies
<1>7. c.hi.v < past.v \/ (c.hi.v = past.v /\ ~c.hiIncl)
  BY <1>2 DEF PastBound
<1> QED BY <1>5, <1>6, <1>7

(* The converse of Reads: what of D is of an earlier partition, or of this *)
(* one and not above the last _id read, was emitted.                       *)
ReadsAll(f, c, l, e, D) ==
  \A id \in D : Earlier(f, c, id) \/ Here(f, c, l, id) => \E i \in DOMAIN e : e[i] = id

(* The source holds documents of type t, and none of a negative rank from  *)
(* before the cut.                                                         *)
Uniform(t) == OfOneType(docs, t) /\ \A id \in before : id.v >= 0

WholeInv ==
  /\ before # {} /\ size \in 1..PageSize /\ last \in docs \cup {NoId}
  /\ status = "done" => cur = Len(parts) + 1
  /\ \A t \in IdTypes : Uniform(t) =>
       /\ Fits(parts, before, t)
       /\ ReadsAll(parts, cur, last, emitted, before)
       /\ Misfit(parts[1], t) => status # "done" /\ cur = 1 /\ last = NoId

LEMMA InitWholeInv == ReaderInit => WholeInv
<1> SUFFICES ASSUME ReaderInit PROVE WholeInv
  OBVIOUS
<1>1. /\ docs \in SUBSET AllIds /\ docs # {} /\ IsFiniteSet(docs) /\ before = docs
      /\ size = PageSize /\ PageSize \in 1..PageSize
  BY ReaderAssumption, IdsAreIds DEF ReaderInit
<1>2. cur = 1 /\ last = NoId /\ emitted = <<>> /\ status = "reading"
  BY DEF ReaderInit
<1>3. ASSUME NEW t \in IdTypes, Uniform(t) PROVE Fits(parts, before, t)
  <2>1. PICK idType \in IdTypeSettings, sample \in SUBSET docs, seed \in docs \cup {NoId},
             n \in Counts, discovered \in BOOLEAN :
          /\ n <= Cardinality(docs)
          /\ parts = Partition(docs, idType, sample, seed, n, MaxReadPartitions, discovered)
    BY DEF ReaderInit
  <2>2. n \in Nat \ {0} /\ MaxReadPartitions \in Nat \ {0}
    BY ReaderAssumption
  <2>3. OfOneType(docs, t) /\ \A id \in docs : id.v >= 0
    BY <1>1, <1>3 DEF Uniform
  <2>4. Fits(Partition(docs, idType, sample, seed, n, MaxReadPartitions, discovered), docs, t)
    BY <1>1, <2>1, <2>2, <2>3, CutFits
  <2> QED BY <1>1, <2>1, <2>4
<1>4. ReadsAll(parts, cur, last, emitted, before)
  BY <1>2 DEF ReadsAll, Earlier, Here
<1> QED BY <1>1, <1>2, <1>3, <1>4 DEF WholeInv

(* A page of at most n documents that ascends shows id, or ends below it.  *)
Shows(page, n, id) ==
  /\ page \in Seq(AllIds)
  /\ \A i, j \in 1..Len(page) : i < j => page[i].v < page[j].v
  /\ \/ \E j \in 1..Len(page) : page[j] = id
     \/ n <= Len(page) /\ \A j \in 1..Len(page) : page[j].v < id.v

(* The page that is read next shows every document of the partition that   *)
(* was not emitted yet, or ends below it.                                  *)
LEMMA PageOfWalk ==
  ASSUME WalkInv, WholeInv, status = "reading", NEW page, page = Page(parts[cur]),
         NEW t \in IdTypes, Uniform(t), NEW id \in before, Matches(id, parts[cur]),
         \A i \in DOMAIN emitted : emitted[i] # id
  PROVE  Shows(page, size, id)
<1>1. PICK f, l, D, n : f = parts[cur] /\ l = last /\ D = docs /\ n = size
  OBVIOUS
<1>2. docs \in SUBSET AllIds /\ IsFiniteSet(docs) /\ before \subseteq docs
      /\ l \in AllIds \cup {NoId}
  BY <1>1, IdsAreIds DEF WalkInv
<1>3. size \in Nat \ {0}
  BY ReaderAssumption DEF WholeInv
<1>4. Filter(f)
  <2>1. cur \in 1..Len(parts)
    BY DEF WalkInv, IsCut, Numbered
  <2> QED BY <1>1, <2>1 DEF WalkInv, IsCut
<1>5. PICK M : M = Selected(docs, PageFilter(f, last))
  OBVIOUS
<1>6. PageComplete(page, M, n)
  BY <1>1, <1>2, <1>3, <1>5, PageIsComplete
<1>7. M \subseteq docs
  BY <1>5 DEF Selected
<1>8. \A x \in docs : x.t = t /\ x \in AllIds
  BY <1>2 DEF Uniform, OfOneType
<1>9. page \in Seq(AllIds)
  <2>1. page \in Seq(M)
    BY <1>1, <1>2, <1>5, PageIsOfDocuments
  <2> QED BY <1>7, <1>8, <2>1
<1>10. \A j \in 1..Len(page) : page[j] \in M /\ page[j] \in docs /\ page[j].t = t /\ page[j] \in AllIds
  BY <1>6, <1>7, <1>8 DEF PageComplete
<1>11. \A x, y \in AllIds : x.t = t /\ y.t = t => (IdLess(x, y) <=> x.v < y.v)
  BY IdOrder
<1>12. \A i, j \in 1..Len(page) : i < j => page[i].v < page[j].v
  BY <1>6, <1>10, <1>11 DEF PageComplete
<1>13. id \in docs /\ id.t = t /\ id \in AllIds /\ id.v \in Int
  <2>1. id \in docs /\ id.t = t /\ id \in AllIds
    BY <1>2, <1>8
  <2> QED BY <2>1 DEF AllIds
<1>14. l # NoId => id.t = l.t /\ l.v < id.v
  <2>1. SUFFICES ASSUME l # NoId PROVE id.t = l.t /\ l.v < id.v
    OBVIOUS
  <2>2. l \in docs /\ l.t = t /\ l.v \in Int
    <3>1. l \in docs
      BY <1>1, <2>1 DEF WholeInv
    <3> QED BY <1>8, <3>1 DEF AllIds
  <2>3. ~Here(parts, cur, last, id)
    BY DEF WholeInv, ReadsAll
  <2>4. ~(id.v <= l.v)
    BY <1>1, <1>13, <2>1, <2>2, <2>3 DEF Here
  <2> QED BY <1>13, <2>2, <2>4
<1>15. id \in M
  <2>1. Matches(id, PageFilter(f, l))
    BY <1>1, <1>2, <1>4, <1>13, <1>14, FilterMeetsPage
  <2> QED BY <1>1, <1>5, <1>13, <2>1 DEF Selected
<1>16. \/ \E j \in 1..Len(page) : page[j] = id
       \/ n <= Len(page) /\ \A j \in 1..Len(page) : IdLess(page[j], id)
  BY <1>6, <1>15 DEF PageComplete
<1>17. \/ \E j \in 1..Len(page) : page[j] = id
       \/ n <= Len(page) /\ \A j \in 1..Len(page) : page[j].v < id.v
  BY <1>10, <1>11, <1>13, <1>16
<1> QED BY <1>1, <1>9, <1>12, <1>17 DEF Shows

(* A partition for another type stops the walk at once.                    *)
LEMMA MisfitStops ==
  ASSUME WalkInv, WholeInv, status = "reading", NEW page, page = Page(parts[cur]),
         NEW t \in IdTypes, Uniform(t), Misfit(parts[1], t)
  PROVE  /\ cur = 1 /\ last = NoId /\ StopAt(page, parts[cur]) = 1 /\ Len(page) \in Nat
         /\ 1 <= Len(page) /\ ~PastBound(page[1], parts[cur])
<1>1. cur = 1 /\ last = NoId
  BY DEF WholeInv
<1>2. PICK f : f = parts[cur]
  OBVIOUS
<1>3. PICK c : /\ f = {c} /\ Clause(c) /\ c.type = "any" /\ c.mod = NoMod
               /\ c.lo = NoId /\ ~c.loStrict /\ c.hi # NoId /\ c.hi.t # t
  BY <1>1, <1>2 DEF Misfit
<1>4. (CHOOSE x \in f : TRUE) = c
  BY <1>3
<1>5. IsPlainRange(f)
  <2>1. Cardinality({c}) = 1
    BY FS_Singleton
  <2> QED BY <1>3, <2>1 DEF IsPlainRange
<1>6. UpperBound(f) = c.hi
  BY <1>4, <1>5 DEF UpperBound
<1>7. docs \in SUBSET AllIds /\ IsFiniteSet(docs) /\ docs # {}
  BY IdsAreIds DEF WalkInv, WholeInv
<1>8. size \in Nat \ {0}
  BY ReaderAssumption DEF WholeInv
<1>9. PICK M, n : M = Selected(docs, PageFilter(f, last)) /\ n = size
  OBVIOUS
<1>10. PageComplete(page, M, n)
  BY <1>2, <1>7, <1>8, <1>9, PageIsComplete
<1>11. PageFilter(f, last) = {[AnyId EXCEPT !.lo = c.lo, !.loStrict = c.loStrict]}
  BY <1>1, <1>4, <1>5 DEF PageFilter
<1>12. \A id \in docs : id \in M
  <2>1. PICK q : q = [AnyId EXCEPT !.lo = c.lo, !.loStrict = c.loStrict]
    OBVIOUS
  <2>2. q.type = "any" /\ q.lo = NoId /\ q.hi = NoId /\ q.mod = NoMod
    BY <1>3, <2>1 DEF AnyId
  <2>3. \A id \in docs : Matches(id, {q})
    BY <2>2 DEF Matches, Satisfies
  <2> QED BY <1>9, <1>11, <2>1, <2>3 DEF Selected
<1>13. Len(page) \in Nat /\ 1 <= Len(page)
  <2>1. M # {}
    BY <1>7, <1>12
  <2> QED BY <1>10, <2>1 DEF PageComplete
<1>14. page[1] \in M
  <2>1. 1 \in 1..Len(page)
    BY <1>13
  <2> QED BY <1>10, <2>1 DEF PageComplete
<1>15. page[1].t = t
  BY <1>9, <1>14 DEF Selected, Uniform, OfOneType
<1>16. ~Comparable(page[1], UpperBound(f)) /\ ~PastBound(page[1], f)
  BY <1>3, <1>4, <1>6, <1>15 DEF Comparable, PastBound
<1>17. Unordered(page, 1, f)
  BY <1>3, <1>6, <1>16 DEF Unordered
<1>18. StopAt(page, f) = 1
  <2>1. page \in Seq(AllIds)
    <3>1. page \in Seq(M) /\ M \subseteq AllIds
      BY <1>2, <1>7, <1>9, PageIsOfDocuments DEF Selected
    <3> QED BY <3>1
  <2>2. PICK stop : stop = StopAt(page, f)
    OBVIOUS
  <2>3. stop \in 1..(Len(page) + 1)
        /\ \A m \in 1..(stop - 1) : ~Unordered(page, m, f)
    BY <2>1, <2>2, WalkStops
  <2>4. 1 \notin 1..(stop - 1)
    BY <1>17, <2>3
  <2> QED BY <1>13, <2>2, <2>3, <2>4
<1> QED BY <1>1, <1>2, <1>13, <1>16, <1>18

(* What was emitted before, and the first k documents of the page.         *)
Has(e, id) == \E i \in DOMAIN e : e[i] = id

LEMMA EmittedSoFar ==
  ASSUME WalkInv, status = "reading", NEW page, page = Page(parts[cur]),
         NEW k \in Nat, k <= StopAt(page, parts[cur]) - 1,
         NEW new, new = emitted \o SubSeq(page, 1, k)
  PROVE  /\ k \in 0..Len(page) /\ (\A id : Has(emitted, id) => Has(new, id))
         /\ \A m \in 1..k : Has(new, page[m]) /\ page[m] \in docs
<1>1. FromPage(page, k)
  BY EmittedFromPage
<1>2. page \in Seq(Ids) /\ k \in 0..Len(page) /\ \A m \in 1..k : page[m] \in docs
  BY <1>1 DEF FromPage
<1>3. emitted \in Seq(Ids)
  BY DEF WalkInv
<1>4. PICK L \in Nat : L = Len(emitted) /\ DOMAIN emitted = 1..L
  BY <1>3
<1>5. /\ new \in Seq(Ids) /\ Len(new) = L + k
      /\ \A i \in 1..L : new[i] = emitted[i]
      /\ \A i \in 1..k : new[L + i] = page[i]
  BY <1>2, <1>3, <1>4, Appended
<1>6. DOMAIN new = 1..(L + k)
  BY <1>5
<1>7. ASSUME NEW id, Has(emitted, id) PROVE Has(new, id)
  <2>1. PICK i \in 1..L : emitted[i] = id
    BY <1>4, <1>7 DEF Has
  <2>2. i \in DOMAIN new /\ new[i] = id
    BY <1>2, <1>5, <1>6, <2>1
  <2> QED BY <2>2 DEF Has
<1>8. ASSUME NEW m \in 1..k PROVE Has(new, page[m])
  <2>1. L + m \in DOMAIN new /\ new[L + m] = page[m]
    BY <1>2, <1>5, <1>6
  <2> QED BY <2>1 DEF Has
<1> QED BY <1>2, <1>7, <1>8

LEMMA EmitKeepsWhole ==
  ASSUME WalkInv, WholeInv, status = "reading", NEW page, page = Page(parts[cur]),
         NEW k \in Nat, k <= StopAt(page, parts[cur]) - 1,
         Emit(page, k), UNCHANGED <<docs, before, parts, cur>>,
         size' \in 1..PageSize, status' # "done"
  PROVE  WholeInv'
<1>1. PICK new : new = emitted \o SubSeq(page, 1, k)
  OBVIOUS
<1>2. /\ k \in 0..Len(page) /\ (\A id : Has(emitted, id) => Has(new, id))
      /\ \A m \in 1..k : Has(new, page[m]) /\ page[m] \in docs
  BY <1>1, EmittedSoFar
<1>3. emitted' = new /\ last' = (IF k = 0 THEN last ELSE page[k])
  BY <1>1 DEF Emit
<1>4. docs' = docs /\ before' = before /\ parts' = parts /\ cur' = cur
  OBVIOUS
<1>5. last' \in docs' \cup {NoId}
  BY <1>2, <1>3, <1>4 DEF WholeInv
<1>6. ASSUME NEW t \in IdTypes, Uniform(t)
      PROVE  ReadsAll(parts, cur, last', new, before)
  <2>1. SUFFICES ASSUME NEW id \in before,
                        Earlier(parts, cur, id) \/ Here(parts, cur, last', id)
                 PROVE  Has(new, id)
    BY DEF ReadsAll, Has
  <2>2. CASE Has(emitted, id)
    BY <1>2, <2>2
  <2>3. CASE ~Has(emitted, id)
    <3>1. ~Earlier(parts, cur, id) /\ ~Here(parts, cur, last, id)
      BY <1>6, <2>3 DEF WholeInv, ReadsAll, Has
    <3>2. k # 0 /\ Here(parts, cur, page[k], id)
      BY <1>3, <2>1, <3>1
    <3>3. PICK top : top = page[k]
      OBVIOUS
    <3>4. id.v <= top.v /\ Matches(id, parts[cur])
      BY <3>2, <3>3 DEF Here
    <3>5. /\ page \in Seq(AllIds)
          /\ \A i, j \in 1..Len(page) : i < j => page[i].v < page[j].v
          /\ \/ \E j \in 1..Len(page) : page[j] = id
             \/ size <= Len(page) /\ \A j \in 1..Len(page) : page[j].v < id.v
      <4>1. \A i \in DOMAIN emitted : emitted[i] # id
        BY <2>3 DEF Has
      <4>2. Shows(page, size, id)
        BY <1>6, <3>4, <4>1, PageOfWalk
      <4> QED BY <4>2 DEF Shows
    <3>6. k \in 1..Len(page)
      BY <1>2, <3>2
    <3>7. top.v \in Int /\ id.v \in Int
      <4>1. top \in AllIds /\ id \in AllIds
        BY <3>3, <3>5, <3>6, IdsAreIds DEF WalkInv
      <4> QED BY <4>1 DEF AllIds
    <3>8. ~(top.v < id.v)
      BY <3>4, <3>7
    <3>9. PICK j \in 1..Len(page) : page[j] = id
      BY <3>3, <3>5, <3>6, <3>8
    <3>10. ~(k < j)
      BY <3>3, <3>5, <3>6, <3>8, <3>9, <3>7, <3>4
    <3>11. j \in 1..k
      BY <3>6, <3>9, <3>10
    <3> QED BY <1>2, <3>9, <3>11
  <2> QED BY <2>2, <2>3
<1>7. ASSUME NEW t \in IdTypes, Uniform(t), Misfit(parts[1], t)
      PROVE  cur = 1 /\ last' = NoId
  <2>1. cur = 1 /\ last = NoId /\ StopAt(page, parts[cur]) = 1
    BY <1>7, MisfitStops
  <2>2. k = 0
    BY <2>1
  <2> QED BY <1>3, <2>1, <2>2
<1>8. ASSUME NEW t \in IdTypes, Uniform(t)'
      PROVE  /\ Fits(parts', before', t)
             /\ ReadsAll(parts', cur', last', emitted', before')
             /\ Misfit(parts'[1], t) => status' # "done" /\ cur' = 1 /\ last' = NoId
  <2>1. Uniform(t)
    BY <1>4, <1>8 DEF Uniform
  <2>2. Fits(parts, before, t)
    BY <2>1 DEF WholeInv
  <2> QED BY <1>3, <1>4, <1>6, <1>7, <2>1, <2>2
<1>9. before' # {} /\ size' \in 1..PageSize
  BY <1>4 DEF WholeInv
<1> QED BY <1>5, <1>8, <1>9 DEF WholeInv

(* The end of a partition that is not out of order: all of it was read.    *)
LEMMA NextKeepsWhole ==
  ASSUME WalkInv, WholeInv, status = "reading", NEW page, page = Page(parts[cur]),
         NEW stop, stop = StopAt(page, parts[cur]),
         stop <= Len(page) => PastBound(page[stop], parts[cur]),
         stop <= Len(page) \/ Len(page) < size,
         emitted' = emitted \o SubSeq(page, 1, stop - 1), last' = NoId, NextPartition,
         UNCHANGED <<docs, before, parts>>
  PROVE  WholeInv'
<1>1. Len(page) \in Nat /\ stop \in 1..(Len(page) + 1)
  BY StopIsInPage
<1>2. PICK k \in Nat : k = stop - 1
  BY <1>1
<1>3. PICK new : new = emitted \o SubSeq(page, 1, k)
  OBVIOUS
<1>4. /\ (\A id : Has(emitted, id) => Has(new, id))
      /\ \A m \in 1..k : Has(new, page[m]) /\ page[m] \in docs
  <2>1. k <= stop - 1
    BY <1>1, <1>2
  <2> QED BY <1>3, <2>1, EmittedSoFar
<1>5. /\ emitted' = new /\ last' = NoId /\ docs' = docs /\ before' = before /\ parts' = parts
      /\ cur' = cur + 1 /\ status' = (IF cur = Len(parts) THEN "done" ELSE "reading")
      /\ size' = PageSize
  BY <1>2, <1>3 DEF NextPartition
<1>6. cur \in 1..Len(parts) /\ Len(parts) \in Nat
  BY DEF WalkInv, IsCut, Numbered
<1>7. size \in Nat
  BY ReaderAssumption DEF WholeInv
<1>8. ASSUME NEW t \in IdTypes, Uniform(t)
      PROVE  ReadsAll(parts, cur + 1, NoId, new, before)
  <2>1. SUFFICES ASSUME NEW id \in before, Earlier(parts, cur + 1, id) PROVE Has(new, id)
    BY DEF ReadsAll, Has, Here
  <2>2. CASE Has(emitted, id)
    BY <1>4, <2>2
  <2>3. CASE ~Has(emitted, id)
    <3>1. ~Earlier(parts, cur, id)
      BY <1>8, <2>3 DEF WholeInv, ReadsAll, Has
    <3>2. Matches(id, parts[cur])
      <4>1. PICK p \in 1..cur : Matches(id, parts[p])
        BY <1>6, <2>1 DEF Earlier
      <4>2. p \notin 1..(cur - 1)
        BY <3>1, <4>1 DEF Earlier
      <4>3. p = cur
        BY <1>6, <4>1, <4>2
      <4> QED BY <4>1, <4>3
    <3>3. /\ page \in Seq(AllIds)
          /\ \A i, j \in 1..Len(page) : i < j => page[i].v < page[j].v
          /\ \/ \E j \in 1..Len(page) : page[j] = id
             \/ size <= Len(page) /\ \A j \in 1..Len(page) : page[j].v < id.v
      <4>1. \A i \in DOMAIN emitted : emitted[i] # id
        BY <2>3 DEF Has
      <4>2. Shows(page, size, id)
        BY <1>8, <3>2, <4>1, PageOfWalk
      <4> QED BY <4>2 DEF Shows
    <3>4. \E j \in 1..k : page[j] = id
      <4>1. CASE stop <= Len(page)
        <5>1. PICK past : past = page[stop]
          OBVIOUS
        <5>2. stop \in 1..Len(page) /\ past \in AllIds
          BY <1>1, <3>3, <4>1, <5>1
        <5>3. Filter(parts[cur]) /\ id \in AllIds
          BY <1>6, IdsAreIds DEF WalkInv, IsCut
        <5>4. id.v < past.v
          BY <3>2, <4>1, <5>1, <5>2, <5>3, PastIsAbove
        <5>5. id.v \in Int /\ past.v \in Int
          BY <5>2, <5>3 DEF AllIds
        <5>6. PICK j \in 1..Len(page) : page[j] = id
          BY <3>3, <5>1, <5>2, <5>4, <5>5
        <5>7. ~(stop < j) /\ stop # j
          BY <3>3, <5>1, <5>2, <5>4, <5>5, <5>6
        <5>8. j \in 1..k
          BY <1>1, <1>2, <5>2, <5>6, <5>7
        <5> QED BY <5>6, <5>8
      <4>2. CASE ~(stop <= Len(page))
        <5>1. Len(page) < size
          BY <4>2
        <5>2. PICK j \in 1..Len(page) : page[j] = id
          BY <1>1, <1>7, <3>3, <5>1
        <5>3. j \in 1..k
          BY <1>1, <1>2, <4>2, <5>2
        <5> QED BY <5>2, <5>3
      <4> QED BY <4>1, <4>2
    <3> QED BY <1>4, <3>4
  <2> QED BY <2>2, <2>3
<1>9. ASSUME NEW t \in IdTypes, Uniform(t) PROVE ~Misfit(parts[1], t)
  <2>1. SUFFICES ASSUME Misfit(parts[1], t) PROVE FALSE
    OBVIOUS
  <2>2. stop = 1 /\ 1 <= Len(page) /\ ~PastBound(page[1], parts[cur])
    BY <1>9, <2>1, MisfitStops
  <2> QED BY <2>2
<1>10. ASSUME NEW t \in IdTypes, Uniform(t)'
       PROVE  /\ Fits(parts', before', t)
              /\ ReadsAll(parts', cur', last', emitted', before')
              /\ ~Misfit(parts'[1], t)
  <2>1. Uniform(t)
    BY <1>5, <1>10 DEF Uniform
  <2>2. Fits(parts, before, t)
    BY <2>1 DEF WholeInv
  <2> QED BY <1>5, <1>8, <1>9, <2>1, <2>2
<1>11. before' # {} /\ size' \in 1..PageSize /\ last' \in docs' \cup {NoId}
       /\ (status' = "done" => cur' = Len(parts') + 1)
  BY <1>5, ReaderAssumption DEF WholeInv
<1> QED BY <1>10, <1>11 DEF WholeInv

(* The three ways a page ends: out of order, at the end of the partition,  *)
(* or with the next page.                                                  *)
Stopped(page, stop) == Emit(page, stop - 1) /\ status' = "failed" /\ UNCHANGED <<cur, size>>
Finished(page, stop) ==
  /\ ~(stop <= Len(page) /\ ~PastBound(page[stop], parts[cur]))
  /\ stop <= Len(page) \/ Len(page) < size
  /\ emitted' = emitted \o SubSeq(page, 1, stop - 1)
  /\ last' = NoId /\ NextPartition
GoesOn(page, stop) ==
  /\ ~(stop <= Len(page)) /\ Emit(page, Len(page))
  /\ size' = PageSize /\ UNCHANGED <<cur, status>>

LEMMA PagesRead ==
  ASSUME ReadPage, NEW page, page = Page(parts[cur]), NEW stop, stop = StopAt(page, parts[cur])
  PROVE  Stopped(page, stop) \/ Finished(page, stop) \/ GoesOn(page, stop)
<1>1. \E p \in {Page(parts[cur])} : \E s \in {StopAt(p, parts[cur])} :
        Stopped(p, s) \/ Finished(p, s) \/ GoesOn(p, s)
  BY Zenon DEF ReadPage, Stopped, Finished, GoesOn
<1> QED BY <1>1, Zenon

LEMMA WholeStep == WalkInv /\ WholeInv /\ [ReaderNext]_readerVars => WholeInv'
<1> SUFFICES ASSUME WalkInv, WholeInv, [ReaderNext]_readerVars PROVE WholeInv'
  OBVIOUS
<1> DEFINE page == Page(parts[cur])
           stop == StopAt(page, parts[cur])
<1>1. Len(page) \in Nat /\ stop \in 1..(Len(page) + 1)
  BY StopIsInPage
<1>2. size \in 1..PageSize /\ PageSize \in Nat \ {0}
  BY ReaderAssumption DEF WholeInv
<1>3. CASE ReadPage
  <2>1. status = "reading" /\ UNCHANGED <<docs, before, parts>>
    BY <1>3 DEF ReadPage
  <2>2. Stopped(page, stop) \/ Finished(page, stop) \/ GoesOn(page, stop)
    BY <1>3, PagesRead
  <2> HIDE DEF page, stop
  <2>3. PICK k \in Nat : k = stop - 1
    BY <1>1
  <2>4. k <= stop - 1 /\ (~(stop <= Len(page)) => Len(page) = k)
    BY <1>1, <2>3
  <2>5. CASE Stopped(page, stop)
    <3>1. Emit(page, k) /\ size' \in 1..PageSize /\ status' # "done" /\ UNCHANGED cur
      BY <1>2, <2>3, <2>5 DEF Stopped
    <3> QED BY <2>1, <2>4, <3>1, EmitKeepsWhole DEF page, stop
  <2>6. CASE Finished(page, stop)
    BY <2>1, <2>6, NextKeepsWhole DEF page, stop, Finished
  <2>7. CASE GoesOn(page, stop)
    <3>1. Emit(page, k) /\ size' \in 1..PageSize /\ status' # "done" /\ UNCHANGED cur
      BY <1>2, <2>1, <2>4, <2>7 DEF GoesOn
    <3> QED BY <2>1, <2>4, <3>1, EmitKeepsWhole DEF page, stop
  <2> QED BY <2>2, <2>5, <2>6, <2>7
<1>4. CASE MemoryLimit
  <2>1. status = "reading" /\ UNCHANGED <<docs, before, parts, cur>>
    BY <1>4 DEF MemoryLimit
  <2>2. PICK k \in 0..(stop - 1) : Emit(page, k)
    BY <1>4 DEF MemoryLimit, CutShort
  <2>3. k \in Nat /\ k <= stop - 1
    <3> HIDE DEF page, stop
    <3> QED BY <1>1
  <2>4. size' \in 1..PageSize
    <3>1. (size > 1 /\ size' = size \div 2) \/ size' = size
      BY <1>4 DEF MemoryLimit
    <3> HIDE DEF page, stop
    <3> QED BY <1>2, <3>1
  <2>5. status' # "done"
    BY <1>4 DEF MemoryLimit
  <2> QED BY <2>1, <2>2, <2>3, <2>4, <2>5, EmitKeepsWhole
<1>5. CASE Insert \/ UNCHANGED readerVars
  <2>1. PICK more : docs' = docs \cup more
    BY <1>5 DEF Insert, readerVars
  <2>2. UNCHANGED <<before, parts, cur, last, size, emitted, status>>
    BY <1>5 DEF Insert, readerVars
  <2>3. ASSUME NEW t \in IdTypes, Uniform(t)' PROVE Uniform(t)
    BY <2>1, <2>2, <2>3 DEF Uniform, OfOneType
  <2>4. ASSUME NEW t \in IdTypes, Uniform(t)'
        PROVE  /\ Fits(parts', before', t)
               /\ ReadsAll(parts', cur', last', emitted', before')
               /\ Misfit(parts'[1], t) => status' # "done" /\ cur' = 1 /\ last' = NoId
    <3>1. /\ Fits(parts, before, t)
          /\ ReadsAll(parts, cur, last, emitted, before)
          /\ Misfit(parts[1], t) => status # "done" /\ cur = 1 /\ last = NoId
      BY <2>3, <2>4 DEF WholeInv
    <3> QED BY <2>2, <3>1
  <2>5. before' # {} /\ size' \in 1..PageSize /\ last' \in docs' \cup {NoId}
        /\ (status' = "done" => cur' = Len(parts') + 1)
    BY <2>1, <2>2 DEF WholeInv
  <2> QED BY <2>4, <2>5 DEF WholeInv
<1> QED BY <1>3, <1>4, <1>5 DEF ReaderNext

(* While the documents have one type, those of the partitions walked, up   *)
(* to the last one read, were emitted.                                     *)
THEOREM WholeInvAlways == ReaderSpec => []WholeInv
<1>1. WalkInv /\ WholeInv /\ [ReaderNext]_readerVars => (WalkInv /\ WholeInv)'
  BY WalkStep, WholeStep
<1> QED BY <1>1, InitWalkInv, InitWholeInv, PTL DEF ReaderSpec

(* A walk that ends well has read every document a collection of one type  *)
(* held when it was cut, however many of that type are inserted meanwhile: *)
(* the sample, the sampled maximum and halved pages leave none out.        *)
THEOREM UniformCollectionsAreReadWhole == ReaderSpec => []UniformCollectionIsReadWhole
<1>1. WalkInv /\ WholeInv => UniformCollectionIsReadWhole
  <2>1. SUFFICES ASSUME WalkInv, WholeInv, status = "done", OneType(docs),
                        \A id \in before : id.v >= 0, NEW id \in before
                 PROVE  id \in Emitted
    BY DEF UniformCollectionIsReadWhole
  <2>2. PICK t \in IdTypes : OfType(docs, t) = docs
    BY <2>1 DEF OneType
  <2>3. Uniform(t)
    BY <2>1, <2>2 DEF Uniform, OfOneType, OfType
  <2>4. cur = Len(parts) + 1 /\ Len(parts) \in Nat
    BY <2>1 DEF WholeInv, WalkInv, IsCut, Numbered
  <2>5. Whole(parts, Len(parts), before)
    BY <2>1, <2>3 DEF WholeInv, Fits
  <2>6. Earlier(parts, cur, id)
    <3>1. PICK p \in 1..Len(parts) : Matches(id, parts[p])
      BY <2>1, <2>5 DEF Whole
    <3>2. p \in 1..(cur - 1)
      BY <2>4
    <3> QED BY <3>1, <3>2 DEF Earlier
  <2> QED BY <2>1, <2>3, <2>6 DEF WholeInv, ReadsAll, Emitted
<1> QED BY <1>1, WalkInvAlways, WholeInvAlways, PTL

(* The types of the state.                                                 *)
THEOREM ReaderTypeCorrect == ReaderSpec => []ReaderTypeOK
<1> DEFINE Rest == floor \in 0..MaxFloorRetries /\ status \in {"reading", "done", "failed"}
<1>1. MaxFloorRetries \in Nat
  BY ReaderAssumption
<1>2. ReaderInit => Rest
  BY <1>1 DEF ReaderInit
<1>3. Rest /\ [ReaderNext]_readerVars => Rest'
  <2>1. SUFFICES ASSUME Rest, [ReaderNext]_readerVars PROVE Rest'
    OBVIOUS
  <2>2. CASE ReadPage
    <3>1. \/ status' = "failed" /\ UNCHANGED floor
          \/ NextPartition
          \/ floor' = 0 /\ UNCHANGED status
      BY <2>2 DEF ReadPage
    <3> QED BY <1>1, <2>1, <3>1 DEF NextPartition
  <2>3. CASE MemoryLimit
    BY <1>1, <2>1, <2>3 DEF MemoryLimit, RetriesLeft
  <2>4. CASE Insert \/ UNCHANGED readerVars
    BY <2>1, <2>4 DEF Insert, readerVars
  <2> QED BY <2>1, <2>2, <2>3, <2>4 DEF ReaderNext
<1>4. WalkInv /\ WholeInv /\ Rest => ReaderTypeOK
  BY DEF WalkInv, WholeInv, ReaderTypeOK
<1> HIDE DEF Rest
<1> QED BY <1>2, <1>3, <1>4, WalkInvAlways, WholeInvAlways, PTL DEF ReaderSpec
=============================================================================
