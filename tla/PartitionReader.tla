--------------------------- MODULE PartitionReader ---------------------------
(***************************************************************************)
(* Reading a collection through its partitions (the reader half of         *)
(* migrateCollectionParallel): the partitions are cut, then each is walked *)
(* in pages by ascending _id, while documents are inserted and queries run *)
(* into the 128 MiB limit of the endpoint.  The partitions are walked one  *)
(* after the other: they share nothing but the source.                     *)
(***************************************************************************)
EXTENDS ReadPartitioning

CONSTANTS
    Ids,               \* the _ids documents may have
    Collections,       \* the collections to start from: sets of Ids
    Counts,            \* partition counts byte-aware sizing may ask for
    MaxReadPartitions, \* the configured maximum, which the min/max fallback uses
    IdTypeSettings,    \* values of IDTypeForPartition
    PageSize,          \* documents of a page (1000 to 50000 in the code)
    MaxFloorRetries,   \* retries of a page of one document (8 in the code)
    MaxInserts         \* bound: documents inserted while the walk runs

ASSUME ReaderAssumption ==
    /\ Ids \subseteq [t : IdTypes, v : Int]
    /\ \A id \in Ids : id.t = "objectId" => id.v >= 0   \* its time is an unsigned integer
    /\ Collections \subseteq (SUBSET Ids) \ {{}} /\ \A c \in Collections : IsFiniteSet(c)
    /\ Counts \subseteq Nat \ {0} /\ MaxReadPartitions \in Nat \ {0}
    /\ PageSize \in Nat \ {0} /\ MaxFloorRetries \in Nat /\ MaxInserts \in Nat
    /\ IdTypeSettings \subseteq {"auto", "objectid", "numeric", "mixed"}

VARIABLES
    docs,      \* the documents of the source
    before,    \* history: those present when the partitions were cut
    parts,     \* the filters of the partitions
    cur,       \* the partition being walked
    last,      \* lastReadID, NoId before the first document
    size,      \* pageSize
    floor,     \* floorRetries
    emitted,   \* history: the documents handed to the workers, in order
    status     \* "reading", "done" or "failed"

readerVars == <<docs, before, parts, cur, last, size, floor, emitted, status>>

ReaderTypeOK ==
    /\ docs \subseteq Ids /\ before \subseteq docs
    /\ cur \in 1..(Len(parts) + 1)
    /\ last \in Ids \cup {NoId}
    /\ size \in 1..PageSize /\ floor \in 0..MaxFloorRetries
    /\ emitted \in Seq(Ids)
    /\ status \in {"reading", "done", "failed"}

\* Any partitions a collection of this kind can get.
ReaderInit ==
    /\ docs \in Collections
    /\ before = docs
    /\ \E idType \in IdTypeSettings, sample \in SUBSET docs, seed \in docs \cup {NoId},
          n \in Counts, discovered \in BOOLEAN :
         /\ n <= Cardinality(docs)
         /\ parts = Partition(docs, idType, sample, seed, n, MaxReadPartitions, discovered)
    /\ cur = 1 /\ last = NoId /\ size = PageSize /\ floor = 0
    /\ emitted = <<>> /\ status = "reading"

Comparable(a, b) == a.t = b.t

(***************************************************************************)
(* A page: the documents the query returns in order, up to the limit.  The *)
(* walk over it ends at the first document that is past the upper bound,   *)
(* which closes the partition, or that cannot be compared with the bound   *)
(* or the previous _id, which is an error.                                 *)
(***************************************************************************)
SortedPage(ids) == SubSeq(Sorted(ids), 1, Cardinality(ids))

Page(filter) ==
    LET matching == Selected(docs, PageFilter(filter, last))
        rank(id) == Cardinality({x \in matching : IdLess(x, id)}) + 1
        first == {id \in matching : rank(id) <= size}
    IN SortedPage(first)

UpperBound(filter) == IF IsPlainRange(filter) THEN (CHOOSE c \in filter : TRUE).hi ELSE NoId

PastBound(id, filter) ==
    LET c == CHOOSE x \in filter : TRUE
    IN /\ UpperBound(filter) # NoId
       /\ Comparable(id, c.hi)
       /\ c.hi.v < id.v \/ (c.hi.v = id.v /\ ~c.hiIncl)

Unordered(page, i, filter) ==
    LET prev == IF i = 1 THEN last ELSE page[i - 1]
    IN \/ UpperBound(filter) # NoId /\ ~Comparable(page[i], UpperBound(filter))
       \/ prev # NoId /\ (~Comparable(page[i], prev) \/ page[i].v <= prev.v)

\* The first document that ends the walk over the page, behind its end if none.
StopAt(page, filter) ==
    LET stops == {i \in DOMAIN page : PastBound(page[i], filter) \/ Unordered(page, i, filter)}
    IN IF stops = {} THEN Len(page) + 1 ELSE CHOOSE i \in stops : \A j \in stops : i <= j

\* Emit the first k documents of the page.
Emit(page, k) ==
    /\ emitted' = emitted \o SubSeq(page, 1, k)
    /\ last' = IF k = 0 THEN last ELSE page[k]

NextPartition ==
    /\ cur' = cur + 1 /\ size' = PageSize /\ floor' = 0
    /\ status' = IF cur = Len(parts) THEN "done" ELSE "reading"

(***************************************************************************)
(* Actions.                                                                *)
(***************************************************************************)
\* A page without a query error: the partition ends past its bound or with a
\* short page, fails at an _id out of order, or goes on with the next page.
ReadPage ==
    /\ status = "reading"
    /\ \E page \in {Page(parts[cur])} : \E stop \in {StopAt(page, parts[cur])} :
         LET unordered == stop <= Len(page) /\ ~PastBound(page[stop], parts[cur])
             over == stop <= Len(page) \/ Len(page) < size
         IN \/ /\ unordered
               /\ Emit(page, stop - 1) /\ status' = "failed"
               /\ UNCHANGED <<cur, size, floor>>
            \/ /\ ~unordered /\ over
               /\ emitted' = emitted \o SubSeq(page, 1, stop - 1)
               /\ last' = NoId /\ NextPartition
            \/ /\ ~unordered /\ ~over
               /\ Emit(page, Len(page))
               /\ floor' = 0 /\ size' = PageSize
               /\ UNCHANGED <<cur, status>>
    /\ UNCHANGED <<docs, before, parts>>

\* The documents of a page the reader got before the query failed: none, or
\* some of those in front of the first that would have ended the walk.
CutShort ==
    \E page \in {Page(parts[cur])} : \E k \in 0..(StopAt(page, parts[cur]) - 1) : Emit(page, k)

\* The smallest page is tried again.
RetriesLeft == floor < MaxFloorRetries

\* The endpoint gives up with its memory limit: the page is halved, and retried
\* a few times once it is a single document.
\* Mutant: the page size recovers after a retry of the smallest page.
MemoryLimitRecovers ==
    /\ status = "reading"
    /\ CutShort
    /\ size' = IF size > 1 THEN size \div 2 ELSE PageSize
    /\ UNCHANGED <<docs, before, parts, cur, floor, status>>
MemoryLimit ==
    /\ status = "reading"
    /\ CutShort
    /\ \/ /\ size > 1
          /\ size' = size \div 2 /\ UNCHANGED <<floor, status>>
       \/ /\ size = 1 /\ RetriesLeft
          /\ floor' = floor + 1 /\ UNCHANGED <<size, status>>
       \/ /\ size = 1 /\ ~RetriesLeft
          /\ status' = "failed" /\ UNCHANGED <<size, floor>>
    /\ UNCHANGED <<docs, before, parts, cur>>

\* The application goes on writing (external).
Insert ==
    /\ status = "reading"
    /\ Cardinality(docs \ before) < MaxInserts
    /\ \E id \in Ids \ docs : docs' = docs \cup {id}
    /\ UNCHANGED <<before, parts, cur, last, size, floor, emitted, status>>

ReaderNext == ReadPage \/ MemoryLimit \/ Insert

\* The reader of a partition is a goroutine that nothing blocks for ever.
ReaderSpec == ReaderInit /\ [][ReaderNext]_readerVars /\ WF_readerVars(ReadPage \/ MemoryLimit)

(***************************************************************************)
(* Properties.                                                             *)
(***************************************************************************)
Emitted == {emitted[i] : i \in DOMAIN emitted}

OneType(ids) == \E t \in IdTypes : OfType(ids, t) = ids

\* The partitions are disjoint and a retried page goes on where it stopped: no
\* document is handed to the workers twice, however pages are halved, samples
\* are drawn and documents inserted.  Excepted is one inserted into a collection
\* of several types: an end of another type counts as 0 there, so that the
\* boundaries between the ends of the collection may decrease.  Excepted too are
\* the strings of a collection with more partitions than prefixes of two digits
\* (256): the slices of its strings may overlap.
OverlappingSlices(id) == id.t = "string" /\ Len(parts) > Prefixes
NoDocumentIsReadTwice ==
    \A i, j \in DOMAIN emitted :
        i < j /\ emitted[i] = emitted[j]
          => OverlappingSlices(emitted[i]) \/ (emitted[i] \notin before /\ ~OneType(before))

\* migrator.go:1373-1377 clamps the count to guard the invariant that no two
\* partitions have overlapping boundaries, which would read some ranges again: a
\* document present when the partitions were cut is read once.
NoRangeIsScannedAgain ==
    \A i, j \in DOMAIN emitted : i < j /\ emitted[i] = emitted[j] => emitted[i] \notin before

\* A collection whose _ids have one type is read whole or the walk fails
\* loudly, whatever the samples were: every document present when the
\* partitions were cut is read, those above the sampled maximum included.
\* Negative numbers are excepted: the remainder slices of a small numeric
\* collection match none of them.
UniformCollectionIsReadWhole ==
    status = "done" /\ OneType(docs) /\ (\A id \in before : id.v >= 0)
      => before \subseteq Emitted

\* parallel_read.go and migrator.go (the comments of readPage) promise to fail
\* loudly rather than to skip a document: a walk that ends well has read every
\* document of the collection.
EveryDocumentIsRead == status = "done" => before \subseteq Emitted

\* However often a query meets the memory limit, the walk comes to an end: the
\* page is shrunk, and the retries of the smallest page are bounded.
WalkEnds == <>(status # "reading")
==============================================================================
