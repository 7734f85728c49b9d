------------------------------ MODULE MCReader ------------------------------
EXTENDS PartitionReader

Num(v) == [t |-> "number", v |-> v]
Str(v) == [t |-> "string", v |-> v]
Oid(v) == [t |-> "objectId", v |-> v]

\* Two numbers apart, one of them below zero, strings by their prefix ("00...",
\* "01...", "10..." with a radix of 2) and ObjectIDs by their time.
FewIds == {Num(-1), Num(1), Num(2), Num(6), Str(10), Str(30), Str(50), Oid(3), Oid(4), Oid(9)}
MCIds == FewIds \cup {Str(42), Str(70)}

\* Collections of up to four documents, of one type and of two, and one of more
\* strings than there are prefixes of two digits.
MCCollections ==
    {s \in SUBSET FewIds : /\ Cardinality(s) \in 2..4
                           /\ OneType(s) \/ (Cardinality(s) = 3 /\ \A i \in s : i.v # 2 /\ i.v # 4)}
      \cup {{Str(10), Str(30), Str(42), Str(50), Str(70)}}

\* Strings with ObjectIDs, both common in one Firestore collection.
MCMixedCollections ==
    {{Str(10), Oid(3), Oid(4)}}

\* The strings alone, and two of them.
MCStrings == {Str(10), Str(30), Str(42), Str(50), Str(70)}
MCStringCollections == {MCStrings, {Str(10), Str(50)}}
=============================================================================
