----------------------------- MODULE MCBackfill -----------------------------
EXTENDS Backfill, TLC

Str(v) == [t |-> "string", v |-> v]
Oid(v) == [t |-> "objectId", v |-> v]
MCDocs == {Str(10), Str(50), Str(70), Oid(3)}

\* A collection of one type, which may be partitioned, and one of two types.
MCSources == {{Str(10), Str(50)}, {Str(10), Str(50), Oid(3)}}

\* A collection with more batches than a worker and the channel can hold.
MCLongSource == {{Str(10), Str(50), Str(70)}}

\* The workers of a partition are interchangeable.
MCSymmetry == Permutations(Workers)
=============================================================================
