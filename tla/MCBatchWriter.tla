---------------------------- MODULE MCBatchWriter ----------------------------
EXTENDS BatchWriter

MCDocs == 1..3

\* The first two documents print alike: an ObjectID and the string of its digits.
MCNames == <<"a", "a", "b">>

\* Names that are all different.
MCDistinctNames == <<"a", "b", "c">>
=============================================================================
