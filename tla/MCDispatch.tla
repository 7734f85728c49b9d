----------------------------- MODULE MCDispatch -----------------------------
(* CollectionDispatch with small values for TLC. *)
EXTENDS CollectionDispatch

MCCollections == {"big", "small", "tiny"}
MCLarge == {"big"}

\* The limit up with a new global knob, and down with the tuning of a
\* collection that is read with a single cursor otherwise.
MCContents == {[coll |-> "all", conc |-> 2, workers |-> 4],
               [coll |-> "tiny", conc |-> 1, workers |-> 3]}
=============================================================================
