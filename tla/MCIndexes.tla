------------------------------ MODULE MCIndexes ------------------------------
(* DeferredIndexes with small values for TLC. *)
EXTENDS DeferredIndexes

MCCollections == {"big", "small"}
MCIndexes == {"idBig", "idSmall", "name"}
MCIdIndexes == {"idBig", "idSmall"}
MCCollOf == [i \in MCIndexes |-> IF i = "idSmall" THEN "small" ELSE "big"]
=============================================================================
