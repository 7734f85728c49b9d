------------------------- MODULE MCPartitionTracker -------------------------
(* Two streams of different length, so that the acknowledgement counter    *)
(* they share matters.                                                     *)
EXTENDS PartitionTracker

MCStreams == {"s1", "s2"}
MCStreamLength == [s \in MCStreams |-> IF s = "s1" THEN 3 ELSE 1]

=============================================================================
