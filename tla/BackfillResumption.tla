------------------------- MODULE BackfillResumption -------------------------
(***************************************************************************)
(* What a backfill makes of the partition checkpoints it finds on disk     *)
(* (backfill_resumption.go, backfill_checkpoint.go).  Pure operators.      *)
(*                                                                         *)
(* A checkpoint holds, for each BSON type it knows, the bounds of the      *)
(* partition and the last _id saved: a function from types to boundaries.  *)
(* The files are a function from <<index, total>> to checkpoints.          *)
(***************************************************************************)
EXTENDS ReadPartitioning

NoCheckpoint == [total |-> 0, prog |-> <<>>]
Boundary(lo, hi, saved) == [lo |-> lo, hi |-> hi, saved |-> saved]
Unbounded == Boundary(NoId, NoId, NoId)
Known(files) == {k \in DOMAIN files : files[k] # NoCheckpoint}

\* ValidateCheckpointSet: the files are exactly those of n partitions, and each
\* knows a type.
IsValidSet(files, n) ==
    /\ Known(files) = {<<i, n>> : i \in 0..(n - 1)}
    /\ \A k \in Known(files) : DOMAIN files[k].prog # {}

\* isCompleteHistoricalSet, for the number of partitions it is the set of.
HistoricalSizes(files) == {n \in {k[2] : k \in Known(files)} : IsValidSet(files, n)}

\* CompareBSONValues fails on values of two types.
Comparables(a, b) == a = NoId \/ b = NoId \/ a.t = b.t
\* Has the partition read all of this type?
Completed(b) == b.saved # NoId /\ b.hi # NoId /\ b.hi.v <= b.saved.v
\* Where the type goes on: $gte, so that the last document is read again.
ResumeAt(b) == IF b.saved # NoId THEN b.saved ELSE b.lo

(***************************************************************************)
(* BuildPartitionFilterFromCheckpoint.                                     *)
(***************************************************************************)
FilterFails(cp) ==
    \/ DOMAIN cp.prog = {}
    \/ \E t \in DOMAIN cp.prog :
         LET b == cp.prog[t]
         IN \/ cp.total > 1 /\ b.lo = NoId /\ b.hi = NoId
            \/ ~Comparables(b.saved, b.hi)

FilterOf(cp) ==
    {[TypeClause(t) EXCEPT !.lo = ResumeAt(cp.prog[t]), !.hi = cp.prog[t].hi]
        : t \in {u \in DOMAIN cp.prog : ~Completed(cp.prog[u])}}

(***************************************************************************)
(* ExtractGlobalMinSafeIDs: for each type, where its first unfinished      *)
(* partition goes on; NoId when that partition has not begun.              *)
(***************************************************************************)
Unfinished(files, n, t) ==
    {i \in 0..(n - 1) : t \in DOMAIN files[<<i, n>>].prog /\ ~Completed(files[<<i, n>>].prog[t])}

GlobalMinFails(files) ==
    \E k \in Known(files) : \E t \in DOMAIN files[k].prog :
        ~Comparables(files[k].prog[t].saved, files[k].prog[t].hi)

\* Mutant: the last unfinished partition decides instead of the first.
GlobalMinOfLast(files, n) ==
    [t \in {u \in IdTypes : Unfinished(files, n, u) # {}} |->
        LET i == CHOOSE j \in Unfinished(files, n, t) : \A k \in Unfinished(files, n, t) : k <= j
        IN ResumeAt(files[<<i, n>>].prog[t])]
GlobalMin(files, n) ==
    [t \in {u \in IdTypes : Unfinished(files, n, u) # {}} |->
        LET i == CHOOSE j \in Unfinished(files, n, t) : \A k \in Unfinished(files, n, t) : j <= k
        IN ResumeAt(files[<<i, n>>].prog[t])]

(***************************************************************************)
(* ExtractTypeRangeBoundariesFromFilter: only $type, $gte and $lt of each  *)
(* clause; the inclusive ceiling of a last partition and $mod are dropped. *)
(***************************************************************************)
ClauseType(c) ==
    CASE c.type # "any" -> c.type
      [] c.type = "any" /\ c.lo # NoId -> c.lo.t
      [] c.type = "any" /\ c.lo = NoId /\ c.hi # NoId /\ ~c.hiIncl -> c.hi.t
      [] OTHER -> "none"

Boundaries(filter) ==
    LET typed == {c \in filter : ClauseType(c) # "none"}
    IN [t \in {ClauseType(c) : c \in typed} |->
          LET c == CHOOSE x \in typed : ClauseType(x) = t
          IN Boundary(c.lo, IF c.hiIncl THEN NoId ELSE c.hi, NoId)]

(***************************************************************************)
(* ClampPartitionsWithGlobalMinSafeIDs.                                    *)
(***************************************************************************)
MinOf(gmin, t) == IF t \in DOMAIN gmin THEN gmin[t] ELSE NoId

\* clampBoundary drops a range wholly below the minimum ...
BelowMin(t, b, min) == min.t = t /\ b.hi.t = t /\ b.hi.v <= min.v
\* ... and raises the start of the others to it.
Clamped(t, b, min) ==
    IF min = NoId \/ min.t # t THEN b
    ELSE Boundary(IF b.lo = NoId \/ (b.lo.t = min.t /\ b.lo.v < min.v) THEN min ELSE b.lo, b.hi, NoId)

\* clampPartition.  The empty filter gets the types with a minimum only.
ClampPartition(filter, gmin) ==
    LET own == Boundaries(filter)
        ranges == IF own = <<>> /\ filter = Everything
                  THEN [t \in {u \in DOMAIN gmin : gmin[u] # NoId} |-> Boundary(gmin[t], NoId, NoId)]
                  ELSE own
        active == {t \in DOMAIN ranges : ~BelowMin(t, ranges[t], MinOf(gmin, t))}
    IN FilterOf([total |-> 0, prog |-> [t \in active |-> Clamped(t, ranges[t], MinOf(gmin, t))]])

ClampPartitions(parts, gmin) ==
    IF DOMAIN gmin = {} THEN parts ELSE [i \in DOMAIN parts |-> ClampPartition(parts[i], gmin)]

(***************************************************************************)
(* DetermineBackfillResumptionPlan.                                        *)
(***************************************************************************)
PlanMode(files, n) ==
    IF IsValidSet(files, n)
    THEN IF \E k \in Known(files) : FilterFails(files[k]) THEN "fresh" ELSE "direct"
    ELSE IF HistoricalSizes(files) # {} /\ ~GlobalMinFails(files) THEN "resample" ELSE "fresh"

DirectFilters(files, n) == [i \in 1..n |-> FilterOf(files[<<i - 1, n>>])]
PlannedMin(files) == GlobalMin(files, CHOOSE n \in HistoricalSizes(files) : TRUE)
=============================================================================
