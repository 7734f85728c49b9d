---------------------------- MODULE DeadLetters ----------------------------
(***************************************************************************)
(* The lines of a dead letter queue file and the three ways the program    *)
(* reads them: the pre-scan of a start and the retry take the lines in     *)
(* order, the console's report takes all tombstones first, and the check   *)
(* whether there is anything in the file looks at no line at all.          *)
(***************************************************************************)
EXTENDS Integers, Sequences, FiniteSets

CONSTANTS
    Docs,   \* documents, numbered in the order of their _id
    NameOf  \* the _id of a document as the report prints it

ASSUME DeadLettersAssumption ==
    /\ IsFiniteSet(Docs) /\ Docs = 1..Cardinality(Docs) /\ DOMAIN NameOf = Docs

Header == [is |-> "header", doc |-> 0]
Failed(d) == [is |-> "failed", doc |-> d]
Resolved(d) == [is |-> "resolved", doc |-> d]
Lines == {Header} \cup {Failed(d) : d \in Docs} \cup {Resolved(d) : d \in Docs}

\* NewDLQWriter.
NewFile == <<Header>>

\* WriteFailed drops a document refused because the context has ended.
WriteFailed(file, d, kind) == IF kind = "canceled" THEN file ELSE Append(file, Failed(d))
WriteResolved(file, d) == Append(file, Resolved(d))

LinesOf(file, line) == {i \in DOMAIN file : file[i] = line}

\* PopulateActiveFailedIDs: a tombstone takes back the failures in front of it.
PopulateActiveFailedIDs(file) ==
    {d \in Docs : \E i \in LinesOf(file, Failed(d)) : \A j \in LinesOf(file, Resolved(d)) : j < i}

HasActiveFailedRecords(file) == \E i \in DOMAIN file : file[i] # Header

\* ReadDLQReport: a name is on the report when it failed and was never
\* resolved; no more than a maximum of the entries are returned.
Named(file, kind) == {NameOf[file[i].doc] : i \in {j \in DOMAIN file : file[j].is = kind}}
\* Mutant: the number of failures is taken after the list was cut.
ReadDLQReportCutFirst(file, max) ==
    LET open == Cardinality(Named(file, "failed") \ Named(file, "resolved"))
    IN [count |-> IF open > max THEN max ELSE open, returned |-> IF open > max THEN max ELSE open]
ReadDLQReport(file, max) ==
    LET open == Cardinality(Named(file, "failed") \ Named(file, "resolved"))
    IN [count |-> open, returned |-> IF open > max THEN max ELSE open]
=============================================================================
