--------------------------- MODULE CollectionCopy ---------------------------
(***************************************************************************)
(* What the initial backfill of one collection promises: documents are     *)
(* settled one after the other (written, or recorded in the dead letter    *)
(* queue), a bookmark lets a later attempt leave out documents, and        *)
(* success is reported only when every document is settled.  The documents *)
(* in "excused" were given up by an error path that Backfill names.        *)
(***************************************************************************)
CONSTANT AllDocs

VARIABLES docs, settled, bookmarked, excused, outcome

copyVars == <<docs, settled, bookmarked, excused, outcome>>

CopyInit ==
    /\ docs \in SUBSET AllDocs
    /\ settled = {} /\ bookmarked = {} /\ excused = {} /\ outcome = "none"

\* An attempt makes progress: what is settled stays settled.
Progress ==
    /\ outcome' = outcome
    /\ settled \subseteq settled' /\ settled' \subseteq docs

\* An attempt ends, and reports success only when nothing is left.
Report ==
    /\ outcome' \in {"none", "failed"} \/ (outcome' = "ok" /\ docs \subseteq settled \cup excused)
    /\ UNCHANGED settled

\* A bookmark leaves out what is settled or given up, and nothing else.
Honest == bookmarked' \subseteq settled' \cup excused'

\* Nothing happens after success.
CopyNext ==
    /\ outcome # "ok" /\ UNCHANGED docs /\ excused \subseteq excused'
    /\ Progress \/ Report
    /\ Honest

CopySpec == CopyInit /\ [][CopyNext]_copyVars
=============================================================================
