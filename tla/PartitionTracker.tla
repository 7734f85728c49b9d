-------------------------- MODULE PartitionTracker --------------------------
(***************************************************************************)
(* The checkpoint ledger of the change-stream pipeline: PartitionTracker   *)
(* of pkg/migration/parallel.go.                                           *)
(*                                                                         *)
(* A reader Registers every event it takes off a change stream and gets a  *)
(* sequence number back.  Workers Ack sequence numbers in whatever order   *)
(* they finish.  The tracker writes to the stream's resume-token file the  *)
(* token of the last event of the leading run of acknowledged events, so   *)
(* that a restart resumes right behind that event.                         *)
(*                                                                         *)
(* A resume token is abstracted to the position of its event in the        *)
(* stream; token 0 is the one captured before the first event.  Every      *)
(* method runs under the tracker's mutex, hence one action per method.     *)
(***************************************************************************)
EXTENDS Naturals, Sequences, FiniteSets, Functions

CONSTANTS
  Streams,        \* the change streams, one resume-token file each
  StreamLength,   \* bound: events the source produces per stream
  SaveThreshold   \* acknowledgements that force a save

ASSUME StreamLengthAssumption == StreamLength \in [Streams -> Nat]
ASSUME SaveThresholdAssumption == SaveThreshold \in Nat \ {0}

VARIABLES
  nextSeqNum,         \* next sequence number per stream; 0 before the first
  pendingSeqs,        \* registered, not yet pruned sequence numbers, in order
  unackedEvents,      \* sequence number -> [token, acked], per stream
  lastCheckpointSeq,  \* highest sequence number handed to a save
  ackCountSinceSave,
  tokenFile,          \* on disk: the token a restart resumes from
  cursor,             \* position of the last event read from the stream
  phase,              \* "up", "closed" (after Close) or "down" (crashed)
  settled,            \* history: positions acknowledged by any incarnation
  saveFailed          \* history: the streams whose latest save failed

trackerMemory == <<nextSeqNum, pendingSeqs, unackedEvents, lastCheckpointSeq,
                   ackCountSinceSave>>
trackerVars == <<trackerMemory, tokenFile, cursor, phase, settled, saveFailed>>

-----------------------------------------------------------------------------

EmptyMemory ==
  /\ nextSeqNum = [s \in Streams |-> 0]
  /\ pendingSeqs = [s \in Streams |-> << >>]
  /\ unackedEvents = [s \in Streams |-> << >>]
  /\ lastCheckpointSeq = [s \in Streams |-> 0]
  /\ ackCountSinceSave = 0

TrackerInit ==
  /\ EmptyMemory
  /\ tokenFile = [s \in Streams |-> 0]
  /\ cursor = [s \in Streams |-> 0]
  /\ phase = "up"
  /\ settled = [s \in Streams |-> {}]
  /\ saveFailed = {}

\* The sequence number the next Register of stream s returns.
NextSeq(s) == IF nextSeqNum[s] = 0 THEN 1 ELSE nextSeqNum[s]

(* Register: the reader of s has read the event behind its cursor. *)
Register(s) ==
  /\ phase = "up"
  /\ cursor[s] < StreamLength[s]
  /\ cursor' = [cursor EXCEPT ![s] = @ + 1]
  /\ nextSeqNum' = [nextSeqNum EXCEPT ![s] = NextSeq(s) + 1]
  /\ pendingSeqs' = [pendingSeqs EXCEPT ![s] = Append(@, NextSeq(s))]
  /\ unackedEvents' =
       [unackedEvents EXCEPT ![s] =
          [q \in DOMAIN @ \cup {NextSeq(s)} |->
             IF q = NextSeq(s) THEN [token |-> cursor[s] + 1, acked |-> FALSE]
                               ELSE @[q]]]
  /\ UNCHANGED <<lastCheckpointSeq, ackCountSinceSave, tokenFile, phase,
                 settled, saveFailed>>

-----------------------------------------------------------------------------

\* The leading sequence numbers of pend whose events are all acknowledged.
LeadingRun(pend, events) ==
  {i \in 1..Len(pend) : \A j \in 1..i : events[pend[j]].acked}

\* Mutant: the pruning loop goes on past an event not acknowledged.
PrunedCountPastHoles(pend, events) ==
  LET acked == {i \in 1..Len(pend) : events[pend[i]].acked}
  IN IF acked = {} THEN 0 ELSE CHOOSE i \in acked : \A j \in acked : j <= i

\* prunedCount of saveCheckpointsLocked.
PrunedCount(pend, events) == Cardinality(LeadingRun(pend, events))

(* saveCheckpointsLocked over the given event map.  The writes of the      *)
(* streams in failed go wrong: that is logged only, with lastCheckpointSeq *)
(* already moved.                                                          *)
SaveCheckpoints(events, failed) ==
  LET cut == [s \in Streams |-> PrunedCount(pendingSeqs[s], events[s])]
      pruned(s) == {pendingSeqs[s][i] : i \in 1..cut[s]}
      top(s) == pendingSeqs[s][cut[s]]
      advances(s) == cut[s] > 0 /\ top(s) > lastCheckpointSeq[s]
  IN /\ pendingSeqs' = [s \in Streams |->
          SubSeq(pendingSeqs[s], cut[s] + 1, Len(pendingSeqs[s]))]
     /\ unackedEvents' = [s \in Streams |->
          Restrict(events[s], DOMAIN events[s] \ pruned(s))]
     /\ lastCheckpointSeq' = [s \in Streams |->
          IF advances(s) THEN top(s) ELSE lastCheckpointSeq[s]]
     /\ tokenFile' = [s \in Streams |->
          IF advances(s) /\ s \notin failed
          THEN events[s][top(s)].token ELSE tokenFile[s]]
     /\ saveFailed' = {s \in Streams :
          s \in (IF advances(s) THEN failed ELSE saveFailed)}
     /\ ackCountSinceSave' = 0

\* Mutant: the lookup of the sequence number is not checked.
MarkAckedUnchecked(s, seq) ==
  [unackedEvents EXCEPT ![s] =
     [q \in DOMAIN @ \cup {seq} |-> IF q = seq THEN [acked |-> TRUE] ELSE @[q]]]

\* The event map with seq of stream s marked; an unknown seq changes nothing.
MarkAcked(s, seq) ==
  IF seq \in DOMAIN unackedEvents[s]
  THEN [unackedEvents EXCEPT ![s][seq].acked = TRUE]
  ELSE unackedEvents

NewlyAcked(s, seq) ==
  seq \in DOMAIN unackedEvents[s] /\ ~unackedEvents[s][seq].acked

AckCount(s, seq) == ackCountSinceSave + (IF NewlyAcked(s, seq) THEN 1 ELSE 0)

(* Ack of sequence number seq of stream s, which stands for position pos.  *)
(* elapsed: a checkpoint interval has gone by since the last save.         *)
Ack(s, seq, pos, elapsed, failed) ==
  /\ phase = "up"
  /\ settled' = [settled EXCEPT ![s] = @ \cup {pos}]
  /\ IF AckCount(s, seq) >= SaveThreshold \/ elapsed
     THEN SaveCheckpoints(MarkAcked(s, seq), failed)
     ELSE /\ unackedEvents' = MarkAcked(s, seq)
          /\ ackCountSinceSave' = AckCount(s, seq)
          /\ UNCHANGED <<pendingSeqs, lastCheckpointSeq, tokenFile, saveFailed>>
  /\ UNCHANGED <<nextSeqNum, cursor, phase>>

\* Mutant: the ticker saves only when the acknowledgement threshold is met.
PeriodicSaveAtThreshold(failed) ==
  /\ phase = "up"
  /\ ackCountSinceSave >= SaveThreshold
  /\ SaveCheckpoints(unackedEvents, failed)
  /\ UNCHANGED <<nextSeqNum, cursor, phase, settled>>

(* The ticker goroutine of Start.  Its guard (an acknowledgement since the *)
(* last save, or a whole interval gone by) is left out: without either the *)
(* save finds nothing new, or the interval may just have elapsed.          *)
PeriodicSave(failed) ==
  /\ phase = "up"
  /\ SaveCheckpoints(unackedEvents, failed)
  /\ UNCHANGED <<nextSeqNum, cursor, phase, settled>>

\* Mutant: Close forgets the last flush.
CloseWithoutFlush(failed) ==
  /\ phase = "up"
  /\ phase' = "closed"
  /\ UNCHANGED <<trackerMemory, tokenFile, cursor, settled, saveFailed>>

(* Close: the last flush of an orderly shutdown. *)
Close(failed) ==
  /\ phase = "up"
  /\ SaveCheckpoints(unackedEvents, failed)
  /\ phase' = "closed"
  /\ UNCHANGED <<nextSeqNum, cursor, settled>>

(* The process dies. *)
Crash ==
  /\ phase = "up"
  /\ phase' = "down"
  /\ UNCHANGED <<trackerMemory, tokenFile, cursor, settled, saveFailed>>

\* Mutant: the streams are reopened at their beginning.
RestartFromScratch ==
  /\ phase \in {"closed", "down"}
  /\ phase' = "up"
  /\ cursor' = [s \in Streams |-> 0]
  /\ nextSeqNum' = [s \in Streams |-> 0]
  /\ pendingSeqs' = [s \in Streams |-> << >>]
  /\ unackedEvents' = [s \in Streams |-> << >>]
  /\ lastCheckpointSeq' = [s \in Streams |-> 0]
  /\ ackCountSinceSave' = 0
  /\ saveFailed' = {}
  /\ UNCHANGED <<tokenFile, settled>>

(* A new process: an empty tracker, streams reopened behind the token file. *)
Restart ==
  /\ phase \in {"closed", "down"}
  /\ phase' = "up"
  /\ cursor' = tokenFile
  /\ nextSeqNum' = [s \in Streams |-> 0]
  /\ pendingSeqs' = [s \in Streams |-> << >>]
  /\ unackedEvents' = [s \in Streams |-> << >>]
  /\ lastCheckpointSeq' = [s \in Streams |-> 0]
  /\ ackCountSinceSave' = 0
  /\ saveFailed' = {}
  /\ UNCHANGED <<tokenFile, settled>>

-----------------------------------------------------------------------------

\* What the rest of the pipeline may do to the tracker: any registered event
\* may be acknowledged, in any order, and more than once.
AckAny ==
  \E s \in Streams, failed \in SUBSET Streams, elapsed \in BOOLEAN :
    \E seq \in 1..(NextSeq(s) - 1) :
      Ack(s, seq, (cursor[s] + 1 + seq) - NextSeq(s), elapsed, failed)

TrackerNext ==
  \/ \E s \in Streams : Register(s)
  \/ AckAny
  \/ \E failed \in SUBSET Streams : PeriodicSave(failed)
  \/ \E failed \in SUBSET Streams : Close(failed)
  \/ Crash
  \/ Restart

TrackerSpec == TrackerInit /\ [][TrackerNext]_trackerVars

\* The ticker goroutine keeps ticking as long as the process is up.
FairTrackerSpec ==
  TrackerSpec /\ WF_trackerVars(\E failed \in SUBSET Streams : PeriodicSave(failed))

-----------------------------------------------------------------------------

EventRecord == [token : Nat, acked : BOOLEAN]

(* Every variable of the tracker stays in its type. *)
TrackerTypeOK ==
  /\ nextSeqNum \in [Streams -> Nat]
  /\ pendingSeqs \in [Streams -> Seq(Nat)]
  /\ DOMAIN unackedEvents = Streams
  /\ \A s \in Streams :
       unackedEvents[s] \in [DOMAIN unackedEvents[s] -> EventRecord]
  /\ lastCheckpointSeq \in [Streams -> Nat]
  /\ ackCountSinceSave \in Nat
  /\ tokenFile \in [Streams -> Nat]
  /\ cursor \in [Streams -> Nat]
  /\ phase \in {"up", "closed", "down"}
  /\ settled \in [Streams -> SUBSET Nat]
  /\ saveFailed \subseteq Streams
  /\ \A s \in Streams : cursor[s] <= StreamLength[s]

(* Whatever the order of the acknowledgements, the failures of the disk,   *)
(* the crashes and the restarts: an event at or before a saved token has   *)
(* been acknowledged, so a restart skips no event that was still in flight *)
(* (saveCheckpointsLocked stops at the first event not acknowledged).      *)
CheckpointCoversOnlyAcked ==
  \A s \in Streams : 1..tokenFile[s] \subseteq settled[s]

(* A resume-token file never moves backwards, across restarts included:    *)
(* saveCheckpointsLocked only hands on a token beyond the last one.        *)
CheckpointNeverRegresses ==
  [][\A s \in Streams : tokenFile'[s] >= tokenFile[s]]_trackerVars

(* After Close the token file is as far as it may be: the event behind it  *)
(* is either unread or still unacknowledged, unless the write failed.      *)
CloseFlushesBoundary ==
  phase = "closed" =>
    \A s \in Streams :
      \/ s \in saveFailed
      \/ tokenFile[s] = cursor[s]
      \/ \E q \in DOMAIN unackedEvents[s] :
           /\ ~unackedEvents[s][q].acked
           /\ unackedEvents[s][q].token = tokenFile[s] + 1

\* Every event of s up to position p has been read and acknowledged.
AckedThrough(s, p) ==
  /\ p <= cursor[s]
  /\ \A q \in DOMAIN unackedEvents[s] :
       unackedEvents[s][q].token <= p => unackedEvents[s][q].acked

(* Progress that has been acknowledged reaches the disk without further    *)
(* events: the ticker of Start saves it, unless the process stops or the   *)
(* disk refuses the write.                                                 *)
AckedProgressIsSaved ==
  \A s \in Streams : \A p \in 1..StreamLength[s] :
    (phase = "up" /\ AckedThrough(s, p)) ~>
      (phase # "up" \/ tokenFile[s] >= p \/ s \in saveFailed)

=============================================================================
