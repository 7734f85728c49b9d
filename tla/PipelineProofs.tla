--------------------------- MODULE PipelineProofs ---------------------------
(***************************************************************************)
(* Proofs about ChangeStreamPipeline, for every log, any number of         *)
(* streams, documents and workers, every batch and queue size and every    *)
(* option.                                                                 *)
(*                                                                         *)
(* The first part is about queues: the pipeline drives its checkpoint      *)
(* ledger as PartitionTracker allows, and its queues stay within their     *)
(* capacities (PipeInv).                                                   *)
(*                                                                         *)
(* The second is about documents: the only writes behind a saved token     *)
(* that may be lost are those an error path gave up (LossIsConfined), and  *)
(* where no such path exists none is lost at all (LossInv, CleanInv).      *)
(***************************************************************************)
EXTENDS ChangeStreamPipeline, PartitionTrackerProofs

(* The events that may be in flight: each is one the ledger has registered *)
(* in this run of the process, under its own number.                       *)
Live ==
  {e \in Event : /\ e.seq <= Issued(e.stream)
                 /\ e.pos = (cursor[e.stream] - Issued(e.stream)) + e.seq}

ReadTypes ==
  /\ ingestQueue \in Seq(Live) /\ Len(ingestQueue) <= IngestCap
  /\ readerHand \in [Streams -> {h \in Seq(Live) : Len(h) <= 1}]
  /\ distHand \in Seq(Live) /\ Len(distHand) <= 1
  /\ readerDone \subseteq Streams
  /\ distDone \in BOOLEAN /\ cancelled \in BOOLEAN

Groups == {g \in Seq(Live) : g # << >> /\ Len(g) <= BatchSize}

LoopTypes ==
  /\ batchingQueue \in [Workers -> {q \in Seq(Live) : Len(q) <= BatchCap}]
  /\ currentGroup \in [Workers -> Groups \cup {<< >>}]
  /\ batchWriteQueue \in [Workers -> {q \in Seq(Groups) : Len(q) <= WriteCap}]
  /\ loopDone \subseteq Workers

(* A writer at work has something left to do.                              *)
WriterStates ==
  {wr \in [stage : WriterStages, group : Groups \cup {<< >>}, fresh : BOOLEAN,
           todo : SUBSET Nat, ok : SUBSET Nat] :
     /\ wr.todo \subseteq 1..Len(wr.group) /\ wr.ok \subseteq 1..Len(wr.group)
     /\ wr.stage # "idle" => wr.group # << >>
     /\ wr.stage \in {"retry", "resolve", "ack"} => wr.todo # {}}

WriterTypes == writer \in [Workers -> WriterStates]

DataTypes ==
  /\ target \in [Docs -> Nat] /\ dlq \in [Docs -> Nat]
  /\ unwritten \in [Streams -> SUBSET Nat]

PipeInv == TrackerInv /\ ReadTypes /\ LoopTypes /\ WriterTypes /\ DataTypes

-----------------------------------------------------------------------------

(* A nonempty set of indexes has a first element: the leading run of       *)
(* indexes outside it is an interval, and the next index is in it.         *)
LEMMA FirstExists ==
  ASSUME NEW n \in Nat, NEW T \in SUBSET (1..n), T # {}
  PROVE  \E i \in T : \A j \in T : i <= j
<1> DEFINE pend == [i \in 1..n |-> i]
           ev == [i \in 1..n |-> [acked |-> i \notin T]]
           c == PrunedCount(pend, ev)
<1>1. pend \in Seq(1..n) /\ Len(pend) = n /\ \A i \in 1..n : pend[i] = i
  OBVIOUS
<1>2. \A i \in 1..n : ev[i].acked <=> i \notin T
  OBVIOUS
<1> HIDE DEF pend, ev, c
<1>3. c \in 0..n /\ LeadingRun(pend, ev) = 1..c
  BY <1>1, LeadingRunIsInterval DEF c
<1>4. LeadingRun(pend, ev) = {i \in 1..n : \A j \in 1..i : j \notin T}
  BY <1>1, <1>2 DEF LeadingRun
<1>5. ASSUME NEW j \in T PROVE j > c
  <2>1. j \in 1..n /\ j \in 1..j /\ j \notin LeadingRun(pend, ev)
    BY <1>4
  <2> QED BY <1>3, <2>1
<1>6. c < n
  <2>1. PICK j \in T : j \in 1..n /\ j > c
    BY <1>5
  <2> QED BY <1>3, <2>1
<1>7. c + 1 \in T
  <2>1. c + 1 \in 1..n /\ c + 1 \notin LeadingRun(pend, ev)
    BY <1>3, <1>6
  <2>2. PICK j \in 1..(c + 1) : j \in T
    BY <1>4, <2>1
  <2> QED BY <1>3, <1>5, <2>2
<1> QED BY <1>3, <1>5, <1>7

(* And a last one, by counting from the other end.                         *)
LEMMA LastExists ==
  ASSUME NEW n \in Nat, NEW T \in SUBSET (1..n), T # {}
  PROVE  \E i \in T : \A j \in T : j <= i
<1> DEFINE R == {(n + 1) - i : i \in T}
<1>1. R \in SUBSET (1..n) /\ R # {}
  <2>1. ASSUME NEW i \in T PROVE (n + 1) - i \in 1..n
    OBVIOUS
  <2> QED BY <2>1
<1>2. PICK r \in R : \A q \in R : r <= q
  BY <1>1, FirstExists
<1>3. PICK i \in T : r = (n + 1) - i
  BY <1>2
<1>4. ASSUME NEW j \in T PROVE j <= i
  <2>1. (n + 1) - i <= (n + 1) - j
    BY <1>2, <1>3, <1>4
  <2> QED BY <2>1
<1> QED BY <1>4

(* The operation a writer is at.                                           *)
LEMMA CurrentIsFirst ==
  ASSUME WriterTypes, NEW w \in Workers, writer[w].todo # {}
  PROVE  /\ Current(w) \in writer[w].todo
         /\ Current(w) \in 1..Len(writer[w].group)
         /\ \A j \in writer[w].todo : Current(w) <= j
         /\ writer[w].group[Current(w)] \in Live
<1>1. writer[w].todo \in SUBSET (1..Len(writer[w].group)) /\ writer[w].group \in Seq(Live)
  BY DEF WriterTypes, WriterStates, Groups
<1>2. Len(writer[w].group) \in Nat
  BY <1>1
<1>3. \E i \in writer[w].todo : \A j \in writer[w].todo : i <= j
  BY <1>1, <1>2, FirstExists
<1>4. Current(w) \in writer[w].todo /\ \A j \in writer[w].todo : Current(w) <= j
  BY <1>3 DEF Current
<1> QED BY <1>1, <1>4, ElementOfSeq

-----------------------------------------------------------------------------

(* Events stay live as long as the ledger issues no number and is not      *)
(* restarted, and when it issues the next one.                             *)
LEMMA LiveFrame ==
  ASSUME UNCHANGED <<nextSeqNum, cursor>>
  PROVE  Live' = Live /\ Groups' = Groups /\ WriterStates' = WriterStates
<1>1. Live' = Live
  BY DEF Live, Issued, NextSeq
<1>2. Groups' = Groups
  BY <1>1 DEF Groups
<1> QED BY <1>1, <1>2 DEF WriterStates

LEMMA LiveGrows ==
  ASSUME TrackerInv, NEW s \in Streams, Register(s)
  PROVE  /\ Live \subseteq Live' /\ Groups \subseteq Groups' /\ WriterStates \subseteq WriterStates'
         /\ [stream |-> s, pos |-> cursor[s] + 1, seq |-> NextSeq(s)] \in Live'
<1>1. /\ nextSeqNum \in [Streams -> Nat] /\ cursor \in [Streams -> Nat]
      /\ cursor' = [cursor EXCEPT ![s] = cursor[s] + 1]
      /\ nextSeqNum' = [nextSeqNum EXCEPT ![s] = NextSeq(s) + 1]
  BY DEF TrackerInv, TrackerTypeOK, Register
<1>2. \A t \in Streams : NextSeq(t) \in Nat \ {0}
  BY <1>1 DEF NextSeq
<1>3. \A t \in Streams : NextSeq(t)' = IF t = s THEN NextSeq(s) + 1 ELSE NextSeq(t)
  BY <1>1, <1>2 DEF NextSeq
<1>4. \A t \in Streams : /\ Issued(t) \in Nat
                         /\ Issued(t)' = IF t = s THEN Issued(s) + 1 ELSE Issued(t)
                         /\ cursor'[t] = IF t = s THEN cursor[s] + 1 ELSE cursor[t]
  BY <1>1, <1>2, <1>3 DEF Issued
<1>5. ASSUME NEW e \in Live PROVE e \in Live'
  <2>1. /\ e \in Event /\ e.stream \in Streams /\ e.seq \in Nat /\ e.pos \in Nat
        /\ e.seq <= Issued(e.stream) /\ e.pos = (cursor[e.stream] - Issued(e.stream)) + e.seq
    BY DEF Live, Event
  <2>2. e.seq <= Issued(e.stream)' /\ e.pos = (cursor'[e.stream] - Issued(e.stream)') + e.seq
    BY <1>1, <1>4, <2>1
  <2> QED BY <2>1, <2>2 DEF Live
<1>6. [stream |-> s, pos |-> cursor[s] + 1, seq |-> NextSeq(s)] \in Live'
  <2> DEFINE e == [stream |-> s, pos |-> cursor[s] + 1, seq |-> NextSeq(s)]
  <2>1. e \in Event /\ e.stream = s /\ e.pos = cursor[s] + 1 /\ e.seq = NextSeq(s)
    BY <1>1, <1>2 DEF Event
  <2> HIDE DEF e
  <2>2. NextSeq(s) = Issued(s) + 1
    BY <1>2 DEF Issued
  <2>3. e.seq <= Issued(s)' /\ e.pos = (cursor'[s] - Issued(s)') + e.seq
    BY <1>1, <1>4, <2>1, <2>2
  <2>4. e \in Live'
    BY <2>1, <2>3 DEF Live, Issued, NextSeq
  <2> QED BY <2>4 DEF e
<1>7. Seq(Live) \subseteq Seq(Live')
  BY <1>5, SeqMonotonic
<1>8. Groups \subseteq Groups'
  BY <1>7 DEF Groups
<1> QED BY <1>5, <1>6, <1>8 DEF WriterStates

(* Acknowledging a live event is a step of the ledger.                     *)
LEMMA AckIsALedgerStep ==
  ASSUME TrackerInv, NEW e \in Live, AckEvent(e)
  PROVE  TrackerNext /\ UNCHANGED <<nextSeqNum, cursor>>
<1>1. /\ e.stream \in Streams /\ e.seq \in Nat \ {0} /\ e.seq <= Issued(e.stream)
      /\ e.pos = (cursor[e.stream] - Issued(e.stream)) + e.seq
  BY DEF Live, Event
<1>2. nextSeqNum[e.stream] \in Nat /\ cursor[e.stream] \in Nat
  BY <1>1 DEF TrackerInv, TrackerTypeOK
<1>3. NextSeq(e.stream) \in Nat
  BY <1>2 DEF NextSeq
<1>4. /\ e.seq \in 1..(NextSeq(e.stream) - 1)
      /\ e.pos = (cursor[e.stream] + 1 + e.seq) - NextSeq(e.stream)
  BY <1>1, <1>2, <1>3 DEF Issued
<1>5. Ack(e.stream, e.seq, (cursor[e.stream] + 1 + e.seq) - NextSeq(e.stream), FALSE, {})
  BY <1>4 DEF AckEvent
<1>6. AckAny
  BY <1>1, <1>4, <1>5 DEF AckAny
<1>7. UNCHANGED <<nextSeqNum, cursor>>
  BY <1>5 DEF Ack
<1> QED BY <1>6, <1>7 DEF TrackerNext

(* What a step does to the goroutines' state: the ledger makes a step of   *)
(* its own or none, and the types stay.                                    *)
StepKept ==
  /\ TrackerNext \/ UNCHANGED trackerVars
  /\ ReadTypes' /\ LoopTypes' /\ WriterTypes' /\ DataTypes'

LEMMA LedgerFrame ==
  ASSUME UNCHANGED trackerVars
  PROVE  UNCHANGED <<nextSeqNum, cursor>>
BY DEF trackerVars, trackerMemory

LEMMA ReaderStepKept ==
  ASSUME PipeInv, NEW s \in Streams, ReaderStep(s)
  PROVE  StepKept
<1> USE DEF PipeInv
<1>1. CASE ReaderNext(s)
  <2> DEFINE e == [stream |-> s, pos |-> cursor[s] + 1, seq |-> NextSeq(s)]
  <2>1. Register(s) /\ UNCHANGED <<ingestQueue, readerDone, distHand, distDone, batchingQueue,
          currentGroup, loopDone, batchWriteQueue, writer, cancelled, target, dlq, unwritten>>
    BY <1>1 DEF ReaderNext, dataVars
  <2>2. readerHand' = [readerHand EXCEPT ![s] = <<e>>]
    BY <1>1 DEF ReaderNext
  <2>3. /\ Live \subseteq Live' /\ Groups \subseteq Groups' /\ WriterStates \subseteq WriterStates'
        /\ e \in Live'
    BY <2>1, LiveGrows
  <2> HIDE DEF e
  <2>4. <<e>> \in {h \in Seq(Live') : Len(h) <= 1}
    BY <2>3
  <2>5. /\ \A q \in Seq(Live) : q \in Seq(Live')
        /\ \A q \in Seq(Groups) : q \in Seq(Groups')
    BY <2>3, SeqMonotonic
  <2>6. readerHand' \in [Streams -> {h \in Seq(Live') : Len(h) <= 1}]
    BY <2>2, <2>4, <2>5 DEF ReadTypes
  <2>7. ReadTypes'
    BY <2>1, <2>5, <2>6 DEF ReadTypes
  <2>8. LoopTypes'
    BY <2>1, <2>3, <2>5 DEF LoopTypes
  <2>9. WriterTypes' /\ DataTypes'
    BY <2>1, <2>3 DEF WriterTypes, DataTypes
  <2> QED BY <2>1, <2>7, <2>8, <2>9 DEF StepKept, TrackerNext
<1>2. CASE ReaderPush(s)
  <2>1. UNCHANGED trackerVars /\ Live' = Live /\ Groups' = Groups /\ WriterStates' = WriterStates
    BY <1>2, LedgerFrame, LiveFrame DEF ReaderPush
  <2>2. /\ readerHand[s] \in Seq(Live) /\ Len(readerHand[s]) <= 1 /\ ingestQueue \in Seq(Live)
        /\ Len(ingestQueue) < IngestCap
    BY <1>2 DEF ReadTypes, ReaderPush
  <2>3. ingestQueue' \in Seq(Live) /\ Len(ingestQueue') <= IngestCap
    <3>1. ingestQueue' = ingestQueue \o readerHand[s]
      BY <1>2 DEF ReaderPush
    <3>2. /\ ingestQueue \o readerHand[s] \in Seq(Live)
          /\ Len(ingestQueue \o readerHand[s]) = Len(ingestQueue) + Len(readerHand[s])
      BY <2>2, ConcatProperties
    <3> QED BY <2>2, <3>1, <3>2, SizeAssumption
  <2>4. << >> \in {h \in Seq(Live) : Len(h) <= 1}
    OBVIOUS
  <2>5. ReadTypes'
    BY <1>2, <2>1, <2>3, <2>4 DEF ReadTypes, ReaderPush
  <2> QED BY <1>2, <2>1, <2>5 DEF ReaderPush, StepKept, LoopTypes, WriterTypes, DataTypes, dataVars
<1>3. CASE ReaderAbandon(s)
  <2> DEFINE e == Head(readerHand[s])
  <2>1. e \in Live
    BY <1>3, HeadTailProperties DEF ReaderAbandon, ReadTypes
  <2>2. AckEvent(e) /\ unwritten' = [unwritten EXCEPT ![e.stream] = unwritten[e.stream] \cup {e.pos}]
    BY <1>3 DEF ReaderAbandon, Abandon
  <2>3. e.pos \in Nat
    BY <2>1 DEF Live, Event
  <2> HIDE DEF e
  <2>4. TrackerNext /\ Live' = Live /\ Groups' = Groups /\ WriterStates' = WriterStates
    BY <2>1, <2>2, AckIsALedgerStep, LiveFrame
  <2>5. << >> \in {h \in Seq(Live) : Len(h) <= 1}
    OBVIOUS
  <2>6. ReadTypes'
    BY <1>3, <2>4, <2>5 DEF ReadTypes, ReaderAbandon
  <2>7. DataTypes'
    BY <1>3, <2>2, <2>3 DEF DataTypes, ReaderAbandon
  <2> QED BY <1>3, <2>4, <2>6, <2>7 DEF ReaderAbandon, StepKept, LoopTypes, WriterTypes
<1>4. CASE ReaderStop(s)
  <2>1. UNCHANGED trackerVars /\ Live' = Live /\ Groups' = Groups /\ WriterStates' = WriterStates
    BY <1>4, LedgerFrame, LiveFrame DEF ReaderStop
  <2>2. ReadTypes'
    BY <1>4, <2>1 DEF ReadTypes, ReaderStop
  <2> QED BY <1>4, <2>1, <2>2 DEF ReaderStop, StepKept, LoopTypes, WriterTypes, DataTypes, dataVars
<1> QED BY <1>1, <1>2, <1>3, <1>4 DEF ReaderStep

LEMMA DistributorStepKept ==
  ASSUME PipeInv, DistributorStep
  PROVE  StepKept
<1> USE DEF PipeInv
<1>1. CASE DistTake
  <2> DEFINE e == Head(ingestQueue)
  <2>1. e \in Live /\ Tail(ingestQueue) \in Seq(Live) /\ Len(Tail(ingestQueue)) <= IngestCap
    BY <1>1, HeadTailProperties, SizeAssumption DEF DistTake, ReadTypes
  <2>2. /\ ingestQueue' = Tail(ingestQueue)
        /\ UNCHANGED <<readerHand, readerDone, batchingQueue, currentGroup, loopDone,
                       batchWriteQueue, writer, target, dlq, unwritten>>
    BY <1>1 DEF DistTake, dataVars
  <2>3. \/ distDone' = TRUE /\ cancelled' = TRUE /\ UNCHANGED trackerVars /\ distHand' = distHand
        \/ AckEvent(e) /\ distHand' = distHand /\ UNCHANGED <<distDone, cancelled>>
        \/ distHand' = <<e>> /\ UNCHANGED trackerVars /\ UNCHANGED <<distDone, cancelled>>
    BY <1>1 DEF DistTake
  <2> HIDE DEF e
  <2>4. ASSUME NEW h, h = <<e>> PROVE h \in Seq(Live) /\ Len(h) <= 1
    BY <2>1, <2>4
  <2>5. distHand' \in Seq(Live) /\ Len(distHand') <= 1 /\ distDone' \in BOOLEAN /\ cancelled' \in BOOLEAN
    <3>1. distHand' = distHand \/ distHand' = <<e>>
      BY <2>3
    <3>2. distHand' \in Seq(Live) /\ Len(distHand') <= 1
      BY <2>4, <3>1 DEF ReadTypes
    <3> QED BY <2>3, <3>2 DEF ReadTypes
  <2>6. /\ TrackerNext \/ UNCHANGED trackerVars
        /\ Live' = Live /\ Groups' = Groups /\ WriterStates' = WriterStates
    BY <2>1, <2>3, AckIsALedgerStep, LedgerFrame, LiveFrame
  <2>7. ReadTypes'
    BY <2>1, <2>2, <2>5, <2>6 DEF ReadTypes
  <2> QED BY <2>2, <2>6, <2>7 DEF StepKept, LoopTypes, WriterTypes, DataTypes
<1>2. CASE DistPush
  <2>1. UNCHANGED trackerVars /\ Live' = Live /\ Groups' = Groups /\ WriterStates' = WriterStates
    BY <1>2, LedgerFrame, LiveFrame DEF DistPush
  <2> DEFINE w == WorkerOf[Doc(Head(distHand))]
  <2>2. /\ batchingQueue' = [batchingQueue EXCEPT ![w] = batchingQueue[w] \o distHand]
        /\ Len(batchingQueue[w]) < BatchCap
    BY <1>2 DEF DistPush
  <2> HIDE DEF w
  <2>3. ASSUME w \in Workers
        PROVE  batchingQueue[w] \o distHand \in {q \in Seq(Live) : Len(q) <= BatchCap}
    <3>1. batchingQueue[w] \in Seq(Live) /\ distHand \in Seq(Live) /\ Len(distHand) <= 1
      BY <2>3 DEF LoopTypes, ReadTypes
    <3>2. /\ batchingQueue[w] \o distHand \in Seq(Live)
          /\ Len(batchingQueue[w] \o distHand) = Len(batchingQueue[w]) + Len(distHand)
      BY <3>1, ConcatProperties
    <3> QED BY <2>2, <3>1, <3>2, SizeAssumption
  <2>4. batchingQueue' \in [Workers -> {q \in Seq(Live) : Len(q) <= BatchCap}]
    BY <2>2, <2>3 DEF LoopTypes
  <2>5. LoopTypes'
    BY <1>2, <2>1, <2>4 DEF LoopTypes, DistPush
  <2>6. ReadTypes'
    BY <1>2, <2>1 DEF ReadTypes, DistPush
  <2> QED BY <1>2, <2>1, <2>5, <2>6 DEF DistPush, StepKept, WriterTypes, DataTypes, dataVars
<1>3. CASE DistAbandon
  <2> DEFINE e == Head(distHand)
  <2>1. e \in Live
    BY <1>3, HeadTailProperties DEF DistAbandon, ReadTypes
  <2>2. AckEvent(e) /\ unwritten' = [unwritten EXCEPT ![e.stream] = unwritten[e.stream] \cup {e.pos}]
    BY <1>3 DEF DistAbandon, Abandon
  <2>3. e.pos \in Nat
    BY <2>1 DEF Live, Event
  <2> HIDE DEF e
  <2>4. TrackerNext /\ Live' = Live /\ Groups' = Groups /\ WriterStates' = WriterStates
    BY <2>1, <2>2, AckIsALedgerStep, LiveFrame
  <2>5. ReadTypes'
    BY <1>3, <2>4 DEF ReadTypes, DistAbandon
  <2>6. DataTypes'
    BY <1>3, <2>2, <2>3 DEF DataTypes, DistAbandon
  <2> QED BY <1>3, <2>4, <2>5, <2>6 DEF DistAbandon, StepKept, LoopTypes, WriterTypes
<1>4. CASE DistStop
  <2>1. UNCHANGED trackerVars /\ Live' = Live /\ Groups' = Groups /\ WriterStates' = WriterStates
    BY <1>4, LedgerFrame, LiveFrame DEF DistStop
  <2>2. ReadTypes'
    BY <1>4, <2>1 DEF ReadTypes, DistStop
  <2> QED BY <1>4, <2>1, <2>2 DEF DistStop, StepKept, LoopTypes, WriterTypes, DataTypes, dataVars
<1> QED BY <1>1, <1>2, <1>3, <1>4 DEF DistributorStep

(* The groups ProcessEvent makes of a group and an event.                  *)
LEMMA GroupsStaySmall ==
  ASSUME NEW group \in Groups \cup {<< >>}, NEW e \in Live
  PROVE  Pushed(group, e) \in Seq(Groups) /\ Kept(group, e) \in Groups \cup {<< >>}
<1> DEFINE next == IF NeedNewGroup(group, e) THEN <<e>> ELSE Append(group, e)
<1>1. BatchSize \in Nat \ {0}
  BY SizeAssumption
<1>2. next \in Groups
  <2>1. CASE NeedNewGroup(group, e)
    <3>1. <<e>> \in Seq(Live) /\ Len(<<e>>) = 1 /\ <<e>> # << >>
      OBVIOUS
    <3> QED BY <1>1, <2>1, <3>1 DEF Groups
  <2>2. CASE ~NeedNewGroup(group, e)
    <3>1. group \in Seq(Live) /\ Len(group) < BatchSize
      BY <1>1, <2>2 DEF NeedNewGroup, Groups
    <3>2. Append(group, e) \in Seq(Live) /\ Append(group, e) # << >>
          /\ Len(Append(group, e)) = Len(group) + 1
      BY <3>1, AppendProperties
    <3> QED BY <1>1, <2>2, <3>1, <3>2 DEF Groups
  <2> QED BY <2>1, <2>2
<1> HIDE DEF next
<1> DEFINE first == IF NeedNewGroup(group, e) /\ group # << >> THEN <<group>> ELSE << >>
           second == IF Len(next) >= BatchSize THEN <<next>> ELSE << >>
<1>3. first \in Seq(Groups) /\ second \in Seq(Groups)
  BY <1>2
<1>4. Pushed(group, e) = first \o second
  BY DEF Pushed, next
<1> HIDE DEF first, second
<1>5. Pushed(group, e) \in Seq(Groups)
  BY <1>3, <1>4, ConcatProperties
<1>6. Kept(group, e) \in {next, << >>}
  BY DEF Kept, next
<1> QED BY <1>2, <1>5, <1>6

LEMMA FlushKeepsTypes ==
  ASSUME LoopTypes, NEW w \in Workers, FlushCurrentGroup(w)
  PROVE  /\ currentGroup' \in [Workers -> Groups \cup {<< >>}]
         /\ batchWriteQueue' \in [Workers -> {q \in Seq(Groups) : Len(q) <= WriteCap}]
<1>1. currentGroup' = [currentGroup EXCEPT ![w] = << >>]
  BY DEF FlushCurrentGroup
<1>2. currentGroup' \in [Workers -> Groups \cup {<< >>}]
  BY <1>1 DEF LoopTypes
<1>3. CASE currentGroup[w] = << >>
  BY <1>2, <1>3 DEF FlushCurrentGroup, LoopTypes
<1>4. CASE currentGroup[w] # << >>
  <2>1. /\ currentGroup[w] \in Groups /\ batchWriteQueue[w] \in Seq(Groups)
        /\ Len(batchWriteQueue[w]) < WriteCap
    BY <1>4 DEF LoopTypes, FlushCurrentGroup
  <2>2. /\ Append(batchWriteQueue[w], currentGroup[w]) \in Seq(Groups)
        /\ Len(Append(batchWriteQueue[w], currentGroup[w])) = Len(batchWriteQueue[w]) + 1
    BY <2>1, AppendProperties
  <2>3. Append(batchWriteQueue[w], currentGroup[w]) \in {q \in Seq(Groups) : Len(q) <= WriteCap}
    BY <2>1, <2>2, SizeAssumption
  <2>4. batchWriteQueue' = [batchWriteQueue EXCEPT ![w] = Append(batchWriteQueue[w], currentGroup[w])]
    BY <1>4 DEF FlushCurrentGroup, LoopTypes
  <2> QED BY <1>2, <2>3, <2>4 DEF LoopTypes
<1> QED BY <1>3, <1>4

LEMMA LoopStepKept ==
  ASSUME PipeInv, NEW w \in Workers, LoopStep(w)
  PROVE  StepKept
<1> USE DEF PipeInv
<1>1. CASE ProcessEvent(w)
  <2> DEFINE e == Head(batchingQueue[w])
  <2>1. /\ e \in Live /\ Tail(batchingQueue[w]) \in Seq(Live)
        /\ Len(Tail(batchingQueue[w])) <= BatchCap
    <3>1. batchingQueue[w] \in Seq(Live) /\ batchingQueue[w] # << >> /\ Len(batchingQueue[w]) <= BatchCap
      BY <1>1 DEF ProcessEvent, LoopTypes
    <3> QED BY <3>1, HeadTailProperties, SizeAssumption
  <2>2. /\ batchingQueue' = [batchingQueue EXCEPT ![w] = Tail(batchingQueue[w])]
        /\ UNCHANGED <<ingestQueue, readerHand, readerDone, distHand, distDone,
                       loopDone, writer, cancelled, target, dlq, unwritten>>
        /\ \/ AckEvent(e) /\ UNCHANGED <<currentGroup, batchWriteQueue>>
           \/ /\ UNCHANGED trackerVars
              /\ Len(batchWriteQueue[w]) + Len(Pushed(currentGroup[w], e)) <= WriteCap
              /\ batchWriteQueue' =
                   [batchWriteQueue EXCEPT ![w] = batchWriteQueue[w] \o Pushed(currentGroup[w], e)]
              /\ currentGroup' = [currentGroup EXCEPT ![w] = Kept(currentGroup[w], e)]
    BY <1>1 DEF ProcessEvent, dataVars
  <2> HIDE DEF e
  <2>3. /\ TrackerNext \/ UNCHANGED trackerVars
        /\ Live' = Live /\ Groups' = Groups /\ WriterStates' = WriterStates
    BY <2>1, <2>2, AckIsALedgerStep, LedgerFrame, LiveFrame
  <2>4. batchingQueue' \in [Workers -> {q \in Seq(Live) : Len(q) <= BatchCap}]
    BY <2>1, <2>2 DEF LoopTypes
  <2>5. /\ currentGroup' \in [Workers -> Groups \cup {<< >>}]
        /\ batchWriteQueue' \in [Workers -> {q \in Seq(Groups) : Len(q) <= WriteCap}]
    <3>1. CASE UNCHANGED <<currentGroup, batchWriteQueue>>
      BY <3>1 DEF LoopTypes
    <3>2. CASE /\ Len(batchWriteQueue[w]) + Len(Pushed(currentGroup[w], e)) <= WriteCap
               /\ batchWriteQueue' =
                    [batchWriteQueue EXCEPT ![w] = batchWriteQueue[w] \o Pushed(currentGroup[w], e)]
               /\ currentGroup' = [currentGroup EXCEPT ![w] = Kept(currentGroup[w], e)]
      <4>1. /\ Pushed(currentGroup[w], e) \in Seq(Groups)
            /\ Kept(currentGroup[w], e) \in Groups \cup {<< >>}
        BY <2>1, GroupsStaySmall DEF LoopTypes
      <4>2. batchWriteQueue[w] \in Seq(Groups)
        BY DEF LoopTypes
      <4>3. /\ batchWriteQueue[w] \o Pushed(currentGroup[w], e) \in Seq(Groups)
            /\ Len(batchWriteQueue[w] \o Pushed(currentGroup[w], e)) <= WriteCap
        BY <3>2, <4>1, <4>2, ConcatProperties
      <4> QED BY <3>2, <4>1, <4>3 DEF LoopTypes
    <3> QED BY <2>2, <3>1, <3>2
  <2>6. LoopTypes'
    BY <2>2, <2>3, <2>4, <2>5 DEF LoopTypes
  <2> QED BY <2>2, <2>3, <2>6 DEF StepKept, ReadTypes, WriterTypes, DataTypes
<1>2. CASE TimeoutFlush(w) \/ LoopStop(w)
  <2>1. UNCHANGED trackerVars /\ Live' = Live /\ Groups' = Groups /\ WriterStates' = WriterStates
    BY <1>2, LedgerFrame, LiveFrame DEF TimeoutFlush, LoopStop
  <2>2. /\ FlushCurrentGroup(w) /\ loopDone' \subseteq Workers
        /\ UNCHANGED <<ingestQueue, readerHand, readerDone, distHand, distDone,
                       batchingQueue, writer, cancelled, target, dlq, unwritten>>
    BY <1>2 DEF TimeoutFlush, LoopStop, dataVars, LoopTypes
  <2>3. LoopTypes'
    BY <2>1, <2>2, FlushKeepsTypes DEF LoopTypes
  <2> QED BY <2>1, <2>2, <2>3 DEF StepKept, ReadTypes, WriterTypes, DataTypes
<1> QED BY <1>1, <1>2 DEF LoopStep

-----------------------------------------------------------------------------

(* What the writers do to documents keeps their types.                     *)
LEMMA MarksAreTyped ==
  ASSUME DataTypes, NEW group \in Groups, NEW which \in SUBSET (DOMAIN group)
  PROVE  /\ ApplyTo(group, which) \in [Docs -> Nat]
         /\ MarkDLQ(group, which) \in [Docs -> Nat]
         /\ MarkUnwritten(group, which) \in [Streams -> SUBSET Nat]
<1>1. group \in Seq(Live) /\ Len(group) \in Nat /\ DOMAIN group = 1..Len(group)
  BY DEF Groups
<1>2. \A i \in DOMAIN group : group[i].pos \in Nat
  <2>1. \A i \in 1..Len(group) : group[i] \in Live
    BY <1>1, ElementOfSeq
  <2> QED BY <1>1, <2>1 DEF Live, Event
<1>3. ASSUME NEW d
      PROVE  LET mine == {i \in which : Doc(group[i]) = d}
             IN mine # {} => group[CHOOSE i \in mine : \A j \in mine : j <= i].pos \in Nat
  <2> DEFINE mine == {i \in which : Doc(group[i]) = d}
  <2>1. mine \in SUBSET (1..Len(group))
    BY <1>1
  <2> HIDE DEF mine
  <2>2. ASSUME mine # {} PROVE (CHOOSE i \in mine : \A j \in mine : j <= i) \in mine
    <3>1. \E i \in mine : \A j \in mine : j <= i
      BY <1>1, <2>1, <2>2, LastExists
    <3> QED BY <3>1
  <2>3. mine # {} => group[CHOOSE i \in mine : \A j \in mine : j <= i].pos \in Nat
    BY <1>1, <1>2, <2>1, <2>2
  <2> QED BY <2>3 DEF mine
<1>4. ApplyTo(group, which) \in [Docs -> Nat]
  BY <1>3 DEF ApplyTo, DataTypes
<1>5. MarkDLQ(group, which) \in [Docs -> Nat]
  BY <1>3 DEF MarkDLQ, DataTypes
<1>6. MarkUnwritten(group, which) \in [Streams -> SUBSET Nat]
  BY <1>2 DEF MarkUnwritten, DataTypes
<1> QED BY <1>4, <1>5, <1>6

LEMMA SettledIsTyped ==
  ASSUME WriterTypes, NEW w \in Workers, NEW group \in Groups, NEW ok \in SUBSET (DOMAIN group)
  PROVE  Settled(w, group, ok) \in [Workers -> WriterStates]
<1>1. group \in Seq(Live) /\ Len(group) \in Nat \ {0} /\ DOMAIN group = 1..Len(group)
  BY EmptySeq DEF Groups
<1>2. writer[w] \in WriterStates
  BY DEF WriterTypes
<1> DEFINE wr == [writer[w] EXCEPT !.stage = "resolve", !.group = group,
                                   !.todo = DOMAIN group, !.ok = ok]
<1>3. wr.stage = "resolve" /\ wr.group = group /\ wr.todo = 1..Len(group) /\ wr.ok = ok
  BY <1>1, <1>2 DEF WriterStates
<1>4. wr \in [stage : WriterStages, group : Groups \cup {<< >>}, fresh : BOOLEAN,
              todo : SUBSET Nat, ok : SUBSET Nat]
  <2>1. DOMAIN group \in SUBSET Nat /\ ok \in SUBSET Nat /\ "resolve" \in WriterStages
    BY <1>1 DEF WriterStages
  <2>2. writer[w] \in [stage : WriterStages, group : Groups \cup {<< >>}, fresh : BOOLEAN,
                       todo : SUBSET Nat, ok : SUBSET Nat]
    BY <1>2 DEF WriterStates
  <2> QED BY <2>1, <2>2
<1>5. 1..Len(group) # {} /\ group # << >>
  <2>1. 1 \in 1..Len(group)
    BY <1>1
  <2> QED BY <1>1, <2>1 DEF Groups
<1> HIDE DEF wr
<1>6. wr \in WriterStates
  BY <1>1, <1>3, <1>4, <1>5 DEF WriterStates
<1>7. Settled(w, group, ok) = [writer EXCEPT ![w] = wr]
  BY DEF Settled, wr
<1> QED BY <1>6, <1>7 DEF WriterTypes

LEMMA RetriedIsTyped ==
  ASSUME WriterTypes, NEW w \in Workers, writer[w].stage = "retry",
         NEW ok \in SUBSET (DOMAIN writer[w].group)
  PROVE  Retried(w, ok) \in [Workers -> WriterStates]
<1>1. writer[w] \in WriterStates /\ writer[w].group \in Groups
  BY DEF WriterTypes, WriterStates
<1> DEFINE rest == {i \in writer[w].todo : \E j \in writer[w].todo : j < i}
<1>2. rest \subseteq writer[w].todo
  OBVIOUS
<1>3. CASE rest = {}
  BY <1>1, <1>3, SettledIsTyped DEF Retried
<1>4. CASE rest # {}
  <2> DEFINE wr == [writer[w] EXCEPT !.todo = rest, !.ok = ok]
  <2>1. Retried(w, ok) = [writer EXCEPT ![w] = wr]
    BY <1>4 DEF Retried
  <2> HIDE DEF rest
  <2>2. /\ wr.stage = "retry" /\ wr.group = writer[w].group /\ wr.todo = rest /\ wr.ok = ok
        /\ wr.fresh = writer[w].fresh
    BY <1>1 DEF WriterStates
  <2>3. ok \subseteq 1..Len(writer[w].group) /\ rest \subseteq 1..Len(writer[w].group)
        /\ Len(writer[w].group) \in Nat
    BY <1>1, <1>2 DEF WriterStates, Groups
  <2>4. wr \in [stage : WriterStages, group : Groups \cup {<< >>}, fresh : BOOLEAN,
                todo : SUBSET Nat, ok : SUBSET Nat]
    <3>1. rest \in SUBSET Nat /\ ok \in SUBSET Nat
      BY <2>3
    <3>2. writer[w] \in [stage : WriterStages, group : Groups \cup {<< >>}, fresh : BOOLEAN,
                         todo : SUBSET Nat, ok : SUBSET Nat]
      BY <1>1 DEF WriterStates
    <3> QED BY <3>1, <3>2
  <2> HIDE DEF wr
  <2>5. wr \in WriterStates
    BY <1>1, <1>4, <2>2, <2>3, <2>4 DEF WriterStates
  <2> QED BY <2>1, <2>5 DEF WriterTypes
<1> QED BY <1>3, <1>4

(* A writer's step leaves the goroutines in front of it alone.             *)
LEMMA WriterFrameKeeps ==
  ASSUME ReadTypes, LoopTypes, WriterFrame, UNCHANGED batchWriteQueue,
         UNCHANGED <<nextSeqNum, cursor>>
  PROVE  ReadTypes' /\ LoopTypes' /\ WriterStates' = WriterStates
<1>1. Live' = Live /\ Groups' = Groups /\ WriterStates' = WriterStates
  BY LiveFrame
<1> QED BY <1>1 DEF ReadTypes, LoopTypes, WriterFrame

LEMMA WriterTakeKept ==
  ASSUME PipeInv, NEW w \in Workers, WriterTake(w)
  PROVE  StepKept
<1> USE DEF PipeInv
<1>1. /\ batchWriteQueue' = [batchWriteQueue EXCEPT ![w] = Tail(batchWriteQueue[w])]
      /\ UNCHANGED <<target, unwritten>> /\ UNCHANGED trackerVars /\ WriterFrame
  BY DEF WriterTake
<1>2. Live' = Live /\ Groups' = Groups /\ WriterStates' = WriterStates
  BY <1>1, LedgerFrame, LiveFrame
<1>3. batchWriteQueue[w] \in Seq(Groups) /\ batchWriteQueue[w] # << >> /\ Len(batchWriteQueue[w]) <= WriteCap
  BY DEF WriterTake, LoopTypes
<1>4. /\ Head(batchWriteQueue[w]) \in Groups
      /\ Tail(batchWriteQueue[w]) \in {q \in Seq(Groups) : Len(q) <= WriteCap}
  BY <1>3, SizeAssumption, HeadTailProperties
<1>5. ReadTypes'
  BY <1>1, <1>2 DEF ReadTypes, WriterFrame
<1>6. batchWriteQueue' \in [Workers -> {q \in Seq(Groups) : Len(q) <= WriteCap}]
  BY <1>1, <1>4 DEF LoopTypes
<1>7. LoopTypes'
  BY <1>1, <1>2, <1>6 DEF LoopTypes, WriterFrame
<1> DEFINE group == Head(batchWriteQueue[w])
           bad == {i \in DOMAIN group : ~Transforms(group[i])}
<1>8. /\ dlq' = MarkDLQ(group, bad)
      /\ writer' = IF Models(group) = {} THEN Settled(w, group, {})
                   ELSE [writer EXCEPT ![w] =
                           [IdleWriter EXCEPT !.stage = "bulk", !.group = group, !.fresh = cancelled]]
  BY DEF WriterTake
<1> HIDE DEF group
<1>9. group \in Groups /\ bad \in SUBSET (DOMAIN group) /\ {} \in SUBSET (DOMAIN group)
  BY <1>4 DEF group
<1>10. DataTypes'
  BY <1>1, <1>8, <1>9, MarksAreTyped DEF DataTypes
<1>11. Settled(w, group, {}) \in [Workers -> WriterStates]
  BY <1>9, SettledIsTyped
<1>12. [IdleWriter EXCEPT !.stage = "bulk", !.group = group, !.fresh = cancelled] \in WriterStates
  BY <1>9 DEF IdleWriter, WriterStates, WriterStages, ReadTypes, Groups
<1>13. writer' \in [Workers -> WriterStates]
  BY <1>8, <1>11, <1>12 DEF WriterTypes
<1> QED BY <1>1, <1>2, <1>5, <1>7, <1>10, <1>13 DEF StepKept, WriterTypes

LEMMA BulkStepKept ==
  ASSUME PipeInv, NEW w \in Workers,
         BulkSucceeds(w) \/ BulkPartlyFails(w) \/ BulkErrors(w) \/ BulkCancelled(w)
  PROVE  StepKept
<1> USE DEF PipeInv
<1> DEFINE group == writer[w].group
<1>1. /\ UNCHANGED trackerVars /\ WriterFrame /\ UNCHANGED batchWriteQueue /\ writer[w].stage = "bulk"
  BY DEF BulkSucceeds, BulkPartlyFails, BulkErrors, BulkCancelled
<1>2. ReadTypes' /\ LoopTypes' /\ WriterStates' = WriterStates
  BY <1>1, LedgerFrame, WriterFrameKeeps
<1>3. /\ writer[w] \in WriterStates /\ group \in Groups
      /\ DOMAIN group = 1..Len(group) /\ Len(group) \in Nat \ {0}
  BY <1>1, EmptySeq DEF WriterTypes, WriterStates, Groups
<1>4. ASSUME NEW todo \in SUBSET (DOMAIN group), todo # {}, NEW ok \in SUBSET (DOMAIN group)
      PROVE  [writer[w] EXCEPT !.stage = "retry", !.todo = todo, !.ok = ok] \in WriterStates
  <2> DEFINE wr == [writer[w] EXCEPT !.stage = "retry", !.todo = todo, !.ok = ok]
  <2>1. writer[w] \in [stage : WriterStages, group : Groups \cup {<< >>}, fresh : BOOLEAN,
                       todo : SUBSET Nat, ok : SUBSET Nat]
    BY <1>3 DEF WriterStates
  <2>2. todo \in SUBSET Nat /\ ok \in SUBSET Nat /\ "retry" \in WriterStages
    BY <1>3 DEF WriterStages
  <2>3. wr \in [stage : WriterStages, group : Groups \cup {<< >>}, fresh : BOOLEAN,
                todo : SUBSET Nat, ok : SUBSET Nat]
    BY <2>1, <2>2
  <2>4. wr.stage = "retry" /\ wr.group = group /\ wr.todo = todo /\ wr.ok = ok
    BY <2>1
  <2>5. group # << >> /\ todo \subseteq 1..Len(group) /\ ok \subseteq 1..Len(group)
    BY <1>3 DEF Groups
  <2> HIDE DEF wr, group
  <2>6. wr \in WriterStates
    BY <1>4, <2>3, <2>4, <2>5 DEF WriterStates
  <2> QED BY <2>6 DEF wr
<1>5. \A failed : Reaching(group, failed) \in SUBSET (DOMAIN group)
  BY DEF Reaching
<1> HIDE DEF group
<1>6. CASE BulkSucceeds(w)
  <2>1. /\ target' = ApplyTo(group, Reaching(group, {}))
        /\ writer' = Settled(w, group, Reaching(group, {})) /\ UNCHANGED <<dlq, unwritten>>
    BY <1>6 DEF BulkSucceeds, group
  <2>2. DataTypes'
    BY <1>3, <1>5, <2>1, MarksAreTyped DEF DataTypes
  <2>3. writer' \in [Workers -> WriterStates]
    BY <1>3, <1>5, <2>1, SettledIsTyped
  <2> QED BY <1>1, <1>2, <2>2, <2>3 DEF StepKept, WriterTypes
<1>7. CASE BulkPartlyFails(w)
  <2> DEFINE bad == {i \in DOMAIN group : ~Transforms(group[i])}
             done(failed) == Reaching(group, {Model(group, k) : k \in failed})
  <2>1. PICK failed \in (SUBSET (1..Cardinality(Models(group)))) \ {{}} :
          /\ target' = ApplyTo(group, done(failed))
          /\ writer' = [writer EXCEPT ![w] =
               [writer[w] EXCEPT !.stage = "retry", !.todo = failed,
                                 !.ok = DOMAIN group \ (failed \cup bad)]]
          /\ unwritten' = MarkUnwritten(group, DOMAIN group \ (done(failed) \cup failed \cup bad))
    BY <1>3, <1>7 DEF BulkPartlyFails, group, WriterTypes, WriterStates
  <2>2. UNCHANGED dlq
    BY <1>7 DEF BulkPartlyFails
  <2>3. failed \in SUBSET (DOMAIN group) /\ failed # {}
    <3>1. IsFiniteSet(1..Len(group)) /\ Cardinality(1..Len(group)) = Len(group)
      BY <1>3, FS_Interval
    <3>2. Models(group) \in SUBSET (1..Len(group))
      BY <1>3 DEF Models
    <3>3. Cardinality(Models(group)) <= Len(group) /\ Cardinality(Models(group)) \in Nat
      BY <3>1, <3>2, FS_Subset, FS_CardinalityType
    <3>4. 1..Cardinality(Models(group)) \subseteq 1..Len(group)
      BY <1>3, <3>3
    <3>5. failed \subseteq 1..Cardinality(Models(group)) /\ failed # {}
      BY <2>1
    <3> QED BY <1>3, <3>4, <3>5
  <2>4. done(failed) \in SUBSET (DOMAIN group)
    BY <1>5
  <2>5. DataTypes'
    <3>1. target' \in [Docs -> Nat]
      BY <1>3, <2>1, <2>4, MarksAreTyped
    <3>2. unwritten' \in [Streams -> SUBSET Nat]
      BY <1>3, <2>1, MarksAreTyped
    <3> QED BY <2>2, <3>1, <3>2 DEF DataTypes
  <2>6. writer' \in [Workers -> WriterStates]
    <3>1. DOMAIN group \ (failed \cup bad) \in SUBSET (DOMAIN group)
      OBVIOUS
    <3>2. [writer[w] EXCEPT !.stage = "retry", !.todo = failed,
                            !.ok = DOMAIN group \ (failed \cup bad)] \in WriterStates
      BY <1>4, <2>3, <3>1
    <3> QED BY <2>1, <3>2 DEF WriterTypes
  <2> QED BY <1>1, <1>2, <2>5, <2>6 DEF StepKept, WriterTypes
<1>8. CASE BulkErrors(w)
  <2>1. PICK failed : target' = ApplyTo(group, Reaching(group, failed))
    BY <1>8 DEF BulkErrors, group
  <2>2. /\ writer' = [writer EXCEPT ![w] =
             [writer[w] EXCEPT !.stage = "retry", !.todo = DOMAIN group]]
        /\ UNCHANGED <<dlq, unwritten>>
    BY <1>8 DEF BulkErrors, group
  <2>3. DataTypes'
    BY <1>3, <1>5, <2>1, <2>2, MarksAreTyped DEF DataTypes
  <2>4. [writer[w] EXCEPT !.stage = "retry", !.todo = DOMAIN group] \in WriterStates
    <3>1. DOMAIN group # {} /\ DOMAIN group \in SUBSET (DOMAIN group)
      <4>1. 1 \in 1..Len(group)
        BY <1>3
      <4> QED BY <1>3, <4>1
    <3>2. writer[w].ok \in SUBSET (DOMAIN group)
      BY <1>3 DEF group, WriterStates
    <3>3. [writer[w] EXCEPT !.stage = "retry", !.todo = DOMAIN group, !.ok = writer[w].ok] \in WriterStates
      BY <1>4, <3>1, <3>2
    <3>4. [writer[w] EXCEPT !.stage = "retry", !.todo = DOMAIN group]
            = [writer[w] EXCEPT !.stage = "retry", !.todo = DOMAIN group, !.ok = writer[w].ok]
      BY <1>3 DEF WriterStates
    <3> QED BY <3>3, <3>4
  <2> QED BY <1>1, <1>2, <2>2, <2>3, <2>4 DEF StepKept, WriterTypes
<1>9. CASE BulkCancelled(w)
  <2>1. PICK failed :
          LET done == Reaching(group, failed)
          IN /\ target' = ApplyTo(group, done)
             /\ writer' = Settled(w, group, {})
             /\ unwritten' = MarkUnwritten(group, {i \in DOMAIN group \ done : Transforms(group[i])})
    BY <1>9 DEF BulkCancelled, group
  <2>2. UNCHANGED dlq
    BY <1>9 DEF BulkCancelled
  <2> DEFINE done == Reaching(group, failed)
  <2>3. /\ done \in SUBSET (DOMAIN group) /\ {} \in SUBSET (DOMAIN group)
        /\ {i \in DOMAIN group \ done : Transforms(group[i])} \in SUBSET (DOMAIN group)
    BY <1>5
  <2> HIDE DEF done
  <2>4. DataTypes'
    <3>1. target' \in [Docs -> Nat]
      BY <1>3, <2>1, <2>3, MarksAreTyped DEF done
    <3>2. unwritten' \in [Streams -> SUBSET Nat]
      BY <1>3, <2>1, <2>3, MarksAreTyped DEF done
    <3> QED BY <2>2, <3>1, <3>2 DEF DataTypes
  <2>5. writer' \in [Workers -> WriterStates]
    BY <1>3, <2>1, <2>3, SettledIsTyped
  <2> QED BY <1>1, <1>2, <2>4, <2>5 DEF StepKept, WriterTypes
<1> QED BY <1>6, <1>7, <1>8, <1>9

LEMMA RetryStepKept ==
  ASSUME PipeInv, NEW w \in Workers,
         RetrySucceeds(w) \/ RetryMatchesNothing(w) \/ RetryFails(w) \/ RetryCancelled(w)
  PROVE  StepKept
<1> USE DEF PipeInv
<1> DEFINE group == writer[w].group
           i == Current(w)
<1>1. /\ UNCHANGED trackerVars /\ WriterFrame /\ UNCHANGED batchWriteQueue /\ writer[w].stage = "retry"
  BY DEF RetrySucceeds, RetryMatchesNothing, RetryFails, RetryCancelled
<1>2. ReadTypes' /\ LoopTypes' /\ WriterStates' = WriterStates
  BY <1>1, LedgerFrame, WriterFrameKeeps
<1>3. /\ writer[w] \in WriterStates /\ group \in Groups /\ writer[w].todo # {}
      /\ DOMAIN group = 1..Len(group) /\ writer[w].ok \in SUBSET (DOMAIN group)
  BY <1>1 DEF WriterTypes, WriterStates, Groups
<1>4. i \in DOMAIN group
  BY <1>3, CurrentIsFirst
<1> HIDE DEF group, i
<1>5. /\ {i} \in SUBSET (DOMAIN group)
      /\ ApplyTo(group, {i}) \in [Docs -> Nat] /\ MarkDLQ(group, {i}) \in [Docs -> Nat]
      /\ MarkUnwritten(group, {i}) \in [Streams -> SUBSET Nat]
  BY <1>3, <1>4, MarksAreTyped
<1>6. writer' = Retried(w, writer[w].ok) \/ writer' = Retried(w, writer[w].ok \cup {i})
  BY DEF RetrySucceeds, RetryMatchesNothing, RetryFails, RetryCancelled, i
<1>7. writer' \in [Workers -> WriterStates]
  <2>1. writer[w].ok \cup {i} \in SUBSET (DOMAIN group)
    BY <1>3, <1>4
  <2> QED BY <1>1, <1>3, <1>6, <2>1, RetriedIsTyped DEF group
<1>8. DataTypes'
  <2>1. Overwritten(group, i, writer[w].todo) \in SUBSET (DOMAIN group)
    BY DEF Overwritten
  <2>2. MarkUnwritten(group, Overwritten(group, i, writer[w].todo)) \in [Streams -> SUBSET Nat]
    BY <1>3, <2>1, MarksAreTyped
  <2> QED BY <1>5, <2>2 DEF RetrySucceeds, RetryMatchesNothing, RetryFails, RetryCancelled, DataTypes, group, i
<1> QED BY <1>1, <1>2, <1>7, <1>8 DEF StepKept, WriterTypes

LEMMA WriterEndKept ==
  ASSUME PipeInv, NEW w \in Workers, WriterResolve(w) \/ WriterAck(w)
  PROVE  StepKept
<1> USE DEF PipeInv
<1> DEFINE group == writer[w].group
           i == Current(w)
<1>1. /\ WriterFrame /\ UNCHANGED batchWriteQueue /\ writer[w].stage \in {"resolve", "ack"}
  BY DEF WriterResolve, WriterAck
<1>2. /\ writer[w] \in WriterStates /\ group \in Groups /\ writer[w].todo # {}
      /\ DOMAIN group = 1..Len(group) /\ writer[w].todo \subseteq 1..Len(group)
  BY <1>1 DEF WriterTypes, WriterStates, Groups
<1>3. /\ writer[w] \in [stage : WriterStages, group : Groups \cup {<< >>}, fresh : BOOLEAN,
                        todo : SUBSET Nat, ok : SUBSET Nat]
      /\ group # << >>
  BY <1>2 DEF WriterStates, Groups
<1>4. CASE WriterResolve(w)
  <2>1. UNCHANGED trackerVars
    BY <1>4 DEF WriterResolve
  <2>2. ReadTypes' /\ LoopTypes' /\ WriterStates' = WriterStates
    BY <1>1, <2>1, LedgerFrame, WriterFrameKeeps
  <2>3. /\ dlq' = [d \in Docs |-> IF \E j \in writer[w].ok : Doc(group[j]) = d THEN 0 ELSE dlq[d]]
        /\ unwritten' = [s \in Streams |->
                           unwritten[s] \cup WronglyResolved(s, group, writer[w].ok)]
        /\ UNCHANGED target
    BY <1>4 DEF WriterResolve
  <2>4. \A s \in Streams : WronglyResolved(s, group, writer[w].ok) \in SUBSET Nat
    BY DEF WronglyResolved
  <2>5. DataTypes'
    <3>1. dlq' \in [Docs -> Nat]
      BY <2>3 DEF DataTypes
    <3>2. unwritten' \in [Streams -> SUBSET Nat]
      BY <2>3, <2>4 DEF DataTypes
    <3> QED BY <2>3, <3>1, <3>2 DEF DataTypes
  <2>6. writer' \in [Workers -> WriterStates]
    <3> DEFINE wr == [writer[w] EXCEPT !.stage = "ack", !.ok = {}]
    <3>1. /\ wr \in [stage : WriterStages, group : Groups \cup {<< >>}, fresh : BOOLEAN,
                     todo : SUBSET Nat, ok : SUBSET Nat]
          /\ wr.stage = "ack" /\ wr.group = group /\ wr.todo = writer[w].todo /\ wr.ok = {}
      BY <1>3 DEF WriterStages
    <3>2. writer' = [writer EXCEPT ![w] = wr]
      BY <1>4 DEF WriterResolve
    <3> HIDE DEF wr, group
    <3>3. wr \in WriterStates
      BY <1>2, <1>3, <3>1 DEF WriterStates
    <3> QED BY <3>2, <3>3 DEF WriterTypes
  <2> QED BY <2>1, <2>2, <2>5, <2>6 DEF StepKept, WriterTypes
<1>5. CASE WriterAck(w)
  <2>1. group[i] \in Live
    BY <1>2, CurrentIsFirst
  <2>2. AckEvent(group[i]) /\ UNCHANGED <<target, dlq, unwritten>>
    BY <1>5 DEF WriterAck, dataVars
  <2>3. TrackerNext /\ UNCHANGED <<nextSeqNum, cursor>>
    BY <2>1, <2>2, AckIsALedgerStep
  <2>4. ReadTypes' /\ LoopTypes' /\ WriterStates' = WriterStates
    BY <1>1, <2>3, WriterFrameKeeps
  <2> DEFINE rest == writer[w].todo \ {i}
  <2>5. writer' = [writer EXCEPT ![w] = IF rest = {} THEN IdleWriter ELSE [writer[w] EXCEPT !.todo = rest]]
    BY <1>5 DEF WriterAck
  <2>6. IdleWriter \in WriterStates
    BY DEF IdleWriter, WriterStates, WriterStages
  <2>7. ASSUME rest # {} PROVE [writer[w] EXCEPT !.todo = rest] \in WriterStates
    <3> DEFINE wr == [writer[w] EXCEPT !.todo = rest]
    <3>1. rest \subseteq 1..Len(group) /\ rest \in SUBSET Nat
      BY <1>2, <1>3
    <3>2. /\ wr \in [stage : WriterStages, group : Groups \cup {<< >>}, fresh : BOOLEAN,
                     todo : SUBSET Nat, ok : SUBSET Nat]
          /\ wr.stage = writer[w].stage /\ wr.group = group /\ wr.todo = rest /\ wr.ok = writer[w].ok
      BY <1>3, <3>1
    <3>3. writer[w].ok \subseteq 1..Len(group)
      BY <1>2 DEF WriterStates
    <3> HIDE DEF wr, group, rest
    <3>4. wr \in WriterStates
      BY <1>3, <2>7, <3>1, <3>2, <3>3 DEF WriterStates
    <3> QED BY <3>4 DEF wr
  <2>8. writer' \in [Workers -> WriterStates]
    BY <2>5, <2>6, <2>7 DEF WriterTypes
  <2> QED BY <2>2, <2>3, <2>4, <2>8 DEF StepKept, WriterTypes, DataTypes
<1> QED BY <1>4, <1>5

LEMMA ProcessStepKept ==
  ASSUME PipeInv, CloseTracker \/ TickerSave \/ Interrupt \/ ProcessCrash \/ ProcessRestart
  PROVE  StepKept
<1> USE DEF PipeInv
<1>1. CASE CloseTracker \/ TickerSave \/ ProcessCrash
  <2>1. UNCHANGED <<goroutineVars, dataVars>>
    BY <1>1 DEF CloseTracker, TickerSave, ProcessCrash
  <2>2. UNCHANGED <<nextSeqNum, cursor>>
    BY <1>1 DEF CloseTracker, TickerSave, ProcessCrash, Close, PeriodicSave, Crash, trackerMemory
  <2>3. TrackerNext
    <3>1. {} \in SUBSET Streams
      OBVIOUS
    <3> QED BY <1>1, <3>1 DEF CloseTracker, TickerSave, ProcessCrash, TrackerNext
  <2>4. Live' = Live /\ Groups' = Groups /\ WriterStates' = WriterStates
    BY <2>2, LiveFrame
  <2> QED BY <2>1, <2>3, <2>4 DEF goroutineVars, dataVars, StepKept, ReadTypes, LoopTypes, WriterTypes, DataTypes
<1>2. CASE Interrupt
  <2>1. UNCHANGED trackerVars /\ cancelled' = TRUE
    BY <1>2 DEF Interrupt
  <2>2. Live' = Live /\ Groups' = Groups /\ WriterStates' = WriterStates
    BY <2>1, LedgerFrame, LiveFrame
  <2>3. ReadTypes'
    BY <1>2, <2>1, <2>2 DEF Interrupt, ReadTypes
  <2> QED BY <1>2, <2>1, <2>2, <2>3 DEF Interrupt, dataVars, StepKept, LoopTypes, WriterTypes, DataTypes
<1>3. CASE ProcessRestart
  <2>1. TrackerNext /\ FreshGoroutines /\ UNCHANGED <<target, dlq, unwritten>>
    BY <1>3 DEF ProcessRestart, TrackerNext, dataVars
  <2>2. ReadTypes' /\ LoopTypes' /\ WriterTypes'
    <3>1. << >> \in {h \in Seq(Live') : Len(h) <= 1}
      OBVIOUS
    <3>2. ReadTypes'
      <4>1. readerHand' = [s \in Streams |-> << >>]
        BY <2>1 DEF FreshGoroutines
      <4>2. readerHand' \in [Streams -> {h \in Seq(Live') : Len(h) <= 1}]
        BY <3>1, <4>1
      <4>3. 0 <= IngestCap
        BY SizeAssumption
      <4>4. /\ ingestQueue' \in Seq(Live') /\ Len(ingestQueue') <= IngestCap
            /\ distHand' \in Seq(Live') /\ Len(distHand') <= 1
        BY <2>1, <3>1, <4>3 DEF FreshGoroutines
      <4> QED BY <2>1, <4>2, <4>4 DEF FreshGoroutines, ReadTypes
    <3>3. /\ << >> \in {q \in Seq(Live') : Len(q) <= BatchCap}
          /\ << >> \in {q \in Seq(Groups') : Len(q) <= WriteCap}
      BY SizeAssumption
    <3>4. LoopTypes'
      BY <2>1, <3>3 DEF FreshGoroutines, LoopTypes
    <3>5. IdleWriter \in WriterStates'
      BY DEF IdleWriter, WriterStates, WriterStages
    <3>6. WriterTypes'
      BY <2>1, <3>5 DEF FreshGoroutines, WriterTypes
    <3> QED BY <3>2, <3>4, <3>6
  <2>3. DataTypes'
    BY <2>1 DEF DataTypes
  <2> QED BY <2>1, <2>2, <2>3 DEF StepKept
<1> QED BY <1>1, <1>2, <1>3

LEMMA PipeInvInit ==
  Init => PipeInv
<1> SUFFICES ASSUME Init PROVE PipeInv
  OBVIOUS
<1>1. TrackerInv
  BY TrackerInvInit DEF Init
<1>2. << >> \in {h \in Seq(Live) : Len(h) <= 1}
  OBVIOUS
<1>3. ReadTypes
  <2>1. readerHand = [s \in Streams |-> << >>]
    BY DEF Init
  <2>2. readerHand \in [Streams -> {h \in Seq(Live) : Len(h) <= 1}]
    BY <1>2, <2>1
  <2>3. 0 <= IngestCap
    BY SizeAssumption
  <2>4. /\ ingestQueue \in Seq(Live) /\ Len(ingestQueue) <= IngestCap
        /\ distHand \in Seq(Live) /\ Len(distHand) <= 1
    BY <1>2, <2>3 DEF Init
  <2> QED BY <2>2, <2>4 DEF Init, ReadTypes
<1>4. /\ << >> \in {q \in Seq(Live) : Len(q) <= BatchCap}
      /\ << >> \in {q \in Seq(Groups) : Len(q) <= WriteCap}
  BY SizeAssumption
<1>5. LoopTypes
  BY <1>4 DEF Init, LoopTypes
<1>6. IdleWriter \in WriterStates
  BY DEF IdleWriter, WriterStates, WriterStages
<1>7. WriterTypes /\ DataTypes
  BY <1>6 DEF Init, WriterTypes, DataTypes
<1> QED BY <1>1, <1>3, <1>5, <1>7 DEF PipeInv

(* Every step keeps the invariant, and is for the ledger a step of its own *)
(* or no step at all.                                                      *)
LEMMA PipeInvInductive ==
  ASSUME PipeInv, [Next]_vars
  PROVE  PipeInv' /\ [TrackerNext]_trackerVars
<1>1. StepKept
  <2>1. CASE UNCHANGED vars
    <3>1. UNCHANGED <<goroutineVars, dataVars>> /\ UNCHANGED trackerVars
      BY <2>1 DEF vars
    <3>2. Live' = Live /\ Groups' = Groups /\ WriterStates' = WriterStates
      BY <3>1, LedgerFrame, LiveFrame
    <3> QED BY <3>1, <3>2 DEF PipeInv, goroutineVars, dataVars, StepKept, ReadTypes, LoopTypes,
                              WriterTypes, DataTypes
  <2>2. ASSUME NEW s \in Streams, ReaderStep(s) PROVE StepKept
    BY <2>2, ReaderStepKept
  <2>3. CASE DistributorStep
    BY <2>3, DistributorStepKept
  <2>4. ASSUME NEW w \in Workers, LoopStep(w) PROVE StepKept
    BY <2>4, LoopStepKept
  <2>5. ASSUME NEW w \in Workers, WriterStep(w) PROVE StepKept
    BY <2>5, WriterTakeKept, BulkStepKept, RetryStepKept, WriterEndKept DEF WriterStep
  <2>6. CASE CloseTracker \/ TickerSave \/ Interrupt \/ ProcessCrash \/ ProcessRestart
    BY <2>6, ProcessStepKept
  <2> QED BY <2>1, <2>2, <2>3, <2>4, <2>5, <2>6 DEF Next
<1>2. [TrackerNext]_trackerVars
  BY <1>1 DEF StepKept
<1>3. TrackerInv'
  BY <1>2, TrackerInvInductive DEF PipeInv
<1> QED BY <1>1, <1>2, <1>3 DEF PipeInv, StepKept

-----------------------------------------------------------------------------

(* The pipeline implements the checkpoint ledger: whatever the goroutines  *)
(* do, in whatever order, they only register the next event of a stream    *)
(* and acknowledge events they registered, under their own numbers and     *)
(* positions; Close, crashes and restarts included.                        *)
THEOREM PipelineDrivesLedger == Spec => TrackerRefined
<1>1. Init => PipeInv /\ TrackerInit
  BY PipeInvInit DEF Init
<1>2. PipeInv /\ [Next]_vars => PipeInv' /\ [TrackerNext]_trackerVars
  BY PipeInvInductive
<1> QED BY <1>1, <1>2, PTL DEF Spec, TrackerSpec, TrackerRefined

(* Every queue stays within its capacity and every group within the batch  *)
(* size; the operations a writer still has to retry or acknowledge are     *)
(* operations of its group.                                                *)
THEOREM PipelineTypeCorrect == Spec => []TypeOK
<1>1. Init => PipeInv
  BY PipeInvInit
<1>2. PipeInv /\ [Next]_vars => PipeInv'
  BY PipeInvInductive
<1>3. PipeInv => TypeOK
  <2> SUFFICES ASSUME PipeInv PROVE TypeOK
    OBVIOUS
  <2>1. Live \subseteq Event
    BY DEF Live
  <2>2. /\ \A q \in Seq(Live) : q \in Seq(Event)
    BY <2>1, SeqMonotonic
  <2>3. Groups \subseteq Seq(Event)
    BY <2>2 DEF Groups
  <2>4. \A q \in Seq(Groups) : q \in Seq(Seq(Event))
    BY <2>3, SeqMonotonic
  <2>5. << >> \in Seq(Event)
    OBVIOUS
  <2>6. /\ ingestQueue \in Seq(Event) /\ Len(ingestQueue) <= IngestCap
        /\ \A s \in Streams : readerHand[s] \in Seq(Event) /\ Len(readerHand[s]) <= 1
        /\ distHand \in Seq(Event) /\ Len(distHand) <= 1
        /\ readerDone \subseteq Streams /\ {distDone, cancelled} \subseteq BOOLEAN
    BY <2>2 DEF PipeInv, ReadTypes
  <2>7. ASSUME NEW w \in Workers
        PROVE  /\ batchingQueue[w] \in Seq(Event) /\ Len(batchingQueue[w]) <= BatchCap
               /\ currentGroup[w] \in Seq(Event) /\ Len(currentGroup[w]) <= BatchSize
               /\ batchWriteQueue[w] \in Seq(Seq(Event)) /\ Len(batchWriteQueue[w]) <= WriteCap
    <3>1. /\ batchingQueue[w] \in Seq(Live) /\ Len(batchingQueue[w]) <= BatchCap
          /\ currentGroup[w] \in Groups \cup {<< >>}
          /\ batchWriteQueue[w] \in Seq(Groups) /\ Len(batchWriteQueue[w]) <= WriteCap
      BY DEF PipeInv, LoopTypes
    <3>2. \A g \in Groups \cup {<< >>} : Len(g) <= BatchSize
      BY SizeAssumption DEF Groups
    <3> QED BY <2>2, <2>3, <2>4, <2>5, <3>1, <3>2
  <2>8. ASSUME NEW w \in Workers
        PROVE  /\ writer[w].stage \in WriterStages /\ writer[w].group \in Seq(Event)
               /\ writer[w].todo \cup writer[w].ok \subseteq DOMAIN writer[w].group
    <3>1. /\ writer[w].stage \in WriterStages /\ writer[w].group \in Groups \cup {<< >>}
          /\ writer[w].todo \cup writer[w].ok \subseteq 1..Len(writer[w].group)
      BY DEF PipeInv, WriterTypes, WriterStates
    <3>2. \A g \in Seq(Event) : DOMAIN g = 1..Len(g)
      OBVIOUS
    <3>3. writer[w].group \in Seq(Event)
      BY <2>3, <2>5, <3>1
    <3> QED BY <3>1, <3>2, <3>3
  <2> QED BY <2>6, <2>7, <2>8 DEF PipeInv, TypeOK, TrackerInv, LoopTypes, DataTypes
<1> QED BY <1>1, <1>2, <1>3, PTL DEF Spec

(* What the ledger promises therefore holds of the whole pipeline: a saved *)
(* token never covers an event that was not acknowledged, so no restart    *)
(* skips an event that was still in a queue, a group or a writer.          *)
THEOREM PipelineCheckpointIsSafe == Spec => []CheckpointCoversOnlyAcked
  BY PipelineDrivesLedger, CheckpointIsSafe, PTL DEF TrackerRefined

(* And the token files only move forward, across crashes and restarts.     *)
THEOREM PipelineCheckpointIsMonotonic == Spec => CheckpointNeverRegresses
  BY PipelineDrivesLedger, CheckpointIsMonotonic, PTL DEF TrackerRefined

(* An orderly shutdown of the replicator leaves every token file right in  *)
(* front of the first event it did not acknowledge.                        *)
THEOREM PipelineCloseFlushes == Spec => []CloseFlushesBoundary
  BY PipelineDrivesLedger, CloseFlushes, PTL DEF TrackerRefined

-----------------------------------------------------------------------------
(***************************************************************************)
(* What happens to documents.                                              *)
(***************************************************************************)

(* Order along the pipeline: of the events of one stream, the one read     *)
(* earlier is further down.                                                *)
Before(e, f) == e.stream = f.stream => e.pos < f.pos
AllBefore(S, T) == \A e \in S, f \in T : Before(e, f)
InOrder(q) == \A i, j \in DOMAIN q : i < j => Before(q[i], q[j])

(* The events of a queue of groups, and their order.                       *)
Members(q) == UNION {Range(q[i]) : i \in DOMAIN q}
GroupsInOrder(q) ==
  /\ \A i \in DOMAIN q : InOrder(q[i])
  /\ \A i, j \in DOMAIN q : i < j => AllBefore(Range(q[i]), Range(q[j]))

(* The events that have not come further than the readers, the             *)
(* distributor, and the queue, group and write queue of worker w.          *)
AtReaders == UNION {Range(readerHand[s]) : s \in Streams}
Unread == AtReaders \cup Range(ingestQueue)
Undealt == Unread \cup Range(distHand)
Unbatched(w) == Undealt \cup Range(batchingQueue[w])
Ungrouped(w) == Unbatched(w) \cup Range(currentGroup[w])
Upstream(w) == Ungrouped(w) \cup Members(batchWriteQueue[w])

ReadOrder ==
  /\ \A s \in Streams : \A e \in Range(readerHand[s]) : e.stream = s
  /\ InOrder(ingestQueue) /\ AllBefore(Range(ingestQueue), AtReaders)
  /\ AllBefore(Range(distHand), Unread)

LoopOrder(w) ==
  /\ InOrder(batchingQueue[w]) /\ AllBefore(Range(batchingQueue[w]), Undealt)
  /\ InOrder(currentGroup[w]) /\ AllBefore(Range(currentGroup[w]), Unbatched(w))
  /\ GroupsInOrder(batchWriteQueue[w])
  /\ AllBefore(Members(batchWriteQueue[w]), Ungrouped(w))

WriterOrder(w) ==
  /\ InOrder(writer[w].group)
  /\ AllBefore(Range(writer[w].group), Upstream(w))
  /\ writer[w].stage = "idle" => writer[w].group = << >>

(* Each document has one worker.                                           *)
Routed(w, S) == \A e \in S : WorkerOf[Doc(e)] = w
RouteInv(w) ==
  /\ Routed(w, Range(batchingQueue[w])) /\ Routed(w, Range(currentGroup[w]))
  /\ Routed(w, Members(batchWriteQueue[w])) /\ Routed(w, Range(writer[w].group))

OrderInv ==
  ReadOrder /\ \A w \in Workers : LoopOrder(w) /\ WriterOrder(w) /\ RouteInv(w)

(* The operations of a writer's group that are not acknowledged, and those *)
(* whose fate is still open.                                               *)
Unacked(w) == IF writer[w].stage = "ack" THEN writer[w].todo ELSE DOMAIN writer[w].group
Undecided(w) ==
  IF writer[w].stage = "bulk" THEN Models(writer[w].group)
  ELSE IF writer[w].stage = "retry" THEN writer[w].todo ELSE {}

(* An event on its way is not acknowledged in the ledger.                  *)
Waits(e) ==
  e.seq \in DOMAIN unackedEvents[e.stream] /\ ~unackedEvents[e.stream][e.seq].acked
UnackedInv ==
  \A w \in Workers : /\ \A e \in Upstream(w) : Waits(e)
                     /\ \A i \in Unacked(w) : Waits(writer[w].group[i])

(* Positions of a document's events: upstream of its worker's writer, in   *)
(* the writer, and undecided there.                                        *)
Coming(d) == {e.pos : e \in {f \in Upstream(WorkerOf[d]) : Doc(f) = d}}
PositionsOf(d, group, which) == {group[i].pos : i \in {j \in which : Doc(group[j]) = d}}
InWriter(d) ==
  PositionsOf(d, writer[WorkerOf[d]].group, DOMAIN writer[WorkerOf[d]].group)
Open(d) == PositionsOf(d, writer[WorkerOf[d]].group, Undecided(WorkerOf[d]))

Safe(s, d, i) == target[d] >= i \/ dlq[d] # 0 \/ i \in unwritten[s]

(* A write that has been read is on its way, or safe.                      *)
Accounted(s, d) ==
  \A i \in Writes(s, d, cursor[s]) : i \in Coming(d) \cup Open(d) \/ Safe(s, d, i)

(* And what has passed the writer is older than what is in it or behind.   *)
Passed(s, d) ==
  \A i \in Writes(s, d, cursor[s]) :
    \/ i \in Coming(d) \cup InWriter(d) \cup unwritten[s]
    \/ \A j \in Coming(d) \cup InWriter(d) : i < j

(* The operations that do not transform are in the DLQ before the bulk     *)
(* write is sent.                                                          *)
Rejected(w) ==
  writer[w].stage = "bulk" =>
    \A i \in DOMAIN writer[w].group :
      ~Transforms(writer[w].group[i]) => dlq[Doc(writer[w].group[i])] # 0

DocsInv ==
  /\ \A s \in Streams, d \in Docs : Accounted(s, d) /\ Passed(s, d)
  /\ \A w \in Workers : Rejected(w)

LossInv == PipeInv /\ OrderInv /\ UnackedInv /\ DocsInv

-----------------------------------------------------------------------------

LEMMA BeforeSubsets ==
  ASSUME NEW S, NEW T, AllBefore(S, T), NEW S2, S2 \subseteq S, NEW T2, T2 \subseteq T
  PROVE  AllBefore(S2, T2)
BY DEF AllBefore

LEMMA BeforeUnions ==
  ASSUME NEW S, NEW T, NEW U
  PROVE  /\ AllBefore(S, T) /\ AllBefore(S, U) => AllBefore(S, T \cup U)
         /\ AllBefore(S, U) /\ AllBefore(T, U) => AllBefore(S \cup T, U)
         /\ AllBefore({}, T) /\ AllBefore(T, {})
BY DEF AllBefore

(* Taking the head of a queue, and putting one queue behind another.       *)
LEMMA HeadOfOrdered ==
  ASSUME NEW S, NEW q \in Seq(S), q # << >>
  PROVE  /\ Head(q) \in S /\ Tail(q) \in Seq(S)
         /\ Range(q) = {Head(q)} \cup Range(Tail(q))
         /\ InOrder(q) => /\ InOrder(Tail(q))
                          /\ AllBefore({Head(q)}, Range(Tail(q)))
<1>1. /\ Len(q) \in Nat \ {0} /\ DOMAIN q = 1..Len(q) /\ Head(q) = q[1]
      /\ Head(q) \in S /\ Tail(q) \in Seq(S) /\ Len(Tail(q)) = Len(q) - 1
      /\ DOMAIN Tail(q) = 1..(Len(q) - 1)
      /\ \A i \in 1..(Len(q) - 1) : Tail(q)[i] = q[i + 1]
  BY HeadTailProperties, EmptySeq, LenProperties
<1> DEFINE n == Len(q)
           t == Tail(q)
<1>2. /\ n \in Nat \ {0} /\ DOMAIN q = 1..n /\ DOMAIN t = 1..(n - 1)
      /\ \A i \in 1..(n - 1) : i + 1 \in 1..n /\ t[i] = q[i + 1]
  BY <1>1
<1> HIDE DEF n, t
<1>3. Range(q) = {q[1]} \cup Range(t)
  <2>1. ASSUME NEW e \in Range(q) PROVE e \in {q[1]} \cup Range(t)
    <3>1. PICK i \in 1..n : e = q[i]
      BY <1>2 DEF Range
    <3>2. CASE i = 1
      BY <3>1, <3>2
    <3>3. CASE i # 1
      <4>1. i - 1 \in 1..(n - 1) /\ t[i - 1] = q[i]
        BY <1>2, <3>3
      <4> QED BY <1>2, <3>1, <4>1 DEF Range
    <3> QED BY <3>2, <3>3
  <2>2. Range(t) \subseteq Range(q)
    BY <1>2 DEF Range
  <2>3. q[1] \in Range(q)
    BY <1>2 DEF Range
  <2> QED BY <2>1, <2>2, <2>3
<1>4. ASSUME InOrder(q) PROVE InOrder(t) /\ AllBefore({q[1]}, Range(t))
  <2>1. InOrder(t)
    <3>1. \A i, j \in 1..(n - 1) : i < j => i + 1 < j + 1 /\ i + 1 \in 1..n /\ j + 1 \in 1..n
      BY <1>2
    <3> QED BY <1>2, <1>4, <3>1 DEF InOrder
  <2>2. \A j \in 1..(n - 1) : 1 < j + 1 /\ 1 \in 1..n
    BY <1>2
  <2> QED BY <1>2, <1>4, <2>1, <2>2 DEF InOrder, AllBefore, Range
<1> QED BY <1>1, <1>3, <1>4 DEF t

LEMMA JoinOfOrdered ==
  ASSUME NEW S, NEW p \in Seq(S), NEW q \in Seq(S)
  PROVE  /\ p \o q \in Seq(S) /\ Range(p \o q) = Range(p) \cup Range(q)
         /\ InOrder(p) /\ InOrder(q) /\ AllBefore(Range(p), Range(q)) => InOrder(p \o q)
<1>1. p \o q \in Seq(S) /\ Range(p \o q) = Range(p) \cup Range(q)
  BY ConcatProperties, RangeConcatenation
<1> DEFINE m == Len(p)
           n == Len(q)
           r == p \o q
<1>2. /\ m \in Nat /\ n \in Nat /\ DOMAIN p = 1..m /\ DOMAIN q = 1..n
      /\ DOMAIN r = 1..(m + n)
      /\ \A i \in 1..(m + n) : r[i] = IF i <= m THEN p[i] ELSE q[i - m]
  BY ConcatProperties, LenProperties
<1> HIDE DEF m, n, r
<1>3. ASSUME InOrder(p), InOrder(q), AllBefore(Range(p), Range(q)) PROVE InOrder(r)
  <2> SUFFICES ASSUME NEW i \in 1..(m + n), NEW j \in 1..(m + n), i < j PROVE Before(r[i], r[j])
    BY <1>2 DEF InOrder
  <2>1. CASE j <= m
    <3>1. i \in 1..m /\ j \in 1..m /\ r[i] = p[i] /\ r[j] = p[j]
      BY <1>2, <2>1
    <3> QED BY <1>2, <1>3, <3>1 DEF InOrder
  <2>2. CASE i > m
    <3>1. /\ i - m \in 1..n /\ j - m \in 1..n /\ i - m < j - m
          /\ r[i] = q[i - m] /\ r[j] = q[j - m]
      BY <1>2, <2>2
    <3> QED BY <1>2, <1>3, <3>1 DEF InOrder
  <2>3. CASE i <= m /\ j > m
    <3>1. i \in 1..m /\ j - m \in 1..n /\ r[i] = p[i] /\ r[j] = q[j - m]
      BY <1>2, <2>3
    <3>2. p[i] \in Range(p) /\ q[j - m] \in Range(q)
      BY <1>2, <3>1 DEF Range
    <3> QED BY <1>3, <3>1, <3>2 DEF AllBefore
  <2> QED BY <1>2, <2>1, <2>2, <2>3
<1> QED BY <1>1, <1>3 DEF r

LEMMA LiveJoin ==
  ASSUME NEW p \in Seq(Live), NEW q \in Seq(Live), InOrder(p), InOrder(q),
         AllBefore(Range(p), Range(q))
  PROVE  InOrder(p \o q)
BY JoinOfOrdered

LEMMA SingletonQueue ==
  ASSUME NEW S, NEW e \in S
  PROVE  <<e>> \in Seq(S) /\ Range(<<e>>) = {e} /\ InOrder(<<e>>)
<1>1. <<e>> \in Seq(S) /\ DOMAIN <<e>> = 1..1 /\ <<e>>[1] = e
  OBVIOUS
<1> QED BY <1>1 DEF Range, InOrder

LEMMA EmptyQueue ==
  /\ Range(<< >>) = {} /\ InOrder(<< >>)
  /\ Members(<< >>) = {} /\ GroupsInOrder(<< >>)
BY DEF Range, InOrder, Members, GroupsInOrder

(* A hand holds at most one event.                                         *)
LEMMA HandIsSingle ==
  ASSUME NEW S, NEW h \in Seq(S), h # << >>, Len(h) <= 1
  PROVE  Head(h) \in S /\ h = <<Head(h)>> /\ Range(h) = {Head(h)}
<1>0. Len(h) \in Nat \ {0} /\ h \in [1..Len(h) -> S]
  BY EmptySeq, LenProperties
<1>1. Len(h) = 1 /\ Head(h) = h[1] /\ h \in [1..1 -> S]
  BY <1>0
<1>2. h = <<h[1]>>
  BY <1>1
<1> QED BY <1>1, <1>2, SingletonQueue

(* The same for queues of groups.                                          *)
LEMMA HeadOfGroups ==
  ASSUME NEW S, NEW q \in Seq(S), q # << >>
  PROVE  /\ Head(q) \in S /\ Tail(q) \in Seq(S)
         /\ Members(q) = Range(Head(q)) \cup Members(Tail(q))
         /\ GroupsInOrder(q) => /\ GroupsInOrder(Tail(q)) /\ InOrder(Head(q))
                                /\ AllBefore(Range(Head(q)), Members(Tail(q)))
<1>1. /\ Len(q) \in Nat \ {0} /\ DOMAIN q = 1..Len(q) /\ Head(q) = q[1]
      /\ Head(q) \in S /\ Tail(q) \in Seq(S) /\ Len(Tail(q)) = Len(q) - 1
      /\ DOMAIN Tail(q) = 1..(Len(q) - 1)
      /\ \A i \in 1..(Len(q) - 1) : Tail(q)[i] = q[i + 1]
  BY HeadTailProperties, EmptySeq, LenProperties
<1> DEFINE n == Len(q)
           t == Tail(q)
<1>2. /\ n \in Nat \ {0} /\ DOMAIN q = 1..n /\ DOMAIN t = 1..(n - 1) /\ 1 \in 1..n
      /\ \A i \in 1..(n - 1) : i + 1 \in 1..n /\ t[i] = q[i + 1] /\ 1 < i + 1
      /\ \A i, j \in 1..(n - 1) : i < j => i + 1 < j + 1
  BY <1>1
<1> HIDE DEF n, t
<1>3. Members(q) = Range(q[1]) \cup Members(t)
  <2>1. ASSUME NEW e \in Members(q) PROVE e \in Range(q[1]) \cup Members(t)
    <3>1. PICK i \in 1..n : e \in Range(q[i])
      BY <1>2 DEF Members
    <3>2. CASE i = 1
      BY <3>1, <3>2
    <3>3. CASE i # 1
      <4>1. i - 1 \in 1..(n - 1) /\ t[i - 1] = q[i]
        BY <1>2, <3>3
      <4> QED BY <1>2, <3>1, <4>1 DEF Members
    <3> QED BY <3>2, <3>3
  <2>2. Members(t) \subseteq Members(q)
    BY <1>2 DEF Members
  <2>3. Range(q[1]) \subseteq Members(q)
    BY <1>2 DEF Members
  <2> QED BY <2>1, <2>2, <2>3
<1>4. ASSUME GroupsInOrder(q)
      PROVE  GroupsInOrder(t) /\ InOrder(q[1]) /\ AllBefore(Range(q[1]), Members(t))
  <2>1. GroupsInOrder(t)
    BY <1>2, <1>4 DEF GroupsInOrder
  <2>2. \A i \in 1..(n - 1) : AllBefore(Range(q[1]), Range(t[i]))
    BY <1>2, <1>4 DEF GroupsInOrder
  <2>3. InOrder(q[1])
    BY <1>2, <1>4 DEF GroupsInOrder
  <2>4. AllBefore(Range(q[1]), Members(t))
    BY <1>2, <2>2 DEF AllBefore, Members
  <2> QED BY <2>1, <2>3, <2>4
<1> QED BY <1>1, <1>3, <1>4 DEF t

LEMMA JoinOfGroups ==
  ASSUME NEW S, NEW p \in Seq(S), NEW q \in Seq(S)
  PROVE  /\ p \o q \in Seq(S) /\ Members(p \o q) = Members(p) \cup Members(q)
         /\ GroupsInOrder(p) /\ GroupsInOrder(q) /\ AllBefore(Members(p), Members(q))
              => GroupsInOrder(p \o q)
<1> DEFINE m == Len(p)
           n == Len(q)
           r == p \o q
<1>1. /\ m \in Nat /\ n \in Nat /\ DOMAIN p = 1..m /\ DOMAIN q = 1..n
      /\ r \in Seq(S) /\ DOMAIN r = 1..(m + n)
      /\ \A i \in 1..(m + n) : r[i] = IF i <= m THEN p[i] ELSE q[i - m]
  BY ConcatProperties, LenProperties
<1> HIDE DEF m, n, r
<1>2. \A i \in 1..m : i \in 1..(m + n) /\ r[i] = p[i]
  BY <1>1
<1>3. \A i \in 1..n : m + i \in 1..(m + n) /\ r[m + i] = q[i]
  BY <1>1
<1>4. \A i \in 1..(m + n) : i \in 1..m \/ (i > m /\ i - m \in 1..n /\ r[i] = q[i - m])
  BY <1>1
<1>5. Members(r) = Members(p) \cup Members(q)
  <2>1. Members(p) \subseteq Members(r)
    BY <1>1, <1>2 DEF Members
  <2>2. Members(q) \subseteq Members(r)
    BY <1>1, <1>3 DEF Members
  <2>3. Members(r) \subseteq Members(p) \cup Members(q)
    BY <1>1, <1>2, <1>4 DEF Members
  <2> QED BY <2>1, <2>2, <2>3
<1>6. ASSUME GroupsInOrder(p), GroupsInOrder(q), AllBefore(Members(p), Members(q))
      PROVE  GroupsInOrder(r)
  <2>1. \A i \in 1..(m + n) : InOrder(r[i])
    BY <1>1, <1>2, <1>4, <1>6 DEF GroupsInOrder
  <2>2. ASSUME NEW i \in 1..(m + n), NEW j \in 1..(m + n), i < j
        PROVE  AllBefore(Range(r[i]), Range(r[j]))
    <3>1. CASE j \in 1..m
      <4>1. i \in 1..m
        BY <1>1, <2>2, <3>1
      <4> QED BY <1>1, <1>2, <1>6, <2>2, <3>1, <4>1 DEF GroupsInOrder
    <3>2. CASE i > m
      <4>1. /\ i - m \in 1..n /\ j - m \in 1..n /\ i - m < j - m
            /\ r[i] = q[i - m] /\ r[j] = q[j - m]
        BY <1>1, <2>2, <3>2
      <4> QED BY <1>1, <1>6, <4>1 DEF GroupsInOrder
    <3>3. CASE i \in 1..m /\ j > m
      <4>1. j - m \in 1..n /\ r[i] = p[i] /\ r[j] = q[j - m]
        BY <1>2, <1>4, <2>2, <3>3, <1>1
      <4>2. Range(r[i]) \subseteq Members(p) /\ Range(r[j]) \subseteq Members(q)
        BY <1>1, <3>3, <4>1 DEF Members
      <4> QED BY <1>6, <4>2, BeforeSubsets
    <3> QED BY <1>1, <1>4, <2>2, <3>1, <3>2, <3>3
  <2> QED BY <1>1, <2>1, <2>2 DEF GroupsInOrder
<1> QED BY <1>1, <1>5, <1>6 DEF r

LEMMA SingletonGroups ==
  ASSUME NEW S, NEW g \in S
  PROVE  /\ <<g>> \in Seq(S) /\ Members(<<g>>) = Range(g)
         /\ InOrder(g) => GroupsInOrder(<<g>>)
<1>1. <<g>> \in Seq(S) /\ DOMAIN <<g>> = 1..1 /\ <<g>>[1] = g
  OBVIOUS
<1> HIDE DEF Range
<1>2. Members(<<g>>) = Range(g)
  BY <1>1 DEF Members
<1>3. InOrder(g) => GroupsInOrder(<<g>>)
  BY <1>1 DEF GroupsInOrder
<1> QED BY <1>1, <1>2, <1>3

(* ProcessEvent splits its group and its event into the groups it pushes   *)
(* and the one it keeps, in order.                                         *)
LEMMA GroupsAreSplit ==
  ASSUME NEW g \in Groups \cup {<< >>}, NEW e \in Live, InOrder(g), AllBefore(Range(g), {e})
  PROVE  /\ Members(Pushed(g, e)) \cup Range(Kept(g, e)) = Range(g) \cup {e}
         /\ GroupsInOrder(Pushed(g, e)) /\ InOrder(Kept(g, e))
         /\ AllBefore(Members(Pushed(g, e)), Range(Kept(g, e)))
<1> DEFINE next == IF NeedNewGroup(g, e) THEN <<e>> ELSE Append(g, e)
           first == IF NeedNewGroup(g, e) /\ g # << >> THEN <<g>> ELSE << >>
           second == IF Len(next) >= BatchSize THEN <<next>> ELSE << >>
           kept == IF Len(next) >= BatchSize THEN << >> ELSE next
           one == <<e>>
<1>1. g \in Seq(Live)
  <2>1. << >> \in Seq(Live)
    OBVIOUS
  <2> QED BY <2>1 DEF Groups
<1>2. one \in Seq(Live) /\ Range(one) = {e} /\ InOrder(one)
  BY SingletonQueue
<1> HIDE DEF one
<1>3. /\ next \in Seq(Live) /\ InOrder(next) /\ first \in Seq(Seq(Live)) /\ GroupsInOrder(first)
      /\ Members(first) \cup Range(next) = Range(g) \cup {e}
      /\ AllBefore(Members(first), Range(next))
  <2>1. CASE NeedNewGroup(g, e) /\ g # << >>
    <3>1. next = one /\ first = <<g>>
      BY <2>1 DEF one
    <3>2. <<g>> \in Seq(Seq(Live)) /\ Members(<<g>>) = Range(g) /\ GroupsInOrder(<<g>>)
      BY <1>1, SingletonGroups
    <3> QED BY <1>2, <3>1, <3>2
  <2>2. ASSUME next = one \/ next = g \o one, first = << >>, next = one => g = << >> PROVE <1>3
    <3>1. g \o one \in Seq(Live) /\ Range(g \o one) = Range(g) \cup {e} /\ InOrder(g \o one)
      <4>1. AllBefore(Range(g), Range(one))
        BY <1>2
      <4>2. /\ g \o one \in Seq(Live) /\ Range(g \o one) = Range(g) \cup Range(one)
            /\ InOrder(g) /\ InOrder(one) /\ AllBefore(Range(g), Range(one)) => InOrder(g \o one)
        BY <1>1, <1>2, JoinOfOrdered, Zenon
      <4> QED BY <1>2, <4>1, <4>2
    <3>2. next \in Seq(Live) /\ InOrder(next) /\ Range(next) = Range(g) \cup {e}
      BY <1>2, <2>2, <3>1, EmptyQueue
    <3>3. first \in Seq(Seq(Live)) /\ Members(first) = {} /\ GroupsInOrder(first)
      BY <2>2, EmptyQueue
    <3>4. AllBefore({}, Range(next))
      BY DEF AllBefore
    <3> QED BY <3>2, <3>3, <3>4
  <2>3. CASE NeedNewGroup(g, e) /\ g = << >>
    <3>1. next = one /\ first = << >>
      BY <2>3 DEF one
    <3> QED BY <2>2, <2>3, <3>1
  <2>4. CASE ~NeedNewGroup(g, e)
    <3>1. Append(g, e) = g \o one
      BY <1>1, AppendIsConcat DEF one
    <3>2. next = g \o one /\ first = << >>
      BY <2>4, <3>1
    <3>3. next = one => g = << >>
      <4>1. CASE g = << >>
        BY <4>1
      <4>2. CASE g # << >>
        <5>1. Len(g) \in Nat \ {0} /\ Len(one) = 1 /\ Len(g \o one) = Len(g) + Len(one)
          BY <1>1, <1>2, <4>2, EmptySeq, ConcatProperties DEF one
        <5> QED BY <3>2, <5>1
      <4> QED BY <4>1, <4>2
    <3> QED BY <2>2, <3>2, <3>3
  <2> QED BY <2>1, <2>3, <2>4
<1>4. Pushed(g, e) = first \o second /\ Kept(g, e) = kept
  BY DEF Pushed, Kept
<1> HIDE DEF next, first
<1>5. CASE Len(next) >= BatchSize
  <2>1. second = <<next>> /\ kept = << >>
    BY <1>5
  <2>2. <<next>> \in Seq(Seq(Live)) /\ Members(<<next>>) = Range(next) /\ GroupsInOrder(<<next>>)
    BY <1>3, SingletonGroups
  <2> DEFINE last == <<next>>
  <2> HIDE DEF last
  <2>3. /\ Members(first \o last) = Members(first) \cup Range(next)
        /\ GroupsInOrder(first \o last)
    <3>1. last \in Seq(Seq(Live)) /\ Members(last) = Range(next) /\ GroupsInOrder(last)
      BY <2>2 DEF last
    <3>2. AllBefore(Members(first), Members(last))
      BY <1>3, <3>1
    <3>3. /\ Members(first \o last) = Members(first) \cup Members(last)
          /\ GroupsInOrder(first) /\ GroupsInOrder(last) /\ AllBefore(Members(first), Members(last))
               => GroupsInOrder(first \o last)
      BY <1>3, <3>1, JoinOfGroups
    <3> QED BY <1>3, <3>1, <3>2, <3>3
  <2>4. Pushed(g, e) = first \o last /\ Kept(g, e) = << >>
    BY <1>4, <2>1 DEF last
  <2>5. Range(<< >>) = {} /\ InOrder(<< >>) /\ AllBefore(Members(first \o last), {})
    BY EmptyQueue DEF AllBefore
  <2> QED BY <1>3, <2>3, <2>4, <2>5
<1>6. CASE ~(Len(next) >= BatchSize)
  <2>1. second = << >> /\ kept = next
    BY <1>6
  <2>2. first \o << >> = first
    BY <1>3, ConcatEmptySeq
  <2> QED BY <1>3, <1>4, <2>1, <2>2
<1> QED BY <1>5, <1>6

-----------------------------------------------------------------------------

(* Whatever is on its way is an event the ledger has registered.           *)
LEMMA PathIsLive ==
  ASSUME PipeInv
  PROVE  /\ AtReaders \subseteq Live /\ Unread \subseteq Live /\ Undealt \subseteq Live
         /\ \A w \in Workers :
              /\ batchingQueue[w] \in Seq(Live) /\ currentGroup[w] \in Seq(Live)
              /\ batchWriteQueue[w] \in Seq(Seq(Live)) /\ writer[w].group \in Seq(Live)
              /\ Range(batchingQueue[w]) \subseteq Live /\ Range(currentGroup[w]) \subseteq Live
              /\ Members(batchWriteQueue[w]) \subseteq Live
              /\ Range(writer[w].group) \subseteq Live
              /\ Upstream(w) \subseteq Live
<1>1. ReadTypes /\ LoopTypes /\ WriterTypes
  BY DEF PipeInv
<1>2. \A q \in Seq(Live) : Range(q) \subseteq Live
  BY RangeOfSeq
<1>3. /\ AtReaders \subseteq Live /\ Unread \subseteq Live /\ Undealt \subseteq Live
  <2>1. \A s \in Streams : Range(readerHand[s]) \subseteq Live
    BY <1>1, <1>2 DEF ReadTypes
  <2>2. Range(ingestQueue) \subseteq Live /\ Range(distHand) \subseteq Live
    BY <1>1, <1>2 DEF ReadTypes
  <2> QED BY <2>1, <2>2 DEF AtReaders, Unread, Undealt
<1>4. << >> \in Seq(Live)
  OBVIOUS
<1>5. Groups \subseteq Seq(Live)
  BY DEF Groups
<1>6. ASSUME NEW w \in Workers
      PROVE  /\ batchingQueue[w] \in Seq(Live) /\ currentGroup[w] \in Seq(Live)
             /\ batchWriteQueue[w] \in Seq(Seq(Live)) /\ writer[w].group \in Seq(Live)
             /\ Range(batchingQueue[w]) \subseteq Live /\ Range(currentGroup[w]) \subseteq Live
             /\ Members(batchWriteQueue[w]) \subseteq Live
             /\ Range(writer[w].group) \subseteq Live
  <2>1. batchingQueue[w] \in Seq(Live) /\ currentGroup[w] \in Groups \cup {<< >>}
        /\ batchWriteQueue[w] \in Seq(Groups)
    BY <1>1 DEF LoopTypes
  <2>2. writer[w].group \in Groups \cup {<< >>}
    BY <1>1 DEF WriterTypes, WriterStates
  <2>3. batchWriteQueue[w] \in Seq(Seq(Live))
    BY <1>5, <2>1, SeqMonotonic
  <2>4. Members(batchWriteQueue[w]) \subseteq Live
    <3>1. \A i \in DOMAIN batchWriteQueue[w] : batchWriteQueue[w][i] \in Seq(Live)
      BY <2>3, LenProperties, ElementOfSeq
    <3> QED BY <1>2, <3>1 DEF Members
  <2> QED BY <1>2, <1>4, <1>5, <2>1, <2>2, <2>3, <2>4
<1>7. \A w \in Workers : Upstream(w) \subseteq Live
  BY <1>3, <1>6 DEF Upstream, Ungrouped, Unbatched
<1> QED BY <1>3, <1>6, <1>7

(* What a live event is.                                                   *)
LEMMA LiveEvents ==
  ASSUME PipeInv, NEW e \in Live
  PROVE  /\ e.stream \in Streams /\ e.pos \in Nat \ {0} /\ e.seq \in Nat \ {0}
         /\ e.pos <= cursor[e.stream] /\ cursor[e.stream] \in Nat
         /\ e.pos \in DOMAIN Log[e.stream] /\ Doc(e) \in Docs /\ Doc(e) = Log[e.stream][e.pos].doc
         /\ WorkerOf[Doc(e)] \in Workers
<1>1. /\ e.stream \in Streams /\ e.seq \in Nat \ {0} /\ e.pos \in Nat \ {0}
      /\ e.seq <= Issued(e.stream) /\ e.pos = (cursor[e.stream] - Issued(e.stream)) + e.seq
  BY DEF Live, Event
<1>2. nextSeqNum[e.stream] \in Nat /\ cursor[e.stream] \in Nat
      /\ cursor[e.stream] <= StreamLength[e.stream]
  BY <1>1 DEF PipeInv, TrackerInv, TrackerTypeOK
<1>3. Issued(e.stream) \in Nat
  BY <1>2 DEF Issued, NextSeq
<1>4. e.pos <= cursor[e.stream]
  BY <1>1, <1>2, <1>3
<1>5. StreamLength[e.stream] \in Nat
  BY <1>1, StreamLengthAssumption
<1>6. /\ Log[e.stream] \in Seq([op : OpTypes, doc : Docs])
      /\ Len(Log[e.stream]) = StreamLength[e.stream]
  BY <1>1, LogAssumption
<1>7. DOMAIN Log[e.stream] = 1..StreamLength[e.stream]
  BY <1>6, LenProperties
<1>8. e.pos \in DOMAIN Log[e.stream]
  BY <1>1, <1>2, <1>4, <1>5, <1>7
<1>9. Log[e.stream][e.pos] \in [op : OpTypes, doc : Docs]
  BY <1>6, <1>7, <1>8, ElementOfSeq
<1>10. Doc(e) \in Docs
  BY <1>9 DEF Doc
<1> QED BY <1>1, <1>2, <1>4, <1>8, <1>10, WorkerAssumption DEF Doc

(* Nothing in front of worker w moves, but for events in new that come     *)
(* behind everything there.                                                *)
LEMMA LoopOrderKept ==
  ASSUME NEW w \in Workers, LoopOrder(w),
         UNCHANGED <<batchingQueue[w], currentGroup[w], batchWriteQueue[w]>>,
         NEW new, Undealt' \subseteq Undealt \cup new, AllBefore(Upstream(w), new)
  PROVE  LoopOrder(w)' /\ Upstream(w)' \subseteq Upstream(w) \cup new
<1>1. /\ Unbatched(w)' \subseteq Unbatched(w) \cup new
      /\ Ungrouped(w)' \subseteq Ungrouped(w) \cup new
      /\ Upstream(w)' \subseteq Upstream(w) \cup new
  BY DEF Unbatched, Ungrouped, Upstream
<1>2. /\ Range(batchingQueue[w]) \subseteq Upstream(w) /\ Range(currentGroup[w]) \subseteq Upstream(w)
      /\ Members(batchWriteQueue[w]) \subseteq Upstream(w)
  BY DEF Upstream, Ungrouped, Unbatched
<1>3. /\ AllBefore(Range(batchingQueue[w]), Undealt \cup new)
      /\ AllBefore(Range(currentGroup[w]), Unbatched(w) \cup new)
      /\ AllBefore(Members(batchWriteQueue[w]), Ungrouped(w) \cup new)
  BY <1>2 DEF LoopOrder, AllBefore
<1>4. /\ AllBefore(Range(batchingQueue[w]), Undealt')
      /\ AllBefore(Range(currentGroup[w]), Unbatched(w)')
      /\ AllBefore(Members(batchWriteQueue[w]), Ungrouped(w)')
  BY <1>1, <1>3 DEF AllBefore
<1> QED BY <1>1, <1>4 DEF LoopOrder

LEMMA WriterOrderKept ==
  ASSUME NEW w \in Workers, WriterOrder(w), writer'[w].group = writer[w].group,
         writer'[w].stage = "idle" => writer[w].stage = "idle",
         NEW new, Upstream(w)' \subseteq Upstream(w) \cup new,
         AllBefore(Range(writer[w].group), new)
  PROVE  WriterOrder(w)'
BY DEF WriterOrder, AllBefore

(* A step moves the events on their way further down: those in new come    *)
(* in, those in lost leave before they reach a writer, and no other event  *)
(* is like one that leaves.                                                *)
Apart(S, T) == \A e \in S, f \in T : e.stream = f.stream => e.pos # f.pos
Flow(new, lost) ==
  /\ OrderInv'
  /\ \A w \in Workers :
       /\ Upstream(w)' \subseteq Upstream(w) \cup new
       /\ \A e \in Upstream(w) : WorkerOf[Doc(e)] = w => e \in Upstream(w)' \cup lost
       /\ Apart(lost, Upstream(w)') /\ Apart(lost, Range(writer[w].group))

LEMMA BeforeIsApart ==
  ASSUME NEW S \in SUBSET Live, NEW T \in SUBSET Live, AllBefore(S, T)
  PROVE  Apart(S, T) /\ Apart(T, S)
BY DEF AllBefore, Before, Apart, Live, Event

(* Steps in front of the workers.                                          *)
LEMMA FrontFlows ==
  ASSUME PipeInv, OrderInv, ReadOrder',
         UNCHANGED <<batchingQueue, currentGroup, batchWriteQueue, writer>>,
         NEW new, NEW lost,
         Undealt' \subseteq Undealt \cup new, Undealt \subseteq Undealt' \cup lost,
         AllBefore(Live, new), lost \subseteq Undealt, Apart(lost, Undealt')
  PROVE  Flow(new, lost)
<1>1. ASSUME NEW w \in Workers
      PROVE  /\ LoopOrder(w)' /\ WriterOrder(w)' /\ RouteInv(w)'
             /\ Upstream(w)' \subseteq Upstream(w) \cup new
             /\ Upstream(w) \subseteq Upstream(w)' \cup lost
             /\ Apart(lost, Upstream(w)') /\ Apart(lost, Range(writer[w].group))
  <2>1. LoopOrder(w) /\ WriterOrder(w) /\ RouteInv(w)
    BY DEF OrderInv
  <2>2. /\ Upstream(w) \subseteq Live /\ Range(writer[w].group) \subseteq Live /\ Undealt \subseteq Live
        /\ Range(batchingQueue[w]) \subseteq Live /\ Range(currentGroup[w]) \subseteq Live
        /\ Members(batchWriteQueue[w]) \subseteq Live
    BY PathIsLive
  <2>3. AllBefore(Upstream(w), new) /\ AllBefore(Range(writer[w].group), new)
    BY <2>2 DEF AllBefore
  <2>4. LoopOrder(w)' /\ Upstream(w)' \subseteq Upstream(w) \cup new
    BY <2>1, <2>3, LoopOrderKept
  <2>5. WriterOrder(w)'
    BY <2>1, <2>3, <2>4, WriterOrderKept
  <2>6. RouteInv(w)'
    BY <2>1 DEF RouteInv, Routed
  <2>7. Upstream(w) \subseteq Upstream(w)' \cup lost
    BY DEF Upstream, Ungrouped, Unbatched
  <2> DEFINE down == Range(batchingQueue[w]) \cup Range(currentGroup[w])
                       \cup Members(batchWriteQueue[w])
  <2>8. /\ Upstream(w)' = Undealt' \cup down
        /\ Undealt \subseteq Unbatched(w) /\ Unbatched(w) \subseteq Ungrouped(w)
        /\ Ungrouped(w) \subseteq Upstream(w)
    BY DEF Upstream, Ungrouped, Unbatched
  <2>9. AllBefore(down, lost)
    BY <2>1, <2>8 DEF LoopOrder, AllBefore
  <2>10. AllBefore(Range(writer[w].group), lost)
    BY <2>1, <2>8 DEF WriterOrder, AllBefore
  <2>11. down \in SUBSET Live /\ lost \in SUBSET Live /\ Range(writer[w].group) \in SUBSET Live
    BY <2>2
  <2>12. Apart(lost, down) /\ Apart(lost, Range(writer[w].group))
    BY <2>9, <2>10, <2>11, BeforeIsApart
  <2>13. Apart(lost, Upstream(w)')
    BY <2>8, <2>12 DEF Apart
  <2> QED BY <2>4, <2>5, <2>6, <2>7, <2>12, <2>13
<1>2. OrderInv'
  BY <1>1 DEF OrderInv
<1> QED BY <1>1, <1>2 DEF Flow

(* The event a reader takes next is newer than all the ledger knows.       *)
NextEvent(s) == [stream |-> s, pos |-> cursor[s] + 1, seq |-> NextSeq(s)]

LEMMA ReaderNextFlows ==
  ASSUME PipeInv, OrderInv, NEW s \in Streams, ReaderNext(s)
  PROVE  /\ Flow({NextEvent(s)}, {}) /\ AllBefore(Live, {NextEvent(s)})
         /\ \A w \in Workers : NextEvent(s) \in Upstream(w)'
<1> DEFINE e == NextEvent(s)
<1>1. e.stream = s /\ e.pos = cursor[s] + 1
  BY DEF NextEvent
<1>2. /\ readerHand' = [readerHand EXCEPT ![s] = <<e>>] /\ readerHand[s] = << >>
      /\ UNCHANGED <<ingestQueue, distHand, batchingQueue, currentGroup, batchWriteQueue, writer>>
  BY DEF ReaderNext, NextEvent
<1> HIDE DEF e
<1>3. AllBefore(Live, {e})
  BY <1>1, LiveEvents DEF AllBefore, Before
<1>4. readerHand \in [Streams -> {h \in Seq(Live) : Len(h) <= 1}]
  BY DEF PipeInv, ReadTypes
<1>5. /\ Range(<<e>>) = {e} /\ Range(<< >>) = {}
  BY SingletonQueue, EmptyQueue
<1>6. \A t \in Streams : Range(readerHand'[t]) = IF t = s THEN {e} ELSE Range(readerHand[t])
  BY <1>2, <1>4, <1>5
<1>7. Range(readerHand[s]) = {}
  BY <1>2, <1>5
<1>8. AtReaders' = AtReaders \cup {e}
  BY <1>6, <1>7 DEF AtReaders
<1>9. Unread' = Unread \cup {e} /\ Undealt' = Undealt \cup {e}
  BY <1>2, <1>8 DEF Unread, Undealt
<1>10. ReadOrder'
  <2>1. ReadOrder
    BY DEF OrderInv
  <2>2. AtReaders \subseteq Live /\ Unread \subseteq Live /\ Undealt \subseteq Live
    BY PathIsLive
  <2>3. Range(ingestQueue) \subseteq Live /\ Range(distHand) \subseteq Live
    BY <2>2 DEF Unread, Undealt
  <2>4. \A t \in Streams : \A f \in Range(readerHand'[t]) : f.stream = t
    BY <1>1, <1>6, <2>1 DEF ReadOrder
  <2>5. AllBefore(Range(ingestQueue), AtReaders \cup {e}) /\ AllBefore(Range(distHand), Unread \cup {e})
    BY <1>3, <2>1, <2>3 DEF ReadOrder, AllBefore
  <2> QED BY <1>2, <1>8, <1>9, <2>1, <2>4, <2>5 DEF ReadOrder
<1>11. Flow({e}, {})
  <2>1. Apart({}, Undealt')
    BY DEF Apart
  <2> QED BY <1>2, <1>3, <1>9, <1>10, <2>1, FrontFlows
<1>12. \A w \in Workers : e \in Upstream(w)'
  BY <1>9 DEF Upstream, Ungrouped, Unbatched
<1> QED BY <1>3, <1>11, <1>12 DEF e

LEMMA QuietFrontFlows ==
  ASSUME PipeInv, OrderInv,
         UNCHANGED <<readerHand, ingestQueue, distHand, batchingQueue, currentGroup,
                     batchWriteQueue, writer>>
  PROVE  Flow({}, {})
<1>1. ReadOrder'
  BY DEF OrderInv, ReadOrder, AtReaders, Unread
<1>2. Undealt' = Undealt
  BY DEF Undealt, Unread, AtReaders
<1>3. AllBefore(Live, {}) /\ Apart({}, Undealt')
  BY DEF AllBefore, Apart
<1> QED BY <1>1, <1>2, <1>3, FrontFlows

(* The other readers' events are of other streams.                         *)
LEMMA HandEmptied ==
  ASSUME PipeInv, OrderInv, NEW s \in Streams, readerHand[s] # << >>,
         readerHand' = [readerHand EXCEPT ![s] = << >>]
  PROVE  /\ Head(readerHand[s]) \in Live /\ Range(readerHand[s]) = {Head(readerHand[s])}
         /\ readerHand[s] = <<Head(readerHand[s])>>
         /\ Head(readerHand[s]).stream = s
         /\ AtReaders = AtReaders' \cup {Head(readerHand[s])}
         /\ AllBefore({Head(readerHand[s])}, AtReaders') /\ Apart({Head(readerHand[s])}, AtReaders')
         /\ \A t \in Streams : \A f \in Range(readerHand'[t]) : f.stream = t
<1> DEFINE e == Head(readerHand[s])
<1>1. readerHand \in [Streams -> {h \in Seq(Live) : Len(h) <= 1}]
  BY DEF PipeInv, ReadTypes
<1>2. e \in Live /\ Range(readerHand[s]) = {e} /\ readerHand[s] = <<e>>
  BY <1>1, HandIsSingle
<1>3. \A t \in Streams : \A f \in Range(readerHand[t]) : f.stream = t
  BY DEF OrderInv, ReadOrder
<1> HIDE DEF e
<1>4. e.stream = s
  BY <1>2, <1>3
<1>5. \A t \in Streams : Range(readerHand'[t]) = IF t = s THEN {} ELSE Range(readerHand[t])
  BY <1>1, EmptyQueue
<1>6. AtReaders = AtReaders' \cup {e}
  BY <1>2, <1>5 DEF AtReaders
<1>7. \A f \in AtReaders' : f.stream # s
  BY <1>3, <1>5 DEF AtReaders
<1>8. AllBefore({e}, AtReaders') /\ Apart({e}, AtReaders')
  BY <1>4, <1>7 DEF AllBefore, Before, Apart
<1> QED BY <1>2, <1>3, <1>4, <1>5, <1>6, <1>8 DEF e

LEMMA ReaderPushFlows ==
  ASSUME PipeInv, OrderInv, NEW s \in Streams, ReaderPush(s)
  PROVE  Flow({}, {})
<1> DEFINE e == Head(readerHand[s])
<1>1. /\ readerHand' = [readerHand EXCEPT ![s] = << >>] /\ readerHand[s] # << >>
      /\ ingestQueue' = ingestQueue \o readerHand[s]
      /\ UNCHANGED <<distHand, batchingQueue, currentGroup, batchWriteQueue, writer>>
  BY DEF ReaderPush
<1>2. /\ e \in Live /\ readerHand[s] = <<e>>
      /\ AtReaders = AtReaders' \cup {e} /\ AllBefore({e}, AtReaders')
      /\ \A t \in Streams : \A f \in Range(readerHand'[t]) : f.stream = t
  BY <1>1, HandEmptied
<1> HIDE DEF e
<1>3. ReadOrder
  BY DEF OrderInv
<1>4. <<e>> \in Seq(Live) /\ Range(<<e>>) = {e} /\ InOrder(<<e>>)
  BY <1>2, SingletonQueue
<1> DEFINE one == <<e>>
<1>5. ingestQueue' = ingestQueue \o one /\ one \in Seq(Live) /\ Range(one) = {e} /\ InOrder(one)
  BY <1>1, <1>2, <1>4
<1> HIDE DEF one
<1>6. ingestQueue \in Seq(Live)
  BY DEF PipeInv, ReadTypes
<1>7. AllBefore(Range(ingestQueue), {e})
  BY <1>2, <1>3 DEF ReadOrder, AllBefore
<1>8. Range(ingestQueue') = Range(ingestQueue) \cup {e} /\ InOrder(ingestQueue')
  <2>1. AllBefore(Range(ingestQueue), Range(one)) /\ InOrder(ingestQueue)
    BY <1>3, <1>5, <1>7 DEF ReadOrder
  <2>2. /\ Range(ingestQueue \o one) = Range(ingestQueue) \cup Range(one)
        /\ InOrder(ingestQueue \o one)
    <3>1. one \in Seq(Live) /\ ingestQueue \in Seq(Live)
      BY <1>5, <1>6
    <3>2. Range(ingestQueue \o one) = Range(ingestQueue) \cup Range(one)
      BY <3>1, JoinOfOrdered
    <3>3. InOrder(ingestQueue \o one)
      BY <2>1, <3>1, <1>5, LiveJoin
    <3> QED BY <3>2, <3>3
  <2> QED BY <1>5, <2>2
<1>9. Unread' = Unread /\ Undealt' = Undealt
  BY <1>1, <1>2, <1>8 DEF Unread, Undealt
<1>10. ReadOrder'
  <2>1. AllBefore(Range(ingestQueue'), AtReaders')
    BY <1>2, <1>3, <1>8 DEF ReadOrder, AllBefore
  <2> QED BY <1>1, <1>2, <1>3, <1>8, <1>9, <2>1 DEF ReadOrder
<1>11. AllBefore(Live, {}) /\ Apart({}, Undealt')
  BY DEF AllBefore, Apart
<1> QED BY <1>1, <1>9, <1>10, <1>11, FrontFlows

LEMMA ReaderAbandonFlows ==
  ASSUME PipeInv, OrderInv, NEW s \in Streams, ReaderAbandon(s)
  PROVE  /\ Head(readerHand[s]) \in Live /\ Flow({}, {Head(readerHand[s])})
         /\ Head(readerHand[s]) \in Undealt
<1> DEFINE e == Head(readerHand[s])
<1>1. /\ readerHand' = [readerHand EXCEPT ![s] = << >>] /\ readerHand[s] # << >>
      /\ UNCHANGED <<ingestQueue, distHand, batchingQueue, currentGroup, batchWriteQueue, writer>>
  BY DEF ReaderAbandon
<1>2. /\ e \in Live
      /\ AtReaders = AtReaders' \cup {e} /\ Apart({e}, AtReaders')
      /\ \A t \in Streams : \A f \in Range(readerHand'[t]) : f.stream = t
  BY <1>1, HandEmptied
<1> HIDE DEF e
<1>3. ReadOrder
  BY DEF OrderInv
<1>4. Unread = Unread' \cup {e} /\ Undealt = Undealt' \cup {e}
  BY <1>1, <1>2 DEF Unread, Undealt
<1>5. ReadOrder'
  BY <1>1, <1>2, <1>3, <1>4 DEF ReadOrder, AllBefore
<1>6. Apart({e}, Undealt')
  <2>1. AllBefore(Range(ingestQueue), {e}) /\ AllBefore(Range(distHand), {e})
    BY <1>2, <1>3, <1>4 DEF ReadOrder, AllBefore, Unread
  <2>2. Range(ingestQueue) \in SUBSET Live /\ Range(distHand) \in SUBSET Live /\ {e} \in SUBSET Live
    BY <1>2, PathIsLive DEF Undealt, Unread
  <2>3. Apart({e}, Range(ingestQueue)) /\ Apart({e}, Range(distHand))
    BY <2>1, <2>2, BeforeIsApart
  <2> QED BY <1>1, <1>2, <2>3 DEF Undealt, Unread, Apart
<1>7. AllBefore(Live, {})
  BY DEF AllBefore
<1>8. Flow({}, {e})
  BY <1>1, <1>4, <1>5, <1>6, <1>7, FrontFlows
<1> QED BY <1>2, <1>4, <1>8 DEF e

(* The distributor takes the oldest event.                                 *)
LEMMA DistTakeFlows ==
  ASSUME PipeInv, OrderInv, DistTake
  PROVE  /\ Head(ingestQueue) \in Live /\ Head(ingestQueue) \in Undealt
         /\ distHand' = <<Head(ingestQueue)>> => Flow({}, {})
         /\ distHand' = distHand => Flow({}, {Head(ingestQueue)})
<1> DEFINE e == Head(ingestQueue)
<1>1. /\ distHand = << >> /\ ingestQueue # << >> /\ ingestQueue' = Tail(ingestQueue)
      /\ UNCHANGED <<readerHand, batchingQueue, currentGroup, batchWriteQueue, writer>>
  BY DEF DistTake
<1>2. ReadOrder /\ ingestQueue \in Seq(Live)
  BY DEF OrderInv, PipeInv, ReadTypes
<1>3. /\ e \in Live /\ Range(ingestQueue) = {e} \cup Range(ingestQueue')
      /\ InOrder(ingestQueue') /\ AllBefore({e}, Range(ingestQueue'))
      /\ ingestQueue' \in Seq(Live)
  BY <1>1, <1>2, HeadOfOrdered DEF ReadOrder
<1> HIDE DEF e
<1>4. Range(distHand) = {} /\ AtReaders' = AtReaders
  BY <1>1, EmptyQueue DEF AtReaders
<1>5. Unread = Unread' \cup {e} /\ Undealt = Unread' \cup {e}
  BY <1>3, <1>4 DEF Unread, Undealt
<1>6. AllBefore({e}, Unread')
  BY <1>2, <1>3, <1>4 DEF ReadOrder, Unread, AllBefore
<1>7. AllBefore(Range(ingestQueue'), AtReaders')
  BY <1>2, <1>3, <1>4 DEF ReadOrder, AllBefore
<1>8. AllBefore(Live, {})
  BY DEF AllBefore
<1>9. ASSUME distHand' = <<e>> PROVE Flow({}, {})
  <2>1. Range(distHand') = {e}
    BY <1>3, <1>9, SingletonQueue
  <2>2. ReadOrder'
    BY <1>1, <1>2, <1>3, <1>6, <1>7, <2>1 DEF ReadOrder
  <2>3. Undealt' = Undealt
    BY <1>5, <2>1 DEF Undealt
  <2>4. Apart({}, Undealt')
    BY DEF Apart
  <2> QED BY <1>1, <1>8, <2>2, <2>3, <2>4, FrontFlows
<1>10. ASSUME distHand' = distHand PROVE Flow({}, {e})
  <2>1. Range(distHand') = {}
    BY <1>4, <1>10
  <2>2. ReadOrder'
    BY <1>1, <1>2, <1>3, <1>7, <2>1 DEF ReadOrder, AllBefore
  <2>3. Undealt' = Unread'
    BY <2>1 DEF Undealt
  <2>4. Apart({e}, Undealt')
    <3>1. Unread' \subseteq Live
      BY <1>5, PathIsLive
    <3>2. Unread' \in SUBSET Live /\ {e} \in SUBSET Live
      BY <1>3, <3>1
    <3> QED BY <1>6, <2>3, <3>2, BeforeIsApart
  <2> QED BY <1>1, <1>5, <1>8, <2>2, <2>3, <2>4, FrontFlows
<1> QED BY <1>3, <1>5, <1>9, <1>10 DEF e

LEMMA DistAbandonFlows ==
  ASSUME PipeInv, OrderInv, DistAbandon
  PROVE  /\ Head(distHand) \in Live /\ Flow({}, {Head(distHand)})
         /\ Head(distHand) \in Undealt
<1> DEFINE e == Head(distHand)
<1>1. /\ distHand # << >> /\ distHand' = << >>
      /\ UNCHANGED <<readerHand, ingestQueue, batchingQueue, currentGroup, batchWriteQueue, writer>>
  BY DEF DistAbandon
<1>2. ReadOrder /\ distHand \in Seq(Live) /\ Len(distHand) <= 1
  BY DEF OrderInv, PipeInv, ReadTypes
<1>3. e \in Live /\ Range(distHand) = {e} /\ Range(distHand') = {}
  BY <1>1, <1>2, HandIsSingle, EmptyQueue
<1> HIDE DEF e
<1>4. Unread' = Unread /\ AtReaders' = AtReaders
  BY <1>1 DEF Unread, AtReaders
<1>5. Undealt' = Unread /\ Undealt = Unread \cup {e}
  BY <1>3, <1>4 DEF Undealt
<1>6. ReadOrder'
  BY <1>1, <1>2, <1>3, <1>4 DEF ReadOrder, AllBefore
<1>7. Apart({e}, Undealt')
  <2>1. AllBefore({e}, Unread)
    BY <1>2, <1>3 DEF ReadOrder
  <2>2. {e} \in SUBSET Live /\ Unread \in SUBSET Live
    BY <1>3, PathIsLive
  <2> QED BY <1>5, <2>1, <2>2, BeforeIsApart
<1>8. AllBefore(Live, {})
  BY DEF AllBefore
<1> QED BY <1>1, <1>3, <1>5, <1>6, <1>7, <1>8, FrontFlows DEF e

(* Steps of one worker, up to its write queue.                             *)
LEMMA WorkerFlows ==
  ASSUME PipeInv, OrderInv, NEW w \in Workers,
         ReadOrder', LoopOrder(w)', RouteInv(w)', writer' = writer,
         \A v \in Workers : v # w =>
           UNCHANGED <<batchingQueue[v], currentGroup[v], batchWriteQueue[v]>>,
         Undealt' \subseteq Undealt,
         \A e \in Undealt : e \in Undealt' \/ WorkerOf[Doc(e)] = w,
         NEW lost, lost \subseteq Range(batchingQueue[w]),
         Upstream(w)' \subseteq Upstream(w), Upstream(w) \subseteq Upstream(w)' \cup lost,
         Apart(lost, Upstream(w)')
  PROVE  Flow({}, lost)
<1>1. /\ LoopOrder(w) /\ WriterOrder(w) /\ RouteInv(w)
      /\ lost \in SUBSET Live /\ lost \subseteq Upstream(w)
  <2>1. Range(batchingQueue[w]) \subseteq Live
    BY PathIsLive
  <2> QED BY <2>1 DEF OrderInv, Upstream, Ungrouped, Unbatched
<1>2. Routed(w, lost)
  BY <1>1 DEF RouteInv, Routed
<1>3. Apart(lost, Range(writer[w].group)) /\ Apart(lost, Undealt')
  <2>1. AllBefore(Range(writer[w].group), lost) /\ AllBefore(lost, Undealt')
    BY <1>1 DEF WriterOrder, LoopOrder, AllBefore
  <2>2. Range(writer[w].group) \in SUBSET Live /\ Undealt' \in SUBSET Live
    BY PathIsLive
  <2> QED BY <1>1, <2>1, <2>2, BeforeIsApart
<1>4. WriterOrder(w)'
  <2>1. AllBefore(Range(writer[w].group), {})
    BY DEF AllBefore
  <2> QED BY <1>1, <2>1, WriterOrderKept
<1>5. ASSUME NEW v \in Workers, v # w
      PROVE  /\ LoopOrder(v)' /\ WriterOrder(v)' /\ RouteInv(v)'
             /\ Upstream(v)' \subseteq Upstream(v)
             /\ \A e \in Upstream(v) : WorkerOf[Doc(e)] = v => e \in Upstream(v)'
             /\ Apart(lost, Upstream(v)') /\ Apart(lost, Range(writer[v].group))
  <2>1. /\ LoopOrder(v) /\ WriterOrder(v) /\ RouteInv(v)
        /\ batchingQueue'[v] = batchingQueue[v] /\ currentGroup'[v] = currentGroup[v]
        /\ batchWriteQueue'[v] = batchWriteQueue[v]
    BY <1>5 DEF OrderInv
  <2>2. AllBefore(Upstream(v), {}) /\ AllBefore(Range(writer[v].group), {})
    BY DEF AllBefore
  <2>3. LoopOrder(v)' /\ Upstream(v)' \subseteq Upstream(v) \cup {}
    BY <2>1, <2>2, LoopOrderKept
  <2>4. WriterOrder(v)'
    BY <2>1, <2>2, <2>3, WriterOrderKept
  <2>5. RouteInv(v)'
    BY <2>1 DEF RouteInv, Routed
  <2> DEFINE down == Range(batchingQueue[v]) \cup Range(currentGroup[v])
                       \cup Members(batchWriteQueue[v])
  <2>6. Upstream(v)' = Undealt' \cup down /\ Upstream(v) = Undealt \cup down
    BY <2>1 DEF Upstream, Ungrouped, Unbatched
  <2>7. Routed(v, down) /\ Routed(v, Range(writer[v].group))
    BY <2>1 DEF RouteInv, Routed
  <2> HIDE DEF down
  <2>8. Apart(lost, down) /\ Apart(lost, Range(writer[v].group))
    BY <1>2, <1>5, <2>7 DEF Routed, Apart, Doc
  <2>9. Apart(lost, Upstream(v)')
    BY <1>3, <2>6, <2>8 DEF Apart
  <2>10. \A e \in Upstream(v) : WorkerOf[Doc(e)] = v => e \in Upstream(v)'
    BY <1>5, <2>6
  <2> QED BY <2>3, <2>4, <2>5, <2>8, <2>9, <2>10
<1>6. OrderInv'
  BY <1>4, <1>5 DEF OrderInv
<1> QED BY <1>3, <1>5, <1>6 DEF Flow

LEMMA DistPushFlows ==
  ASSUME PipeInv, OrderInv, DistPush
  PROVE  Flow({}, {})
<1>a. PICK e : e = Head(distHand)
  OBVIOUS
<1>b. PICK w : w = WorkerOf[Doc(e)]
  OBVIOUS
<1>1. /\ distHand # << >> /\ distHand' = << >>
      /\ batchingQueue' = [batchingQueue EXCEPT ![w] = batchingQueue[w] \o distHand]
      /\ UNCHANGED <<readerHand, ingestQueue, currentGroup, batchWriteQueue, writer>>
  BY <1>a, <1>b DEF DistPush
<1>2. ReadOrder /\ distHand \in Seq(Live) /\ Len(distHand) <= 1
  BY DEF OrderInv, PipeInv, ReadTypes
<1>3. e \in Live /\ distHand = <<e>> /\ Range(distHand) = {e} /\ Range(distHand') = {}
  BY <1>1, <1>2, <1>a, HandIsSingle, EmptyQueue
<1>4. w \in Workers
  BY <1>3, <1>b, LiveEvents
<1>5. Unread' = Unread /\ AtReaders' = AtReaders
  BY <1>1 DEF Unread, AtReaders
<1>6. Undealt' = Unread /\ Undealt = Unread \cup {e}
  BY <1>3, <1>5 DEF Undealt
<1>7. ReadOrder'
  BY <1>1, <1>2, <1>3, <1>5 DEF ReadOrder, AllBefore
<1>8. AllBefore({e}, Unread) /\ InOrder(distHand)
  BY <1>2, <1>3, SingletonQueue DEF ReadOrder
<1>9. LoopOrder(w) /\ RouteInv(w) /\ batchingQueue[w] \in Seq(Live)
  BY <1>4, PathIsLive DEF OrderInv
<1>10. batchingQueue'[w] = batchingQueue[w] \o distHand
  <2>1. batchingQueue \in [Workers -> {q \in Seq(Live) : Len(q) <= BatchCap}]
    BY DEF PipeInv, LoopTypes
  <2> QED BY <1>1, <1>4, <2>1
<1>11. \A v \in Workers : v # w => batchingQueue'[v] = batchingQueue[v]
  <2>1. batchingQueue \in [Workers -> {q \in Seq(Live) : Len(q) <= BatchCap}]
    BY DEF PipeInv, LoopTypes
  <2> QED BY <1>1, <2>1
<1>12. WorkerOf[Doc(e)] = w
  BY <1>b
<1>13. Range(batchingQueue'[w]) = Range(batchingQueue[w]) \cup {e} /\ InOrder(batchingQueue'[w])
  <2>1. AllBefore(Range(batchingQueue[w]), Range(distHand)) /\ InOrder(batchingQueue[w])
    BY <1>3, <1>6, <1>9 DEF LoopOrder, AllBefore
  <2>2. /\ Range(batchingQueue[w] \o distHand) = Range(batchingQueue[w]) \cup Range(distHand)
        /\ InOrder(batchingQueue[w] \o distHand)
    BY <1>2, <1>8, <1>9, <2>1, JoinOfOrdered
  <2> QED BY <1>3, <1>10, <2>2
<1>14. /\ Unbatched(w)' = Unbatched(w) /\ Ungrouped(w)' = Ungrouped(w)
       /\ Upstream(w)' = Upstream(w)
  BY <1>1, <1>6, <1>13 DEF Unbatched, Ungrouped, Upstream
<1>15. LoopOrder(w)'
  <2>1. AllBefore(Range(batchingQueue'[w]), Undealt')
    BY <1>6, <1>8, <1>9, <1>13 DEF LoopOrder, AllBefore
  <2> QED BY <1>1, <1>9, <1>13, <1>14, <2>1 DEF LoopOrder
<1>16. RouteInv(w)'
  BY <1>1, <1>9, <1>12, <1>13 DEF RouteInv, Routed
<1>17. Apart({}, Upstream(w)')
  BY DEF Apart
<1> QED BY <1>1, <1>4, <1>6, <1>7, <1>11, <1>12, <1>14, <1>15, <1>16, <1>17, WorkerFlows

(* The distributor's side is as it was.                                    *)
LEMMA FrontIsKept ==
  ASSUME OrderInv, UNCHANGED <<readerHand, ingestQueue, distHand>>
  PROVE  ReadOrder' /\ Undealt' = Undealt
BY DEF OrderInv, ReadOrder, Undealt, Unread, AtReaders

LEMMA ProcessEventFlows ==
  ASSUME PipeInv, OrderInv, NEW w \in Workers, ProcessEvent(w)
  PROVE  /\ Head(batchingQueue[w]) \in Live /\ Head(batchingQueue[w]) \in Upstream(w)
         /\ \/ Flow({}, {}) /\ UNCHANGED trackerVars
            \/ /\ Flow({}, {Head(batchingQueue[w])}) /\ AckEvent(Head(batchingQueue[w]))
               /\ Op(Head(batchingQueue[w])) = "updateWithoutDocument"
<1>0. PICK e : e = Head(batchingQueue[w])
  OBVIOUS
<1>1. /\ batchingQueue' = [batchingQueue EXCEPT ![w] = Tail(batchingQueue[w])]
      /\ batchingQueue[w] # << >>
      /\ UNCHANGED <<readerHand, ingestQueue, distHand, writer>>
  BY DEF ProcessEvent
<1>2. /\ LoopOrder(w) /\ RouteInv(w) /\ batchingQueue[w] \in Seq(Live)
      /\ currentGroup[w] \in Groups \cup {<< >>} /\ batchWriteQueue[w] \in Seq(Seq(Live))
  BY PathIsLive DEF OrderInv, PipeInv, LoopTypes
<1>3. /\ \A v \in Workers : v # w => batchingQueue'[v] = batchingQueue[v]
      /\ batchingQueue'[w] = Tail(batchingQueue[w])
  <2>1. batchingQueue \in [Workers -> {q \in Seq(Live) : Len(q) <= BatchCap}]
    BY DEF PipeInv, LoopTypes
  <2> QED BY <1>1, <2>1
<1>4. /\ e \in Live /\ Range(batchingQueue[w]) = {e} \cup Range(batchingQueue'[w])
      /\ InOrder(batchingQueue'[w]) /\ AllBefore({e}, Range(batchingQueue'[w]))
  BY <1>0, <1>1, <1>2, <1>3, HeadOfOrdered DEF LoopOrder
<1>5. ReadOrder' /\ Undealt' = Undealt
  BY <1>1, FrontIsKept
<1>6. AllBefore(Range(batchingQueue'[w]), Undealt) /\ AllBefore({e}, Undealt)
  BY <1>2, <1>4 DEF LoopOrder, AllBefore
<1>7. /\ Unbatched(w) = Unbatched(w)' \cup {e} /\ AllBefore({e}, Unbatched(w)')
      /\ e \in Unbatched(w) /\ e \in Ungrouped(w) /\ e \in Upstream(w)
  BY <1>4, <1>5, <1>6 DEF Unbatched, Ungrouped, Upstream, AllBefore
<1>8. CASE /\ Op(e) = "updateWithoutDocument" /\ AckEvent(e)
           /\ UNCHANGED <<currentGroup, batchWriteQueue>>
  <2>1. Ungrouped(w) = Ungrouped(w)' \cup {e} /\ Upstream(w) = Upstream(w)' \cup {e}
    BY <1>7, <1>8 DEF Ungrouped, Upstream
  <2>2. LoopOrder(w)'
    <3>1. /\ AllBefore(Range(currentGroup[w]), Unbatched(w)')
          /\ AllBefore(Members(batchWriteQueue[w]), Ungrouped(w)')
      BY <1>2, <1>7, <2>1 DEF LoopOrder, AllBefore
    <3> QED BY <1>2, <1>4, <1>5, <1>6, <1>8, <3>1 DEF LoopOrder
  <2>3. RouteInv(w)'
    BY <1>1, <1>2, <1>4, <1>8 DEF RouteInv, Routed
  <2>4. Apart({e}, Upstream(w)')
    <3>1. AllBefore(Range(currentGroup[w]), {e}) /\ AllBefore(Members(batchWriteQueue[w]), {e})
      BY <1>2, <1>7 DEF LoopOrder, AllBefore
    <3>2. /\ {e} \in SUBSET Live /\ Unbatched(w)' \in SUBSET Live
          /\ Range(currentGroup[w]) \in SUBSET Live /\ Members(batchWriteQueue[w]) \in SUBSET Live
      BY <1>4, <1>7, PathIsLive DEF Upstream, Ungrouped
    <3>3. /\ Apart({e}, Range(currentGroup[w])) /\ Apart({e}, Members(batchWriteQueue[w]))
          /\ Apart({e}, Unbatched(w)')
      BY <1>7, <3>1, <3>2, BeforeIsApart
    <3> QED BY <1>8, <3>3 DEF Upstream, Ungrouped, Apart
  <2>5. Flow({}, {e})
    BY <1>1, <1>3, <1>4, <1>5, <1>8, <2>1, <2>2, <2>3, <2>4, WorkerFlows
  <2> QED BY <1>0, <1>4, <1>7, <1>8, <2>5
<1>9. CASE /\ UNCHANGED trackerVars
           /\ batchWriteQueue' = [batchWriteQueue EXCEPT ![w] =
                batchWriteQueue[w] \o Pushed(currentGroup[w], e)]
           /\ currentGroup' = [currentGroup EXCEPT ![w] = Kept(currentGroup[w], e)]
  <2>1. PICK push, keep : push = Pushed(currentGroup[w], e) /\ keep = Kept(currentGroup[w], e)
    OBVIOUS
  <2>2. AllBefore(Range(currentGroup[w]), {e}) /\ InOrder(currentGroup[w])
    BY <1>2, <1>7 DEF LoopOrder, AllBefore
  <2>3. /\ Members(push) \cup Range(keep) = Range(currentGroup[w]) \cup {e}
        /\ GroupsInOrder(push) /\ InOrder(keep) /\ AllBefore(Members(push), Range(keep))
    BY <1>2, <1>4, <2>1, <2>2, GroupsAreSplit
  <2>4. push \in Seq(Seq(Live))
    <3>1. push \in Seq(Groups)
      BY <1>2, <1>4, <2>1, GroupsStaySmall
    <3>2. Groups \subseteq Seq(Live)
      BY DEF Groups
    <3> QED BY <3>1, <3>2, SeqMonotonic
  <2>5. /\ currentGroup'[w] = keep /\ batchWriteQueue'[w] = batchWriteQueue[w] \o push
        /\ \A v \in Workers : v # w =>
             currentGroup'[v] = currentGroup[v] /\ batchWriteQueue'[v] = batchWriteQueue[v]
    <3>1. /\ currentGroup \in [Workers -> Groups \cup {<< >>}]
          /\ batchWriteQueue \in [Workers -> {q \in Seq(Groups) : Len(q) <= WriteCap}]
      BY DEF PipeInv, LoopTypes
    <3> QED BY <1>9, <2>1, <3>1
  <2>6. AllBefore(Members(batchWriteQueue[w]), Members(push) \cup Range(keep))
    <3>1. Range(currentGroup[w]) \subseteq Ungrouped(w)
      BY DEF Ungrouped
    <3> QED BY <1>2, <1>7, <2>3, <3>1 DEF LoopOrder, AllBefore
  <2>7. /\ Members(batchWriteQueue'[w]) = Members(batchWriteQueue[w]) \cup Members(push)
        /\ GroupsInOrder(batchWriteQueue'[w])
    <3>1. AllBefore(Members(batchWriteQueue[w]), Members(push)) /\ GroupsInOrder(batchWriteQueue[w])
      BY <1>2, <2>6 DEF LoopOrder, AllBefore
    <3>2. /\ Members(batchWriteQueue[w] \o push) = Members(batchWriteQueue[w]) \cup Members(push)
          /\ GroupsInOrder(batchWriteQueue[w] \o push)
      BY <1>2, <2>3, <2>4, <3>1, JoinOfGroups
    <3> QED BY <2>5, <3>2
  <2>8. AllBefore(Range(currentGroup[w]) \cup {e}, Unbatched(w)')
    BY <1>2, <1>7 DEF LoopOrder, AllBefore
  <2>9. Ungrouped(w)' = Unbatched(w)' \cup Range(keep) /\ Ungrouped(w)' \subseteq Ungrouped(w)
    BY <1>7, <2>3, <2>5 DEF Ungrouped
  <2>10. Upstream(w)' = Upstream(w)
    BY <1>7, <2>3, <2>5, <2>7 DEF Upstream, Ungrouped
  <2>11. LoopOrder(w)'
    <3>1. AllBefore(Range(keep), Unbatched(w)')
      BY <2>3, <2>8 DEF AllBefore
    <3>2. AllBefore(Members(batchWriteQueue'[w]), Ungrouped(w)')
      <4>1. AllBefore(Members(batchWriteQueue[w]), Ungrouped(w)')
        BY <1>2, <2>9 DEF LoopOrder, AllBefore
      <4>2. AllBefore(Members(push), Ungrouped(w)')
        BY <2>3, <2>8, <2>9 DEF AllBefore
      <4> QED BY <2>7, <4>1, <4>2 DEF AllBefore
    <3> QED BY <1>4, <1>5, <1>6, <2>3, <2>5, <2>7, <3>1, <3>2 DEF LoopOrder
  <2>12. RouteInv(w)'
    BY <1>1, <1>2, <1>4, <2>3, <2>5, <2>7 DEF RouteInv, Routed
  <2>13. Apart({}, Upstream(w)')
    BY DEF Apart
  <2>14. Flow({}, {})
    BY <1>1, <1>3, <1>5, <2>5, <2>10, <2>11, <2>12, <2>13, WorkerFlows
  <2> QED BY <1>0, <1>4, <1>7, <1>9, <2>14
<1> QED BY <1>0, <1>8, <1>9 DEF ProcessEvent

LEMMA FlushFlows ==
  ASSUME PipeInv, OrderInv, NEW w \in Workers, FlushCurrentGroup(w),
         UNCHANGED <<readerHand, ingestQueue, distHand, batchingQueue, writer>>
  PROVE  Flow({}, {})
<1>1. /\ LoopOrder(w) /\ RouteInv(w) /\ currentGroup[w] \in Seq(Live)
      /\ batchWriteQueue[w] \in Seq(Seq(Live))
  BY PathIsLive DEF OrderInv
<1>2. ReadOrder' /\ Undealt' = Undealt
  BY FrontIsKept
<1>3. /\ currentGroup' = [currentGroup EXCEPT ![w] = << >>]
      /\ batchWriteQueue' = [batchWriteQueue EXCEPT ![w] =
           IF currentGroup[w] = << >> THEN batchWriteQueue[w]
           ELSE Append(batchWriteQueue[w], currentGroup[w])]
  BY DEF FlushCurrentGroup
<1>4. /\ currentGroup'[w] = << >>
      /\ batchWriteQueue'[w] = IF currentGroup[w] = << >> THEN batchWriteQueue[w]
                               ELSE Append(batchWriteQueue[w], currentGroup[w])
      /\ \A v \in Workers : v # w =>
           currentGroup'[v] = currentGroup[v] /\ batchWriteQueue'[v] = batchWriteQueue[v]
  <2>1. /\ currentGroup \in [Workers -> Groups \cup {<< >>}]
        /\ batchWriteQueue \in [Workers -> {q \in Seq(Groups) : Len(q) <= WriteCap}]
    BY DEF PipeInv, LoopTypes
  <2> QED BY <1>3, <2>1
<1>5. Unbatched(w)' = Unbatched(w)
  BY <1>2 DEF Unbatched
<1>6. AllBefore(Members(batchWriteQueue[w]), Range(currentGroup[w]))
  BY <1>1 DEF LoopOrder, Ungrouped, AllBefore
<1>7. /\ Members(batchWriteQueue'[w]) = Members(batchWriteQueue[w]) \cup Range(currentGroup[w])
      /\ GroupsInOrder(batchWriteQueue'[w]) /\ Range(currentGroup'[w]) = {}
      /\ InOrder(currentGroup'[w])
  <2>1. CASE currentGroup[w] = << >>
    BY <1>1, <1>4, <2>1, EmptyQueue DEF LoopOrder
  <2>2. CASE currentGroup[w] # << >>
    <3>1. PICK one : one = <<currentGroup[w]>>
      OBVIOUS
    <3>2. /\ one \in Seq(Seq(Live)) /\ Members(one) = Range(currentGroup[w])
          /\ GroupsInOrder(one)
      BY <1>1, <3>1, SingletonGroups DEF LoopOrder
    <3>3. batchWriteQueue'[w] = batchWriteQueue[w] \o one
      BY <1>1, <1>4, <2>2, <3>1, AppendIsConcat
    <3>4. AllBefore(Members(batchWriteQueue[w]), Members(one)) /\ GroupsInOrder(batchWriteQueue[w])
      BY <1>1, <1>6, <3>2 DEF LoopOrder
    <3>5. /\ Members(batchWriteQueue[w] \o one) = Members(batchWriteQueue[w]) \cup Members(one)
          /\ GroupsInOrder(batchWriteQueue[w] \o one)
      BY <1>1, <3>2, <3>4, JoinOfGroups
    <3> QED BY <1>4, <3>2, <3>3, <3>5, EmptyQueue
  <2> QED BY <2>1, <2>2
<1>8. /\ Ungrouped(w)' = Unbatched(w) /\ Ungrouped(w)' \subseteq Ungrouped(w)
      /\ Upstream(w)' = Upstream(w)
  BY <1>5, <1>7 DEF Ungrouped, Upstream
<1>9. LoopOrder(w)'
  <2>1. AllBefore(Range(currentGroup'[w]), Unbatched(w)')
    BY <1>7 DEF AllBefore
  <2>2. AllBefore(Members(batchWriteQueue'[w]), Ungrouped(w)')
    BY <1>1, <1>7, <1>8 DEF LoopOrder, AllBefore
  <2> QED BY <1>1, <1>2, <1>7, <2>1, <2>2 DEF LoopOrder
<1>10. RouteInv(w)'
  BY <1>1, <1>7 DEF RouteInv, Routed
<1>11. Apart({}, Upstream(w)')
  BY DEF Apart
<1> QED BY <1>2, <1>4, <1>8, <1>9, <1>10, <1>11, WorkerFlows

-----------------------------------------------------------------------------

(* A save leaves in the ledger what is not acknowledged.                   *)
LEMMA SaveKeepsWaiting ==
  ASSUME PipeInv, NEW events, NEW failed, SaveCheckpoints(events, failed),
         NEW s \in Streams, NEW q \in DOMAIN events[s], ~events[s][q].acked
  PROVE  q \in DOMAIN unackedEvents'[s] /\ ~unackedEvents'[s][q].acked
<1> DEFINE cut == PrunedCount(pendingSeqs[s], events[s])
           pruned == {pendingSeqs[s][i] : i \in 1..cut}
<1>1. pendingSeqs[s] \in Seq(Nat)
  BY DEF PipeInv, TrackerInv, TrackerTypeOK
<1>2. cut \in 0..Len(pendingSeqs[s]) /\ LeadingRun(pendingSeqs[s], events[s]) = 1..cut
  BY <1>1, LenProperties, LeadingRunIsInterval
<1>3. Len(pendingSeqs[s]) \in Nat
  BY <1>1, LenProperties
<1>4. unackedEvents'[s] = Restrict(events[s], DOMAIN events[s] \ pruned)
  BY DEF SaveCheckpoints
<1> HIDE DEF cut
<1>5. \A i \in 1..cut : events[s][pendingSeqs[s][i]].acked
  <2>1. ASSUME NEW i \in 1..cut PROVE events[s][pendingSeqs[s][i]].acked
    <3>1. i \in LeadingRun(pendingSeqs[s], events[s]) /\ i \in 1..i
      BY <1>2
    <3> QED BY <3>1 DEF LeadingRun
  <2> QED BY <2>1
<1>6. q \notin pruned
  BY <1>5
<1> HIDE DEF pruned
<1> QED BY <1>4, <1>6 DEF Restrict

(* Acknowledging one event leaves the others waiting.                      *)
LEMMA AckKeepsWaiting ==
  ASSUME PipeInv, NEW e \in Live, AckEvent(e), NEW f \in Live, Waits(f),
         e.stream = f.stream => e.pos # f.pos
  PROVE  Waits(f)'
<1>1. /\ e.stream \in Streams /\ f.stream \in Streams /\ e.seq \in Nat /\ f.seq \in Nat
      /\ e.pos = (cursor[e.stream] - Issued(e.stream)) + e.seq
      /\ f.pos = (cursor[f.stream] - Issued(f.stream)) + f.seq
  BY DEF Live, Event
<1>2. e.stream = f.stream => e.seq # f.seq
  BY <1>1
<1> DEFINE marked == MarkAcked(e.stream, e.seq)
<1>3. DOMAIN unackedEvents = Streams
  BY DEF PipeInv, TrackerInv, TrackerTypeOK
<1>4. f.seq \in DOMAIN marked[f.stream] /\ ~marked[f.stream][f.seq].acked
  <2>1. CASE e.seq \in DOMAIN unackedEvents[e.stream]
    <3>1. marked = [unackedEvents EXCEPT ![e.stream] =
                      [unackedEvents[e.stream] EXCEPT ![e.seq] =
                         [unackedEvents[e.stream][e.seq] EXCEPT !.acked = TRUE]]]
      BY <2>1 DEF MarkAcked
    <3>2. CASE e.stream = f.stream
      BY <1>1, <1>2, <1>3, <3>1, <3>2 DEF Waits
    <3>3. CASE e.stream # f.stream
      BY <1>1, <1>3, <3>1, <3>3 DEF Waits
    <3> QED BY <3>2, <3>3
  <2>2. CASE e.seq \notin DOMAIN unackedEvents[e.stream]
    BY <2>2 DEF MarkAcked, Waits
  <2> QED BY <2>1, <2>2
<1>5. SaveCheckpoints(marked, {}) \/ unackedEvents' = marked
  BY DEF AckEvent, Ack
<1> HIDE DEF marked
<1>6. f.seq \in DOMAIN unackedEvents'[f.stream] /\ ~unackedEvents'[f.stream][f.seq].acked
  <2>1. CASE SaveCheckpoints(marked, {})
    BY <1>1, <1>4, <2>1, SaveKeepsWaiting
  <2>2. CASE unackedEvents' = marked
    BY <1>4, <2>2
  <2> QED BY <1>5, <2>1, <2>2
<1> QED BY <1>6 DEF Waits

(* An event that waits is beyond the token file, and in flight.            *)
LEMMA WaitingIsAhead ==
  ASSUME PipeInv, NEW e \in Live, Waits(e)
  PROVE  e.pos > tokenFile[e.stream] /\ e.pos \in InFlight(e.stream)
<1> DEFINE s == e.stream
           n == Len(pendingSeqs[s])
<1>1. /\ s \in Streams /\ e.seq \in Nat /\ e.pos = (cursor[s] - Issued(s)) + e.seq
  BY DEF Live, Event
<1>2. Ledger(Issued(s), pendingSeqs[s], unackedEvents[s], lastCheckpointSeq[s],
             cursor[s], tokenFile[s], settled[s])
  BY <1>1 DEF PipeInv, TrackerInv, StreamInv
<1>3. /\ Issued(s) \in Nat /\ cursor[s] \in Nat /\ n \in Nat
      /\ DOMAIN unackedEvents[s] = (Issued(s) - n + 1)..Issued(s)
      /\ \A q \in DOMAIN unackedEvents[s] :
           unackedEvents[s][q].token = (cursor[s] - Issued(s)) + q
      /\ tokenFile[s] \in Nat /\ tokenFile[s] <= cursor[s] - n
  BY <1>2, LenProperties DEF Ledger, PendingShape, GoodEvents, GoodEvent, PrunedIsDone
<1>4. e.seq \in DOMAIN unackedEvents[s] /\ ~unackedEvents[s][e.seq].acked
  BY DEF Waits
<1> HIDE DEF s, n
<1>5. e.pos > tokenFile[s]
  BY <1>1, <1>3, <1>4
<1>6. unackedEvents[s][e.seq].token = e.pos
  BY <1>1, <1>3, <1>4
<1>7. e.pos \in InFlight(s)
  BY <1>4, <1>6 DEF InFlight
<1> QED BY <1>5, <1>7 DEF s

-----------------------------------------------------------------------------

(* Each document has one stream.                                           *)
LEMMA OneStreamPerDoc ==
  ASSUME PipeInv, NEW s \in Streams, NEW d, NEW i \in Writes(s, d, cursor[s]),
         NEW e \in Live, Doc(e) = d
  PROVE  e.stream = s
<1>1. i \in 1..cursor[s] /\ Log[s][i].doc = d
  BY DEF Writes
<1>2. /\ cursor[s] \in Nat /\ cursor[s] <= StreamLength[s] /\ StreamLength[s] \in Nat
  BY StreamLengthAssumption DEF PipeInv, TrackerInv, TrackerTypeOK
<1>3. /\ Log[s] \in Seq([op : OpTypes, doc : Docs]) /\ Len(Log[s]) = StreamLength[s]
  BY LogAssumption
<1>4. DOMAIN Log[s] = 1..StreamLength[s]
  BY <1>3, LenProperties
<1>5. i \in DOMAIN Log[s]
  BY <1>1, <1>2, <1>4
<1>6. e.stream \in Streams /\ e.pos \in DOMAIN Log[e.stream] /\ Doc(e) = Log[e.stream][e.pos].doc
  BY LiveEvents
<1> QED BY <1>1, <1>5, <1>6, LogAssumption

(* A step that leaves a document, and what its worker's writer holds of    *)
(* it, alone.                                                              *)
LEMMA DocIsKept ==
  ASSUME NEW s, NEW d, Accounted(s, d), Passed(s, d), cursor'[s] = cursor[s],
         Coming(d)' \subseteq Coming(d),
         \A i \in Writes(s, d, cursor[s]) : i \in Coming(d) => i \in Coming(d)' \cup unwritten'[s],
         InWriter(d)' = InWriter(d), Open(d)' = Open(d),
         target'[d] = target[d], dlq'[d] = dlq[d], unwritten[s] \subseteq unwritten'[s]
  PROVE  Accounted(s, d)' /\ Passed(s, d)'
<1>1. Writes(s, d, cursor[s])' = Writes(s, d, cursor[s])
  BY DEF Writes
<1>2. ASSUME NEW i \in Writes(s, d, cursor[s])
      PROVE  i \in Coming(d)' \cup Open(d)' \/ Safe(s, d, i)'
  BY <1>2 DEF Accounted, Safe
<1>3. ASSUME NEW i \in Writes(s, d, cursor[s])
      PROVE  \/ i \in Coming(d)' \cup InWriter(d)' \cup unwritten'[s]
             \/ \A j \in Coming(d)' \cup InWriter(d)' : i < j
  BY <1>3 DEF Passed
<1>4. Accounted(s, d)'
  BY <1>1, <1>2 DEF Accounted
<1>5. Passed(s, d)'
  BY <1>1, <1>3 DEF Passed
<1> QED BY <1>4, <1>5

LEMMA WriterViewKept ==
  ASSUME NEW d, writer'[WorkerOf[d]] = writer[WorkerOf[d]]
  PROVE  InWriter(d)' = InWriter(d) /\ Open(d)' = Open(d)
BY DEF InWriter, Open, PositionsOf, Undecided, Models

(* Steps in front of the writers keep track of every document, provided    *)
(* that the writes they drop are recorded.                                 *)
LEMMA FlowKeepsDocs ==
  ASSUME LossInv, NEW lost \in SUBSET Live, Flow({}, lost),
         UNCHANGED <<cursor, writer, target, dlq>>,
         \A s \in Streams : unwritten[s] \subseteq unwritten'[s],
         \A e \in lost : Op(e) \notin Applied \/ e.pos \in unwritten'[e.stream]
  PROVE  DocsInv'
<1>0. PipeInv /\ DocsInv
  BY DEF LossInv
<1>1. ASSUME NEW s \in Streams, NEW d \in Docs PROVE Accounted(s, d)' /\ Passed(s, d)'
  <2>1. Accounted(s, d) /\ Passed(s, d)
    BY <1>0 DEF DocsInv
  <2> DEFINE w == WorkerOf[d]
  <2>2. w \in Workers
    BY WorkerAssumption
  <2>3. /\ Upstream(w)' \subseteq Upstream(w)
        /\ \A e \in Upstream(w) : WorkerOf[Doc(e)] = w => e \in Upstream(w)' \cup lost
    BY <2>2 DEF Flow
  <2>4. Coming(d)' \subseteq Coming(d)
    BY <2>3 DEF Coming, Doc
  <2>5. ASSUME NEW i \in Writes(s, d, cursor[s]), i \in Coming(d)
        PROVE  i \in Coming(d)' \cup unwritten'[s]
    <3>1. PICK e \in Upstream(w) : Doc(e) = d /\ e.pos = i
      BY <2>5 DEF Coming
    <3>2. CASE e \in Upstream(w)'
      BY <3>1, <3>2 DEF Coming, Doc
    <3>3. CASE e \in lost
      <4>1. e.stream = s
        BY <1>0, <2>5, <3>1, <3>3, OneStreamPerDoc
      <4>2. Op(e) \in Applied
        BY <2>5, <3>1, <4>1 DEF Op, Writes
      <4> QED BY <3>1, <3>3, <4>1, <4>2
    <3> QED BY <2>3, <3>1, <3>2, <3>3
  <2>6. InWriter(d)' = InWriter(d) /\ Open(d)' = Open(d)
    BY WriterViewKept
  <2> QED BY <2>1, <2>4, <2>5, <2>6, DocIsKept
<1>2. ASSUME NEW w \in Workers PROVE Rejected(w)'
  BY <1>0 DEF DocsInv, Rejected
<1> QED BY <1>1, <1>2 DEF DocsInv

(* And what is still on its way after them waits in the ledger.            *)
LEMMA FlowKeepsWaiting ==
  ASSUME PipeInv, UnackedInv, NEW lost, Flow({}, lost), UNCHANGED writer,
         UNCHANGED trackerVars \/ \E e \in Live : lost = {e} /\ AckEvent(e)
  PROVE  UnackedInv'
<1>1. ASSUME NEW f \in Live, Waits(f), Apart(lost, {f}) PROVE Waits(f)'
  <2>1. CASE UNCHANGED trackerVars
    BY <1>1, <2>1 DEF Waits, trackerVars, trackerMemory
  <2>2. CASE \E e \in Live : lost = {e} /\ AckEvent(e)
    <3>1. PICK e \in Live : lost = {e} /\ AckEvent(e)
      BY <2>2
    <3>2. e.stream = f.stream => e.pos # f.pos
      BY <1>1, <3>1 DEF Apart
    <3> QED BY <1>1, <3>1, <3>2, AckKeepsWaiting
  <2> QED BY <2>1, <2>2
<1>2. ASSUME NEW w \in Workers
      PROVE  /\ \A f \in Upstream(w)' : Waits(f)'
             /\ (\A i \in Unacked(w) : Waits(writer[w].group[i]))'
  <2>1. /\ Upstream(w)' \subseteq Upstream(w) /\ Apart(lost, Upstream(w)')
        /\ Apart(lost, Range(writer[w].group))
    BY DEF Flow
  <2>2. /\ Upstream(w) \subseteq Live /\ writer[w].group \in Seq(Live)
        /\ Range(writer[w].group) \subseteq Live
    BY PathIsLive
  <2>3. /\ \A f \in Upstream(w) : Waits(f)
        /\ \A i \in Unacked(w) : Waits(writer[w].group[i])
    BY DEF UnackedInv
  <2>4. ASSUME NEW f \in Upstream(w)' PROVE Waits(f)'
    <3>1. PICK g : g = f
      OBVIOUS
    <3>2. g \in Live /\ Waits(g) /\ Apart(lost, {g})
      BY <2>1, <2>2, <2>3, <3>1 DEF Apart
    <3> QED BY <1>1, <3>1, <3>2
  <2>5. ASSUME NEW i \in Unacked(w)' PROVE Waits(writer[w].group[i])'
    <3>1. PICK g : g = writer[w].group[i]
      OBVIOUS
    <3>2. i \in Unacked(w) /\ i \in DOMAIN writer[w].group
      <4>1. i \in Unacked(w)
        BY DEF Unacked
      <4>2. writer[w].todo \subseteq 1..Len(writer[w].group)
        BY DEF PipeInv, WriterTypes, WriterStates
      <4>3. DOMAIN writer[w].group = 1..Len(writer[w].group)
        BY <2>2, LenProperties
      <4> QED BY <4>1, <4>2, <4>3 DEF Unacked
    <3>3. g \in Range(writer[w].group)
      BY <3>1, <3>2 DEF Range
    <3>4. g \in Live /\ Waits(g) /\ Apart(lost, {g})
      BY <2>1, <2>2, <2>3, <3>1, <3>2, <3>3 DEF Apart
    <3>5. Waits(g)'
      BY <1>1, <3>4
    <3>6. g = writer'[w].group[i]
      BY <3>1
    <3> QED BY <3>5, <3>6 DEF Waits
  <2> QED BY <2>4, <2>5
<1> QED BY <1>2 DEF UnackedInv

LossKept == OrderInv' /\ UnackedInv' /\ DocsInv'

LEMMA FlowKeepsLoss ==
  ASSUME LossInv, NEW lost \in SUBSET Live, Flow({}, lost),
         UNCHANGED <<writer, target, dlq>>,
         UNCHANGED trackerVars \/ \E e \in Live : lost = {e} /\ AckEvent(e),
         \A s \in Streams : unwritten[s] \subseteq unwritten'[s],
         \A e \in lost : Op(e) \notin Applied \/ e.pos \in unwritten'[e.stream]
  PROVE  LossKept
<1>1. UNCHANGED cursor
  BY DEF AckEvent, Ack, trackerVars
<1>2. DocsInv'
  BY <1>1, FlowKeepsDocs
<1>3. UnackedInv'
  BY FlowKeepsWaiting DEF LossInv
<1> QED BY <1>2, <1>3 DEF LossKept, Flow

(* An event given up on cancellation is recorded.                          *)
LEMMA AbandonKeepsLoss ==
  ASSUME LossInv, NEW e \in Live, Flow({}, {e}), Abandon(e), UNCHANGED <<writer, target, dlq>>
  PROVE  LossKept
<1>1. e.stream \in Streams
  BY DEF Live, Event
<1>2. unwritten \in [Streams -> SUBSET Nat]
  BY DEF LossInv, PipeInv, DataTypes
<1>3. /\ AckEvent(e)
      /\ unwritten' = [unwritten EXCEPT ![e.stream] = unwritten[e.stream] \cup {e.pos}]
  BY DEF Abandon
<1>4. /\ \A s \in Streams : unwritten[s] \subseteq unwritten'[s]
      /\ e.pos \in unwritten'[e.stream]
  BY <1>1, <1>2, <1>3
<1>5. PICK lost \in SUBSET Live : lost = {e}
  OBVIOUS
<1> QED BY <1>3, <1>4, <1>5, FlowKeepsLoss

LEMMA QuietKeepsLoss ==
  ASSUME LossInv, Flow({}, {}), UNCHANGED <<writer, dataVars, trackerVars>>
  PROVE  LossKept
<1>1. \A e \in {} : Op(e) \notin Applied \/ e.pos \in unwritten'[e.stream]
  OBVIOUS
<1>2. {} \in SUBSET Live /\ UNCHANGED trackerVars /\ UNCHANGED <<writer, target, dlq>>
      /\ \A s \in Streams : unwritten[s] \subseteq unwritten'[s]
  BY DEF dataVars
<1> QED BY <1>1, <1>2, FlowKeepsLoss

(* A reader registers and takes the next event: it waits, and it is newer  *)
(* than everything on its way.                                             *)
LEMMA ReaderNextKeepsLoss ==
  ASSUME LossInv, NEW r \in Streams, ReaderNext(r)
  PROVE  LossKept
<1>0. PipeInv /\ OrderInv /\ UnackedInv /\ DocsInv
  BY DEF LossInv
<1>1. PICK e : e = NextEvent(r)
  OBVIOUS
<1>2. /\ Flow({e}, {}) /\ AllBefore(Live, {e})
      /\ \A w \in Workers : e \in Upstream(w)'
  BY <1>0, <1>1, ReaderNextFlows
<1>3. /\ Register(r) /\ UNCHANGED <<writer, target, dlq, unwritten>>
  BY DEF ReaderNext, dataVars
<1>4. e.stream = r /\ e.pos = cursor[r] + 1 /\ e.seq = NextSeq(r)
  BY <1>1 DEF NextEvent
<1>5. /\ nextSeqNum \in [Streams -> Nat] /\ cursor \in [Streams -> Nat]
      /\ DOMAIN unackedEvents = Streams
  BY <1>0 DEF PipeInv, TrackerInv, TrackerTypeOK
<1>6. \A s \in Streams : cursor'[s] = IF s = r THEN cursor[r] + 1 ELSE cursor[s]
  BY <1>3, <1>5 DEF Register
<1>7. Waits(e)' /\ \A f \in Live : Waits(f) => Waits(f)'
  <2> DEFINE marked == [q \in DOMAIN unackedEvents[r] \cup {NextSeq(r)} |->
             IF q = NextSeq(r) THEN [token |-> cursor[r] + 1, acked |-> FALSE]
                               ELSE unackedEvents[r][q]]
  <2>1. unackedEvents' = [unackedEvents EXCEPT ![r] = marked]
    BY <1>3 DEF Register
  <2>2. unackedEvents'[r] = marked /\ \A s \in Streams : s # r => unackedEvents'[s] = unackedEvents[s]
    BY <1>5, <2>1
  <2>3. NextSeq(r) \in DOMAIN marked /\ ~marked[NextSeq(r)].acked
    OBVIOUS
  <2>4. \A q \in DOMAIN unackedEvents[r] : q # NextSeq(r) =>
          q \in DOMAIN marked /\ marked[q] = unackedEvents[r][q]
    OBVIOUS
  <2> HIDE DEF marked
  <2>5. \A f \in Live : f.stream \in Streams /\ (f.stream = r => f.seq # NextSeq(r))
    <3> SUFFICES ASSUME NEW f \in Live
                 PROVE  f.stream \in Streams /\ (f.stream = r => f.seq # NextSeq(r))
      OBVIOUS
    <3>1. f.stream \in Streams /\ f.seq \in Nat /\ f.seq <= Issued(f.stream)
      BY DEF Live, Event
    <3>2. NextSeq(r) \in Nat /\ Issued(r) = NextSeq(r) - 1
      BY <1>5 DEF NextSeq, Issued
    <3> QED BY <3>1, <3>2
  <2>6. Waits(e)'
    BY <1>4, <2>2, <2>3 DEF Waits
  <2>7. \A f \in Live : Waits(f) => Waits(f)'
    BY <2>2, <2>4, <2>5 DEF Waits
  <2> QED BY <2>6, <2>7
<1>8. UnackedInv'
  <2>1. ASSUME NEW w \in Workers
        PROVE  /\ \A f \in Upstream(w)' : Waits(f)'
               /\ \A i \in Unacked(w) : Waits(writer[w].group[i])'
    <3>1. /\ Upstream(w)' \subseteq Upstream(w) \cup {e} /\ Upstream(w) \subseteq Live
          /\ writer[w].group \in Seq(Live) /\ writer[w].todo \subseteq 1..Len(writer[w].group)
      BY <1>0, <1>2, PathIsLive DEF Flow, PipeInv, WriterTypes, WriterStates
    <3>2. ASSUME NEW f \in Upstream(w)' PROVE Waits(f)'
      <4>1. PICK g : g = f
        OBVIOUS
      <4>2. g = e \/ (g \in Live /\ Waits(g))
        BY <1>0, <3>1, <4>1 DEF UnackedInv
      <4> QED BY <1>7, <4>1, <4>2
    <3>3. ASSUME NEW i \in Unacked(w) PROVE Waits(writer[w].group[i])'
      <4>1. PICK g : g = writer[w].group[i]
        OBVIOUS
      <4>2. i \in 1..Len(writer[w].group)
        BY <3>1, LenProperties DEF Unacked
      <4>3. g \in Live /\ Waits(g)
        BY <1>0, <3>1, <4>1, <4>2, ElementOfSeq DEF UnackedInv
      <4>4. Waits(g)'
        BY <1>7, <4>3
      <4> QED BY <1>3, <4>1, <4>4 DEF Waits
    <3> QED BY <3>2, <3>3
  <2>2. \A w \in Workers : Unacked(w)' = Unacked(w)
    BY <1>3 DEF Unacked
  <2> QED BY <2>1, <2>2 DEF UnackedInv
<1>9. ASSUME NEW s \in Streams, NEW d \in Docs PROVE Accounted(s, d)' /\ Passed(s, d)'
  <2>1. Accounted(s, d) /\ Passed(s, d)
    BY <1>0 DEF DocsInv
  <2> DEFINE w == WorkerOf[d]
  <2>2. w \in Workers
    BY WorkerAssumption
  <2>3. InWriter(d)' = InWriter(d) /\ Open(d)' = Open(d)
    BY <1>3, WriterViewKept
  <2>4. /\ Upstream(w)' \subseteq Upstream(w) \cup {e} /\ Upstream(w) \subseteq Live
        /\ \A f \in Upstream(w) : WorkerOf[Doc(f)] = w => f \in Upstream(w)'
        /\ e \in Upstream(w)'
    BY <1>0, <1>2, <2>2, PathIsLive DEF Flow
  <2>5. Coming(d) \subseteq Coming(d)' /\ (Doc(e) = d => e.pos \in Coming(d)')
    BY <2>4 DEF Coming, Doc
  <2>6. \A j \in Coming(d)' : j \in Coming(d) \/ (Doc(e) = d /\ j = e.pos)
    BY <2>4 DEF Coming, Doc
  <2>7. \A i \in Writes(s, d, cursor[s])' :
           i \in Writes(s, d, cursor[s]) \/ (Doc(e) = d /\ e.stream = s /\ i = e.pos)
    BY <1>4, <1>5, <1>6 DEF Writes, Doc
  <2>8. Doc(e) = d => \A i \in Writes(s, d, cursor[s]) : i < e.pos
    <3> SUFFICES ASSUME Doc(e) = d, NEW i \in Writes(s, d, cursor[s]) PROVE i < e.pos
      OBVIOUS
    <3>1. s = r
      <4>1. /\ i \in 1..cursor[s] /\ Log[s][i].doc = d
            /\ cursor[s] \in Nat /\ cursor[s] <= StreamLength[s] /\ StreamLength[s] \in Nat
        BY <1>0, StreamLengthAssumption DEF Writes, PipeInv, TrackerInv, TrackerTypeOK
      <4>3. cursor[r] < StreamLength[r] /\ cursor[r] \in Nat /\ StreamLength[r] \in Nat
        BY <1>3, <1>5, StreamLengthAssumption DEF Register
      <4>4. cursor[r] + 1 \in 1..StreamLength[r] /\ i \in 1..StreamLength[s]
        BY <4>1, <4>3
      <4>5. Log[r][cursor[r] + 1].doc = d
        BY <1>4 DEF Doc
      <4>2. DOMAIN Log[s] = 1..StreamLength[s] /\ DOMAIN Log[r] = 1..StreamLength[r]
        BY LogAssumption, LenProperties
      <4> QED BY <4>1, <4>2, <4>4, <4>5, LogAssumption
    <3> QED BY <1>4, <1>5, <3>1 DEF Writes
  <2>9. Accounted(s, d)'
    BY <1>3, <2>1, <2>3, <2>5, <2>7 DEF Accounted, Safe
  <2>10. Passed(s, d)'
    BY <1>3, <2>1, <2>3, <2>5, <2>6, <2>7, <2>8 DEF Passed
  <2> QED BY <2>9, <2>10
<1>10. DocsInv'
  <2>1. \A w \in Workers : Rejected(w)'
    BY <1>0, <1>3 DEF DocsInv, Rejected
  <2> QED BY <1>9, <2>1 DEF DocsInv
<1> QED BY <1>2, <1>8, <1>10 DEF LossKept, Flow

LEMMA ReaderKeepsLoss ==
  ASSUME LossInv, NEW s \in Streams, ReaderStep(s)
  PROVE  LossKept
<1>0. PipeInv /\ OrderInv
  BY DEF LossInv
<1>1. CASE ReaderNext(s)
  BY <1>1, ReaderNextKeepsLoss
<1>2. CASE ReaderPush(s)
  <2>1. Flow({}, {})
    BY <1>0, <1>2, ReaderPushFlows
  <2>2. UNCHANGED <<writer, dataVars, trackerVars>>
    BY <1>2 DEF ReaderPush
  <2> QED BY <2>1, <2>2, QuietKeepsLoss
<1>3. CASE ReaderAbandon(s)
  <2>1. PICK e : e = Head(readerHand[s])
    OBVIOUS
  <2>2. e \in Live /\ Flow({}, {e})
    BY <1>0, <1>3, <2>1, ReaderAbandonFlows
  <2>3. Abandon(e) /\ UNCHANGED <<writer, target, dlq>>
    BY <1>3, <2>1 DEF ReaderAbandon
  <2> QED BY <2>2, <2>3, AbandonKeepsLoss
<1>4. CASE ReaderStop(s)
  <2>1. UNCHANGED <<readerHand, ingestQueue, distHand, batchingQueue, currentGroup,
                    batchWriteQueue, writer>> /\ UNCHANGED <<writer, dataVars, trackerVars>>
    BY <1>4 DEF ReaderStop
  <2> QED BY <1>0, <2>1, QuietFrontFlows, QuietKeepsLoss
<1> QED BY <1>1, <1>2, <1>3, <1>4 DEF ReaderStep

LEMMA DistributorKeepsLoss ==
  ASSUME LossInv, DistributorStep
  PROVE  LossKept
<1>0. PipeInv /\ OrderInv
  BY DEF LossInv
<1>1. CASE DistTake
  <2>1. PICK e : e = Head(ingestQueue)
    OBVIOUS
  <2>2. /\ e \in Live
        /\ distHand' = <<e>> => Flow({}, {})
        /\ distHand' = distHand => Flow({}, {e})
    BY <1>0, <1>1, <2>1, DistTakeFlows
  <2>3. UNCHANGED <<writer, target, dlq, unwritten, dataVars>>
    BY <1>1 DEF DistTake, dataVars
  <2>4. \/ distHand' = <<e>> /\ UNCHANGED trackerVars
        \/ /\ distHand' = distHand /\ Op(e) \notin Applied
           /\ UNCHANGED trackerVars \/ AckEvent(e)
    BY <1>1, <2>1 DEF DistTake, Applied
  <2>5. CASE distHand' = <<e>> /\ UNCHANGED trackerVars
    BY <2>2, <2>3, <2>5, QuietKeepsLoss
  <2>6. CASE /\ distHand' = distHand /\ Op(e) \notin Applied
             /\ UNCHANGED trackerVars \/ AckEvent(e)
    <3>1. PICK lost \in SUBSET Live : lost = {e}
      BY <2>2
    <3>2. UNCHANGED trackerVars \/ \E f \in Live : lost = {f} /\ AckEvent(f)
      BY <2>2, <2>6, <3>1
    <3>3. /\ \A s \in Streams : unwritten[s] \subseteq unwritten'[s]
          /\ \A f \in lost : Op(f) \notin Applied \/ f.pos \in unwritten'[f.stream]
      BY <2>3, <2>6, <3>1
    <3>4. Flow({}, lost) /\ UNCHANGED <<writer, target, dlq>>
      BY <2>2, <2>3, <2>6, <3>1
    <3> QED BY <3>2, <3>3, <3>4, FlowKeepsLoss
  <2> QED BY <2>4, <2>5, <2>6
<1>2. CASE DistPush
  <2>1. UNCHANGED <<writer, dataVars, trackerVars>>
    BY <1>2 DEF DistPush
  <2> QED BY <1>0, <1>2, <2>1, DistPushFlows, QuietKeepsLoss
<1>3. CASE DistAbandon
  <2>1. PICK e : e = Head(distHand)
    OBVIOUS
  <2>2. e \in Live /\ Flow({}, {e})
    BY <1>0, <1>3, <2>1, DistAbandonFlows
  <2>3. Abandon(e) /\ UNCHANGED <<writer, target, dlq>>
    BY <1>3, <2>1 DEF DistAbandon
  <2> QED BY <2>2, <2>3, AbandonKeepsLoss
<1>4. CASE DistStop
  <2>1. UNCHANGED <<readerHand, ingestQueue, distHand, batchingQueue, currentGroup,
                    batchWriteQueue, writer>> /\ UNCHANGED <<writer, dataVars, trackerVars>>
    BY <1>4 DEF DistStop
  <2> QED BY <1>0, <2>1, QuietFrontFlows, QuietKeepsLoss
<1> QED BY <1>1, <1>2, <1>3, <1>4 DEF DistributorStep

LEMMA LoopKeepsLoss ==
  ASSUME LossInv, NEW w \in Workers, LoopStep(w)
  PROVE  LossKept
<1>0. PipeInv /\ OrderInv
  BY DEF LossInv
<1>1. CASE ProcessEvent(w)
  <2>1. PICK e : e = Head(batchingQueue[w])
    OBVIOUS
  <2>2. /\ e \in Live
        /\ \/ Flow({}, {}) /\ UNCHANGED trackerVars
           \/ Flow({}, {e}) /\ AckEvent(e) /\ Op(e) = "updateWithoutDocument"
    BY <1>0, <1>1, <2>1, ProcessEventFlows
  <2>3. UNCHANGED <<writer, target, dlq, unwritten, dataVars>>
    BY <1>1 DEF ProcessEvent, dataVars
  <2>4. CASE Flow({}, {}) /\ UNCHANGED trackerVars
    BY <2>3, <2>4, QuietKeepsLoss
  <2>5. CASE Flow({}, {e}) /\ AckEvent(e) /\ Op(e) = "updateWithoutDocument"
    <3>1. PICK lost \in SUBSET Live : lost = {e}
      BY <2>2
    <3>2. /\ \A s \in Streams : unwritten[s] \subseteq unwritten'[s]
          /\ \A f \in lost : Op(f) \notin Applied \/ f.pos \in unwritten'[f.stream]
      BY <2>3, <2>5, <3>1 DEF Applied
    <3>3. /\ Flow({}, lost) /\ UNCHANGED <<writer, target, dlq>>
          /\ \E f \in Live : lost = {f} /\ AckEvent(f)
      BY <2>2, <2>3, <2>5, <3>1
    <3> QED BY <3>2, <3>3, FlowKeepsLoss
  <2> QED BY <2>2, <2>4, <2>5
<1>2. CASE TimeoutFlush(w) \/ LoopStop(w)
  <2>1. /\ FlushCurrentGroup(w) /\ UNCHANGED <<readerHand, ingestQueue, distHand, batchingQueue, writer>>
        /\ UNCHANGED <<writer, dataVars, trackerVars>>
    BY <1>2 DEF TimeoutFlush, LoopStop
  <2> QED BY <1>0, <2>1, FlushFlows, QuietKeepsLoss
<1> QED BY <1>1, <1>2 DEF LoopStep

-----------------------------------------------------------------------------

(* What the writer's steps do to its record.                               *)
LEMMA WriterMoves ==
  ASSUME PipeInv, NEW w \in Workers, NEW wr, writer' = [writer EXCEPT ![w] = wr]
  PROVE  writer'[w] = wr /\ \A v \in Workers : v # w => writer'[v] = writer[v]
BY DEF PipeInv, WriterTypes

LEMMA SettledMoves ==
  ASSUME PipeInv, NEW w \in Workers, NEW group, NEW ok, writer' = Settled(w, group, ok)
  PROVE  /\ writer'[w].stage = "resolve" /\ writer'[w].group = group
         /\ writer'[w].todo = DOMAIN group /\ writer'[w].ok = ok
         /\ \A v \in Workers : v # w => writer'[v] = writer[v]
<1> DEFINE wr == [writer[w] EXCEPT !.stage = "resolve", !.group = group,
                                   !.todo = DOMAIN group, !.ok = ok]
<1>1. writer[w] \in [stage : WriterStages, group : Groups \cup {<< >>}, fresh : BOOLEAN,
                     todo : SUBSET Nat, ok : SUBSET Nat]
  BY DEF PipeInv, WriterTypes, WriterStates
<1>2. wr.stage = "resolve" /\ wr.group = group /\ wr.todo = DOMAIN group /\ wr.ok = ok
  BY <1>1
<1>3. writer' = [writer EXCEPT ![w] = wr]
  BY DEF Settled
<1> HIDE DEF wr
<1>4. writer'[w] = wr /\ \A v \in Workers : v # w => writer'[v] = writer[v]
  BY <1>3, WriterMoves
<1> QED BY <1>2, <1>4

LEMMA RetriedMoves ==
  ASSUME PipeInv, NEW w \in Workers, writer[w].stage = "retry", NEW ok, writer' = Retried(w, ok)
  PROVE  /\ writer'[w].stage \in {"retry", "resolve"} /\ writer'[w].group = writer[w].group
         /\ writer'[w].ok = ok
         /\ Undecided(w)' = writer[w].todo \ {Current(w)}
         /\ Unacked(w)' = Unacked(w)
         /\ \A v \in Workers : v # w => writer'[v] = writer[v]
<1> DEFINE rest == {i \in writer[w].todo : \E j \in writer[w].todo : j < i}
<1>1. /\ writer[w] \in [stage : WriterStages, group : Groups \cup {<< >>}, fresh : BOOLEAN,
                        todo : SUBSET Nat, ok : SUBSET Nat]
      /\ WriterTypes /\ writer[w].todo # {}
  BY DEF PipeInv, WriterTypes, WriterStates
<1>2. rest = writer[w].todo \ {Current(w)}
  <2>1. Current(w) \in writer[w].todo /\ \A j \in writer[w].todo : Current(w) <= j
    BY <1>1, CurrentIsFirst
  <2>2. writer[w].todo \subseteq Nat
    BY <1>1
  <2> QED BY <2>1, <2>2
<1> HIDE DEF rest
<1>3. CASE rest = {}
  <2>1. writer' = Settled(w, writer[w].group, ok)
    BY <1>3 DEF Retried, rest
  <2>2. /\ writer'[w].stage = "resolve" /\ writer'[w].group = writer[w].group
        /\ writer'[w].ok = ok
        /\ \A v \in Workers : v # w => writer'[v] = writer[v]
    BY <2>1, SettledMoves
  <2> QED BY <1>2, <1>3, <2>2 DEF Undecided, Unacked
<1>4. CASE rest # {}
  <2>1. writer' = [writer EXCEPT ![w] = [writer[w] EXCEPT !.todo = rest, !.ok = ok]]
    BY <1>4 DEF Retried, rest
  <2>2. PICK wr : wr = [writer[w] EXCEPT !.todo = rest, !.ok = ok]
    OBVIOUS
  <2>3. wr.stage = "retry" /\ wr.group = writer[w].group /\ wr.todo = rest /\ wr.ok = ok
    BY <1>1, <2>2
  <2>4. writer'[w] = wr /\ \A v \in Workers : v # w => writer'[v] = writer[v]
    BY <2>1, <2>2, WriterMoves
  <2> QED BY <1>2, <2>3, <2>4 DEF Undecided, Unacked
<1> QED BY <1>3, <1>4

(* The writer of w keeps its group, or is through with it.                 *)
LEMMA WriterKeepsOrder ==
  ASSUME PipeInv, OrderInv, NEW w \in Workers, WriterFrame, UNCHANGED batchWriteQueue,
         \A v \in Workers : v # w => writer'[v] = writer[v],
         \/ /\ writer'[w].group = writer[w].group
            /\ writer'[w].stage = "idle" => writer[w].stage = "idle"
         \/ writer'[w].group = << >>
  PROVE  OrderInv' /\ \A v \in Workers : Upstream(v)' = Upstream(v)
<1>1. UNCHANGED <<readerHand, ingestQueue, distHand, batchingQueue, currentGroup>>
  BY DEF WriterFrame
<1>2. ReadOrder' /\ Undealt' = Undealt
  BY <1>1, FrontIsKept
<1>3. \A v \in Workers : Upstream(v)' = Upstream(v)
  BY <1>1, <1>2 DEF Upstream, Ungrouped, Unbatched
<1>4. ASSUME NEW v \in Workers PROVE LoopOrder(v)' /\ WriterOrder(v)' /\ RouteInv(v)'
  <2>1. LoopOrder(v) /\ WriterOrder(v) /\ RouteInv(v)
    BY DEF OrderInv
  <2>2. AllBefore(Upstream(v), {}) /\ AllBefore(Range(writer[v].group), {})
    BY DEF AllBefore
  <2>3. LoopOrder(v)'
    BY <1>1, <1>2, <2>1, <2>2, LoopOrderKept
  <2>4. CASE /\ writer'[v].group = writer[v].group
             /\ writer'[v].stage = "idle" => writer[v].stage = "idle"
    <3>1. WriterOrder(v)'
      BY <1>3, <2>1, <2>2, <2>4, WriterOrderKept
    <3>2. RouteInv(v)'
      BY <1>1, <2>1, <2>4 DEF RouteInv, Routed
    <3> QED BY <2>3, <3>1, <3>2
  <2>5. CASE writer'[v].group = << >>
    <3>1. Range(writer'[v].group) = {} /\ InOrder(writer'[v].group)
      BY <2>5, EmptyQueue
    <3>2. WriterOrder(v)'
      BY <2>5, <3>1 DEF WriterOrder, AllBefore
    <3>3. RouteInv(v)'
      BY <1>1, <2>1, <3>1 DEF RouteInv, Routed
    <3> QED BY <2>3, <3>2, <3>3
  <2> QED BY <2>4, <2>5
<1> QED BY <1>2, <1>3, <1>4 DEF OrderInv

(* Two operations of a group on one document are of one stream, in order.  *)
LEMMA SameDocInOrder ==
  ASSUME PipeInv, NEW group \in Seq(Live), InOrder(group),
         NEW i \in DOMAIN group, NEW j \in DOMAIN group, Doc(group[i]) = Doc(group[j])
  PROVE  /\ group[i] \in Live /\ group[j] \in Live /\ group[i].stream = group[j].stream
         /\ i < j => group[i].pos < group[j].pos
         /\ i <= j => group[i].pos <= group[j].pos
<1>1. DOMAIN group = 1..Len(group) /\ Len(group) \in Nat
  BY LenProperties
<1>2. group[i] \in Live /\ group[j] \in Live
  BY <1>1, ElementOfSeq
<1>3. \A e, f \in Live : Doc(e) = Doc(f) => e.stream = f.stream
  <2> SUFFICES ASSUME NEW e \in Live, NEW f \in Live, Doc(e) = Doc(f) PROVE e.stream = f.stream
    OBVIOUS
  <2>1. /\ e.stream \in Streams /\ e.pos \in DOMAIN Log[e.stream] /\ Doc(e) = Log[e.stream][e.pos].doc
        /\ f.stream \in Streams /\ f.pos \in DOMAIN Log[f.stream] /\ Doc(f) = Log[f.stream][f.pos].doc
    BY LiveEvents
  <2> QED BY <2>1, LogAssumption
<1>4. group[i].stream = group[j].stream
  BY <1>2, <1>3
<1>5. i < j => group[i].pos < group[j].pos
  BY <1>4 DEF InOrder, Before
<1>6. group[i].pos \in Nat
  BY <1>2 DEF Live, Event
<1>7. i <= j => i < j \/ i = j
  BY <1>1
<1>8. group[j].pos \in Nat
  BY <1>2 DEF Live, Event
<1> HIDE DEF Live
<1>9. PICK p, q : p = group[i].pos /\ q = group[j].pos
  OBVIOUS
<1>10. i <= j => p <= q
  <2>1. p \in Nat /\ q \in Nat /\ (i < j => p < q) /\ (i = j => p = q)
    BY <1>5, <1>6, <1>8, <1>9
  <2> QED BY <1>7, <2>1
<1> QED BY <1>2, <1>4, <1>5, <1>9, <1>10

(* What bulk writes and marks leave of a document: its last operation.     *)
LEMMA LastHasItsWay ==
  ASSUME PipeInv, NEW group \in Seq(Live), InOrder(group), NEW which \in SUBSET (DOMAIN group),
         NEW d \in Docs
  PROVE  /\ (\A i \in which : Doc(group[i]) # d) =>
              ApplyTo(group, which)[d] = target[d] /\ MarkDLQ(group, which)[d] = dlq[d]
         /\ (\E i \in which : Doc(group[i]) = d) =>
              \E k \in which :
                /\ Doc(group[k]) = d
                /\ ApplyTo(group, which)[d] = group[k].pos /\ MarkDLQ(group, which)[d] = group[k].pos
                /\ \A j \in which : Doc(group[j]) = d => group[j].pos <= group[k].pos
         /\ (\E i \in which : Doc(group[i]) = d) => MarkDLQ(group, which)[d] # 0
<1> DEFINE mine == {i \in which : Doc(group[i]) = d}
           last == CHOOSE i \in mine : \A j \in mine : j <= i
<1>1. DOMAIN group = 1..Len(group) /\ Len(group) \in Nat
  BY LenProperties
<1>2. /\ ApplyTo(group, which)[d] = IF mine = {} THEN target[d] ELSE group[last].pos
      /\ MarkDLQ(group, which)[d] = IF mine = {} THEN dlq[d] ELSE group[last].pos
  BY DEF ApplyTo, MarkDLQ
<1>3. mine \in SUBSET (1..Len(group)) /\ \A i \in mine : i \in which /\ Doc(group[i]) = d
  BY <1>1
<1>4. ASSUME mine # {} PROVE last \in mine /\ \A j \in mine : j <= last
  <2>1. \E i \in mine : \A j \in mine : j <= i
    BY <1>1, <1>3, <1>4, LastExists
  <2> QED BY <2>1
<1>5. (\E i \in which : Doc(group[i]) = d) => mine # {}
  OBVIOUS
<1>6. (\A i \in which : Doc(group[i]) # d) => mine = {}
  OBVIOUS
<1>7. \A j \in which : Doc(group[j]) = d => j \in mine
  OBVIOUS
<1> HIDE DEF mine, last
<1>8. ASSUME mine # {}
      PROVE  /\ last \in which /\ Doc(group[last]) = d /\ group[last].pos # 0
             /\ \A j \in which : Doc(group[j]) = d => group[j].pos <= group[last].pos
  <2>1. last \in mine /\ \A j \in mine : j <= last
    BY <1>4, <1>8
  <2>2. last \in DOMAIN group /\ Doc(group[last]) = d /\ last \in which
    BY <1>3, <2>1, <1>1
  <2>3. group[last] \in Live
    BY <1>1, <2>2, ElementOfSeq
  <2>4. ASSUME NEW j \in which, Doc(group[j]) = d PROVE group[j].pos <= group[last].pos
    BY <1>7, <2>1, <2>2, <2>4, SameDocInOrder
  <2>5. group[last].pos # 0
    BY <2>3 DEF Live, Event
  <2> QED BY <2>2, <2>4, <2>5
<1> QED BY <1>2, <1>5, <1>6, <1>8

(* A step of the writer of w inside its group keeps track of every         *)
(* document if it does of those whose operations it holds.                 *)
LEMMA WriterKeepsLoss ==
  ASSUME LossInv, NEW w \in Workers, WriterFrame, UNCHANGED <<batchWriteQueue, trackerVars>>,
         \A v \in Workers : v # w => writer'[v] = writer[v],
         writer'[w].group = writer[w].group, writer'[w].stage \notin {"idle", "bulk"},
         Unacked(w)' \subseteq Unacked(w),
         \A s \in Streams : unwritten[s] \subseteq unwritten'[s],
         \A d \in Docs : (\A i \in DOMAIN writer[w].group : Doc(writer[w].group[i]) # d) =>
            target'[d] = target[d] /\ dlq'[d] = dlq[d],
         \A s \in Streams, d \in Docs : \A i \in Writes(s, d, cursor[s]) :
            WorkerOf[d] = w /\ i \notin Coming(d) /\ (i \in Open(d) \/ Safe(s, d, i))
              => i \in Open(d)' \/ Safe(s, d, i)'
  PROVE  LossKept
<1>0. PipeInv /\ OrderInv /\ UnackedInv /\ DocsInv
  BY DEF LossInv
<1>1. OrderInv' /\ \A v \in Workers : Upstream(v)' = Upstream(v)
  BY <1>0, WriterKeepsOrder
<1>2. UNCHANGED <<cursor, unackedEvents>>
  BY DEF trackerVars, trackerMemory
<1>3. \A v \in Workers : writer'[v].group = writer[v].group /\ Unacked(v)' \subseteq Unacked(v)
  BY DEF Unacked
<1>4. UnackedInv'
  BY <1>0, <1>1, <1>2, <1>3 DEF UnackedInv, Waits
<1>5. ASSUME NEW s \in Streams, NEW d \in Docs PROVE Accounted(s, d)' /\ Passed(s, d)'
  <2>1. Accounted(s, d) /\ Passed(s, d)
    BY <1>0 DEF DocsInv
  <2>2. WorkerOf[d] \in Workers
    BY WorkerAssumption
  <2>3. Coming(d)' = Coming(d)
    BY <1>1, <2>2 DEF Coming, Doc
  <2>4. InWriter(d)' = InWriter(d)
    BY <1>3, <2>2 DEF InWriter, PositionsOf
  <2>5. Writes(s, d, cursor[s])' = Writes(s, d, cursor[s])
    BY <1>2 DEF Writes
  <2>6. Passed(s, d)'
    BY <2>1, <2>3, <2>4, <2>5 DEF Passed
  <2>7. CASE WorkerOf[d] = w
    <3>1. ASSUME NEW i \in Writes(s, d, cursor[s])
          PROVE  i \in Coming(d)' \cup Open(d)' \/ Safe(s, d, i)'
      BY <2>1, <2>3, <2>7, <3>1 DEF Accounted
    <3> QED BY <2>5, <2>6, <3>1 DEF Accounted
  <2>8. CASE WorkerOf[d] # w
    <3>1. writer'[WorkerOf[d]] = writer[WorkerOf[d]]
      BY <2>2, <2>8
    <3>2. Open(d)' = Open(d)
      BY <3>1, WriterViewKept
    <3>3. \A i \in DOMAIN writer[w].group : Doc(writer[w].group[i]) # d
      BY <1>0, <2>8 DEF OrderInv, RouteInv, Routed, Range
    <3>4. target'[d] = target[d] /\ dlq'[d] = dlq[d]
      BY <3>3
    <3> QED BY <1>2, <2>1, <2>3, <2>4, <3>2, <3>4, DocIsKept
  <2> QED BY <2>7, <2>8
<1>6. ASSUME NEW v \in Workers PROVE Rejected(v)'
  <2>1. CASE v = w
    BY <2>1 DEF Rejected
  <2>2. CASE v # w
    <3>1. writer'[v] = writer[v] /\ Rejected(v)
      BY <1>0, <2>2 DEF DocsInv
    <3>2. ASSUME NEW i \in DOMAIN writer[v].group
          PROVE  dlq'[Doc(writer[v].group[i])] = dlq[Doc(writer[v].group[i])]
      <4>1. PICK d : d = Doc(writer[v].group[i])
        OBVIOUS
      <4>2. writer[v].group \in Seq(Live)
        BY <1>0, PathIsLive
      <4>3. writer[v].group[i] \in Live /\ writer[v].group[i] \in Range(writer[v].group)
        BY <4>2, LenProperties, ElementOfSeq DEF Range
      <4>4. d \in Docs /\ WorkerOf[d] = v
        BY <1>0, <4>1, <4>3, LiveEvents DEF OrderInv, RouteInv, Routed
      <4>5. \A j \in DOMAIN writer[w].group : Doc(writer[w].group[j]) # d
        BY <1>0, <2>2, <4>4 DEF OrderInv, RouteInv, Routed, Range
      <4>6. dlq'[d] = dlq[d]
        BY <4>4, <4>5
      <4> QED BY <4>1, <4>6
    <3>3. PICK g : g = writer[v].group
      OBVIOUS
    <3>4. /\ writer'[v].group = g /\ writer'[v].stage = writer[v].stage
          /\ \A i \in DOMAIN g : dlq'[Doc(g[i])] = dlq[Doc(g[i])]
      BY <3>1, <3>2, <3>3
    <3>5. writer[v].stage = "bulk" =>
            \A i \in DOMAIN g : ~Transforms(g[i]) => dlq[Doc(g[i])] # 0
      BY <3>1, <3>3 DEF Rejected
    <3>6. writer'[v].stage = "bulk" =>
            \A i \in DOMAIN g : ~Transforms(g[i]) => dlq'[Doc(g[i])] # 0
      BY <3>4, <3>5
    <3> QED BY <3>4, <3>6 DEF Rejected, Transforms, Doc
  <2> QED BY <2>1, <2>2
<1>7. DocsInv'
  BY <1>5, <1>6 DEF DocsInv
<1> QED BY <1>1, <1>4, <1>7 DEF LossKept

(* The group of a writer at work.                                          *)
LEMMA GroupAtWork ==
  ASSUME PipeInv, OrderInv, NEW w \in Workers, writer[w].stage # "idle"
  PROVE  /\ writer[w].group \in Groups /\ writer[w].group \in Seq(Live) /\ InOrder(writer[w].group)
         /\ DOMAIN writer[w].group = 1..Len(writer[w].group)
         /\ writer[w].todo \subseteq DOMAIN writer[w].group
         /\ writer[w].ok \subseteq DOMAIN writer[w].group
<1>1. /\ writer[w].group \in Groups
      /\ writer[w].todo \subseteq 1..Len(writer[w].group)
      /\ writer[w].ok \subseteq 1..Len(writer[w].group)
  BY DEF PipeInv, WriterTypes, WriterStates
<1>2. writer[w].group \in Seq(Live)
  BY <1>1 DEF Groups
<1>3. DOMAIN writer[w].group = 1..Len(writer[w].group)
  BY <1>2, LenProperties
<1> QED BY <1>1, <1>2, <1>3 DEF OrderInv, WriterOrder

(* What MarkUnwritten adds.                                                *)
LEMMA MarkedUnwritten ==
  ASSUME PipeInv, NEW group \in Seq(Live), NEW which \in SUBSET (DOMAIN group)
  PROVE  /\ \A s \in Streams : unwritten[s] \subseteq MarkUnwritten(group, which)[s]
         /\ \A j \in which : group[j].pos \in MarkUnwritten(group, which)[group[j].stream]
<1>1. \A j \in which : group[j].stream \in Streams
  <2>1. \A j \in which : group[j] \in Live
    BY LenProperties, ElementOfSeq
  <2> QED BY <2>1 DEF Live, Event
<1> QED BY <1>1 DEF MarkUnwritten

(* A bulk write: an operation that reaches the target replaces an older    *)
(* state of its document, and the others are still to retry, given up, or  *)
(* have been in the DLQ since the group was taken.                         *)
LEMMA BulkKeepsDoc ==
  ASSUME LossInv, NEW w \in Workers, writer[w].stage = "bulk", writer'[w].group = writer[w].group,
         NEW done \in SUBSET (DOMAIN writer[w].group),
         target' = ApplyTo(writer[w].group, done), dlq' = dlq,
         \A s \in Streams : unwritten[s] \subseteq unwritten'[s],
         \A j \in Models(writer[w].group) :
            \/ j \in done \/ j \in Undecided(w)'
            \/ writer[w].group[j].pos \in unwritten'[writer[w].group[j].stream],
         NEW s \in Streams, NEW d \in Docs, NEW i \in Writes(s, d, cursor[s]),
         WorkerOf[d] = w, i \notin Coming(d), i \in Open(d) \/ Safe(s, d, i)
  PROVE  i \in Open(d)' \/ Safe(s, d, i)'
<1>0. PipeInv /\ OrderInv /\ Passed(s, d) /\ Rejected(w)
  BY DEF LossInv, DocsInv
<1>1. PICK g : g = writer[w].group
  OBVIOUS
<1>2. g \in Seq(Live) /\ InOrder(g) /\ DOMAIN g = 1..Len(g)
  BY <1>0, <1>1, GroupAtWork
<1>3. Open(d)' = PositionsOf(d, g, Undecided(w)')
  BY <1>1 DEF Open, PositionsOf, Doc
<1>4. /\ InWriter(d) = PositionsOf(d, g, DOMAIN g) /\ Open(d) = PositionsOf(d, g, Models(g))
  BY <1>1 DEF Open, InWriter, Undecided
<1>5. PICK old : old = target[d]
  OBVIOUS
<1>6. old \in Nat /\ i \in Nat
  BY <1>0, <1>5 DEF PipeInv, DataTypes, Writes
<1>7. \/ target'[d] = old /\ \A j \in done : Doc(g[j]) # d
      \/ \E k \in done : /\ Doc(g[k]) = d /\ target'[d] = g[k].pos
                         /\ \A j \in done : Doc(g[j]) = d => g[j].pos <= g[k].pos
  <2>1. target'[d] = ApplyTo(g, done)[d] /\ done \in SUBSET (DOMAIN g)
    BY <1>1
  <2>2. /\ (\A j \in done : Doc(g[j]) # d) => ApplyTo(g, done)[d] = target[d]
        /\ (\E j \in done : Doc(g[j]) = d) =>
             \E k \in done : /\ Doc(g[k]) = d /\ ApplyTo(g, done)[d] = g[k].pos
                            /\ \A j \in done : Doc(g[j]) = d => g[j].pos <= g[k].pos
    BY <1>0, <1>2, <2>1, LastHasItsWay
  <2> QED BY <1>5, <2>1, <2>2
<1>8. \A k \in DOMAIN g : Doc(g[k]) = d => g[k].stream = s /\ g[k].pos \in Nat
  <2>1. \A k \in DOMAIN g : g[k] \in Live
    BY <1>2, ElementOfSeq
  <2> QED BY <1>0, <2>1, OneStreamPerDoc DEF Live, Event
<1>9. CASE i \in Open(d)
  <2>1. PICK j \in Models(g) : Doc(g[j]) = d /\ g[j].pos = i
    BY <1>4, <1>9 DEF PositionsOf
  <2>2. j \in DOMAIN g
    BY <2>1 DEF Models
  <2>3. CASE j \in done
    <3>1. target'[d] >= i
      BY <1>7, <2>1, <2>3
    <3> QED BY <3>1 DEF Safe
  <2>4. CASE j \in Undecided(w)'
    BY <1>3, <2>1, <2>4 DEF PositionsOf
  <2>5. CASE g[j].pos \in unwritten'[g[j].stream]
    BY <1>8, <2>1, <2>2, <2>5 DEF Safe
  <2> QED BY <1>1, <2>1, <2>3, <2>4, <2>5
<1>10. CASE i \notin Open(d) /\ i \in InWriter(d)
  <2>1. PICK j \in DOMAIN g : Doc(g[j]) = d /\ g[j].pos = i
    BY <1>4, <1>10 DEF PositionsOf
  <2>2. j \notin Models(g)
    BY <1>4, <1>10, <2>1 DEF PositionsOf
  <2>3. ~Transforms(g[j])
    BY <2>1, <2>2 DEF Models
  <2>4. dlq[d] # 0
    BY <1>0, <1>1, <2>1, <2>3 DEF Rejected
  <2> QED BY <2>4 DEF Safe
<1>11. CASE i \notin Open(d) /\ i \notin InWriter(d)
  <2>1. Safe(s, d, i)
    BY <1>11
  <2>2. CASE i \in unwritten[s] \/ dlq[d] # 0
    BY <2>2 DEF Safe
  <2>3. CASE old >= i /\ \A j \in InWriter(d) : i < j
    <3>1. \A k \in DOMAIN g : Doc(g[k]) = d => i < g[k].pos
      BY <1>4, <2>3 DEF PositionsOf
    <3>2. done \subseteq DOMAIN g
      BY <1>1
    <3>3. target'[d] >= i
      BY <1>6, <1>7, <1>8, <2>3, <3>1, <3>2
    <3> QED BY <3>3 DEF Safe
  <2>4. i \in unwritten[s] \/ \A j \in InWriter(d) : i < j
    BY <1>0, <1>11 DEF Passed
  <2> QED BY <1>5, <2>1, <2>2, <2>3, <2>4 DEF Safe
<1> QED BY <1>9, <1>10, <1>11

LEMMA BulkKeepsLoss ==
  ASSUME LossInv, NEW w \in Workers,
         BulkSucceeds(w) \/ BulkPartlyFails(w) \/ BulkErrors(w) \/ BulkCancelled(w)
  PROVE  LossKept
<1>0. PipeInv /\ OrderInv
  BY DEF LossInv
<1> DEFINE g == writer[w].group
<1>1. g = writer[w].group
  OBVIOUS
<1>2. /\ UNCHANGED trackerVars /\ WriterFrame /\ UNCHANGED batchWriteQueue
      /\ writer[w].stage = "bulk" /\ dlq' = dlq
  BY DEF BulkSucceeds, BulkPartlyFails, BulkErrors, BulkCancelled
<1> HIDE DEF g
<1>3. g \in Seq(Live) /\ InOrder(g) /\ DOMAIN g = 1..Len(g)
  BY <1>0, <1>1, <1>2, GroupAtWork
<1>4. UNCHANGED <<batchWriteQueue, trackerVars, cursor>>
  BY <1>2 DEF trackerVars
<1>5. ASSUME NEW done \in SUBSET (DOMAIN g), target' = ApplyTo(g, done),
             \A s \in Streams : unwritten[s] \subseteq unwritten'[s],
             writer'[w].group = g, writer'[w].stage \in {"retry", "resolve"},
             \A v \in Workers : v # w => writer'[v] = writer[v],
             \A j \in Models(g) : \/ j \in done \/ j \in Undecided(w)'
                                  \/ g[j].pos \in unwritten'[g[j].stream]
      PROVE  LossKept
  <2>1. \A s \in Streams, d \in Docs : \A i \in Writes(s, d, cursor[s]) :
          WorkerOf[d] = w /\ i \notin Coming(d) /\ (i \in Open(d) \/ Safe(s, d, i))
            => i \in Open(d)' \/ Safe(s, d, i)'
    BY <1>1, <1>2, <1>5, BulkKeepsDoc
  <2>2. ASSUME NEW d \in Docs, \A i \in DOMAIN g : Doc(g[i]) # d
        PROVE  target'[d] = target[d] /\ dlq'[d] = dlq[d]
    <3>1. \A i \in done : Doc(g[i]) # d
      BY <1>5, <2>2
    <3> QED BY <1>0, <1>2, <1>3, <1>5, <3>1, LastHasItsWay
  <2>3. Unacked(w)' \subseteq Unacked(w)
    BY <1>1, <1>2, <1>5 DEF Unacked
  <2>4. \A d \in Docs : (\A i \in DOMAIN writer[w].group : Doc(writer[w].group[i]) # d) =>
            target'[d] = target[d] /\ dlq'[d] = dlq[d]
    BY <1>1, <2>2
  <2> QED BY <1>1, <1>2, <1>4, <1>5, <2>1, <2>3, <2>4, WriterKeepsLoss
<1>6. \A failed : Reaching(g, failed) \in SUBSET (DOMAIN g)
  BY DEF Reaching
<1>7. writer[w] \in [stage : WriterStages, group : Groups \cup {<< >>}, fresh : BOOLEAN,
                     todo : SUBSET Nat, ok : SUBSET Nat]
  BY <1>0 DEF PipeInv, WriterTypes, WriterStates
<1>8. CASE BulkSucceeds(w)
  <2>1. PICK done \in SUBSET (DOMAIN g) : done = Reaching(g, {})
    BY <1>6
  <2>2. target' = ApplyTo(g, done) /\ writer' = Settled(w, g, done) /\ unwritten' = unwritten
    BY <1>1, <1>8, <2>1 DEF BulkSucceeds
  <2>3. /\ writer'[w].group = g /\ writer'[w].stage = "resolve"
        /\ \A v \in Workers : v # w => writer'[v] = writer[v]
    BY <1>0, <2>2, SettledMoves
  <2>4. \A j \in Models(g) : j \in done
    BY <2>1 DEF Models, Reaching
  <2> QED BY <1>5, <2>2, <2>3, <2>4
<1>9. CASE BulkPartlyFails(w)
  <2> DEFINE bad == {i \in DOMAIN g : ~Transforms(g[i])}
  <2>1. PICK failed \in (SUBSET (1..Cardinality(Models(g)))) \ {{}} :
          LET done == Reaching(g, {Model(g, k) : k \in failed})
          IN /\ target' = ApplyTo(g, done)
             /\ writer' = [writer EXCEPT ![w] =
                  [writer[w] EXCEPT !.stage = "retry", !.todo = failed,
                                    !.ok = DOMAIN g \ (failed \cup bad)]]
             /\ unwritten' = MarkUnwritten(g, DOMAIN g \ (done \cup failed \cup bad))
    BY <1>0, <1>7, <1>9 DEF BulkPartlyFails, g, PipeInv, WriterTypes, WriterStates
  <2>2. PICK done \in SUBSET (DOMAIN g) : done = Reaching(g, {Model(g, k) : k \in failed})
    BY <1>6
  <2>3. PICK wr : wr = [writer[w] EXCEPT !.stage = "retry", !.todo = failed,
                                         !.ok = DOMAIN g \ (failed \cup bad)]
    OBVIOUS
  <2>4. wr.stage = "retry" /\ wr.group = g /\ wr.todo = failed
    BY <1>1, <1>7, <2>3
  <2>5. writer'[w] = wr /\ \A v \in Workers : v # w => writer'[v] = writer[v]
    BY <1>0, <2>1, <2>3, WriterMoves
  <2>6. PICK given \in SUBSET (DOMAIN g) : given = DOMAIN g \ (done \cup failed \cup bad)
    OBVIOUS
  <2>7. target' = ApplyTo(g, done) /\ unwritten' = MarkUnwritten(g, given)
    BY <2>1, <2>2, <2>6
  <2>8. /\ \A s \in Streams : unwritten[s] \subseteq unwritten'[s]
        /\ \A j \in given : g[j].pos \in unwritten'[g[j].stream]
    BY <1>0, <1>3, <2>7, MarkedUnwritten
  <2>9. Undecided(w)' = failed
    BY <2>4, <2>5 DEF Undecided
  <2>10. \A j \in Models(g) : \/ j \in done \/ j \in Undecided(w)'
                              \/ g[j].pos \in unwritten'[g[j].stream]
    BY <2>6, <2>8, <2>9 DEF Models
  <2> QED BY <1>5, <2>4, <2>5, <2>7, <2>8, <2>10
<1>10. CASE BulkErrors(w)
  <2>1. PICK failed : target' = ApplyTo(g, Reaching(g, failed))
    BY <1>1, <1>10 DEF BulkErrors
  <2>2. PICK done \in SUBSET (DOMAIN g) : done = Reaching(g, failed)
    BY <1>6
  <2>3. PICK wr : wr = [writer[w] EXCEPT !.stage = "retry", !.todo = DOMAIN g]
    OBVIOUS
  <2>4. wr.stage = "retry" /\ wr.group = g /\ wr.todo = DOMAIN g
    BY <1>1, <1>7, <2>3
  <2>5. writer' = [writer EXCEPT ![w] = wr] /\ unwritten' = unwritten
    BY <1>1, <1>10, <2>3 DEF BulkErrors
  <2>6. writer'[w] = wr /\ \A v \in Workers : v # w => writer'[v] = writer[v]
    BY <1>0, <2>5, WriterMoves
  <2>7. \A j \in Models(g) : j \in Undecided(w)'
    BY <2>4, <2>6 DEF Undecided, Models
  <2>8. target' = ApplyTo(g, done)
    BY <2>1, <2>2
  <2> QED BY <1>5, <2>4, <2>5, <2>6, <2>7, <2>8
<1>11. CASE BulkCancelled(w)
  <2>1. PICK failed :
          LET done == Reaching(g, failed)
          IN /\ target' = ApplyTo(g, done)
             /\ writer' = Settled(w, g, {})
             /\ unwritten' = MarkUnwritten(g, {i \in DOMAIN g \ done : Transforms(g[i])})
    BY <1>1, <1>11 DEF BulkCancelled
  <2>2. PICK done \in SUBSET (DOMAIN g) : done = Reaching(g, failed)
    BY <1>6
  <2>3. PICK given \in SUBSET (DOMAIN g) : given = {i \in DOMAIN g \ done : Transforms(g[i])}
    OBVIOUS
  <2>4. /\ target' = ApplyTo(g, done) /\ unwritten' = MarkUnwritten(g, given)
        /\ writer' = Settled(w, g, {})
    BY <2>1, <2>2, <2>3
  <2>5. /\ writer'[w].group = g /\ writer'[w].stage = "resolve"
        /\ \A v \in Workers : v # w => writer'[v] = writer[v]
    BY <1>0, <2>4, SettledMoves
  <2>6. /\ \A s \in Streams : unwritten[s] \subseteq unwritten'[s]
        /\ \A j \in given : g[j].pos \in unwritten'[g[j].stream]
    BY <1>0, <1>3, <2>4, MarkedUnwritten
  <2>7. \A j \in Models(g) : j \in done \/ g[j].pos \in unwritten'[g[j].stream]
    BY <2>3, <2>6 DEF Models
  <2> QED BY <1>5, <2>4, <2>5, <2>6, <2>7
<1> QED BY <1>8, <1>9, <1>10, <1>11

(* One operation is retried.                                               *)
LEMMA RetryKeepsLoss ==
  ASSUME LossInv, NEW w \in Workers,
         RetrySucceeds(w) \/ RetryMatchesNothing(w) \/ RetryFails(w) \/ RetryCancelled(w)
  PROVE  LossKept
<1>0. PipeInv /\ OrderInv /\ DocsInv
  BY DEF LossInv
<1>1. PICK g, c : g = writer[w].group /\ c = Current(w)
  OBVIOUS
<1>2. /\ UNCHANGED trackerVars /\ WriterFrame /\ UNCHANGED batchWriteQueue
      /\ writer[w].stage = "retry"
      /\ writer' = Retried(w, writer[w].ok) \/ writer' = Retried(w, writer[w].ok \cup {c})
  BY <1>1 DEF RetrySucceeds, RetryMatchesNothing, RetryFails, RetryCancelled
<1>3. /\ g \in Seq(Live) /\ InOrder(g) /\ DOMAIN g = 1..Len(g)
      /\ writer[w].todo \subseteq DOMAIN g
  BY <1>0, <1>1, <1>2, GroupAtWork
<1>4. UNCHANGED <<batchWriteQueue, trackerVars, cursor>>
  BY <1>2 DEF trackerVars
<1>5. /\ writer'[w].stage \in {"retry", "resolve"} /\ writer'[w].group = g
      /\ Undecided(w)' = writer[w].todo \ {c}
      /\ Unacked(w)' = Unacked(w)
      /\ \A v \in Workers : v # w => writer'[v] = writer[v]
  BY <1>0, <1>1, <1>2, RetriedMoves
<1>6. /\ c \in writer[w].todo /\ c \in DOMAIN g /\ g[c] \in Live
      /\ \A j \in writer[w].todo : c <= j
  <2>1. WriterTypes /\ writer[w].todo # {}
    BY <1>0, <1>2 DEF PipeInv, WriterTypes, WriterStates
  <2> QED BY <1>1, <1>3, <2>1, CurrentIsFirst
<1>7. Undecided(w) = writer[w].todo
  BY <1>2 DEF Undecided
<1>8. PICK one \in SUBSET (DOMAIN g) : one = {c}
  BY <1>6
<1>9. \A d \in Docs :
        /\ Doc(g[c]) # d => ApplyTo(g, one)[d] = target[d] /\ MarkDLQ(g, one)[d] = dlq[d]
        /\ Doc(g[c]) = d => ApplyTo(g, one)[d] = g[c].pos /\ MarkDLQ(g, one)[d] # 0
  <2> SUFFICES ASSUME NEW d \in Docs
               PROVE  /\ Doc(g[c]) # d => ApplyTo(g, one)[d] = target[d] /\ MarkDLQ(g, one)[d] = dlq[d]
                      /\ Doc(g[c]) = d => ApplyTo(g, one)[d] = g[c].pos /\ MarkDLQ(g, one)[d] # 0
    OBVIOUS
  <2>1. CASE Doc(g[c]) # d
    <3>1. \A i \in one : Doc(g[i]) # d
      BY <1>8, <2>1
    <3> QED BY <1>0, <1>3, <2>1, <3>1, LastHasItsWay
  <2>2. CASE Doc(g[c]) = d
    <3>1. \E i \in one : Doc(g[i]) = d
      BY <1>8, <2>2
    <3>2. PICK k \in one : ApplyTo(g, one)[d] = g[k].pos
      BY <1>0, <1>3, <3>1, LastHasItsWay
    <3>3. MarkDLQ(g, one)[d] # 0
      BY <1>0, <1>3, <3>1, LastHasItsWay
    <3> QED BY <1>8, <2>2, <3>2, <3>3
  <2> QED BY <2>1, <2>2
<1>10. \/ /\ target' = ApplyTo(g, one) /\ dlq' = dlq
          /\ unwritten' = MarkUnwritten(g, Overwritten(g, c, writer[w].todo))
       \/ target' = target /\ dlq' = MarkDLQ(g, one) /\ unwritten' = unwritten
       \/ target' = target /\ dlq' = dlq /\ unwritten' = MarkUnwritten(g, one)
  BY <1>1, <1>8 DEF RetrySucceeds, RetryMatchesNothing, RetryFails, RetryCancelled
<1>11. Overwritten(g, c, writer[w].todo) \in SUBSET (DOMAIN g)
  BY DEF Overwritten
<1>12. /\ \A s \in Streams : unwritten[s] \subseteq unwritten'[s]
       /\ unwritten' = MarkUnwritten(g, one) => g[c].pos \in unwritten'[g[c].stream]
       /\ unwritten' = MarkUnwritten(g, Overwritten(g, c, writer[w].todo)) =>
            \A j \in Overwritten(g, c, writer[w].todo) : g[j].pos \in unwritten'[g[j].stream]
  BY <1>0, <1>3, <1>8, <1>10, <1>11, MarkedUnwritten
<1>13. ASSUME NEW d \in Docs, \A i \in DOMAIN g : Doc(g[i]) # d
       PROVE  target'[d] = target[d] /\ dlq'[d] = dlq[d]
  BY <1>6, <1>9, <1>10, <1>13
<1>14. ASSUME NEW s \in Streams, NEW d \in Docs, NEW i \in Writes(s, d, cursor[s]),
              WorkerOf[d] = w, i \notin Coming(d), i \in Open(d) \/ Safe(s, d, i)
       PROVE  i \in Open(d)' \/ Safe(s, d, i)'
  <2>1. Open(d)' = PositionsOf(d, g, writer[w].todo \ {c})
    BY <1>5, <1>14 DEF Open, PositionsOf, Doc
  <2>2. /\ InWriter(d) = PositionsOf(d, g, DOMAIN g)
        /\ Open(d) = PositionsOf(d, g, writer[w].todo)
    BY <1>1, <1>7, <1>14 DEF Open, InWriter
  <2>3. \A k \in DOMAIN g : Doc(g[k]) = d => g[k].stream = s /\ g[k].pos \in Nat
    <3>1. \A k \in DOMAIN g : g[k] \in Live
      BY <1>3, ElementOfSeq
    <3> QED BY <1>0, <3>1, OneStreamPerDoc DEF Live, Event
  <2>4. i \in Nat
    BY <1>0 DEF PipeInv, TrackerInv, TrackerTypeOK, Writes
  <2>5. CASE i \in Open(d)
    <3>1. PICK j \in writer[w].todo : Doc(g[j]) = d /\ g[j].pos = i
      BY <2>2, <2>5 DEF PositionsOf
    <3>2. CASE j # c
      BY <2>1, <3>1, <3>2 DEF PositionsOf
    <3>3. CASE j = c
      <4>1. CASE target' = ApplyTo(g, one)
        <5>1. target'[d] = i
          BY <1>9, <3>1, <3>3, <4>1
        <5> QED BY <2>4, <5>1 DEF Safe
      <4>2. CASE dlq' = MarkDLQ(g, one)
        BY <1>9, <3>1, <3>3, <4>2 DEF Safe
      <4>3. CASE unwritten' = MarkUnwritten(g, one)
        BY <1>6, <1>12, <2>3, <3>1, <3>3, <4>3 DEF Safe
      <4> QED BY <1>10, <4>1, <4>2, <4>3
    <3> QED BY <3>2, <3>3
  <2>6. CASE i \notin Open(d) /\ Safe(s, d, i)
    <3>1. i \in unwritten[s] => i \in unwritten'[s]
      BY <1>12
    <3>2. dlq[d] # 0 => dlq'[d] # 0
      BY <1>9, <1>10
    <3>3. CASE target'[d] = target[d]
      BY <2>6, <3>1, <3>2, <3>3 DEF Safe
    <3>4. CASE target'[d] # target[d] /\ target[d] >= i /\ i \notin unwritten[s]
      <4>1. Doc(g[c]) = d /\ target'[d] = g[c].pos
        BY <1>9, <1>10, <3>4
      <4>2. unwritten' = MarkUnwritten(g, Overwritten(g, c, writer[w].todo))
        BY <1>10, <3>4
      <4>3. CASE \A j \in InWriter(d) : i < j
        <5>1. i < g[c].pos
          BY <1>6, <2>2, <4>1, <4>3 DEF PositionsOf
        <5> QED BY <1>6, <2>3, <2>4, <4>1, <5>1 DEF Safe
      <4>4. CASE i \in InWriter(d)
        <5>1. PICK j \in DOMAIN g : Doc(g[j]) = d /\ g[j].pos = i
          BY <2>2, <4>4 DEF PositionsOf
        <5>2. j \notin writer[w].todo
          BY <2>2, <2>6, <5>1 DEF PositionsOf
        <5>3. CASE j <= c
          <6>1. g[j].pos <= g[c].pos
            BY <1>0, <1>3, <1>6, <4>1, <5>1, <5>3, SameDocInOrder
          <6> QED BY <1>6, <2>3, <2>4, <4>1, <5>1, <6>1 DEF Safe
        <5>4. CASE c < j
          <6>1. j \in Overwritten(g, c, writer[w].todo)
            BY <4>1, <5>1, <5>2, <5>4 DEF Overwritten
          <6> QED BY <1>12, <2>3, <4>2, <5>1, <6>1 DEF Safe
        <5> QED BY <1>3, <1>6, <5>1, <5>3, <5>4
      <4>5. Passed(s, d)
        BY <1>0 DEF DocsInv
      <4> QED BY <1>14, <3>4, <4>3, <4>4, <4>5 DEF Passed
    <3> QED BY <2>6, <3>1, <3>2, <3>3, <3>4 DEF Safe
  <2> QED BY <1>14, <2>5, <2>6
<1>15. \A d \in Docs : (\A i \in DOMAIN writer[w].group : Doc(writer[w].group[i]) # d) =>
            target'[d] = target[d] /\ dlq'[d] = dlq[d]
  BY <1>1, <1>13
<1>16. Unacked(w)' \subseteq Unacked(w) /\ writer'[w].stage \notin {"idle", "bulk"}
  BY <1>5
<1> QED BY <1>1, <1>2, <1>4, <1>5, <1>12, <1>14, <1>15, <1>16, WriterKeepsLoss

(* A writer takes its next group.                                          *)
LEMMA TakeKeepsLoss ==
  ASSUME LossInv, NEW w \in Workers, WriterTake(w)
  PROVE  LossKept
<1>0. PipeInv /\ OrderInv /\ UnackedInv /\ DocsInv
  BY DEF LossInv
<1> DEFINE g == Head(batchWriteQueue[w])
           bad == {i \in DOMAIN g : ~Transforms(g[i])}
<1>1. /\ UNCHANGED trackerVars /\ UNCHANGED <<target, unwritten>> /\ WriterFrame
      /\ writer[w].stage = "idle" /\ batchWriteQueue[w] # << >>
      /\ batchWriteQueue' = [batchWriteQueue EXCEPT ![w] = Tail(batchWriteQueue[w])]
      /\ dlq' = MarkDLQ(g, bad)
      /\ writer' = IF Models(g) = {} THEN Settled(w, g, {})
                   ELSE [writer EXCEPT ![w] =
                           [IdleWriter EXCEPT !.stage = "bulk", !.group = g, !.fresh = cancelled]]
  BY DEF WriterTake
<1> HIDE DEF g
<1>2. /\ LoopOrder(w) /\ WriterOrder(w) /\ RouteInv(w) /\ batchWriteQueue[w] \in Seq(Seq(Live))
  BY <1>0, PathIsLive DEF OrderInv
<1>3. /\ batchWriteQueue'[w] = Tail(batchWriteQueue[w])
      /\ \A v \in Workers : v # w => batchWriteQueue'[v] = batchWriteQueue[v]
  <2>1. batchWriteQueue \in [Workers -> {q \in Seq(Groups) : Len(q) <= WriteCap}]
    BY <1>0 DEF PipeInv, LoopTypes
  <2> QED BY <1>1, <2>1
<1>4. /\ g \in Seq(Live) /\ InOrder(g) /\ GroupsInOrder(batchWriteQueue'[w])
      /\ Members(batchWriteQueue[w]) = Range(g) \cup Members(batchWriteQueue'[w])
      /\ AllBefore(Range(g), Members(batchWriteQueue'[w]))
  BY <1>1, <1>2, <1>3, HeadOfGroups DEF g, LoopOrder
<1>5. DOMAIN g = 1..Len(g) /\ \A i \in DOMAIN g : g[i] \in Live /\ g[i] \in Range(g)
  BY <1>4, LenProperties, ElementOfSeq DEF Range
<1>6. /\ writer'[w].group = g /\ writer'[w].stage \in {"bulk", "resolve"}
      /\ Undecided(w)' = Models(g) /\ Unacked(w)' = DOMAIN g
      /\ \A v \in Workers : v # w => writer'[v] = writer[v]
  <2>1. CASE Models(g) = {}
    <3>1. writer' = Settled(w, g, {})
      BY <1>1, <2>1
    <3>2. /\ writer'[w].stage = "resolve" /\ writer'[w].group = g
          /\ \A v \in Workers : v # w => writer'[v] = writer[v]
      BY <1>0, <3>1, SettledMoves
    <3> QED BY <2>1, <3>2 DEF Undecided, Unacked
  <2>2. CASE Models(g) # {}
    <3>1. PICK wr : wr = [IdleWriter EXCEPT !.stage = "bulk", !.group = g, !.fresh = cancelled]
      OBVIOUS
    <3>2. wr.stage = "bulk" /\ wr.group = g
      BY <3>1 DEF IdleWriter
    <3>3. writer' = [writer EXCEPT ![w] = wr]
      BY <1>1, <2>2, <3>1
    <3>4. writer'[w] = wr /\ \A v \in Workers : v # w => writer'[v] = writer[v]
      BY <1>0, <3>3, WriterMoves
    <3>5. Undecided(w)' = Models(g)
      <4>1. Models(writer'[w].group) = Models(g)
        BY <3>2, <3>4
      <4>2. Undecided(w)' = Models(writer'[w].group)
        BY <3>2, <3>4 DEF Undecided, Models, Transforms
      <4> QED BY <4>1, <4>2
    <3> QED BY <3>2, <3>4, <3>5 DEF Unacked
  <2> QED BY <2>1, <2>2
<1>7. UNCHANGED <<readerHand, ingestQueue, distHand, batchingQueue, currentGroup, cursor, unackedEvents>>
  BY <1>1 DEF WriterFrame, trackerVars, trackerMemory
<1>8. ReadOrder' /\ Undealt' = Undealt
  BY <1>0, <1>7, FrontIsKept
<1>9. /\ Ungrouped(w)' = Ungrouped(w)
      /\ Upstream(w) = Upstream(w)' \cup Range(g)
      /\ AllBefore(Range(g), Upstream(w)')
  <2>1. Ungrouped(w)' = Ungrouped(w) /\ Unbatched(w)' = Unbatched(w)
    BY <1>7, <1>8 DEF Ungrouped, Unbatched
  <2>2. Upstream(w) = Upstream(w)' \cup Range(g)
    BY <1>4, <2>1 DEF Upstream
  <2>3. AllBefore(Range(g), Ungrouped(w))
    BY <1>2, <1>4 DEF LoopOrder, AllBefore
  <2> QED BY <1>4, <2>1, <2>2, <2>3 DEF Upstream, AllBefore
<1>10. \A v \in Workers : v # w => Upstream(v)' = Upstream(v)
  BY <1>3, <1>7, <1>8 DEF Upstream, Ungrouped, Unbatched
<1>11. LoopOrder(w)' /\ WriterOrder(w)' /\ RouteInv(w)'
  <2>1. AllBefore(Members(batchWriteQueue'[w]), Ungrouped(w))
    BY <1>2, <1>4 DEF LoopOrder, AllBefore
  <2>2. Unbatched(w)' = Unbatched(w)
    BY <1>7, <1>8 DEF Unbatched
  <2>3. LoopOrder(w)'
    BY <1>2, <1>4, <1>7, <1>8, <1>9, <2>1, <2>2 DEF LoopOrder
  <2>4. WriterOrder(w)'
    BY <1>4, <1>6, <1>9 DEF WriterOrder
  <2>5. RouteInv(w)'
    BY <1>2, <1>4, <1>6, <1>7 DEF RouteInv, Routed
  <2> QED BY <2>3, <2>4, <2>5
<1>12. ASSUME NEW v \in Workers, v # w PROVE LoopOrder(v)' /\ WriterOrder(v)' /\ RouteInv(v)'
  <2>1. LoopOrder(v) /\ WriterOrder(v) /\ RouteInv(v) /\ Upstream(v)' = Upstream(v)
    BY <1>0, <1>10, <1>12 DEF OrderInv
  <2>2. AllBefore(Upstream(v), {}) /\ AllBefore(Range(writer[v].group), {})
    BY DEF AllBefore
  <2>3. LoopOrder(v)'
    BY <1>3, <1>7, <1>8, <1>12, <2>1, <2>2, LoopOrderKept
  <2>4. WriterOrder(v)'
    BY <1>6, <1>12, <2>1, <2>2, WriterOrderKept
  <2>5. RouteInv(v)'
    BY <1>3, <1>6, <1>7, <1>12, <2>1 DEF RouteInv, Routed
  <2> QED BY <2>3, <2>4, <2>5
<1>13. OrderInv'
  BY <1>8, <1>11, <1>12 DEF OrderInv
<1>14. UnackedInv'
  <2>1. ASSUME NEW v \in Workers
        PROVE  /\ \A e \in Upstream(v)' : Waits(e)'
               /\ (\A i \in Unacked(v) : Waits(writer[v].group[i]))'
    <3>1. \A e : Waits(e) => Waits(e)'
      BY <1>7 DEF Waits
    <3>2. \A e \in Upstream(v)' : Waits(e)'
      BY <1>0, <1>7, <1>9, <1>10 DEF UnackedInv, Waits
    <3>3. CASE v = w
      <4>1. \A i \in DOMAIN g : Waits(g[i])
        BY <1>0, <1>5, <1>9 DEF UnackedInv
      <4> QED BY <1>6, <1>7, <3>2, <3>3, <4>1 DEF Waits
    <3>4. CASE v # w
      <4>1. Unacked(v)' = Unacked(v) /\ writer'[v] = writer[v]
        BY <1>6, <3>4 DEF Unacked
      <4> QED BY <1>0, <1>7, <3>2, <4>1 DEF UnackedInv, Waits
    <3> QED BY <3>3, <3>4
  <2> QED BY <2>1 DEF UnackedInv
<1>15. \A d \in Docs : /\ (\A i \in bad : Doc(g[i]) # d) => dlq'[d] = dlq[d]
                       /\ (\E i \in bad : Doc(g[i]) = d) => dlq'[d] # 0
  <2>1. PICK which \in SUBSET (DOMAIN g) : which = bad
    OBVIOUS
  <2>2. dlq' = MarkDLQ(g, which)
    BY <1>1, <2>1
  <2>3. \A d \in Docs : /\ (\A i \in which : Doc(g[i]) # d) => dlq'[d] = dlq[d]
                        /\ (\E i \in which : Doc(g[i]) = d) => dlq'[d] # 0
    BY <1>0, <1>4, <2>2, LastHasItsWay
  <2> QED BY <2>1, <2>3
<1>16. \A i \in DOMAIN g : i \in Models(g) \/ i \in bad
  BY DEF Models
<1> HIDE DEF bad
<1>17. \A d \in Docs : dlq[d] # 0 => dlq'[d] # 0
  BY <1>15
<1>18. ASSUME NEW s \in Streams, NEW d \in Docs PROVE Accounted(s, d)' /\ Passed(s, d)'
  <2>1. Accounted(s, d) /\ Passed(s, d) /\ WorkerOf[d] \in Workers
    BY <1>0, WorkerAssumption DEF DocsInv
  <2>2. Writes(s, d, cursor[s])' = Writes(s, d, cursor[s])
    BY <1>7 DEF Writes
  <2>3. CASE WorkerOf[d] = w
    <3>1. writer[w].group = << >>
      BY <1>1, <1>2 DEF WriterOrder
    <3>2. InWriter(d) = {} /\ Open(d) = {}
      BY <1>1, <2>3, <3>1 DEF InWriter, Open, PositionsOf, Undecided
    <3>3. InWriter(d)' = PositionsOf(d, g, DOMAIN g) /\ Open(d)' = PositionsOf(d, g, Models(g))
      <4>1. /\ InWriter(d)' = PositionsOf(d, writer'[w].group, DOMAIN writer'[w].group)
            /\ Open(d)' = PositionsOf(d, writer'[w].group, Undecided(w)')
        BY <2>3 DEF InWriter, Open, PositionsOf, Doc
      <4> QED BY <1>6, <4>1
    <3>4. Coming(d) = Coming(d)' \cup InWriter(d)'
      <4>1. \A f \in Upstream(w) : Doc(f) = d => f \in Upstream(w)' \/ \E i \in DOMAIN g : f = g[i]
        BY <1>9 DEF Range
      <4>2. \A i \in DOMAIN g : g[i] \in Upstream(w)
        BY <1>5, <1>9
      <4>3. Coming(d) \subseteq Coming(d)' \cup InWriter(d)'
        BY <2>3, <3>3, <4>1 DEF Coming, PositionsOf, Doc
      <4>4. Coming(d)' \subseteq Coming(d)
        BY <1>9, <2>3 DEF Coming, Doc
      <4>5. InWriter(d)' \subseteq Coming(d)
        BY <2>3, <3>3, <4>2 DEF Coming, PositionsOf
      <4> QED BY <4>3, <4>4, <4>5
    <3>5. ASSUME NEW i \in Writes(s, d, cursor[s])
          PROVE  i \in Coming(d)' \cup Open(d)' \/ Safe(s, d, i)'
      <4>1. CASE i \in Coming(d)'
        BY <4>1
      <4>2. CASE i \in InWriter(d)'
        <5>1. PICK j \in DOMAIN g : Doc(g[j]) = d /\ g[j].pos = i
          BY <3>3, <4>2 DEF PositionsOf
        <5>2. CASE j \in Models(g)
          BY <3>3, <5>1, <5>2 DEF PositionsOf
        <5>3. CASE j \in bad
          BY <1>15, <5>1, <5>3 DEF Safe
        <5> QED BY <1>16, <5>1, <5>2, <5>3
      <4>3. CASE Safe(s, d, i)
        BY <1>1, <1>17, <4>3 DEF Safe
      <4> QED BY <2>1, <3>2, <3>4, <4>1, <4>2, <4>3 DEF Accounted
    <3>6. Accounted(s, d)'
      BY <2>2, <3>5 DEF Accounted
    <3>7. Passed(s, d)'
      BY <1>1, <2>1, <2>2, <3>2, <3>4 DEF Passed
    <3> QED BY <3>6, <3>7
  <2>4. CASE WorkerOf[d] # w
    <3>1. Coming(d)' = Coming(d)
      BY <1>10, <2>1, <2>4 DEF Coming, Doc
    <3>2. InWriter(d)' = InWriter(d) /\ Open(d)' = Open(d)
      BY <1>6, <2>1, <2>4, WriterViewKept
    <3>3. \A i \in DOMAIN g : Doc(g[i]) # d
      BY <1>2, <1>4, <1>5, <2>4 DEF RouteInv, Routed
    <3>4. dlq'[d] = dlq[d]
      BY <1>15, <3>3 DEF bad
    <3> QED BY <1>1, <1>7, <2>1, <3>1, <3>2, <3>4, DocIsKept
  <2> QED BY <2>3, <2>4
<1>19. ASSUME NEW v \in Workers PROVE Rejected(v)'
  <2>1. CASE v = w
    <3>1. \A i \in DOMAIN g : ~Transforms(g[i]) => dlq'[Doc(g[i])] # 0
      <4> SUFFICES ASSUME NEW i \in DOMAIN g, ~Transforms(g[i]) PROVE dlq'[Doc(g[i])] # 0
        OBVIOUS
      <4>1. i \in bad /\ Doc(g[i]) \in Docs
        BY <1>0, <1>5, LiveEvents DEF bad
      <4> QED BY <1>15, <4>1
    <3> QED BY <1>6, <2>1, <3>1 DEF Rejected, Transforms, Doc
  <2>2. CASE v # w
    <3>1. PICK h : h = writer[v].group
      OBVIOUS
    <3>2. h \in Seq(Live)
      BY <1>0, <3>1, PathIsLive
    <3>3. \A i \in DOMAIN h : Doc(h[i]) \in Docs
      <4>1. \A i \in DOMAIN h : h[i] \in Live
        BY <3>2, LenProperties, ElementOfSeq
      <4> QED BY <1>0, <4>1, LiveEvents
    <3>4. writer[v].stage = "bulk" =>
            \A i \in DOMAIN h : ~Transforms(h[i]) => dlq[Doc(h[i])] # 0
      BY <1>0, <3>1 DEF DocsInv, Rejected
    <3>5. writer[v].stage = "bulk" =>
            \A i \in DOMAIN h : ~Transforms(h[i]) => dlq'[Doc(h[i])] # 0
      BY <1>17, <3>3, <3>4
    <3>6. writer'[v].group = h /\ writer'[v].stage = writer[v].stage
      BY <1>6, <2>2, <3>1
    <3> QED BY <3>5, <3>6 DEF Rejected, Transforms, Doc
  <2> QED BY <2>1, <2>2
<1>20. DocsInv'
  BY <1>18, <1>19 DEF DocsInv
<1> QED BY <1>13, <1>14, <1>20 DEF LossKept

(* The resolution scan: a failure it clears is of an operation the target  *)
(* reflects, or one the scan itself loses.                                 *)
LEMMA ResolveKeepsLoss ==
  ASSUME LossInv, NEW w \in Workers, WriterResolve(w)
  PROVE  LossKept
<1>0. PipeInv /\ OrderInv /\ DocsInv
  BY DEF LossInv
<1> DEFINE g == writer[w].group
           ok == writer[w].ok
<1>1. /\ UNCHANGED trackerVars /\ WriterFrame /\ UNCHANGED <<batchWriteQueue, target>>
      /\ writer[w].stage = "resolve"
      /\ dlq' = [d \in Docs |-> IF \E i \in ok : Doc(g[i]) = d THEN 0 ELSE dlq[d]]
      /\ unwritten' = [s \in Streams |-> unwritten[s] \cup WronglyResolved(s, g, ok)]
      /\ writer' = [writer EXCEPT ![w] = [writer[w] EXCEPT !.stage = "ack", !.ok = {}]]
  BY DEF WriterResolve
<1>2. /\ g \in Seq(Live) /\ DOMAIN g = 1..Len(g) /\ writer[w].todo \subseteq DOMAIN g
      /\ ok \subseteq DOMAIN g
  BY <1>0, <1>1, GroupAtWork
<1>3. /\ writer'[w].stage = "ack" /\ writer'[w].group = g /\ writer'[w].todo = writer[w].todo
      /\ \A v \in Workers : v # w => writer'[v] = writer[v]
  <2>1. PICK wr : wr = [writer[w] EXCEPT !.stage = "ack", !.ok = {}]
    OBVIOUS
  <2>2. writer[w] \in [stage : WriterStages, group : Groups \cup {<< >>}, fresh : BOOLEAN,
                       todo : SUBSET Nat, ok : SUBSET Nat]
    BY <1>0 DEF PipeInv, WriterTypes, WriterStates
  <2>3. wr.stage = "ack" /\ wr.group = g /\ wr.todo = writer[w].todo
    BY <2>1, <2>2
  <2>4. writer'[w] = wr /\ \A v \in Workers : v # w => writer'[v] = writer[v]
    BY <1>0, <1>1, <2>1, WriterMoves
  <2> QED BY <2>3, <2>4
<1>4. Unacked(w)' \subseteq Unacked(w)
  BY <1>1, <1>2, <1>3 DEF Unacked
<1>5. \A s \in Streams : unwritten[s] \subseteq unwritten'[s]
  BY <1>1
<1>6. ASSUME NEW d \in Docs, \A i \in DOMAIN g : Doc(g[i]) # d
      PROVE  target'[d] = target[d] /\ dlq'[d] = dlq[d]
  BY <1>1, <1>2, <1>6
<1>7. ASSUME NEW s \in Streams, NEW d \in Docs, NEW i \in Writes(s, d, cursor[s]),
             WorkerOf[d] = w, i \notin Coming(d), i \in Open(d) \/ Safe(s, d, i)
      PROVE  Safe(s, d, i)'
  <2>1. Open(d) = {} /\ InWriter(d) = PositionsOf(d, g, DOMAIN g)
    BY <1>1, <1>7 DEF Open, InWriter, PositionsOf, Undecided
  <2>2. Safe(s, d, i)
    BY <1>7, <2>1
  <2>3. CASE target[d] >= i \/ i \in unwritten[s]
    BY <1>1, <1>5, <2>3 DEF Safe
  <2>4. CASE ~(target[d] >= i) /\ i \notin unwritten[s] /\ ~(\E j \in ok : Doc(g[j]) = d)
    BY <1>1, <2>2, <2>4 DEF Safe
  <2>5. CASE ~(target[d] >= i) /\ i \notin unwritten[s] /\ \E j \in ok : Doc(g[j]) = d
    <3>1. i \in 1..cursor[s] /\ Log[s][i].doc = d /\ i \in Nat
      BY <1>0 DEF Writes, PipeInv, TrackerInv, TrackerTypeOK
    <3>2. dlq[d] # 0 /\ target[d] < i
      <4>1. target[d] \in Nat
        BY <1>0 DEF PipeInv, DataTypes
      <4> QED BY <2>2, <2>5, <3>1, <4>1 DEF Safe
    <3>3. \E k \in DOMAIN g : Doc(g[k]) = d /\ i <= g[k].pos
      <4>1. CASE i \in InWriter(d)
        <5>1. PICK k \in DOMAIN g : Doc(g[k]) = d /\ g[k].pos = i
          BY <2>1, <4>1 DEF PositionsOf
        <5> QED BY <3>1, <5>1
      <4>2. CASE \A j \in InWriter(d) : i < j
        <5>1. PICK k \in DOMAIN g : Doc(g[k]) = d
          BY <1>2, <2>5
        <5>2. i < g[k].pos /\ g[k].pos \in Nat
          <6>1. g[k] \in Live
            BY <1>2, <5>1, ElementOfSeq
          <6>2. g[k].pos \in InWriter(d)
            BY <2>1, <5>1 DEF PositionsOf
          <6> QED BY <4>2, <6>1, <6>2 DEF Live, Event
        <5> QED BY <3>1, <5>1, <5>2
      <4>3. Passed(s, d)
        BY <1>0 DEF DocsInv
      <4> QED BY <1>7, <2>5, <4>1, <4>2, <4>3 DEF Passed
    <3>4. i \in WronglyResolved(s, g, ok)
      BY <2>5, <3>1, <3>2, <3>3 DEF WronglyResolved
    <3> QED BY <1>1, <3>4 DEF Safe
  <2> QED BY <2>3, <2>4, <2>5
<1>8. \A d \in Docs : (\A i \in DOMAIN writer[w].group : Doc(writer[w].group[i]) # d) =>
            target'[d] = target[d] /\ dlq'[d] = dlq[d]
  BY <1>6
<1> HIDE DEF g, ok
<1>9. writer'[w].group = writer[w].group
  BY <1>3 DEF g
<1> QED BY <1>1, <1>3, <1>4, <1>5, <1>7, <1>8, <1>9, WriterKeepsLoss

(* The deferred Acks: only the operation acknowledged stops waiting, and   *)
(* with the last one the group has passed.                                 *)
LEMMA AckKeepsLoss ==
  ASSUME LossInv, NEW w \in Workers, WriterAck(w)
  PROVE  LossKept
<1>0. PipeInv /\ OrderInv /\ UnackedInv /\ DocsInv
  BY DEF LossInv
<1>1. PICK g, c, e, rest :
        g = writer[w].group /\ c = Current(w) /\ e = writer[w].group[Current(w)]
        /\ rest = writer[w].todo \ {Current(w)}
  OBVIOUS
<1>2. /\ WriterFrame /\ UNCHANGED <<batchWriteQueue, target, dlq, unwritten>>
      /\ writer[w].stage = "ack" /\ AckEvent(e)
      /\ writer' = [writer EXCEPT ![w] =
           IF rest = {} THEN IdleWriter ELSE [writer[w] EXCEPT !.todo = rest]]
  BY <1>1 DEF WriterAck, dataVars
<1>3. g \in Seq(Live) /\ InOrder(g) /\ DOMAIN g = 1..Len(g) /\ writer[w].todo \subseteq DOMAIN g
  BY <1>0, <1>1, <1>2, GroupAtWork
<1>4. c \in DOMAIN g /\ e = g[c] /\ e \in Live /\ e \in Range(g)
  <2>1. WriterTypes /\ writer[w].todo # {}
    BY <1>0, <1>2 DEF PipeInv, WriterTypes, WriterStates
  <2>2. c \in writer[w].todo
    BY <1>1, <2>1, CurrentIsFirst
  <2> QED BY <1>1, <1>3, <2>2, ElementOfSeq DEF Range
<1>5. UNCHANGED cursor
  BY <1>2 DEF AckEvent, Ack
<1>6. /\ \A v \in Workers : v # w => writer'[v] = writer[v]
      /\ rest = {} => writer'[w] = IdleWriter
      /\ rest # {} => /\ writer'[w].stage = "ack" /\ writer'[w].group = g
                      /\ writer'[w].todo = rest
  <2>1. PICK wr : wr = IF rest = {} THEN IdleWriter ELSE [writer[w] EXCEPT !.todo = rest]
    OBVIOUS
  <2>2. writer[w] \in [stage : WriterStages, group : Groups \cup {<< >>}, fresh : BOOLEAN,
                       todo : SUBSET Nat, ok : SUBSET Nat]
    BY <1>0 DEF PipeInv, WriterTypes, WriterStates
  <2>3. rest # {} => wr.stage = "ack" /\ wr.group = g /\ wr.todo = rest
    BY <1>1, <1>2, <2>1, <2>2
  <2>4. writer'[w] = wr /\ \A v \in Workers : v # w => writer'[v] = writer[v]
    BY <1>0, <1>2, <2>1, WriterMoves
  <2> QED BY <2>1, <2>3, <2>4
<1>7. writer'[w].group = g \/ writer'[w].group = << >>
  BY <1>6 DEF IdleWriter
<1>8. OrderInv' /\ \A v \in Workers : Upstream(v)' = Upstream(v)
  <2>1. \/ /\ writer'[w].group = writer[w].group
           /\ writer'[w].stage = "idle" => writer[w].stage = "idle"
        \/ writer'[w].group = << >>
    BY <1>1, <1>6 DEF IdleWriter
  <2> QED BY <1>0, <1>2, <1>6, <2>1, WriterKeepsOrder
<1>9. \A f \in Live : Waits(f) /\ (e.stream = f.stream => e.pos # f.pos) => Waits(f)'
  BY <1>0, <1>2, <1>4, AckKeepsWaiting
<1>10. \A v \in Workers : v # w => \A f \in Live : WorkerOf[Doc(f)] = v =>
          (e.stream = f.stream => e.pos # f.pos)
  <2>1. WorkerOf[Doc(e)] = w
    BY <1>0, <1>1, <1>4 DEF OrderInv, RouteInv, Routed
  <2> QED BY <2>1 DEF Doc
<1>11. UnackedInv'
  <2>1. AllBefore(Range(g), Upstream(w)) /\ Upstream(w) \subseteq Live
    BY <1>0, <1>1, PathIsLive DEF OrderInv, WriterOrder
  <2>2. \A f \in Upstream(w) : e.stream = f.stream => e.pos # f.pos
    BY <1>4, <2>1 DEF AllBefore, Before, Live, Event
  <2>3. ASSUME NEW v \in Workers, NEW f \in Upstream(v) PROVE Waits(f)'
    <3>1. f \in Live /\ Waits(f)
      BY <1>0, <2>3, PathIsLive DEF UnackedInv
    <3>2. e.stream = f.stream => e.pos # f.pos
      <4>1. CASE f \in Undealt
        BY <2>2, <4>1 DEF Upstream, Ungrouped, Unbatched
      <4>2. CASE f \notin Undealt /\ v # w
        <5>1. WorkerOf[Doc(f)] = v
          BY <1>0, <2>3, <4>2 DEF OrderInv, RouteInv, Routed, Upstream, Ungrouped, Unbatched
        <5> QED BY <1>10, <3>1, <4>2, <5>1
      <4>3. CASE v = w
        BY <2>2, <2>3, <4>3
      <4> QED BY <4>1, <4>2, <4>3
    <3> QED BY <1>9, <3>1, <3>2
  <2>4. ASSUME NEW v \in Workers, v # w PROVE (\A i \in Unacked(v) : Waits(writer[v].group[i]))'
    <3>1. PICK h : h = writer[v].group
      OBVIOUS
    <3>2. h \in Seq(Live) /\ DOMAIN h = 1..Len(h) /\ writer[v].todo \subseteq 1..Len(h)
      BY <1>0, <3>1, PathIsLive, LenProperties DEF PipeInv, WriterTypes, WriterStates
    <3>3. Unacked(v)' = Unacked(v) /\ Unacked(v) \subseteq 1..Len(h) /\ writer'[v].group = h
      BY <1>6, <2>4, <3>1, <3>2 DEF Unacked
    <3>4. ASSUME NEW i \in Unacked(v) PROVE Waits(h[i])'
      <4>1. h[i] \in Live /\ h[i] \in Range(h) /\ Waits(h[i])
        BY <1>0, <3>1, <3>2, <3>3, ElementOfSeq DEF UnackedInv, Range
      <4>2. WorkerOf[Doc(h[i])] = v
        BY <1>0, <3>1, <4>1 DEF OrderInv, RouteInv, Routed
      <4> QED BY <1>9, <1>10, <2>4, <4>1, <4>2
    <3> QED BY <3>3, <3>4 DEF Waits
  <2>5. (\A i \in Unacked(w) : Waits(writer[w].group[i]))'
    <3>1. CASE rest = {}
      <4>1. Unacked(w)' = {}
        BY <1>6, <3>1 DEF IdleWriter, Unacked
      <4> QED BY <4>1
    <3>2. CASE rest # {}
      <4>1. Unacked(w)' = rest /\ writer'[w].group = g
        BY <1>6, <3>2 DEF Unacked
      <4>2. ASSUME NEW i \in rest PROVE Waits(g[i])'
        <5>1. i \in DOMAIN g /\ i # c /\ i \in Unacked(w)
          BY <1>1, <1>2, <1>3, <4>2 DEF Unacked
        <5>2. g[i] \in Live /\ Waits(g[i])
          BY <1>0, <1>1, <1>3, <5>1, ElementOfSeq DEF UnackedInv
        <5>3. e.stream = g[i].stream => e.pos # g[i].pos
          <6>1. i < c \/ c < i
            BY <1>3, <1>4, <5>1
          <6>2. Before(g[i], g[c]) \/ Before(g[c], g[i])
            BY <1>3, <1>4, <5>1, <6>1 DEF InOrder
          <6> QED BY <1>4, <5>2, <6>2 DEF Before, Live, Event
        <5> QED BY <1>9, <5>2, <5>3
      <4> QED BY <4>1, <4>2 DEF Waits
    <3> QED BY <3>1, <3>2
  <2>6. \A v \in Workers : (\A f \in Upstream(v) : Waits(f))'
    BY <1>8, <2>3 DEF Waits
  <2> QED BY <2>4, <2>5, <2>6 DEF UnackedInv
<1>12. ASSUME NEW s \in Streams, NEW d \in Docs PROVE Accounted(s, d)' /\ Passed(s, d)'
  <2>1. Accounted(s, d) /\ Passed(s, d) /\ WorkerOf[d] \in Workers
    BY <1>0, WorkerAssumption DEF DocsInv
  <2>2. Coming(d)' = Coming(d) /\ Writes(s, d, cursor[s])' = Writes(s, d, cursor[s])
    BY <1>5, <1>8, <2>1 DEF Coming, Doc, Writes
  <2>3. CASE WorkerOf[d] # w
    <3>1. InWriter(d)' = InWriter(d) /\ Open(d)' = Open(d)
      BY <1>6, <2>1, <2>3, WriterViewKept
    <3> QED BY <1>2, <1>5, <2>1, <2>2, <3>1, DocIsKept
  <2>4. CASE WorkerOf[d] = w
    <3>1. Open(d) = {} /\ Open(d)' = {}
      <4>1. Undecided(w) = {} /\ Undecided(w)' = {}
        BY <1>2, <1>6 DEF Undecided, IdleWriter
      <4> QED BY <2>4, <4>1 DEF Open, PositionsOf
    <3>2. Accounted(s, d)'
      BY <1>2, <2>1, <2>2, <3>1 DEF Accounted, Safe
    <3>3. InWriter(d) = PositionsOf(d, g, DOMAIN g)
      BY <1>1, <2>4 DEF InWriter
    <3>4. CASE writer'[w].group = g
      <4>1. InWriter(d)' = InWriter(d)
        BY <2>4, <3>3, <3>4 DEF InWriter, PositionsOf, Doc
      <4> QED BY <1>2, <2>1, <2>2, <3>2, <4>1 DEF Passed
    <3>5. CASE writer'[w].group = << >>
      <4>1. InWriter(d)' = {}
        BY <2>4, <3>5 DEF InWriter, PositionsOf
      <4>2. ASSUME NEW i \in Writes(s, d, cursor[s]), i \in InWriter(d)
            PROVE  \A j \in Coming(d) : i < j
        <5>1. PICK k \in DOMAIN g : Doc(g[k]) = d /\ g[k].pos = i
          BY <3>3, <4>2 DEF PositionsOf
        <5>2. g[k] \in Live /\ g[k] \in Range(g)
          BY <1>3, <5>1, ElementOfSeq DEF Range
        <5>3. ASSUME NEW j \in Coming(d) PROVE i < j
          <6>1. PICK f \in Upstream(w) : Doc(f) = d /\ f.pos = j
            BY <2>4, <5>3 DEF Coming
          <6>2. f \in Live
            BY <1>0, PathIsLive
          <6>3. f.stream = s /\ g[k].stream = s
            BY <1>0, <5>1, <5>2, <6>1, <6>2, OneStreamPerDoc
          <6>4. Before(g[k], f)
            BY <1>0, <1>1, <5>2, <6>1 DEF OrderInv, WriterOrder, AllBefore
          <6> QED BY <5>1, <6>1, <6>3, <6>4 DEF Before
        <5> QED BY <5>3
      <4>3. Passed(s, d)'
        BY <1>2, <2>1, <2>2, <4>1, <4>2 DEF Passed
      <4> QED BY <3>2, <4>3
    <3> QED BY <1>7, <3>4, <3>5
  <2> QED BY <2>3, <2>4
<1>13. ASSUME NEW v \in Workers PROVE Rejected(v)'
  <2>1. CASE v = w
    BY <1>6, <2>1 DEF Rejected, IdleWriter
  <2>2. CASE v # w
    <3>1. Rejected(v) /\ writer'[v] = writer[v] /\ dlq' = dlq
      BY <1>0, <1>2, <1>6, <2>2 DEF DocsInv
    <3> QED BY <3>1 DEF Rejected, Transforms, Doc
  <2> QED BY <2>1, <2>2
<1>14. DocsInv'
  BY <1>12, <1>13 DEF DocsInv
<1> QED BY <1>8, <1>11, <1>14 DEF LossKept

LEMMA WriterStepKeepsLoss ==
  ASSUME LossInv, NEW w \in Workers, WriterStep(w)
  PROVE  LossKept
BY TakeKeepsLoss, BulkKeepsLoss, RetryKeepsLoss, ResolveKeepsLoss, AckKeepsLoss DEF WriterStep

-----------------------------------------------------------------------------

LEMMA TokenIsBehindCursor ==
  ASSUME PipeInv, NEW s \in Streams
  PROVE  tokenFile[s] \in Nat /\ cursor[s] \in Nat /\ tokenFile[s] <= cursor[s]
<1> DEFINE n == Len(pendingSeqs[s])
<1>1. Ledger(Issued(s), pendingSeqs[s], unackedEvents[s], lastCheckpointSeq[s],
             cursor[s], tokenFile[s], settled[s])
  BY DEF PipeInv, TrackerInv, StreamInv
<1>2. cursor[s] \in Nat /\ n \in Nat /\ tokenFile[s] \in Nat /\ tokenFile[s] <= cursor[s] - n
  BY <1>1, LenProperties DEF Ledger, PendingShape, PrunedIsDone
<1> HIDE DEF n
<1> QED BY <1>2

(* The writes a saved token covers, and those not in flight, are safe.     *)
LEMMA WaitingIsUnsafeOnly ==
  ASSUME LossInv, NEW s \in Streams, NEW d \in Docs, NEW i \in Writes(s, d, cursor[s]),
         i <= tokenFile[s] \/ i \notin InFlight(s)
  PROVE  Safe(s, d, i)
<1>0. PipeInv /\ OrderInv /\ UnackedInv /\ Accounted(s, d)
  BY DEF LossInv, DocsInv
<1> DEFINE w == WorkerOf[d]
<1>1. w \in Workers
  BY WorkerAssumption
<1>2. ASSUME NEW e \in Live, Doc(e) = d, Waits(e) PROVE e.pos # i
  <2>1. e.stream = s
    BY <1>0, <1>2, OneStreamPerDoc
  <2>2. e.pos > tokenFile[s] /\ e.pos \in InFlight(s) /\ e.pos \in Nat
    BY <1>0, <1>2, <2>1, WaitingIsAhead DEF Live, Event
  <2>3. tokenFile[s] \in Nat /\ i \in Nat
    BY <1>0, TokenIsBehindCursor DEF Writes
  <2> QED BY <2>2, <2>3
<1>3. i \notin Coming(d)
  <2>1. \A e \in Upstream(w) : e \in Live /\ Waits(e)
    BY <1>0, <1>1, PathIsLive DEF UnackedInv
  <2> QED BY <1>2, <2>1 DEF Coming
<1>4. i \notin Open(d)
  <2>1. CASE writer[w].stage \notin {"bulk", "retry"}
    BY <2>1 DEF Open, PositionsOf, Undecided
  <2>2. CASE writer[w].stage \in {"bulk", "retry"}
    <3>1. PICK g : g = writer[w].group
      OBVIOUS
    <3>2. g \in Seq(Live) /\ DOMAIN g = 1..Len(g) /\ writer[w].todo \subseteq DOMAIN g
      BY <1>0, <1>1, <2>2, <3>1, GroupAtWork
    <3>3. Undecided(w) \subseteq DOMAIN g /\ Unacked(w) = DOMAIN g
      BY <2>2, <3>1, <3>2 DEF Undecided, Unacked, Models
    <3>4. \A j \in DOMAIN g : g[j] \in Live /\ Waits(g[j])
      BY <1>0, <1>1, <3>1, <3>2, <3>3, ElementOfSeq DEF UnackedInv
    <3>5. \A j \in DOMAIN g : Doc(g[j]) = d => g[j].pos # i
      BY <1>2, <3>4
    <3> QED BY <3>1, <3>3, <3>5 DEF Open, PositionsOf
  <2> QED BY <2>1, <2>2
<1> QED BY <1>0, <1>3, <1>4 DEF Accounted

(* Saves and a crash leave the goroutines alone.                           *)
LEMMA SaveKeepsLoss ==
  ASSUME LossInv, CloseTracker \/ TickerSave \/ ProcessCrash \/ Interrupt
  PROVE  LossKept
<1>0. PipeInv /\ OrderInv /\ UnackedInv
  BY DEF LossInv
<1>1. /\ UNCHANGED <<readerHand, ingestQueue, distHand, batchingQueue, currentGroup,
                     batchWriteQueue, writer>>
      /\ UNCHANGED <<target, dlq, unwritten>>
  BY DEF CloseTracker, TickerSave, ProcessCrash, Interrupt, goroutineVars, dataVars
<1>2. \/ SaveCheckpoints(unackedEvents, {})
      \/ UNCHANGED unackedEvents
  BY DEF CloseTracker, TickerSave, ProcessCrash, Interrupt, Close, PeriodicSave, Crash, trackerVars,
         trackerMemory
<1>3. UNCHANGED cursor
  BY DEF CloseTracker, TickerSave, ProcessCrash, Interrupt, Close, PeriodicSave, Crash, trackerVars,
         trackerMemory
<1>4. ASSUME NEW f \in Live, Waits(f) PROVE Waits(f)'
  <2>1. f.stream \in Streams
    BY DEF Live, Event
  <2>2. CASE SaveCheckpoints(unackedEvents, {})
    BY <1>0, <1>4, <2>1, <2>2, SaveKeepsWaiting DEF Waits
  <2>3. CASE UNCHANGED unackedEvents
    BY <1>4, <2>3 DEF Waits
  <2> QED BY <1>2, <2>2, <2>3
<1>5. Flow({}, {})
  BY <1>0, <1>1, QuietFrontFlows
<1>6. DocsInv'
  <2>1. \A e \in {} : Op(e) \notin Applied \/ e.pos \in unwritten'[e.stream]
    OBVIOUS
  <2>2. {} \in SUBSET Live /\ \A s \in Streams : unwritten[s] \subseteq unwritten'[s]
    BY <1>1
  <2> QED BY <1>1, <1>3, <1>5, <2>1, <2>2, FlowKeepsDocs
<1>7. UnackedInv'
  <2>1. ASSUME NEW w \in Workers
        PROVE  /\ (\A f \in Upstream(w) : Waits(f))'
               /\ (\A i \in Unacked(w) : Waits(writer[w].group[i]))'
    <3>1. Upstream(w)' \subseteq Upstream(w) /\ Upstream(w) \subseteq Live
      BY <1>0, <1>5, PathIsLive DEF Flow
    <3>2. \A f \in Upstream(w) : Waits(f)'
      BY <1>0, <1>4, <3>1 DEF UnackedInv
    <3>3. PICK h : h = writer[w].group
      OBVIOUS
    <3>4. h \in Seq(Live) /\ DOMAIN h = 1..Len(h) /\ writer[w].todo \subseteq 1..Len(h)
      BY <1>0, <3>3, PathIsLive, LenProperties DEF PipeInv, WriterTypes, WriterStates
    <3>5. Unacked(w)' = Unacked(w) /\ Unacked(w) \subseteq 1..Len(h) /\ writer'[w].group = h
      BY <1>1, <3>3, <3>4 DEF Unacked
    <3>6. \A i \in Unacked(w) : Waits(h[i])'
      BY <1>0, <1>4, <3>3, <3>4, <3>5, ElementOfSeq DEF UnackedInv
    <3> QED BY <3>1, <3>2, <3>5, <3>6 DEF Waits
  <2> QED BY <2>1 DEF UnackedInv
<1> QED BY <1>5, <1>6, <1>7 DEF LossKept, Flow

(* Nothing is on its way in a fresh process.                               *)
Fresh ==
  /\ ingestQueue = << >> /\ distHand = << >> /\ readerHand = [s \in Streams |-> << >>]
  /\ batchingQueue = [w \in Workers |-> << >>] /\ currentGroup = [w \in Workers |-> << >>]
  /\ batchWriteQueue = [w \in Workers |-> << >>] /\ writer = [w \in Workers |-> IdleWriter]
FreshFacts ==
  /\ OrderInv /\ UnackedInv /\ \A w \in Workers : Rejected(w)
  /\ \A d \in Docs : Coming(d) = {} /\ InWriter(d) = {} /\ Open(d) = {}

LEMMA FreshIsOrdered == Fresh => FreshFacts
<1> SUFFICES ASSUME Fresh PROVE FreshFacts
  OBVIOUS
<1> USE DEF Fresh
<1>1. AtReaders = {} /\ Unread = {} /\ Undealt = {}
  BY EmptyQueue DEF AtReaders, Unread, Undealt
<1>2. ASSUME NEW w \in Workers
      PROVE  /\ batchingQueue[w] = << >> /\ currentGroup[w] = << >> /\ batchWriteQueue[w] = << >>
             /\ writer[w].group = << >> /\ writer[w].stage = "idle" /\ DOMAIN writer[w].group = {}
             /\ Upstream(w) = {} /\ Unacked(w) = {} /\ Undecided(w) = {}
  <2>1. /\ batchingQueue[w] = << >> /\ currentGroup[w] = << >> /\ batchWriteQueue[w] = << >>
        /\ writer[w].group = << >> /\ writer[w].stage = "idle"
    BY DEF IdleWriter
  <2>2. DOMAIN writer[w].group = {}
    BY <2>1
  <2>3. Upstream(w) = {}
    BY <1>1, <2>1, EmptyQueue DEF Upstream, Ungrouped, Unbatched
  <2> QED BY <2>1, <2>2, <2>3 DEF Unacked, Undecided
<1>3. ReadOrder
  BY <1>1, EmptyQueue DEF ReadOrder, AllBefore
<1>4. ASSUME NEW w \in Workers PROVE LoopOrder(w) /\ WriterOrder(w) /\ RouteInv(w) /\ Rejected(w)
  <2>1. LoopOrder(w) /\ RouteInv(w)
    BY <1>2, EmptyQueue DEF LoopOrder, RouteInv, Routed, AllBefore
  <2>2. WriterOrder(w) /\ Rejected(w)
    BY <1>2, EmptyQueue DEF WriterOrder, AllBefore, Rejected
  <2> QED BY <2>1, <2>2
<1>5. UnackedInv
  BY <1>2 DEF UnackedInv
<1>6. ASSUME NEW d \in Docs PROVE Coming(d) = {} /\ InWriter(d) = {} /\ Open(d) = {}
  <2>1. WorkerOf[d] \in Workers
    BY WorkerAssumption
  <2> QED BY <1>2, <2>1 DEF Coming, InWriter, Open, PositionsOf
<1> QED BY <1>3, <1>4, <1>5, <1>6 DEF OrderInv, FreshFacts

(* A restart resumes behind the token: the writes it covers were safe      *)
(* before, and those behind it are read again.                             *)
LEMMA RestartKeepsLoss ==
  ASSUME LossInv, ProcessRestart
  PROVE  LossKept
<1>0. PipeInv
  BY DEF LossInv
<1>1. /\ cursor' = tokenFile /\ UNCHANGED <<target, dlq, unwritten>>
      /\ FreshGoroutines
  BY DEF ProcessRestart, Restart, dataVars
<1>2. FreshFacts'
  <2>1. Fresh'
    BY <1>1 DEF FreshGoroutines, IdleWriter, Fresh
  <2> QED BY <2>1, FreshIsOrdered, PTL
<1>3. ASSUME NEW s \in Streams, NEW d \in Docs PROVE Accounted(s, d)' /\ Passed(s, d)'
  <2>1. tokenFile[s] \in Nat /\ cursor[s] \in Nat /\ tokenFile[s] <= cursor[s]
    BY <1>0, TokenIsBehindCursor
  <2>2. \A i \in Writes(s, d, cursor[s])' : i \in Writes(s, d, cursor[s]) /\ i <= tokenFile[s]
    BY <1>1, <2>1 DEF Writes
  <2>3. \A i \in Writes(s, d, cursor[s])' : Safe(s, d, i)'
    BY <1>1, <2>2, WaitingIsUnsafeOnly DEF Safe
  <2>4. Accounted(s, d)'
    BY <2>3 DEF Accounted
  <2>5. Passed(s, d)'
    BY <1>2 DEF Passed, FreshFacts
  <2> QED BY <2>4, <2>5
<1> QED BY <1>2, <1>3 DEF LossKept, DocsInv, FreshFacts

LEMMA LossInvInit == Init => LossInv
<1> SUFFICES ASSUME Init PROVE LossInv
  OBVIOUS
<1>1. PipeInv
  BY PipeInvInit
<1>2. /\ OrderInv /\ UnackedInv /\ \A w \in Workers : Rejected(w)
      /\ \A d \in Docs : Coming(d) = {} /\ InWriter(d) = {} /\ Open(d) = {}
  BY FreshIsOrdered DEF Init, Fresh, FreshFacts
<1>3. \A s \in Streams, d \in Docs : Writes(s, d, cursor[s]) = {}
  BY DEF Init, TrackerInit, Writes
<1>4. \A s \in Streams, d \in Docs : Accounted(s, d) /\ Passed(s, d)
  BY <1>3 DEF Accounted, Passed
<1> QED BY <1>1, <1>2, <1>4 DEF LossInv, DocsInv

LEMMA LossInvInductive ==
  ASSUME LossInv, [Next]_vars
  PROVE  LossInv'
<1>1. PipeInv'
  BY PipeInvInductive DEF LossInv
<1>2. LossKept
  <2>1. CASE UNCHANGED vars
    <3>1. /\ UNCHANGED <<readerHand, ingestQueue, distHand, batchingQueue, currentGroup,
                         batchWriteQueue, writer>>
          /\ UNCHANGED <<writer, dataVars, trackerVars>>
      BY <2>1 DEF vars, goroutineVars
    <3>2. Flow({}, {})
      BY <3>1, QuietFrontFlows DEF LossInv
    <3> QED BY <3>1, <3>2, QuietKeepsLoss
  <2>2. ASSUME NEW s \in Streams, ReaderStep(s) PROVE LossKept
    BY <2>2, ReaderKeepsLoss
  <2>3. CASE DistributorStep
    BY <2>3, DistributorKeepsLoss
  <2>4. ASSUME NEW w \in Workers, LoopStep(w) PROVE LossKept
    BY <2>4, LoopKeepsLoss
  <2>5. ASSUME NEW w \in Workers, WriterStep(w) PROVE LossKept
    BY <2>5, WriterStepKeepsLoss
  <2>6. CASE CloseTracker \/ TickerSave \/ ProcessCrash \/ Interrupt
    BY <2>6, SaveKeepsLoss
  <2>7. CASE ProcessRestart
    BY <2>7, RestartKeepsLoss
  <2> QED BY <2>1, <2>2, <2>3, <2>4, <2>5, <2>6, <2>7 DEF Next
<1> QED BY <1>1, <1>2 DEF LossKept, LossInv

(* The last write of a document, when there is one.                        *)
LEMMA LastWrite ==
  ASSUME PipeInv, NEW s \in Streams, NEW d, NEW p \in Nat, Writes(s, d, p) # {}
  PROVE  Last(Writes(s, d, p)) \in Writes(s, d, p)
<1>1. Writes(s, d, p) \in SUBSET (1..p)
  BY DEF Writes
<1>2. \E i \in Writes(s, d, p) : \A j \in Writes(s, d, p) : j <= i
  BY <1>1, LastExists
<1> QED BY <1>2 DEF Last

(* The writes behind a token have been read, and none is on its way.       *)
LEMMA LossMeansGivenUp == LossInv => LossIsConfined
<1> SUFFICES ASSUME LossInv, NEW s \in Streams, NEW d \in Docs, Writes(s, d, tokenFile[s]) # {}
             PROVE  \/ target[d] >= Last(Writes(s, d, tokenFile[s])) \/ dlq[d] # 0
                    \/ Last(Writes(s, d, tokenFile[s])) \in unwritten[s]
  BY DEF LossIsConfined, SafeUpTo
<1>1. PipeInv
  BY DEF LossInv
<1>2. tokenFile[s] \in Nat /\ cursor[s] \in Nat /\ tokenFile[s] <= cursor[s]
  BY <1>1, TokenIsBehindCursor
<1>3. PICK i : i = Last(Writes(s, d, tokenFile[s]))
  OBVIOUS
<1>4. i \in Writes(s, d, tokenFile[s])
  BY <1>1, <1>2, <1>3, LastWrite
<1>5. i \in Writes(s, d, cursor[s]) /\ i <= tokenFile[s]
  BY <1>2, <1>4 DEF Writes
<1>6. Safe(s, d, i)
  BY <1>5, WaitingIsUnsafeOnly
<1> QED BY <1>3, <1>6 DEF Safe

(* Whatever the order of events, the failures of the target, the           *)
(* cancellations, crashes and restarts: each document behind a saved token *)
(* is in the target at least as new as the last event the token covers, or *)
(* in the DLQ, or one of the listed error paths of executeBatchWrite or of *)
(* the shutdown gave that very write up.                                   *)
THEOREM LossIsOnErrorPaths == Spec => []LossIsConfined
BY LossMeansGivenUp, LossInvInit, LossInvInductive, PTL DEF Spec

(* A document none of whose writes is in flight reflects the last one read *)
(* or is in the DLQ, or that write was given up on such a path.            *)
SettledOrGivenUp ==
  \A s \in Streams, d \in Docs :
    \/ InFlight(s) \cap Writes(s, d, cursor[s]) # {}
    \/ SafeUpTo(s, d, cursor[s])
    \/ Last(Writes(s, d, cursor[s])) \in unwritten[s]

LEMMA SettledHolds == LossInv => SettledOrGivenUp
<1> SUFFICES ASSUME LossInv, NEW s \in Streams, NEW d \in Docs, Writes(s, d, cursor[s]) # {},
                    InFlight(s) \cap Writes(s, d, cursor[s]) = {}
             PROVE  \/ target[d] >= Last(Writes(s, d, cursor[s])) \/ dlq[d] # 0
                    \/ Last(Writes(s, d, cursor[s])) \in unwritten[s]
  BY DEF SettledOrGivenUp, SafeUpTo
<1>1. PipeInv
  BY DEF LossInv
<1>2. cursor[s] \in Nat
  BY <1>1, TokenIsBehindCursor
<1>3. PICK i : i = Last(Writes(s, d, cursor[s]))
  OBVIOUS
<1>4. i \in Writes(s, d, cursor[s])
  BY <1>1, <1>2, <1>3, LastWrite
<1>5. Safe(s, d, i)
  BY <1>4, WaitingIsUnsafeOnly
<1> QED BY <1>3, <1>5 DEF Safe

(* In every run, with or without an error path, a write that has been read *)
(* is in flight, superseded, in the target, in the DLQ, or given up: none  *)
(* disappears between the queues.                                          *)
THEOREM NoWriteDisappears == Spec => []SettledOrGivenUp
BY SettledHolds, LossInvInit, LossInvInductive, PTL DEF Spec

-----------------------------------------------------------------------------
(* Runs without an error path but the retry without upsert: groups of      *)
(* distinct documents in unordered bulk writes, events that all transform, *)
(* no drop of a collection, and nobody cancels.  Operations may still      *)
(* fail, writes may clash with other documents, and the process may crash  *)
(* and restart.                                                            *)

CleanRun ==
  /\ Streams # {} /\ GroupOpsByDistinctId /\ ~ForceOrdered
  /\ Untransformable = {} /\ ~MayCancel
  /\ \A s \in Streams : \A i \in DOMAIN Log[s] : Log[s][i].op # "drop"

(* Nothing stops, and no write is given up but those that a clash may make *)
(* vanish.                                                                 *)
OnlyVanished == \A s \in Streams : unwritten[s] \subseteq Vanishable(s)
Undisturbed ==
  ~cancelled /\ readerDone = {} /\ ~distDone /\ OnlyVanished

(* A group holds one operation of a document.                              *)
Distinct(g) == \A i, j \in DOMAIN g : i # j => Doc(g[i]) # Doc(g[j])
GroupsDistinct ==
  \A w \in Workers : /\ Distinct(currentGroup[w])
                     /\ \A g \in Range(batchWriteQueue[w]) : Distinct(g)
                     /\ Distinct(writer[w].group)

(* The operations counted as successes are in the target, or may vanish.   *)
InTarget(e) ==
  target[Doc(e)] >= e.pos \/ e.pos \in Vanishable(e.stream)
OkIsWritten(w) ==
  /\ writer[w].stage = "bulk" => writer[w].ok = {}
  /\ \A j \in writer[w].ok : InTarget(writer[w].group[j])

CleanInv ==
  LossInv /\ Undisturbed /\ GroupsDistinct /\ \A w \in Workers : OkIsWritten(w)
CleanKept == Undisturbed' /\ GroupsDistinct' /\ \A w \in Workers : OkIsWritten(w)'

(* A group that takes in an event of a document it does not hold.          *)
LEMMA AppendIsDistinct ==
  ASSUME NEW group \in Seq(Live), NEW e \in Live, Distinct(group),
         \A i \in DOMAIN group : Doc(group[i]) # Doc(e)
  PROVE  Distinct(Append(group, e))
<1> DEFINE h == Append(group, e)
<1>1. /\ Len(group) \in Nat /\ DOMAIN group = 1..Len(group)
      /\ DOMAIN h = 1..(Len(group) + 1)
      /\ \A i \in 1..Len(group) : h[i] = group[i]
      /\ h[Len(group) + 1] = e
  BY AppendProperties, LenProperties
<1> HIDE DEF h
<1>2. ASSUME NEW i \in DOMAIN h, NEW j \in DOMAIN h, i # j PROVE Doc(h[i]) # Doc(h[j])
  <2>1. CASE i \in 1..Len(group) /\ j \in 1..Len(group)
    BY <1>1, <1>2, <2>1 DEF Distinct
  <2>2. CASE i \in 1..Len(group) /\ j = Len(group) + 1
    BY <1>1, <2>2
  <2>3. CASE i = Len(group) + 1 /\ j \in 1..Len(group)
    BY <1>1, <2>3
  <2> QED BY <1>1, <1>2, <2>1, <2>2, <2>3
<1>3. Distinct(h)
  BY <1>2 DEF Distinct
<1> QED BY <1>3 DEF h

LEMMA SmallIsDistinct == Distinct(<< >>) /\ \A e : Distinct(<<e>>)
BY DEF Distinct

(* ProcessEvent starts a new group rather than join two operations of a    *)
(* document.                                                               *)
LEMMA GroupsStayDistinct ==
  ASSUME CleanRun, NEW group \in Groups \cup {<< >>}, NEW e \in Live, Distinct(group)
  PROVE  (\A g \in Range(Pushed(group, e)) : Distinct(g)) /\ Distinct(Kept(group, e))
<1> DEFINE next == IF NeedNewGroup(group, e) THEN <<e>> ELSE Append(group, e)
<1>1. group \in Seq(Live)
  <2>1. << >> \in Seq(Live)
    OBVIOUS
  <2> QED BY <2>1 DEF Groups
<1>2. Distinct(next) /\ next \in Seq(Live)
  <2>1. CASE NeedNewGroup(group, e)
    BY <2>1, SmallIsDistinct
  <2>2. CASE ~NeedNewGroup(group, e)
    <3>1. \A i \in DOMAIN group : Doc(group[i]) # Doc(e)
      BY <2>2 DEF NeedNewGroup, CleanRun
    <3> QED BY <1>1, <2>2, <3>1, AppendIsDistinct, AppendProperties
  <2> QED BY <2>1, <2>2
<1> DEFINE first == IF NeedNewGroup(group, e) /\ group # << >> THEN <<group>> ELSE << >>
           second == IF Len(next) >= BatchSize THEN <<next>> ELSE << >>
<1>3. /\ Pushed(group, e) = first \o second
      /\ Kept(group, e) = IF Len(next) >= BatchSize THEN << >> ELSE next
  BY DEF Pushed, Kept
<1> HIDE DEF next
<1>4. /\ first \in Seq(Seq(Live)) /\ second \in Seq(Seq(Live))
      /\ Range(first) \subseteq {group} /\ Range(second) \subseteq {next}
  BY <1>1, <1>2, SingletonQueue, EmptyQueue
<1> HIDE DEF first, second
<1>5. Range(first \o second) = Range(first) \cup Range(second)
  BY <1>4, JoinOfOrdered
<1>6. Distinct(Kept(group, e))
  BY <1>2, <1>3, SmallIsDistinct
<1> QED BY <1>2, <1>3, <1>4, <1>5, <1>6

(* The readers and the distributor go on.                                  *)
LEMMA FrontKeepsClean ==
  ASSUME CleanRun, CleanInv, (\E s \in Streams : ReaderStep(s)) \/ DistributorStep
  PROVE  CleanKept
<1>0. PipeInv /\ Undisturbed /\ GroupsDistinct /\ \A w \in Workers : OkIsWritten(w)
  BY DEF CleanInv, LossInv
<1>1. /\ UNCHANGED <<cancelled, readerDone, distDone>>
      /\ UNCHANGED <<unwritten, target, writer, currentGroup, batchWriteQueue>>
  <2>1. ASSUME NEW s \in Streams, ReaderStep(s)
        PROVE  /\ UNCHANGED <<cancelled, readerDone, distDone>>
               /\ UNCHANGED <<unwritten, target, writer, currentGroup, batchWriteQueue>>
    BY <1>0, <2>1 DEF ReaderStep, ReaderNext, ReaderPush, ReaderAbandon, ReaderStop, dataVars,
                      Undisturbed, CleanRun
  <2>2. ASSUME DistTake
        PROVE  /\ UNCHANGED <<cancelled, readerDone, distDone>>
               /\ UNCHANGED <<unwritten, target, writer, currentGroup, batchWriteQueue>>
    <3>1. PICK e : e = Head(ingestQueue)
      OBVIOUS
    <3>2. e \in Live
      BY <1>0, <2>2, <3>1, HeadTailProperties DEF DistTake, PipeInv, ReadTypes
    <3>3. Op(e) # "drop"
      BY <1>0, <3>2, LiveEvents DEF Op, CleanRun
    <3> QED BY <2>2, <3>1, <3>3 DEF DistTake, dataVars
  <2>3. ASSUME DistPush \/ DistAbandon \/ DistStop
        PROVE  /\ UNCHANGED <<cancelled, readerDone, distDone>>
               /\ UNCHANGED <<unwritten, target, writer, currentGroup, batchWriteQueue>>
    BY <1>0, <2>3 DEF DistPush, DistAbandon, DistStop, dataVars, Undisturbed, CleanRun
  <2> QED BY <2>1, <2>2, <2>3 DEF DistributorStep
<1> QED BY <1>0, <1>1 DEF CleanKept, Undisturbed, OnlyVanished, GroupsDistinct, OkIsWritten, InTarget

LEMMA LoopKeepsClean ==
  ASSUME CleanRun, CleanInv, NEW w \in Workers, LoopStep(w)
  PROVE  CleanKept
<1>0. PipeInv /\ Undisturbed /\ GroupsDistinct /\ \A v \in Workers : OkIsWritten(v)
  BY DEF CleanInv, LossInv
<1>1. UNCHANGED <<cancelled, readerDone, distDone, unwritten, target, writer>>
  BY DEF LoopStep, ProcessEvent, TimeoutFlush, LoopStop, dataVars
<1>2. \A v \in Workers : /\ currentGroup[v] \in Groups \cup {<< >>}
                         /\ batchWriteQueue[v] \in Seq(Groups)
  BY <1>0 DEF PipeInv, LoopTypes
<1>3. /\ Distinct(currentGroup[w]) /\ \A g \in Range(batchWriteQueue[w]) : Distinct(g)
  BY <1>0 DEF GroupsDistinct
<1>4. \A v \in Workers : /\ Distinct(currentGroup'[v])
                         /\ \A g \in Range(batchWriteQueue'[v]) : Distinct(g)
  <2>1. ASSUME NEW kept, NEW pushed \in Seq(Groups), Distinct(kept),
               \A g \in Range(pushed) : Distinct(g),
               currentGroup' = [currentGroup EXCEPT ![w] = kept],
               batchWriteQueue' = [batchWriteQueue EXCEPT ![w] = batchWriteQueue[w] \o pushed]
        PROVE  \A v \in Workers : /\ Distinct(currentGroup'[v])
                                  /\ \A g \in Range(batchWriteQueue'[v]) : Distinct(g)
    <3>1. Range(batchWriteQueue[w] \o pushed) = Range(batchWriteQueue[w]) \cup Range(pushed)
      BY <1>2, JoinOfOrdered
    <3>2. currentGroup'[w] = kept /\ batchWriteQueue'[w] = batchWriteQueue[w] \o pushed
      BY <1>0, <2>1 DEF PipeInv, LoopTypes
    <3>3. \A v \in Workers : v # w => /\ currentGroup'[v] = currentGroup[v]
                                      /\ batchWriteQueue'[v] = batchWriteQueue[v]
      BY <1>0, <2>1 DEF PipeInv, LoopTypes
    <3> QED BY <1>0, <1>3, <2>1, <3>1, <3>2, <3>3 DEF GroupsDistinct
  <2>2. CASE ProcessEvent(w)
    <3>1. PICK e : e = Head(batchingQueue[w])
      OBVIOUS
    <3>2. e \in Live
      <4>1. batchingQueue[w] \in Seq(Live) /\ batchingQueue[w] # << >>
        BY <1>0, <2>2 DEF PipeInv, LoopTypes, ProcessEvent
      <4> QED BY <3>1, <4>1, HeadTailProperties
    <3>3. CASE UNCHANGED <<currentGroup, batchWriteQueue>>
      BY <1>0, <3>3 DEF GroupsDistinct
    <3>4. CASE /\ batchWriteQueue' = [batchWriteQueue EXCEPT ![w] = @ \o Pushed(currentGroup[w], e)]
               /\ currentGroup' = [currentGroup EXCEPT ![w] = Kept(@, e)]
      <4>1. PICK kept, pushed : kept = Kept(currentGroup[w], e) /\ pushed = Pushed(currentGroup[w], e)
        OBVIOUS
      <4>2. /\ \A g \in Range(pushed) : Distinct(g)
            /\ Distinct(kept) /\ pushed \in Seq(Groups)
        BY <1>2, <1>3, <3>2, <4>1, GroupsStayDistinct, GroupsStaySmall
      <4>3. currentGroup' = [currentGroup EXCEPT ![w] = kept]
        BY <1>0, <3>4, <4>1
      <4>4. batchWriteQueue' = [batchWriteQueue EXCEPT ![w] = batchWriteQueue[w] \o pushed]
        BY <1>0, <3>4, <4>1
      <4> QED BY <2>1, <4>2, <4>3, <4>4
    <3> QED BY <2>2, <3>1, <3>3, <3>4 DEF ProcessEvent
  <2>3. CASE FlushCurrentGroup(w)
    <3>1. PICK kept : kept = << >>
      OBVIOUS
    <3>2. Distinct(kept) /\ currentGroup' = [currentGroup EXCEPT ![w] = kept]
      BY <2>3, <3>1, SmallIsDistinct DEF FlushCurrentGroup
    <3>3. CASE currentGroup[w] = << >>
      <4>1. batchWriteQueue' = [batchWriteQueue EXCEPT ![w] = batchWriteQueue[w] \o kept]
        BY <1>2, <2>3, <3>1, <3>3 DEF FlushCurrentGroup
      <4>2. kept \in Seq(Groups) /\ Range(kept) = {}
        BY <3>1, EmptyQueue
      <4> QED BY <2>1, <3>2, <4>1, <4>2
    <3>4. CASE currentGroup[w] # << >>
      <4>1. PICK pushed : pushed = <<currentGroup[w]>>
        OBVIOUS
      <4>2. pushed \in Seq(Groups) /\ Range(pushed) = {currentGroup[w]}
        BY <1>2, <3>4, <4>1, SingletonQueue
      <4>3. Append(batchWriteQueue[w], currentGroup[w]) = batchWriteQueue[w] \o pushed
        BY <1>2, <3>4, <4>1
      <4>4. batchWriteQueue' = [batchWriteQueue EXCEPT ![w] = batchWriteQueue[w] \o pushed]
        BY <2>3, <3>4, <4>3 DEF FlushCurrentGroup
      <4> QED BY <1>3, <2>1, <3>2, <4>2, <4>4
    <3> QED BY <3>3, <3>4
  <2> QED BY <2>2, <2>3 DEF LoopStep, TimeoutFlush, LoopStop
<1> QED BY <1>0, <1>1, <1>4 DEF CleanKept, Undisturbed, OnlyVanished, GroupsDistinct, OkIsWritten, InTarget

(* In such a run every operation of a group becomes a model, and no bulk   *)
(* write is ordered: what a write exception names is what did not reach    *)
(* the target.                                                             *)
LEMMA CleanBulk ==
  ASSUME CleanRun, NEW g \in Seq(Live)
  PROVE  /\ \A i \in DOMAIN g : Transforms(g[i])
         /\ Models(g) = DOMAIN g /\ Cardinality(Models(g)) = Len(g) /\ ~UseOrdered(g)
         /\ \A failed \in SUBSET (DOMAIN g) :
              /\ Reaching(g, failed) = DOMAIN g \ failed
              /\ {Model(g, k) : k \in failed} = failed
<1>1. \A i \in DOMAIN g : Transforms(g[i])
  BY DEF CleanRun, Transforms
<1>2. Len(g) \in Nat /\ DOMAIN g = 1..Len(g)
  BY LenProperties
<1>3. Models(g) = 1..Len(g)
  BY <1>1, <1>2 DEF Models
<1>4. \A k \in Nat : Cardinality(1..k) = k
  <2>1. ASSUME NEW k \in Nat PROVE Cardinality(1..k) = k
    BY FS_Interval
  <2> QED BY <2>1
<1>5. ~UseOrdered(g)
  BY DEF UseOrdered, CleanRun
<1>6. ASSUME NEW k \in 1..Len(g) PROVE Model(g, k) = k
  <2>1. ASSUME NEW i \in 1..Len(g) PROVE Cardinality({j \in Models(g) : j <= i}) = i
    <3>1. {j \in Models(g) : j <= i} = 1..i
      BY <1>2, <1>3
    <3>2. Cardinality(1..i) = i
      BY <1>2, <1>4
    <3> QED BY <3>1, <3>2, Zenon
  <2>2. \A i \in Models(g) : Cardinality({j \in Models(g) : j <= i}) = k <=> i = k
    BY <1>3, <2>1
  <2> QED BY <1>3, <2>2 DEF Model
<1>7. ASSUME NEW failed \in SUBSET (DOMAIN g)
      PROVE  Reaching(g, failed) = DOMAIN g \ failed /\ {Model(g, k) : k \in failed} = failed
  <2>1. Reaching(g, failed) = DOMAIN g \ failed
    BY <1>1, <1>5 DEF Reaching
  <2>2. \A k \in failed : Model(g, k) = k
    BY <1>2, <1>6
  <2> QED BY <2>1, <2>2
<1> QED BY <1>1, <1>2, <1>3, <1>4, <1>5, <1>7

(* Writing some operations of a group of distinct documents brings each of *)
(* them into the target, and no other document.                            *)
LEMMA DistinctReachTarget ==
  ASSUME PipeInv, NEW g \in Seq(Live), InOrder(g), Distinct(g), NEW done \in SUBSET (DOMAIN g),
         NEW j \in DOMAIN g
  PROVE  /\ j \in done => ApplyTo(g, done)[Doc(g[j])] = g[j].pos
         /\ j \notin done => ApplyTo(g, done)[Doc(g[j])] = target[Doc(g[j])]
<1>1. Doc(g[j]) \in Docs
  BY LenProperties, ElementOfSeq, LiveEvents
<1>2. CASE j \in done
  <2>1. PICK k \in done : Doc(g[k]) = Doc(g[j]) /\ ApplyTo(g, done)[Doc(g[j])] = g[k].pos
    BY <1>1, <1>2, LastHasItsWay
  <2> QED BY <1>2, <2>1 DEF Distinct
<1>3. CASE j \notin done
  <2>1. \A i \in done : Doc(g[i]) # Doc(g[j])
    BY <1>3 DEF Distinct
  <2> QED BY <1>1, <1>3, <2>1, LastHasItsWay
<1> QED BY <1>2, <1>3

(* A step of a writer inside its group that gives nothing else up.         *)
LEMMA WriterKeepsClean ==
  ASSUME CleanInv, NEW w \in Workers, WriterFrame, OnlyVanished',
         \A v \in Workers : \A g \in Range(batchWriteQueue'[v]) : Distinct(g),
         \A v \in Workers : v # w => writer'[v] = writer[v],
         Distinct(writer'[w].group), OkIsWritten(w)',
         \A d \in Docs : WorkerOf[d] # w => target'[d] = target[d]
  PROVE  CleanKept
<1>0. PipeInv /\ OrderInv /\ Undisturbed /\ GroupsDistinct /\ \A v \in Workers : OkIsWritten(v)
  BY DEF CleanInv, LossInv
<1>1. UNCHANGED <<cancelled, readerDone, distDone, currentGroup>>
  BY DEF WriterFrame
<1>2. Undisturbed'
  BY <1>0, <1>1 DEF Undisturbed, OnlyVanished
<1>3. GroupsDistinct'
  <2>1. ASSUME NEW v \in Workers PROVE Distinct(currentGroup'[v]) /\ Distinct(writer'[v].group)
    BY <1>0, <1>1 DEF GroupsDistinct
  <2> QED BY <2>1 DEF GroupsDistinct
<1>4. ASSUME NEW v \in Workers, v # w PROVE OkIsWritten(v)'
  <2>1. PICK wr : wr = writer[v]
    OBVIOUS
  <2>2. writer'[v] = wr
    BY <1>4, <2>1
  <2>3. wr.stage = "bulk" => wr.ok = {}
    BY <1>0, <2>1 DEF OkIsWritten
  <2>4. ASSUME NEW j \in wr.ok PROVE InTarget(wr.group[j])'
    <3>1. InTarget(wr.group[j])
      BY <1>0, <2>1 DEF OkIsWritten
    <3>2. wr.stage # "idle"
      <4>1. wr.stage = "idle" => wr.group = << >> /\ wr.ok \subseteq 1..Len(wr.group)
        BY <1>0, <2>1 DEF OrderInv, WriterOrder, PipeInv, WriterTypes, WriterStates
      <4> QED BY <4>1
    <3>3. wr.group \in Seq(Live) /\ j \in DOMAIN wr.group
      BY <1>0, <2>1, <3>2, GroupAtWork
    <3>4. wr.group[j] \in Live /\ wr.group[j] \in Range(wr.group)
      BY <3>3, LenProperties, ElementOfSeq DEF Range
    <3>5. WorkerOf[Doc(wr.group[j])] = v
      BY <1>0, <2>1, <3>4 DEF OrderInv, RouteInv, Routed
    <3>6. Doc(wr.group[j]) \in Docs
      BY <1>0, <3>4, LiveEvents
    <3> QED BY <1>4, <3>1, <3>5, <3>6 DEF InTarget, Doc
  <2> QED BY <2>2, <2>3, <2>4 DEF OkIsWritten
<1> QED BY <1>2, <1>3, <1>4 DEF CleanKept

LEMMA BulkKeepsClean ==
  ASSUME CleanRun, CleanInv, NEW w \in Workers,
         BulkSucceeds(w) \/ BulkPartlyFails(w) \/ BulkErrors(w) \/ BulkCancelled(w)
  PROVE  CleanKept
<1>0. PipeInv /\ OrderInv /\ Undisturbed /\ GroupsDistinct /\ OkIsWritten(w)
  BY DEF CleanInv, LossInv
<1>1. ~BulkCancelled(w)
  BY <1>0 DEF BulkCancelled, WriteCancelled, Undisturbed
<1>2. /\ writer[w].stage = "bulk" /\ WriterFrame /\ UNCHANGED batchWriteQueue
      /\ unwritten \in [Streams -> SUBSET Nat]
  BY <1>0, <1>1 DEF BulkSucceeds, BulkPartlyFails, BulkErrors, PipeInv, DataTypes
<1> DEFINE g == writer[w].group
<1>3. /\ g = writer[w].group
      /\ BulkPartlyFails(w) =>
           \E failed \in (SUBSET (1..Cardinality(Models(g)))) \ {{}} :
             LET done == Reaching(g, {Model(g, k) : k \in failed})
                 bad == {i \in DOMAIN g : ~Transforms(g[i])}
             IN /\ target' = ApplyTo(g, done)
                /\ writer' = [writer EXCEPT ![w] = [@ EXCEPT !.stage = "retry", !.todo = failed,
                                                             !.ok = DOMAIN g \ (failed \cup bad)]]
                /\ unwritten' = MarkUnwritten(g, DOMAIN g \ (done \cup failed \cup bad))
  BY DEF BulkPartlyFails
<1> HIDE DEF g
<1>4. /\ g \in Seq(Live) /\ InOrder(g) /\ Distinct(g) /\ DOMAIN g = 1..Len(g) /\ g \in Groups
      /\ writer[w].ok = {}
  BY <1>0, <1>2, <1>3, GroupAtWork DEF GroupsDistinct, OkIsWritten
<1>5. /\ Models(g) = DOMAIN g /\ Cardinality(Models(g)) = Len(g)
      /\ \A i \in DOMAIN g : Transforms(g[i])
      /\ \A failed \in SUBSET (DOMAIN g) : /\ Reaching(g, failed) = DOMAIN g \ failed
                                           /\ {Model(g, k) : k \in failed} = failed
  BY <1>4, CleanBulk
<1>6. /\ unwritten' = unwritten
      /\ \E done \in SUBSET (DOMAIN g) :
           /\ target' = ApplyTo(g, done)
           /\ writer'[w].group = g /\ writer'[w].ok \subseteq done
           /\ writer'[w].stage = "bulk" => writer'[w].ok = {}
      /\ \A v \in Workers : v # w => writer'[v] = writer[v]
  <2>1. CASE BulkSucceeds(w)
    <3>1. PICK done : done = Reaching(g, {})
      OBVIOUS
    <3>2. done = DOMAIN g
      BY <1>5, <3>1
    <3>3. target' = ApplyTo(g, done) /\ writer' = Settled(w, g, done) /\ unwritten' = unwritten
      BY <1>3, <2>1, <3>1 DEF BulkSucceeds
    <3> QED BY <1>0, <3>2, <3>3, SettledMoves
  <2>2. CASE BulkPartlyFails(w)
    <3>1. PICK failed \in (SUBSET (1..Cardinality(Models(g)))) \ {{}} :
            LET done == Reaching(g, {Model(g, k) : k \in failed})
                bad == {i \in DOMAIN g : ~Transforms(g[i])}
            IN /\ target' = ApplyTo(g, done)
               /\ writer' = [writer EXCEPT ![w] = [@ EXCEPT !.stage = "retry", !.todo = failed,
                                                            !.ok = DOMAIN g \ (failed \cup bad)]]
               /\ unwritten' = MarkUnwritten(g, DOMAIN g \ (done \cup failed \cup bad))
      BY <1>3, <2>2
    <3>2. failed \in SUBSET (DOMAIN g)
      BY <1>4, <1>5, <3>1
    <3>3. PICK done : done = DOMAIN g \ failed
      OBVIOUS
    <3>4. /\ Reaching(g, {Model(g, k) : k \in failed}) = done
          /\ {i \in DOMAIN g : ~Transforms(g[i])} = {}
      BY <1>5, <3>2, <3>3
    <3>5. /\ DOMAIN g \ (done \cup failed \cup {}) = {}
          /\ DOMAIN g \ (failed \cup {}) = done
      BY <3>2, <3>3
    <3>6. /\ target' = ApplyTo(g, done) /\ unwritten' = MarkUnwritten(g, {})
          /\ writer' = [writer EXCEPT ![w] = [writer[w] EXCEPT !.stage = "retry", !.todo = failed,
                                                               !.ok = done]]
      BY <3>1, <3>4, <3>5
    <3>7. MarkUnwritten(g, {}) = unwritten
      BY <1>2 DEF MarkUnwritten
    <3>8. PICK wr : wr = [writer[w] EXCEPT !.stage = "retry", !.todo = failed, !.ok = done]
      OBVIOUS
    <3>9. writer[w] \in [stage : WriterStages, group : Groups \cup {<< >>}, fresh : BOOLEAN,
                         todo : SUBSET Nat, ok : SUBSET Nat]
      BY <1>0 DEF PipeInv, WriterTypes, WriterStates
    <3>10. wr.stage = "retry" /\ wr.group = g /\ wr.ok = done
      BY <1>3, <3>8, <3>9
    <3>11. writer'[w] = wr /\ \A v \in Workers : v # w => writer'[v] = writer[v]
      BY <1>0, <3>6, <3>8, WriterMoves
    <3> QED BY <3>3, <3>6, <3>7, <3>10, <3>11
  <2>3. CASE BulkErrors(w)
    <3>1. PICK failed \in SUBSET (DOMAIN g) : target' = ApplyTo(g, Reaching(g, failed))
      BY <1>3, <2>3 DEF BulkErrors
    <3>2. PICK done \in SUBSET (DOMAIN g) : done = DOMAIN g \ failed
      OBVIOUS
    <3>3. target' = ApplyTo(g, done)
      BY <1>5, <3>1, <3>2
    <3>4. PICK wr : wr = [writer[w] EXCEPT !.stage = "retry", !.todo = DOMAIN g]
      OBVIOUS
    <3>5. writer[w] \in [stage : WriterStages, group : Groups \cup {<< >>}, fresh : BOOLEAN,
                         todo : SUBSET Nat, ok : SUBSET Nat]
      BY <1>0 DEF PipeInv, WriterTypes, WriterStates
    <3>6. wr.stage = "retry" /\ wr.group = g /\ wr.ok = {}
      BY <1>3, <1>4, <3>4, <3>5
    <3>7. writer' = [writer EXCEPT ![w] = wr] /\ unwritten' = unwritten
      BY <1>3, <2>3, <3>4 DEF BulkErrors
    <3>8. writer'[w] = wr /\ \A v \in Workers : v # w => writer'[v] = writer[v]
      BY <1>0, <3>7, WriterMoves
    <3> QED BY <3>3, <3>6, <3>7, <3>8
  <2> QED BY <1>1, <2>1, <2>2, <2>3
<1>7. PICK done \in SUBSET (DOMAIN g) :
        /\ target' = ApplyTo(g, done)
        /\ writer'[w].group = g /\ writer'[w].ok \subseteq done
        /\ writer'[w].stage = "bulk" => writer'[w].ok = {}
  BY <1>6
<1>8. \A i \in DOMAIN g : g[i] \in Live /\ Doc(g[i]) \in Docs /\ g[i].pos \in Nat /\ WorkerOf[Doc(g[i])] = w
  <2>1. ASSUME NEW i \in DOMAIN g
        PROVE  g[i] \in Live /\ Doc(g[i]) \in Docs /\ g[i].pos \in Nat /\ WorkerOf[Doc(g[i])] = w
    <3>1. g[i] \in Live /\ g[i] \in Range(g)
      BY <1>4, ElementOfSeq DEF Range
    <3> QED BY <1>0, <1>3, <3>1, LiveEvents DEF OrderInv, RouteInv, Routed
  <2> QED BY <2>1
<1>9. OkIsWritten(w)'
  <2>1. ASSUME NEW j \in writer'[w].ok PROVE target'[Doc(g[j])] >= g[j].pos
    <3>1. j \in done /\ j \in DOMAIN g
      BY <1>7
    <3>2. target'[Doc(g[j])] = g[j].pos
      BY <1>0, <1>4, <1>7, <3>1, DistinctReachTarget
    <3> QED BY <1>8, <3>1, <3>2
  <2> QED BY <1>7, <2>1 DEF OkIsWritten, InTarget, Doc
<1>10. ASSUME NEW d \in Docs, WorkerOf[d] # w PROVE target'[d] = target[d]
  <2>1. \A i \in done : Doc(g[i]) # d
    BY <1>8, <1>10
  <2> QED BY <1>0, <1>4, <1>7, <2>1, LastHasItsWay
<1>11. \A v \in Workers : \A h \in Range(batchWriteQueue'[v]) : Distinct(h)
  BY <1>0, <1>2 DEF GroupsDistinct
<1>12. OnlyVanished'
  BY <1>0, <1>6 DEF Undisturbed, OnlyVanished
<1> QED BY <1>2, <1>4, <1>6, <1>7, <1>9, <1>10, <1>11, <1>12, WriterKeepsClean

(* A write that may be refused may vanish.                                 *)
LEMMA OwnClash ==
  ASSUME PipeInv, NEW e \in Live, Refusable(e.stream, e.pos)
  PROVE  e.pos \in Vanishable(e.stream)
<1>1. /\ e.stream \in Streams /\ e.pos \in Nat \ {0}
      /\ e.pos \in DOMAIN Log[e.stream]
  BY LiveEvents
<1>2. DOMAIN Log[e.stream] = 1..StreamLength[e.stream]
  BY <1>1, LogAssumption, LenProperties
<1>3. e.pos \in 1..StreamLength[e.stream] /\ e.pos \in e.pos..StreamLength[e.stream]
  BY <1>1, <1>2, StreamLengthAssumption
<1> QED BY <1>3 DEF Vanishable

LEMMA RetryKeepsClean ==
  ASSUME CleanRun, CleanInv, NEW w \in Workers,
         RetrySucceeds(w) \/ RetryMatchesNothing(w) \/ RetryFails(w) \/ RetryCancelled(w)
  PROVE  CleanKept
<1>0. PipeInv /\ OrderInv /\ Undisturbed /\ GroupsDistinct /\ OkIsWritten(w)
  BY DEF CleanInv, LossInv
<1>1. ~RetryCancelled(w)
  BY <1>0 DEF RetryCancelled, WriteCancelled, Undisturbed
<1>2. /\ writer[w].stage = "retry" /\ WriterFrame /\ UNCHANGED batchWriteQueue
      /\ unwritten \in [Streams -> SUBSET Nat]
  BY <1>0, <1>1 DEF RetrySucceeds, RetryMatchesNothing, RetryFails, PipeInv, DataTypes
<1>3. PICK g, c, ok : g = writer[w].group /\ c = Current(w) /\ ok = writer[w].ok
  OBVIOUS
<1>4. /\ g \in Seq(Live) /\ InOrder(g) /\ Distinct(g) /\ DOMAIN g = 1..Len(g)
      /\ ok \subseteq DOMAIN g
  BY <1>0, <1>2, <1>3, GroupAtWork DEF GroupsDistinct
<1>5. c \in DOMAIN g
  <2>1. WriterTypes /\ writer[w].todo # {}
    BY <1>0, <1>2 DEF PipeInv, WriterTypes, WriterStates
  <2> QED BY <1>3, <1>4, <2>1, CurrentIsFirst
<1>6. PICK one \in SUBSET (DOMAIN g) : one = {c}
  BY <1>5
<1>7. \A i \in DOMAIN g : g[i] \in Live /\ Doc(g[i]) \in Docs /\ g[i].pos \in Nat /\ WorkerOf[Doc(g[i])] = w
  <2>1. ASSUME NEW i \in DOMAIN g
        PROVE  g[i] \in Live /\ Doc(g[i]) \in Docs /\ g[i].pos \in Nat /\ WorkerOf[Doc(g[i])] = w
    <3>1. g[i] \in Live /\ g[i] \in Range(g)
      BY <1>4, ElementOfSeq DEF Range
    <3> QED BY <1>0, <1>3, <3>1, LiveEvents DEF OrderInv, RouteInv, Routed
  <2> QED BY <2>1
<1>8. \/ /\ target' = ApplyTo(g, one) /\ writer' = Retried(w, ok \cup {c})
         /\ unwritten' = unwritten
      \/ /\ target' = target /\ writer' = Retried(w, ok \cup {c})
         /\ unwritten' = MarkUnwritten(g, one) /\ Refusable(g[c].stream, g[c].pos)
      \/ target' = target /\ writer' = Retried(w, ok) /\ unwritten' = unwritten
  <2>1. CASE RetrySucceeds(w)
    <3>1. /\ target' = ApplyTo(g, one) /\ writer' = Retried(w, ok \cup {c})
          /\ unwritten' = MarkUnwritten(g, Overwritten(g, c, writer[w].todo))
      BY <1>3, <1>6, <2>1 DEF RetrySucceeds
    <3>2. Overwritten(g, c, writer[w].todo) = {}
      BY <1>4, <1>5 DEF Overwritten, Distinct
    <3>3. MarkUnwritten(g, {}) = unwritten
      BY <1>2 DEF MarkUnwritten
    <3> QED BY <3>1, <3>2, <3>3
  <2>2. CASE RetryMatchesNothing(w)
    BY <1>3, <1>6, <2>2 DEF RetryMatchesNothing
  <2>3. CASE RetryFails(w)
    BY <1>3, <2>3 DEF RetryFails
  <2> QED BY <1>1, <2>1, <2>2, <2>3
<1>9. /\ writer'[w].stage \in {"retry", "resolve"} /\ writer'[w].group = g
      /\ writer'[w].ok = ok \/ writer'[w].ok = ok \cup {c}
      /\ \A v \in Workers : v # w => writer'[v] = writer[v]
      /\ writer' = Retried(w, ok) => writer'[w].ok = ok
  <2>1. CASE writer' = Retried(w, ok \cup {c})
    <3>1. PICK more : more = ok \cup {c}
      OBVIOUS
    <3> QED BY <1>0, <1>2, <1>3, <2>1, <3>1, RetriedMoves
  <2>2. CASE writer' = Retried(w, ok)
    BY <1>0, <1>2, <1>3, <2>2, RetriedMoves
  <2> QED BY <1>8, <2>1, <2>2
<1>10. Refusable(g[c].stream, g[c].pos) => g[c].pos \in Vanishable(g[c].stream)
  BY <1>0, <1>5, <1>7, OwnClash
<1>11. ASSUME NEW j \in writer'[w].ok PROVE InTarget(g[j])'
  <2>1. /\ j \in DOMAIN g /\ g[j].pos \in Nat
        /\ j = c \/ j \in ok
        /\ j \in ok => InTarget(g[j])
    BY <1>0, <1>3, <1>4, <1>5, <1>7, <1>9, <1>11 DEF OkIsWritten
  <2>2. CASE target' = ApplyTo(g, one)
    <3>1. CASE j = c
      <4>1. target'[Doc(g[j])] = g[j].pos
        BY <1>0, <1>4, <1>6, <2>1, <2>2, <3>1, DistinctReachTarget
      <4>2. target'[Doc(g[j])] >= g[j].pos
        BY <2>1, <4>1
      <4> QED BY <4>2 DEF InTarget, Doc
    <3>2. CASE j # c
      <4>1. target'[Doc(g[j])] = target[Doc(g[j])]
        BY <1>0, <1>4, <1>6, <2>1, <2>2, <3>2, DistinctReachTarget
      <4> QED BY <2>1, <3>2, <4>1 DEF InTarget, Doc
    <3> QED BY <3>1, <3>2
  <2>3. CASE target' = target /\ j \in ok
    BY <2>1, <2>3 DEF InTarget, Doc
  <2>4. CASE Refusable(g[c].stream, g[c].pos) /\ j = c
    BY <1>10, <2>4 DEF InTarget
  <2>5. CASE target' = target /\ writer' = Retried(w, ok)
    BY <1>9, <1>11, <2>3, <2>5
  <2> QED BY <1>8, <2>1, <2>2, <2>3, <2>4, <2>5
<1>12. OkIsWritten(w)'
  BY <1>9, <1>11 DEF OkIsWritten, InTarget, Doc
<1>13. ASSUME NEW d \in Docs, WorkerOf[d] # w PROVE target'[d] = target[d]
  <2>1. \A i \in one : Doc(g[i]) # d
    BY <1>7, <1>13
  <2>2. ApplyTo(g, one)[d] = target[d]
    BY <1>0, <1>4, <2>1, LastHasItsWay
  <2> QED BY <1>8, <2>2
<1>14. \A v \in Workers : \A h \in Range(batchWriteQueue'[v]) : Distinct(h)
  BY <1>0, <1>2 DEF GroupsDistinct
<1>15. OnlyVanished'
  <2>1. CASE unwritten' = unwritten
    BY <1>0, <2>1 DEF Undisturbed, OnlyVanished
  <2>2. CASE unwritten' = MarkUnwritten(g, one) /\ Refusable(g[c].stream, g[c].pos)
    <3>1. ASSUME NEW s \in Streams, NEW p \in unwritten'[s], p \notin unwritten[s]
          PROVE  p \in Vanishable(s)
      <4>1. p = g[c].pos /\ g[c].stream = s
        BY <1>6, <2>2, <3>1 DEF MarkUnwritten
      <4> QED BY <1>10, <2>2, <4>1
    <3> QED BY <1>0, <3>1 DEF Undisturbed, OnlyVanished
  <2> QED BY <1>8, <2>1, <2>2
<1> QED BY <1>2, <1>4, <1>9, <1>12, <1>13, <1>14, <1>15, WriterKeepsClean

(* So may the earlier events of its document.                              *)
LEMMA EarlierVanishes ==
  ASSUME PipeInv, NEW s \in Streams, NEW p \in 1..cursor[s], NEW e \in Live,
         Log[s][p].doc = Doc(e), p <= e.pos, e.pos \in Vanishable(e.stream)
  PROVE  p \in Vanishable(s)
<1>1. /\ cursor[s] \in Nat /\ cursor[s] <= StreamLength[s] /\ StreamLength[s] \in Nat
  BY StreamLengthAssumption DEF PipeInv, TrackerInv, TrackerTypeOK
<1>2. DOMAIN Log[s] = 1..StreamLength[s]
  BY LogAssumption, LenProperties
<1>3. p \in 1..StreamLength[s]
  BY <1>1
<1>4. /\ e.stream \in Streams /\ e.pos \in DOMAIN Log[e.stream]
      /\ Doc(e) = Log[e.stream][e.pos].doc
  BY LiveEvents
<1>5. e.stream = s
  BY <1>2, <1>3, <1>4, LogAssumption
<1>6. PICK q \in e.pos..StreamLength[s] : Refusable(s, q) /\ Log[s][q].doc = Doc(e)
  BY <1>4, <1>5 DEF Vanishable
<1>7. q \in p..StreamLength[s]
  BY <1>1, <1>2, <1>3, <1>4, <1>5, <1>6
<1> QED BY <1>3, <1>6, <1>7 DEF Vanishable

(* The resolution scan clears failures of documents that the target holds, *)
(* or that a clash has made vanish.                                        *)
LEMMA ResolveKeepsClean ==
  ASSUME CleanInv, NEW w \in Workers, WriterResolve(w)
  PROVE  CleanKept
<1>0. PipeInv /\ OrderInv /\ Undisturbed /\ GroupsDistinct /\ OkIsWritten(w)
  BY DEF CleanInv, LossInv
<1>1. PICK g, ok : g = writer[w].group /\ ok = writer[w].ok
  OBVIOUS
<1>2. /\ writer[w].stage = "resolve" /\ WriterFrame /\ UNCHANGED <<batchWriteQueue, target>>
      /\ unwritten' = [s \in Streams |-> unwritten[s] \cup WronglyResolved(s, g, ok)]
      /\ writer' = [writer EXCEPT ![w] = [writer[w] EXCEPT !.stage = "ack", !.ok = {}]]
  BY <1>1 DEF WriterResolve
<1>3. /\ g \in Seq(Live) /\ Distinct(g) /\ DOMAIN g = 1..Len(g) /\ ok \subseteq DOMAIN g
  BY <1>0, <1>1, <1>2, GroupAtWork DEF GroupsDistinct
<1>4. /\ writer'[w].stage = "ack" /\ writer'[w].group = g /\ writer'[w].ok = {}
      /\ \A v \in Workers : v # w => writer'[v] = writer[v]
  <2>1. PICK wr : wr = [writer[w] EXCEPT !.stage = "ack", !.ok = {}]
    OBVIOUS
  <2>2. writer[w] \in [stage : WriterStages, group : Groups \cup {<< >>}, fresh : BOOLEAN,
                       todo : SUBSET Nat, ok : SUBSET Nat]
    BY <1>0 DEF PipeInv, WriterTypes, WriterStates
  <2>3. wr.stage = "ack" /\ wr.group = g /\ wr.ok = {}
    BY <1>1, <2>1, <2>2
  <2>4. writer'[w] = wr /\ \A v \in Workers : v # w => writer'[v] = writer[v]
    BY <1>0, <1>2, <2>1, WriterMoves
  <2> QED BY <2>3, <2>4
<1>5. ASSUME NEW s \in Streams, NEW p \in WronglyResolved(s, g, ok)
      PROVE  p \in Vanishable(s)
  <2>1. PICK d : d = Log[s][p].doc
    OBVIOUS
  <2>2. /\ p \in 1..cursor[s] /\ target[d] < p
        /\ \E j \in ok : Doc(g[j]) = d
        /\ \E i \in DOMAIN g : Doc(g[i]) = d /\ p <= g[i].pos
    BY <1>5, <2>1 DEF WronglyResolved
  <2>3. PICK j \in ok : Doc(g[j]) = d
    BY <2>2
  <2>4. p <= g[j].pos
    BY <1>3, <2>2, <2>3 DEF Distinct
  <2>5. g[j] \in Live
    BY <1>3, <2>3, ElementOfSeq
  <2>6. d \in Docs /\ g[j].pos \in Nat
    BY <1>0, <2>3, <2>5, LiveEvents
  <2>7. target[d] \in Nat /\ p \in Nat
    BY <1>0, <2>2, <2>6 DEF PipeInv, DataTypes, TrackerInv, TrackerTypeOK
  <2>8. ~(target[d] >= g[j].pos)
    BY <2>2, <2>4, <2>6, <2>7
  <2>9. g[j].pos \in Vanishable(g[j].stream)
    BY <1>0, <1>1, <2>3, <2>8 DEF OkIsWritten, InTarget
  <2> QED BY <1>0, <2>1, <2>2, <2>3, <2>4, <2>5, <2>9, EarlierVanishes
<1>6. OnlyVanished'
  <2>1. ASSUME NEW s \in Streams PROVE unwritten'[s] \subseteq Vanishable(s)
    <3>1. unwritten'[s] = unwritten[s] \cup WronglyResolved(s, g, ok)
      BY <1>2
    <3> QED BY <1>0, <1>5, <3>1 DEF Undisturbed, OnlyVanished
  <2> QED BY <2>1 DEF OnlyVanished
<1>7. OkIsWritten(w)' /\ Distinct(writer'[w].group)
  BY <1>3, <1>4 DEF OkIsWritten
<1>8. \A v \in Workers : \A h \in Range(batchWriteQueue'[v]) : Distinct(h)
  BY <1>0, <1>2 DEF GroupsDistinct
<1> QED BY <1>2, <1>4, <1>6, <1>7, <1>8, WriterKeepsClean

(* A writer takes a group, and ends it.                                    *)
LEMMA TakeKeepsClean ==
  ASSUME CleanInv, NEW w \in Workers, WriterTake(w)
  PROVE  CleanKept
<1>0. PipeInv /\ OrderInv /\ Undisturbed /\ GroupsDistinct
  BY DEF CleanInv, LossInv
<1>1. PICK g : g = Head(batchWriteQueue[w])
  OBVIOUS
<1>2. /\ batchWriteQueue' = [batchWriteQueue EXCEPT ![w] = Tail(batchWriteQueue[w])]
      /\ WriterFrame /\ UNCHANGED <<target, unwritten>>
      /\ batchWriteQueue[w] # << >>
  BY DEF WriterTake
<1>3. batchWriteQueue[w] \in Seq(Groups)
  BY <1>0 DEF PipeInv, LoopTypes
<1>4. /\ g \in Groups
      /\ Range(batchWriteQueue[w]) = {g} \cup Range(Tail(batchWriteQueue[w]))
  BY <1>1, <1>2, <1>3, HeadOfOrdered
<1>5. /\ writer'[w].group = g /\ writer'[w].ok = {}
      /\ \A v \in Workers : v # w => writer'[v] = writer[v]
  <2>1. CASE writer' = Settled(w, g, {})
    <3>1. PICK none : none = {}
      OBVIOUS
    <3> QED BY <1>0, <2>1, <3>1, SettledMoves
  <2>2. CASE writer' = [writer EXCEPT ![w] = [IdleWriter EXCEPT !.stage = "bulk", !.group = g,
                                                                !.fresh = cancelled]]
    <3>1. PICK wr : wr = [IdleWriter EXCEPT !.stage = "bulk", !.group = g, !.fresh = cancelled]
      OBVIOUS
    <3>2. wr.group = g /\ wr.ok = {}
      BY <3>1 DEF IdleWriter
    <3> QED BY <1>0, <2>2, <3>1, <3>2, WriterMoves
  <2> QED BY <1>1, <2>1, <2>2 DEF WriterTake
<1>6. Distinct(g) /\ \A h \in Range(Tail(batchWriteQueue[w])) : Distinct(h)
  BY <1>0, <1>4 DEF GroupsDistinct
<1>7. \A v \in Workers : \A h \in Range(batchWriteQueue'[v]) : Distinct(h)
  <2>1. batchWriteQueue'[w] = Tail(batchWriteQueue[w])
    BY <1>0, <1>2 DEF PipeInv, LoopTypes
  <2>2. \A v \in Workers : v # w => batchWriteQueue'[v] = batchWriteQueue[v]
    BY <1>0, <1>2 DEF PipeInv, LoopTypes
  <2> QED BY <1>0, <1>6, <2>1, <2>2 DEF GroupsDistinct
<1>8. OkIsWritten(w)' /\ Distinct(writer'[w].group)
  BY <1>5, <1>6 DEF OkIsWritten
<1>9. OnlyVanished'
  BY <1>0, <1>2 DEF Undisturbed, OnlyVanished
<1> QED BY <1>2, <1>5, <1>7, <1>8, <1>9, WriterKeepsClean

LEMMA AckKeepsClean ==
  ASSUME CleanInv, NEW w \in Workers, WriterAck(w)
  PROVE  CleanKept
<1>0. PipeInv /\ OrderInv /\ Undisturbed /\ GroupsDistinct /\ OkIsWritten(w)
  BY DEF CleanInv, LossInv
<1>1. /\ WriterFrame /\ UNCHANGED <<batchWriteQueue, target, unwritten>>
      /\ writer[w].stage = "ack"
  BY DEF WriterAck, dataVars
<1>2. PICK rest : rest = writer[w].todo \ {Current(w)}
  OBVIOUS
<1>3. PICK wr : wr = IF rest = {} THEN IdleWriter ELSE [writer[w] EXCEPT !.todo = rest]
  OBVIOUS
<1>4. writer' = [writer EXCEPT ![w] = wr]
  BY <1>2, <1>3 DEF WriterAck
<1>5. writer'[w] = wr /\ \A v \in Workers : v # w => writer'[v] = writer[v]
  BY <1>0, <1>4, WriterMoves
<1>6. Distinct(wr.group) /\ OkIsWritten(w)'
  <2>1. CASE rest = {}
    <3>1. wr.group = << >> /\ wr.ok = {}
      BY <1>3, <2>1 DEF IdleWriter
    <3> QED BY <1>5, <3>1, SmallIsDistinct DEF OkIsWritten
  <2>2. CASE rest # {}
    <3>1. writer[w] \in [stage : WriterStages, group : Groups \cup {<< >>}, fresh : BOOLEAN,
                         todo : SUBSET Nat, ok : SUBSET Nat]
      BY <1>0 DEF PipeInv, WriterTypes, WriterStates
    <3>2. wr.stage = "ack" /\ wr.group = writer[w].group /\ wr.ok = writer[w].ok
      BY <1>1, <1>3, <2>2, <3>1
    <3>3. Distinct(wr.group)
      BY <1>0, <3>2 DEF GroupsDistinct
    <3>4. \A j \in wr.ok : InTarget(wr.group[j])
      BY <1>0, <3>2 DEF OkIsWritten
    <3>5. \A j \in wr.ok : InTarget(wr.group[j])'
      BY <1>1, <3>4 DEF InTarget, Doc
    <3> QED BY <1>5, <3>2, <3>3, <3>5 DEF OkIsWritten
  <2> QED BY <2>1, <2>2
<1>7. \A v \in Workers : \A h \in Range(batchWriteQueue'[v]) : Distinct(h)
  BY <1>0, <1>1 DEF GroupsDistinct
<1>8. OnlyVanished'
  BY <1>0, <1>1 DEF Undisturbed, OnlyVanished
<1> QED BY <1>1, <1>5, <1>6, <1>7, <1>8, WriterKeepsClean

LEMMA CleanInvInductive ==
  ASSUME CleanRun, CleanInv, [Next]_vars
  PROVE  CleanInv'
<1>0. LossInv /\ PipeInv /\ Undisturbed /\ GroupsDistinct /\ \A w \in Workers : OkIsWritten(w)
  BY DEF CleanInv, LossInv
<1>1. LossInv'
  BY <1>0, LossInvInductive
<1>2. CleanKept
  <2>1. CASE UNCHANGED vars \/ CloseTracker \/ TickerSave \/ ProcessCrash
    <3>1. /\ UNCHANGED <<cancelled, readerDone, distDone, currentGroup, batchWriteQueue, writer>>
          /\ UNCHANGED <<target, unwritten>>
      BY <2>1 DEF vars, CloseTracker, TickerSave, ProcessCrash, goroutineVars, dataVars
    <3> QED BY <1>0, <3>1 DEF CleanKept, Undisturbed, OnlyVanished, GroupsDistinct, OkIsWritten, InTarget
  <2>2. ASSUME NEW s \in Streams, ReaderStep(s) PROVE CleanKept
    BY <2>2, FrontKeepsClean
  <2>3. CASE DistributorStep
    BY <2>3, FrontKeepsClean
  <2>4. ASSUME NEW w \in Workers, LoopStep(w) PROVE CleanKept
    BY <2>4, LoopKeepsClean
  <2>5. ASSUME NEW w \in Workers, WriterStep(w) PROVE CleanKept
    BY <2>5, TakeKeepsClean, BulkKeepsClean, RetryKeepsClean, ResolveKeepsClean, AckKeepsClean
       DEF WriterStep
  <2>6. CASE Interrupt
    BY <2>6 DEF Interrupt, CleanRun
  <2>7. CASE ProcessRestart
    <3>1. FreshGoroutines /\ unwritten' = unwritten
      BY <2>7 DEF ProcessRestart, dataVars
    <3>2. Undisturbed'
      BY <1>0, <3>1 DEF FreshGoroutines, Undisturbed, OnlyVanished
    <3>3. ASSUME NEW w \in Workers
          PROVE  /\ currentGroup'[w] = << >> /\ batchWriteQueue'[w] = << >>
                 /\ writer'[w].group = << >> /\ writer'[w].ok = {}
      BY <3>1 DEF FreshGoroutines, IdleWriter
    <3>4. GroupsDistinct'
      BY <3>3, SmallIsDistinct, EmptyQueue DEF GroupsDistinct
    <3>5. \A w \in Workers : OkIsWritten(w)'
      BY <3>3 DEF OkIsWritten
    <3> QED BY <3>2, <3>4, <3>5 DEF CleanKept
  <2> QED BY <2>1, <2>2, <2>3, <2>4, <2>5, <2>6, <2>7 DEF Next
<1> QED BY <1>1, <1>2 DEF CleanKept, CleanInv

LEMMA CleanInvInit == Init => CleanInv
<1> SUFFICES ASSUME Init PROVE CleanInv
  OBVIOUS
<1>1. LossInv /\ Undisturbed
  BY LossInvInit DEF Init, Undisturbed, OnlyVanished
<1>2. ASSUME NEW w \in Workers
      PROVE  /\ currentGroup[w] = << >> /\ batchWriteQueue[w] = << >>
             /\ writer[w].group = << >> /\ writer[w].ok = {}
  BY DEF Init, IdleWriter
<1>3. GroupsDistinct
  BY <1>2, SmallIsDistinct, EmptyQueue DEF GroupsDistinct
<1>4. \A w \in Workers : OkIsWritten(w)
  BY <1>2 DEF OkIsWritten
<1> QED BY <1>1, <1>3, <1>4 DEF CleanInv

(* In a run without the other error paths nothing behind a saved token is  *)
(* lost, whichever operations fail and whenever the process crashes: each  *)
(* document is in the target at least as new as the last event the token   *)
(* covers, or it is in the DLQ, or that event or a later one of the        *)
(* document is a write that may clash with another document.               *)
THEOREM CleanRunLosesNothing == CleanRun => (Spec => []CheckpointedDocIsSafe)
<1> SUFFICES ASSUME CleanRun PROVE Spec => []CheckpointedDocIsSafe
  OBVIOUS
<1>1. CleanInv => CheckpointedDocIsSafe
  <2>1. CleanInv => LossIsConfined /\ Undisturbed
    BY LossMeansGivenUp DEF CleanInv
  <2> QED BY <2>1 DEF LossIsConfined, CheckpointedDocIsSafe, MayVanish, Undisturbed, OnlyVanished
<1>2. CleanInv /\ [Next]_vars => CleanInv'
  BY CleanInvInductive
<1> QED BY <1>1, <1>2, CleanInvInit, PTL DEF Spec

(* And a document none of whose writes is in flight reflects the last one  *)
(* read, or is in the DLQ, with the same exception.                        *)
THEOREM CleanRunStaysCurrent == CleanRun => (Spec => []SettledDocIsCurrent)
<1> SUFFICES ASSUME CleanRun PROVE Spec => []SettledDocIsCurrent
  OBVIOUS
<1>1. CleanInv => SettledDocIsCurrent
  <2>1. CleanInv => SettledOrGivenUp /\ Undisturbed
    BY SettledHolds DEF CleanInv
  <2> QED BY <2>1 DEF SettledOrGivenUp, SettledDocIsCurrent, MayVanish, Undisturbed, OnlyVanished
<1>2. CleanInv /\ [Next]_vars => CleanInv'
  BY CleanInvInductive
<1> QED BY <1>1, <1>2, CleanInvInit, PTL DEF Spec
=============================================================================
