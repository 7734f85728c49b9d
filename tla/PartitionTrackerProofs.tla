----------------------- MODULE PartitionTrackerProofs -----------------------
(***************************************************************************)
(* Proofs about PartitionTracker, for every set of streams, every stream   *)
(* length and every save threshold: type correctness, that a saved token   *)
(* never runs ahead of an unacknowledged event, and that token files never *)
(* move backwards.                                                         *)
(***************************************************************************)
EXTENDS PartitionTracker, FiniteSetTheorems, SequenceTheorems, TLAPS

(* The state of one stream, as values.  issued: how many sequence numbers  *)
(* this incarnation has handed out; the pending ones are the last of them, *)
(* without gap, and nothing else is in the event map.                      *)
PendingShape(issued, pend, last, cur) ==
  /\ issued \in Nat /\ cur \in Nat /\ issued <= cur
  /\ pend \in Seq(Nat) /\ Len(pend) <= issued
  /\ \A i \in 1..Len(pend) : pend[i] = (issued - Len(pend)) + i
  /\ last = issued - Len(pend)

(* A pending event carries the token of its position, and if it is         *)
(* acknowledged that position is in done.                                  *)
GoodEvent(e, pos, done) == e.token = pos /\ (e.acked => pos \in done)

GoodEvents(issued, pend, ev, cur, done) ==
  /\ DOMAIN ev = (issued - Len(pend) + 1)..issued
  /\ ev \in [DOMAIN ev -> EventRecord]
  /\ \A q \in DOMAIN ev : GoodEvent(ev[q], (cur - issued) + q, done)

(* What has left the pending list is in done, and the token file is not    *)
(* beyond it.                                                              *)
PrunedIsDone(pend, cur, file, done) ==
  /\ 1..(cur - Len(pend)) \subseteq done
  /\ file \in Nat /\ file <= cur - Len(pend)

Ledger(issued, pend, ev, last, cur, file, done) ==
  /\ PendingShape(issued, pend, last, cur)
  /\ GoodEvents(issued, pend, ev, cur, done)
  /\ PrunedIsDone(pend, cur, file, done)

Issued(s) == NextSeq(s) - 1

StreamInv(s) ==
  Ledger(Issued(s), pendingSeqs[s], unackedEvents[s], lastCheckpointSeq[s],
         cursor[s], tokenFile[s], settled[s])

TrackerInv == TrackerTypeOK /\ \A s \in Streams : StreamInv(s)

-----------------------------------------------------------------------------

(* The leading run of acknowledged events is the interval of the first     *)
(* PrunedCount indexes.                                                    *)
LEMMA LeadingRunIsInterval ==
  ASSUME NEW pend, NEW ev, Len(pend) \in Nat
  PROVE  /\ PrunedCount(pend, ev) \in 0..Len(pend)
         /\ LeadingRun(pend, ev) = 1..PrunedCount(pend, ev)
<1> DEFINE L == Len(pend)
           P == LeadingRun(pend, ev)
           c == Cardinality(P)
<1>1. L \in Nat
  OBVIOUS
<1>2. P \subseteq 1..L /\ \A i \in P : 1..i \subseteq P
  BY <1>1 DEF LeadingRun
<1> HIDE DEF P, L
<1>3. IsFiniteSet(1..L) /\ Cardinality(1..L) = L
  <2>1. 1 \in Int /\ L \in Int
    BY <1>1
  <2>2. /\ IsFiniteSet(1..L)
        /\ Cardinality(1..L) = IF 1 > L THEN 0 ELSE L - 1 + 1
    BY <2>1, FS_Interval
  <2> QED BY <1>1, <2>2
<1>4. IsFiniteSet(P) /\ c \in Nat /\ c <= L
  <2>1. P \in SUBSET (1..L)
    BY <1>2
  <2>2. IsFiniteSet(P) /\ Cardinality(P) <= Cardinality(1..L)
    BY <1>3, <2>1, FS_Subset
  <2> QED BY <1>3, <2>2, FS_CardinalityType
<1>5. c + 1 \notin P
  <2>1. SUFFICES ASSUME c + 1 \in P PROVE FALSE
    OBVIOUS
  <2>2. 1..(c + 1) \subseteq P
    BY <1>2, <2>1
  <2>3. Cardinality(1..(c + 1)) = c + 1
    BY <1>4, FS_Interval
  <2>4. Cardinality(1..(c + 1)) <= Cardinality(P)
    BY <1>4, <2>2, FS_Subset
  <2> QED BY <1>4, <2>3, <2>4
<1>6. P \subseteq 1..c
  <2>1. SUFFICES ASSUME NEW i \in P, i > c PROVE FALSE
    BY <1>1, <1>2, <1>4
  <2>2. c + 1 \in 1..i
    BY <1>1, <1>2, <1>4, <2>1
  <2> QED BY <1>2, <1>5, <2>2
<1>7. IsFiniteSet(1..c) /\ Cardinality(1..c) = c
  BY <1>4, FS_Interval
<1>8. P = 1..c
  <2>1. P \in SUBSET (1..c)
    BY <1>6
  <2>2. Cardinality(1..c) = Cardinality(P)
    BY <1>7
  <2>3. 1..c = P
    BY <1>7, <2>1, <2>2, FS_Subset
  <2> QED BY <2>3
<1> QED BY <1>1, <1>4, <1>8 DEF PrunedCount, P, L

-----------------------------------------------------------------------------

(* What one save does to the pending list of a stream: the c leading       *)
(* events leave it, and the shape stays.                                   *)
LEMMA PruneKeepsShape ==
  ASSUME NEW issued, NEW pend, NEW last, NEW cur,
         PendingShape(issued, pend, last, cur),
         NEW c \in 0..Len(pend)
  PROVE  /\ c > 0 => pend[c] = issued - Len(pend) + c /\ pend[c] > last
         /\ Len(SubSeq(pend, c + 1, Len(pend))) = Len(pend) - c
         /\ PendingShape(issued, SubSeq(pend, c + 1, Len(pend)),
                         IF c > 0 THEN pend[c] ELSE last, cur)
<1> DEFINE n == Len(pend)
           rest == SubSeq(pend, c + 1, n)
<1>1. /\ issued \in Nat /\ cur \in Nat /\ issued <= cur
      /\ pend \in Seq(Nat) /\ n \in Nat /\ n <= issued /\ c \in Nat /\ c <= n
      /\ \A i \in 1..n : pend[i] = (issued - n) + i
      /\ last = issued - n
  BY DEF PendingShape
<1>2. c > 0 => pend[c] = issued - n + c /\ pend[c] > last
  BY <1>1
<1>3. \A i \in (c + 1)..n : pend[i] \in Nat
  BY <1>1
<1>4. /\ rest \in Seq(Nat)
      /\ Len(rest) = n - c
      /\ \A i \in 1..(n - c) : rest[i] = pend[c + i]
  BY <1>1, <1>3
<1>5. \A i \in 1..(n - c) : rest[i] = (issued - (n - c)) + i
  BY <1>1, <1>4
<1>6. DOMAIN rest = 1..(n - c)
  BY <1>1, <1>4
<1>7. (IF c > 0 THEN pend[c] ELSE last) = issued - (n - c)
  BY <1>1, <1>2
<1>8. n - c \in Nat /\ n - c <= issued
  BY <1>1
<1> HIDE DEF rest
<1>9. PendingShape(issued, rest, IF c > 0 THEN pend[c] ELSE last, cur)
  <2>1. Len(rest) <= issued
    BY <1>4, <1>8
  <2>2. \A i \in 1..Len(rest) : rest[i] = (issued - Len(rest)) + i
    BY <1>4, <1>5
  <2>3. (IF c > 0 THEN pend[c] ELSE last) = issued - Len(rest)
    BY <1>4, <1>7
  <2> QED BY <1>1, <1>4, <2>1, <2>2, <2>3 DEF PendingShape
<1> QED BY <1>2, <1>4, <1>9 DEF rest

-----------------------------------------------------------------------------

(* A gapless run of sequence numbers is an interval.                       *)
LEMMA GaplessRun ==
  ASSUME NEW d \in Nat, NEW c \in Nat, NEW pend,
         \A i \in 1..c : pend[i] = d + i
  PROVE  {pend[i] : i \in 1..c} = (d + 1)..(d + c)
<1>1. ASSUME NEW q \in {pend[i] : i \in 1..c} PROVE q \in (d + 1)..(d + c)
  <2>1. PICK i \in 1..c : q = pend[i]
    OBVIOUS
  <2> QED BY <2>1
<1>2. ASSUME NEW q \in (d + 1)..(d + c) PROVE q \in {pend[i] : i \in 1..c}
  <2>1. q - d \in 1..c /\ q = d + (q - d)
    OBVIOUS
  <2>2. q = pend[q - d]
    BY <2>1
  <2> QED BY <2>1, <2>2
<1> QED BY <1>1, <1>2

(* What SaveCheckpoints does to one stream, as values before and after.    *)
SavedStream(pend, ev, last, file, pend2, ev2, last2, file2) ==
  LET c == PrunedCount(pend, ev)
      adv == c > 0 /\ pend[c] > last
  IN /\ pend2 = SubSeq(pend, c + 1, Len(pend))
     /\ ev2 = Restrict(ev, DOMAIN ev \ {pend[i] : i \in 1..c})
     /\ last2 = IF adv THEN pend[c] ELSE last
     /\ file2 = file \/ (adv /\ file2 = ev[pend[c]].token)

(* One stream through saveCheckpointsLocked: the ledger is kept whether or *)
(* not the write succeeds, and the token file does not move back.          *)
LEMMA SaveKeepsLedger ==
  ASSUME NEW issued, NEW pend, NEW ev, NEW last, NEW cur, NEW file, NEW done,
         Ledger(issued, pend, ev, last, cur, file, done),
         NEW pend2, NEW ev2, NEW last2, NEW file2,
         SavedStream(pend, ev, last, file, pend2, ev2, last2, file2)
  PROVE  /\ Ledger(issued, pend2, ev2, last2, cur, file2, done)
         /\ file2 >= file
<1> DEFINE n == Len(pend)
           c == PrunedCount(pend, ev)
           adv == c > 0 /\ pend[c] > last
           rest == SubSeq(pend, c + 1, n)
           left == Restrict(ev, DOMAIN ev \ {pend[i] : i \in 1..c})
<1>0. /\ pend2 = rest /\ ev2 = left
      /\ last2 = IF adv THEN pend[c] ELSE last
      /\ file2 = file \/ (adv /\ file2 = ev[pend[c]].token)
  BY DEF SavedStream
<1> HIDE DEF c
<1>1. /\ issued \in Nat /\ cur \in Nat /\ issued <= cur
      /\ pend \in Seq(Nat) /\ n \in Nat /\ n <= issued
      /\ \A i \in 1..n : pend[i] = (issued - n) + i
  BY DEF Ledger, PendingShape
<1>2. c \in 0..n /\ LeadingRun(pend, ev) = 1..c
  BY <1>1, LeadingRunIsInterval DEF c
<1>3. PendingShape(issued, pend, last, cur)
  BY DEF Ledger
<1>4. /\ c > 0 => pend[c] = issued - n + c /\ pend[c] > last
      /\ Len(rest) = n - c
      /\ PendingShape(issued, rest, IF c > 0 THEN pend[c] ELSE last, cur)
  BY <1>2, <1>3, PruneKeepsShape
<1>5. adv <=> c > 0
  BY <1>4
<1>6. /\ DOMAIN ev = (issued - n + 1)..issued
      /\ ev \in [DOMAIN ev -> EventRecord]
      /\ \A q \in DOMAIN ev : GoodEvent(ev[q], (cur - issued) + q, done)
  BY DEF Ledger, GoodEvents
<1>7. 1..(cur - n) \subseteq done /\ file \in Nat /\ file <= cur - n
  BY DEF Ledger, PrunedIsDone
<1>8. {pend[i] : i \in 1..c} = (issued - n + 1)..(issued - n + c)
  <2> DEFINE d == issued - n
  <2>1. d \in Nat /\ c \in Nat
    BY <1>1, <1>2
  <2>2. \A i \in 1..c : pend[i] = d + i
    BY <1>1, <1>2
  <2> HIDE DEF d
  <2>3. {pend[i] : i \in 1..c} = (d + 1)..(d + c)
    BY <2>1, <2>2, GaplessRun
  <2> QED BY <2>3 DEF d
<1>9. DOMAIN left = (issued - (n - c) + 1)..issued
  <2>1. DOMAIN left = ((issued - n + 1)..issued)
                        \ ((issued - n + 1)..(issued - n + c))
    BY <1>6, <1>8 DEF Restrict
  <2>2. issued \in Nat /\ n \in Nat /\ c \in Nat /\ c <= n /\ n <= issued
    BY <1>1, <1>2
  <2> HIDE DEF n
  <2>3. ((issued - n + 1)..issued) \ ((issued - n + 1)..(issued - n + c))
           = (issued - (n - c) + 1)..issued
    BY <2>2
  <2> QED BY <2>1, <2>3
<1>10. \A q \in DOMAIN left : left[q] = ev[q] /\ q \in DOMAIN ev
  BY <1>6 DEF Restrict
<1>11. left \in [DOMAIN left -> EventRecord]
  BY <1>6, <1>10 DEF Restrict
<1>12. GoodEvents(issued, rest, left, cur, done)
  BY <1>4, <1>6, <1>9, <1>10, <1>11 DEF GoodEvents
<1>13. 1..(cur - (n - c)) \subseteq done
  <2>0. SUFFICES ASSUME NEW p \in 1..(cur - (n - c)) PROVE p \in done
    OBVIOUS
  <2>a. CASE p <= cur - n
    <3>1. p \in 1..(cur - n)
      BY <1>1, <1>2, <2>a
    <3> QED BY <1>7, <3>1
  <2>1. SUFFICES ASSUME p > cur - n PROVE p \in done
    BY <1>1, <1>2, <2>a
  <2> DEFINE i == p - (cur - n)
             q == (issued - n) + i
  <2>2. i \in 1..c /\ p = (cur - issued) + q /\ i \in 1..n
    BY <1>1, <1>2, <2>1
  <2>3. pend[i] = q
    BY <1>1, <2>2
  <2>4. ev[q].acked
    <3>1. i \in LeadingRun(pend, ev) /\ i \in 1..i
      BY <1>2, <2>2
    <3> QED BY <2>3, <3>1 DEF LeadingRun
  <2>5. q \in DOMAIN ev
    <3>1. q \in (issued - n + 1)..issued
      BY <1>1, <2>2
    <3> QED BY <1>6, <3>1
  <2> QED BY <1>6, <2>2, <2>4, <2>5 DEF GoodEvent
<1>14. c > 0 => ev[pend[c]].token = cur - n + c
  <2>1. SUFFICES ASSUME c > 0 PROVE ev[pend[c]].token = cur - n + c
    OBVIOUS
  <2>2. pend[c] = issued - n + c
    BY <1>4, <2>1
  <2>3. pend[c] \in (issued - n + 1)..issued
    BY <1>1, <1>2, <2>1, <2>2
  <2>4. ev[pend[c]].token = (cur - issued) + pend[c]
    BY <1>6, <2>3 DEF GoodEvent
  <2> QED BY <1>1, <1>2, <2>2, <2>4
<1>15. file2 \in Nat /\ file2 <= cur - (n - c) /\ file2 >= file
  <2>1. CASE file2 = file
    BY <1>1, <1>2, <1>7, <2>1
  <2>2. CASE c > 0 /\ file2 = ev[pend[c]].token
    <3>1. file2 = cur - n + c
      BY <1>14, <2>2
    <3> QED BY <1>1, <1>2, <1>7, <2>2, <3>1
  <2> QED BY <1>0, <1>5, <2>1, <2>2
<1>16. PrunedIsDone(rest, cur, file2, done)
  BY <1>4, <1>13, <1>15 DEF PrunedIsDone
<1> QED BY <1>0, <1>4, <1>5, <1>12, <1>15, <1>16 DEF Ledger

(* MarkAcked on the event map of one stream, as a value.                   *)
Marked(ev, seq) ==
  IF seq \in DOMAIN ev THEN [ev EXCEPT ![seq].acked = TRUE] ELSE ev

(* Marking an issued sequence number as acknowledged, together with its    *)
(* position as settled, keeps the ledger of the stream.                    *)
LEMMA MarkKeepsLedger ==
  ASSUME NEW issued, NEW pend, NEW ev, NEW last, NEW cur, NEW file, NEW done,
         Ledger(issued, pend, ev, last, cur, file, done),
         NEW seq \in 1..issued
  PROVE  Ledger(issued, pend, Marked(ev, seq), last, cur, file,
                done \cup {(cur - issued) + seq})
<1> DEFINE ev2 == Marked(ev, seq)
           done2 == done \cup {(cur - issued) + seq}
<1>1. /\ DOMAIN ev = (issued - Len(pend) + 1)..issued
      /\ ev \in [DOMAIN ev -> EventRecord]
      /\ \A q \in DOMAIN ev : GoodEvent(ev[q], (cur - issued) + q, done)
  BY DEF Ledger, GoodEvents
<1>2. DOMAIN ev2 = DOMAIN ev /\ ev2 \in [DOMAIN ev -> EventRecord]
  BY <1>1 DEF EventRecord, Marked
<1>3. \A q \in DOMAIN ev :
        /\ q # seq => ev2[q] = ev[q]
        /\ q = seq => ev2[q] = [ev[q] EXCEPT !.acked = TRUE]
  BY <1>1 DEF Marked
<1> HIDE DEF ev2
<1>4. \A q \in DOMAIN ev2 : GoodEvent(ev2[q], (cur - issued) + q, done2)
  <2>1. ASSUME NEW q \in DOMAIN ev
        PROVE  GoodEvent(ev2[q], (cur - issued) + q, done2)
    <3>1. GoodEvent(ev[q], (cur - issued) + q, done)
      BY <1>1
    <3>2. CASE q = seq
      <4>1. ev2[q].token = ev[q].token
        BY <1>1, <1>3, <3>2 DEF EventRecord
      <4>2. (cur - issued) + q \in done2
        BY <3>2
      <4> QED BY <3>1, <4>1, <4>2 DEF GoodEvent
    <3>3. CASE q # seq
      <4>1. ev2[q] = ev[q]
        BY <1>3, <3>3
      <4> QED BY <3>1, <4>1 DEF GoodEvent
    <3> QED BY <3>2, <3>3
  <2> QED BY <1>2, <2>1
<1>5. GoodEvents(issued, pend, ev2, cur, done2)
  <2>1. ev2 \in [DOMAIN ev2 -> EventRecord]
    BY <1>2
  <2>2. DOMAIN ev2 = (issued - Len(pend) + 1)..issued
    BY <1>1, <1>2
  <2> HIDE DEF done2
  <2> QED BY <1>4, <2>1, <2>2 DEF GoodEvents
<1>6. PrunedIsDone(pend, cur, file, done2)
  BY DEF Ledger, PrunedIsDone
<1> QED BY <1>5, <1>6 DEF Ledger, ev2

-----------------------------------------------------------------------------

(* saveCheckpointsLocked over all streams: from a good ledger for the      *)
(* events it is given, every stream ends in a good ledger and no token     *)
(* file has moved back.                                                    *)
LEMMA SaveCheckpointsKeepsLedgers ==
  ASSUME NEW STATE events, NEW done, NEW failed \in SUBSET Streams,
         TrackerTypeOK,
         \A s \in Streams :
           Ledger(Issued(s), pendingSeqs[s], events[s], lastCheckpointSeq[s],
                  cursor[s], tokenFile[s], done[s]),
         SaveCheckpoints(events, failed)
  PROVE  \A s \in Streams :
           /\ Ledger(Issued(s), pendingSeqs'[s], unackedEvents'[s],
                     lastCheckpointSeq'[s], cursor[s], tokenFile'[s], done[s])
           /\ tokenFile'[s] >= tokenFile[s]
<1>1. TAKE s \in Streams
<1>2. SavedStream(pendingSeqs[s], events[s], lastCheckpointSeq[s], tokenFile[s],
                  pendingSeqs'[s], unackedEvents'[s], lastCheckpointSeq'[s],
                  tokenFile'[s])
  BY <1>1 DEF SaveCheckpoints, SavedStream
<1>3. Ledger(Issued(s), pendingSeqs[s], events[s], lastCheckpointSeq[s],
             cursor[s], tokenFile[s], done[s])
  BY <1>1
<1> QED BY <1>2, <1>3, SaveKeepsLedger

(* The ledger of a stream in a new process: nothing pending, the cursor at *)
(* the token file.                                                         *)
LEMMA EmptyLedger ==
  ASSUME NEW cur \in Nat, NEW done, 1..cur \subseteq done
  PROVE  Ledger(0, << >>, << >>, 0, cur, cur, done)
<1> DEFINE e == << >>
<1>1. Len(e) = 0 /\ e \in Seq(Nat) /\ DOMAIN e = {} /\ e \in [{} -> EventRecord]
  OBVIOUS
<1> HIDE DEF e
<1>2. PendingShape(0, e, 0, cur)
  BY <1>1 DEF PendingShape
<1>3. GoodEvents(0, e, e, cur, done)
  <2>1. (0 - Len(e) + 1)..0 = {}
    BY <1>1
  <2> QED BY <1>1, <2>1 DEF GoodEvents
<1>4. PrunedIsDone(e, cur, cur, done)
  BY <1>1 DEF PrunedIsDone
<1>5. Ledger(0, e, e, 0, cur, cur, done)
  BY <1>2, <1>3, <1>4 DEF Ledger
<1> QED BY <1>5 DEF e

(* The types the ledger implies.                                           *)
LEMMA LedgerTypes ==
  ASSUME NEW issued, NEW pend, NEW ev, NEW last, NEW cur, NEW file, NEW done,
         Ledger(issued, pend, ev, last, cur, file, done)
  PROVE  /\ pend \in Seq(Nat) /\ ev \in [DOMAIN ev -> EventRecord]
         /\ last \in Nat /\ cur \in Nat /\ file \in Nat /\ file <= cur
         /\ 1..file \subseteq done
<1>1. /\ issued \in Nat /\ cur \in Nat /\ pend \in Seq(Nat)
      /\ Len(pend) \in Nat /\ Len(pend) <= issued /\ last = issued - Len(pend)
  BY DEF Ledger, PendingShape
<1>2. /\ 1..(cur - Len(pend)) \subseteq done
      /\ file \in Nat /\ file <= cur - Len(pend)
  BY DEF Ledger, PrunedIsDone
<1>3. ev \in [DOMAIN ev -> EventRecord]
  BY DEF Ledger, GoodEvents
<1>4. 1..file \subseteq 1..(cur - Len(pend))
  BY <1>1, <1>2
<1> QED BY <1>1, <1>2, <1>3, <1>4

(* The types after a save.                                                 *)
LEMMA SavedTypes ==
  ASSUME NEW STATE events, NEW STATE done, NEW failed \in SUBSET Streams,
         TrackerTypeOK, SaveCheckpoints(events, failed),
         UNCHANGED <<nextSeqNum, cursor>>,
         phase' \in {"up", "closed", "down"},
         settled' \in [Streams -> SUBSET Nat],
         \A s \in Streams :
           Ledger(Issued(s), pendingSeqs'[s], unackedEvents'[s],
                  lastCheckpointSeq'[s], cursor[s], tokenFile'[s], done[s])
  PROVE  TrackerTypeOK'
<1>1. \A s \in Streams :
        /\ pendingSeqs'[s] \in Seq(Nat)
        /\ unackedEvents'[s] \in [DOMAIN unackedEvents'[s] -> EventRecord]
        /\ lastCheckpointSeq'[s] \in Nat /\ tokenFile'[s] \in Nat
  BY LedgerTypes
<1>2. /\ pendingSeqs' = [s \in Streams |-> pendingSeqs'[s]]
      /\ DOMAIN unackedEvents' = Streams
      /\ lastCheckpointSeq' = [s \in Streams |-> lastCheckpointSeq'[s]]
      /\ tokenFile' = [s \in Streams |-> tokenFile'[s]]
      /\ ackCountSinceSave' = 0
  BY DEF SaveCheckpoints
<1>3. /\ pendingSeqs' \in [Streams -> Seq(Nat)]
      /\ lastCheckpointSeq' \in [Streams -> Nat]
      /\ tokenFile' \in [Streams -> Nat]
  BY <1>1, <1>2
<1>4. saveFailed' \subseteq Streams
  BY DEF SaveCheckpoints
<1> QED BY <1>1, <1>2, <1>3, <1>4 DEF TrackerTypeOK

(* The event map of one stream with a new event appended, as a value.      *)
Extended(ev, issued, cur) ==
  [q \in DOMAIN ev \cup {issued + 1} |->
     IF q = issued + 1 THEN [token |-> cur + 1, acked |-> FALSE] ELSE ev[q]]

(* A registered event extends the ledger.                                  *)
LEMMA RegisterKeepsLedger ==
  ASSUME NEW issued, NEW pend, NEW ev, NEW last, NEW cur, NEW file, NEW done,
         Ledger(issued, pend, ev, last, cur, file, done)
  PROVE  Ledger(issued + 1, Append(pend, issued + 1), Extended(ev, issued, cur),
                last, cur + 1, file, done)
<1> DEFINE n == Len(pend)
           pend2 == Append(pend, issued + 1)
           ev2 == Extended(ev, issued, cur)
<1>1. /\ issued \in Nat /\ cur \in Nat /\ issued <= cur
      /\ pend \in Seq(Nat) /\ n \in Nat /\ n <= issued
      /\ \A i \in 1..n : pend[i] = (issued - n) + i
      /\ last = issued - n
  BY DEF Ledger, PendingShape
<1>2. /\ pend2 \in Seq(Nat) /\ Len(pend2) = n + 1
      /\ \A i \in 1..(n + 1) : pend2[i] = (issued - n) + i
  <2>1. pend2 \in Seq(Nat) /\ Len(pend2) = n + 1
    BY <1>1
  <2>2. pend2[n + 1] = issued + 1
    BY <1>1
  <2>3. \A i \in 1..n : pend2[i] = pend[i]
    BY <1>1
  <2> HIDE DEF pend2, n
  <2>4. ASSUME NEW i \in 1..(n + 1) PROVE pend2[i] = (issued - n) + i
    <3>1. CASE i = n + 1
      BY <1>1, <2>2, <3>1
    <3>2. CASE i # n + 1
      <4>1. i \in 1..n
        BY <1>1, <3>2
      <4> QED BY <1>1, <2>3, <4>1
    <3> QED BY <3>1, <3>2
  <2> QED BY <2>1, <2>4
<1>3. PendingShape(issued + 1, pend2, last, cur + 1)
  BY <1>1, <1>2 DEF PendingShape
<1>4. /\ DOMAIN ev = (issued - n + 1)..issued
      /\ ev \in [DOMAIN ev -> EventRecord]
      /\ \A q \in DOMAIN ev : GoodEvent(ev[q], (cur - issued) + q, done)
  BY DEF Ledger, GoodEvents
<1>5. DOMAIN ev2 = (issued - n + 1)..(issued + 1)
  BY <1>1, <1>4 DEF Extended
<1>6. ev2 \in [DOMAIN ev2 -> EventRecord]
  BY <1>1, <1>4 DEF EventRecord, Extended
<1>7. \A q \in DOMAIN ev2 : GoodEvent(ev2[q], (cur - issued) + q, done)
  BY <1>1, <1>4 DEF Extended, GoodEvent
<1> HIDE DEF ev2
<1>8. GoodEvents(issued + 1, pend2, ev2, cur + 1, done)
  <2> HIDE DEF pend2, n
  <2>1. /\ (issued + 1) - Len(pend2) + 1 = issued - n + 1
        /\ (cur + 1) - (issued + 1) = cur - issued
    BY <1>1, <1>2
  <2>2. DOMAIN ev2 = ((issued + 1) - Len(pend2) + 1)..(issued + 1)
    BY <1>5, <2>1
  <2>3. \A q \in DOMAIN ev2 :
          GoodEvent(ev2[q], ((cur + 1) - (issued + 1)) + q, done)
    BY <1>7, <2>1
  <2> QED BY <1>6, <2>2, <2>3 DEF GoodEvents
<1>9. PrunedIsDone(pend2, cur + 1, file, done)
  <2>1. 1..(cur - n) \subseteq done /\ file \in Nat /\ file <= cur - n
    BY DEF Ledger, PrunedIsDone
  <2>2. (cur + 1) - (n + 1) = cur - n
    BY <1>1
  <2> QED BY <1>2, <2>1, <2>2 DEF PrunedIsDone
<1> QED BY <1>3, <1>8, <1>9 DEF Ledger, ev2

-----------------------------------------------------------------------------

(* The inductive step.                                                     *)
LEMMA TrackerInvInductive ==
  ASSUME TrackerInv, [TrackerNext]_trackerVars
  PROVE  /\ TrackerInv'
         /\ \A s \in Streams : tokenFile'[s] >= tokenFile[s]
<1> USE StreamLengthAssumption, SaveThresholdAssumption
<1>1. TrackerTypeOK /\ \A s \in Streams : StreamInv(s)
  BY DEF TrackerInv
<1>2. ASSUME NEW s \in Streams, Register(s)
      PROVE  /\ TrackerInv'
             /\ \A t \in Streams : tokenFile'[t] >= tokenFile[t]
  <2>1. Issued(s) \in Nat /\ NextSeq(s) = Issued(s) + 1
    BY <1>1 DEF Issued, NextSeq, TrackerTypeOK
  <2>2. \A t \in Streams : Issued(t)' = IF t = s THEN Issued(t) + 1 ELSE Issued(t)
    <3>1. nextSeqNum \in [Streams -> Nat]
      BY <1>1 DEF TrackerTypeOK
    <3>2. nextSeqNum' = [nextSeqNum EXCEPT ![s] = NextSeq(s) + 1]
      BY <1>2 DEF Register
    <3>3. ASSUME NEW t \in Streams, t # s PROVE Issued(t)' = Issued(t)
      BY <3>1, <3>2, <3>3 DEF Issued, NextSeq
    <3>4. nextSeqNum'[s] = NextSeq(s) + 1 /\ NextSeq(s) + 1 # 0
      BY <2>1, <3>1, <3>2
    <3>5. Issued(s)' = Issued(s) + 1
      BY <2>1, <3>4 DEF Issued, NextSeq
    <3> QED BY <3>3, <3>5
  <2>3. StreamInv(s)'
    <3>1. Ledger(Issued(s), pendingSeqs[s], unackedEvents[s],
                 lastCheckpointSeq[s], cursor[s], tokenFile[s], settled[s])
      BY <1>1 DEF StreamInv
    <3>2. /\ pendingSeqs'[s] = Append(pendingSeqs[s], Issued(s) + 1)
          /\ unackedEvents'[s] =
               Extended(unackedEvents[s], Issued(s), cursor[s])
          /\ lastCheckpointSeq'[s] = lastCheckpointSeq[s]
          /\ cursor'[s] = cursor[s] + 1
          /\ tokenFile'[s] = tokenFile[s] /\ settled'[s] = settled[s]
      BY <1>1, <1>2, <2>1 DEF Register, Extended, TrackerTypeOK
    <3>3. Ledger(Issued(s) + 1, pendingSeqs'[s], unackedEvents'[s],
                 lastCheckpointSeq[s], cursor[s] + 1, tokenFile[s], settled[s])
      BY <3>1, <3>2, RegisterKeepsLedger
    <3> QED BY <2>2, <3>2, <3>3 DEF StreamInv
  <2>4. ASSUME NEW t \in Streams, t # s PROVE StreamInv(t)'
    BY <1>1, <1>2, <2>2, <2>4 DEF Register, StreamInv, TrackerTypeOK
  <2>5. \A t \in Streams : StreamInv(t)'
    BY <2>3, <2>4
  <2>6. TrackerTypeOK'
    <3>1. \A t \in Streams :
            /\ pendingSeqs'[t] \in Seq(Nat)
            /\ unackedEvents'[t] \in [DOMAIN unackedEvents'[t] -> EventRecord]
      BY <2>5, LedgerTypes DEF StreamInv
    <3>2. /\ DOMAIN pendingSeqs' = Streams /\ DOMAIN unackedEvents' = Streams
          /\ pendingSeqs' = [t \in Streams |-> pendingSeqs'[t]]
      BY <1>1, <1>2 DEF Register, TrackerTypeOK
    <3>3. pendingSeqs' \in [Streams -> Seq(Nat)]
      BY <3>1, <3>2
    <3>4. nextSeqNum' \in [Streams -> Nat]
      BY <1>1, <1>2, <2>1 DEF Register, TrackerTypeOK
    <3>5. cursor' \in [Streams -> Nat] /\ \A t \in Streams : cursor'[t] <= StreamLength[t]
      <4>1. cursor' = [cursor EXCEPT ![s] = @ + 1] /\ cursor[s] < StreamLength[s]
        BY <1>2 DEF Register
      <4>2. cursor \in [Streams -> Nat] /\ \A t \in Streams : cursor[t] <= StreamLength[t]
        BY <1>1 DEF TrackerTypeOK
      <4>3. \A t \in Streams : cursor'[t] = cursor[t] + (IF t = s THEN 1 ELSE 0)
        BY <4>1, <4>2
      <4>4. cursor' \in [Streams -> Nat]
        BY <4>1, <4>2
      <4>5. ASSUME NEW t \in Streams PROVE cursor'[t] <= StreamLength[t]
        <5>1. cursor[t] \in Nat /\ StreamLength[t] \in Nat /\ cursor[t] <= StreamLength[t]
          BY <4>2
        <5>2. CASE t = s
          BY <4>1, <4>3, <5>1, <5>2
        <5>3. CASE t # s
          BY <4>3, <5>1, <5>3
        <5> QED BY <5>2, <5>3
      <4> QED BY <4>4, <4>5
    <3> QED BY <1>1, <1>2, <3>1, <3>2, <3>3, <3>4, <3>5 DEF Register, TrackerTypeOK
  <2>7. \A t \in Streams : tokenFile'[t] >= tokenFile[t]
    BY <1>1, <1>2 DEF Register, TrackerTypeOK
  <2> QED BY <2>5, <2>6, <2>7 DEF TrackerInv
<1>3. ASSUME AckAny
      PROVE  /\ TrackerInv'
             /\ \A t \in Streams : tokenFile'[t] >= tokenFile[t]
  <2>1. PICK s \in Streams, failed \in SUBSET Streams, elapsed \in BOOLEAN :
          \E seq \in 1..(NextSeq(s) - 1) :
            Ack(s, seq, (cursor[s] + 1 + seq) - NextSeq(s), elapsed, failed)
    BY <1>3 DEF AckAny
  <2>2. PICK seq \in 1..(NextSeq(s) - 1) :
          Ack(s, seq, (cursor[s] + 1 + seq) - NextSeq(s), elapsed, failed)
    BY <2>1
  <2> DEFINE pos == (cursor[s] - Issued(s)) + seq
             done == [settled EXCEPT ![s] = @ \cup {pos}]
             marked == MarkAcked(s, seq)
  <2>3. Issued(s) \in Nat /\ NextSeq(s) = Issued(s) + 1 /\ seq \in 1..Issued(s)
    BY <1>1 DEF Issued, NextSeq, TrackerTypeOK
  <2>4. /\ (cursor[s] + 1 + seq) - NextSeq(s) = pos
        /\ Issued(s) <= cursor[s] /\ pos \in Nat
    <3>1. Issued(s) <= cursor[s] /\ cursor[s] \in Nat
      BY <1>1 DEF StreamInv, Ledger, PendingShape
    <3> QED BY <2>3, <3>1
  <2>5. settled' = done /\ UNCHANGED <<nextSeqNum, cursor, phase>>
    BY <2>2, <2>4 DEF Ack
  <2>6. done \in [Streams -> SUBSET Nat]
    BY <1>1, <2>4 DEF TrackerTypeOK
  <2>7. \A t \in Streams :
          Ledger(Issued(t), pendingSeqs[t], marked[t], lastCheckpointSeq[t],
                 cursor[t], tokenFile[t], done[t])
    <3>1. ASSUME NEW t \in Streams, t # s
          PROVE  /\ marked[t] = unackedEvents[t] /\ done[t] = settled[t]
      BY <1>1, <3>1 DEF MarkAcked, TrackerTypeOK
    <3>2. /\ done[s] = settled[s] \cup {(cursor[s] - Issued(s)) + seq}
          /\ marked[s] = Marked(unackedEvents[s], seq)
      BY <1>1 DEF MarkAcked, Marked, TrackerTypeOK
    <3>3. Ledger(Issued(s), pendingSeqs[s], unackedEvents[s],
                 lastCheckpointSeq[s], cursor[s], tokenFile[s], settled[s])
      BY <1>1 DEF StreamInv
    <3>4. Ledger(Issued(s), pendingSeqs[s], marked[s], lastCheckpointSeq[s],
                 cursor[s], tokenFile[s], done[s])
      BY <2>3, <3>2, <3>3, MarkKeepsLedger
    <3>5. ASSUME NEW t \in Streams, t # s
          PROVE  Ledger(Issued(t), pendingSeqs[t], marked[t],
                        lastCheckpointSeq[t], cursor[t], tokenFile[t], done[t])
      BY <1>1, <3>1, <3>5 DEF StreamInv
    <3> QED BY <3>4, <3>5
  <2>8. CASE SaveCheckpoints(marked, failed)
    <3>1. \A t \in Streams :
            /\ Ledger(Issued(t), pendingSeqs'[t], unackedEvents'[t],
                      lastCheckpointSeq'[t], cursor[t], tokenFile'[t], done[t])
            /\ tokenFile'[t] >= tokenFile[t]
      <4> HIDE DEF done, marked
      <4> QED BY <1>1, <2>7, <2>8, SaveCheckpointsKeepsLedgers
    <3>2. \A t \in Streams : StreamInv(t)'
      BY <2>5, <3>1 DEF StreamInv, Issued, NextSeq
    <3>3. TrackerTypeOK'
      <4> HIDE DEF done, marked
      <4> QED BY <1>1, <2>5, <2>6, <2>8, <3>1, SavedTypes DEF TrackerTypeOK
    <3> QED BY <3>1, <3>2, <3>3 DEF TrackerInv
  <2>9. CASE /\ unackedEvents' = marked
             /\ ackCountSinceSave' = AckCount(s, seq)
             /\ UNCHANGED <<pendingSeqs, lastCheckpointSeq, tokenFile, saveFailed>>
    <3>1. \A t \in Streams : StreamInv(t)'
      <4> HIDE DEF done, marked
      <4> QED BY <2>5, <2>7, <2>9 DEF StreamInv, Issued, NextSeq
    <3>2. \A t \in Streams :
            unackedEvents'[t] \in [DOMAIN unackedEvents'[t] -> EventRecord]
      BY <3>1, LedgerTypes DEF StreamInv
    <3>3. DOMAIN unackedEvents' = Streams /\ ackCountSinceSave' \in Nat
      BY <1>1, <2>9 DEF TrackerTypeOK, MarkAcked, AckCount
    <3>4. TrackerTypeOK'
      <4> HIDE DEF done, marked
      <4> QED BY <1>1, <2>5, <2>6, <2>9, <3>2, <3>3 DEF TrackerTypeOK
    <3> QED BY <1>1, <2>9, <3>1, <3>4 DEF TrackerInv, TrackerTypeOK
  <2> QED BY <2>2, <2>8, <2>9 DEF Ack
<1>4. ASSUME NEW failed \in SUBSET Streams,
             PeriodicSave(failed) \/ Close(failed)
      PROVE  /\ TrackerInv'
             /\ \A t \in Streams : tokenFile'[t] >= tokenFile[t]
  <2>1. SaveCheckpoints(unackedEvents, failed) /\ UNCHANGED <<nextSeqNum, cursor, settled>>
    BY <1>4 DEF PeriodicSave, Close
  <2>2. phase' \in {"up", "closed", "down"}
    BY <1>1, <1>4 DEF PeriodicSave, Close, TrackerTypeOK
  <2>3. \A s \in Streams :
          /\ Ledger(Issued(s), pendingSeqs'[s], unackedEvents'[s],
                    lastCheckpointSeq'[s], cursor[s], tokenFile'[s], settled[s])
          /\ tokenFile'[s] >= tokenFile[s]
    BY <1>1, <2>1, SaveCheckpointsKeepsLedgers DEF StreamInv
  <2>4. \A s \in Streams : StreamInv(s)'
    BY <2>1, <2>3 DEF StreamInv, Issued, NextSeq
  <2>5. settled' \in [Streams -> SUBSET Nat]
    BY <1>1, <2>1 DEF TrackerTypeOK
  <2>6. TrackerTypeOK'
    BY <1>1, <2>1, <2>2, <2>3, <2>5, SavedTypes
  <2> QED BY <2>3, <2>4, <2>6 DEF TrackerInv
<1>5. ASSUME Crash
      PROVE  /\ TrackerInv'
             /\ \A t \in Streams : tokenFile'[t] >= tokenFile[t]
  <2>1. TrackerTypeOK' /\ \A s \in Streams : StreamInv(s)'
    BY <1>1, <1>5 DEF Crash, trackerMemory, TrackerTypeOK, StreamInv, Issued, NextSeq
  <2> QED BY <1>1, <1>5, <2>1 DEF Crash, TrackerInv, TrackerTypeOK
<1>6. ASSUME Restart
      PROVE  /\ TrackerInv'
             /\ \A t \in Streams : tokenFile'[t] >= tokenFile[t]
  <2>1. \A s \in Streams : tokenFile[s] \in Nat /\ tokenFile[s] <= cursor[s]
                           /\ 1..tokenFile[s] \subseteq settled[s]
    BY <1>1, LedgerTypes DEF StreamInv
  <2>2. TrackerTypeOK'
    BY <1>1, <1>6, <2>1 DEF Restart, TrackerTypeOK
  <2>3. ASSUME NEW s \in Streams PROVE StreamInv(s)'
    <3>1. Ledger(0, << >>, << >>, 0, tokenFile[s], tokenFile[s], settled[s])
      BY <2>1, EmptyLedger
    <3>2. Issued(s)' = 0
      BY <1>6 DEF Restart, Issued, NextSeq
    <3> QED BY <1>6, <3>1, <3>2 DEF Restart, StreamInv
  <2> QED BY <1>1, <1>6, <2>2, <2>3 DEF Restart, TrackerInv, TrackerTypeOK
<1>7. ASSUME UNCHANGED trackerVars
      PROVE  /\ TrackerInv'
             /\ \A t \in Streams : tokenFile'[t] >= tokenFile[t]
  <2>1. TrackerTypeOK' /\ \A s \in Streams : StreamInv(s)'
    BY <1>1, <1>7 DEF trackerVars, trackerMemory, TrackerTypeOK, StreamInv, Issued, NextSeq
  <2> QED BY <1>1, <1>7, <2>1 DEF trackerVars, TrackerInv, TrackerTypeOK
<1> QED BY <1>2, <1>3, <1>4, <1>5, <1>6, <1>7 DEF TrackerNext

(* The invariant holds initially. *)
LEMMA TrackerInvInit ==
  TrackerInit => TrackerInv
<1> SUFFICES ASSUME TrackerInit PROVE TrackerInv
  OBVIOUS
<1> USE StreamLengthAssumption, SaveThresholdAssumption DEF TrackerInit, EmptyMemory
<1>1. TrackerTypeOK
  BY DEF TrackerTypeOK
<1>2. ASSUME NEW s \in Streams PROVE StreamInv(s)
  <2>1. Issued(s) = 0
    BY DEF Issued, NextSeq
  <2>2. Ledger(0, << >>, << >>, 0, 0, 0, {})
    BY EmptyLedger
  <2> QED BY <2>1, <2>2 DEF StreamInv
<1> QED BY <1>1, <1>2 DEF TrackerInv

(* Type correctness of the tracker, whatever its streams, bounds and       *)
(* schedule.                                                               *)
THEOREM TrackerTypeCorrect == TrackerSpec => []TrackerTypeOK
<1>1. TrackerInit => TrackerInv
  BY TrackerInvInit
<1>2. TrackerInv /\ [TrackerNext]_trackerVars => TrackerInv'
  BY TrackerInvInductive
<1>3. TrackerInv => TrackerTypeOK
  BY DEF TrackerInv
<1> QED BY <1>1, <1>2, <1>3, PTL DEF TrackerSpec

(* A saved token never covers an event that was not acknowledged: no       *)
(* restart of the replicator skips an event still in flight.               *)
THEOREM CheckpointIsSafe == TrackerSpec => []CheckpointCoversOnlyAcked
<1>1. TrackerInit => TrackerInv
  BY TrackerInvInit
<1>2. TrackerInv /\ [TrackerNext]_trackerVars => TrackerInv'
  BY TrackerInvInductive
<1>3. TrackerInv => CheckpointCoversOnlyAcked
  <2>1. ASSUME NEW s \in Streams, StreamInv(s)
        PROVE  1..tokenFile[s] \subseteq settled[s]
    BY <2>1 DEF StreamInv, Ledger, PendingShape, PrunedIsDone
  <2> QED BY <2>1 DEF TrackerInv, CheckpointCoversOnlyAcked
<1> QED BY <1>1, <1>2, <1>3, PTL DEF TrackerSpec

(* Token files only move forward, across crashes and restarts.             *)
THEOREM CheckpointIsMonotonic == TrackerSpec => CheckpointNeverRegresses
<1>1. TrackerInit => TrackerInv
  BY TrackerInvInit
<1>2. TrackerInv /\ [TrackerNext]_trackerVars => TrackerInv'
  BY TrackerInvInductive
<1>3. TrackerInv /\ [TrackerNext]_trackerVars =>
        [\A s \in Streams : tokenFile'[s] >= tokenFile[s]]_trackerVars
  BY TrackerInvInductive
<1> QED BY <1>1, <1>2, <1>3, PTL DEF TrackerSpec, CheckpointNeverRegresses

-----------------------------------------------------------------------------

(* Unless its latest save went wrong, the token file of a stream stands    *)
(* right in front of the pending events, and once Close has run the first  *)
(* of them is one nobody acknowledged.                                     *)
FileAtBoundary(s) ==
  s \in saveFailed \/ tokenFile[s] = cursor[s] - Len(pendingSeqs[s])

HeadUnacked(pend, ev) == pend = << >> \/ ~ev[pend[1]].acked

BoundaryInv ==
  /\ TrackerInv
  /\ \A s \in Streams : FileAtBoundary(s)
  /\ phase = "closed" => \A s \in Streams : HeadUnacked(pendingSeqs[s], unackedEvents[s])

(* One save of a stream: the file follows the events that leave the        *)
(* pending list, and the first event left is not acknowledged.             *)
LEMMA SaveReachesBoundary ==
  ASSUME NEW issued, NEW pend, NEW ev, NEW last, NEW cur, NEW file, NEW done,
         Ledger(issued, pend, ev, last, cur, file, done)
  PROVE  LET n == Len(pend)
             c == PrunedCount(pend, ev)
             rest == SubSeq(pend, c + 1, n)
             left == Restrict(ev, DOMAIN ev \ {pend[i] : i \in 1..c})
         IN /\ c > 0 => pend[c] > last /\ ev[pend[c]].token = cur - Len(rest)
            /\ c = 0 => Len(rest) = Len(pend)
            /\ HeadUnacked(rest, left)
<1> DEFINE n == Len(pend)
           c == PrunedCount(pend, ev)
           rest == SubSeq(pend, c + 1, n)
           left == Restrict(ev, DOMAIN ev \ {pend[i] : i \in 1..c})
<1> HIDE DEF c
<1>1. /\ issued \in Nat /\ cur \in Nat /\ issued <= cur
      /\ pend \in Seq(Nat) /\ n \in Nat /\ n <= issued
      /\ \A i \in 1..n : pend[i] = (issued - n) + i
  BY DEF Ledger, PendingShape
<1>2. c \in 0..n /\ LeadingRun(pend, ev) = 1..c
  BY <1>1, LeadingRunIsInterval DEF c
<1>3. /\ c > 0 => pend[c] = issued - n + c /\ pend[c] > last
      /\ Len(rest) = n - c
  BY <1>2, PruneKeepsShape DEF Ledger
<1>4. /\ DOMAIN ev = (issued - n + 1)..issued
      /\ \A q \in DOMAIN ev : GoodEvent(ev[q], (cur - issued) + q, done)
  BY DEF Ledger, GoodEvents
<1>5. c > 0 => ev[pend[c]].token = cur - Len(rest)
  <2>1. SUFFICES ASSUME c > 0 PROVE ev[pend[c]].token = cur - (n - c)
    BY <1>3
  <2>2. pend[c] \in (issued - n + 1)..issued
    BY <1>1, <1>2, <1>3, <2>1
  <2>3. ev[pend[c]].token = (cur - issued) + pend[c]
    BY <1>4, <2>2 DEF GoodEvent
  <2> QED BY <1>1, <1>2, <1>3, <2>1, <2>3
<1>6. HeadUnacked(rest, left)
  <2>1. SUFFICES ASSUME rest # << >> PROVE ~left[rest[1]].acked
    BY DEF HeadUnacked
  <2>2. c < n
    <3>1. SUFFICES ASSUME c = n PROVE FALSE
      BY <1>1, <1>2
    <3>2. rest = << >>
      BY <1>1, <3>1
    <3> QED BY <2>1, <3>2
  <2>3. rest[1] = pend[c + 1] /\ c + 1 \in 1..n
    BY <1>1, <1>2, <2>2
  <2>4. pend[c + 1] \in DOMAIN ev /\ pend[c + 1] \notin {pend[i] : i \in 1..c}
    <3>1. pend[c + 1] = (issued - n) + (c + 1)
      BY <1>1, <2>3
    <3>2. pend[c + 1] \in (issued - n + 1)..issued
      BY <1>1, <1>2, <2>2, <3>1
    <3>3. ASSUME NEW i \in 1..c PROVE pend[i] # pend[c + 1]
      <4>1. pend[i] = (issued - n) + i
        BY <1>1, <1>2, <2>2
      <4> QED BY <1>1, <1>2, <3>1, <4>1
    <3> QED BY <1>4, <3>2, <3>3
  <2>5. left[rest[1]] = ev[pend[c + 1]]
    BY <2>3, <2>4 DEF Restrict
  <2>6. c + 1 \notin LeadingRun(pend, ev)
    BY <1>1, <1>2
  <2>7. PICK j \in 1..(c + 1) : ~ev[pend[j]].acked
    BY <1>1, <2>3, <2>6 DEF LeadingRun
  <2>8. j = c + 1
    <3>1. SUFFICES ASSUME j # c + 1 PROVE FALSE
      OBVIOUS
    <3>2. j \in 1..c
      BY <1>1, <1>2, <3>1
    <3>3. j \in LeadingRun(pend, ev) /\ j \in 1..j
      BY <1>2, <3>2
    <3> QED BY <2>7, <3>3 DEF LeadingRun
  <2> QED BY <2>5, <2>7, <2>8
<1>7. c = 0 => Len(rest) = Len(pend)
  BY <1>1, <1>3
<1> QED BY <1>3, <1>5, <1>6, <1>7 DEF c

LEMMA SaveCheckpointsReachesBoundary ==
  ASSUME NEW STATE events, NEW done, NEW failed \in SUBSET Streams,
         \A s \in Streams :
           /\ Ledger(Issued(s), pendingSeqs[s], events[s], lastCheckpointSeq[s],
                     cursor[s], tokenFile[s], done[s])
           /\ FileAtBoundary(s),
         SaveCheckpoints(events, failed), UNCHANGED cursor
  PROVE  \A s \in Streams : FileAtBoundary(s)' /\ HeadUnacked(pendingSeqs'[s], unackedEvents'[s])
<1>1. SUFFICES ASSUME NEW s \in Streams
               PROVE  FileAtBoundary(s)' /\ HeadUnacked(pendingSeqs'[s], unackedEvents'[s])
  OBVIOUS
<1> DEFINE pend == pendingSeqs[s]
           ev == events[s]
           c == PrunedCount(pend, ev)
           rest == SubSeq(pend, c + 1, Len(pend))
           left == Restrict(ev, DOMAIN ev \ {pend[i] : i \in 1..c})
           adv == c > 0 /\ pend[c] > lastCheckpointSeq[s]
<1>2. /\ c > 0 => pend[c] > lastCheckpointSeq[s] /\ ev[pend[c]].token = cursor[s] - Len(rest)
      /\ c = 0 => Len(rest) = Len(pend)
      /\ HeadUnacked(rest, left)
  BY SaveReachesBoundary
<1>3. /\ pendingSeqs'[s] = rest /\ unackedEvents'[s] = left
      /\ tokenFile'[s] = IF adv /\ s \notin failed THEN ev[pend[c]].token ELSE tokenFile[s]
      /\ s \in saveFailed' <=> s \in (IF adv THEN failed ELSE saveFailed)
  BY DEF SaveCheckpoints
<1>4. c \in Nat /\ cursor'[s] = cursor[s]
  <2>1. Len(pend) \in Nat
    BY DEF Ledger, PendingShape
  <2>2. c \in 0..Len(pend)
    BY <2>1, LeadingRunIsInterval
  <2> QED BY <2>1, <2>2
<1> HIDE DEF pend, ev, c, rest, left
<1>5. FileAtBoundary(s)'
  <2>1. CASE c = 0
    <3>1. /\ tokenFile'[s] = tokenFile[s] /\ (s \in saveFailed' <=> s \in saveFailed)
          /\ Len(pendingSeqs'[s]) = Len(pendingSeqs[s])
      BY <1>2, <1>3, <1>4, <2>1 DEF pend
    <3> QED BY <1>4, <3>1 DEF FileAtBoundary
  <2>2. CASE c > 0
    BY <1>2, <1>3, <1>4, <2>2 DEF FileAtBoundary
  <2> QED BY <1>4, <2>1, <2>2
<1> QED BY <1>2, <1>3, <1>5

LEMMA BoundaryInvInductive ==
  ASSUME BoundaryInv, [TrackerNext]_trackerVars
  PROVE  BoundaryInv'
<1>1. TrackerInv'
  BY TrackerInvInductive DEF BoundaryInv
<1>2. /\ TrackerTypeOK
      /\ \A s \in Streams : /\ FileAtBoundary(s)
                            /\ Ledger(Issued(s), pendingSeqs[s], unackedEvents[s],
                                      lastCheckpointSeq[s], cursor[s], tokenFile[s], settled[s])
  BY DEF BoundaryInv, TrackerInv, StreamInv
<1>3. \A s \in Streams : cursor[s] \in Nat /\ Len(pendingSeqs[s]) \in Nat
  BY <1>2 DEF TrackerTypeOK
<1>4. ASSUME NEW s \in Streams, Register(s) PROVE BoundaryInv'
  <2>1. /\ phase' = "up" /\ UNCHANGED <<tokenFile, saveFailed>>
        /\ cursor' = [cursor EXCEPT ![s] = cursor[s] + 1]
        /\ pendingSeqs' = [pendingSeqs EXCEPT ![s] = Append(pendingSeqs[s], NextSeq(s))]
    BY <1>4 DEF Register
  <2>2. ASSUME NEW t \in Streams PROVE FileAtBoundary(t)'
    <3>1. CASE t = s
      <4>1. cursor'[s] = cursor[s] + 1 /\ Len(pendingSeqs'[s]) = Len(pendingSeqs[s]) + 1
        <5>1. pendingSeqs[s] \in Seq(Nat) /\ NextSeq(s) \in Nat
          BY <1>2 DEF TrackerTypeOK, NextSeq
        <5>2. pendingSeqs'[s] = Append(pendingSeqs[s], NextSeq(s)) /\ cursor'[s] = cursor[s] + 1
          BY <1>2, <2>1 DEF TrackerTypeOK
        <5> QED BY <5>1, <5>2, AppendProperties
      <4> QED BY <1>2, <1>3, <2>1, <3>1, <4>1 DEF FileAtBoundary
    <3>2. CASE t # s
      <4>1. cursor'[t] = cursor[t] /\ pendingSeqs'[t] = pendingSeqs[t]
        BY <1>2, <2>1, <3>2 DEF TrackerTypeOK
      <4> QED BY <1>2, <2>1, <4>1 DEF FileAtBoundary
    <3> QED BY <3>1, <3>2
  <2> QED BY <1>1, <2>1, <2>2 DEF BoundaryInv
<1>5. ASSUME AckAny PROVE BoundaryInv'
  <2>1. PICK s \in Streams, failed \in SUBSET Streams, elapsed \in BOOLEAN :
          \E seq \in 1..(NextSeq(s) - 1) :
            Ack(s, seq, (cursor[s] + 1 + seq) - NextSeq(s), elapsed, failed)
    BY <1>5 DEF AckAny
  <2>2. PICK seq \in 1..(NextSeq(s) - 1) :
          Ack(s, seq, (cursor[s] + 1 + seq) - NextSeq(s), elapsed, failed)
    BY <2>1
  <2>3. phase' = "up" /\ UNCHANGED cursor
    BY <2>2 DEF Ack
  <2>4. CASE SaveCheckpoints(MarkAcked(s, seq), failed)
    <3>1. seq \in 1..Issued(s)
      BY <1>2 DEF Issued, NextSeq, TrackerTypeOK
    <3> DEFINE done == [settled EXCEPT ![s] = @ \cup {(cursor[s] - Issued(s)) + seq}]
    <3>2. ASSUME NEW t \in Streams
          PROVE  Ledger(Issued(t), pendingSeqs[t], MarkAcked(s, seq)[t],
                        lastCheckpointSeq[t], cursor[t], tokenFile[t], done[t])
      <4>1. CASE t # s
        <5>1. MarkAcked(s, seq)[t] = unackedEvents[t] /\ done[t] = settled[t]
          BY <1>2, <4>1 DEF MarkAcked, TrackerTypeOK
        <5> QED BY <1>2, <5>1
      <4>2. CASE t = s
        <5>1. /\ done[s] = settled[s] \cup {(cursor[s] - Issued(s)) + seq}
              /\ MarkAcked(s, seq)[s] = Marked(unackedEvents[s], seq)
          BY <1>2 DEF MarkAcked, Marked, TrackerTypeOK
        <5>2. Ledger(Issued(s), pendingSeqs[s], MarkAcked(s, seq)[s],
                     lastCheckpointSeq[s], cursor[s], tokenFile[s], done[s])
          BY <1>2, <3>1, <5>1, MarkKeepsLedger
        <5> QED BY <4>2, <5>2
      <4> QED BY <4>1, <4>2
    <3> HIDE DEF done
    <3>3. \A t \in Streams : FileAtBoundary(t)'
      BY <1>2, <2>3, <2>4, <3>2, SaveCheckpointsReachesBoundary
    <3> QED BY <1>1, <2>3, <3>3 DEF BoundaryInv
  <2>5. CASE UNCHANGED <<pendingSeqs, tokenFile, saveFailed>>
    BY <1>1, <1>2, <2>3, <2>5 DEF BoundaryInv, FileAtBoundary
  <2> QED BY <2>2, <2>4, <2>5 DEF Ack
<1>6. ASSUME NEW failed \in SUBSET Streams, PeriodicSave(failed) \/ Close(failed)
      PROVE  BoundaryInv'
  <2>1. SaveCheckpoints(unackedEvents, failed) /\ UNCHANGED cursor
    BY <1>6 DEF PeriodicSave, Close
  <2>2. \A s \in Streams : FileAtBoundary(s)' /\ HeadUnacked(pendingSeqs'[s], unackedEvents'[s])
    BY <1>2, <2>1, SaveCheckpointsReachesBoundary
  <2> QED BY <1>1, <2>2 DEF BoundaryInv
<1>7. ASSUME Crash PROVE BoundaryInv'
  <2>1. phase' = "down" /\ UNCHANGED <<pendingSeqs, tokenFile, cursor, saveFailed>>
    BY <1>7 DEF Crash, trackerMemory
  <2> QED BY <1>1, <1>2, <2>1 DEF BoundaryInv, FileAtBoundary
<1>8. ASSUME Restart PROVE BoundaryInv'
  <2>1. \A s \in Streams : pendingSeqs'[s] = << >> /\ cursor'[s] = tokenFile'[s] /\ phase' = "up"
    BY <1>8 DEF Restart
  <2>2. ASSUME NEW s \in Streams PROVE FileAtBoundary(s)'
    <3>1. Len(pendingSeqs'[s]) = 0 /\ cursor'[s] \in Nat
      BY <1>1, <2>1 DEF TrackerInv, TrackerTypeOK
    <3> QED BY <2>1, <3>1 DEF FileAtBoundary
  <2> QED BY <1>1, <1>8, <2>2 DEF BoundaryInv, Restart
<1>9. ASSUME UNCHANGED trackerVars PROVE BoundaryInv'
  BY <1>1, <1>9 DEF trackerVars, trackerMemory, BoundaryInv, FileAtBoundary
<1> QED BY <1>4, <1>5, <1>6, <1>7, <1>8, <1>9 DEF TrackerNext

(* After an orderly shutdown the token file is as far as it may be: right  *)
(* in front of an event nobody acknowledged, or at the last event read,    *)
(* unless the latest write of the file went wrong.                         *)
THEOREM CloseFlushes == TrackerSpec => []CloseFlushesBoundary
<1>1. TrackerInit => BoundaryInv
  <2> SUFFICES ASSUME TrackerInit PROVE BoundaryInv
    OBVIOUS
  <2>1. TrackerInv
    BY TrackerInvInit
  <2>2. \A s \in Streams : FileAtBoundary(s)
    BY DEF TrackerInit, EmptyMemory, FileAtBoundary
  <2> QED BY <2>1, <2>2 DEF BoundaryInv, TrackerInit
<1>2. BoundaryInv /\ [TrackerNext]_trackerVars => BoundaryInv'
  BY BoundaryInvInductive
<1>3. BoundaryInv => CloseFlushesBoundary
  <2> SUFFICES ASSUME BoundaryInv, phase = "closed", NEW s \in Streams,
                      s \notin saveFailed, tokenFile[s] # cursor[s]
               PROVE  \E q \in DOMAIN unackedEvents[s] :
                        /\ ~unackedEvents[s][q].acked
                        /\ unackedEvents[s][q].token = tokenFile[s] + 1
    BY DEF CloseFlushesBoundary
  <2> DEFINE pend == pendingSeqs[s]
             ev == unackedEvents[s]
             n == Len(pend)
             issued == Issued(s)
  <2>1. tokenFile[s] = cursor[s] - n /\ HeadUnacked(pend, ev)
    BY DEF BoundaryInv, FileAtBoundary
  <2>2. /\ issued \in Nat /\ cursor[s] \in Nat /\ issued <= cursor[s]
        /\ n \in Nat /\ n <= issued /\ \A i \in 1..n : pend[i] = (issued - n) + i
        /\ DOMAIN ev = (issued - n + 1)..issued
        /\ \A q \in DOMAIN ev : GoodEvent(ev[q], (cursor[s] - issued) + q, settled[s])
    <3>1. PendingShape(issued, pend, lastCheckpointSeq[s], cursor[s])
          /\ GoodEvents(issued, pend, ev, cursor[s], settled[s])
      BY DEF BoundaryInv, TrackerInv, StreamInv, Ledger
    <3> HIDE DEF issued, pend, ev
    <3>2. Len(pend) \in Nat
      BY <3>1 DEF PendingShape
    <3> QED BY <3>1, <3>2 DEF PendingShape, GoodEvents
  <2> HIDE DEF pend, ev, issued
  <2>3. n > 0
    BY <2>1, <2>2
  <2>4. pend[1] = (issued - n) + 1 /\ pend[1] \in DOMAIN ev
    BY <2>2, <2>3
  <2>5. ~ev[pend[1]].acked
    <3>1. pend # << >>
      BY <2>3 DEF pend
    <3> QED BY <2>1, <3>1 DEF HeadUnacked
  <2>6. ev[pend[1]].token = tokenFile[s] + 1
    <3> HIDE DEF n
    <3>1. PICK e, q : e = ev[pend[1]] /\ q = pend[1]
      OBVIOUS
    <3>2. GoodEvent(e, (cursor[s] - issued) + q, settled[s])
      BY <2>2, <2>4, <3>1
    <3>3. e.token = (cursor[s] - issued) + q /\ q = (issued - n) + 1
      BY <2>4, <3>1, <3>2 DEF GoodEvent
    <3>4. tokenFile[s] = cursor[s] - n
      BY <2>1
    <3> QED BY <2>2, <3>1, <3>3, <3>4
  <2> QED BY <2>4, <2>5, <2>6 DEF ev
<1> QED BY <1>1, <1>2, <1>3, PTL DEF TrackerSpec
=============================================================================
