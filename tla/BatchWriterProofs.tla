-------------------------- MODULE BatchWriterProofs --------------------------
(***************************************************************************)
(* Proofs about one call of writeBatch, for every batch, every number of   *)
(* retries and every answer of the target: what a successful return means, *)
(* what is counted, and that inserts revert nothing.                       *)
(***************************************************************************)
EXTENDS BatchWriter, FiniteSetTheorems, SequenceTheorems, WellFoundedInduction, TLAPS

-----------------------------------------------------------------------------
(* The dead letter queue.                                                  *)

Open == PopulateActiveFailedIDs(dlq)

LEMMA LinesDiffer ==
  ASSUME NEW d, NEW e
  PROVE  /\ Failed(d) = Failed(e) <=> d = e
         /\ Resolved(d) = Resolved(e) <=> d = e
         /\ Failed(d) # Resolved(e) /\ Failed(d) # Header /\ Resolved(d) # Header
  BY DEF Failed, Resolved, Header

LEMMA NewFileIsEmpty ==
  NewFile \in Seq(Lines) /\ PopulateActiveFailedIDs(NewFile) = {}
<1>1. NewFile \in Seq(Lines) /\ \A i \in DOMAIN NewFile : NewFile[i] = Header
  BY DEF NewFile, Lines
<1>2. \A d \in Docs : LinesOf(NewFile, Failed(d)) = {}
  BY <1>1, LinesDiffer DEF LinesOf
<1> QED BY <1>1, <1>2 DEF PopulateActiveFailedIDs

(* Whatever was in the file: a line for a failure leaves its document with *)
(* an open failure, and takes none back.                                   *)
LEMMA FailureOpens ==
  ASSUME NEW file \in Seq(Lines), NEW d \in Docs
  PROVE  /\ Append(file, Failed(d)) \in Seq(Lines)
         /\ PopulateActiveFailedIDs(Append(file, Failed(d))) = PopulateActiveFailedIDs(file) \cup {d}
<1> DEFINE n == Len(file)
           more == Append(file, Failed(d))
<1>1. Failed(d) \in Lines
  BY DEF Lines
<1>2. /\ more \in Seq(Lines) /\ n \in Nat /\ DOMAIN file = 1..n /\ DOMAIN more = 1..(n + 1)
      /\ \A i \in 1..n : more[i] = file[i]
      /\ more[n + 1] = Failed(d)
  BY <1>1, AppendProperties
<1> HIDE DEF more
<1>3. \A e : LinesOf(more, Resolved(e)) = LinesOf(file, Resolved(e))
  BY <1>2, LinesDiffer DEF LinesOf
<1>4. \A e : LinesOf(more, Failed(e)) = LinesOf(file, Failed(e)) \cup (IF e = d THEN {n + 1} ELSE {})
  BY <1>2, LinesDiffer DEF LinesOf
<1>5. \A e : \A j \in LinesOf(more, Resolved(e)) : j < n + 1
  BY <1>2, <1>3 DEF LinesOf
<1>6. ASSUME NEW e \in Docs, e # d
      PROVE  e \in PopulateActiveFailedIDs(more) <=> e \in PopulateActiveFailedIDs(file)
  BY <1>3, <1>4, <1>6 DEF PopulateActiveFailedIDs
<1>7. d \in PopulateActiveFailedIDs(more)
  BY <1>4, <1>5 DEF PopulateActiveFailedIDs
<1>8. /\ PopulateActiveFailedIDs(more) \subseteq Docs
      /\ PopulateActiveFailedIDs(file) \subseteq Docs
  BY DEF PopulateActiveFailedIDs
<1> QED BY <1>2, <1>6, <1>7, <1>8 DEF more

(* A tombstone takes back the failures of its own document only.           *)
LEMMA TombstoneCloses ==
  ASSUME NEW file \in Seq(Lines), NEW d \in Docs
  PROVE  /\ Append(file, Resolved(d)) \in Seq(Lines)
         /\ PopulateActiveFailedIDs(file) \ {d} \subseteq PopulateActiveFailedIDs(Append(file, Resolved(d)))
<1> DEFINE n == Len(file)
           more == Append(file, Resolved(d))
<1>1. Resolved(d) \in Lines
  BY DEF Lines
<1>2. /\ more \in Seq(Lines) /\ n \in Nat /\ DOMAIN file = 1..n /\ DOMAIN more = 1..(n + 1)
      /\ \A i \in 1..n : more[i] = file[i]
      /\ more[n + 1] = Resolved(d)
  BY <1>1, AppendProperties
<1> HIDE DEF more
<1>3. \A e : e # d => LinesOf(more, Resolved(e)) = LinesOf(file, Resolved(e))
  BY <1>2, LinesDiffer DEF LinesOf
<1>4. \A e : LinesOf(more, Failed(e)) = LinesOf(file, Failed(e))
  BY <1>2, LinesDiffer DEF LinesOf
<1>5. ASSUME NEW e \in PopulateActiveFailedIDs(file), e # d
      PROVE  e \in PopulateActiveFailedIDs(more)
  BY <1>3, <1>4, <1>5 DEF PopulateActiveFailedIDs
<1> QED BY <1>2, <1>5 DEF more

LEMMA DocsAreNumbers ==
  /\ IsFiniteSet(Docs) /\ Cardinality(Docs) \in Nat /\ Docs = 1..Cardinality(Docs)
  /\ \A S \in SUBSET Docs : /\ IsFiniteSet(S) /\ Cardinality(S) \in Nat
                            /\ Cardinality(S) <= Cardinality(Docs)
<1>1. IsFiniteSet(Docs) /\ Cardinality(Docs) \in Nat /\ Docs = 1..Cardinality(Docs)
  BY DeadLettersAssumption, FS_CardinalityType
<1>2. ASSUME NEW S \in SUBSET Docs
      PROVE  /\ IsFiniteSet(S) /\ Cardinality(S) \in Nat
             /\ Cardinality(S) <= Cardinality(Docs)
  BY <1>1, FS_Subset, FS_CardinalityType
<1> QED BY <1>1, <1>2

(* The three readers of a queue file, whatever is in it.                   *)
LEMMA ReportsAgree ==
  ASSUME NEW file \in Seq(Lines), NEW max \in Nat
  PROVE  LET open == {NameOf[d] : d \in PopulateActiveFailedIDs(file)}
             report == ReadDLQReport(file, max)
         IN /\ report.count <= Cardinality(open)
            /\ Cardinality(open \ Named(file, "resolved")) <= report.count
            /\ report.returned <= max
            /\ open # {} => HasActiveFailedRecords(file)
<1> DEFINE ids == PopulateActiveFailedIDs(file)
           open == {NameOf[d] : d \in ids}
           gone == Named(file, "resolved")
           shown == Named(file, "failed") \ gone
<1>1. ids \in SUBSET Docs /\ IsFiniteSet(ids)
  <2>1. ids \in SUBSET Docs
    BY DEF PopulateActiveFailedIDs
  <2> QED BY <2>1, DocsAreNumbers
<1>2. \A i \in DOMAIN file : file[i] \in Lines
  BY ElementOfSeq
<1>3. \A d \in ids : \E i \in DOMAIN file : file[i] = Failed(d)
  BY DEF PopulateActiveFailedIDs, LinesOf
<1> HIDE DEF ids
<1>4. IsFiniteSet(open)
  <2> DEFINE f == [d \in ids |-> NameOf[d]]
  <2>1. f \in Surjection(ids, open)
    BY DEF Surjection
  <2> HIDE DEF f, open
  <2> QED BY <1>1, <2>1, FS_Surjection
<1>5. shown \subseteq open
  <2>1. SUFFICES ASSUME NEW name \in shown PROVE name \in open
    OBVIOUS
  <2>2. PICK i \in DOMAIN file : file[i].is = "failed" /\ name = NameOf[file[i].doc]
    BY <2>1 DEF Named
  <2>3. PICK d \in Docs : file[i] = Failed(d) /\ file[i].doc = d
    BY <1>2, <2>2 DEF Lines, Header, Failed, Resolved
  <2>4. LinesOf(file, Resolved(d)) = {}
    <3>1. SUFFICES ASSUME NEW j \in DOMAIN file, file[j] = Resolved(d) PROVE FALSE
      BY DEF LinesOf
    <3>2. file[j].is = "resolved" /\ file[j].doc = d
      BY <3>1 DEF Resolved
    <3>3. NameOf[d] \in gone
      BY <3>2 DEF Named
    <3> QED BY <2>1, <2>2, <2>3, <3>3
  <2>5. d \in ids
    BY <2>3, <2>4 DEF ids, PopulateActiveFailedIDs, LinesOf
  <2> QED BY <2>2, <2>3, <2>5
<1>6. open \ gone \subseteq shown
  <2>1. SUFFICES ASSUME NEW d \in ids, NameOf[d] \notin gone PROVE NameOf[d] \in Named(file, "failed")
    OBVIOUS
  <2>2. PICK i \in DOMAIN file : file[i] = Failed(d)
    BY <1>3
  <2>3. file[i].is = "failed" /\ file[i].doc = d
    BY <2>2 DEF Failed
  <2> QED BY <2>3 DEF Named
<1>7. open # {} => HasActiveFailedRecords(file)
  <2>1. SUFFICES ASSUME NEW d \in ids PROVE HasActiveFailedRecords(file)
    OBVIOUS
  <2> QED BY <1>3, LinesDiffer DEF HasActiveFailedRecords
<1> HIDE DEF open, gone, shown
<1>8. /\ IsFiniteSet(shown) /\ Cardinality(shown) \in Nat /\ Cardinality(open) \in Nat
      /\ Cardinality(shown) <= Cardinality(open)
  BY <1>4, <1>5, FS_Subset, FS_CardinalityType
<1>9. Cardinality(open \ gone) <= Cardinality(shown)
  BY <1>6, <1>8, FS_Subset
<1>10. /\ ReadDLQReport(file, max).count = Cardinality(shown)
       /\ ReadDLQReport(file, max).returned <= max
  BY <1>8 DEF ReadDLQReport, shown, gone
<1> QED BY <1>7, <1>8, <1>9, <1>10 DEF open, gone, ids

-----------------------------------------------------------------------------
(* The target.                                                             *)

Documents == [Docs -> {Absent, Copied, Newer}]

LEMMA StatesDiffer ==
  Absent # Copied /\ Absent # Newer /\ Copied # Newer
  BY DEF Absent, Copied, Newer

(* An error names documents by position; looked up in the same list, the   *)
(* positions lead back to at least the documents that were meant.          *)
LEMMA AtCovers ==
  ASSUME NEW b, NEW ds \in SUBSET b
  PROVE  ds \subseteq At(b, Positions(b, ds)) /\ \A ps : At(b, ps) \subseteq b
  BY DEF At, Positions

LEMMA WrittenIsTyped ==
  ASSUME NEW t \in Documents, NEW ds
  PROVE  /\ Written(t, ds) \in Documents
         /\ \A d \in Docs : Written(t, ds)[d] = IF d \in ds THEN Copied ELSE t[d]
  BY DEF Written, Documents

(* What an operation on the documents b may have done: it wrote documents  *)
(* of b only, and one that is not in the target afterwards is one it names *)
(* as refused, or it was not answered, or the document would break another *)
(* unique index.                                                           *)
Fine(b, t) == \A d \in b : t[d] # Absent \/ d \in clash

GoodAnswer(b, t, o) ==
  /\ o.target \in Documents
  /\ \A d \in Docs : o.target[d] # t[d] => d \in b /\ o.target[d] = Copied
  /\ o.err = Done \/ AllDuplicates(o.err) => Fine(b, o.target)
  /\ o.err.bulk => \A d \in b \ At(b, o.err.bad) : o.target[d] # Absent \/ d \in clash
  /\ o.err.kind = "canceled" => cancelled

LEMMA AnswersAreGood ==
  ASSUME NEW b \in SUBSET Docs, NEW t \in Documents, NEW dup \in SUBSET b,
         NEW bad \in SUBSET (b \ dup), NEW kind \in Kinds,
         kind # "canceled",
         \A d \in dup : t[d] # Absent \/ d \in clash,
         NEW o,
         o = [target |-> Written(t, (b \ dup) \ bad),
              err |-> IF dup \cup bad = {} THEN Done
                      ELSE BulkError(kind, Positions(b, dup), Positions(b, bad))]
  PROVE  GoodAnswer(b, t, o)
<1>1. /\ o.target \in Documents
      /\ \A d \in Docs : o.target[d] = IF d \in (b \ dup) \ bad THEN Copied ELSE t[d]
  BY WrittenIsTyped
<1>2. /\ bad \subseteq At(b, Positions(b, bad)) /\ dup \subseteq At(b, Positions(b, dup))
  BY AtCovers
<1>3. \A d \in b : d \notin bad => o.target[d] # Absent \/ d \in clash
  BY <1>1, StatesDiffer
<1>4. CASE dup \cup bad = {}
  <2>1. o.err = Done /\ ~o.err.bulk /\ o.err.kind # "canceled"
    BY <1>4 DEF Done
  <2> QED BY <1>1, <1>3, <1>4, <2>1 DEF GoodAnswer, Fine
<1>5. CASE dup \cup bad # {}
  <2>1. /\ o.err # Done /\ o.err.kind = kind
        /\ o.err.dup = Positions(b, dup) /\ o.err.bad = Positions(b, bad)
    BY <1>5 DEF Done, BulkError
  <2>2. AllDuplicates(o.err) => bad = {}
    BY <1>2, <2>1 DEF AllDuplicates, Positions
  <2>3. \A d \in b \ At(b, o.err.bad) : o.target[d] # Absent \/ d \in clash
    BY <1>2, <1>3, <2>1
  <2> QED BY <1>1, <1>3, <2>1, <2>2, <2>3 DEF GoodAnswer, Fine
<1> QED BY <1>4, <1>5

LEMMA SilenceIsGood ==
  ASSUME NEW b \in SUBSET Docs, NEW t \in Documents, NEW some \in SUBSET b,
         NEW kind \in Kinds \cup {"other"}, NEW o,
         o = [target |-> Written(t, some), err |-> Error(kind)]
  PROVE  GoodAnswer(b, t, o) /\ o.err # Done /\ ~o.err.bulk /\ o.err.dup = {}
<1>1. /\ o.target \in Documents
      /\ \A d \in Docs : o.target[d] = IF d \in some THEN Copied ELSE t[d]
  BY WrittenIsTyped
<1>2. /\ o.err.kind = kind /\ ~o.err.bulk /\ o.err.dup = {} /\ o.err # Done
      /\ kind = "canceled" => cancelled
  BY DEF Error, Done, Kinds
<1> QED BY <1>1, <1>2 DEF GoodAnswer, AllDuplicates

(* InsertMany moreover writes only documents that are not there.           *)
LEMMA InsertManyIsGood ==
  ASSUME NEW b \in SUBSET Docs, NEW t \in Documents, NEW o \in InsertMany(b, t)
  PROVE  /\ GoodAnswer(b, t, o)
         /\ \A d \in Docs : o.target[d] # t[d] => t[d] = Absent
         /\ o.err.dup # {} => \E d \in b : t[d] # Absent \/ d \in clash
<1> DEFINE dup == {d \in b : t[d] # Absent \/ d \in clash}
<1>1. \/ \E bad \in SUBSET (b \ dup), kind \in Kinds \ {"canceled"} :
           o = [target |-> Written(t, (b \ dup) \ bad),
                err |-> IF dup \cup bad = {} THEN Done
                        ELSE BulkError(kind, Positions(b, dup), Positions(b, bad))]
      \/ \E some \in SUBSET (b \ dup), kind \in Kinds :
           o = [target |-> Written(t, some), err |-> Error(kind)]
  <2> DEFINE answered == {[target |-> Written(t, (b \ dup) \ bad),
                           err |-> IF dup \cup bad = {} THEN Done
                                   ELSE BulkError(kind, Positions(b, dup), Positions(b, bad))] :
                             bad \in SUBSET (b \ dup), kind \in Kinds \ {"canceled"}}
             unanswered == {[target |-> Written(t, some), err |-> Error(kind)] :
                              some \in SUBSET (b \ dup), kind \in Kinds}
  <2>1. o \in answered \/ o \in unanswered
    <3> DEFINE kept == {a \in answered : a.err.bad = {} => a.err.kind \in {"none", "other"}}
    <3>1. o \in kept \cup unanswered
      BY DEF InsertMany
    <3> HIDE DEF answered, unanswered
    <3>2. kept \subseteq answered
      OBVIOUS
    <3> HIDE DEF kept
    <3> QED BY <3>1, <3>2
  <2> HIDE DEF dup
  <2>2. o \in answered =>
          \E bad \in SUBSET (b \ dup), kind \in Kinds \ {"canceled"} :
            o = [target |-> Written(t, (b \ dup) \ bad),
                 err |-> IF dup \cup bad = {} THEN Done
                         ELSE BulkError(kind, Positions(b, dup), Positions(b, bad))]
    OBVIOUS
  <2>3. o \in unanswered =>
          \E some \in SUBSET (b \ dup), kind \in Kinds :
            o = [target |-> Written(t, some), err |-> Error(kind)]
    OBVIOUS
  <2> HIDE DEF answered, unanswered
  <2> QED BY <2>1, <2>2, <2>3
<1>2. dup \in SUBSET b /\ \A d \in dup : t[d] # Absent \/ d \in clash
  OBVIOUS
<1>3. \A d \in b \ dup : t[d] = Absent
  OBVIOUS
<1>4. dup # {} => \E d \in b : t[d] # Absent \/ d \in clash
  OBVIOUS
<1> HIDE DEF dup
<1>5. ASSUME NEW bad \in SUBSET (b \ dup), NEW kind \in Kinds \ {"canceled"},
             o = [target |-> Written(t, (b \ dup) \ bad),
                  err |-> IF dup \cup bad = {} THEN Done
                          ELSE BulkError(kind, Positions(b, dup), Positions(b, bad))]
      PROVE  /\ GoodAnswer(b, t, o)
             /\ \A d \in Docs : o.target[d] # t[d] => t[d] = Absent
             /\ o.err.dup # {} => dup # {}
  <2>1. GoodAnswer(b, t, o)
    BY <1>2, <1>5, AnswersAreGood
  <2>2. \A d \in Docs : o.target[d] # t[d] => t[d] = Absent
    BY <1>3, <1>5, WrittenIsTyped
  <2>3. o.err.dup # {} => dup # {}
    BY <1>5 DEF Done, BulkError, Positions
  <2> QED BY <2>1, <2>2, <2>3
<1>6. ASSUME NEW some \in SUBSET (b \ dup), NEW kind \in Kinds,
             o = [target |-> Written(t, some), err |-> Error(kind)]
      PROVE  /\ GoodAnswer(b, t, o)
             /\ \A d \in Docs : o.target[d] # t[d] => t[d] = Absent
             /\ o.err.dup = {}
  <2>1. some \in SUBSET b
    BY <1>2
  <2>2. GoodAnswer(b, t, o) /\ o.err.dup = {}
    BY <1>6, <2>1, SilenceIsGood
  <2>3. \A d \in Docs : o.target[d] # t[d] => t[d] = Absent
    BY <1>3, <1>6, WrittenIsTyped
  <2> QED BY <2>2, <2>3
<1> QED BY <1>1, <1>4, <1>5, <1>6

LEMMA ReplaceManyIsGood ==
  ASSUME NEW b \in SUBSET Docs, NEW t \in Documents, NEW o \in ReplaceMany(b, t)
  PROVE  GoodAnswer(b, t, o)
<1> DEFINE dup == {d \in b : t[d] = Absent /\ d \in clash}
<1>1. \/ \E bad \in SUBSET (b \ dup), kind \in Kinds \ {"canceled"} :
           o = [target |-> Written(t, (b \ dup) \ bad),
                err |-> IF dup \cup bad = {} THEN Done
                        ELSE BulkError(kind, Positions(b, dup), Positions(b, bad))]
      \/ \E some \in SUBSET (b \ dup), kind \in Kinds :
           o = [target |-> Written(t, some), err |-> Error(kind)]
  BY DEF ReplaceMany
<1>2. dup \in SUBSET b /\ \A d \in dup : t[d] # Absent \/ d \in clash
  OBVIOUS
<1> HIDE DEF dup
<1>5. ASSUME NEW bad \in SUBSET (b \ dup), NEW kind \in Kinds \ {"canceled"},
             o = [target |-> Written(t, (b \ dup) \ bad),
                  err |-> IF dup \cup bad = {} THEN Done
                          ELSE BulkError(kind, Positions(b, dup), Positions(b, bad))]
      PROVE  GoodAnswer(b, t, o)
  BY <1>2, <1>5, AnswersAreGood
<1>6. ASSUME NEW some \in SUBSET (b \ dup), NEW kind \in Kinds,
             o = [target |-> Written(t, some), err |-> Error(kind)]
      PROVE  GoodAnswer(b, t, o)
  <2>1. some \in SUBSET b
    BY <1>2
  <2> QED BY <1>6, <2>1, SilenceIsGood
<1> QED BY <1>1, <1>5, <1>6

(* processBatch: when it reports nothing but duplicates, every document of *)
(* the part is in the target or would break another unique index -         *)
(* although the positions may be those of a shorter list.                  *)
LEMMA ProcessBatchIsGood ==
  ASSUME NEW b \in SUBSET Docs, NEW t \in Documents, NEW o \in ProcessBatch(b, t)
  PROVE  /\ o.target \in Documents
         /\ \A d \in Docs : t[d] # Absent => o.target[d] # Absent
         /\ o.err = Done \/ AllDuplicates(o.err) => Fine(b, o.target)
<1>1. ASSUME GoodAnswer(b, t, o)
      PROVE  /\ o.target \in Documents
             /\ \A d \in Docs : t[d] # Absent => o.target[d] # Absent
             /\ o.err = Done \/ AllDuplicates(o.err) => Fine(b, o.target)
  BY <1>1, StatesDiffer DEF GoodAnswer
<1>2. CASE b = {}
  <2>1. o.target = t
    BY <1>2 DEF ProcessBatch
  <2> QED BY <1>2, <2>1 DEF Fine
<1>3. CASE b # {} /\ b \cap broken # {}
  <2>1. o.target = t /\ o.err = Error("other")
    BY <1>3 DEF ProcessBatch
  <2>2. o.err # Done /\ ~AllDuplicates(o.err)
    BY <2>1 DEF Error, Done, AllDuplicates
  <2> QED BY <2>1, <2>2
<1>4. CASE b # {} /\ b \cap broken = {} /\ upsert
  <2>1. o \in ReplaceMany(b, t)
    BY <1>4 DEF ProcessBatch
  <2> QED BY <1>1, <2>1, ReplaceManyIsGood
<1>5. CASE b # {} /\ b \cap broken = {} /\ ~upsert
  <2>1. PICK o1 \in InsertMany(b, t) :
          o \in IF AllDuplicates(o1.err) THEN ReplaceMany(At(b, o1.err.dup), o1.target) ELSE {o1}
    BY <1>5 DEF ProcessBatch
  <2>2. GoodAnswer(b, t, o1)
    BY <2>1, InsertManyIsGood
  <2>3. CASE ~AllDuplicates(o1.err)
    <3>1. o = o1
      BY <2>1, <2>3
    <3> QED BY <1>1, <2>2, <3>1
  <2>4. CASE AllDuplicates(o1.err)
    <3> DEFINE again == At(b, o1.err.dup)
    <3>1. o \in ReplaceMany(again, o1.target) /\ again \in SUBSET Docs /\ again \subseteq b
      BY <2>1, <2>4, AtCovers
    <3>2. o1.target \in Documents
      BY <2>2 DEF GoodAnswer
    <3>3. GoodAnswer(again, o1.target, o)
      BY <3>1, <3>2, ReplaceManyIsGood
    <3>4. Fine(b, o1.target)
      BY <2>2, <2>4 DEF GoodAnswer
    <3> HIDE DEF again
    <3>5. \A d \in Docs : o1.target[d] # Absent => o.target[d] # Absent
      BY <3>3, StatesDiffer DEF GoodAnswer
    <3>6. \A d \in Docs : t[d] # Absent => o1.target[d] # Absent
      BY <2>2, StatesDiffer DEF GoodAnswer
    <3>7. Fine(b, o.target)
      BY <3>4, <3>5 DEF Fine
    <3> QED BY <3>3, <3>5, <3>6, <3>7 DEF GoodAnswer
  <2> QED BY <2>3, <2>4
<1> QED BY <1>2, <1>3, <1>4, <1>5

-----------------------------------------------------------------------------
(* The invariant.                                                          *)

Stages == {"start", "insert", "bulkRetry", "replace", "single", "split", "ok", "error"}
Jobs == [docs : SUBSET Docs, at : {"first", "backoff", "last"}, tries : 0..MaxRetries]

WriterTypes ==
  /\ target \in Documents /\ clash \subseteq Docs
  /\ dlq \in Seq(Lines) /\ pc \in Stages
  /\ batch \subseteq Docs /\ todo \subseteq batch /\ tries \in 0..MaxRetries
  /\ jobs \in Seq(Jobs) /\ failed \in 0..Cardinality(Docs) /\ live \in Nat
  /\ {resilient, cancelled, broke} \subseteq BOOLEAN

(* Which mode is at which stage with what.                                 *)
WriterModes ==
  /\ pc = "start" => batch = Docs
  /\ pc \in {"start", "insert", "bulkRetry"} => dlq = NewFile /\ failed = 0 /\ todo = {}
  /\ pc \in {"insert", "bulkRetry", "replace", "single"} => resilient
  /\ pc = "split" => ~resilient /\ jobs # << >>
  /\ ~resilient => batch = Docs /\ dlq = NewFile /\ (pc # "error" => failed = 0)
  /\ resilient => jobs = << >>

(* A document is dealt with: it is in the target or an open failure, or it *)
(* belongs to one of the two excepted kinds.  Those not dealt with are     *)
(* among the ones the call still has in hand.                              *)
DealtWith(d) ==
  \/ target[d] # Absent \/ d \in Open
  \/ d \in clash \/ (resilient /\ cancelled)

InHand ==
  /\ pc \in {"start", "insert", "bulkRetry"} => \A d \in Docs \ batch : DealtWith(d)
  /\ pc \in {"replace", "single"} => \A d \in Docs \ todo : DealtWith(d)
  /\ pc = "split" =>
       broke \/ \A d \in Docs : DealtWith(d) \/ \E i \in DOMAIN jobs : d \in jobs[i].docs
  /\ pc = "ok" => \A d \in Docs : DealtWith(d)

(* The count goes with the queue as long as nobody else writes to it; what *)
(* is still to be written one by one is not counted yet.                   *)
Counted ==
  /\ pc \in {"replace", "single"} =>
       /\ Open \cap todo = {} /\ failed + Cardinality(todo) <= Cardinality(Docs)
       /\ ~cancelled => failed = Cardinality(Open)
  /\ pc = "ok" /\ live = 0 /\ ~cancelled => failed = Cardinality(Open)

WriterInv == WriterTypes /\ WriterModes /\ InHand /\ Counted

LEMMA OpenIsSmall ==
  Open \in SUBSET Docs /\ IsFiniteSet(Open) /\ Cardinality(Open) \in Nat
<1>1. Open \in SUBSET Docs
  BY DEF Open, PopulateActiveFailedIDs
<1> QED BY <1>1, DocsAreNumbers

(* What is dealt with stays dealt with as long as no document and no open  *)
(* failure goes away and the context does not come back.                   *)
LEMMA DealtWithStays ==
  ASSUME \A d \in Docs : target[d] # Absent => target'[d] # Absent,
         Open \subseteq Open', UNCHANGED <<clash, resilient>>, cancelled => cancelled',
         NEW d \in Docs, DealtWith(d)
  PROVE  DealtWith(d)'
  BY DEF DealtWith

LEMMA SameQueue ==
  ASSUME UNCHANGED dlq
  PROVE  Open' = Open
  BY DEF Open

(* The least of a set of documents.                                        *)
LEMMA FirstIsLeast ==
  ASSUME NEW ds \in SUBSET Docs, ds # {}
  PROVE  First(ds) \in ds
<1> DEFINE less == {p \in Nat \X Nat : p[1] < p[2]}
<1>1. ds \subseteq Nat
  BY DocsAreNumbers
<1>2. IsWellFoundedOn(less, Nat)
  <2>1. OpToRel(<, Nat) = less
    BY DEF OpToRel
  <2> QED BY <2>1, NatLessThanWellFounded
<1>3. \E d \in ds : \A x \in ds : <<x, d>> \notin less
  BY <1>1, <1>2, WFMin
<1>4. \A x, d \in Nat : <<x, d>> \in less \/ d <= x
  OBVIOUS
<1> HIDE DEF less
<1>5. \E d \in ds : \A x \in ds : d <= x
  BY <1>1, <1>3, <1>4
<1> QED BY <1>5 DEF First

(* Lists of jobs: what the next part does not hold is in the rest.         *)
LEMMA RestOfJobs ==
  ASSUME NEW js \in Seq(Jobs), js # << >>, NEW more \in Seq(Jobs)
  PROVE  /\ Head(js) \in Jobs /\ Tail(js) \in Seq(Jobs) /\ more \o Tail(js) \in Seq(Jobs)
         /\ \A d : (\E i \in DOMAIN js : d \in js[i].docs) =>
              \/ d \in Head(js).docs
              \/ /\ \E i \in DOMAIN (Tail(js)) : d \in Tail(js)[i].docs
                 /\ \E i \in DOMAIN (more \o Tail(js)) : d \in (more \o Tail(js))[i].docs
         /\ \A d : (\E i \in DOMAIN more : d \in more[i].docs) =>
              \E i \in DOMAIN (more \o Tail(js)) : d \in (more \o Tail(js))[i].docs
         /\ more # << >> => more \o Tail(js) # << >>
         /\ Len(js) = 1 => Tail(js) = << >>
         /\ Len(js) # 1 => Tail(js) # << >>
<1> DEFINE tl == Tail(js)
           all == more \o tl
<1>1. /\ Len(js) \in Nat \ {0} /\ DOMAIN js = 1..Len(js) /\ DOMAIN more = 1..Len(more)
      /\ Len(more) \in Nat
  BY EmptySeq
<1>2. /\ Head(js) \in Jobs /\ tl \in Seq(Jobs) /\ Len(tl) = Len(js) - 1
      /\ \A i \in 1..Len(tl) : tl[i] = js[i + 1]
  BY HeadTailProperties
<1>3. Head(js) = js[1]
  OBVIOUS
<1> HIDE DEF tl
<1>4. DOMAIN tl = 1..Len(tl) /\ Len(tl) \in Nat
  BY <1>2
<1>5. /\ all \in Seq(Jobs) /\ Len(all) = Len(more) + Len(tl)
      /\ \A i \in 1..Len(more) + Len(tl) : all[i] = IF i <= Len(more) THEN more[i] ELSE tl[i - Len(more)]
  BY <1>2, ConcatProperties
<1> HIDE DEF all
<1>6. DOMAIN all = 1..(Len(more) + Len(tl))
  BY <1>5
<1>7. ASSUME NEW i \in DOMAIN tl PROVE \E j \in DOMAIN all : all[j] = tl[i]
  <2>1. Len(more) + i \in 1..(Len(more) + Len(tl)) /\ ~(Len(more) + i <= Len(more))
        /\ (Len(more) + i) - Len(more) = i
    BY <1>1, <1>4, <1>7
  <2> QED BY <1>5, <1>6, <2>1
<1>8. ASSUME NEW i \in DOMAIN more PROVE \E j \in DOMAIN all : all[j] = more[i]
  <2>1. i \in 1..(Len(more) + Len(tl)) /\ i <= Len(more)
    BY <1>1, <1>4, <1>8
  <2> QED BY <1>5, <1>6, <2>1
<1>9. ASSUME NEW d, NEW i \in DOMAIN js, d \in js[i].docs, d \notin Head(js).docs
      PROVE  \E j \in DOMAIN tl : d \in tl[j].docs
  <2>1. i # 1 /\ i \in 1..Len(js)
    BY <1>1, <1>3, <1>9
  <2>2. i - 1 \in 1..Len(tl) /\ tl[i - 1] = js[i]
    BY <1>1, <1>2, <2>1
  <2> QED BY <1>4, <1>9, <2>2
<1>10. /\ Len(js) = 1 => tl = << >>
       /\ Len(js) # 1 => tl # << >>
  BY <1>1, <1>2
<1>11. more # << >> => all # << >>
  BY <1>1, <1>4, <1>5, EmptySeq
<1> QED BY <1>2, <1>5, <1>7, <1>8, <1>9, <1>10, <1>11 DEF tl, all

-----------------------------------------------------------------------------
(* Every step keeps the invariant, and what an insert writes was absent.   *)

Kept ==
  /\ WriterInv'
  /\ resilient /\ pc # "replace" => \A d \in Docs : target[d] = Newer => target'[d] = Newer

LEMMA TransformFailsKept ==
  ASSUME WriterInv, TransformFails
  PROVE  Kept
<1> DEFINE n == Cardinality(Docs)
           nth(i) == CHOOSE d \in Docs : Position(Docs, d) = i
           file == [i \in 1..n |-> Failed(nth(i))]
<1>1. pc = "start" /\ resilient /\ batch = Docs /\ dlq = NewFile
  BY DEF TransformFails, WriterInv, WriterModes
<1>2. /\ dlq' = NewFile \o file /\ failed' = n /\ pc' = "ok"
      /\ UNCHANGED <<batch, todo, tries, jobs, broke, target, clash, resilient, cancelled, live>>
  BY <1>1 DEF TransformFails, Return, inputs
<1>3. n \in Nat /\ Docs = 1..n /\ IsFiniteSet(Docs)
  BY DocsAreNumbers
<1> HIDE DEF n
<1>4. \A i \in Docs : Position(Docs, i) = i
  <2>1. SUFFICES ASSUME NEW i \in Docs PROVE Cardinality({x \in Docs : x <= i}) = i
    BY DEF Position
  <2>2. {x \in Docs : x <= i} = 1..i /\ i \in Nat /\ i >= 1
    BY <1>3
  <2>3. Cardinality(1..i) = i
    BY <2>2, FS_Interval
  <2> QED BY <2>2, <2>3
<1>5. \A i \in 1..n : nth(i) = i
  BY <1>3, <1>4
<1> HIDE DEF nth
<1>6. file = [i \in 1..n |-> Failed(i)] /\ file \in Seq(Lines) /\ Len(file) = n
  <2>1. file = [i \in 1..n |-> Failed(i)]
    BY <1>5
  <2>2. \A i \in 1..n : Failed(i) \in Lines
    BY <1>3 DEF Lines
  <2> QED BY <1>3, <2>1, <2>2
<1> HIDE DEF file
<1>7. /\ dlq' \in Seq(Lines) /\ DOMAIN dlq' = 1..(n + 1)
      /\ dlq'[1] = Header /\ \A i \in 1..n : dlq'[i + 1] = Failed(i)
  <2>1. NewFile \in Seq(Lines) /\ Len(NewFile) = 1 /\ NewFile[1] = Header
    BY NewFileIsEmpty DEF NewFile
  <2>2. /\ NewFile \o file \in Seq(Lines) /\ Len(NewFile \o file) = 1 + n
        /\ \A i \in 1..(1 + n) : (NewFile \o file)[i] = IF i <= 1 THEN NewFile[i] ELSE file[i - 1]
    <3>1. /\ NewFile \o file \in Seq(Lines) /\ Len(NewFile \o file) = Len(NewFile) + Len(file)
          /\ \A i \in 1..Len(NewFile) + Len(file) :
               (NewFile \o file)[i] = IF i <= Len(NewFile) THEN NewFile[i] ELSE file[i - Len(NewFile)]
      BY <1>6, <2>1, ConcatProperties
    <3> QED BY <1>6, <2>1, <3>1
  <2> QED BY <1>2, <1>3, <1>6, <2>1, <2>2
<1>8. \A d \in Docs : LinesOf(dlq', Resolved(d)) = {}
  <2>1. \A i \in 1..(n + 1) : dlq'[i] = Header \/ \E e : dlq'[i] = Failed(e)
    <3>1. ASSUME NEW i \in 1..(n + 1), i # 1 PROVE i - 1 \in 1..n /\ (i - 1) + 1 = i
      BY <1>3, <3>1
    <3> QED BY <1>7, <3>1
  <2> QED BY <1>7, <2>1, LinesDiffer DEF LinesOf
<1>9. \A d \in Docs : d + 1 \in LinesOf(dlq', Failed(d))
  BY <1>3, <1>7 DEF LinesOf
<1>10. Open' = Docs
  BY <1>8, <1>9 DEF Open, PopulateActiveFailedIDs
<1>11. WriterTypes'
  BY <1>2, <1>3, <1>7 DEF WriterInv, WriterTypes, Stages, n
<1>12. WriterModes'
  BY <1>1, <1>2 DEF WriterInv, WriterModes
<1>13. InHand' /\ Counted'
  BY <1>2, <1>10 DEF InHand, Counted, DealtWith, n
<1> QED BY <1>2, <1>11, <1>12, <1>13 DEF Kept, WriterInv

LEMMA ProactiveSkipKept ==
  ASSUME WriterInv, ProactiveSkip
  PROVE  Kept
<1>1. /\ pc = "start" /\ resilient /\ batch = Docs /\ dlq = NewFile /\ failed = 0
      /\ UNCHANGED <<target, clash, resilient, cancelled, dlq, failed, live, todo, tries, jobs, broke>>
  BY DEF ProactiveSkip, Return, WriterInv, WriterModes, inputs
<1>2. PICK found \in SUBSET Docs :
        /\ \A d \in found : target[d] # Absent
        /\ \/ pc' = "ok" /\ found = Docs /\ batch' = batch
           \/ pc' = "insert" /\ batch' = batch \ found
  <2>1. CASE \E found \in SUBSET {d \in batch : target[d] # Absent} :
               \/ found = batch /\ Return("ok")
               \/ batch' = batch \ found /\ pc' = "insert"
    <3>1. PICK found \in SUBSET {d \in batch : target[d] # Absent} :
               \/ found = batch /\ Return("ok")
               \/ batch' = batch \ found /\ pc' = "insert"
      BY <2>1
    <3>2. found \in SUBSET Docs /\ \A d \in found : target[d] # Absent
      BY <1>1
    <3> QED BY <1>1, <3>1, <3>2 DEF Return
  <2>2. CASE pc' = "insert" /\ UNCHANGED batch
    <3>1. {} \in SUBSET Docs /\ batch \ {} = batch
      OBVIOUS
    <3> QED BY <2>2, <3>1
  <2> QED BY <2>1, <2>2 DEF ProactiveSkip
<1>3. \A d \in found : DealtWith(d)'
  BY <1>1, <1>2 DEF DealtWith
<1>4. Open' = Open /\ Open = {}
  BY <1>1, SameQueue, NewFileIsEmpty DEF Open
<1>5. WriterTypes'
  <2>1. todo = {}
    BY <1>1 DEF WriterInv, WriterModes
  <2> QED BY <1>1, <1>2, <2>1 DEF WriterInv, WriterTypes, Stages
<1>6. WriterModes'
  BY <1>1, <1>2 DEF WriterInv, WriterModes
<1>7. InHand' /\ Counted'
  <2>1. Cardinality(Open') = 0
    BY <1>4, FS_EmptySet
  <2> QED BY <1>1, <1>2, <1>3, <2>1 DEF InHand, Counted
<1> QED BY <1>1, <1>5, <1>6, <1>7 DEF Kept, WriterInv

LEMMA GivingUpKept ==
  ASSUME WriterInv, ThrottlerFails
  PROVE  Kept
<1>1. /\ pc' = "error"
      /\ UNCHANGED <<target, clash, resilient, cancelled, dlq, failed, live, batch, todo, tries, jobs, broke>>
  BY DEF ThrottlerFails, Return, inputs
<1>2. WriterTypes' /\ WriterModes' /\ InHand' /\ Counted'
  BY <1>1 DEF WriterInv, WriterTypes, Stages, WriterModes, InHand, Counted
<1> QED BY <1>1, <1>2 DEF Kept, WriterInv

(* The bulk inserts: whatever they leave behind is handed to the           *)
(* replacement or the inserts one by one.                                  *)
LEMMA BulkStepsKept ==
  ASSUME WriterInv, BulkInsert \/ BulkRetry
  PROVE  Kept
<1>1. /\ pc \in {"insert", "bulkRetry"} /\ resilient /\ dlq = NewFile /\ failed = 0 /\ todo = {}
      /\ jobs = << >> /\ UNCHANGED <<clash, resilient, cancelled, dlq, failed, live, batch, jobs, broke>>
  BY DEF BulkInsert, BulkRetry, Return, WriterInv, WriterModes, inputs
<1>2. PICK o \in InsertMany(batch, target) :
        /\ target' = o.target
        /\ \/ pc' = "ok" /\ (o.err = Done \/ AllDuplicates(o.err)) /\ UNCHANGED <<todo, tries>>
           \/ pc' = "replace" /\ o.err.bulk /\ todo' = At(batch, o.err.bad) /\ UNCHANGED tries
           \/ pc' = "bulkRetry" /\ todo' = todo /\ tries' \in {MaxRetries, tries - 1}
              /\ (tries' = tries - 1 => tries > 1)
           \/ pc' = "single" /\ todo' = batch /\ tries' \in {0, tries}
  <2>1. CASE BulkInsert
    <3>1. PICK o \in InsertMany(batch, target) :
            /\ target' = o.target
            /\ \/ o.err = Done /\ Return("ok")
               \/ /\ o.err.bulk
                  /\ todo' = At(batch, o.err.bad) /\ pc' = "replace" /\ UNCHANGED <<batch, tries, jobs, broke>>
               \/ /\ pc' = "bulkRetry" /\ tries' = MaxRetries /\ UNCHANGED <<batch, todo, jobs, broke>>
               \/ /\ pc' = "single" /\ todo' = batch /\ UNCHANGED <<batch, tries, jobs, broke>>
      BY <2>1 DEF BulkInsert
    <3>2. MaxRetries # tries - 1
      BY BatchWriterAssumption DEF WriterInv, WriterTypes
    <3> QED BY <3>1, <3>2 DEF Return
  <2>2. CASE BulkRetry
    BY <1>1, <2>2 DEF BulkRetry, Return
  <2> QED BY <2>1, <2>2
<1>3. /\ batch \in SUBSET Docs /\ target \in Documents /\ tries \in 0..MaxRetries /\ MaxRetries \in Nat \ {0}
  BY BatchWriterAssumption DEF WriterInv, WriterTypes
<1>4. /\ GoodAnswer(batch, target, o)
      /\ \A d \in Docs : o.target[d] # target[d] => target[d] = Absent
  BY <1>3, InsertManyIsGood
<1>5. target' \in Documents /\ \A d \in Docs : target[d] # Absent => target'[d] = target[d]
  BY <1>2, <1>4 DEF GoodAnswer
<1>6. Open' = Open /\ Open = {} /\ Cardinality(Open) = 0
  BY <1>1, SameQueue, NewFileIsEmpty, FS_EmptySet DEF Open
<1>7. \A d \in Docs \ batch : DealtWith(d)'
  <2>1. \A d \in Docs \ batch : DealtWith(d)
    BY <1>1 DEF WriterInv, InHand
  <2> QED BY <1>1, <1>5, <1>6, <2>1, DealtWithStays
<1>8. todo' \subseteq batch /\ tries' \in 0..MaxRetries /\ pc' \in Stages
  <2>1. At(batch, o.err.bad) \subseteq batch
    BY DEF At
  <2>2. todo' \subseteq batch
    BY <1>1, <1>2, <2>1
  <2>3. tries' \in 0..MaxRetries
    BY <1>2, <1>3
  <2> QED BY <1>2, <2>2, <2>3 DEF Stages
<1>9. WriterTypes'
  BY <1>1, <1>5, <1>8 DEF WriterInv, WriterTypes
<1>10. WriterModes'
  BY <1>1, <1>2 DEF WriterInv, WriterModes
<1>11. InHand'
  <2>1. CASE pc' = "ok"
    <3>1. \A d \in batch : target'[d] # Absent \/ d \in clash
      BY <1>2, <1>4, <2>1 DEF GoodAnswer, Fine
    <3>2. \A d \in batch : DealtWith(d)'
      BY <1>1, <3>1 DEF DealtWith
    <3> QED BY <1>7, <2>1, <3>2 DEF InHand
  <2>2. CASE pc' = "replace"
    <3>1. \A d \in batch \ todo' : target'[d] # Absent \/ d \in clash
      BY <1>2, <1>4, <2>2 DEF GoodAnswer
    <3>2. \A d \in batch \ todo' : DealtWith(d)'
      BY <1>1, <3>1 DEF DealtWith
    <3> QED BY <1>7, <2>2, <3>2 DEF InHand
  <2>3. CASE pc' = "bulkRetry"
    BY <1>1, <1>7, <2>3 DEF InHand
  <2>4. CASE pc' = "single"
    BY <1>2, <1>7, <2>4 DEF InHand
  <2> QED BY <1>2, <2>1, <2>2, <2>3, <2>4
<1>12. Counted'
  <2>1. todo' \in SUBSET Docs
    BY <1>3, <1>8
  <2>2. 0 + Cardinality(todo') <= Cardinality(Docs)
    BY <2>1, DocsAreNumbers
  <2> QED BY <1>1, <1>6, <2>2 DEF Counted
<1> QED BY <1>3, <1>5, <1>9, <1>10, <1>11, <1>12, StatesDiffer DEF Kept, WriterInv

(* One operation on the next document, which is then dealt with or still   *)
(* to do.                                                                  *)
LEMMA OneByOneKept ==
  ASSUME WriterInv, Replace \/ Single
  PROVE  Kept
<1>1. /\ pc \in {"replace", "single"} /\ resilient /\ todo # {} /\ jobs = << >>
      /\ UNCHANGED <<clash, resilient, cancelled, pc, batch, jobs, broke, live>>
  BY DEF Replace, Single, WriterInv, WriterModes, inputs
<1>d. PICK d \in todo : d = First(todo)
  BY <1>1, FirstIsLeast DEF WriterInv, WriterTypes
<1>2. /\ d \in Docs /\ {d} \in SUBSET Docs /\ todo \in SUBSET Docs
      /\ target \in Documents /\ dlq \in Seq(Lines)
      /\ tries \in 0..MaxRetries /\ MaxRetries \in Nat \ {0}
  BY BatchWriterAssumption DEF WriterInv, WriterTypes
<1>3. PICK o :
        /\ target' = o.target /\ GoodAnswer({d}, target, o)
        /\ pc = "single" => \A x \in Docs : o.target[x] # target[x] => target[x] = Absent
        /\ pc = "single" => (o.err.dup # {} => target[d] # Absent \/ d \in clash)
        /\ \/ tries' = NextTries /\ Again(o.err) /\ UNCHANGED <<todo, dlq, failed>>
           \/ \E existing \in BOOLEAN :
               /\ Settle(d, Final(o.err), existing)
               /\ existing => pc = "single" /\ Final(o.err).dup # {}
  <2>1. CASE Replace
    <3>1. PICK o \in ReplaceOne(d, target) :
            /\ target' = o.target
            /\ \/ tries' = NextTries /\ Again(o.err) /\ UNCHANGED <<todo, dlq, failed>>
               \/ Settle(d, Final(o.err), FALSE)
      BY <1>d, <2>1 DEF Replace
    <3>2. GoodAnswer({d}, target, o)
      BY <1>2, <3>1, ReplaceManyIsGood DEF ReplaceOne
    <3>3. pc = "replace"
      BY <2>1 DEF Replace
    <3> QED BY <3>1, <3>2, <3>3
  <2>2. CASE Single
    <3>1. PICK o \in InsertOne(d, target) :
            /\ target' = o.target
            /\ \/ tries' = NextTries /\ Again(o.err) /\ UNCHANGED <<todo, dlq, failed>>
               \/ Settle(d, Final(o.err), Final(o.err).dup # {})
      BY <1>d, <2>2 DEF Single
    <3>2. /\ GoodAnswer({d}, target, o)
          /\ \A x \in Docs : o.target[x] # target[x] => target[x] = Absent
          /\ o.err.dup # {} => \E x \in {d} : target[x] # Absent \/ x \in clash
      <4>1. o \in InsertMany({d}, target)
        BY <3>1 DEF InsertOne
      <4>2. GoodAnswer({d}, target, o)
        BY <1>2, <4>1, InsertManyIsGood
      <4>3. \A x \in Docs : o.target[x] # target[x] => target[x] = Absent
        BY <1>2, <4>1, InsertManyIsGood
      <4>4. o.err.dup # {} => \E x \in {d} : target[x] # Absent \/ x \in clash
        BY <1>2, <4>1, InsertManyIsGood
      <4> QED BY <4>2, <4>3, <4>4
    <3>3. pc = "single"
      BY <2>2 DEF Single
    <3>4. (Final(o.err).dup # {}) \in BOOLEAN
      OBVIOUS
    <3> QED BY <3>1, <3>2, <3>3, <3>4
  <2> QED BY <2>1, <2>2
<1>4. target' \in Documents /\ \A x \in Docs : target[x] # Absent => target'[x] # Absent
  BY <1>3, StatesDiffer DEF GoodAnswer
<1>5. resilient /\ pc # "replace" => \A x \in Docs : target[x] = Newer => target'[x] = Newer
  BY <1>1, <1>3, StatesDiffer
<1>6. /\ \A x \in Docs \ todo : DealtWith(x)
      /\ Open \cap todo = {} /\ failed + Cardinality(todo) <= Cardinality(Docs)
      /\ ~cancelled => failed = Cardinality(Open)
      /\ failed \in Nat
  BY <1>1 DEF WriterInv, InHand, Counted, WriterTypes
<1>7. CASE tries' = NextTries /\ Again(o.err) /\ UNCHANGED <<todo, dlq, failed>>
  <2>1. tries' \in 0..MaxRetries
    BY <1>2, <1>7 DEF NextTries, Again
  <2>2. WriterTypes' /\ WriterModes'
    BY <1>1, <1>4, <1>7, <2>1 DEF WriterInv, WriterTypes, WriterModes
  <2>3. Open' = Open
    BY <1>7, SameQueue
  <2>4. \A x \in Docs \ todo' : DealtWith(x)'
    BY <1>1, <1>4, <1>6, <1>7, <2>3, DealtWithStays
  <2>5. InHand' /\ Counted'
    BY <1>1, <1>6, <1>7, <2>3, <2>4 DEF InHand, Counted
  <2> QED BY <1>5, <2>2, <2>5 DEF Kept, WriterInv
<1>8. ASSUME NEW existing \in BOOLEAN, Settle(d, Final(o.err), existing),
             existing => pc = "single" /\ Final(o.err).dup # {}
      PROVE  Kept
  <2>1. todo' = todo \ {d} /\ tries' = 0
    BY <1>8 DEF Settle
  <2>2. /\ todo' \in SUBSET Docs
        /\ Cardinality(todo') = Cardinality(todo) - 1 /\ Cardinality(todo) \in Nat
        /\ Cardinality(todo') \in Nat
    <3>1. IsFiniteSet(todo) /\ Cardinality(todo) \in Nat /\ todo' \in SUBSET Docs
      BY <1>2, <2>1, DocsAreNumbers
    <3>2. Cardinality(todo') \in Nat
      BY <3>1, DocsAreNumbers
    <3> QED BY <1>2, <2>1, <3>1, <3>2, FS_RemoveElement
  <2>3. /\ dlq' \in Seq(Lines) /\ Open \subseteq Open' /\ Open' \subseteq Open \cup {d}
        /\ failed' \in {failed, failed + 1}
        /\ ~cancelled => failed' = Cardinality(Open')
        /\ DealtWith(d)'
    <3>1. CASE Final(o.err) = Done \/ existing
      <4>1. UNCHANGED <<dlq, failed>>
        BY <1>8, <3>1 DEF Settle
      <4>2. Open' = Open
        BY <4>1, SameQueue
      <4>3. target'[d] # Absent \/ d \in clash
        <5>1. CASE Final(o.err) = Done
          <6>1. o.err = Done
            BY <5>1 DEF Final, Error, Done
          <6> QED BY <1>3, <6>1 DEF GoodAnswer, Fine
        <5>2. CASE existing
          <6>1. o.err.dup # {}
            BY <1>8, <5>2 DEF Final, Error, Done
          <6> QED BY <1>2, <1>3, <1>4, <1>8, <5>2, <6>1
        <5> QED BY <3>1, <5>1, <5>2
      <4> QED BY <1>1, <1>2, <1>6, <4>1, <4>2, <4>3 DEF DealtWith
    <3>2. CASE Final(o.err) # Done /\ ~existing
      <4>1. dlq' = WriteFailed(dlq, d, Final(o.err).kind) /\ failed' = failed + 1
        BY <1>8, <3>2 DEF Settle
      <4>2. CASE Final(o.err).kind = "canceled"
        <5>1. cancelled
          BY <1>3, <4>2 DEF Final, Error, GoodAnswer
        <5>2. dlq' = dlq
          BY <4>1, <4>2 DEF WriteFailed
        <5>3. Open' = Open
          BY <5>2, SameQueue
        <5> QED BY <1>1, <1>2, <4>1, <5>1, <5>2, <5>3 DEF DealtWith
      <4>3. CASE Final(o.err).kind # "canceled"
        <5>1. dlq' = Append(dlq, Failed(d))
          BY <4>1, <4>3 DEF WriteFailed
        <5>2. dlq' \in Seq(Lines) /\ Open' = Open \cup {d}
          BY <1>2, <5>1, FailureOpens DEF Open
        <5>3. d \notin Open
          BY <1>2, <1>6
        <5>4. Cardinality(Open') = Cardinality(Open) + 1
          BY <5>2, <5>3, OpenIsSmall, FS_AddElement
        <5>5. DealtWith(d)'
          BY <5>2 DEF DealtWith
        <5> QED BY <1>6, <4>1, <5>2, <5>4, <5>5
      <4> QED BY <4>2, <4>3
    <3> QED BY <3>1, <3>2
  <2>4. failed' \in 0..Cardinality(Docs) /\ failed' + Cardinality(todo') <= Cardinality(Docs)
    <3>1. Cardinality(Docs) \in Nat
      BY DocsAreNumbers
    <3> QED BY <1>6, <2>2, <2>3, <3>1
  <2>5. WriterTypes'
    <3>1. todo' \subseteq batch
      BY <2>1 DEF WriterInv, WriterTypes
    <3>2. tries' \in 0..MaxRetries
      BY <1>2, <2>1
    <3> QED BY <1>1, <1>4, <2>3, <2>4, <3>1, <3>2 DEF WriterInv, WriterTypes
  <2>6. WriterModes'
    BY <1>1, <2>1 DEF WriterInv, WriterModes
  <2>7. \A x \in Docs \ todo' : DealtWith(x)'
    <3>1. \A x \in Docs \ todo : DealtWith(x)'
      BY <1>1, <1>4, <1>6, <2>3, DealtWithStays
    <3> QED BY <2>1, <2>3, <3>1
  <2>8. Open' \cap todo' = {}
    BY <1>6, <2>1, <2>3
  <2>9. InHand' /\ Counted'
    BY <1>1, <2>3, <2>4, <2>7, <2>8 DEF InHand, Counted
  <2> QED BY <1>5, <2>5, <2>6, <2>9 DEF Kept, WriterInv
<1>9. CASE \E existing \in BOOLEAN :
               /\ Settle(d, Final(o.err), existing)
               /\ existing => pc = "single" /\ Final(o.err).dup # {}
  <2>1. PICK existing \in BOOLEAN :
               /\ Settle(d, Final(o.err), existing)
               /\ existing => pc = "single" /\ Final(o.err).dup # {}
    BY <1>9
  <2> QED BY <1>8, <2>1
<1> QED BY <1>3, <1>7, <1>9

LEMMA AllSettledKept ==
  ASSUME WriterInv, AllSettled
  PROVE  Kept
<1>1. /\ pc \in {"replace", "single"} /\ todo = {} /\ pc' = "ok"
      /\ UNCHANGED <<target, clash, resilient, cancelled, dlq, failed, live, batch, todo, tries, jobs, broke>>
  BY DEF AllSettled, Return, inputs
<1>2. \A d \in Docs : DealtWith(d)'
  <2>1. \A d \in Docs : DealtWith(d)
    BY <1>1 DEF WriterInv, InHand
  <2> QED BY <1>1, <2>1, SameQueue, DealtWithStays
<1>3. Open' = Open
  BY <1>1, SameQueue
<1>4. WriterTypes' /\ WriterModes' /\ InHand' /\ Counted'
  BY <1>1, <1>2, <1>3 DEF WriterInv, WriterTypes, Stages, WriterModes, InHand, Counted
<1> QED BY <1>1, <1>4 DEF Kept, WriterInv

LEMMA StartSplitKept ==
  ASSUME WriterInv, StartSplit
  PROVE  Kept
<1>1. /\ pc = "start" /\ ~resilient /\ batch = Docs /\ pc' = "split" /\ jobs' = <<Job(Docs, "first")>>
      /\ UNCHANGED <<target, clash, resilient, cancelled, dlq, batch, todo, tries, broke, failed, live>>
  BY DEF StartSplit, WriterInv, WriterModes, inputs
<1>2. Job(Docs, "first") \in Jobs /\ Job(Docs, "first").docs = Docs
  BY BatchWriterAssumption DEF Job, Jobs
<1>3. jobs' \in Seq(Jobs) /\ jobs' # << >> /\ DOMAIN jobs' = {1} /\ jobs'[1].docs = Docs
  BY <1>1, <1>2
<1>4. WriterTypes'
  BY <1>1, <1>3 DEF WriterInv, WriterTypes, Stages
<1>5. WriterModes'
  BY <1>1, <1>3 DEF WriterInv, WriterModes
<1>6. InHand' /\ Counted'
  BY <1>1, <1>3 DEF InHand, Counted
<1> QED BY <1>1, <1>4, <1>5, <1>6 DEF Kept, WriterInv

(* What follows a failed attempt on a part covers the part again, unless   *)
(* the error was about duplicates only.                                    *)
LEMMA PartsCover ==
  ASSUME NEW b \in SUBSET Docs, NEW err
  PROVE  /\ Parts(b, err) \in Seq(Jobs) /\ Parts(b, err) # << >>
         /\ ~AllDuplicates(err) =>
              \A d \in b : \E i \in DOMAIN Parts(b, err) : d \in Parts(b, err)[i].docs
<1>1. ASSUME NEW c \in SUBSET Docs, NEW at \in {"first", "backoff", "last"}
      PROVE  Job(c, at) \in Jobs /\ Job(c, at).docs = c
  BY BatchWriterAssumption DEF Job, Jobs
<1>2. FirstHalf(b) \in SUBSET Docs /\ b \ FirstHalf(b) \in SUBSET Docs /\ At(b, err.dup) \in SUBSET Docs
  BY DEF FirstHalf, At
<1>3. CASE Parts(b, err) = <<Job(b, "backoff")>>
  BY <1>1, <1>3
<1>4. CASE Parts(b, err) = <<Job(FirstHalf(b), "first"), Job(b \ FirstHalf(b), "first")>>
  <2> DEFINE half == Job(FirstHalf(b), "first")
             rest == Job(b \ FirstHalf(b), "first")
  <2>1. half \in Jobs /\ rest \in Jobs /\ half.docs = FirstHalf(b) /\ rest.docs = b \ FirstHalf(b)
    BY <1>1, <1>2
  <2> HIDE DEF half, rest
  <2>2. Parts(b, err) = <<half, rest>>
    BY <1>4 DEF half, rest
  <2>3. <<half, rest>> \in Seq(Jobs) /\ <<half, rest>> # << >> /\ DOMAIN <<half, rest>> = {1, 2}
    BY <2>1
  <2>4. \A d \in b : d \in <<half, rest>>[1].docs \/ d \in <<half, rest>>[2].docs
    BY <2>1
  <2> QED BY <2>2, <2>3, <2>4
<1>5. CASE Parts(b, err) = <<Job(At(b, err.dup), "last")>> /\ AllDuplicates(err)
  BY <1>1, <1>2, <1>5
<1> QED BY <1>3, <1>4, <1>5 DEF Parts

(* A part is done: what it held is dealt with, the next ones hold the rest. *)
LEMMA FinishKept ==
  ASSUME WriterInv, pc = "split", NEW failure \in BOOLEAN, Finish(failure),
         target' \in Documents, \A d \in Docs : target[d] # Absent => target'[d] # Absent,
         failure \/ Fine(Head(jobs).docs, target'),
         UNCHANGED <<clash, resilient, cancelled, dlq, batch, todo, tries, live>>
  PROVE  Kept
<1>1. /\ jobs \in Seq(Jobs) /\ jobs # << >> /\ ~resilient /\ batch = Docs /\ dlq = NewFile /\ failed = 0
      /\ broke \in BOOLEAN
  BY DEF WriterInv, WriterTypes, WriterModes
<1>2. /\ broke' = (broke \/ failure) /\ jobs' = Tail(jobs) /\ pc' \in {"ok", "error", "split"}
      /\ pc' = "ok" => Len(jobs) = 1 /\ ~broke /\ ~failure
      /\ pc' = "split" => Len(jobs) # 1
      /\ failed' \in {0, Cardinality(Docs)} /\ (pc' # "error" => failed' = 0)
  BY <1>1 DEF Finish
<1>3. << >> \in Seq(Jobs)
  OBVIOUS
<1>4. /\ Tail(jobs) \in Seq(Jobs)
      /\ \A d : (\E i \in DOMAIN jobs : d \in jobs[i].docs) =>
           \/ d \in Head(jobs).docs
           \/ \E i \in DOMAIN (Tail(jobs)) : d \in Tail(jobs)[i].docs
      /\ Len(jobs) = 1 => Tail(jobs) = << >>
      /\ Len(jobs) # 1 => Tail(jobs) # << >>
  BY <1>1, <1>3, RestOfJobs
<1>5. Cardinality(Docs) \in Nat
  BY DocsAreNumbers
<1>6. WriterTypes'
  BY <1>1, <1>2, <1>4, <1>5 DEF WriterInv, WriterTypes, Stages
<1>7. WriterModes'
  BY <1>1, <1>2, <1>4 DEF WriterInv, WriterModes
<1>8. Open' = Open /\ Open = {} /\ Cardinality(Open) = 0
  BY <1>1, SameQueue, NewFileIsEmpty, FS_EmptySet DEF Open
<1>9. broke' \/ \A d \in Docs : DealtWith(d)' \/ \E i \in DOMAIN jobs' : d \in jobs'[i].docs
  <2>1. SUFFICES ASSUME ~broke, ~failure, NEW d \in Docs
                 PROVE  DealtWith(d)' \/ \E i \in DOMAIN jobs' : d \in jobs'[i].docs
    BY <1>2
  <2>2. DealtWith(d) \/ \E i \in DOMAIN jobs : d \in jobs[i].docs
    BY <2>1 DEF WriterInv, InHand
  <2>3. CASE DealtWith(d)
    BY <1>8, <2>3, DealtWithStays
  <2>4. CASE d \in Head(jobs).docs
    BY <2>1, <2>4 DEF Fine, DealtWith
  <2> QED BY <1>2, <1>4, <2>2, <2>3, <2>4
<1>10. InHand'
  <2>1. pc' = "ok" => jobs' = << >> /\ ~broke'
    BY <1>1, <1>2, <1>4
  <2> QED BY <1>2, <1>9, <2>1 DEF InHand
<1>11. Counted'
  BY <1>2, <1>8 DEF Counted
<1> QED BY <1>1, <1>6, <1>7, <1>10, <1>11 DEF Kept, WriterInv

LEMMA RunJobKept ==
  ASSUME WriterInv, RunJob
  PROVE  Kept
<1>1. /\ pc = "split" /\ jobs \in Seq(Jobs) /\ jobs # << >> /\ ~resilient /\ batch = Docs
      /\ dlq = NewFile /\ failed = 0 /\ target \in Documents
      /\ UNCHANGED <<clash, resilient, cancelled, dlq, batch, todo, tries, live>>
  BY DEF RunJob, WriterInv, WriterTypes, WriterModes, inputs
<1>j. PICK job \in Jobs : job = Head(jobs)
  BY <1>1, HeadTailProperties
<1>2. job.docs \in SUBSET Docs /\ job.tries \in 0..MaxRetries
  BY DEF Jobs
<1>3. PICK o \in ProcessBatch(job.docs, target) :
        /\ target' = o.target
        /\ \/ o.err = Done /\ Finish(FALSE)
           \/ o.err # Done /\ jobs' = Parts(job.docs, o.err) \o Tail(jobs) /\ UNCHANGED <<pc, broke, failed>>
           \/ /\ o.err # Done /\ job.tries > 1
              /\ jobs' = <<[job EXCEPT !.tries = job.tries - 1]>> \o Tail(jobs)
              /\ UNCHANGED <<pc, broke, failed>>
           \/ Finish(TRUE)
  BY <1>j DEF RunJob
<1>4. /\ target' \in Documents
      /\ \A d \in Docs : target[d] # Absent => target'[d] # Absent
      /\ o.err = Done \/ AllDuplicates(o.err) => Fine(job.docs, target')
  BY <1>1, <1>2, <1>3, ProcessBatchIsGood
<1>5. CASE o.err = Done /\ Finish(FALSE)
  BY <1>1, <1>j, <1>4, <1>5, FinishKept
<1>6. CASE Finish(TRUE)
  BY <1>1, <1>4, <1>6, FinishKept
<1>7. ASSUME NEW more \in Seq(Jobs), more # << >>, jobs' = more \o Tail(jobs), UNCHANGED <<pc, broke, failed>>,
             ~Fine(job.docs, target') => \A d \in job.docs : \E i \in DOMAIN more : d \in more[i].docs
      PROVE  Kept
  <2>1. /\ jobs' \in Seq(Jobs) /\ jobs' # << >>
        /\ \A d : (\E i \in DOMAIN jobs : d \in jobs[i].docs) =>
             d \in job.docs \/ \E i \in DOMAIN jobs' : d \in jobs'[i].docs
        /\ \A d : (\E i \in DOMAIN more : d \in more[i].docs) =>
             \E i \in DOMAIN jobs' : d \in jobs'[i].docs
    BY <1>1, <1>j, <1>7, RestOfJobs
  <2>2. WriterTypes'
    BY <1>1, <1>4, <1>7, <2>1 DEF WriterInv, WriterTypes
  <2>3. WriterModes'
    BY <1>1, <1>7, <2>1 DEF WriterInv, WriterModes
  <2>4. broke' \/ \A d \in Docs : DealtWith(d)' \/ \E i \in DOMAIN jobs' : d \in jobs'[i].docs
    <3>1. SUFFICES ASSUME ~broke, NEW d \in Docs
                   PROVE  DealtWith(d)' \/ \E i \in DOMAIN jobs' : d \in jobs'[i].docs
      BY <1>7
    <3>2. DealtWith(d) \/ \E i \in DOMAIN jobs : d \in jobs[i].docs
      BY <1>1, <3>1 DEF WriterInv, InHand
    <3>3. CASE DealtWith(d)
      <4>1. Open' = Open
        BY <1>1, SameQueue
      <4> QED BY <1>1, <1>4, <3>3, <4>1, DealtWithStays
    <3>4. CASE d \in job.docs /\ Fine(job.docs, target')
      BY <1>1, <3>4 DEF Fine, DealtWith
    <3> QED BY <1>7, <2>1, <3>2, <3>3, <3>4
  <2>5. InHand' /\ Counted'
    BY <1>1, <1>7, <2>4 DEF InHand, Counted
  <2> QED BY <1>1, <2>2, <2>3, <2>5 DEF Kept, WriterInv
<1>8. CASE o.err # Done /\ jobs' = Parts(job.docs, o.err) \o Tail(jobs) /\ UNCHANGED <<pc, broke, failed>>
  <2> DEFINE more == Parts(job.docs, o.err)
  <2>1. /\ more \in Seq(Jobs) /\ more # << >>
        /\ ~AllDuplicates(o.err) => \A d \in job.docs : \E i \in DOMAIN more : d \in more[i].docs
    BY <1>2, PartsCover
  <2>2. jobs' = more \o Tail(jobs)
    BY <1>8
  <2> HIDE DEF more
  <2> QED BY <1>4, <1>7, <1>8, <2>1, <2>2
<1>9. CASE /\ o.err # Done /\ job.tries > 1
           /\ jobs' = <<[job EXCEPT !.tries = job.tries - 1]>> \o Tail(jobs)
           /\ UNCHANGED <<pc, broke, failed>>
  <2> DEFINE again == [job EXCEPT !.tries = job.tries - 1]
  <2>1. job.tries - 1 \in 0..MaxRetries
    BY <1>2, <1>9, BatchWriterAssumption
  <2>2. again \in Jobs /\ again.docs = job.docs
    BY <2>1 DEF Jobs
  <2>3. jobs' = <<again>> \o Tail(jobs)
    BY <1>9
  <2> HIDE DEF again
  <2>4. <<again>> \in Seq(Jobs) /\ <<again>> # << >> /\ DOMAIN <<again>> = {1} /\ <<again>>[1].docs = job.docs
    BY <2>2
  <2> QED BY <1>7, <1>9, <2>3, <2>4
<1> QED BY <1>3, <1>5, <1>6, <1>8, <1>9

LEMMA CancelKept ==
  ASSUME WriterInv, Cancel
  PROVE  Kept
<1>1. /\ pc \notin {"ok", "error"} /\ cancelled' = TRUE
      /\ UNCHANGED <<target, clash, resilient, dlq, failed, live, pc, batch, todo, tries, jobs, broke>>
  BY DEF Cancel, Running, inputs
<1>2. Open' = Open
  BY <1>1, SameQueue
<1>3. \A d \in Docs : DealtWith(d) => DealtWith(d)'
  BY <1>1, <1>2, DealtWithStays
<1>4. WriterTypes' /\ WriterModes'
  BY <1>1 DEF WriterInv, WriterTypes, WriterModes
<1>5. InHand' /\ Counted'
  BY <1>1, <1>2, <1>3 DEF WriterInv, InHand, Counted
<1> QED BY <1>1, <1>4, <1>5 DEF Kept, WriterInv

LEMMA NewerVersionKept ==
  ASSUME WriterInv, NEW e \in Docs, NewerVersion(e)
  PROVE  Kept
<1>1. /\ pc \notin {"ok", "error"} /\ live' = live + 1 /\ target' = [target EXCEPT ![e] = Newer]
      /\ UNCHANGED <<clash, resilient, cancelled, dlq, failed, pc, batch, todo, tries, jobs, broke>>
  BY DEF NewerVersion, Running, inputs
<1>2. /\ target' \in Documents
      /\ \A d \in Docs : target'[d] = target[d] \/ target'[d] = Newer
  BY <1>1 DEF WriterInv, WriterTypes, Documents
<1>3. Open' = Open
  BY <1>1, SameQueue
<1>4. \A d \in Docs : DealtWith(d) => DealtWith(d)'
  BY <1>1, <1>2, <1>3, DealtWithStays, StatesDiffer
<1>5. WriterTypes' /\ WriterModes'
  BY <1>1, <1>2 DEF WriterInv, WriterTypes, WriterModes
<1>6. InHand' /\ Counted'
  BY <1>1, <1>3, <1>4 DEF WriterInv, InHand, Counted
<1> QED BY <1>2, <1>5, <1>6 DEF Kept, WriterInv

LEMMA LiveWriteKept ==
  ASSUME WriterInv, NEW e \in Docs, LiveWrite(e)
  PROVE  Kept
<1>1. /\ pc = "ok" /\ resilient /\ live' = live + 1 /\ live \in Nat
      /\ target \in Documents /\ dlq \in Seq(Lines)
      /\ \A d \in Docs : DealtWith(d)
      /\ UNCHANGED <<clash, resilient, cancelled, failed, pc, batch, todo, tries, jobs, broke>>
  BY DEF LiveWrite, inputs, WriterInv, WriterTypes, InHand
<1>2. /\ target' \in Documents /\ dlq' \in Seq(Lines)
      /\ \A d \in Docs : target'[d] = target[d] \/ target'[d] = Newer
      /\ \A d \in Docs : DealtWith(d)'
  <2>1. CASE /\ target' = [target EXCEPT ![e] = Newer]
             /\ dlq' \in {dlq, WriteResolved(dlq, e)}
    <3>1. /\ target' \in Documents /\ target'[e] = Newer
          /\ \A d \in Docs : target'[d] = target[d] \/ target'[d] = Newer
      BY <1>1, <2>1 DEF Documents
    <3>2. dlq' \in Seq(Lines) /\ Open \ {e} \subseteq Open'
      BY <1>1, <2>1, TombstoneCloses, SameQueue DEF WriteResolved, Open
    <3> QED BY <1>1, <3>1, <3>2, StatesDiffer DEF DealtWith
  <2>2. CASE dlq' = WriteFailed(dlq, e, "other") /\ UNCHANGED target
    <3>1. dlq' \in Seq(Lines) /\ Open \subseteq Open'
      BY <1>1, <2>2, FailureOpens DEF WriteFailed, Open
    <3> QED BY <1>1, <2>2, <3>1, DealtWithStays
  <2> QED BY <2>1, <2>2 DEF LiveWrite
<1>3. WriterTypes' /\ WriterModes'
  BY <1>1, <1>2 DEF WriterInv, WriterTypes, WriterModes
<1>4. InHand' /\ Counted'
  BY <1>1, <1>2 DEF InHand, Counted
<1> QED BY <1>2, <1>3, <1>4, StatesDiffer DEF Kept, WriterInv

LEMMA WriterInvInit ==
  ASSUME Init
  PROVE  WriterInv
<1>1. /\ target \in Documents /\ clash \subseteq Docs /\ resilient \in BOOLEAN
      /\ cancelled = FALSE /\ dlq = NewFile /\ pc = "start" /\ batch = Docs /\ todo = {}
      /\ tries = 0 /\ jobs = << >> /\ broke = FALSE /\ failed = 0 /\ live = 0
  BY DEF Init, Documents
<1>2. Cardinality(Docs) \in Nat /\ MaxRetries \in Nat /\ NewFile \in Seq(Lines) /\ << >> \in Seq(Jobs)
  BY DocsAreNumbers, BatchWriterAssumption, NewFileIsEmpty
<1>3. WriterTypes
  <2>1. tries \in 0..MaxRetries /\ failed \in 0..Cardinality(Docs) /\ live \in Nat
    BY <1>1, <1>2
  <2>2. {resilient, cancelled, broke} \subseteq BOOLEAN /\ pc \in Stages
    BY <1>1 DEF Stages
  <2>3. dlq \in Seq(Lines) /\ jobs \in Seq(Jobs) /\ batch \subseteq Docs /\ todo \subseteq batch
    BY <1>1, <1>2
  <2> QED BY <1>1, <2>1, <2>2, <2>3 DEF WriterTypes
<1>4. WriterModes /\ InHand /\ Counted
  BY <1>1 DEF WriterModes, InHand, Counted
<1> QED BY <1>3, <1>4 DEF WriterInv

LEMMA WriterInvInductive ==
  ASSUME WriterInv, [Next]_vars
  PROVE  Kept
<1>1. CASE TransformFails BY <1>1, TransformFailsKept
<1>2. CASE ProactiveSkip  BY <1>2, ProactiveSkipKept
<1>3. CASE ThrottlerFails BY <1>3, GivingUpKept
<1>4. CASE BulkInsert     BY <1>4, BulkStepsKept
<1>5. CASE BulkRetry      BY <1>5, BulkStepsKept
<1>6. CASE Replace        BY <1>6, OneByOneKept
<1>7. CASE Single         BY <1>7, OneByOneKept
<1>8. CASE AllSettled     BY <1>8, AllSettledKept
<1>9. CASE StartSplit     BY <1>9, StartSplitKept
<1>10. CASE RunJob        BY <1>10, RunJobKept
<1>11. CASE Cancel        BY <1>11, CancelKept
<1>12. ASSUME NEW d \in Docs, NewerVersion(d) PROVE Kept
  BY <1>12, NewerVersionKept
<1>13. ASSUME NEW d \in Docs, LiveWrite(d) PROVE Kept
  BY <1>13, LiveWriteKept
<1>14. CASE UNCHANGED vars
  <2>1. UNCHANGED <<target, clash, resilient, cancelled, dlq, failed, live, pc, batch, todo, tries, jobs, broke>>
    BY <1>14 DEF vars, inputs
  <2>2. WriterTypes' /\ WriterModes'
    BY <2>1 DEF WriterInv, WriterTypes, WriterModes
  <2>3. InHand' /\ Counted'
    BY <2>1 DEF WriterInv, InHand, Counted, DealtWith, Open
  <2> QED BY <2>1, <2>2, <2>3 DEF Kept, WriterInv
<1> QED BY <1>1, <1>2, <1>3, <1>4, <1>5, <1>6, <1>7, <1>8, <1>9, <1>10, <1>11, <1>12, <1>13, <1>14
        DEF Next, WriteStep

THEOREM WriterInvHolds == Spec => []WriterInv
<1>1. WriterInv /\ [Next]_vars => WriterInv'
  BY WriterInvInductive DEF Kept
<1> QED BY <1>1, WriterInvInit, PTL DEF Spec

-----------------------------------------------------------------------------
(* The properties.                                                         *)

(* The types of everything one call of writeBatch keeps.                   *)
THEOREM BatchWriterTypeCorrect == Spec => []BatchWriterTypeOK
<1>1. ASSUME WriterInv
      PROVE  BatchWriterTypeOK
  <2>1. /\ target \in [Docs -> {Absent, Copied, Newer}] /\ pc \in Stages
        /\ todo \subseteq batch /\ batch \subseteq Docs
        /\ tries \in 0..MaxRetries /\ failed \in 0..Cardinality(Docs)
        /\ jobs \in Seq(Jobs) /\ dlq \in Seq(Lines) /\ resilient \in BOOLEAN
    BY <1>1 DEF WriterInv, WriterTypes, Documents
  <2>2. \A i \in DOMAIN jobs : jobs[i].docs \subseteq batch /\ jobs[i].tries \in 0..MaxRetries
    <3>1. CASE resilient
      <4>1. jobs = << >>
        BY <1>1, <3>1 DEF WriterInv, WriterModes
      <4> QED BY <4>1
    <3>2. CASE ~resilient
      <4>1. batch = Docs
        BY <1>1, <3>2 DEF WriterInv, WriterModes
      <4>2. \A i \in DOMAIN jobs : jobs[i] \in Jobs
        BY <2>1, ElementOfSeq
      <4> QED BY <4>1, <4>2 DEF Jobs
    <3> QED BY <3>1, <3>2
  <2>3. \A i \in DOMAIN dlq : dlq[i] \in Lines
    BY <2>1, ElementOfSeq
  <2> QED BY <2>1, <2>2, <2>3 DEF BatchWriterTypeOK, Stages
<1> QED BY <1>1, WriterInvHolds, PTL

(* A call that returns without an error has written every document of its  *)
(* batch or recorded it as an open failure, whatever the target answered,  *)
(* whatever was retried and split - the two exceptions named.              *)
THEOREM ReturnSettles == Spec => []ReturnMeansSettled
<1>1. WriterInv => ReturnMeansSettled
  BY DEF WriterInv, InHand, DealtWith, Open, ReturnMeansSettled
<1> QED BY <1>1, WriterInvHolds, PTL

(* What the call counts as failed is what the queue holds.                 *)
THEOREM CountIsRecorded == Spec => []FailuresAreCounted
<1>1. WriterInv => FailuresAreCounted
  BY DEF WriterInv, Counted, Open, FailuresAreCounted
<1> QED BY <1>1, WriterInvHolds, PTL

(* The report, the pre-scan and the emptiness check agree on every queue   *)
(* the writer and the live replication can produce.                        *)
THEOREM ReportIsConsistent == Spec => []ReportCountsOpenFailures
<1>1. ASSUME WriterInv
      PROVE  ReportCountsOpenFailures
  <2>1. dlq \in Seq(Lines) /\ ReportMax \in Nat
    BY <1>1, BatchWriterAssumption DEF WriterInv, WriterTypes
  <2> QED BY <2>1, ReportsAgree DEF ReportCountsOpenFailures
<1> QED BY <1>1, WriterInvHolds, PTL

(* "Safety Fix 4": inserts and their fallback revert no newer version.     *)
THEOREM InsertsRevertNothing == Spec => InsertsKeepNewer
<1>1. WriterInv /\ [Next]_vars =>
        [resilient /\ pc # "replace" => \A d \in Docs : target[d] = Newer => target'[d] = Newer]_vars
  BY WriterInvInductive DEF Kept
<1> QED BY <1>1, WriterInvHolds, PTL DEF Spec, InsertsKeepNewer
=============================================================================
