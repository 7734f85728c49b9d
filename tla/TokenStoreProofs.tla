-------------------------- MODULE TokenStoreProofs --------------------------
(***************************************************************************)
(* Proofs about TokenStore, for every set of layouts, any length of the    *)
(* log and of a second, any number of backups, crashes, corrupted files    *)
(* and failing operations.                                                 *)
(*                                                                         *)
(* What the files mean depends on how they began, which no variable        *)
(* remembers: the invariant therefore speaks of a beginning, the layout L  *)
(* with the token start[f] of each of its files, the file h that holds the *)
(* least of them, and whether the files are of the current version.        *)
(*                                                                         *)
(* The last part is about the backups of the file in force: where the last *)
(* two saves are at every moment of a rotation, and after every number of  *)
(* interrupted ones.                                                       *)
(***************************************************************************)
EXTENDS TokenStore, FiniteSetTheorems, SequenceTheorems, WellFoundedInduction, TLAPS

Present == ScanPartitionCheckpoints

Beginning(L, start, h, current) ==
  /\ L \in Layouts /\ start \in [L -> Tokens] /\ current \in BOOLEAN
  /\ IF L = {} THEN h = Current ELSE h \in L /\ \A f \in L : start[h] <= start[f]
  /\ ~current => \E f \in L : f[2] = Contiguous

Least(L, start, h) == IF L = {} THEN Captured ELSE start[h]
Numbered(L) == \A f \in L : f[2] # Contiguous

Places == {"down", "loading", "saving", "deleting", "opening", "running", "refused"}
FoundTokens == {Nothing} \cup {[tok |-> t, second |-> Second(t)] : t \in Tokens}

PlainTypes(L) ==
  /\ disk \in [Files -> [0..Backups -> Contents]]
  /\ pc \in Places /\ old \subseteq L \ {Current} /\ at \in Nat \ {0}
  /\ fetched \in Tokens \cup {NoToken} /\ from \in Tokens \cup {NoToken}
  /\ found \in FoundTokens
  /\ legacy = IF L = {} THEN Captured ELSE NoToken
  /\ floor \in Tokens /\ leftOut \in BOOLEAN /\ cut \in BOOLEAN
  /\ corruptions \in Nat /\ faults \in Nat

(* What the process may have ahead of it.                                  *)
SaveOp ==
  {Unlink(Current, Backups), Copy(Current, 0, 1)}
    \cup {Rename(Current, k) : k \in 1..(Backups - 1)}
    \cup {Fill(Current, 1, c) : c \in Contents} \cup {WriteAtomic(Current, Content(t)) : t \in Tokens}
DeleteOp(L) == {Unlink(f, k) : f \in L \ {Current}, k \in 0..Backups}

Restoring(f, t) ==
  /\ disk[f][0] = Torn
  /\ \/ todo = <<Fill(f, 0, Content(t))>>
     \/ \E k \in 1..Backups : disk[f][k] = Content(t) /\ todo = <<Copy(f, k, 0)>>
Restores == \E f \in Files, t \in Tokens : Restoring(f, t)

Saving == todo \in Seq(SaveOp)

TodoInv(L) ==
  /\ pc \in {"down", "opening", "refused"} => todo = << >>
  /\ pc = "loading" /\ todo # << >> =>
       \E f \in Active : f[1] = at /\ fetched # NoToken /\ Restoring(f, fetched)
  /\ pc = "saving" => Saving /\ (todo # << >> => todo[Len(todo)].op = "write")
  /\ pc = "running" /\ ~Saving => \E t \in Tokens : Restoring(Current, t)
  /\ pc = "running" => /\ from # NoToken
                       /\ \A i \in DOMAIN todo : todo[i].op = "write" => todo[i].content.tok = from
  /\ pc = "deleting" => todo \in Seq(DeleteOp(L))

(* Which files there are.                                                  *)
AboutToGo(f) == f \in old \/ (todo # << >> /\ Head(todo) = Unlink(f, 0))

FilesInv(L) ==
  /\ Present \subseteq L \cup {Current}
  /\ Current \notin Present => L \subseteq Present
  /\ pc \in {"deleting", "opening", "running"} \/ (pc = "saving" /\ todo = << >>) => Current \in Present
  /\ pc \in {"saving", "deleting"} => Current \notin L
  /\ pc = "saving" => \A f \in L \cap Present : f \in old
  /\ pc = "loading" => Present # {}

DeleteInv(L) ==
  /\ ~cut /\ pc # "deleting" => L \subseteq Present \/ L \cap Present = {}
  /\ pc = "deleting" /\ (~cut \/ faults = 0) => \A f \in L \cap Present : AboutToGo(f)
  /\ pc = "deleting" /\ faults = 1 => \E x \in Files : \A f \in (L \cap Present) \ {x} : AboutToGo(f)

(* Loading one partition after the other.                                  *)
LoadInv(L) ==
  pc = "loading" =>
    /\ at <= Total
    /\ InTransition => \A f \in L : f[1] < at => f \in Present
    /\ fetched # NoToken =>
         \E f \in Active : /\ f[1] = at /\ disk[f][0] \notin {Missing, Outdated}
                           /\ todo = << >> /\ disk[f][0].is = "token" => disk[f][0].tok = fetched

(* No token is ahead of what all partitions have dealt with.               *)
Fine(t) == Second(t) <= Second(floor)
FineContent(c) == c.is = "token" => Fine(c.tok)

FineInv(h) ==
  ~leftOut =>
    /\ \A k \in 0..Backups : FineContent(disk[Current][k]) /\ FineContent(disk[h][k])
    /\ \A i \in DOMAIN todo : todo[i].op = "fill" /\ todo[i].file \in {Current, h} => FineContent(todo[i].content)
    /\ pc = "saving" => \A i \in DOMAIN todo : todo[i].op = "write" => FineContent(todo[i].content)
    /\ pc = "loading" /\ InTransition /\ at > h[1] => found # Nothing /\ Fine(found.tok)

(* Files of another version stop every start.                              *)
OutdatedInv(L) ==
  /\ L # {} /\ L \subseteq Present /\ Current \notin Present
  /\ \A f \in L : disk[f][0] = Outdated
  /\ pc \in {"down", "loading", "refused"} /\ fetched = NoToken

(* As long as no file has become unreadable.                               *)
IntactInv(L, start) ==
  /\ ~leftOut
  /\ \A f \in Files : disk[f][0] \in {Missing} \cup {Content(t) : t \in Tokens}
  /\ \A f \in (L \cap Present) \ {Current} : disk[f][0] = Content(start[f])
  /\ pc = "refused" => cut

(* Progress: where it is, and why it is not overwritten.                   *)
ProgressInv(L, start, h) ==
  /\ \/ disk[Current][0].is = "token" /\ Second(disk[Current][0].tok) = Second(floor)
     \/ Current \notin Present /\ floor = Least(L, start, h)
  /\ Current \notin L /\ Numbered(L) /\ L # {} /\ L \subseteq Present => floor = Least(L, start, h)
  /\ pc \in {"opening", "running"} /\ Current \notin L /\ Numbered(L) /\ L # {} => ~(L \subseteq Present)
  /\ pc = "saving" => \A i \in DOMAIN todo : todo[i].op = "write" => Second(todo[i].content.tok) = Second(floor)
  /\ pc = "running" => Second(from) >= Second(floor)
  /\ pc = "loading" /\ InTransition /\ found # Nothing => Second(found.tok) >= Second(Least(L, start, h))

StoreInv(L, start, h, current) ==
  /\ PlainTypes(L) /\ TodoInv(L) /\ FilesInv(L) /\ DeleteInv(L) /\ LoadInv(L) /\ FineInv(h)
  /\ ~current => OutdatedInv(L)
  /\ current /\ corruptions = 0 => IntactInv(L, start)
  /\ current /\ corruptions = 0 /\ faults <= 1 => ProgressInv(L, start, h)

TokenStoreInv ==
  \E L \in Layouts : \E start \in [L -> Tokens] : \E h \in Files : \E current \in BOOLEAN :
    Beginning(L, start, h, current) /\ StoreInv(L, start, h, current)

-----------------------------------------------------------------------------
(* What never changes: seconds, layouts, lists of operations.              *)

LEMMA Statics ==
  /\ MaxToken \in Nat \ {0} /\ PerSecond \in Nat \ {0} /\ Backups \in Nat /\ Backups >= 2
  /\ Tokens = 1..MaxToken /\ Captured \in Tokens /\ NoToken \notin Tokens /\ Tokens \subseteq Nat
  /\ Current = <<1, 1>> /\ Current \in Files /\ \A L \in Layouts : L \subseteq Files
<1>1. MaxToken \in Nat \ {0} /\ PerSecond \in Nat \ {0} /\ Backups \in Nat \ {0, 1}
  BY TokenStoreAssumption DEF TokenStoreAssumption
<1>2. Backups \in Nat /\ Backups >= 2
  BY <1>1
<1>3. Tokens = 1..MaxToken /\ Captured \in Tokens /\ NoToken \notin Tokens /\ Tokens \subseteq Nat
  <2>1. PICK m \in Nat \ {0} : m = MaxToken
    BY <1>1
  <2>2. 1 \in 1..m /\ 0 \notin 1..m /\ 1..m \subseteq Nat
    OBVIOUS
  <2> QED BY <2>1, <2>2 DEF Tokens, Captured, NoToken
<1>4. Current = <<1, 1>> /\ Current \in Files /\ \A L \in Layouts : L \subseteq Files
  <2>1. ASSUME NEW L \in Layouts, NEW f \in L PROVE f \in Files
    BY DEF Files
  <2>2. Current \in Files
    BY DEF Files
  <2> QED BY <2>1, <2>2 DEF Current
<1> QED BY <1>1, <1>2, <1>3, <1>4

(* A later position is of the same second or of a later one.               *)
LEMMA SecondIsMonotonic ==
  ASSUME NEW t \in Tokens, NEW u \in Tokens, t <= u
  PROVE  Second(t) \in Nat /\ Second(u) \in Nat /\ Second(t) <= Second(u)
<1>1. PICK p \in Nat \ {0} : p = PerSecond
  BY Statics
<1>2. t \in Nat \ {0} /\ u \in Nat \ {0}
  BY Statics
<1>3. t \div p \in Nat /\ u \div p \in Nat /\ t \div p <= u \div p
  BY <1>1, <1>2
<1> QED BY <1>1, <1>2, <1>3 DEF Second, Captured

LEMMA GreatestIs ==
  ASSUME NEW S \in SUBSET Int, NEW m \in S, \A x \in S : x <= m
  PROVE  Greatest(S) = m
<1>1. \A n \in S : (\A x \in S : x <= n) => n = m
  OBVIOUS
<1> QED BY <1>1 DEF Greatest

LEMMA LeastExists ==
  ASSUME NEW S \in SUBSET Nat, S # {}
  PROVE  \E k \in S : \A m \in S : k <= m
<1> DEFINE less == {p \in Nat \X Nat : p[1] < p[2]}
<1>1. IsWellFoundedOn(less, Nat)
  <2>1. OpToRel(<, Nat) = less
    BY DEF OpToRel
  <2> QED BY <2>1, NatLessThanWellFounded
<1>2. \E k \in S : \A m \in S : <<m, k>> \notin less
  BY <1>1, WFMin
<1>3. \A m, k \in Nat : <<m, k>> \in less \/ k <= m
  OBVIOUS
<1> HIDE DEF less
<1> QED BY <1>2, <1>3

Shape(L, n, total) == n \in Nat /\ total \in {n, Contiguous} /\ L = {<<i, total>> : i \in 1..n}

LEMMA LayoutShape ==
  ASSUME NEW L \in Layouts
  PROVE  \E n, total : Shape(L, n, total)
<1>1. IsLayout(L)
  BY TokenStoreAssumption DEF TokenStoreAssumption
<1>2. Cardinality(L) \in Nat
  BY <1>1, FS_CardinalityType DEF IsLayout
<1>3. PICK total \in {Cardinality(L), Contiguous} : L = {<<i, total>> : i \in 1..Cardinality(L)}
  BY <1>1 DEF IsLayout
<1>4. Shape(L, Cardinality(L), total)
  BY <1>2, <1>3 DEF Shape
<1> QED BY <1>4

(* Which files are in force: today's file, or those of the layout that are *)
(* there, of which each has a number of its own.                           *)
LEMMA ActiveShape ==
  ASSUME NEW L \in Layouts, NEW P \in SUBSET (L \cup {Current}), P # {}, Current \notin P => L \subseteq P,
         NEW n \in Nat, NEW total \in {n, Contiguous}, L = {<<i, total>> : i \in 1..n}
  PROVE  \/ /\ ActiveFiles(P) = {Current} /\ HistoricalTotal(P) = 1 /\ Current \in P
            /\ Current \notin L /\ total # Contiguous => L \cap P = {}
         \/ /\ ActiveFiles(P) = P \cap L /\ HistoricalTotal(P) = n /\ P \cap L # {} /\ Current \notin L
            /\ total = Contiguous => L \subseteq P /\ Current \notin P
<1>1. \A f \in P : f = Current \/ \E i \in 1..n : f = <<i, total>>
  OBVIOUS
<1>2. Current = <<1, 1>> /\ Contiguous = -1
  BY DEF Current, Contiguous
<1>3. ASSUME Current \in P, \A f \in P : f = Current \/ f[2] = Contiguous
      PROVE  ActiveFiles(P) = {Current} /\ HistoricalTotal(P) = 1
  <2>1. Totals(P) = {1}
    BY <1>2, <1>3 DEF Totals
  <2>2. Greatest({1}) = 1
    BY GreatestIs
  <2>3. ActiveFiles(P) = {f \in P : f[2] = 1}
    BY <2>1, <2>2 DEF ActiveFiles
  <2> QED BY <1>2, <1>3, <2>1, <2>2, <2>3 DEF HistoricalTotal
<1>4. CASE total = Contiguous
  <2>1. \A f \in L : f[2] = Contiguous
    BY <1>4
  <2>2. CASE Current \in P
    BY <1>3, <1>4, <2>1, <2>2
  <2>3. CASE Current \notin P
    <3>1. P = L /\ n # 0 /\ Current \notin L
      BY <1>1, <1>2, <1>4, <2>3
    <3>2. Totals(P) = {}
      BY <2>1, <3>1 DEF Totals
    <3>3. ActiveFiles(P) = P
      BY <2>1, <3>1, <3>2 DEF ActiveFiles
    <3>4. {f[1] : f \in P} = 1..n
      <4>1. ASSUME NEW i \in 1..n PROVE i \in {f[1] : f \in P}
        <5>1. <<i, total>> \in P /\ <<i, total>>[1] = i
          BY <3>1
        <5> QED BY <5>1
      <4>2. ASSUME NEW f \in P PROVE f[1] \in 1..n
        BY <1>1, <3>1
      <4> QED BY <4>1, <4>2
    <3>5. Greatest(1..n) = n
      <4>1. n \in 1..n /\ 1..n \in SUBSET Int /\ \A x \in 1..n : x <= n
        BY <3>1
      <4> QED BY <4>1, GreatestIs
    <3>6. HistoricalTotal(P) = n
      BY <3>2, <3>4, <3>5 DEF HistoricalTotal
    <3> QED BY <2>3, <3>1, <3>3, <3>6
  <2> QED BY <2>2, <2>3
<1>5. CASE total = n /\ L \cap P = {}
  <2>1. P = {Current}
    BY <1>5
  <2> QED BY <1>3, <2>1, <1>5
<1>6. CASE total = n /\ L \cap P # {} /\ n <= 1
  <2>1. n = 1 /\ L = {Current} /\ P = {Current}
    BY <1>1, <1>2, <1>6
  <2> QED BY <1>3, <2>1
<1>7. CASE total = n /\ L \cap P # {} /\ n > 1
  <2>1. Current \notin L /\ \A f \in L : f[2] = n
    BY <1>2, <1>7
  <2>2. Totals(P) \in SUBSET {1, n} /\ n \in Totals(P)
    <3>1. \A f \in P : f[2] = 1 \/ f[2] = n
      BY <1>2, <2>1
    <3>2. \E f \in P : f[2] = n
      BY <1>7, <2>1
    <3> QED BY <1>2, <1>7, <3>1, <3>2 DEF Totals
  <2>3. Greatest(Totals(P)) = n
    <3>1. Totals(P) \in SUBSET Int /\ \A x \in Totals(P) : x <= n
      BY <1>7, <2>2
    <3> QED BY <2>2, <3>1, GreatestIs
  <2>4. ActiveFiles(P) = {f \in P : f[2] = n}
    BY <2>2, <2>3 DEF ActiveFiles
  <2>5. ActiveFiles(P) = P \cap L
    BY <1>2, <1>7, <2>1, <2>4
  <2>6. HistoricalTotal(P) = n
    BY <1>7, <2>2, <2>3 DEF HistoricalTotal
  <2> QED BY <1>2, <1>7, <2>1, <2>5, <2>6
<1> QED BY <1>4, <1>5, <1>6, <1>7

-----------------------------------------------------------------------------
(* What a file may hold, and how it is read.                               *)

LEMMA Kinds ==
  /\ Missing.is = "missing" /\ Torn.is = "torn" /\ Outdated.is = "outdated"
  /\ {Missing, Torn, Outdated} \subseteq Contents
  /\ \A t \in Tokens : Content(t) \in Contents /\ Content(t).is = "token" /\ Content(t).tok = t
  /\ \A c \in Contents : \/ c \in {Missing, Torn, Outdated}
                         \/ c.is = "token" /\ c.tok \in Tokens /\ c = Content(c.tok)
<1>1. /\ Missing.is = "missing" /\ Torn.is = "torn" /\ Outdated.is = "outdated"
      /\ \A t : Content(t).is = "token" /\ Content(t).tok = t
  BY DEF Missing, Torn, Outdated, Content
<1>2. /\ {Missing, Torn, Outdated} \subseteq Contents /\ \A t \in Tokens : Content(t) \in Contents
  BY DEF Contents
<1>3. ASSUME NEW c \in Contents, c \notin {Missing, Torn, Outdated}
      PROVE  c.is = "token" /\ c.tok \in Tokens /\ c = Content(c.tok)
  <2>1. PICK t \in Tokens : c = Content(t)
    BY <1>3 DEF Contents
  <2> QED BY <1>1, <2>1
<1> QED BY <1>1, <1>2, <1>3

LEMMA KindsDiffer ==
  /\ Missing # Torn /\ Missing # Outdated /\ Torn # Outdated
  /\ \A c : c.is = "token" => c \notin {Missing, Torn, Outdated}
BY DEF Missing, Torn, Outdated

Disks == [Files -> [0..Backups -> Contents]]

(* A token that is loaded is in a version of the file, and when that is a  *)
(* backup, it is about to be copied over a main file that cannot be read.  *)
LEMMA Loaded ==
  ASSUME disk \in Disks, NEW f \in Files
  PROVE  /\ LoadResumeToken(f) \in Tokens \cup {NoToken}
         /\ LoadResumeToken(f) = NoToken => disk[f][0] \in {Missing, Torn, Outdated}
         /\ LoadResumeToken(f) # NoToken =>
              /\ disk[f][0] \notin {Missing, Outdated}
              /\ \/ disk[f][0] = Content(LoadResumeToken(f)) /\ RestoreOps(f) = << >>
                 \/ /\ disk[f][0] = Torn
                    /\ \E k \in 1..Backups : /\ disk[f][k] = Content(LoadResumeToken(f))
                                             /\ RestoreOps(f) = <<Copy(f, k, 0)>>
<1>1. PICK d : d = disk[f]
  OBVIOUS
<1>2. d \in [0..Backups -> Contents] /\ Backups \in Nat
  BY <1>1, Statics DEF Disks
<1> DEFINE R == {k \in 0..Backups : d[k] \notin {Missing, Torn, Outdated}}
<1>3. Readable(f) = R
  BY <1>1 DEF Readable
<1>4. \A k \in R : d[k].is = "token" /\ d[k].tok \in Tokens /\ d[k] = Content(d[k].tok)
  BY <1>2, Kinds
<1>5. d[0] \in Contents
  BY <1>2
<1>6. CASE d[0] \in {Missing, Outdated} \/ R = {}
  <2>1. Version(f) = -1
    BY <1>1, <1>3, <1>6 DEF Version
  <2>2. LoadResumeToken(f) = NoToken
    BY <2>1 DEF LoadResumeToken
  <2>3. d[0] \in {Missing, Torn, Outdated}
    BY <1>2, <1>6
  <2> QED BY <1>1, <2>2, <2>3
<1>7. CASE d[0] \notin {Missing, Outdated} /\ R # {}
  <2>1. PICK v : v = Version(f)
    OBVIOUS
  <2>2. v \in R /\ \A m \in R : v <= m
    <3>1. R \in SUBSET Nat
      BY <1>2
    <3>2. \E k \in R : \A m \in R : k <= m
      BY <1>7, <3>1, LeastExists
    <3>3. v = CHOOSE k \in R : \A m \in R : k <= m
      BY <1>1, <1>3, <1>7, <2>1 DEF Version
    <3> QED BY <3>2, <3>3
  <2>3. v \in 0..Backups /\ v # -1
    BY <2>2
  <2>4. LoadResumeToken(f) = d[v].tok
    BY <1>1, <2>1, <2>3 DEF LoadResumeToken
  <2>5. d[v].tok \in Tokens /\ d[v].tok # NoToken /\ d[v] = Content(d[v].tok)
    BY <1>4, <2>2, Statics
  <2>6. CASE v = 0
    <3>1. RestoreOps(f) = << >>
      BY <2>1, <2>6 DEF RestoreOps
    <3> QED BY <1>1, <1>7, <2>4, <2>5, <2>6, <3>1
  <2>7. CASE v # 0
    <3>1. v \in 1..Backups /\ ~(v <= 0)
      BY <1>2, <2>3, <2>7
    <3>2. RestoreOps(f) = <<Copy(f, v, 0)>>
      BY <2>1, <3>1 DEF RestoreOps
    <3>3. 0 \notin R
      BY <2>2, <3>1
    <3>4. d[0] = Torn
      BY <1>2, <1>7, <3>3
    <3> QED BY <1>1, <1>7, <2>4, <2>5, <3>1, <3>2, <3>4
  <2> QED BY <2>6, <2>7
<1> QED BY <1>6, <1>7

(* The first operation ahead and the disk: it changes one file, to what    *)
(* that file has in another version, or to what it writes.                 *)
Operation ==
  [op : {"remove", "rename", "copy", "fill", "write"}, file : Files, from : 0..Backups, to : 0..Backups, content : Contents]

LEMMA Effects ==
  ASSUME disk \in Disks, NEW o \in Operation, NEW after, after = Effect(o)
  PROVE  /\ after \in Disks
         /\ \A f \in Files \ {o.file} : after[f] = disk[f]
         /\ \A k \in 0..Backups : \/ after[o.file][k] \in {Missing, Torn}
                                  \/ o.op \in {"fill", "write"} /\ after[o.file][k] = o.content
                                  \/ \E j \in 0..Backups : after[o.file][k] = disk[o.file][j]
         /\ o.op = "remove" => after[o.file][0] = IF o.from = 0 THEN Missing ELSE disk[o.file][0]
         /\ o.op = "rename" /\ o.from # 0 /\ o.to # 0 => after[o.file][0] = disk[o.file][0]
         /\ o.op = "copy" => after[o.file][0] = IF o.to = 0 THEN Torn ELSE disk[o.file][0]
         /\ o.op \in {"fill", "write"} => after[o.file][0] = IF o.to = 0 THEN o.content ELSE disk[o.file][0]
<1>1. PICK f \in Files, j \in 0..Backups, k \in 0..Backups, c \in Contents :
        o.file = f /\ o.from = j /\ o.to = k /\ o.content = c
  BY DEF Operation
<1>2. {Missing, Torn} \subseteq Contents /\ disk[f] \in [0..Backups -> Contents] /\ 0 \in 0..Backups
  BY Kinds, Statics DEF Disks
<1>3. CASE o.op = "remove"
  <2>1. after = [disk EXCEPT ![f][j] = Missing]
    BY <1>1, <1>3 DEF Effect
  <2> QED BY <1>1, <1>2, <1>3, <2>1 DEF Disks
<1>4. CASE o.op = "copy"
  <2>1. after = [disk EXCEPT ![f][k] = Torn]
    BY <1>1, <1>4 DEF Effect
  <2> QED BY <1>1, <1>2, <1>4, <2>1 DEF Disks
<1>5. CASE o.op \in {"fill", "write"}
  <2>1. after = [disk EXCEPT ![f][k] = c]
    BY <1>1, <1>5 DEF Effect
  <2> QED BY <1>1, <1>2, <1>5, <2>1 DEF Disks
<1>6. CASE o.op = "rename"
  <2>1. \/ after = disk
        \/ after = [disk EXCEPT ![f][k] = disk[f][j], ![f][j] = Missing]
    BY <1>1, <1>6 DEF Effect
  <2>2. CASE after = disk
    BY <1>1, <1>2, <1>6, <2>2 DEF Disks
  <2>3. CASE after = [disk EXCEPT ![f][k] = disk[f][j], ![f][j] = Missing]
    <3>1. after[f] = [[disk[f] EXCEPT ![k] = disk[f][j]] EXCEPT ![j] = Missing]
      BY <1>2, <2>3 DEF Disks
    <3>2. after \in Disks /\ \A g \in Files \ {f} : after[g] = disk[g]
      BY <1>2, <2>3 DEF Disks
    <3>3. \A m \in 0..Backups : after[f][m] = IF m = j THEN Missing ELSE IF m = k THEN disk[f][j] ELSE disk[f][m]
      BY <1>2, <3>1
    <3> QED BY <1>1, <1>2, <1>6, <3>2, <3>3
  <2> QED BY <2>1, <2>2, <2>3
<1> QED BY <1>3, <1>4, <1>5, <1>6 DEF Operation

(* The operations of a save, and of a deletion.                            *)
LEMMA SaveOpFields ==
  ASSUME NEW o \in SaveOp
  PROVE  /\ o \in Operation /\ o.file = Current
         /\ o.op = "remove" => o.from # 0
         /\ o.op = "rename" => o.from # 0 /\ o.to # 0
         /\ o.op = "copy" => o.from = 0 /\ o.to = 1
         /\ o.op = "fill" => o.to = 1
         /\ o.op = "write" => o.to = 0 /\ \E t \in Tokens : o.content = Content(t)
<1>1. Backups \in Nat /\ Backups >= 2 /\ Current \in Files /\ Missing \in Contents
  BY Statics, Kinds
<1>2. CASE o = Unlink(Current, Backups)
  BY <1>1, <1>2 DEF Unlink, Operation
<1>3. CASE o = Copy(Current, 0, 1)
  BY <1>1, <1>3 DEF Copy, Operation
<1>4. CASE \E k \in 1..(Backups - 1) : o = Rename(Current, k)
  BY <1>1, <1>4 DEF Rename, Operation
<1>5. CASE \E c \in Contents : o = Fill(Current, 1, c)
  BY <1>1, <1>5 DEF Fill, Operation
<1>6. CASE \E t \in Tokens : o = WriteAtomic(Current, Content(t))
  BY <1>1, <1>6, Kinds DEF WriteAtomic, Operation
<1> QED BY <1>2, <1>3, <1>4, <1>5, <1>6 DEF SaveOp

LEMMA DeleteOpFields ==
  ASSUME NEW L \in Layouts, NEW o \in DeleteOp(L)
  PROVE  /\ o \in Operation /\ o.op = "remove" /\ o.file \in L \ {Current} /\ o.content = Missing
         /\ o.from = 0 => o = Unlink(o.file, 0)
BY Statics, Kinds DEF DeleteOp, Unlink, Operation

LEMMA SaveOpsShape ==
  ASSUME NEW tok \in Tokens, NEW ops, ops = SaveOps(Current, tok)
  PROVE  /\ ops \in Seq(SaveOp) /\ ops # << >> /\ ops[Len(ops)].op = "write"
         /\ \A i \in DOMAIN ops : /\ ops[i].op = "write" => ops[i].content = Content(tok)
                                  /\ ops[i].op # "fill"
<1> DEFINE Other == {Unlink(Current, Backups), Copy(Current, 0, 1)} \cup {Rename(Current, k) : k \in 1..(Backups - 1)}
           middle == [j \in 1..(Backups - 1) |-> Rename(Current, Backups - j)]
           w == WriteAtomic(Current, Content(tok))
<1>1. PICK front \in Seq(Other) : ops = front \o <<w>>
  <2>1. middle \in Seq(Other)
    <3>1. Backups - 1 \in Nat /\ \A j \in 1..(Backups - 1) : Backups - j \in 1..(Backups - 1)
      BY Statics
    <3>2. \A j \in 1..(Backups - 1) : Rename(Current, Backups - j) \in Other
      BY <3>1
    <3> HIDE DEF Other
    <3> QED BY <3>1, <3>2
  <2>2. <<Unlink(Current, Backups)>> \in Seq(Other) /\ <<Copy(Current, 0, 1)>> \in Seq(Other)
    OBVIOUS
  <2> HIDE DEF Other, middle, w
  <2>3. << >> \in Seq(Other) /\ <<Unlink(Current, Backups)>> \o middle \o <<Copy(Current, 0, 1)>> \in Seq(Other)
    BY <2>1, <2>2, ConcatProperties, EmptySeq
  <2>4. \/ ops = << >> \o <<w>>
        \/ ops = (<<Unlink(Current, Backups)>> \o middle \o <<Copy(Current, 0, 1)>>) \o <<w>>
    BY DEF SaveOps, middle, w
  <2> QED BY <2>3, <2>4
<1>2. w \in SaveOp /\ Other \subseteq SaveOp
  BY DEF SaveOp
<1>3. w.op = "write" /\ w.content = Content(tok) /\ \A o \in Other : o.op \notin {"write", "fill"}
  BY DEF WriteAtomic, Unlink, Copy, Rename
<1> HIDE DEF Other, w
<1>4. /\ ops \in Seq(SaveOp) /\ Len(ops) = Len(front) + 1 /\ Len(front) \in Nat
      /\ \A i \in 1..Len(front) : ops[i] = front[i] /\ front[i] \in Other
      /\ ops[Len(front) + 1] = w
  BY <1>1, <1>2
<1>5. DOMAIN ops = 1..(Len(front) + 1) /\ ops # << >>
  BY <1>4
<1>6. \A i \in DOMAIN ops : ops[i] = w \/ ops[i] \in Other
  BY <1>4, <1>5
<1> QED BY <1>3, <1>4, <1>5, <1>6

LEMMA DeleteOpsShape ==
  ASSUME NEW L \in Layouts, NEW f \in L \ {Current}, NEW ops, ops = DeleteOps(f)
  PROVE  ops \in Seq(DeleteOp(L)) /\ ops # << >> /\ Head(ops) = Unlink(f, 0)
<1>1. Backups \in Nat /\ \A j \in 1..(Backups + 1) : j - 1 \in 0..Backups
  BY Statics
<1>2. \A j \in 1..(Backups + 1) : Unlink(f, j - 1) \in DeleteOp(L)
  BY <1>1 DEF DeleteOp
<1>3. ops = [j \in 1..(Backups + 1) |-> Unlink(f, j - 1)]
  BY DEF DeleteOps
<1>4. ops \in Seq(DeleteOp(L)) /\ Len(ops) = Backups + 1
  BY <1>1, <1>2, <1>3
<1>5. ops # << >> /\ ops[1] = Unlink(f, 0)
  BY <1>1, <1>3, <1>4
<1> QED BY <1>4, <1>5

-----------------------------------------------------------------------------
(* What the invariant promises.                                            *)

LEMMA RestoringOps ==
  ASSUME NEW f \in Files, NEW t \in Tokens, Restoring(f, t)
  PROVE  /\ Len(todo) = 1 /\ DOMAIN todo = {1} /\ todo[1] \in Operation /\ todo[1].file = f /\ todo # << >>
         /\ \/ todo[1] = Fill(f, 0, Content(t))
            \/ \E k \in 1..Backups : disk[f][k] = Content(t) /\ todo[1] = Copy(f, k, 0)
<1>1. Content(t) \in Contents /\ Missing \in Contents /\ 0 \in 0..Backups
  BY Kinds, Statics
<1>2. CASE todo = <<Fill(f, 0, Content(t))>>
  BY <1>1, <1>2 DEF Fill, Operation
<1>3. CASE \E k \in 1..Backups : disk[f][k] = Content(t) /\ todo = <<Copy(f, k, 0)>>
  <2>1. PICK k \in 1..Backups : disk[f][k] = Content(t) /\ todo = <<Copy(f, k, 0)>>
    BY <1>3
  <2>2. Copy(f, k, 0) \in Operation /\ Copy(f, k, 0).file = f
    BY <1>1, Statics DEF Copy, Operation
  <2> QED BY <2>1, <2>2
<1> QED BY <1>2, <1>3 DEF Restoring

LEMMA TodoOps ==
  ASSUME NEW L \in Layouts, PlainTypes(L), TodoInv(L)
  PROVE  \A i \in DOMAIN todo : todo[i] \in Operation
<1>1. CASE todo \in Seq(SaveOp)
  <2>1. ASSUME NEW i \in DOMAIN todo PROVE todo[i] \in SaveOp
    BY <1>1, LenProperties, ElementOfSeq
  <2> QED BY <2>1, SaveOpFields
<1>2. CASE todo \in Seq(DeleteOp(L))
  <2>1. ASSUME NEW i \in DOMAIN todo PROVE todo[i] \in DeleteOp(L)
    BY <1>2, LenProperties, ElementOfSeq
  <2> QED BY <2>1, DeleteOpFields
<1>3. CASE \E f \in Files, t \in Tokens : Restoring(f, t)
  BY <1>3, RestoringOps
<1>4. Active \subseteq Files
  BY DEF Active, ActiveFiles, ScanPartitionCheckpoints
<1>5. todo = << >> \/ todo \in Seq(SaveOp) \/ todo \in Seq(DeleteOp(L)) \/ \E f \in Files, t \in Tokens : Restoring(f, t)
  <2>1. pc \in Places /\ (fetched # NoToken => fetched \in Tokens)
    BY DEF PlainTypes
  <2> QED BY <2>1, <1>4, Statics DEF Places, TodoInv, Saving
<1> QED BY <1>1, <1>2, <1>3, <1>5

LEMMA InvImpliesTypeOK == TokenStoreInv => TokenStoreTypeOK
<1> SUFFICES ASSUME NEW L, NEW start, NEW h, NEW current, Beginning(L, start, h, current), StoreInv(L, start, h, current)
             PROVE  TokenStoreTypeOK
  BY DEF TokenStoreInv
<1>1. L \in Layouts /\ PlainTypes(L) /\ TodoInv(L)
  BY DEF Beginning, StoreInv
<1>2. \A i \in DOMAIN todo : todo[i].file \in Files /\ {todo[i].from, todo[i].to} \subseteq 0..Backups
  BY <1>1, TodoOps DEF Operation
<1>3. found \in {Nothing} \cup [tok : Tokens, second : Nat]
  <2>1. \A t \in Tokens : Second(t) \in Nat
    BY SecondIsMonotonic, Statics
  <2> QED BY <1>1, <2>1 DEF PlainTypes, FoundTokens
<1>4. old \subseteq Files /\ legacy \in Tokens \cup {NoToken}
  BY <1>1, Statics DEF PlainTypes
<1> QED BY <1>1, <1>2, <1>3, <1>4 DEF PlainTypes, TokenStoreTypeOK, Places

LEMMA InvImpliesBehind == TokenStoreInv => StreamStartsBehindEveryPartition
<1> SUFFICES ASSUME NEW L, NEW start, NEW h, NEW current, Beginning(L, start, h, current), StoreInv(L, start, h, current),
                    LoadResumeToken(Current) # NoToken, ~leftOut
             PROVE  Second(LoadResumeToken(Current)) <= Second(floor)
  BY DEF TokenStoreInv, StreamStartsBehindEveryPartition, StoreInv, PlainTypes
<1>1. disk \in Disks
  BY DEF StoreInv, PlainTypes, Disks
<1>2. PICK t : t = LoadResumeToken(Current)
  OBVIOUS
<1>3. t \in Tokens /\ \E k \in 0..Backups : disk[Current][k] = Content(t)
  BY <1>1, <1>2, Loaded, Statics
<1>4. FineContent(Content(t))
  BY <1>3 DEF StoreInv, FineInv
<1> QED BY <1>2, <1>3, <1>4, Kinds DEF FineContent, Fine

LEMMA InvImpliesCause == TokenStoreInv => RefusalHasACause
<1> SUFFICES ASSUME NEW L, NEW start, NEW h, NEW current, Beginning(L, start, h, current), StoreInv(L, start, h, current),
                    pc = "refused", ~cut, ~(corruptions > 0)
             PROVE  \E f \in Files : disk[f][0] = Outdated
  BY DEF TokenStoreInv, RefusalHasACause, StoreInv, PlainTypes
<1>1. corruptions = 0
  BY DEF StoreInv, PlainTypes
<1>2. ~current
  BY <1>1 DEF StoreInv, IntactInv, Beginning
<1> QED BY <1>2, Statics DEF Beginning, StoreInv, OutdatedInv

LEMMA InvImpliesProgress == TokenStoreInv => ProgressStaysOnDisk
<1> SUFFICES ASSUME NEW L, NEW start, NEW h, NEW current, Beginning(L, start, h, current), StoreInv(L, start, h, current),
                    corruptions = 0, faults <= 1, \A f \in Files : disk[f][0] # Outdated
             PROVE  \/ legacy # NoToken /\ Second(legacy) = Second(floor)
                    \/ \E f \in Files : disk[f][0].is = "token" /\ Second(disk[f][0].tok) = Second(floor)
  BY DEF TokenStoreInv, ProgressStaysOnDisk
<1>1. L \subseteq Files /\ current
  BY Statics DEF Beginning, StoreInv, OutdatedInv
<1>2. ProgressInv(L, start, h) /\ IntactInv(L, start) /\ FilesInv(L) /\ PlainTypes(L)
  BY <1>1 DEF StoreInv
<1>3. CASE disk[Current][0].is = "token" /\ Second(disk[Current][0].tok) = Second(floor)
  BY <1>3, Statics
<1>4. CASE Current \notin Present /\ floor = Least(L, start, h)
  <2>1. CASE L = {}
    BY <1>2, <1>4, <2>1, Statics DEF PlainTypes, Least, Captured, NoToken
  <2>2. CASE L # {}
    <3>1. h \in L /\ h \in Present /\ h # Current /\ floor = start[h] /\ start[h] \in Tokens
      BY <1>2, <1>4, <2>2 DEF FilesInv, Beginning, Least
    <3>2. disk[h][0] = Content(start[h])
      BY <1>2, <3>1 DEF IntactInv
    <3> QED BY <1>1, <3>1, <3>2, Kinds
  <2> QED BY <2>1, <2>2
<1> QED BY <1>2, <1>3, <1>4 DEF ProgressInv

-----------------------------------------------------------------------------
(* The beginning.                                                          *)

LEMMA CurrentIsAlone ==
  ASSUME NEW L \in Layouts, Current \in L
  PROVE  L = {Current}
<1>1. PICK n, total : n \in Nat /\ total \in {n, Contiguous} /\ L = {<<i, total>> : i \in 1..n}
  BY LayoutShape DEF Shape
<1>2. PICK i \in 1..n : <<1, 1>> = <<i, total>>
  BY <1>1 DEF Current
<1>3. total = 1 /\ n = 1
  BY <1>1, <1>2 DEF Contiguous
<1> QED BY <1>1, <1>3 DEF Current

LEMMA HolderExists ==
  ASSUME NEW L \in Layouts, NEW start \in [L -> Tokens]
  PROVE  \E h \in Files : IF L = {} THEN h = Current ELSE h \in L /\ \A f \in L : start[h] <= start[f]
<1>1. CASE L = {}
  BY <1>1, Statics
<1>2. CASE L # {}
  <2> DEFINE S == {start[f] : f \in L}
  <2>1. S \in SUBSET Nat /\ S # {}
    BY <1>2, Statics
  <2>2. PICK k \in S : \A m \in S : k <= m
    <3> HIDE DEF S
    <3> QED BY <2>1, LeastExists
  <2>3. PICK h \in L : k = start[h]
    OBVIOUS
  <2> QED BY <1>2, <2>2, <2>3, Statics
<1> QED BY <1>1, <1>2

LEMMA InitImpliesInv == Init => TokenStoreInv
<1> SUFFICES ASSUME Init PROVE TokenStoreInv
  OBVIOUS
<1>0. PICK L \in Layouts : \E start \in [L -> Tokens] : \E older \in BOOLEAN : \E current \in BOOLEAN :
        /\ current \/ \E f \in L : f[2] = Contiguous
        /\ disk = LeftBehind(L, start, older, current)
        /\ legacy = IF L = {} THEN Captured ELSE NoToken
        /\ floor = IF L = {} THEN Captured ELSE LeastToken(L, start)
  BY DEF Init
<1>1. PICK start \in [L -> Tokens], older \in BOOLEAN, current \in BOOLEAN :
        /\ ~current => \E f \in L : f[2] = Contiguous
        /\ disk = LeftBehind(L, start, older, current)
        /\ legacy = IF L = {} THEN Captured ELSE NoToken
        /\ floor = IF L = {} THEN Captured ELSE LeastToken(L, start)
  BY <1>0
<1>2. /\ pc = "down" /\ todo = << >> /\ old = {} /\ at = 1 /\ fetched = NoToken /\ found = Nothing /\ from = NoToken
      /\ leftOut = FALSE /\ cut = FALSE /\ crashes = 0 /\ corruptions = 0 /\ faults = 0
  BY DEF Init
<1>3. PICK h \in Files : IF L = {} THEN h = Current ELSE h \in L /\ \A f \in L : start[h] <= start[f]
  BY HolderExists
<1>4. Beginning(L, start, h, current)
  BY <1>1, <1>3 DEF Beginning
<1>5. floor = Least(L, start, h) /\ floor \in Tokens
  <2>1. CASE L = {}
    BY <1>1, <2>1, Statics DEF Least
  <2>2. CASE L # {}
    <3>1. h \in L /\ start[h] \in Tokens /\ \A f \in L : start[h] <= start[f]
      BY <1>3, <2>2
    <3>2. \A t \in Tokens : (\E f \in L : start[f] = t) /\ (\A f \in L : t <= start[f]) => t = start[h]
      BY <3>1, Statics
    <3> QED BY <1>1, <2>2, <3>1, <3>2 DEF Least, LeastToken
  <2> QED BY <2>1, <2>2
<1>6. L \subseteq Files /\ 0 \in 0..Backups /\ Backups \in Nat
  BY Statics
<1>7. \A f \in Files : disk[f][0] = IF f \notin L THEN Missing ELSE IF current THEN Content(start[f]) ELSE Outdated
  BY <1>1, <1>6 DEF LeftBehind
<1>8. Present = L
  <2>1. \A f \in L : disk[f][0] # Missing
    BY <1>6, <1>7, Kinds, KindsDiffer
  <2> QED BY <1>6, <1>7, <2>1 DEF Present, ScanPartitionCheckpoints
<1>9. ASSUME NEW f \in Files, NEW k \in 0..Backups
      PROVE  \/ disk[f][k] \in {Missing, Outdated}
             \/ f \in L /\ \E t \in Tokens : t <= start[f] /\ disk[f][k] = Content(t)
  <2>1. CASE f \notin L \/ k > 1
    BY <1>1, <2>1 DEF LeftBehind
  <2>2. CASE f \in L /\ k = 0
    <3>1. start[f] \in Tokens /\ start[f] <= start[f]
      BY <2>2, Statics
    <3> QED BY <1>7, <2>2, <3>1
  <2>3. CASE f \in L /\ k = 1
    <3>1. disk[f][k] = IF older /\ start[f] > Captured THEN Content(start[f] - 1) ELSE Missing
      BY <1>1, <2>3 DEF LeftBehind
    <3>2. start[f] > Captured => start[f] - 1 \in Tokens /\ start[f] - 1 <= start[f]
      BY <2>3, Statics DEF Captured
    <3> QED BY <2>3, <3>1, <3>2
  <2> QED BY <1>6, <2>1, <2>2, <2>3
<1>10. PlainTypes(L)
  <2>1. disk \in [Files -> [0..Backups -> Contents]]
    <3>1. \A f \in Files, k \in 0..Backups : disk[f][k] \in Contents
      BY <1>9, Kinds
    <3>2. disk = [f \in Files |-> [k \in 0..Backups |-> disk[f][k]]]
      BY <1>1 DEF LeftBehind
    <3> QED BY <3>1, <3>2
  <2>2. pc \in Places /\ old \subseteq L \ {Current} /\ at \in Nat \ {0} /\ found \in FoundTokens
    BY <1>2 DEF Places, FoundTokens
  <2>3. legacy = IF L = {} THEN Captured ELSE NoToken
    BY <1>1
  <2> QED BY <1>2, <1>5, <2>1, <2>2, <2>3 DEF PlainTypes
<1>11. TodoInv(L) /\ FilesInv(L) /\ DeleteInv(L) /\ LoadInv(L)
  BY <1>2, <1>8 DEF TodoInv, FilesInv, DeleteInv, LoadInv
<1>12. FineInv(h)
  <2>1. ASSUME NEW f \in {Current, h}, NEW k \in 0..Backups PROVE FineContent(disk[f][k])
    <3>1. f \in Files /\ (f \in L => f = h)
      BY <1>3, CurrentIsAlone, Statics
    <3>2. CASE disk[f][k] \in {Missing, Outdated}
      BY <3>2, KindsDiffer DEF FineContent
    <3>3. CASE f \in L /\ \E t \in Tokens : t <= start[f] /\ disk[f][k] = Content(t)
      <4>1. PICK t \in Tokens : t <= start[h] /\ disk[f][k] = Content(t)
        BY <3>1, <3>3
      <4>2. floor = start[h]
        BY <1>5, <3>3 DEF Least
      <4> QED BY <1>5, <4>1, <4>2, SecondIsMonotonic, Kinds DEF FineContent, Fine
    <3> QED BY <1>9, <3>1, <3>2, <3>3
  <2> QED BY <1>2, <2>1 DEF FineInv
<1>13. ~current => OutdatedInv(L)
  <2>1. ASSUME ~current PROVE L # {} /\ Current \notin L
    <3>1. PICK f \in L : f[2] = Contiguous
      BY <1>1, <2>1
    <3>2. f # Current
      BY <3>1 DEF Current, Contiguous
    <3> QED BY <3>1, <3>2, CurrentIsAlone
  <2> QED BY <1>2, <1>6, <1>7, <1>8, <2>1 DEF OutdatedInv
<1>14. current => IntactInv(L, start)
  BY <1>2, <1>6, <1>7, <1>8 DEF IntactInv
<1>15. current => ProgressInv(L, start, h)
  <2>1. ASSUME current, Current \in L PROVE disk[Current][0].is = "token" /\ disk[Current][0].tok = floor
    <3>1. h = Current /\ floor = start[h]
      BY <1>3, <1>5, <2>1, CurrentIsAlone DEF Least
    <3> QED BY <1>6, <1>7, <2>1, <3>1, Kinds
  <2> QED BY <1>2, <1>5, <1>8, <2>1 DEF ProgressInv
<1> QED BY <1>3, <1>4, <1>10, <1>11, <1>12, <1>13, <1>14, <1>15 DEF TokenStoreInv, StoreInv, Beginning

-----------------------------------------------------------------------------
(* Which files are in force.                                               *)

LEMMA SamePresence ==
  ASSUME \A f \in Files : disk'[f][0] = Missing <=> disk[f][0] = Missing
  PROVE  Present' = Present /\ Active' = Active /\ Total' = Total /\ (InTransition' <=> InTransition)
<1>1. ScanPartitionCheckpoints' = ScanPartitionCheckpoints
  BY DEF ScanPartitionCheckpoints
<1> QED BY <1>1 DEF Present, Active, Total, InTransition

LEMMA SameDisk ==
  ASSUME disk' = disk
  PROVE  Present' = Present /\ Active' = Active /\ Total' = Total /\ (InTransition' <=> InTransition)
BY SamePresence

(* The numbers of a layout.                                                *)
Indexed(L, n) ==
  /\ n \in Nat /\ \A f \in L : f[1] \in 1..n
  /\ \A f, g \in L : f[1] = g[1] => f = g
  /\ \A i \in 1..n : \E f \in L : f[1] = i

LEMMA ShapeIsIndexed ==
  ASSUME NEW L, NEW n, NEW total, Shape(L, n, total)
  PROVE  Indexed(L, n) /\ (\A f \in L : f[2] = total) /\ (L = {} <=> n = 0)
<1>1. n \in Nat /\ L = {<<i, total>> : i \in 1..n}
  BY DEF Shape
<1>2. \A f \in L : f[1] \in 1..n /\ f[2] = total /\ f = <<f[1], total>>
  BY <1>1
<1>3. \A f, g \in L : f[1] = g[1] => f = g
  BY <1>2
<1>4. ASSUME NEW i \in 1..n PROVE \E f \in L : f[1] = i
  <2>1. <<i, total>> \in L /\ <<i, total>>[1] = i
    BY <1>1
  <2> QED BY <2>1
<1>5. L = {} <=> n = 0
  <2>1. n # 0 => 1 \in 1..n
    BY <1>1
  <2>2. n = 0 => L = {}
    BY <1>2
  <2> QED BY <1>4, <2>1, <2>2
<1> QED BY <1>1, <1>2, <1>3, <1>4, <1>5 DEF Indexed

InForceNow(L, n) ==
  \/ /\ Active = {Current} /\ ~InTransition /\ Total = 1 /\ Current \in Present
     /\ Current \notin L /\ Numbered(L) => L \cap Present = {}
  \/ /\ Active = L \cap Present /\ InTransition /\ Total = n /\ L # {} /\ Current \notin L
     /\ ~Numbered(L) => L \subseteq Present /\ Current \notin Present

LEMMA InForce ==
  ASSUME NEW L \in Layouts, FilesInv(L), Present # {}
  PROVE  \E n : Indexed(L, n) /\ InForceNow(L, n)
<1>1. PICK n, total : Shape(L, n, total)
  BY LayoutShape
<1>2. Indexed(L, n) /\ (\A f \in L : f[2] = total) /\ (L = {} <=> n = 0)
  BY <1>1, ShapeIsIndexed
<1>3. PICK P : P = ScanPartitionCheckpoints
  OBVIOUS
<1>4. P \in SUBSET (L \cup {Current}) /\ P # {} /\ (Current \notin P => L \subseteq P)
  BY <1>3 DEF FilesInv, Present
<1>5. n \in Nat /\ total \in {n, Contiguous} /\ L = {<<i, total>> : i \in 1..n}
  BY <1>1 DEF Shape
<1>6. \/ /\ ActiveFiles(P) = {Current} /\ HistoricalTotal(P) = 1 /\ Current \in P
         /\ Current \notin L /\ total # Contiguous => L \cap P = {}
      \/ /\ ActiveFiles(P) = P \cap L /\ HistoricalTotal(P) = n /\ P \cap L # {} /\ Current \notin L
         /\ total = Contiguous => L \subseteq P /\ Current \notin P
  BY <1>4, <1>5, ActiveShape
<1>7. Active = ActiveFiles(P) /\ Total = HistoricalTotal(P) /\ Present = P
  BY <1>3 DEF Active, Total, Present
<1>8. (~Numbered(L) => total = Contiguous) /\ (Numbered(L) => L = {} \/ total # Contiguous)
  BY <1>2 DEF Numbered
<1>9. CASE /\ ActiveFiles(P) = {Current} /\ HistoricalTotal(P) = 1 /\ Current \in P
           /\ Current \notin L /\ total # Contiguous => L \cap P = {}
  <2>1. ~InTransition
    BY <1>7, <1>9 DEF InTransition
  <2>2. InForceNow(L, n)
    BY <1>7, <1>8, <1>9, <2>1 DEF InForceNow
  <2> QED BY <1>2, <2>2
<1>10. CASE /\ ActiveFiles(P) = P \cap L /\ HistoricalTotal(P) = n /\ P \cap L # {} /\ Current \notin L
            /\ total = Contiguous => L \subseteq P /\ Current \notin P
  <2>1. InTransition
    BY <1>7, <1>10 DEF InTransition
  <2>2. InForceNow(L, n)
    BY <1>7, <1>8, <1>10, <2>1 DEF InForceNow
  <2> QED BY <1>2, <2>2
<1> QED BY <1>6, <1>9, <1>10

LEMMA NoneInForce ==
  ASSUME Present = {}
  PROVE  Total = 0
BY DEF Present, Total, HistoricalTotal

LEMMA CurrentIndex == Current[1] = 1
BY DEF Current

LEMMA FileIs ==
  ASSUME NEW L \in Layouts, FilesInv(L), NEW f \in Active
  PROVE  FileOf(f[1]) = f /\ f \in Files /\ f \in Present /\ disk[f][0] # Missing
<1>1. f \in Files /\ f \in Present /\ disk[f][0] # Missing
  BY DEF Active, ActiveFiles, Present, ScanPartitionCheckpoints
<1>2. PICK n : Indexed(L, n) /\ InForceNow(L, n)
  BY <1>1, InForce
<1>3. \A g \in Active : g[1] = f[1] => g = f
  BY <1>2 DEF InForceNow, Indexed
<1> QED BY <1>1, <1>3 DEF FileOf

-----------------------------------------------------------------------------
(* The steps of a start.                                                   *)

LEMMA UpgradeLegacyKeeps ==
  ASSUME NEW L, NEW start, NEW h, NEW current, Beginning(L, start, h, current), StoreInv(L, start, h, current), UpgradeLegacy
  PROVE  StoreInv(L, start, h, current)'
<1>1. /\ PlainTypes(L) /\ TodoInv(L) /\ FilesInv(L) /\ DeleteInv(L) /\ FineInv(h) /\ L \in Layouts
      /\ pc = "down" /\ todo = << >>
  BY DEF StoreInv, UpgradeLegacy, Beginning, TodoInv
<1>2. /\ pc' = "saving" /\ todo' = SaveOps(Current, legacy) /\ disk' = disk /\ legacy' = legacy /\ old' = old /\ at' = at
      /\ fetched' = fetched /\ found' = found /\ from' = from /\ floor' = floor /\ leftOut' = leftOut /\ cut' = cut
      /\ corruptions' = corruptions /\ faults' = faults
  BY DEF UpgradeLegacy, history, bounds
<1>3. L = {} /\ legacy = Captured
  BY <1>1 DEF UpgradeLegacy, PlainTypes
<1>4. Present = {}
  <2>1. SUFFICES ASSUME Present # {} PROVE FALSE
    OBVIOUS
  <2>2. PICK n : Indexed(L, n) /\ InForceNow(L, n)
    BY <1>1, <2>1, InForce
  <2> QED BY <1>3, <2>2 DEF InForceNow, UpgradeLegacy
<1>5. Present' = Present /\ Active' = Active /\ Total' = Total /\ (InTransition' <=> InTransition)
  BY <1>2, SameDisk
<1>6. PICK ops : ops = SaveOps(Current, Captured)
  OBVIOUS
<1>7. /\ ops \in Seq(SaveOp) /\ ops # << >> /\ ops[Len(ops)].op = "write"
      /\ \A i \in DOMAIN ops : /\ ops[i].op = "write" => ops[i].content = Content(Captured)
                               /\ ops[i].op # "fill"
  BY <1>6, SaveOpsShape, Statics
<1>8. todo' = ops
  BY <1>2, <1>3, <1>6
<1>9. PlainTypes(L)'
  BY <1>1, <1>2 DEF PlainTypes, Places
<1>10. TodoInv(L)'
  BY <1>2, <1>7, <1>8 DEF TodoInv, Saving
<1>11. FilesInv(L)' /\ DeleteInv(L)' /\ LoadInv(L)'
  BY <1>1, <1>2, <1>3, <1>5, <1>7, <1>8 DEF FilesInv, DeleteInv, LoadInv
<1>12. Fine(Captured)
  <2>1. floor \in Tokens /\ Captured \in Tokens /\ Captured <= floor
    BY <1>1, Statics DEF PlainTypes, Captured
  <2> QED BY <2>1, SecondIsMonotonic DEF Fine
<1>13. FineInv(h)'
  <2>1. FineContent(Content(Captured))
    BY <1>12, Statics, Kinds DEF FineContent
  <2> QED BY <1>1, <1>2, <1>7, <1>8, <2>1 DEF FineInv, FineContent, Fine
<1>14. current
  BY <1>3 DEF Beginning
<1>15. corruptions = 0 => IntactInv(L, start)'
  BY <1>2, <1>5, <1>14 DEF StoreInv, IntactInv
<1>16. corruptions = 0 /\ faults <= 1 => ProgressInv(L, start, h)'
  <2>1. ASSUME ProgressInv(L, start, h), IntactInv(L, start) PROVE ProgressInv(L, start, h)'
    <3>1. disk[Current][0] = Missing
      BY <1>4, Statics DEF Present, ScanPartitionCheckpoints
    <3>2. floor = Captured
      BY <1>3, <2>1, <3>1, Kinds DEF ProgressInv, Least
    <3>3. \A i \in DOMAIN ops : ops[i].op = "write" => ops[i].content.tok = Captured
      BY <1>7, Statics, Kinds
    <3> QED BY <1>2, <1>3, <1>4, <1>5, <1>8, <3>2, <3>3 DEF ProgressInv, Least
  <2> QED BY <1>14, <2>1 DEF StoreInv
<1> QED BY <1>2, <1>9, <1>10, <1>11, <1>13, <1>14, <1>15, <1>16 DEF StoreInv

LEMMA ScanKeeps ==
  ASSUME NEW L, NEW start, NEW h, NEW current, Beginning(L, start, h, current), StoreInv(L, start, h, current), Scan
  PROVE  StoreInv(L, start, h, current)'
<1>1. /\ PlainTypes(L) /\ TodoInv(L) /\ FilesInv(L) /\ DeleteInv(L) /\ FineInv(h) /\ L \in Layouts
      /\ pc = "down" /\ todo = << >> /\ Total > 0
  BY DEF StoreInv, Scan, Beginning, TodoInv
<1>2. /\ pc' = "loading" /\ at' = 1 /\ found' = Nothing /\ fetched' = NoToken /\ todo' = todo /\ disk' = disk
      /\ legacy' = legacy /\ old' = old /\ from' = from /\ floor' = floor /\ leftOut' = leftOut /\ cut' = cut
      /\ corruptions' = corruptions /\ faults' = faults
  BY DEF Scan, history, bounds
<1>3. Present # {}
  BY <1>1, NoneInForce
<1>4. Present' = Present /\ Active' = Active /\ Total' = Total /\ (InTransition' <=> InTransition)
  BY <1>2, SameDisk
<1>5. PICK n : Indexed(L, n) /\ InForceNow(L, n)
  BY <1>1, <1>3, InForce
<1>6. Total \in Nat /\ \A f \in L : f[1] \in Nat /\ f[1] >= 1
  BY <1>5 DEF InForceNow, Indexed
<1>7. PlainTypes(L)'
  BY <1>1, <1>2 DEF PlainTypes, Places, FoundTokens
<1>8. TodoInv(L)' /\ FilesInv(L)' /\ DeleteInv(L)'
  BY <1>1, <1>2, <1>3, <1>4 DEF TodoInv, FilesInv, DeleteInv
<1>9. LoadInv(L)'
  BY <1>1, <1>2, <1>4, <1>6 DEF LoadInv
<1>10. FineInv(h)'
  <2>1. h[1] \in Nat /\ h[1] >= 1
    BY <1>6, CurrentIndex DEF Beginning
  <2> QED BY <1>1, <1>2, <2>1 DEF FineInv, FineContent, Fine
<1>11. ~current => OutdatedInv(L)'
  BY <1>2, <1>4 DEF StoreInv, OutdatedInv
<1>12. current /\ corruptions = 0 => IntactInv(L, start)'
  BY <1>2, <1>4 DEF StoreInv, IntactInv
<1>13. current /\ corruptions = 0 /\ faults <= 1 => ProgressInv(L, start, h)'
  BY <1>2, <1>4 DEF StoreInv, ProgressInv
<1> QED BY <1>2, <1>7, <1>8, <1>9, <1>10, <1>11, <1>12, <1>13 DEF StoreInv

LEMMA RefuseKeeps ==
  ASSUME NEW L, NEW start, NEW h, NEW current, Beginning(L, start, h, current), StoreInv(L, start, h, current), Refuse
  PROVE  StoreInv(L, start, h, current)'
<1>1. /\ PlainTypes(L) /\ TodoInv(L) /\ FilesInv(L) /\ DeleteInv(L) /\ LoadInv(L) /\ FineInv(h) /\ L \in Layouts
      /\ pc = "loading" /\ todo = << >> /\ fetched = NoToken
      /\ (\E f \in Active : f[1] = at) => LoadResumeToken(FileOf(at)) = NoToken
  BY DEF StoreInv, Refuse, Beginning, TodoInv
<1>2. /\ pc' = "refused" /\ at' = at /\ found' = found /\ fetched' = fetched /\ todo' = todo /\ disk' = disk
      /\ legacy' = legacy /\ old' = old /\ from' = from /\ floor' = floor /\ leftOut' = leftOut /\ cut' = cut
      /\ corruptions' = corruptions /\ faults' = faults
  BY DEF Refuse, history, bounds
<1>3. Present' = Present /\ Active' = Active /\ Total' = Total /\ (InTransition' <=> InTransition)
  BY <1>2, SameDisk
<1>4. PlainTypes(L)'
  BY <1>1, <1>2 DEF PlainTypes, Places
<1>5. TodoInv(L)' /\ FilesInv(L)' /\ DeleteInv(L)' /\ LoadInv(L)' /\ FineInv(h)'
  BY <1>1, <1>2, <1>3 DEF TodoInv, FilesInv, DeleteInv, LoadInv, FineInv, FineContent, Fine
<1>6. ~current => OutdatedInv(L)'
  BY <1>2, <1>3 DEF StoreInv, OutdatedInv
<1>7. current /\ corruptions = 0 => IntactInv(L, start)'
  <2>1. SUFFICES ASSUME current, corruptions = 0 PROVE IntactInv(L, start)'
    OBVIOUS
  <2>2. IntactInv(L, start)
    BY <2>1 DEF StoreInv
  <2>3. cut
    <3>1. SUFFICES ASSUME ~cut PROVE FALSE
      BY <1>1 DEF PlainTypes
    <3>2. PICK n : Indexed(L, n) /\ InForceNow(L, n)
      BY <1>1, InForce DEF FilesInv
    <3>3. L \subseteq Present \/ L \cap Present = {}
      BY <1>1, <3>1 DEF DeleteInv
    <3>4. at \in Nat \ {0} /\ at <= Total
      BY <1>1 DEF PlainTypes, LoadInv
    <3>5. \E f \in Active : f[1] = at
      <4>1. CASE Active = {Current} /\ Total = 1
        BY <3>4, <4>1, CurrentIndex
      <4>2. CASE Active = L \cap Present /\ Total = n /\ L # {}
        <5>1. L \subseteq Present
          <6>1. Active # {}
            BY <3>2, <4>2 DEF InForceNow, InTransition
          <6> QED BY <3>3, <4>2, <6>1
        <5>2. at \in 1..n
          BY <3>2, <3>4, <4>2 DEF Indexed
        <5> QED BY <3>2, <4>2, <5>1, <5>2 DEF Indexed
      <4> QED BY <3>2, <4>1, <4>2 DEF InForceNow
    <3>6. PICK f \in Active : f[1] = at
      BY <3>5
    <3>7. FileOf(at) = f /\ f \in Files /\ disk[f][0] # Missing
      BY <1>1, <3>6, FileIs
    <3>8. LoadResumeToken(f) = NoToken
      BY <1>1, <3>6, <3>7
    <3>9. disk[f][0] \in {Missing, Torn, Outdated}
      BY <1>1, <3>7, <3>8, Loaded DEF PlainTypes, Disks
    <3>10. PICK t \in Tokens : disk[f][0] = Content(t)
      BY <2>2, <3>7 DEF IntactInv
    <3> QED BY <3>9, <3>10, Kinds, KindsDiffer
  <2> QED BY <1>2, <1>3, <2>2, <2>3 DEF IntactInv
<1>8. current /\ corruptions = 0 /\ faults <= 1 => ProgressInv(L, start, h)'
  BY <1>2, <1>3 DEF StoreInv, ProgressInv
<1> QED BY <1>2, <1>4, <1>5, <1>6, <1>7, <1>8 DEF StoreInv

LEMMA LoadKeeps ==
  ASSUME NEW L, NEW start, NEW h, NEW current, Beginning(L, start, h, current), StoreInv(L, start, h, current), Load
  PROVE  StoreInv(L, start, h, current)'
<1>1. /\ PlainTypes(L) /\ TodoInv(L) /\ FilesInv(L) /\ DeleteInv(L) /\ LoadInv(L) /\ FineInv(h) /\ L \in Layouts
      /\ pc = "loading" /\ todo = << >> /\ fetched = NoToken
  BY DEF StoreInv, Load, Beginning
<1>2. PICK f \in Active : f[1] = at /\ LoadResumeToken(f) # NoToken
  BY DEF Load
<1>3. FileOf(at) = f /\ f \in Files /\ f \in Present
  BY <1>1, <1>2, FileIs
<1>4. PICK t : t = LoadResumeToken(f)
  OBVIOUS
<1>5. /\ pc' = pc /\ at' = at /\ found' = found /\ fetched' = t /\ todo' = RestoreOps(f) /\ disk' = disk
      /\ legacy' = legacy /\ old' = old /\ from' = from /\ floor' = floor /\ leftOut' = leftOut /\ cut' = cut
      /\ corruptions' = corruptions /\ faults' = faults
  BY <1>3, <1>4 DEF Load, history, bounds
<1>6. Present' = Present /\ Active' = Active /\ Total' = Total /\ (InTransition' <=> InTransition)
  BY <1>5, SameDisk
<1>7. /\ t \in Tokens /\ t # NoToken /\ disk[f][0] \notin {Missing, Outdated}
      /\ \/ disk[f][0] = Content(t) /\ todo' = << >>
         \/ disk[f][0] = Torn /\ \E k \in 1..Backups : disk[f][k] = Content(t) /\ todo' = <<Copy(f, k, 0)>>
  BY <1>1, <1>2, <1>3, <1>4, <1>5, Loaded, Statics DEF PlainTypes, Disks
<1>9. PlainTypes(L)'
  BY <1>1, <1>5, <1>7 DEF PlainTypes
<1>10. TodoInv(L)'
  <2>1. todo' # << >> =>
          /\ f \in Active' /\ f[1] = at' /\ fetched' # NoToken /\ disk'[f][0] = Torn
          /\ \E k \in 1..Backups : disk'[f][k] = Content(fetched') /\ todo' = <<Copy(f, k, 0)>>
    BY <1>2, <1>5, <1>6, <1>7
  <2> QED BY <1>1, <1>5, <2>1 DEF TodoInv, Restoring
<1>11. FilesInv(L)' /\ DeleteInv(L)'
  BY <1>1, <1>5, <1>6 DEF FilesInv, DeleteInv
<1>12. LoadInv(L)'
  <2>1. todo' = << >> /\ disk[f][0].is = "token" => disk[f][0].tok = t
    BY <1>7, Kinds
  <2> QED BY <1>1, <1>2, <1>5, <1>6, <1>7, <2>1 DEF LoadInv
<1>13. FineInv(h)'
  <2>1. \A i \in DOMAIN todo' : todo'[i].op # "fill"
    BY <1>7 DEF Copy
  <2> QED BY <1>1, <1>5, <1>6, <2>1 DEF FineInv, FineContent, Fine
<1>14. current
  BY <1>1, <1>3, <1>7 DEF StoreInv, OutdatedInv, FilesInv, Beginning
<1>15. corruptions = 0 => IntactInv(L, start)'
  BY <1>1, <1>5, <1>6, <1>14 DEF StoreInv, IntactInv
<1>16. corruptions = 0 /\ faults <= 1 => ProgressInv(L, start, h)'
  BY <1>1, <1>5, <1>6, <1>14 DEF StoreInv, ProgressInv
<1> QED BY <1>5, <1>9, <1>10, <1>11, <1>12, <1>13, <1>14, <1>15, <1>16 DEF StoreInv

(* The minimum, after the file of one more partition.                      *)
LEMMA MinimumIs ==
  ASSUME disk \in Disks, NEW f \in Files, NEW t \in Tokens, NEW was \in FoundTokens, NEW best, best = Minimum(f, t, was),
         disk[f][0].is = "token" => disk[f][0].tok = t
  PROVE  /\ best \in FoundTokens
         /\ best # Nothing => best.tok \in Tokens
         /\ disk[f][0].is = "token" => best # Nothing /\ Second(best.tok) <= Second(t)
         /\ was # Nothing => best # Nothing /\ Second(best.tok) <= Second(was.tok)
         /\ best = was \/ (disk[f][0].is = "token" /\ best.tok = t)
<1>1. PICK s \in Nat : s = Second(t)
  BY SecondIsMonotonic, Statics
<1>2. was = Nothing \/ \E u \in Tokens : Second(u) \in Nat /\ was = [tok |-> u, second |-> Second(u)]
  <2>1. \A u \in Tokens : Second(u) \in Nat
    BY SecondIsMonotonic, Statics
  <2> QED BY <2>1 DEF FoundTokens
<1>3. PICK one : one = [tok |-> t, second |-> s]
  OBVIOUS
<1>4. one \in FoundTokens /\ one # Nothing /\ one.tok = t /\ one.second = s
  BY <1>1, <1>3, Statics DEF FoundTokens, Nothing
<1>5. CASE disk[f][0].is # "token"
  <2>1. best = was
    BY <1>5 DEF Minimum
  <2>2. was # Nothing => was.tok \in Tokens /\ Second(was.tok) \in Nat
    BY <1>2
  <2> QED BY <1>5, <2>1, <2>2
<1>6. CASE disk[f][0].is = "token"
  <2>1. best = IF Earlier(s, was) THEN one ELSE was
    BY <1>1, <1>3, <1>6 DEF Minimum
  <2>2. CASE was = Nothing
    BY <1>1, <1>4, <1>6, <2>1, <2>2 DEF Earlier
  <2>3. CASE was # Nothing
    <3>1. PICK u \in Tokens : Second(u) \in Nat /\ was = [tok |-> u, second |-> Second(u)]
      BY <1>2, <2>3
    <3>2. was.tok = u /\ was.second = Second(u)
      BY <3>1
    <3>3. CASE s < Second(u)
      <4>1. best = one
        BY <2>1, <3>2, <3>3 DEF Earlier
      <4> QED BY <1>1, <1>4, <1>6, <3>1, <3>2, <3>3, <4>1
    <3>4. CASE ~(s < Second(u))
      <4>1. best = was
        BY <2>1, <2>3, <3>2, <3>4 DEF Earlier
      <4> QED BY <1>1, <1>6, <2>3, <3>1, <3>2, <3>4, <4>1
    <3> QED BY <3>3, <3>4
  <2> QED BY <2>2, <2>3
<1> QED BY <1>5, <1>6

LEMMA AssessKeeps ==
  ASSUME NEW L, NEW start, NEW h, NEW current, Beginning(L, start, h, current), StoreInv(L, start, h, current), Assess
  PROVE  StoreInv(L, start, h, current)'
<1>1. /\ PlainTypes(L) /\ TodoInv(L) /\ FilesInv(L) /\ DeleteInv(L) /\ LoadInv(L) /\ FineInv(h) /\ L \in Layouts
      /\ pc = "loading" /\ todo = << >> /\ fetched # NoToken /\ disk \in Disks
  BY DEF StoreInv, Assess, Beginning, PlainTypes, Disks
<1>2. PICK f \in Active : /\ f[1] = at /\ disk[f][0] \notin {Missing, Outdated}
                          /\ disk[f][0].is = "token" => disk[f][0].tok = fetched
  BY <1>1 DEF LoadInv
<1>3. FileOf(at) = f /\ f \in Files /\ f \in Present
  BY <1>1, <1>2, FileIs
<1>4. PICK best : best = Minimum(f, fetched, found)
  OBVIOUS
<1>5. /\ found' = best /\ leftOut' = (leftOut \/ (InTransition /\ disk[f][0].is # "token")) /\ fetched' = NoToken
      /\ disk' = disk /\ legacy' = legacy /\ from' = from /\ floor' = floor /\ cut' = cut
      /\ corruptions' = corruptions /\ faults' = faults
      /\ \/ at < Total /\ at' = at + 1 /\ pc' = pc /\ todo' = todo /\ old' = old
         \/ at = Total /\ ~InTransition /\ pc' = "opening" /\ at' = at /\ todo' = todo /\ old' = old
         \/ at = Total /\ InTransition /\ best = Nothing /\ pc' = "refused" /\ at' = at /\ todo' = todo /\ old' = old
         \/ at = Total /\ InTransition /\ best # Nothing
            /\ pc' = "saving" /\ todo' = SaveOps(Current, best.tok) /\ old' = Active /\ at' = at
  BY <1>3, <1>4 DEF Assess, bounds
<1>6. Present' = Present /\ Active' = Active /\ Total' = Total /\ (InTransition' <=> InTransition)
  BY <1>5, SameDisk
<1>7. PICK n : Indexed(L, n) /\ InForceNow(L, n)
  BY <1>1, <1>3, InForce
<1>8. fetched \in Tokens /\ found \in FoundTokens
  BY <1>1 DEF PlainTypes
<1>9. /\ best \in FoundTokens /\ (best # Nothing => best.tok \in Tokens)
      /\ disk[f][0].is = "token" => best # Nothing /\ Second(best.tok) <= Second(fetched)
      /\ found # Nothing => best # Nothing /\ Second(best.tok) <= Second(found.tok)
      /\ best = found \/ (disk[f][0].is = "token" /\ best.tok = fetched)
  BY <1>1, <1>2, <1>3, <1>4, <1>8, MinimumIs
<1>10. current
  BY <1>2, <1>3, <1>1 DEF StoreInv, OutdatedInv, FilesInv, Beginning
<1>11. \A t \in Tokens : Second(t) \in Nat
  BY SecondIsMonotonic, Statics
<1>12. disk[f][0].is = "token" => disk[f][0] = Content(fetched)
  BY <1>1, <1>2, <1>3, Kinds, KindsDiffer, Statics DEF Disks
<1>13. floor \in Tokens /\ floor' = floor /\ at \in Nat \ {0} /\ h[1] \in Nat
  BY <1>1, <1>5, <1>7, CurrentIndex DEF PlainTypes, Beginning, Indexed
(* The transition takes in every file of the layout up to this one. *)
<1>14. ASSUME InTransition
       PROVE  /\ Active = L \cap Present /\ Total = n /\ L # {} /\ Current \notin L /\ f \in L /\ h \in L
              /\ \A g \in L : g[1] <= at => g \in Present
  <2>1. Active = L \cap Present /\ Total = n /\ L # {} /\ Current \notin L
    BY <1>7, <1>14 DEF InForceNow
  <2>2. f \in L /\ h \in L
    BY <1>2, <2>1 DEF Beginning
  <2>3. ASSUME NEW g \in L, g[1] <= at PROVE g \in Present
    <3>1. CASE g[1] < at
      BY <1>1, <1>14, <3>1 DEF LoadInv
    <3>2. CASE g[1] = at
      BY <1>2, <1>3, <1>7, <2>2, <3>2 DEF Indexed
    <3> QED BY <1>7, <1>13, <2>3, <3>1, <3>2 DEF Indexed
  <2> QED BY <2>1, <2>2, <2>3
<1>15. ASSUME ~leftOut', InTransition, at >= h[1]
       PROVE  best # Nothing /\ Fine(best.tok)
  <2>1. CASE at > h[1]
    <3>1. found # Nothing /\ Fine(found.tok)
      BY <1>1, <1>5, <1>15, <2>1 DEF FineInv
    <3>2. found.tok \in Tokens
      <4>1. PICK u \in Tokens : found = [tok |-> u, second |-> Second(u)]
        BY <1>8, <3>1 DEF FoundTokens
      <4> QED BY <4>1
    <3> QED BY <1>9, <1>11, <1>13, <3>1, <3>2 DEF Fine
  <2>2. CASE at = h[1]
    <3>1. f = h
      BY <1>2, <1>7, <1>14, <1>15, <2>2 DEF Indexed
    <3>2. disk[f][0] = Content(fetched) /\ disk[f][0].is = "token"
      BY <1>5, <1>12, <1>15
    <3>3. 0 \in 0..Backups
      BY Statics
    <3>4. FineContent(disk[h][0])
      BY <1>1, <1>5, <1>15, <3>3 DEF FineInv
    <3>5. Fine(fetched)
      BY <1>8, <3>1, <3>2, <3>4, Kinds DEF FineContent
    <3> QED BY <1>8, <1>9, <1>11, <1>13, <3>2, <3>5 DEF Fine
  <2> QED BY <1>13, <1>15, <2>1, <2>2
<1>16. ASSUME current, corruptions = 0
       PROVE  disk[f][0].is = "token" /\ leftOut' = FALSE /\ best # Nothing
  <2>1. IntactInv(L, start)
    BY <1>16 DEF StoreInv
  <2>2. disk[f][0].is = "token"
    BY <1>2, <1>3, <2>1, Kinds DEF IntactInv
  <2> QED BY <1>5, <1>9, <2>1, <2>2 DEF IntactInv
<1>17. ASSUME current, corruptions = 0, faults <= 1, InTransition
       PROVE  Second(best.tok) >= Second(Least(L, start, h))
  <2>1. IntactInv(L, start) /\ ProgressInv(L, start, h)
    BY <1>17 DEF StoreInv
  <2>2. CASE best = found
    BY <1>1, <1>16, <1>17, <2>1, <2>2 DEF ProgressInv
  <2>3. CASE best.tok = fetched
    <3>1. disk[f][0] = Content(start[f]) /\ f \in L /\ h \in L /\ start[f] \in Tokens /\ start[h] \in Tokens
      BY <1>3, <1>14, <1>17, <2>1 DEF IntactInv, Beginning
    <3>2. fetched = start[f]
      BY <1>8, <1>12, <1>16, <1>17, <3>1, Kinds
    <3>3. start[h] <= start[f] /\ Least(L, start, h) = start[h]
      BY <1>14, <1>17, <3>1 DEF Beginning, Least
    <3> QED BY <2>3, <3>1, <3>2, <3>3, SecondIsMonotonic
  <2> QED BY <1>9, <2>2, <2>3
<1>18. CASE at < Total /\ at' = at + 1 /\ pc' = pc /\ todo' = todo /\ old' = old
  <2>1. PlainTypes(L)'
    BY <1>1, <1>5, <1>9, <1>18 DEF PlainTypes
  <2>2. TodoInv(L)' /\ FilesInv(L)' /\ DeleteInv(L)'
    BY <1>1, <1>5, <1>6, <1>18 DEF TodoInv, FilesInv, DeleteInv
  <2>3. LoadInv(L)'
    <3>1. at' <= Total
      BY <1>7, <1>13, <1>18 DEF InForceNow, Indexed
    <3>2. InTransition => \A g \in L : g[1] < at' => g \in Present
      BY <1>7, <1>13, <1>14, <1>18 DEF Indexed
    <3> QED BY <1>5, <1>6, <1>18, <3>1, <3>2 DEF LoadInv
  <2>4. FineInv(h)'
    <3>1. ~leftOut' /\ InTransition /\ at' > h[1] => best # Nothing /\ Fine(best.tok)
      BY <1>13, <1>15, <1>18
    <3> QED BY <1>1, <1>5, <1>6, <1>18, <3>1 DEF FineInv, FineContent, Fine
  <2>5. corruptions = 0 => IntactInv(L, start)'
    BY <1>1, <1>5, <1>6, <1>10, <1>16, <1>18 DEF StoreInv, IntactInv
  <2>6. corruptions = 0 /\ faults <= 1 => ProgressInv(L, start, h)'
    BY <1>1, <1>5, <1>6, <1>10, <1>17, <1>18 DEF StoreInv, ProgressInv
  <2> QED BY <1>5, <1>10, <2>1, <2>2, <2>3, <2>4, <2>5, <2>6 DEF StoreInv
<1>19. CASE at = Total /\ ~InTransition /\ pc' = "opening" /\ at' = at /\ todo' = todo /\ old' = old
  <2>1. PlainTypes(L)'
    BY <1>1, <1>5, <1>9, <1>19 DEF PlainTypes, Places
  <2>2. Current \in Present /\ (Current \notin L /\ Numbered(L) => L \cap Present = {})
    BY <1>7, <1>19 DEF InForceNow
  <2>3. TodoInv(L)' /\ FilesInv(L)' /\ DeleteInv(L)' /\ LoadInv(L)' /\ FineInv(h)'
    BY <1>1, <1>5, <1>6, <1>19, <2>2 DEF TodoInv, FilesInv, DeleteInv, LoadInv, FineInv, FineContent, Fine
  <2>4. corruptions = 0 => IntactInv(L, start)'
    BY <1>5, <1>6, <1>10, <1>16, <1>19 DEF StoreInv, IntactInv
  <2>5. corruptions = 0 /\ faults <= 1 => ProgressInv(L, start, h)'
    BY <1>5, <1>6, <1>10, <1>19, <2>2 DEF StoreInv, ProgressInv
  <2> QED BY <1>5, <1>10, <2>1, <2>3, <2>4, <2>5 DEF StoreInv
<1>20. CASE at = Total /\ InTransition /\ best = Nothing /\ pc' = "refused" /\ at' = at /\ todo' = todo /\ old' = old
  <2>1. PlainTypes(L)'
    BY <1>1, <1>5, <1>9, <1>20 DEF PlainTypes, Places
  <2>2. TodoInv(L)' /\ FilesInv(L)' /\ DeleteInv(L)' /\ LoadInv(L)' /\ FineInv(h)'
    BY <1>1, <1>5, <1>6, <1>20 DEF TodoInv, FilesInv, DeleteInv, LoadInv, FineInv, FineContent, Fine
  <2>3. corruptions # 0
    BY <1>10, <1>16, <1>20
  <2> QED BY <1>5, <1>10, <2>1, <2>2, <2>3 DEF StoreInv
<1>21. CASE at = Total /\ InTransition /\ best # Nothing
            /\ pc' = "saving" /\ todo' = SaveOps(Current, best.tok) /\ old' = Active /\ at' = at
  <2>1. PICK ops : ops = SaveOps(Current, best.tok)
    OBVIOUS
  <2>2. /\ ops \in Seq(SaveOp) /\ ops # << >> /\ ops[Len(ops)].op = "write" /\ best.tok \in Tokens
        /\ \A i \in DOMAIN ops : /\ ops[i].op = "write" => ops[i].content = Content(best.tok)
                                 /\ ops[i].op # "fill"
    BY <1>9, <1>21, <2>1, SaveOpsShape
  <2>3. todo' = ops
    BY <1>21, <2>1
  <2>4. PlainTypes(L)'
    BY <1>1, <1>5, <1>9, <1>14, <1>21 DEF PlainTypes, Places
  <2>5. TodoInv(L)'
    BY <1>21, <2>2, <2>3 DEF TodoInv, Saving
  <2>6. FilesInv(L)' /\ DeleteInv(L)' /\ LoadInv(L)'
    BY <1>1, <1>5, <1>6, <1>14, <1>21, <2>2, <2>3 DEF FilesInv, DeleteInv, LoadInv
  <2>7. at >= h[1]
    BY <1>7, <1>14, <1>21 DEF Indexed
  <2>8. ~leftOut' => Fine(best.tok)
    BY <1>15, <1>21, <2>7
  <2>9. FineInv(h)'
    <3>1. ~leftOut' => FineContent(Content(best.tok))
      BY <2>2, <2>8, Kinds DEF FineContent
    <3> QED BY <1>1, <1>5, <1>21, <2>2, <2>3, <3>1 DEF FineInv, FineContent, Fine
  <2>10. corruptions = 0 => IntactInv(L, start)'
    BY <1>5, <1>6, <1>10, <1>16, <1>21 DEF StoreInv, IntactInv
  <2>11. corruptions = 0 /\ faults <= 1 => ProgressInv(L, start, h)'
    <3>1. SUFFICES ASSUME corruptions = 0, faults <= 1 PROVE ProgressInv(L, start, h)'
      OBVIOUS
    <3>2. ProgressInv(L, start, h)
      BY <1>10, <3>1 DEF StoreInv
    <3>3. L \subseteq Present
      BY <1>7, <1>14, <1>21 DEF Indexed
    <3>4. floor = Least(L, start, h)
      <4>1. CASE Numbered(L)
        BY <1>14, <1>21, <3>2, <3>3, <4>1 DEF ProgressInv
      <4>2. CASE ~Numbered(L)
        <5>1. Current \notin Present
          BY <1>7, <1>21, <4>2 DEF InForceNow
        <5>2. disk[Current][0] = Missing
          BY <5>1, Statics DEF Present, ScanPartitionCheckpoints
        <5> QED BY <3>2, <5>2, Kinds DEF ProgressInv
      <4> QED BY <4>1, <4>2
    <3>5. Second(best.tok) = Second(floor)
      <4>1. Second(best.tok) >= Second(floor)
        BY <1>10, <1>17, <1>21, <3>1, <3>4
      <4>2. Second(best.tok) <= Second(floor)
        BY <1>10, <1>16, <2>8, <3>1 DEF Fine
      <4> QED BY <1>11, <1>13, <2>2, <4>1, <4>2
    <3>6. \A i \in DOMAIN ops : ops[i].op = "write" => ops[i].content.tok = best.tok
      BY <2>2, Kinds
    <3> QED BY <1>5, <1>6, <1>21, <2>3, <3>2, <3>5, <3>6 DEF ProgressInv
  <2> QED BY <1>5, <1>10, <2>4, <2>5, <2>6, <2>9, <2>10, <2>11 DEF StoreInv
<1> QED BY <1>5, <1>18, <1>19, <1>20, <1>21

LEMMA CleanUpKeeps ==
  ASSUME NEW L, NEW start, NEW h, NEW current, Beginning(L, start, h, current), StoreInv(L, start, h, current), CleanUp
  PROVE  StoreInv(L, start, h, current)'
<1>1. /\ PlainTypes(L) /\ TodoInv(L) /\ FilesInv(L) /\ DeleteInv(L) /\ LoadInv(L) /\ FineInv(h) /\ L \in Layouts
      /\ pc = "saving" /\ todo = << >>
  BY DEF StoreInv, CleanUp, Beginning
<1>2. /\ pc' = IF old = {} THEN "opening" ELSE "deleting"
      /\ disk' = disk /\ todo' = todo /\ legacy' = legacy /\ old' = old /\ at' = at /\ fetched' = fetched /\ found' = found
      /\ from' = from /\ floor' = floor /\ leftOut' = leftOut /\ cut' = cut /\ corruptions' = corruptions /\ faults' = faults
  BY DEF CleanUp, history, bounds
<1>3. Present' = Present /\ Active' = Active /\ Total' = Total /\ (InTransition' <=> InTransition)
  BY <1>2, SameDisk
<1>4. Current \in Present /\ Current \notin L /\ \A f \in L \cap Present : f \in old
  BY <1>1 DEF FilesInv
<1>5. PlainTypes(L)'
  BY <1>1, <1>2 DEF PlainTypes, Places
<1>6. TodoInv(L)'
  <2>1. << >> \in Seq(DeleteOp(L))
    BY EmptySeq
  <2> QED BY <1>1, <1>2, <2>1 DEF TodoInv
<1>7. FilesInv(L)' /\ LoadInv(L)' /\ FineInv(h)'
  BY <1>1, <1>2, <1>3, <1>4 DEF FilesInv, LoadInv, FineInv, FineContent, Fine
<1>8. DeleteInv(L)'
  BY <1>1, <1>2, <1>3, <1>4, Statics DEF DeleteInv, AboutToGo
<1>9. current
  BY <1>1 DEF StoreInv, OutdatedInv, Beginning
<1>10. corruptions = 0 => IntactInv(L, start)'
  BY <1>2, <1>3, <1>9 DEF StoreInv, IntactInv
<1>11. corruptions = 0 /\ faults <= 1 => ProgressInv(L, start, h)'
  <2>1. pc' = "opening" /\ L # {} => ~(L \subseteq Present)
    BY <1>2, <1>4
  <2> QED BY <1>2, <1>3, <1>9, <2>1 DEF StoreInv, ProgressInv
<1> QED BY <1>2, <1>5, <1>6, <1>7, <1>8, <1>9, <1>10, <1>11 DEF StoreInv

LEMMA DeleteNextKeeps ==
  ASSUME NEW L, NEW start, NEW h, NEW current, Beginning(L, start, h, current), StoreInv(L, start, h, current),
         NEW f \in old, DeleteNext(f)
  PROVE  StoreInv(L, start, h, current)'
<1>0. PICK g : g = f
  OBVIOUS
<1>1. /\ PlainTypes(L) /\ TodoInv(L) /\ FilesInv(L) /\ DeleteInv(L) /\ LoadInv(L) /\ FineInv(h) /\ L \in Layouts
      /\ pc = "deleting" /\ todo = << >> /\ g \in old
  BY <1>0 DEF StoreInv, DeleteNext, Beginning
<1>2. /\ pc' = pc /\ disk' = disk /\ todo' = DeleteOps(g) /\ legacy' = legacy /\ old' = old \ {g} /\ at' = at
      /\ fetched' = fetched /\ found' = found /\ from' = from /\ floor' = floor /\ leftOut' = leftOut /\ cut' = cut
      /\ corruptions' = corruptions /\ faults' = faults
  BY <1>0 DEF DeleteNext, history, bounds
<1>3. Present' = Present /\ Active' = Active /\ Total' = Total /\ (InTransition' <=> InTransition)
  BY <1>2, SameDisk
<1>4. g \in L \ {Current}
  BY <1>1 DEF PlainTypes
<1>5. todo' \in Seq(DeleteOp(L)) /\ todo' # << >> /\ Head(todo') = Unlink(g, 0)
  BY <1>1, <1>2, <1>4, DeleteOpsShape
<1>6. PlainTypes(L)'
  BY <1>1, <1>2 DEF PlainTypes
<1>7. TodoInv(L)' /\ FilesInv(L)' /\ LoadInv(L)'
  BY <1>1, <1>2, <1>3, <1>5 DEF TodoInv, FilesInv, LoadInv
<1>8. DeleteInv(L)'
  <2>1. \A e \in Files : AboutToGo(e) => AboutToGo(e)'
    BY <1>1, <1>2, <1>5 DEF AboutToGo
  <2>2. L \subseteq Files
    BY <1>1, Statics
  <2> QED BY <1>1, <1>2, <1>3, <2>1, <2>2 DEF DeleteInv
<1>9. FineInv(h)'
  <2>1. \A i \in DOMAIN todo' : todo'[i].op = "remove"
    <3>1. ASSUME NEW i \in DOMAIN todo' PROVE todo'[i] \in DeleteOp(L)
      BY <1>5, LenProperties, ElementOfSeq
    <3> QED BY <1>1, <3>1, DeleteOpFields
  <2> QED BY <1>1, <1>2, <2>1 DEF FineInv, FineContent, Fine
<1>10. current
  BY <1>1 DEF StoreInv, OutdatedInv, Beginning
<1>11. corruptions = 0 => IntactInv(L, start)'
  BY <1>2, <1>3, <1>10 DEF StoreInv, IntactInv
<1>12. corruptions = 0 /\ faults <= 1 => ProgressInv(L, start, h)'
  BY <1>1, <1>2, <1>3, <1>10 DEF StoreInv, ProgressInv
<1> QED BY <1>2, <1>6, <1>7, <1>8, <1>9, <1>10, <1>11, <1>12 DEF StoreInv

(* A numbered layout that is not today's has two files at least.           *)
LEMMA TwoFiles ==
  ASSUME NEW L \in Layouts, Numbered(L), L # {}, Current \notin L, NEW x
  PROVE  \E f \in L : f # x
<1>1. PICK n, total : Shape(L, n, total)
  BY LayoutShape
<1>2. n \in Nat /\ n # 0 /\ total \in {n, Contiguous} /\ L = {<<i, total>> : i \in 1..n} /\ \A f \in L : f[2] = total
  BY <1>1, ShapeIsIndexed DEF Shape
<1>3. total = n
  BY <1>2 DEF Numbered
<1>4. n # 1
  <2>1. n = 1 => <<1, 1>> \in L
    BY <1>2, <1>3
  <2> QED BY <2>1 DEF Current
<1>5. <<1, n>> \in L /\ <<2, n>> \in L /\ <<1, n>> # <<2, n>>
  BY <1>2, <1>3, <1>4
<1> QED BY <1>5

LEMMA CleanedUpKeeps ==
  ASSUME NEW L, NEW start, NEW h, NEW current, Beginning(L, start, h, current), StoreInv(L, start, h, current), CleanedUp
  PROVE  StoreInv(L, start, h, current)'
<1>1. /\ PlainTypes(L) /\ TodoInv(L) /\ FilesInv(L) /\ DeleteInv(L) /\ LoadInv(L) /\ FineInv(h) /\ L \in Layouts
      /\ pc = "deleting" /\ todo = << >> /\ old = {}
  BY DEF StoreInv, CleanedUp, Beginning
<1>2. /\ pc' = "opening" /\ disk' = disk /\ todo' = todo /\ legacy' = legacy /\ old' = old /\ at' = at
      /\ fetched' = fetched /\ found' = found /\ from' = from /\ floor' = floor /\ leftOut' = leftOut /\ cut' = cut
      /\ corruptions' = corruptions /\ faults' = faults
  BY DEF CleanedUp, history, bounds
<1>3. Present' = Present /\ Active' = Active /\ Total' = Total /\ (InTransition' <=> InTransition)
  BY <1>2, SameDisk
<1>4. \A f : ~AboutToGo(f)
  BY <1>1 DEF AboutToGo
<1>5. PlainTypes(L)'
  BY <1>1, <1>2 DEF PlainTypes, Places
<1>6. TodoInv(L)' /\ FilesInv(L)' /\ LoadInv(L)' /\ FineInv(h)'
  BY <1>1, <1>2, <1>3 DEF TodoInv, FilesInv, LoadInv, FineInv, FineContent, Fine
<1>7. DeleteInv(L)'
  BY <1>1, <1>2, <1>3, <1>4 DEF DeleteInv
<1>8. current
  BY <1>1 DEF StoreInv, OutdatedInv, Beginning
<1>9. corruptions = 0 => IntactInv(L, start)'
  BY <1>2, <1>3, <1>8 DEF StoreInv, IntactInv
<1>10. corruptions = 0 /\ faults <= 1 => ProgressInv(L, start, h)'
  <2>1. ASSUME faults <= 1, Numbered(L), L # {} PROVE ~(L \subseteq Present)
    <3>1. Current \notin L /\ faults \in Nat
      BY <1>1 DEF FilesInv, PlainTypes
    <3>2. \E x : (L \cap Present) \ {x} = {}
      <4>1. CASE faults = 0
        BY <1>1, <1>4, <4>1 DEF DeleteInv
      <4>2. CASE faults = 1
        BY <1>1, <1>4, <4>2 DEF DeleteInv
      <4> QED BY <2>1, <3>1, <4>1, <4>2
    <3>3. PICK x : (L \cap Present) \ {x} = {}
      BY <3>2
    <3>4. PICK f \in L : f # x
      BY <1>1, <2>1, <3>1, TwoFiles
    <3> QED BY <3>3, <3>4
  <2> QED BY <1>2, <1>3, <1>8, <2>1 DEF StoreInv, ProgressInv
<1> QED BY <1>2, <1>5, <1>6, <1>7, <1>8, <1>9, <1>10 DEF StoreInv

-----------------------------------------------------------------------------
(* The stream, and the environment.                                        *)

LEMMA OpenStreamKeeps ==
  ASSUME NEW L, NEW start, NEW h, NEW current, Beginning(L, start, h, current), StoreInv(L, start, h, current), OpenStream
  PROVE  StoreInv(L, start, h, current)'
<1>1. /\ PlainTypes(L) /\ TodoInv(L) /\ FilesInv(L) /\ DeleteInv(L) /\ LoadInv(L) /\ FineInv(h) /\ L \in Layouts
      /\ pc = "opening" /\ todo = << >>
  BY DEF StoreInv, OpenStream, Beginning
<1>2. PICK t : t = LoadResumeToken(Current)
  OBVIOUS
<1>3. /\ pc' = "running" /\ from' = t /\ todo' = RestoreOps(Current) /\ t # NoToken
      /\ disk' = disk /\ legacy' = legacy /\ old' = old /\ at' = at
      /\ fetched' = fetched /\ found' = found /\ floor' = floor /\ leftOut' = leftOut /\ cut' = cut
      /\ corruptions' = corruptions /\ faults' = faults
  BY <1>2 DEF OpenStream, history, bounds
<1>4. Present' = Present /\ Active' = Active /\ Total' = Total /\ (InTransition' <=> InTransition)
  BY <1>3, SameDisk
<1>5. /\ t \in Tokens
      /\ \/ disk[Current][0] = Content(t) /\ todo' = << >>
         \/ disk[Current][0] = Torn /\ \E k \in 1..Backups : disk[Current][k] = Content(t) /\ todo' = <<Copy(Current, k, 0)>>
  BY <1>1, <1>2, <1>3, Loaded, Statics DEF PlainTypes, Disks
<1>6. PlainTypes(L)'
  BY <1>1, <1>3, <1>5 DEF PlainTypes, Places
<1>7. \A i \in DOMAIN todo' : todo'[i].op = "copy"
  BY <1>5 DEF Copy
<1>8. TodoInv(L)'
  <2>1. CASE todo' = << >>
    <3>1. << >> \in Seq(SaveOp)
      BY EmptySeq
    <3> QED BY <1>3, <2>1, <3>1 DEF TodoInv, Saving
  <2>2. CASE disk[Current][0] = Torn /\ \E k \in 1..Backups : disk[Current][k] = Content(t) /\ todo' = <<Copy(Current, k, 0)>>
    <3>1. disk'[Current][0] = Torn /\ \E k \in 1..Backups : disk'[Current][k] = Content(t) /\ todo' = <<Copy(Current, k, 0)>>
      BY <1>3, <2>2
    <3>2. \A i \in DOMAIN todo' : todo'[i].op # "write"
      BY <1>7
    <3> QED BY <1>3, <1>5, <3>1, <3>2 DEF TodoInv, Restoring
  <2> QED BY <1>5, <2>1, <2>2
<1>9. FilesInv(L)' /\ DeleteInv(L)' /\ LoadInv(L)'
  BY <1>1, <1>3, <1>4 DEF FilesInv, DeleteInv, LoadInv
<1>10. FineInv(h)'
  BY <1>1, <1>3, <1>7 DEF FineInv, FineContent, Fine
<1>11. current
  BY <1>1 DEF StoreInv, OutdatedInv, Beginning
<1>12. corruptions = 0 => IntactInv(L, start)'
  BY <1>3, <1>4, <1>11 DEF StoreInv, IntactInv
<1>13. corruptions = 0 /\ faults <= 1 => ProgressInv(L, start, h)'
  <2>1. ASSUME ProgressInv(L, start, h) PROVE Second(t) = Second(floor)
    <3>1. Current \in Present
      BY <1>1 DEF FilesInv
    <3>2. disk[Current][0].is = "token" /\ Second(disk[Current][0].tok) = Second(floor)
      BY <2>1, <3>1 DEF ProgressInv
    <3>3. disk[Current][0] = Content(t)
      BY <1>5, <3>2, KindsDiffer
    <3> QED BY <1>5, <3>2, <3>3, Kinds
  <2>2. Second(floor) \in Nat
    BY <1>1, SecondIsMonotonic, Statics DEF PlainTypes
  <2> QED BY <1>1, <1>3, <1>4, <1>11, <2>1, <2>2 DEF StoreInv, ProgressInv
<1> QED BY <1>3, <1>6, <1>8, <1>9, <1>10, <1>11, <1>12, <1>13 DEF StoreInv

LEMMA SaveTokenKeeps ==
  ASSUME NEW L, NEW start, NEW h, NEW current, Beginning(L, start, h, current), StoreInv(L, start, h, current),
         NEW tok \in Tokens, SaveToken(tok)
  PROVE  StoreInv(L, start, h, current)'
<1>0. PICK t \in Tokens : t = tok
  OBVIOUS
<1>1. /\ PlainTypes(L) /\ TodoInv(L) /\ FilesInv(L) /\ DeleteInv(L) /\ LoadInv(L) /\ FineInv(h) /\ L \in Layouts
      /\ pc = "running" /\ todo = << >> /\ from < t
  BY <1>0 DEF StoreInv, SaveToken, Beginning
<1>2. /\ pc' = pc /\ from' = t /\ todo' = SaveOps(Current, t) /\ disk' = disk /\ legacy' = legacy /\ old' = old /\ at' = at
      /\ fetched' = fetched /\ found' = found /\ floor' = floor /\ leftOut' = leftOut /\ cut' = cut
      /\ corruptions' = corruptions /\ faults' = faults
  BY <1>0 DEF SaveToken, history, bounds
<1>3. Present' = Present /\ Active' = Active /\ Total' = Total /\ (InTransition' <=> InTransition)
  BY <1>2, SameDisk
<1>4. PICK ops : ops = SaveOps(Current, t)
  OBVIOUS
<1>5. /\ ops \in Seq(SaveOp) /\ ops # << >>
      /\ \A i \in DOMAIN ops : /\ ops[i].op = "write" => ops[i].content = Content(t)
                               /\ ops[i].op # "fill"
  BY <1>4, SaveOpsShape
<1>6. todo' = ops
  BY <1>2, <1>4
<1>7. PlainTypes(L)'
  BY <1>1, <1>2 DEF PlainTypes
<1>8. TodoInv(L)'
  <2>1. t # NoToken /\ \A i \in DOMAIN ops : ops[i].op = "write" => ops[i].content.tok = t
    BY <1>5, Kinds, Statics
  <2> QED BY <1>1, <1>2, <1>5, <1>6, <2>1 DEF TodoInv, Saving
<1>9. FilesInv(L)' /\ DeleteInv(L)' /\ LoadInv(L)'
  BY <1>1, <1>2, <1>3 DEF FilesInv, DeleteInv, LoadInv
<1>10. FineInv(h)'
  BY <1>1, <1>2, <1>5, <1>6 DEF FineInv, FineContent, Fine
<1>11. current
  BY <1>1 DEF StoreInv, OutdatedInv, Beginning
<1>12. corruptions = 0 => IntactInv(L, start)'
  BY <1>2, <1>3, <1>11 DEF StoreInv, IntactInv
<1>13. corruptions = 0 /\ faults <= 1 => ProgressInv(L, start, h)'
  <2>1. ASSUME Second(from) >= Second(floor) PROVE Second(t) >= Second(floor)
    <3>1. from \in Tokens /\ from <= t /\ floor \in Tokens
      BY <1>1, Statics DEF PlainTypes, TodoInv
    <3>2. PICK u \in Tokens : u = from /\ u <= t
      BY <3>1
    <3>3. Second(u) \in Nat /\ Second(t) \in Nat /\ Second(u) <= Second(t)
      BY <3>2, SecondIsMonotonic
    <3>4. Second(floor) \in Nat
      BY <3>1, SecondIsMonotonic, Statics
    <3> QED BY <2>1, <3>2, <3>3, <3>4
  <2> QED BY <1>1, <1>2, <1>3, <1>11, <2>1 DEF StoreInv, ProgressInv
<1> QED BY <1>2, <1>7, <1>8, <1>9, <1>10, <1>11, <1>12, <1>13 DEF StoreInv

LEMMA CrashKeeps ==
  ASSUME NEW L, NEW start, NEW h, NEW current, Beginning(L, start, h, current), StoreInv(L, start, h, current), Crash
  PROVE  StoreInv(L, start, h, current)'
<1>1. /\ PlainTypes(L) /\ TodoInv(L) /\ FilesInv(L) /\ DeleteInv(L) /\ LoadInv(L) /\ FineInv(h) /\ L \in Layouts
      /\ pc # "refused"
  BY DEF StoreInv, Crash, Beginning
<1>2. /\ cut' = (cut \/ (pc = "deleting" /\ (todo # <<>> \/ old # {})))
      /\ pc' = "down" /\ todo' = << >> /\ old' = {} /\ at' = 1 /\ fetched' = NoToken /\ found' = Nothing /\ from' = NoToken
      /\ disk' = disk /\ legacy' = legacy /\ floor' = floor /\ leftOut' = leftOut
      /\ corruptions' = corruptions /\ faults' = faults
  BY DEF Crash
<1>3. Present' = Present /\ Active' = Active /\ Total' = Total /\ (InTransition' <=> InTransition)
  BY <1>2, SameDisk
<1>4. PlainTypes(L)'
  BY <1>1, <1>2 DEF PlainTypes, Places, FoundTokens
<1>5. TodoInv(L)' /\ FilesInv(L)' /\ LoadInv(L)'
  BY <1>1, <1>2, <1>3 DEF TodoInv, FilesInv, LoadInv
<1>6. DeleteInv(L)'
  <2>1. ASSUME ~cut' PROVE L \subseteq Present \/ L \cap Present = {}
    <3>1. CASE pc = "deleting"
      <4>1. \A f : ~AboutToGo(f)
        BY <1>2, <2>1, <3>1 DEF AboutToGo
      <4> QED BY <1>1, <1>2, <2>1, <3>1, <4>1 DEF DeleteInv
    <3> QED BY <1>1, <1>2, <2>1, <3>1 DEF DeleteInv
  <2> QED BY <1>2, <1>3, <2>1 DEF DeleteInv
<1>7. FineInv(h)'
  BY <1>1, <1>2 DEF FineInv, FineContent, Fine
<1>8. ~current => OutdatedInv(L)'
  BY <1>2, <1>3 DEF StoreInv, OutdatedInv
<1>9. current /\ corruptions = 0 => IntactInv(L, start)'
  BY <1>2, <1>3 DEF StoreInv, IntactInv
<1>10. current /\ corruptions = 0 /\ faults <= 1 => ProgressInv(L, start, h)'
  BY <1>2, <1>3 DEF StoreInv, ProgressInv
<1> QED BY <1>2, <1>4, <1>5, <1>6, <1>7, <1>8, <1>9, <1>10 DEF StoreInv

LEMMA CorruptKeeps ==
  ASSUME NEW L, NEW start, NEW h, NEW current, Beginning(L, start, h, current), StoreInv(L, start, h, current), Corrupt
  PROVE  StoreInv(L, start, h, current)'
<1>1. /\ PlainTypes(L) /\ TodoInv(L) /\ FilesInv(L) /\ DeleteInv(L) /\ LoadInv(L) /\ FineInv(h) /\ L \in Layouts
      /\ pc = "down" /\ todo = << >>
  BY DEF StoreInv, Corrupt, Beginning, TodoInv
<1>2. PICK f \in Files : disk[f][0].is = "token" /\ disk' = [disk EXCEPT ![f][0] = Torn]
  BY DEF Corrupt
<1>3. /\ pc' = pc /\ todo' = todo /\ legacy' = legacy /\ old' = old /\ at' = at /\ fetched' = fetched /\ found' = found
      /\ from' = from /\ floor' = floor /\ leftOut' = leftOut /\ cut' = cut /\ corruptions' = corruptions + 1 /\ faults' = faults
  BY DEF Corrupt, memory, history
<1>4. Torn \in Contents /\ 0 \in 0..Backups /\ Torn # Missing /\ disk[f][0] # Missing
  BY <1>2, Kinds, KindsDiffer, Statics
<1>5. /\ disk' \in Disks /\ disk'[f][0] = Torn
      /\ \A g \in Files, k \in 0..Backups : (g # f \/ k # 0) => disk'[g][k] = disk[g][k]
  BY <1>1, <1>2, <1>4 DEF PlainTypes, Disks
<1>6. Present' = Present /\ Active' = Active /\ Total' = Total /\ (InTransition' <=> InTransition)
  <2>1. \A g \in Files : disk'[g][0] = Missing <=> disk[g][0] = Missing
    BY <1>4, <1>5
  <2> QED BY <2>1, SamePresence
<1>7. PlainTypes(L)'
  BY <1>1, <1>3, <1>5 DEF PlainTypes, Disks
<1>8. TodoInv(L)' /\ FilesInv(L)' /\ DeleteInv(L)' /\ LoadInv(L)'
  BY <1>1, <1>3, <1>6 DEF TodoInv, FilesInv, DeleteInv, LoadInv
<1>9. FineInv(h)'
  <2>1. Current \in Files /\ h \in Files
    BY <1>1, Statics DEF Beginning
  <2>2. \A g \in {Current, h}, k \in 0..Backups : disk'[g][k] = Torn \/ disk'[g][k] = disk[g][k]
    BY <1>5, <2>1
  <2>3. \A g \in {Current, h}, k \in 0..Backups : FineContent(disk[g][k]) => FineContent(disk'[g][k])
    BY <2>2, KindsDiffer DEF FineContent
  <2> QED BY <1>1, <1>3, <2>3 DEF FineInv, FineContent, Fine
<1>10. current
  <2>1. ASSUME ~current PROVE FALSE
    <3>1. OutdatedInv(L) /\ f \in Present
      BY <1>2, <1>4, <2>1 DEF StoreInv, Present, ScanPartitionCheckpoints
    <3>2. disk[f][0] = Outdated
      BY <1>1, <3>1 DEF OutdatedInv, FilesInv
    <3> QED BY <1>2, <3>2, KindsDiffer
  <2> QED BY <2>1 DEF Beginning
<1>11. corruptions' # 0
  BY <1>1, <1>3 DEF PlainTypes
<1> QED BY <1>7, <1>8, <1>9, <1>10, <1>11 DEF StoreInv

(* What is left of the operations ahead when the first is done.            *)
LEMMA TailIs ==
  ASSUME NEW S, NEW s \in Seq(S), s # << >>
  PROVE  /\ Tail(s) \in Seq(S) /\ Head(s) \in S /\ Head(s) = s[1] /\ 1 \in DOMAIN s
         /\ \A i \in DOMAIN Tail(s) : i + 1 \in DOMAIN s /\ Tail(s)[i] = s[i + 1]
         /\ Tail(s) # << >> => Tail(s)[Len(Tail(s))] = s[Len(s)]
         /\ Tail(s) = << >> => s[Len(s)] = Head(s)
<1>1. Len(s) \in Nat /\ Len(s) >= 1 /\ DOMAIN s = 1..Len(s)
  OBVIOUS
<1>2. /\ Tail(s) \in Seq(S) /\ Len(Tail(s)) = Len(s) - 1 /\ \A i \in 1..(Len(s) - 1) : Tail(s)[i] = s[i + 1]
  OBVIOUS
<1>3. DOMAIN Tail(s) = 1..(Len(s) - 1)
  BY <1>2
<1>4. Tail(s) = << >> <=> Len(s) = 1
  BY <1>1, <1>2
<1>5. Head(s) = s[1] /\ s[1] \in S
  BY <1>1
<1> QED BY <1>1, <1>2, <1>3, <1>4, <1>5

(* The first operation ahead tells what the process is doing.              *)
LEMMA HeadTells ==
  ASSUME NEW L \in Layouts, PlainTypes(L), TodoInv(L), todo # << >>
  PROVE  /\ Head(todo) \in Operation
         /\ \/ pc \in {"saving", "running"} /\ todo \in Seq(SaveOp)
            \/ pc = "deleting" /\ todo \in Seq(DeleteOp(L))
            \/ \E f \in Files, t \in Tokens :
                 /\ Restoring(f, t)
                 /\ \/ pc = "running" /\ f = Current
                    \/ pc = "loading" /\ f \in Active /\ f[1] = at /\ fetched = t
<1>1. pc \in Places /\ (fetched # NoToken => fetched \in Tokens) /\ Current \in Files
  BY Statics DEF PlainTypes
<1>2. Active \subseteq Files
  BY DEF Active, ActiveFiles, ScanPartitionCheckpoints
<1>3. \/ pc \in {"saving", "running"} /\ todo \in Seq(SaveOp)
      \/ pc = "deleting" /\ todo \in Seq(DeleteOp(L))
      \/ \E f \in Files, t \in Tokens :
           /\ Restoring(f, t)
           /\ \/ pc = "running" /\ f = Current
              \/ pc = "loading" /\ f \in Active /\ f[1] = at /\ fetched = t
  BY <1>1, <1>2 DEF Places, TodoInv, Saving
<1>4. CASE todo \in Seq(SaveOp)
  BY <1>3, <1>4, TailIs, SaveOpFields
<1>5. CASE todo \in Seq(DeleteOp(L))
  BY <1>3, <1>5, TailIs, DeleteOpFields
<1>6. CASE \E f \in Files, t \in Tokens : Restoring(f, t)
  <2>1. todo[1] \in Operation /\ Head(todo) = todo[1]
    BY <1>6, RestoringOps DEF Restoring
  <2> QED BY <1>3, <2>1
<1> QED BY <1>3, <1>4, <1>5, <1>6

LEMMA FaultKeeps ==
  ASSUME NEW L, NEW start, NEW h, NEW current, Beginning(L, start, h, current), StoreInv(L, start, h, current), Fault
  PROVE  StoreInv(L, start, h, current)'
<1>1. /\ PlainTypes(L) /\ TodoInv(L) /\ FilesInv(L) /\ DeleteInv(L) /\ LoadInv(L) /\ FineInv(h) /\ L \in Layouts
      /\ todo # << >>
  BY DEF StoreInv, Fault, Beginning
<1>2. PICK o : o = Head(todo)
  OBVIOUS
<1>3. /\ disk' = disk /\ legacy' = legacy /\ at' = at /\ fetched' = fetched /\ found' = found /\ from' = from
      /\ floor' = floor /\ leftOut' = leftOut /\ corruptions' = corruptions /\ faults' = faults + 1
      /\ \/ /\ o.op \in {"remove", "rename"}
            /\ todo' = IF pc = "deleting" /\ o.from = 0 THEN <<>> ELSE Tail(todo)
            /\ cut' = (cut \/ (pc = "deleting" /\ o.from = 0)) /\ pc' = pc /\ old' = old
         \/ /\ o.op \notin {"remove", "rename"} /\ todo' = << >> /\ cut' = cut
            /\ pc' = IF pc = "saving" THEN "down" ELSE pc
            /\ old' = IF pc = "saving" THEN {} ELSE old
  BY <1>2 DEF Fault
<1>4. Present' = Present /\ Active' = Active /\ Total' = Total /\ (InTransition' <=> InTransition)
  BY <1>3, SameDisk
<1>5. /\ o \in Operation
      /\ \/ pc \in {"saving", "running"} /\ todo \in Seq(SaveOp)
         \/ pc = "deleting" /\ todo \in Seq(DeleteOp(L))
         \/ \E f \in Files, t \in Tokens :
              /\ Restoring(f, t)
              /\ \/ pc = "running" /\ f = Current
                 \/ pc = "loading" /\ f \in Active /\ f[1] = at /\ fetched = t
  BY <1>1, <1>2, HeadTells
<1>6. pc \in {"saving", "running", "deleting"} \/ (pc = "loading" /\ fetched # NoToken)
  BY <1>5, Statics
<1>7. current
  BY <1>6 DEF StoreInv, OutdatedInv, Beginning
<1>8. PlainTypes(L)'
  <2>1. pc' \in Places /\ old' \subseteq L \ {Current}
    BY <1>1, <1>3 DEF PlainTypes, Places
  <2>2. cut' \in BOOLEAN
    <3>1. cut \in BOOLEAN /\ (cut' = cut \/ cut' = (cut \/ (pc = "deleting" /\ o.from = 0)))
      BY <1>1, <1>3 DEF PlainTypes
    <3> QED BY <3>1
  <2>3. faults' \in Nat
    BY <1>1, <1>3 DEF PlainTypes
  <2> QED BY <1>1, <1>3, <2>1, <2>2, <2>3 DEF PlainTypes
<1>9. corruptions = 0 => IntactInv(L, start)'
  BY <1>3, <1>4, <1>6, <1>7 DEF StoreInv, IntactInv
(* No new operation is ahead. *)
<1>10. \A i \in DOMAIN todo' : \E j \in DOMAIN todo : todo'[i] = todo[j]
  <2>1. CASE todo' = << >>
    BY <2>1
  <2>2. CASE todo' = Tail(todo)
    <3>1. ASSUME NEW S, todo \in Seq(S) PROVE \A i \in DOMAIN Tail(todo) : \E j \in DOMAIN todo : Tail(todo)[i] = todo[j]
      BY <1>1, <3>1, TailIs
    <3>2. CASE \E f \in Files, t \in Tokens : Restoring(f, t)
      <4>1. PICK x : todo = <<x>>
        BY <3>2 DEF Restoring
      <4>2. Tail(<<x>>) = << >>
        OBVIOUS
      <4> QED BY <2>2, <4>1, <4>2
    <3> QED BY <1>5, <2>2, <3>1, <3>2
  <2> QED BY <1>3, <2>1, <2>2
<1>11. FineInv(h)'
  BY <1>1, <1>3, <1>4, <1>6, <1>10 DEF FineInv, FineContent, Fine
<1>12. corruptions = 0 /\ faults' <= 1 => ProgressInv(L, start, h)'
  <2>1. faults' <= 1 => faults <= 1
    BY <1>1, <1>3 DEF PlainTypes
  <2> QED BY <1>3, <1>4, <1>6, <1>7, <1>10, <2>1 DEF StoreInv, ProgressInv
<1>13. CASE pc \in {"saving", "running"} /\ o.op \in {"remove", "rename"}
  <2>1. todo \in Seq(SaveOp) /\ todo' = Tail(todo) /\ pc' = pc /\ old' = old /\ cut' = cut
    <3>1. ~\E f \in Files, t \in Tokens : Restoring(f, t)
      <4>1. ASSUME NEW f \in Files, NEW t \in Tokens, Restoring(f, t) PROVE FALSE
        <5>1. o = todo[1] /\ o.op \in {"fill", "copy"}
          BY <1>2, <4>1, RestoringOps DEF Restoring, Fill, Copy
        <5> QED BY <1>13, <5>1
      <4> QED BY <4>1
    <3>2. todo \in Seq(SaveOp)
      BY <1>5, <1>13, <3>1
    <3>3. pc # "deleting"
      BY <1>13
    <3>4. todo' = Tail(todo) /\ pc' = pc /\ old' = old
      BY <1>3, <1>13, <3>3
    <3>5. cut \in BOOLEAN /\ (cut' = cut \/ cut' = (cut \/ (pc = "deleting" /\ o.from = 0)))
      BY <1>1, <1>3 DEF PlainTypes
    <3> QED BY <3>2, <3>3, <3>4, <3>5
  <2>2. /\ Tail(todo) \in Seq(SaveOp) /\ Head(todo) = o
        /\ Tail(todo) # << >> => Tail(todo)[Len(Tail(todo))] = todo[Len(todo)]
        /\ Tail(todo) = << >> => todo[Len(todo)] = o
    BY <1>1, <1>2, <2>1, TailIs
  <2>3. TodoInv(L)'
    BY <1>1, <1>3, <1>10, <1>13, <2>1, <2>2 DEF TodoInv, Saving
  <2>4. pc = "saving" => todo' # << >>
    BY <1>1, <1>13, <2>1, <2>2 DEF TodoInv
  <2>5. FilesInv(L)'
    BY <1>1, <1>4, <1>13, <2>1, <2>4 DEF FilesInv
  <2>6. DeleteInv(L)' /\ LoadInv(L)'
    BY <1>1, <1>4, <1>13, <2>1 DEF DeleteInv, LoadInv
  <2> QED BY <1>3, <1>7, <1>8, <1>9, <1>11, <1>12, <2>3, <2>5, <2>6 DEF StoreInv
<1>14. CASE pc = "deleting"
  <2>1. /\ todo \in Seq(DeleteOp(L)) /\ pc' = pc /\ old' = old
        /\ todo' = (IF o.from = 0 THEN << >> ELSE Tail(todo)) /\ cut' = (cut \/ o.from = 0)
    <3>1. todo \in Seq(DeleteOp(L))
      BY <1>5, <1>14
    <3>2. o.op = "remove"
      BY <1>1, <1>2, <3>1, TailIs, DeleteOpFields
    <3> QED BY <1>3, <1>14, <3>1, <3>2
  <2>2. /\ Tail(todo) \in Seq(DeleteOp(L)) /\ o \in DeleteOp(L)
    BY <1>1, <1>2, <2>1, TailIs
  <2>3. o.file \in Files
    BY <1>5 DEF Operation
  <2>4. TodoInv(L)'
    <3>1. << >> \in Seq(DeleteOp(L))
      BY EmptySeq
    <3> QED BY <1>14, <2>1, <2>2, <3>1 DEF TodoInv
  <2>5. FilesInv(L)' /\ LoadInv(L)'
    BY <1>1, <1>4, <1>14, <2>1 DEF FilesInv, LoadInv
  <2>6. \A f : AboutToGo(f) => f \in old \/ (o.from = 0 /\ f = o.file)
    BY <1>2 DEF AboutToGo, Unlink
  <2>7. \A f \in old : AboutToGo(f)'
    BY <2>1 DEF AboutToGo
  <2>8. DeleteInv(L)'
    <3>1. faults \in Nat
      BY <1>1 DEF PlainTypes
    <3>2. ~cut' => \A f \in L \cap Present : f \in old
      BY <1>1, <1>14, <2>1, <2>6 DEF DeleteInv, PlainTypes
    <3>3. faults = 0 => \A f \in (L \cap Present) \ {o.file} : f \in old
      BY <1>1, <1>14, <2>6 DEF DeleteInv
    <3> QED BY <1>3, <1>4, <1>14, <2>1, <2>3, <2>7, <3>1, <3>2, <3>3 DEF DeleteInv
  <2> QED BY <1>3, <1>7, <1>8, <1>9, <1>11, <1>12, <2>4, <2>5, <2>8 DEF StoreInv
<1>15. CASE pc = "loading" \/ (pc \in {"saving", "running"} /\ o.op \notin {"remove", "rename"})
  <2>1. /\ todo' = << >> /\ cut' = cut /\ pc' = (IF pc = "saving" THEN "down" ELSE pc)
        /\ old' = (IF pc = "saving" THEN {} ELSE old)
    <3>1. ASSUME pc = "loading" PROVE o.op \notin {"remove", "rename"}
      <4>1. PICK f \in Files, t \in Tokens : Restoring(f, t)
        BY <1>5, <3>1
      <4> QED BY <1>2, <4>1, RestoringOps DEF Restoring, Fill, Copy
    <3> QED BY <1>3, <1>15, <3>1
  <2>2. TodoInv(L)'
    <3>1. << >> \in Seq(SaveOp)
      BY EmptySeq
    <3> QED BY <1>1, <1>3, <1>6, <1>15, <2>1, <3>1 DEF TodoInv, Saving
  <2>3. FilesInv(L)' /\ DeleteInv(L)'
    BY <1>1, <1>4, <1>6, <1>15, <2>1 DEF FilesInv, DeleteInv
  <2>4. LoadInv(L)'
    <3>1. ASSUME pc = "loading"
          PROVE  \E f \in Active : f[1] = at /\ disk[f][0] \notin {Missing, Outdated} /\ disk[f][0].is # "token"
      <4>1. PICK f \in Files, t \in Tokens : Restoring(f, t) /\ f \in Active /\ f[1] = at
        BY <1>5, <3>1
      <4>2. disk[f][0] = Torn
        BY <4>1 DEF Restoring
      <4> QED BY <4>1, <4>2, Kinds, KindsDiffer
    <3> QED BY <1>1, <1>3, <1>4, <1>6, <1>15, <2>1, <3>1 DEF LoadInv
  <2> QED BY <1>3, <1>7, <1>8, <1>9, <1>11, <1>12, <2>2, <2>3, <2>4 DEF StoreInv
<1> QED BY <1>6, <1>13, <1>14, <1>15

-----------------------------------------------------------------------------
(* One operation on a file.                                                *)

LEMMA PerformIs ==
  ASSUME NEW L, NEW start, NEW h, NEW current, Beginning(L, start, h, current), StoreInv(L, start, h, current), Perform
  PROVE  \E o \in Operation :
           /\ o = Head(todo) /\ todo # << >>
           /\ disk' = Effect(o)
           /\ o.op = "copy" => todo' = <<Fill(o.file, o.to, disk[o.file][o.from])>> \o Tail(todo)
           /\ o.op # "copy" => todo' = << >> \o Tail(todo)
           /\ floor' = IF pc = "running" /\ o.op = "write" /\ o.content.tok > floor THEN o.content.tok ELSE floor
           /\ legacy' = legacy /\ pc' = pc /\ old' = old /\ at' = at /\ fetched' = fetched /\ found' = found /\ from' = from
           /\ leftOut' = leftOut /\ cut' = cut /\ corruptions' = corruptions /\ faults' = faults
<1>1. L \in Layouts /\ PlainTypes(L) /\ TodoInv(L) /\ todo # << >>
  BY DEF Beginning, StoreInv, Perform
<1>2. PICK o \in Operation : o = Head(todo)
  BY <1>1, HeadTells
<1>3. disk' = Effect(o)
  BY <1>2 DEF Perform
<1>4. /\ o.op = "copy" => todo' = <<Fill(o.file, o.to, disk[o.file][o.from])>> \o Tail(todo)
      /\ o.op # "copy" => todo' = << >> \o Tail(todo)
  BY <1>2 DEF Perform
<1>5. floor' = IF pc = "running" /\ o.op = "write" /\ o.content.tok > floor THEN o.content.tok ELSE floor
  BY <1>2 DEF Perform
<1>6. /\ legacy' = legacy /\ pc' = pc /\ old' = old /\ at' = at /\ fetched' = fetched /\ found' = found /\ from' = from
      /\ leftOut' = leftOut /\ cut' = cut /\ corruptions' = corruptions /\ faults' = faults
  BY DEF Perform, bounds
<1> QED BY <1>1, <1>2, <1>3, <1>4, <1>5, <1>6

(* A backup is copied over the main file that could not be read.           *)
LEMMA RestoreIs ==
  ASSUME NEW L, NEW start, NEW h, NEW current, Beginning(L, start, h, current), StoreInv(L, start, h, current), Perform,
         NEW f \in Files, NEW t \in Tokens, Restoring(f, t),
         \/ pc = "running" /\ f = Current
         \/ pc = "loading" /\ f \in Active /\ f[1] = at /\ fetched = t
  PROVE  /\ disk' \in Disks /\ floor' = floor
         /\ \A g \in Files, k \in 0..Backups : (g # f \/ k # 0) => disk'[g][k] = disk[g][k]
         /\ \/ todo' = << >> /\ disk'[f][0] = Content(t) /\ \E i \in DOMAIN todo : todo[i] = Fill(f, 0, Content(t))
            \/ /\ todo' = <<Fill(f, 0, Content(t))>> /\ disk'[f][0] = Torn
               /\ \E k \in 1..Backups : disk[f][k] = Content(t)
<1>1. /\ PlainTypes(L) /\ TodoInv(L) /\ FilesInv(L) /\ DeleteInv(L) /\ LoadInv(L) /\ FineInv(h) /\ L \in Layouts
  BY DEF StoreInv, Beginning
<1>2. PICK o \in Operation :
        /\ o = Head(todo) /\ todo # << >>
        /\ disk' = Effect(o)
        /\ o.op = "copy" => todo' = <<Fill(o.file, o.to, disk[o.file][o.from])>> \o Tail(todo)
        /\ o.op # "copy" => todo' = << >> \o Tail(todo)
        /\ floor' = IF pc = "running" /\ o.op = "write" /\ o.content.tok > floor THEN o.content.tok ELSE floor
        /\ legacy' = legacy /\ pc' = pc /\ old' = old /\ at' = at /\ fetched' = fetched /\ found' = found /\ from' = from
        /\ leftOut' = leftOut /\ cut' = cut /\ corruptions' = corruptions /\ faults' = faults
  BY PerformIs
<1>3. disk[f][0] = Torn /\ disk \in Disks /\ 0 \in 0..Backups
  BY <1>1, Statics DEF Restoring, PlainTypes, Disks
<1>4. CASE todo = <<Fill(f, 0, Content(t))>>
  <2>1. o = Fill(f, 0, Content(t)) /\ Tail(todo) = << >> /\ 1 \in DOMAIN todo /\ todo[1] = Fill(f, 0, Content(t))
    BY <1>2, <1>4
  <2>2. o.op = "fill" /\ o.file = f /\ o.to = 0 /\ o.content = Content(t)
    BY <2>1 DEF Fill
  <2>3. disk' = [disk EXCEPT ![f][0] = Content(t)]
    BY <1>2, <2>2 DEF Effect
  <2>4. todo' = << >> /\ floor' = floor
    BY <1>2, <2>1, <2>2
  <2>5. Content(t) \in Contents
    BY Kinds
  <2> QED BY <1>3, <2>1, <2>3, <2>4, <2>5 DEF Disks
<1>5. CASE \E k \in 1..Backups : disk[f][k] = Content(t) /\ todo = <<Copy(f, k, 0)>>
  <2>1. PICK k \in 1..Backups : disk[f][k] = Content(t) /\ todo = <<Copy(f, k, 0)>>
    BY <1>5
  <2>2. o = Copy(f, k, 0) /\ Tail(todo) = << >>
    BY <1>2, <2>1
  <2>3. o.op = "copy" /\ o.file = f /\ o.to = 0 /\ o.from = k
    BY <2>2 DEF Copy
  <2>4. disk' = [disk EXCEPT ![f][0] = Torn]
    BY <1>2, <2>3 DEF Effect
  <2>5. todo' = <<Fill(f, 0, Content(t))>> /\ floor' = floor
    <3>1. disk[o.file][o.from] = Content(t)
      BY <2>1, <2>3
    <3>2. PICK w : w = Fill(f, 0, Content(t))
      OBVIOUS
    <3>3. todo' = <<w>> \o << >>
      BY <1>2, <2>2, <2>3, <3>1, <3>2
    <3>4. <<w>> \o << >> = <<w>>
      OBVIOUS
    <3> QED BY <1>2, <2>3, <3>2, <3>3, <3>4
  <2>6. Torn \in Contents
    BY Kinds
  <2> QED BY <1>3, <2>1, <2>4, <2>5, <2>6 DEF Disks
<1> QED BY <1>4, <1>5 DEF Restoring

LEMMA RestoreKeeps ==
  ASSUME NEW L, NEW start, NEW h, NEW current, Beginning(L, start, h, current), StoreInv(L, start, h, current), Perform,
         NEW f \in Files, NEW t \in Tokens, Restoring(f, t),
         \/ pc = "running" /\ f = Current
         \/ pc = "loading" /\ f \in Active /\ f[1] = at /\ fetched = t
  PROVE  StoreInv(L, start, h, current)'
<1>1. /\ PlainTypes(L) /\ TodoInv(L) /\ FilesInv(L) /\ DeleteInv(L) /\ LoadInv(L) /\ FineInv(h) /\ L \in Layouts
  BY DEF StoreInv, Beginning
<1>2. PICK o \in Operation :
        /\ o = Head(todo) /\ todo # << >>
        /\ disk' = Effect(o)
        /\ o.op = "copy" => todo' = <<Fill(o.file, o.to, disk[o.file][o.from])>> \o Tail(todo)
        /\ o.op # "copy" => todo' = << >> \o Tail(todo)
        /\ floor' = IF pc = "running" /\ o.op = "write" /\ o.content.tok > floor THEN o.content.tok ELSE floor
        /\ legacy' = legacy /\ pc' = pc /\ old' = old /\ at' = at /\ fetched' = fetched /\ found' = found /\ from' = from
        /\ leftOut' = leftOut /\ cut' = cut /\ corruptions' = corruptions /\ faults' = faults
  BY PerformIs
<1>3. disk[f][0] = Torn /\ disk \in Disks /\ 0 \in 0..Backups
  BY <1>1, Statics DEF Restoring, PlainTypes, Disks
<1>4. /\ disk' \in Disks /\ floor' = floor
      /\ \A g \in Files, k \in 0..Backups : (g # f \/ k # 0) => disk'[g][k] = disk[g][k]
      /\ \/ todo' = << >> /\ disk'[f][0] = Content(t) /\ \E i \in DOMAIN todo : todo[i] = Fill(f, 0, Content(t))
         \/ /\ todo' = <<Fill(f, 0, Content(t))>> /\ disk'[f][0] = Torn
            /\ \E k \in 1..Backups : disk[f][k] = Content(t)
  BY RestoreIs
<1>5. Torn # Missing /\ Content(t) # Missing /\ Content(t) # Outdated /\ Torn # Outdated /\ Content(t).tok = t /\ Torn.is # "token"
  BY Kinds, KindsDiffer
<1>6. Present' = Present /\ Active' = Active /\ Total' = Total /\ (InTransition' <=> InTransition)
  <2>1. \A g \in Files : disk'[g][0] = Missing <=> disk[g][0] = Missing
    BY <1>3, <1>4, <1>5
  <2> QED BY <2>1, SamePresence
<1>7. PlainTypes(L)'
  BY <1>1, <1>2, <1>4 DEF PlainTypes, Disks
<1>8. TodoInv(L)'
  <2>1. CASE todo' = << >>
    <3>1. << >> \in Seq(SaveOp)
      BY EmptySeq
    <3> QED BY <1>1, <1>2, <2>1, <3>1 DEF TodoInv, Saving
  <2>2. CASE todo' = <<Fill(f, 0, Content(t))>> /\ disk'[f][0] = Torn
    <3>1. \A i \in DOMAIN todo' : todo'[i].op # "write"
      BY <2>2 DEF Fill
    <3>2. CASE pc = "running" /\ f = Current
      BY <1>1, <1>2, <2>2, <3>1, <3>2 DEF TodoInv, Restoring
    <3>3. CASE pc = "loading" /\ f \in Active /\ f[1] = at /\ fetched = t
      <4>1. f \in Active' /\ f[1] = at' /\ fetched' # NoToken /\ disk'[f][0] = Torn /\ todo' = <<Fill(f, 0, Content(fetched'))>>
        BY <1>2, <1>6, <2>2, <3>3, Statics
      <4> QED BY <1>2, <3>3, <4>1 DEF TodoInv, Restoring
    <3> QED BY <3>2, <3>3
  <2> QED BY <1>4, <2>1, <2>2
<1>9. FilesInv(L)' /\ DeleteInv(L)'
  BY <1>1, <1>2, <1>6 DEF FilesInv, DeleteInv
<1>10. LoadInv(L)'
  <2>1. pc = "loading" => f \in Active /\ f[1] = at /\ fetched = t
    OBVIOUS
  <2>2. disk'[f][0] \notin {Missing, Outdated} /\ (todo' = << >> /\ disk'[f][0].is = "token" => disk'[f][0].tok = t)
    BY <1>4, <1>5
  <2> QED BY <1>1, <1>2, <1>6, <2>1, <2>2 DEF LoadInv
<1>11. FineInv(h)'
  <2>1. SUFFICES ASSUME ~leftOut PROVE FineInv(h)'
    BY <1>2 DEF FineInv
  <2>2. ASSUME f \in {Current, h} PROVE FineContent(Content(t))
    <3>1. CASE \E i \in DOMAIN todo : todo[i] = Fill(f, 0, Content(t))
      <4>1. Fill(f, 0, Content(t)).op = "fill" /\ Fill(f, 0, Content(t)).file = f /\ Fill(f, 0, Content(t)).content = Content(t)
        BY DEF Fill
      <4> QED BY <1>1, <2>1, <2>2, <3>1, <4>1 DEF FineInv
    <3>2. CASE \E k \in 1..Backups : disk[f][k] = Content(t)
      <4>1. PICK k \in 0..Backups : disk[f][k] = Content(t)
        BY <3>2, Statics
      <4> QED BY <1>1, <2>1, <2>2, <4>1 DEF FineInv
    <3> QED BY <1>4, <3>1, <3>2
  <2>3. Current \in Files /\ h \in Files
    BY <1>1, Statics DEF Beginning
  <2>4. ASSUME NEW g \in {Current, h}, NEW k \in 0..Backups PROVE FineContent(disk'[g][k])
    <3>1. CASE g # f \/ k # 0
      BY <1>1, <1>4, <2>1, <2>3, <3>1 DEF FineInv
    <3>2. CASE g = f /\ k = 0
      <4>1. FineContent(Torn)
        BY <1>5 DEF FineContent
      <4> QED BY <1>4, <2>2, <3>2, <4>1
    <3> QED BY <3>1, <3>2
  <2>5. ASSUME NEW i \in DOMAIN todo', todo'[i].op = "fill", todo'[i].file \in {Current, h}
        PROVE  FineContent(todo'[i].content)
    <3>1. todo'[i] = Fill(f, 0, Content(t))
      BY <1>4, <2>5
    <3>2. todo'[i].file = f /\ todo'[i].content = Content(t)
      BY <3>1 DEF Fill
    <3> QED BY <2>2, <2>5, <3>2
  <2>6. pc # "saving"
    OBVIOUS
  <2> QED BY <1>1, <1>2, <1>4, <1>6, <2>1, <2>4, <2>5, <2>6 DEF FineInv, FineContent, Fine
<1>12. current
  BY Statics DEF StoreInv, OutdatedInv, Beginning
<1>13. corruptions # 0
  BY <1>3, <1>12, Kinds, KindsDiffer DEF StoreInv, IntactInv
<1> QED BY <1>2, <1>7, <1>8, <1>9, <1>10, <1>11, <1>12, <1>13 DEF StoreInv

(* A file of the old layout loses a version.                               *)
LEMMA DeleteKeeps ==
  ASSUME NEW L, NEW start, NEW h, NEW current, Beginning(L, start, h, current), StoreInv(L, start, h, current), Perform,
         pc = "deleting", todo \in Seq(DeleteOp(L))
  PROVE  StoreInv(L, start, h, current)'
<1>1. /\ PlainTypes(L) /\ TodoInv(L) /\ FilesInv(L) /\ DeleteInv(L) /\ LoadInv(L) /\ FineInv(h) /\ L \in Layouts
  BY DEF StoreInv, Beginning
<1>2. PICK o \in Operation :
        /\ o = Head(todo) /\ todo # << >>
        /\ disk' = Effect(o)
        /\ o.op = "copy" => todo' = <<Fill(o.file, o.to, disk[o.file][o.from])>> \o Tail(todo)
        /\ o.op # "copy" => todo' = << >> \o Tail(todo)
        /\ floor' = IF pc = "running" /\ o.op = "write" /\ o.content.tok > floor THEN o.content.tok ELSE floor
        /\ legacy' = legacy /\ pc' = pc /\ old' = old /\ at' = at /\ fetched' = fetched /\ found' = found /\ from' = from
        /\ leftOut' = leftOut /\ cut' = cut /\ corruptions' = corruptions /\ faults' = faults
  BY PerformIs
<1>3. /\ Tail(todo) \in Seq(DeleteOp(L)) /\ o \in DeleteOp(L)
      /\ \A i \in DOMAIN Tail(todo) : i + 1 \in DOMAIN todo /\ Tail(todo)[i] = todo[i + 1]
  BY <1>2, TailIs
<1>4. PICK g \in L \ {Current}, k \in 0..Backups : o = Unlink(g, k)
  BY <1>3 DEF DeleteOp
<1>5. o.op = "remove" /\ o.file = g /\ o.from = k
  BY <1>4 DEF Unlink
<1>6. todo' = Tail(todo) /\ floor' = floor /\ disk' = [disk EXCEPT ![g][k] = Missing]
  <2>1. << >> \o Tail(todo) = Tail(todo)
    BY <1>3
  <2> QED BY <1>2, <1>5, <2>1 DEF Effect
<1>7. L \subseteq Files /\ 0 \in 0..Backups /\ Missing \in Contents /\ disk \in Disks /\ Current \in Files /\ h \in Files
  BY <1>1, Kinds, Statics DEF PlainTypes, Disks, Beginning
<1>8. /\ disk' \in Disks /\ disk'[g][k] = Missing
      /\ \A f \in Files, j \in 0..Backups : (f # g \/ j # k) => disk'[f][j] = disk[f][j]
  BY <1>4, <1>6, <1>7 DEF Disks
<1>9. Present' = {f \in Present : f # g \/ k # 0}
  <2>1. \A f \in Files : disk'[f][0] # Missing <=> (disk[f][0] # Missing /\ (f # g \/ k # 0))
    BY <1>4, <1>7, <1>8
  <2> QED BY <2>1 DEF Present, ScanPartitionCheckpoints
<1>10. \A f \in Present' : f \in Present /\ disk'[f][0] = disk[f][0]
  <2>1. \A f \in Present : f \in Files
    BY DEF Present, ScanPartitionCheckpoints
  <2> QED BY <1>7, <1>8, <1>9, <2>1
<1>11. Current \in Present /\ Current \in Present' /\ disk'[Current][0] = disk[Current][0]
  <2>1. Current \in Present
    BY <1>1 DEF FilesInv
  <2> QED BY <1>4, <1>9, <1>10, <2>1
<1>12. current
  BY DEF StoreInv, OutdatedInv, Beginning
<1>13. PlainTypes(L)'
  BY <1>1, <1>2, <1>6, <1>8 DEF PlainTypes, Disks
<1>14. TodoInv(L)'
  BY <1>2, <1>3, <1>6 DEF TodoInv
<1>15. FilesInv(L)' /\ LoadInv(L)'
  BY <1>1, <1>2, <1>10, <1>11 DEF FilesInv, LoadInv
<1>16. DeleteInv(L)'
  <2>1. ASSUME NEW f \in Present', AboutToGo(f) PROVE f \in old
    <3>1. Head(todo) = Unlink(f, 0) => f = g /\ k = 0
      BY <1>2, <1>5 DEF Unlink
    <3> QED BY <1>9, <2>1, <3>1 DEF AboutToGo
  <2>2. \A f \in old : AboutToGo(f)'
    BY <1>2 DEF AboutToGo
  <2>3. \A f \in L \cap Present' : AboutToGo(f) => AboutToGo(f)'
    BY <2>1, <2>2
  <2> QED BY <1>1, <1>2, <1>10, <2>3 DEF DeleteInv
<1>17. \A i \in DOMAIN todo' : todo'[i].op = "remove"
  <2>1. ASSUME NEW i \in DOMAIN todo' PROVE todo'[i] \in DeleteOp(L)
    BY <1>3, <1>6, LenProperties, ElementOfSeq
  <2> QED BY <1>1, <2>1, DeleteOpFields
<1>18. FineInv(h)'
  <2>1. ASSUME NEW f \in {Current, h}, NEW j \in 0..Backups, FineContent(disk[f][j]) PROVE FineContent(disk'[f][j])
    <3>1. disk'[f][j] = disk[f][j] \/ disk'[f][j] = Missing
      BY <1>4, <1>7, <1>8
    <3> QED BY <2>1, <3>1, KindsDiffer DEF FineContent
  <2> QED BY <1>1, <1>2, <1>6, <1>17, <2>1 DEF FineInv, FineContent, Fine
<1>19. corruptions = 0 => IntactInv(L, start)'
  <2>1. ASSUME IntactInv(L, start) PROVE IntactInv(L, start)'
    <3>1. \A f \in Files : disk'[f][0] = Missing \/ disk'[f][0] = disk[f][0]
      BY <1>4, <1>7, <1>8
    <3> QED BY <1>2, <1>10, <2>1, <3>1 DEF IntactInv
  <2> QED BY <1>12, <2>1 DEF StoreInv
<1>20. corruptions = 0 /\ faults <= 1 => ProgressInv(L, start, h)'
  <2>1. ASSUME ProgressInv(L, start, h) PROVE ProgressInv(L, start, h)'
    BY <1>2, <1>6, <1>10, <1>11, <2>1 DEF ProgressInv
  <2> QED BY <1>12, <2>1 DEF StoreInv
<1> QED BY <1>2, <1>12, <1>13, <1>14, <1>15, <1>16, <1>18, <1>19, <1>20 DEF StoreInv

(* An operation of a save: only the write touches the main file.           *)
LEMMA SaveKeeps ==
  ASSUME NEW L, NEW start, NEW h, NEW current, Beginning(L, start, h, current), StoreInv(L, start, h, current), Perform,
         pc \in {"saving", "running"}, todo \in Seq(SaveOp)
  PROVE  StoreInv(L, start, h, current)'
<1>1. /\ PlainTypes(L) /\ TodoInv(L) /\ FilesInv(L) /\ DeleteInv(L) /\ LoadInv(L) /\ FineInv(h) /\ L \in Layouts
  BY DEF StoreInv, Beginning
<1>2. PICK o \in Operation :
        /\ o = Head(todo) /\ todo # << >>
        /\ disk' = Effect(o)
        /\ o.op = "copy" => todo' = <<Fill(o.file, o.to, disk[o.file][o.from])>> \o Tail(todo)
        /\ o.op # "copy" => todo' = << >> \o Tail(todo)
        /\ floor' = IF pc = "running" /\ o.op = "write" /\ o.content.tok > floor THEN o.content.tok ELSE floor
        /\ legacy' = legacy /\ pc' = pc /\ old' = old /\ at' = at /\ fetched' = fetched /\ found' = found /\ from' = from
        /\ leftOut' = leftOut /\ cut' = cut /\ corruptions' = corruptions /\ faults' = faults
  BY PerformIs
<1>3. /\ Tail(todo) \in Seq(SaveOp) /\ o \in SaveOp /\ o = todo[1] /\ 1 \in DOMAIN todo
      /\ \A i \in DOMAIN Tail(todo) : i + 1 \in DOMAIN todo /\ Tail(todo)[i] = todo[i + 1]
      /\ Tail(todo) # << >> => Tail(todo)[Len(Tail(todo))] = todo[Len(todo)]
      /\ Tail(todo) = << >> => todo[Len(todo)] = o
  BY <1>2, TailIs
<1>4. /\ o.file = Current
      /\ o.op = "remove" => o.from # 0
      /\ o.op = "rename" => o.from # 0 /\ o.to # 0
      /\ o.op = "copy" => o.from = 0 /\ o.to = 1
      /\ o.op = "fill" => o.to = 1
      /\ o.op = "write" => o.to = 0 /\ \E t \in Tokens : o.content = Content(t)
  BY <1>3, SaveOpFields
<1>5. o.op \in {"remove", "rename", "copy", "fill", "write"} /\ disk \in Disks /\ 0 \in 0..Backups /\ Current \in Files
  BY <1>1, Statics DEF Operation, PlainTypes, Disks
(* The disk. *)
<1>6. /\ disk' \in Disks
      /\ \A f \in Files \ {Current} : disk'[f] = disk[f]
      /\ \A k \in 0..Backups : \/ disk'[Current][k] \in {Missing, Torn}
                               \/ o.op \in {"fill", "write"} /\ disk'[Current][k] = o.content
                               \/ \E j \in 0..Backups : disk'[Current][k] = disk[Current][j]
      /\ disk'[Current][0] = IF o.op = "write" THEN o.content ELSE disk[Current][0]
  <2>1. PICK after : after = disk'
    OBVIOUS
  <2>2. /\ after \in Disks
        /\ \A f \in Files \ {o.file} : after[f] = disk[f]
        /\ \A k \in 0..Backups : \/ after[o.file][k] \in {Missing, Torn}
                                 \/ o.op \in {"fill", "write"} /\ after[o.file][k] = o.content
                                 \/ \E j \in 0..Backups : after[o.file][k] = disk[o.file][j]
        /\ o.op = "remove" => after[o.file][0] = IF o.from = 0 THEN Missing ELSE disk[o.file][0]
        /\ o.op = "rename" /\ o.from # 0 /\ o.to # 0 => after[o.file][0] = disk[o.file][0]
        /\ o.op = "copy" => after[o.file][0] = IF o.to = 0 THEN Torn ELSE disk[o.file][0]
        /\ o.op \in {"fill", "write"} => after[o.file][0] = IF o.to = 0 THEN o.content ELSE disk[o.file][0]
    BY <1>2, <1>5, <2>1, Effects
  <2>3. after[Current][0] = IF o.op = "write" THEN o.content ELSE disk[Current][0]
    BY <1>4, <1>5, <2>2
  <2> QED BY <1>4, <2>1, <2>2, <2>3
(* What is ahead. *)
<1>7. PICK c \in Contents : c = disk[Current][0]
  BY <1>5 DEF Disks
<1>8. /\ todo' \in Seq(SaveOp)
      /\ \A i \in DOMAIN todo' : todo'[i] = Fill(Current, 1, c) \/ \E j \in DOMAIN todo : todo'[i] = todo[j]
      /\ todo' # << >> /\ todo[Len(todo)].op = "write" => todo'[Len(todo')].op = "write"
      /\ todo' = << >> /\ todo[Len(todo)].op = "write" => o.op = "write"
  <2>1. PICK rest \in Seq(SaveOp) : rest = Tail(todo)
    BY <1>3
  <2>2. CASE o.op = "copy"
    <3>1. PICK w : w = Fill(Current, 1, c)
      OBVIOUS
    <3>2. todo' = <<w>> \o rest
      BY <1>2, <1>4, <1>7, <2>1, <2>2, <3>1
    <3>3. w \in SaveOp
      BY <3>1 DEF SaveOp
    <3>4. /\ <<w>> \o rest \in Seq(SaveOp) /\ Len(<<w>> \o rest) = Len(rest) + 1 /\ Len(rest) \in Nat
          /\ (<<w>> \o rest)[1] = w /\ \A i \in 1..Len(rest) : (<<w>> \o rest)[i + 1] = rest[i]
      BY <3>3
    <3>5. DOMAIN todo' = 1..(Len(rest) + 1) /\ Len(todo') = Len(rest) + 1 /\ todo' # << >>
      BY <3>2, <3>4
    <3>6. DOMAIN rest = 1..Len(rest)
      OBVIOUS
    <3>7. ASSUME NEW i \in DOMAIN todo' PROVE todo'[i] = w \/ \E j \in DOMAIN todo : todo'[i] = todo[j]
      <4>1. i = 1 \/ (i - 1 \in 1..Len(rest) /\ (i - 1) + 1 = i)
        BY <3>4, <3>5
      <4>2. CASE i - 1 \in 1..Len(rest) /\ (i - 1) + 1 = i
        <5>1. todo'[i] = rest[i - 1]
          BY <3>2, <3>4, <4>2
        <5> QED BY <1>3, <2>1, <3>6, <4>2, <5>1
      <4> QED BY <3>2, <3>4, <4>1, <4>2
    <3>8. ASSUME todo[Len(todo)].op = "write" PROVE todo'[Len(todo')].op = "write"
      <4>1. rest # << >> /\ rest[Len(rest)].op = "write"
        BY <1>3, <2>1, <2>2, <3>8
      <4>2. Len(rest) \in 1..Len(rest)
        BY <4>1
      <4> QED BY <3>2, <3>4, <3>5, <4>1, <4>2
    <3> QED BY <3>1, <3>2, <3>4, <3>5, <3>7, <3>8
  <2>3. CASE o.op # "copy"
    <3>1. << >> \o rest = rest
      OBVIOUS
    <3> QED BY <1>2, <1>3, <2>1, <2>3, <3>1
  <2> QED BY <2>2, <2>3
<1>9. Fill(Current, 1, c).op = "fill" /\ Fill(Current, 1, c).content = c
  BY DEF Fill
<1>10. \A i \in DOMAIN todo' : todo'[i].op = "write" => \E j \in DOMAIN todo : todo'[i] = todo[j]
  BY <1>8, <1>9
(* Which files there are. *)
<1>11. /\ \A f \in Files \ {Current} : f \in Present' <=> f \in Present
       /\ Current \in Present' <=> (o.op = "write" \/ Current \in Present)
       /\ Present \subseteq Files /\ Present' \subseteq Files
  <2>1. o.op = "write" => disk'[Current][0] # Missing
    BY <1>4, <1>6, Kinds, KindsDiffer
  <2> QED BY <1>5, <1>6, <2>1 DEF Present, ScanPartitionCheckpoints
<1>12. L \subseteq Files /\ (pc = "saving" => Current \notin L) /\ (pc = "running" => Current \in Present)
  BY <1>1, Statics DEF FilesInv
<1>13. (L \cap Present' = L \cap Present) /\ (L \subseteq Present' <=> L \subseteq Present)
  BY <1>11, <1>12
(* What all partitions have dealt with. *)
<1>14. /\ floor \in Tokens /\ floor' \in Tokens /\ floor <= floor'
       /\ pc = "saving" => floor' = floor
       /\ pc = "running" /\ o.op = "write" => o.content.tok <= floor' /\ floor' \in {floor, o.content.tok}
       /\ o.op # "write" => floor' = floor
  <2>1. floor \in Tokens /\ floor \in Nat
    BY <1>1, Statics DEF PlainTypes
  <2>2. o.op = "write" => o.content.tok \in Tokens /\ o.content.tok \in Nat
    BY <1>4, Kinds, Statics
  <2> QED BY <1>2, <2>1, <2>2
<1>15. Second(floor) \in Nat /\ Second(floor') \in Nat /\ Second(floor) <= Second(floor')
  BY <1>14, SecondIsMonotonic
<1>16. current
  BY DEF StoreInv, OutdatedInv, Beginning
<1>17. PlainTypes(L)'
  BY <1>1, <1>2, <1>6, <1>14 DEF PlainTypes, Disks
<1>18. TodoInv(L)'
  BY <1>1, <1>2, <1>8, <1>10 DEF TodoInv, Saving
<1>19. FilesInv(L)'
  <2>1. pc = "saving" /\ todo' = << >> => o.op = "write"
    BY <1>1, <1>2, <1>8 DEF TodoInv
  <2>2. Present' \subseteq L \cup {Current} /\ (Current \notin Present' => L \subseteq Present')
    BY <1>1, <1>11, <1>13 DEF FilesInv
  <2> QED BY <1>1, <1>2, <1>11, <1>12, <1>13, <2>1, <2>2 DEF FilesInv
<1>20. DeleteInv(L)' /\ LoadInv(L)'
  BY <1>1, <1>2, <1>13 DEF DeleteInv, LoadInv
<1>21. \A i \in DOMAIN todo : todo[i].op = "write" /\ pc = "running" => todo[i].content.tok = from
  BY <1>1 DEF TodoInv
<1>22. FineInv(h)'
  <2>1. SUFFICES ASSUME ~leftOut PROVE FineInv(h)'
    BY <1>2 DEF FineInv
  <2> DEFINE Good(d) == d.is = "token" => Second(d.tok) <= Second(floor')
  <2>2. ASSUME NEW d \in Contents, FineContent(d) PROVE Good(d)
    <3>1. CASE d.is = "token"
      <4>1. d.tok \in Tokens /\ Second(d.tok) <= Second(floor)
        BY <2>2, <3>1, Kinds, KindsDiffer DEF FineContent, Fine
      <4>2. Second(d.tok) \in Nat
        BY <4>1, SecondIsMonotonic, Statics
      <4> QED BY <1>15, <4>1, <4>2
    <3> QED BY <3>1
  <2>3. h \in Files /\ (h # Current => disk'[h] = disk[h])
    BY <1>1, <1>6, Statics DEF Beginning
  <2>4. o.op \in {"fill", "write"} => Good(o.content)
    <3>1. CASE o.op = "fill"
      <4>1. FineContent(o.content)
        BY <1>1, <1>3, <1>4, <2>1, <3>1 DEF FineInv
      <4>2. o.content \in Contents
        BY DEF Operation
      <4> QED BY <2>2, <4>1, <4>2
    <3>2. CASE o.op = "write" /\ pc = "saving"
      <4>1. FineContent(o.content)
        BY <1>1, <1>3, <2>1, <3>2 DEF FineInv
      <4>2. o.content \in Contents
        BY DEF Operation
      <4> QED BY <2>2, <4>1, <4>2
    <3>3. CASE o.op = "write" /\ pc = "running"
      <4>1. o.content.tok \in Tokens /\ o.content.tok <= floor'
        BY <1>4, <1>14, <3>3, Kinds
      <4>2. Second(o.content.tok) <= Second(floor')
        BY <1>14, <4>1, SecondIsMonotonic
      <4> QED BY <4>2
    <3> QED BY <3>1, <3>2, <3>3
  <2>5. ASSUME NEW g \in {Current, h}, NEW k \in 0..Backups PROVE Good(disk'[g][k])
    <3>1. CASE g # Current
      <4>1. disk[g][k] \in Contents /\ disk'[g][k] = disk[g][k] /\ FineContent(disk[g][k])
        BY <1>1, <1>5, <2>1, <2>3, <3>1 DEF FineInv, Disks
      <4> QED BY <2>2, <4>1
    <3>2. CASE g = Current /\ disk'[Current][k] \in {Missing, Torn}
      BY <3>2, KindsDiffer
    <3>3. CASE g = Current /\ o.op \in {"fill", "write"} /\ disk'[Current][k] = o.content
      BY <2>4, <3>3
    <3>4. CASE g = Current /\ \E j \in 0..Backups : disk'[Current][k] = disk[Current][j]
      <4>1. PICK j \in 0..Backups : disk'[Current][k] = disk[Current][j]
        BY <3>4
      <4>2. disk[Current][j] \in Contents /\ FineContent(disk[Current][j])
        BY <1>1, <1>5, <2>1 DEF FineInv, Disks
      <4> QED BY <2>2, <3>4, <4>1, <4>2
    <3> QED BY <1>6, <3>1, <3>2, <3>3, <3>4
  <2> HIDE DEF Good
  <2>6. ASSUME NEW i \in DOMAIN todo', todo'[i].op = "fill" PROVE Good(todo'[i].content)
    <3>1. CASE todo'[i] = Fill(Current, 1, c)
      <4>1. FineContent(c)
        BY <1>1, <1>5, <1>7, <2>1 DEF FineInv
      <4> QED BY <1>9, <2>2, <3>1, <4>1
    <3>2. CASE \E j \in DOMAIN todo : todo'[i] = todo[j]
      <4>1. PICK j \in DOMAIN todo : todo'[i] = todo[j]
        BY <3>2
      <4>2. todo[j] \in SaveOp
        <5>1. \A l \in DOMAIN todo : todo[l] \in SaveOp
          BY LenProperties, ElementOfSeq
        <5> QED BY <5>1
      <4>3. todo[j].content \in Contents /\ todo[j].file = Current
        BY <4>2, SaveOpFields DEF Operation
      <4>4. FineContent(todo[j].content)
        BY <1>1, <2>1, <2>6, <4>1, <4>3 DEF FineInv
      <4> QED BY <2>2, <4>1, <4>3, <4>4
    <3> QED BY <1>8, <3>1, <3>2
  <2>7. ASSUME NEW i \in DOMAIN todo', todo'[i].op = "write", pc = "saving" PROVE Good(todo'[i].content)
    <3>1. PICK j \in DOMAIN todo : todo'[i] = todo[j]
      BY <1>10, <2>7
    <3>2. todo[j].content \in Contents
      <4>1. \A l \in DOMAIN todo : todo[l] \in SaveOp
        BY LenProperties, ElementOfSeq
      <4> QED BY <4>1, SaveOpFields DEF Operation
    <3>3. FineContent(todo[j].content)
      BY <1>1, <2>1, <2>7, <3>1 DEF FineInv
    <3> QED BY <2>2, <3>1, <3>2, <3>3
  <2>8. /\ \A k \in 0..Backups : Good(disk'[Current][k]) /\ Good(disk'[h][k])
        /\ \A i \in DOMAIN todo' : todo'[i].op = "fill" => Good(todo'[i].content)
        /\ pc' = "saving" => \A i \in DOMAIN todo' : todo'[i].op = "write" => Good(todo'[i].content)
    BY <1>2, <2>5, <2>6, <2>7
  <2>9. pc' # "loading"
    BY <1>2
  <2> QED BY <2>8, <2>9 DEF FineInv, FineContent, Fine, Good
<1>23. corruptions = 0 => IntactInv(L, start)'
  <2>1. ASSUME IntactInv(L, start) PROVE IntactInv(L, start)'
    <3>1. \A f \in Files : disk'[f][0] \in {Missing} \cup {Content(t) : t \in Tokens}
      BY <1>4, <1>6, <2>1 DEF IntactInv
    <3>2. \A f \in (L \cap Present') \ {Current} : disk'[f][0] = Content(start[f])
      BY <1>6, <1>12, <1>13, <2>1 DEF IntactInv
    <3> QED BY <1>2, <2>1, <3>1, <3>2 DEF IntactInv
  <2> QED BY <1>16, <2>1 DEF StoreInv
<1>24. corruptions = 0 /\ faults <= 1 => ProgressInv(L, start, h)'
  <2>1. SUFFICES ASSUME ProgressInv(L, start, h) PROVE ProgressInv(L, start, h)'
    BY <1>16 DEF StoreInv
  <2>2. CASE pc = "saving"
    <3>1. floor' = floor /\ pc' = "saving"
      BY <1>2, <1>14, <2>2
    <3>2. \/ disk'[Current][0].is = "token" /\ Second(disk'[Current][0].tok) = Second(floor)
          \/ Current \notin Present' /\ floor = Least(L, start, h)
      <4>1. CASE o.op = "write"
        <5>1. Second(o.content.tok) = Second(floor)
          BY <1>3, <2>1, <2>2, <4>1 DEF ProgressInv
        <5> QED BY <1>4, <1>6, <4>1, <5>1, Kinds
      <4>2. CASE o.op # "write"
        BY <1>6, <1>11, <2>1, <4>2 DEF ProgressInv
      <4> QED BY <4>1, <4>2
    <3>3. \A i \in DOMAIN todo' : todo'[i].op = "write" => Second(todo'[i].content.tok) = Second(floor)
      BY <1>10, <2>1, <2>2 DEF ProgressInv
    <3> QED BY <1>13, <2>1, <3>1, <3>2, <3>3 DEF ProgressInv
  <2>3. CASE pc = "running"
    <3>1. pc' = "running" /\ Second(from) >= Second(floor) /\ from \in Tokens /\ Second(from) \in Nat
      <4>1. from \in Tokens
        BY <1>1, <2>3 DEF TodoInv, PlainTypes
      <4> QED BY <1>2, <2>1, <2>3, <4>1, SecondIsMonotonic, Statics DEF ProgressInv
    <3>2. o.op = "write" => o.content.tok = from
      BY <1>3, <1>21, <2>3
    <3>3. Second(from) >= Second(floor')
      BY <1>14, <2>3, <3>1, <3>2
    <3>4. disk'[Current][0].is = "token" /\ Second(disk'[Current][0].tok) = Second(floor')
      <4>1. CASE o.op = "write"
        <5>1. from <= floor'
          BY <1>14, <2>3, <3>2, <4>1
        <5>2. Second(from) <= Second(floor')
          BY <1>14, <3>1, <5>1, SecondIsMonotonic
        <5>3. Second(from) = Second(floor')
          BY <1>15, <3>1, <3>3, <5>2
        <5> QED BY <1>4, <1>6, <3>2, <4>1, <5>3, Kinds
      <4>2. CASE o.op # "write"
        BY <1>6, <1>12, <1>14, <2>1, <2>3, <4>2 DEF ProgressInv
      <4> QED BY <4>1, <4>2
    <3>5. Current \notin L /\ Numbered(L) /\ L # {} => ~(L \subseteq Present)
      BY <2>1, <2>3 DEF ProgressInv
    <3> QED BY <1>2, <1>13, <3>1, <3>3, <3>4, <3>5 DEF ProgressInv
  <2> QED BY <2>2, <2>3
<1> QED BY <1>2, <1>16, <1>17, <1>18, <1>19, <1>20, <1>22, <1>23, <1>24 DEF StoreInv

LEMMA PerformKeeps ==
  ASSUME NEW L, NEW start, NEW h, NEW current, Beginning(L, start, h, current), StoreInv(L, start, h, current), Perform
  PROVE  StoreInv(L, start, h, current)'
<1>1. L \in Layouts /\ PlainTypes(L) /\ TodoInv(L) /\ todo # << >>
  BY DEF Beginning, StoreInv, Perform
<1>2. CASE pc \in {"saving", "running"} /\ todo \in Seq(SaveOp)
  BY <1>2, SaveKeeps
<1>3. CASE pc = "deleting" /\ todo \in Seq(DeleteOp(L))
  BY <1>3, DeleteKeeps
<1>4. CASE \E f \in Files, t \in Tokens :
             /\ Restoring(f, t)
             /\ \/ pc = "running" /\ f = Current
                \/ pc = "loading" /\ f \in Active /\ f[1] = at /\ fetched = t
  BY <1>4, RestoreKeeps
<1> QED BY <1>1, <1>2, <1>3, <1>4, HeadTells

-----------------------------------------------------------------------------
(* The invariant.                                                          *)

LEMMA StutterKeeps ==
  ASSUME NEW L, NEW start, NEW h, NEW current, StoreInv(L, start, h, current), UNCHANGED vars
  PROVE  StoreInv(L, start, h, current)'
<1>1. /\ disk' = disk /\ legacy' = legacy /\ pc' = pc /\ todo' = todo /\ old' = old /\ at' = at /\ fetched' = fetched
      /\ found' = found /\ from' = from /\ floor' = floor /\ leftOut' = leftOut /\ cut' = cut
      /\ corruptions' = corruptions /\ faults' = faults
  BY DEF vars, memory, history, bounds
<1>2. Present' = Present /\ Active' = Active /\ Total' = Total /\ (InTransition' <=> InTransition)
  BY <1>1, SameDisk
<1>3. (PlainTypes(L) => PlainTypes(L)') /\ (FilesInv(L) => FilesInv(L)')
  BY <1>1, <1>2 DEF PlainTypes, FilesInv
<1>4. (TodoInv(L) => TodoInv(L)') /\ (DeleteInv(L) => DeleteInv(L)')
  BY <1>1, <1>2 DEF TodoInv, Saving, Restoring, DeleteInv, AboutToGo
<1>5. (LoadInv(L) => LoadInv(L)') /\ (FineInv(h) => FineInv(h)')
  BY <1>1, <1>2 DEF LoadInv, FineInv, FineContent, Fine
<1>6. /\ OutdatedInv(L) => OutdatedInv(L)'
      /\ IntactInv(L, start) => IntactInv(L, start)'
      /\ ProgressInv(L, start, h) => ProgressInv(L, start, h)'
  BY <1>1, <1>2 DEF OutdatedInv, IntactInv, ProgressInv
<1> QED BY <1>1, <1>3, <1>4, <1>5, <1>6 DEF StoreInv

LEMMA NextKeepsInv == TokenStoreInv /\ [Next]_vars => TokenStoreInv'
<1>1. SUFFICES ASSUME NEW L \in Layouts, NEW start \in [L -> Tokens], NEW h \in Files, NEW current \in BOOLEAN,
                      Beginning(L, start, h, current), StoreInv(L, start, h, current), [Next]_vars
               PROVE  StoreInv(L, start, h, current)'
  BY DEF TokenStoreInv, Beginning
<1>2. CASE UpgradeLegacy
  BY <1>1, <1>2, UpgradeLegacyKeeps
<1>3. CASE Scan
  BY <1>1, <1>3, ScanKeeps
<1>4. CASE Refuse
  BY <1>1, <1>4, RefuseKeeps
<1>5. CASE Load
  BY <1>1, <1>5, LoadKeeps
<1>6. CASE Assess
  BY <1>1, <1>6, AssessKeeps
<1>7. CASE CleanUp
  BY <1>1, <1>7, CleanUpKeeps
<1>8. CASE CleanedUp
  BY <1>1, <1>8, CleanedUpKeeps
<1>9. CASE OpenStream
  BY <1>1, <1>9, OpenStreamKeeps
<1>10. CASE \E f \in old : DeleteNext(f)
  BY <1>1, <1>10, DeleteNextKeeps
<1>11. CASE Perform
  BY <1>1, <1>11, PerformKeeps
<1>12. CASE Fault
  BY <1>1, <1>12, FaultKeeps
<1>13. CASE Crash
  BY <1>1, <1>13, CrashKeeps
<1>14. CASE Corrupt
  BY <1>1, <1>14, CorruptKeeps
<1>15. CASE \E tok \in Tokens : SaveToken(tok)
  BY <1>1, <1>15, SaveTokenKeeps
<1>16. CASE UNCHANGED vars
  BY <1>1, <1>16, StutterKeeps
<1> QED BY <1>1, <1>2, <1>3, <1>4, <1>5, <1>6, <1>7, <1>8, <1>9, <1>10, <1>11, <1>12, <1>13, <1>14, <1>15, <1>16 DEF Next

LEMMA TokenStoreInvIsInvariant == Spec => []TokenStoreInv
BY InitImpliesInv, NextKeepsInv, PTL DEF Spec

(* Every variable keeps the values the code gives it, and an operation     *)
(* ahead names a file and versions that exist (SaveResumeToken,            *)
(* DeleteResumeToken, LoadResumeToken).                                    *)
THEOREM TokenStoreTypeCorrect == Spec => []TokenStoreTypeOK
BY TokenStoreInvIsInvariant, InvImpliesTypeOK, PTL

(* StartReplication never opens the stream ahead of what every partition   *)
(* of the old layout had dealt with, whatever was interrupted, restored    *)
(* from a backup or failed before, unless a main file that could not be    *)
(* read was left out of the minimum.                                       *)
THEOREM NeverAheadOfAPartition == Spec => []StreamStartsBehindEveryPartition
BY TokenStoreInvIsInvariant, InvImpliesBehind, PTL

(* StartReplication refuses to start only after files became unreadable or *)
(* were of another version, or a change of the layout was interrupted      *)
(* while the old files were being deleted.                                 *)
THEOREM RefusedForACause == Spec => []RefusalHasACause
BY TokenStoreInvIsInvariant, InvImpliesCause, PTL

(* Between the rotation of the backups, the write and the deletion of the  *)
(* old files there is no moment at which a crash loses the progress: with  *)
(* at most one failing operation it is in some main file.                  *)
THEOREM ProgressIsNeverLost == Spec => []ProgressStaysOnDisk
BY TokenStoreInvIsInvariant, InvImpliesProgress, PTL

-----------------------------------------------------------------------------
(* The chain of backups.  A rotation that is interrupted leaves a gap or a *)
(* second copy, and moves the older of the last two saves one version      *)
(* down; so does the change of the layout, which may rotate the files      *)
(* without reading the main one.                                           *)

(* The main file in force, and what the last two saves wrote.              *)
Main == disk[Current][0]
Known == {Content(saved.older), Content(saved.newer)}
Rotating == todo # << >> /\ todo[Len(todo)].op = "write"

(* The last version that may be the first of those that can be read.       *)
Reach == IF InTransition THEN crashes ELSE crashes + 1

(* The operation o that comes r-th from the end of a rotation: the last    *)
(* backup is removed, the others are renamed from the last on, the main    *)
(* file is copied to the first and written.                                *)
InTurn(o, r, main) ==
  IF r = 1 THEN o.op = "write"
  ELSE IF r = 2 THEN o \in {Copy(Current, 0, 1), Fill(Current, 1, main)}
  ELSE o = IF r = Backups + 2 THEN Unlink(Current, Backups) ELSE Rename(Current, r - 2)

(* A version that is one further down has been moved by this rotation.     *)
Within(k, reach, ahead) == k <= reach \/ (k = reach + 1 /\ ahead <= k)
FirstIn(d, S, k) == d[k] \in S /\ \A j \in 1..(k - 1) : d[j].is # "token"
Ahead == IF Rotating THEN Len(todo) ELSE Backups + 2
Kept(k) == FirstIn(disk[Current], Known, k) /\ Within(k, Reach, Ahead)

(* What is left of a rotation, counted from its end, tells how far it is:  *)
(* the version about to be overwritten has nothing to lose, and before the *)
(* write the first backup is a copy of the main file.                      *)
RotationInv ==
  Rotating =>
    /\ Len(todo) <= Backups + 2
    /\ \A i \in DOMAIN todo : InTurn(todo[i], Len(todo) - i + 1, Main)
    /\ Len(todo) \in 2..(Backups + 1) => disk[Current][Len(todo) - 1].is # "token"
    /\ Len(todo) = 1 /\ Main # Missing => disk[Current][1] = Main
    /\ Main # Missing => InTransition \/ pc = "running"

(* The main file holds one of the last two saves, or cannot be read.       *)
MainInv ==
  /\ IF saved.newer = NoToken THEN saved.older = NoToken /\ Main = Missing ELSE Main = Torn \/ Main.is = "token"
  /\ corruptions = 0 /\ saved.newer # NoToken => Main = Content(saved.newer)
  /\ saved.older # NoToken /\ Main # Torn => Main \in Known

(* Tokens are only saved over a main file that can be read, and a restored *)
(* backup is one of the last two saves.                                    *)
ReadableInv ==
  /\ pc = "running" /\ Saving => Main.is = "token" /\ (todo = << >> \/ Rotating)
  /\ saved.older # NoToken => \A t \in Tokens : Restoring(Current, t) => Content(t) \in Known

(* Only a change of the layout that was interrupted can be met again.      *)
TransitionInv ==
  /\ pc \in {"opening", "running"} => ~InTransition
  /\ saved.newer # NoToken /\ InTransition /\ crashes = 0 => pc \in {"saving", "deleting"} /\ ~Rotating

(* The first backup that can be read is one of the last two saves, and it  *)
(* is no further down than the interrupted rotations have moved it.        *)
KeptInv ==
  saved.older # NoToken /\ (corruptions = 0 \/ Main = Torn) /\ Reach <= Backups /\ (Rotating => Reach < Backups)
    => \E k \in 1..Backups : Kept(k)

SaveTypes ==
  /\ saved \in [older : Tokens \cup {NoToken}, newer : Tokens \cup {NoToken}]
  /\ crashes \in Nat

(* What the property supposes of the environment.                          *)
Mild == faults = 0 /\ corruptions <= 1 /\ crashes < Backups
ChainParts == RotationInv /\ MainInv /\ ReadableInv /\ TransitionInv /\ KeptInv
ChainInv == crashes \in Nat /\ (Mild => SaveTypes /\ ChainParts)

-----------------------------------------------------------------------------
(* When a layout is being changed.                                         *)

Changing(P) == ActiveFiles(P) # {} /\ ActiveFiles(P) # {Current}

LEMMA ChangingIs ==
  ASSUME NEW L \in Layouts, NEW P \in SUBSET (L \cup {Current}), Current \notin P => L \subseteq P
  PROVE  Changing(P) <=> Current \notin L /\ L \cap P # {} /\ (Numbered(L) \/ Current \notin P)
<1>1. PICK n, total : Shape(L, n, total)
  BY LayoutShape
<1>2. Indexed(L, n) /\ (\A f \in L : f[2] = total) /\ (L = {} <=> n = 0)
  BY <1>1, ShapeIsIndexed
<1>3. n \in Nat /\ total \in {n, Contiguous} /\ L = {<<i, total>> : i \in 1..n}
  BY <1>1 DEF Shape
<1>4. (~Numbered(L) => total = Contiguous) /\ (Numbered(L) => L = {} \/ total # Contiguous)
  BY <1>2 DEF Numbered
<1>5. CASE P = {}
  BY <1>5 DEF Changing, ActiveFiles
<1>6. CASE P # {}
  <2>1. \/ /\ ActiveFiles(P) = {Current} /\ HistoricalTotal(P) = 1 /\ Current \in P
           /\ Current \notin L /\ total # Contiguous => L \cap P = {}
        \/ /\ ActiveFiles(P) = P \cap L /\ HistoricalTotal(P) = n /\ P \cap L # {} /\ Current \notin L
           /\ total = Contiguous => L \subseteq P /\ Current \notin P
    BY <1>3, <1>6, ActiveShape
  <2> QED BY <1>4, <2>1 DEF Changing
<1> QED BY <1>5, <1>6

LEMMA InTransitionIs ==
  ASSUME NEW L \in Layouts, FilesInv(L)
  PROVE  InTransition <=> Current \notin L /\ L \cap Present # {} /\ (Numbered(L) \/ Current \notin Present)
<1>1. Present \in SUBSET (L \cup {Current}) /\ (Current \notin Present => L \subseteq Present)
  BY DEF FilesInv
<1>2. PICK P : P = Present
  OBVIOUS
<1>3. InTransition <=> Changing(P)
  BY <1>2 DEF InTransition, Changing, Active, Present
<1> QED BY <1>1, <1>2, <1>3, ChangingIs

(* A change of the layout does not begin again.                            *)
LEMMA TransitionEnds ==
  ASSUME NEW L \in Layouts, FilesInv(L), FilesInv(L)',
         Present' \subseteq Present \cup {Current}, Current \in Present => Current \in Present'
  PROVE  InTransition' => InTransition
<1>1. Present' \in SUBSET (L \cup {Current}) /\ (Current \notin Present' => L \subseteq Present')
  BY DEF FilesInv
<1>2. PICK P : P = Present'
  OBVIOUS
<1>3. InTransition' <=> Changing(P)
  BY <1>2 DEF InTransition, Changing, Active, Present
<1>4. Changing(P) <=> Current \notin L /\ L \cap P # {} /\ (Numbered(L) \/ Current \notin P)
  BY <1>1, <1>2, ChangingIs
<1>5. InTransition <=> Current \notin L /\ L \cap Present # {} /\ (Numbered(L) \/ Current \notin Present)
  BY InTransitionIs
<1> QED BY <1>2, <1>3, <1>4, <1>5

-----------------------------------------------------------------------------
(* The versions.                                                           *)

LEMMA ReachIs ==
  ASSUME crashes \in Nat, crashes' \in Nat, crashes <= crashes', InTransition' => InTransition
  PROVE  /\ Reach \in Nat /\ Reach' \in Nat /\ Reach <= Reach'
         /\ crashes' = crashes + 1 /\ (InTransition' <=> InTransition) => Reach' = Reach + 1
<1>1. (InTransition => Reach = crashes) /\ (~InTransition => Reach = crashes + 1)
  BY DEF Reach
<1>2. (InTransition' => Reach' = crashes') /\ (~InTransition' => Reach' = crashes' + 1)
  BY DEF Reach
<1>3. PICK b, b2, c, c2 : b = Reach /\ b2 = Reach' /\ c = crashes /\ c2 = crashes'
  OBVIOUS
<1>4. /\ c \in Nat /\ c2 \in Nat /\ c <= c2
      /\ b = c \/ b = c + 1
      /\ b2 = c2 \/ b2 = c2 + 1
      /\ b = c + 1 => b2 = c2 + 1 \/ b = c
  BY <1>1, <1>2, <1>3
<1>5. CASE InTransition
  BY <1>1, <1>2, <1>3, <1>4, <1>5
<1>6. CASE ~InTransition
  BY <1>1, <1>2, <1>3, <1>4, <1>6
<1> QED BY <1>5, <1>6

(* A step that leaves the backups alone.                                   *)
LEMMA KeptStays ==
  ASSUME KeptInv, saved' = saved, \A k \in 1..Backups : disk'[Current][k] = disk[Current][k],
         corruptions' = 0 \/ Main' = Torn => corruptions = 0 \/ Main = Torn,
         Reach \in Nat, Reach' \in Nat, Reach <= Reach', Rotating => Reach < Reach'
  PROVE  KeptInv'
<1>1. PICK b, b2, B : b = Reach /\ b2 = Reach' /\ B = Backups
  OBVIOUS
<1>2. b \in Nat /\ b2 \in Nat /\ b <= b2 /\ B \in Nat
  BY <1>1, Statics
<1>3. SUFFICES ASSUME saved'.older # NoToken, corruptions' = 0 \/ Main' = Torn, b2 <= B
               PROVE  \E k \in 1..B : Kept(k)'
  BY <1>1 DEF KeptInv
<1>4. saved.older # NoToken /\ (corruptions = 0 \/ Main = Torn)
  BY <1>3
<1>5. b <= B /\ (Rotating => b < B)
  <2>1. CASE Rotating
    <3>1. b < b2
      BY <1>1, <2>1
    <3> QED BY <1>2, <1>3, <3>1
  <2>2. CASE ~Rotating
    BY <1>2, <1>3, <2>2
  <2> QED BY <2>1, <2>2
<1>6. PICK k \in 1..B : Kept(k)
  BY <1>1, <1>4, <1>5 DEF KeptInv
<1>7. k \in 1..Backups /\ k \in Nat /\ k <= B /\ \A j \in 1..(k - 1) : j \in 1..Backups
  BY <1>1, <1>2
<1>8. k <= b2
  <2>1. CASE Rotating
    <3>1. b < b2 /\ (k <= b \/ k = b + 1)
      BY <1>1, <1>6, <2>1 DEF Kept, Within
    <3> QED BY <1>2, <1>7, <3>1
  <2>2. CASE ~Rotating
    <3>1. Ahead = B + 2
      BY <1>1, <2>2 DEF Ahead
    <3>2. k <= b \/ B + 2 <= k
      BY <1>1, <1>6, <3>1 DEF Kept, Within
    <3> QED BY <1>2, <1>7, <3>2
  <2> QED BY <2>1, <2>2
<1>9. Within(k, Reach', Ahead')
  BY <1>1, <1>8 DEF Within
<1>10. FirstIn(disk'[Current], Known', k)
  BY <1>6, <1>7 DEF Kept, FirstIn, Known
<1>11. Kept(k)'
  BY <1>9, <1>10 DEF Kept
<1> QED BY <1>11

(* A save rotates the backups in turn, from the oldest on.                 *)
LEMMA SaveOpsInTurn ==
  ASSUME NEW tok \in Tokens, NEW ops, ops = SaveOps(Current, tok)
  PROVE  /\ Len(ops) = IF Main = Missing THEN 1 ELSE Backups + 2
         /\ DOMAIN ops = 1..Len(ops)
         /\ \A i \in DOMAIN ops : InTurn(ops[i], Len(ops) - i + 1, Main)
<1>0. PICK B \in Nat : B = Backups /\ B >= 2
  BY Statics
<1>1. PICK w : w = WriteAtomic(Current, Content(tok))
  OBVIOUS
<1>2. PICK u : u = Unlink(Current, B)
  OBVIOUS
<1>3. PICK c : c = Copy(Current, 0, 1)
  OBVIOUS
<1>4. PICK middle : middle = [j \in 1..(B - 1) |-> Rename(Current, B - j)]
  OBVIOUS
<1>5. w.op = "write"
  BY <1>1 DEF WriteAtomic
<1>6. CASE Main = Missing
  <2>1. ops = << >> \o <<w>>
    BY <1>1, <1>6 DEF SaveOps, Main
  <2>2. ops = <<w>>
    BY <2>1
  <2>3. Len(ops) = 1 /\ DOMAIN ops = 1..1 /\ ops[1] = w
    BY <2>2
  <2>4. InTurn(w, 1, Main)
    BY <1>5 DEF InTurn
  <2>5. \A i \in DOMAIN ops : i = 1 /\ Len(ops) - i + 1 = 1
    BY <2>3
  <2> QED BY <1>6, <2>3, <2>4, <2>5
<1>7. CASE Main # Missing
  <2>1. ops = (<<u>> \o middle \o <<c>>) \o <<w>>
    BY <1>0, <1>1, <1>2, <1>3, <1>4, <1>7 DEF SaveOps, Main
  <2>2. \E S : middle \in Seq(S) /\ Len(middle) = B - 1
    <3>1. B - 1 \in Nat
      BY <1>0
    <3>2. PICK S : S = {Rename(Current, B - j) : j \in 1..(B - 1)}
      OBVIOUS
    <3>3. \A j \in 1..(B - 1) : Rename(Current, B - j) \in S
      BY <3>2
    <3>4. middle \in [1..(B - 1) -> S]
      BY <1>4, <3>3
    <3>5. PICK m \in Nat : m = B - 1
      BY <3>1
    <3>6. middle \in [1..m -> S]
      BY <3>4, <3>5
    <3>7. middle \in Seq(S) /\ Len(middle) = m
      BY <3>6
    <3> QED BY <3>5, <3>7
  <2>3. \A j \in 1..(B - 1) : middle[j] = Rename(Current, B - j)
    BY <1>4
  <2>4. /\ Len(ops) = B + 2 /\ DOMAIN ops = 1..(B + 2)
        /\ ops[1] = u /\ ops[B + 1] = c /\ ops[B + 2] = w
        /\ \A i \in 2..B : ops[i] = middle[i - 1]
    BY <1>0, <2>1, <2>2
  <2>5. \A i \in 2..B : ops[i] = Rename(Current, B - (i - 1))
    <3>1. \A i \in 2..B : i - 1 \in 1..(B - 1)
      BY <1>0
    <3> QED BY <2>3, <2>4, <3>1
  <2>6. InTurn(u, B + 2, Main)
    BY <1>0, <1>2 DEF InTurn
  <2>7. InTurn(c, 2, Main) /\ InTurn(w, 1, Main)
    BY <1>3, <1>5 DEF InTurn
  <2>8. ASSUME NEW i \in 1..(B + 2) PROVE InTurn(ops[i], B + 2 - i + 1, Main)
    <3>1. CASE i = 1
      BY <1>0, <2>4, <2>6, <3>1
    <3>2. CASE i = B + 1
      <4>1. B + 2 - i + 1 = 2
        BY <1>0, <3>2
      <4> QED BY <2>4, <2>7, <3>2, <4>1
    <3>3. CASE i = B + 2
      <4>1. B + 2 - i + 1 = 1
        BY <1>0, <3>3
      <4> QED BY <2>4, <2>7, <3>3, <4>1
    <3>4. CASE i \in 2..B
      <4>1. PICK r : r = B + 2 - i + 1
        OBVIOUS
      <4>2. r # 1 /\ r # 2 /\ r # B + 2 /\ r - 2 = B - (i - 1)
        BY <1>0, <3>4, <4>1
      <4>3. ops[i] = Rename(Current, r - 2)
        BY <2>5, <3>4, <4>2
      <4>4. InTurn(ops[i], r, Main)
        BY <1>0, <4>2, <4>3 DEF InTurn
      <4> QED BY <4>1, <4>4
    <3> QED BY <1>0, <3>1, <3>2, <3>3, <3>4
  <2> QED BY <1>0, <1>7, <2>4, <2>8
<1> QED BY <1>6, <1>7

(* One version is moved down.                                              *)
LEMMA MovedDown ==
  ASSUME NEW B \in Nat, NEW d, NEW d2, NEW S, NEW j \in 1..(B - 1), NEW k \in 1..B, NEW b \in Nat, b < B,
         d2[j + 1] = IF d[j] = Missing THEN d[j + 1] ELSE d[j],
         d2[j] = Missing,
         \A i \in 1..B : i # j /\ i # j + 1 => d2[i] = d[i],
         d[j + 1].is # "token", \A c \in S : c.is = "token",
         FirstIn(d, S, k), Within(k, b, j + 2)
  PROVE  \E m \in 1..B : FirstIn(d2, S, m) /\ Within(m, b, j + 1)
<1>1. k # j + 1 /\ d[k] \in S /\ d[k] # Missing
  BY Kinds DEF FirstIn
<1>2. Missing.is # "token"
  BY Kinds
<1>3. CASE k = j
  <2>1. d[j] # Missing /\ d2[j + 1] = d[j] /\ d[j] \in S
    BY <1>1, <1>3
  <2>2. ASSUME NEW i \in 1..(j + 1 - 1) PROVE d2[i].is # "token"
    <3>1. CASE i = j
      BY <1>2, <3>1
    <3>2. CASE i # j
      <4>1. i \in 1..(k - 1) /\ i \in 1..B /\ i # j + 1
        BY <1>3, <3>2
      <4> QED BY <3>2, <4>1 DEF FirstIn
    <3> QED BY <3>1, <3>2
  <2>3. FirstIn(d2, S, j + 1)
    BY <2>1, <2>2 DEF FirstIn
  <2>4. Within(j + 1, b, j + 1)
    <3>1. j <= b
      BY <1>3 DEF Within
    <3> QED BY <3>1 DEF Within
  <2>5. j + 1 \in 1..B
    OBVIOUS
  <2> QED BY <2>3, <2>4, <2>5
<1>4. CASE k # j
  <2>1. d2[k] = d[k]
    BY <1>1, <1>4
  <2>2. ASSUME NEW i \in 1..(k - 1) PROVE d2[i].is # "token"
    <3>1. d[i].is # "token" /\ i \in 1..B
      BY DEF FirstIn
    <3>2. CASE i = j
      BY <1>2, <3>2
    <3>3. CASE i = j + 1
      <4>1. j \in 1..(k - 1)
        BY <3>3
      <4>2. d[j].is # "token"
        BY <4>1 DEF FirstIn
      <4> QED BY <3>1, <3>3, <4>2
    <3>4. CASE i # j /\ i # j + 1
      BY <3>1, <3>4
    <3> QED BY <3>2, <3>3, <3>4
  <2>3. FirstIn(d2, S, k)
    BY <1>1, <2>1, <2>2 DEF FirstIn
  <2>4. Within(k, b, j + 1)
    BY DEF Within
  <2> QED BY <2>3, <2>4
<1> QED BY <1>3, <1>4

(* What is ahead when a step of a save is done.                            *)
LEMMA RestInTurn ==
  ASSUME NEW L \in Layouts, PlainTypes(L), NEW o, o = Head(todo), todo \in Seq(SaveOp), todo # << >>,
         o.op = "copy" => todo' = <<Fill(o.file, o.to, disk[o.file][o.from])>> \o Tail(todo),
         o.op # "copy" => todo' = << >> \o Tail(todo),
         Main' = Main \/ Len(todo) = 1,
         Rotating, RotationInv
  PROVE  /\ Len(todo) \in Nat \ {0} /\ Len(todo) <= Backups + 2 /\ InTurn(o, Len(todo), Main)
         /\ o.op # "copy" => Len(todo') = Len(todo) - 1
         /\ o.op = "copy" => Len(todo') = Len(todo) /\ Len(todo) = 2
         /\ Len(todo') # 0 => Rotating' /\ \A i \in DOMAIN todo' : InTurn(todo'[i], Len(todo') - i + 1, Main')
         /\ Len(todo') = 0 => todo' = << >>
<1>1. PICK rest \in Seq(SaveOp) : rest = Tail(todo)
  BY TailIs
<1>2. PICK n \in Nat \ {0} : n = Len(todo) /\ DOMAIN todo = 1..n /\ Len(rest) = n - 1 /\ DOMAIN rest = 1..(n - 1)
                             /\ \A i \in 1..(n - 1) : rest[i] = todo[i + 1]
  <2>1. Len(todo) \in Nat \ {0}
    OBVIOUS
  <2> QED BY <1>1, <2>1
<1>3. PICK B \in Nat : B = Backups /\ B >= 2
  BY Statics
<1>4. o = todo[1] /\ o \in SaveOp /\ n <= B + 2 /\ todo[n].op = "write" /\ \A i \in 1..n : InTurn(todo[i], n - i + 1, Main)
  BY <1>2, <1>3, TailIs DEF Rotating, RotationInv
<1>5. InTurn(o, n, Main)
  <2>1. InTurn(todo[1], n - 1 + 1, Main) /\ n - 1 + 1 = n
    BY <1>2, <1>4
  <2> QED BY <1>4, <2>1
<1>7. CASE o.op # "copy"
  <2>1. << >> \o rest = rest
    OBVIOUS
  <2>2. todo' = rest
    BY <1>1, <1>7, <2>1
  <2>3. CASE n = 1
    <3>1. rest = << >> /\ Len(todo') = 0
      BY <1>2, <2>2, <2>3
    <3> QED BY <1>2, <1>3, <1>4, <1>5, <1>7, <2>2, <2>3, <3>1
  <2>4. CASE n # 1
    <3>1. Main' = Main
      BY <1>2, <2>4
    <3>2. ASSUME NEW i \in 1..(n - 1) PROVE InTurn(todo'[i], n - 1 - i + 1, Main')
      <4>1. i + 1 \in 1..n /\ todo'[i] = todo[i + 1] /\ n - (i + 1) + 1 = n - 1 - i + 1
        BY <1>2, <2>2
      <4>2. InTurn(todo'[i], n - 1 - i + 1, Main)
        BY <1>4, <4>1
      <4> QED BY <3>1, <4>2
    <3>3. Len(todo') = n - 1 /\ DOMAIN todo' = 1..(n - 1) /\ todo' # << >>
      BY <1>2, <2>2, <2>4
    <3>4. todo'[n - 1] = todo[n]
      BY <1>2, <2>2, <2>4
    <3>5. Rotating'
      BY <1>4, <3>3, <3>4 DEF Rotating
    <3>6. \A i \in DOMAIN todo' : InTurn(todo'[i], Len(todo') - i + 1, Main')
      BY <3>2, <3>3
    <3>7. n - 1 # 0
      BY <2>4
    <3> QED BY <1>2, <1>3, <1>4, <1>5, <1>7, <3>3, <3>5, <3>6, <3>7
  <2> QED BY <2>3, <2>4
<1>8. CASE o.op = "copy"
  <2>1. n = 2
    <3>1. CASE n = 1
      BY <1>5, <1>8, <3>1 DEF InTurn
    <3>2. CASE n # 1 /\ n # 2
      BY <1>5, <1>8, <3>2 DEF InTurn, Unlink, Rename
    <3> QED BY <3>1, <3>2
  <2>2. Main' = Main
    BY <1>2, <2>1
  <2>3. o.file = Current /\ o.from = 0 /\ o.to = 1
    BY <1>4, <1>8, SaveOpFields
  <2>4. PICK w : w = Fill(Current, 1, Main)
    OBVIOUS
  <2>5. todo' = <<w>> \o rest
    BY <1>1, <1>8, <2>3, <2>4 DEF Main
  <2>6. Len(rest) = 1 /\ rest[1] = todo[2]
    BY <1>2, <2>1
  <2>7. Len(todo') = 2 /\ DOMAIN todo' = 1..2 /\ todo'[1] = w /\ todo'[2] = todo[2] /\ todo' # << >>
    <3>1. PICK new : new = todo'
      OBVIOUS
    <3>2. w \in SaveOp
      <4>1. Main \in Contents
        BY Statics DEF PlainTypes, Main
      <4> QED BY <2>4, <4>1 DEF SaveOp
    <3>6. /\ <<w>> \o rest \in Seq(SaveOp) /\ Len(<<w>> \o rest) = Len(rest) + 1 /\ Len(rest) \in Nat
          /\ (<<w>> \o rest)[1] = w /\ \A i \in 1..Len(rest) : (<<w>> \o rest)[i + 1] = rest[i]
      BY <3>2
    <3>3. /\ <<w>> \o rest \in Seq(SaveOp) /\ Len(<<w>> \o rest) = 2
          /\ (<<w>> \o rest)[1] = w /\ (<<w>> \o rest)[2] = rest[1]
      BY <2>6, <3>6
    <3>4. new \in Seq(SaveOp) /\ Len(new) = 2 /\ new[1] = w /\ new[2] = todo[2]
      BY <2>5, <2>6, <3>1, <3>3
    <3>5. DOMAIN new = 1..Len(new)
      BY <3>4, LenProperties
    <3>7. new # << >>
      <4>1. Len(<< >>) = 0
        OBVIOUS
      <4>2. Len(new) # 0
        BY <3>4
      <4> QED BY <4>1, <4>2, Zenon
    <3> QED BY <3>1, <3>4, <3>5, <3>7
  <2>8. InTurn(w, 2, Main) /\ InTurn(todo[2], 1, Main)
    <3>1. InTurn(w, 2, Main)
      BY <2>4 DEF InTurn
    <3>2. InTurn(todo[2], 2 - 2 + 1, Main)
      BY <1>4, <2>1
    <3> QED BY <3>1, <3>2
  <2>9. Rotating'
    BY <1>4, <2>1, <2>7 DEF Rotating
  <2>10. InTurn(todo'[1], 2, Main') /\ InTurn(todo'[2], 1, Main')
    BY <2>2, <2>7, <2>8
  <2>11. ASSUME NEW i \in DOMAIN todo' PROVE InTurn(todo'[i], Len(todo') - i + 1, Main')
    <3>1. i = 1 \/ i = 2
      BY <2>7
    <3>2. CASE i = 1
      BY <2>7, <2>10, <3>2
    <3>3. CASE i = 2
      <4>1. Len(todo') - i + 1 = 1
        BY <2>7, <3>3
      <4> QED BY <2>10, <3>3, <4>1
    <3> QED BY <3>1, <3>2, <3>3
  <2> QED BY <1>2, <1>3, <1>4, <1>5, <1>8, <2>1, <2>7, <2>9, <2>11
<1> QED BY <1>7, <1>8

(* The steps of a save, by what is left of it.                             *)
InSave(d, d2) ==
  /\ saved' = saved /\ Rotating' /\ \A i \in DOMAIN todo' : InTurn(todo'[i], Len(todo') - i + 1, Main')
  /\ \/ Len(todo) = Backups + 2 /\ Len(todo') = Backups + 1 /\ d2 = [d EXCEPT ![Backups] = Missing]
     \/ \E j \in 1..(Backups - 1) :
          /\ Len(todo) = j + 2 /\ Len(todo') = j + 1
          /\ d2 = IF d[j] = Missing THEN d ELSE [d EXCEPT ![j + 1] = d[j], ![j] = Missing]
     \/ Len(todo) = 2 /\ Len(todo') = 2 /\ d2 = [d EXCEPT ![1] = Torn]
     \/ Len(todo) = 2 /\ Len(todo') = 1 /\ d2 = [d EXCEPT ![1] = d[0]]
EndOfSave(d, d2) ==
  /\ Len(todo) = 1 /\ todo' = << >>
  /\ \E t \in Tokens : d2 = [d EXCEPT ![0] = Content(t)] /\ saved' = [older |-> saved.newer, newer |-> t]

LEMMA SaveSteps ==
  ASSUME NEW L, NEW start, NEW h, NEW current, Beginning(L, start, h, current), StoreInv(L, start, h, current), Perform,
         todo \in Seq(SaveOp), Rotating, RotationInv
  PROVE  InSave(disk[Current], disk'[Current]) \/ EndOfSave(disk[Current], disk'[Current])
<1>1. L \in Layouts /\ PlainTypes(L) /\ todo # << >>
  BY DEF Beginning, StoreInv, Perform
<1>2. PICK o \in Operation :
        /\ o = Head(todo) /\ todo # << >>
        /\ disk' = Effect(o)
        /\ o.op = "copy" => todo' = <<Fill(o.file, o.to, disk[o.file][o.from])>> \o Tail(todo)
        /\ o.op # "copy" => todo' = << >> \o Tail(todo)
        /\ floor' = IF pc = "running" /\ o.op = "write" /\ o.content.tok > floor THEN o.content.tok ELSE floor
        /\ legacy' = legacy /\ pc' = pc /\ old' = old /\ at' = at /\ fetched' = fetched /\ found' = found /\ from' = from
        /\ leftOut' = leftOut /\ cut' = cut /\ corruptions' = corruptions /\ faults' = faults
  BY PerformIs
<1>3. o \in SaveOp /\ o.file = Current
  BY <1>2, TailIs, SaveOpFields
<1>4. saved' = IF o.op = "write" THEN [older |-> saved.newer, newer |-> o.content.tok] ELSE saved
  BY <1>2, <1>3 DEF Perform
<1>5. PICK B \in Nat : B = Backups /\ B >= 2
  BY Statics
<1>6. PICK n \in Nat \ {0} : n = Len(todo) /\ n <= B + 2 /\ InTurn(o, n, Main)
  <2>1. Len(todo) \in Nat \ {0} /\ o = todo[1] /\ 1 \in DOMAIN todo
    BY <1>2, TailIs, LenProperties
  <2>2. Len(todo) <= Backups + 2 /\ InTurn(todo[1], Len(todo) - 1 + 1, Main)
    BY <2>1 DEF RotationInv
  <2>3. PICK m : m = Len(todo)
    OBVIOUS
  <2>4. m - 1 + 1 = m /\ m \in Nat \ {0}
    BY <2>1, <2>3
  <2> QED BY <1>5, <2>1, <2>2, <2>3, <2>4
<1>7. PICK d \in [0..B -> Contents] : d = disk[Current]
  BY <1>1, <1>5, Statics DEF PlainTypes
<1>8. disk \in Disks /\ Current \in Files
  BY <1>1, Statics DEF PlainTypes, Disks
<1>9. Main = d[0]
  BY <1>7 DEF Main
<1>10. CASE n = 1
  <2>1. o.op = "write"
    BY <1>6, <1>10 DEF InTurn
  <2>2. PICK t \in Tokens : o.content = Content(t) /\ o.to = 0
    BY <1>3, <2>1, SaveOpFields
  <2>3. disk' = [disk EXCEPT ![Current][0] = Content(t)]
    BY <1>2, <1>3, <2>1, <2>2 DEF Effect
  <2>4. disk'[Current] = [d EXCEPT ![0] = Content(t)]
    BY <1>7, <1>8, <2>3 DEF Disks
  <2>5. saved' = [older |-> saved.newer, newer |-> t]
    BY <1>4, <2>1, <2>2, Kinds
  <2>6. todo' = << >>
    <3>1. Tail(todo) = << >>
      <4>1. Len(todo) = 1
        BY <1>6, <1>10
      <4> QED BY <4>1
    <3>2. << >> \o << >> = << >>
      OBVIOUS
    <3> QED BY <1>2, <2>1, <3>1, <3>2
  <2> QED BY <1>6, <1>7, <1>10, <2>4, <2>5, <2>6 DEF EndOfSave
<1>11. CASE n # 1
  <2>1. o.op # "write"
    BY <1>6, <1>11 DEF InTurn, Copy, Fill, Unlink, Rename
  <2>2. saved' = saved
    BY <1>4, <2>1
  <2>3. ASSUME Main' = Main
        PROVE  /\ o.op # "copy" => Len(todo') = n - 1
               /\ o.op = "copy" => Len(todo') = n
               /\ Rotating' /\ \A i \in DOMAIN todo' : InTurn(todo'[i], Len(todo') - i + 1, Main')
    <3>1. /\ o.op # "copy" => Len(todo') = n - 1
          /\ o.op = "copy" => Len(todo') = n
          /\ Len(todo') # 0 => Rotating' /\ \A i \in DOMAIN todo' : InTurn(todo'[i], Len(todo') - i + 1, Main')
      BY <1>1, <1>2, <1>6, <2>3, RestInTurn
    <3>2. n - 1 # 0 /\ n # 0
      BY <1>6, <1>11
    <3> QED BY <3>1, <3>2
  <2>4. CASE n = B + 2
    <3>1. o = Unlink(Current, B)
      BY <1>5, <1>6, <2>4 DEF InTurn
    <3>2. o.op = "remove" /\ o.file = Current /\ o.from = B
      BY <3>1 DEF Unlink
    <3>3. disk' = [disk EXCEPT ![Current][B] = Missing]
      BY <1>2, <3>2 DEF Effect
    <3>4. disk'[Current] = [d EXCEPT ![B] = Missing]
      BY <1>7, <1>8, <3>3 DEF Disks
    <3>5. Main' = Main
      BY <1>5, <1>7, <1>9, <3>4 DEF Main
    <3>6. Len(todo') = B + 1 /\ Rotating' /\ \A i \in DOMAIN todo' : InTurn(todo'[i], Len(todo') - i + 1, Main')
      BY <2>3, <2>4, <3>2, <3>5
    <3> QED BY <1>5, <1>6, <1>7, <2>2, <2>4, <3>4, <3>6 DEF InSave
  <2>5. CASE n # 2 /\ n # B + 2
    <3>1. PICK j \in 1..(B - 1) : n = j + 2 /\ j = n - 2
      <4>1. n - 2 \in 1..(B - 1) /\ n = (n - 2) + 2
        BY <1>5, <1>6, <1>11, <2>5
      <4> QED BY <4>1
    <3>2. o = Rename(Current, j)
      BY <1>5, <1>6, <1>11, <2>5, <3>1 DEF InTurn
    <3>3. o.op = "rename" /\ o.file = Current /\ o.from = j /\ o.to = j + 1
      BY <3>2 DEF Rename
    <3>4. disk' = IF disk[Current][j] = Missing THEN disk
                  ELSE [disk EXCEPT ![Current][j + 1] = disk[Current][j], ![Current][j] = Missing]
      BY <1>2, <3>3 DEF Effect
    <3>5. disk'[Current] = IF d[j] = Missing THEN d ELSE [d EXCEPT ![j + 1] = d[j], ![j] = Missing]
      BY <1>7, <1>8, <3>4 DEF Disks
    <3>6. Main' = Main
      <4>1. j # 0 /\ j + 1 # 0 /\ 0 \in 0..B
        BY <1>5, <3>1
      <4> QED BY <1>7, <1>9, <3>5, <4>1 DEF Main
    <3>7. Len(todo') = j + 1
      <4>1. Len(todo') = n - 1
        BY <2>3, <3>3, <3>6
      <4> QED BY <3>1, <4>1
    <3>8. Rotating' /\ \A i \in DOMAIN todo' : InTurn(todo'[i], Len(todo') - i + 1, Main')
      BY <2>3, <3>6
    <3> QED BY <1>5, <1>6, <1>7, <2>2, <3>1, <3>5, <3>7, <3>8 DEF InSave
  <2>6. CASE n = 2
    <3>1. o = Copy(Current, 0, 1) \/ o = Fill(Current, 1, Main)
      BY <1>6, <2>6 DEF InTurn
    <3>2. CASE o = Copy(Current, 0, 1)
      <4>1. o.op = "copy" /\ o.to = 1
        BY <3>2 DEF Copy
      <4>2. disk' = [disk EXCEPT ![Current][1] = Torn]
        BY <1>2, <1>3, <4>1 DEF Effect
      <4>3. disk'[Current] = [d EXCEPT ![1] = Torn]
        BY <1>7, <1>8, <4>2 DEF Disks
      <4>4. Main' = Main
        BY <1>7, <1>9, <4>3 DEF Main
      <4>5. Len(todo') = 2 /\ Rotating' /\ \A i \in DOMAIN todo' : InTurn(todo'[i], Len(todo') - i + 1, Main')
        BY <2>3, <2>6, <4>1, <4>4
      <4> QED BY <1>6, <1>7, <2>2, <2>6, <4>3, <4>5 DEF InSave
    <3>3. CASE o = Fill(Current, 1, Main)
      <4>1. o.op = "fill" /\ o.to = 1 /\ o.content = d[0]
        BY <1>9, <3>3 DEF Fill
      <4>2. disk' = [disk EXCEPT ![Current][1] = d[0]]
        BY <1>2, <1>3, <4>1 DEF Effect
      <4>3. disk'[Current] = [d EXCEPT ![1] = d[0]]
        BY <1>7, <1>8, <4>2 DEF Disks
      <4>4. Main' = Main
        BY <1>7, <1>9, <4>3 DEF Main
      <4>5. Len(todo') = 1
        <5>1. Len(todo') = n - 1
          BY <2>3, <4>1, <4>4
        <5> QED BY <2>6, <5>1
      <4>6. Rotating' /\ \A i \in DOMAIN todo' : InTurn(todo'[i], Len(todo') - i + 1, Main')
        BY <2>3, <4>4
      <4> QED BY <1>6, <1>7, <2>2, <2>6, <4>3, <4>5, <4>6 DEF InSave
    <3> QED BY <3>1, <3>2, <3>3
  <2> QED BY <2>4, <2>5, <2>6
<1> QED BY <1>10, <1>11

LEMMA KnownIsReadable == \A c \in Known : c.is = "token"
BY DEF Known, Content

(* A version that cannot be read is put in the place of another one.       *)
LEMMA Overwritten ==
  ASSUME NEW B \in Nat, NEW d \in [0..B -> Contents], NEW m \in 1..B, NEW x, x.is # "token", NEW S,
         NEW k \in 1..B, k # m, FirstIn(d, S, k)
  PROVE  FirstIn([d EXCEPT ![m] = x], S, k)
<1>1. \A i \in 1..B : [d EXCEPT ![m] = x][i] = IF i = m THEN x ELSE d[i]
  OBVIOUS
<1>2. \A i \in 1..(k - 1) : i \in 1..B
  OBVIOUS
<1>3. \A i \in 1..(k - 1) : [d EXCEPT ![m] = x][i].is # "token"
  BY <1>1, <1>2 DEF FirstIn
<1> QED BY <1>1, <1>3 DEF FirstIn

(* The rotation keeps one of the last two saves readable.                  *)
LEMMA RotationKeeps ==
  ASSUME NEW L \in Layouts, PlainTypes(L), SaveTypes, Rotating, InSave(disk[Current], disk'[Current]),
         RotationInv, MainInv, KeptInv, corruptions' = corruptions, Reach' = Reach, Reach \in Nat
  PROVE  /\ Main' = Main /\ disk'[Current] \in [0..Backups -> Contents]
         /\ Len(todo') <= Backups + 2
         /\ Len(todo') \in 2..(Backups + 1) => disk'[Current][Len(todo') - 1].is # "token"
         /\ Len(todo') = 1 => disk'[Current][1] = Main
         /\ KeptInv'
<1>1. PICK B \in Nat : B = Backups /\ B >= 2
  BY Statics
<1>2. PICK d \in [0..B -> Contents] : d = disk[Current]
  BY <1>1, Statics DEF PlainTypes
<1>3. PICK d2 : d2 = disk'[Current]
  OBVIOUS
<1>4. PICK b \in Nat : b = Reach /\ b = Reach'
  OBVIOUS
<1>5. PICK S : S = Known /\ S = Known' /\ \A c \in S : c.is = "token"
  <2>1. saved' = saved
    BY DEF InSave
  <2>2. Known' = Known
    BY <2>1 DEF Known
  <2> QED BY <2>2, KnownIsReadable
<1>6. InSave(d, d2) /\ Main = d[0] /\ Main' = d2[0] /\ Rotating'
  BY <1>2, <1>3 DEF Main, InSave
<1>7. PICK n, n2 : n = Len(todo) /\ n2 = Len(todo') /\ Ahead = n /\ Ahead' = n2
  BY <1>6 DEF Ahead
<1>8. Missing.is # "token" /\ Torn.is # "token" /\ {Missing, Torn} \subseteq Contents
  BY Kinds
<1> DEFINE G ==
     /\ d2[0] = d[0] /\ d2 \in [0..B -> Contents] /\ n2 <= B + 2
     /\ n2 \in 2..(B + 1) => d2[n2 - 1].is # "token"
     /\ n2 = 1 => d2[1] = d[0]
     /\ \A k \in 1..B : b < B /\ FirstIn(d, S, k) /\ Within(k, b, n) /\ d[0] \in S \cup {Torn}
            => \E m \in 1..B : FirstIn(d2, S, m) /\ Within(m, b, n2)
<1>9. ASSUME n = B + 2 /\ n2 = B + 1 /\ d2 = [d EXCEPT ![B] = Missing]
       PROVE  G
  <2>1. /\ d2[0] = d[0] /\ d2 \in [0..B -> Contents] /\ d2[B] = Missing
    BY <1>1, <1>8, <1>9
  <2>2. ASSUME NEW k \in 1..B, b < B, FirstIn(d, S, k), Within(k, b, n)
        PROVE  \E m \in 1..B : FirstIn(d2, S, m) /\ Within(m, b, n2)
    <3>1. k <= b /\ k # B
      BY <1>9, <2>2 DEF Within
    <3>2. Within(k, b, n2)
      BY <3>1 DEF Within
    <3>3. B \in 1..B
      BY <1>1
    <3>4. FirstIn(d2, S, k)
      BY <1>8, <1>9, <2>2, <3>1, <3>3, Overwritten
    <3> QED BY <3>2, <3>4
  <2>3. n2 - 1 = B /\ n2 <= B + 2 /\ n2 # 1
    BY <1>1, <1>9
  <2> QED BY <1>8, <2>1, <2>2, <2>3
<1>10. ASSUME \E j \in 1..(B - 1) : /\ n = j + 2 /\ n2 = j + 1
                                  /\ d2 = IF d[j] = Missing THEN d ELSE [d EXCEPT ![j + 1] = d[j], ![j] = Missing]
       PROVE  G
  <2>1. PICK j \in 1..(B - 1) : /\ n = j + 2 /\ n2 = j + 1
                                /\ d2 = IF d[j] = Missing THEN d ELSE [d EXCEPT ![j + 1] = d[j], ![j] = Missing]
    BY <1>10
  <2>2. j \in 0..B /\ j + 1 \in 0..B /\ j # 0 /\ j + 1 # 0 /\ j # j + 1 /\ 0 \in 0..B
    BY <1>1, <2>1
  <2>3. d2 \in [0..B -> Contents] /\ d2[0] = d[0] /\ d2[j] = Missing
    BY <1>8, <2>1, <2>2
  <2>4. /\ d2[j + 1] = IF d[j] = Missing THEN d[j + 1] ELSE d[j]
        /\ \A i \in 1..B : i # j /\ i # j + 1 => d2[i] = d[i]
    BY <1>8, <2>1, <2>2
  <2>5. d[j + 1].is # "token"
    <3>1. n \in 2..(B + 1) /\ n - 1 = j + 1
      BY <1>1, <2>1
    <3> QED BY <1>1, <1>2, <1>7, <3>1 DEF RotationInv
  <2>6. ASSUME NEW k \in 1..B, b < B, FirstIn(d, S, k), Within(k, b, n)
        PROVE  \E m \in 1..B : FirstIn(d2, S, m) /\ Within(m, b, n2)
    <3>1. Within(k, b, j + 2)
      BY <2>1, <2>6
    <3>2. \A c \in S : c.is = "token"
      BY <1>5
    <3>3. \E m \in 1..B : FirstIn(d2, S, m) /\ Within(m, b, j + 1)
      BY <2>3, <2>4, <2>5, <2>6, <3>1, <3>2, MovedDown
    <3> QED BY <2>1, <3>3
  <2>7. n2 - 1 = j /\ n2 <= B + 2 /\ n2 # 1
    BY <1>1, <2>1
  <2> QED BY <1>8, <2>3, <2>6, <2>7
<1>11. ASSUME n = 2
       PROVE  G
  <2>1. d[1].is # "token"
    <3>1. n \in 2..(B + 1) /\ n - 1 = 1
      BY <1>1, <1>11
    <3> QED BY <1>1, <1>2, <1>7, <3>1 DEF RotationInv
  <2>2. 1 \in 1..B /\ 1 \in 0..B /\ 0 \in 0..B /\ 1 # B + 2 /\ 2 # B + 2 /\ \A j \in 1..(B - 1) : 2 # j + 2
    BY <1>1
  <2>3. \/ n2 = 2 /\ d2 = [d EXCEPT ![1] = Torn]
        \/ n2 = 1 /\ d2 = [d EXCEPT ![1] = d[0]]
    BY <1>1, <1>6, <1>7, <1>11, <2>2 DEF InSave
  <2>4. /\ d2[0] = d[0] /\ d2 \in [0..B -> Contents] /\ n2 <= B + 2
        /\ n2 = 2 => d2[1] = Torn
        /\ n2 = 1 => d2[1] = d[0]
    BY <1>1, <1>8, <2>2, <2>3
  <2>5. ASSUME NEW k \in 1..B, b < B, FirstIn(d, S, k), Within(k, b, n), d[0] = Torn \/ d[0] \in S
        PROVE  \E m \in 1..B : FirstIn(d2, S, m) /\ Within(m, b, n2)
    <3>1. k # 1
      BY <1>5, <2>1, <2>5 DEF FirstIn
    <3>2. Within(k, b, n2)
      <4>1. k <= b \/ k = b + 1
        BY <2>5 DEF Within
      <4>2. n2 <= k
        BY <2>3, <3>1
      <4> QED BY <4>1, <4>2 DEF Within
    <3>3. CASE d2 = [d EXCEPT ![1] = Torn]
      <4>1. FirstIn(d2, S, k)
        BY <1>8, <2>2, <2>5, <3>1, <3>3, Overwritten
      <4> QED BY <3>2, <4>1
    <3>4. CASE n2 = 1 /\ d2 = [d EXCEPT ![1] = d[0]] /\ d[0] \in S
      <4>1. FirstIn(d2, S, 1)
        BY <2>4, <3>4 DEF FirstIn
      <4>2. Within(1, b, n2)
        BY <3>4 DEF Within
      <4> QED BY <2>2, <4>1, <4>2
    <3> QED BY <2>3, <2>5, <3>3, <3>4
  <2>6. n2 \in 2..(B + 1) => n2 = 2 /\ n2 - 1 = 1
    BY <2>3
  <2> QED BY <1>8, <2>4, <2>5, <2>6
<1>12. G
  BY <1>1, <1>6, <1>7, <1>9, <1>10, <1>11 DEF InSave
<1>13. ASSUME saved'.older # NoToken, corruptions' = 0 \/ Main' = Torn, Reach' < Backups, Main' = Main
      PROVE  \E k \in 1..B : FirstIn(d, S, k) /\ Within(k, b, n)
  <2>1. saved.older # NoToken /\ (corruptions = 0 \/ Main = Torn)
    BY <1>6, <1>13 DEF InSave
  <2>2. Reach <= Backups /\ Reach < Backups
    BY <1>1, <1>4, <1>13
  <2>3. PICK k \in 1..Backups : Kept(k)
    BY <2>1, <2>2 DEF KeptInv
  <2> QED BY <1>1, <1>2, <1>4, <1>5, <1>7, <2>3 DEF Kept
<1>14. ASSUME saved'.older # NoToken, Main' = Main PROVE d[0] = Torn \/ d[0] \in S
  <2>1. saved.older # NoToken
    BY <1>6, <1>14 DEF InSave
  <2> QED BY <1>5, <1>6, <2>1 DEF MainInv
<1>15. Main' = Main
  BY <1>6, <1>12
<1>16. ASSUME saved'.older # NoToken, corruptions' = 0 \/ Main' = Torn, Rotating' => Reach' < Backups
      PROVE  \E k \in 1..Backups : Kept(k)'
  <2>1. Reach' < Backups /\ b < B
    BY <1>1, <1>4, <1>6, <1>16
  <2>2. PICK k \in 1..B : FirstIn(d, S, k) /\ Within(k, b, n)
    BY <1>13, <1>15, <1>16, <2>1
  <2>3. PICK m \in 1..B : FirstIn(d2, S, m) /\ Within(m, b, n2)
    BY <1>12, <1>14, <1>15, <1>16, <2>1, <2>2
  <2>4. Kept(m)'
    BY <1>3, <1>4, <1>5, <1>7, <2>3 DEF Kept
  <2> QED BY <1>1, <2>4
<1>17. KeptInv'
  BY <1>16 DEF KeptInv
<1> QED BY <1>1, <1>3, <1>6, <1>7, <1>12, <1>15, <1>17

-----------------------------------------------------------------------------
(* The steps and the chain.                                                *)

(* A save in progress ends with the write, and no restoration does.        *)
LEMMA SavingRotates ==
  ASSUME NEW L, TodoInv(L), ReadableInv, pc \in {"saving", "running"}, todo \in Seq(SaveOp), todo # << >>
  PROVE  Rotating
<1>1. CASE pc = "saving"
  BY <1>1 DEF TodoInv, Rotating
<1>2. CASE pc = "running"
  BY <1>2 DEF ReadableInv, Saving
<1> QED BY <1>1, <1>2

LEMMA RestoringDoesNotRotate ==
  ASSUME NEW f \in Files, NEW t \in Tokens, Restoring(f, t)
  PROVE  ~Rotating
<1>1. Len(todo) = 1 /\ (todo[1] = Fill(f, 0, Content(t)) \/ \E k \in 1..Backups : todo[1] = Copy(f, k, 0))
  BY RestoringOps
<1> QED BY <1>1 DEF Rotating, Fill, Copy

LEMMA SaveStaysOffMain ==
  ASSUME NEW d \in [0..Backups -> Contents], NEW d2, InSave(d, d2)
  PROVE  d2[0] = d[0]
<1>1. PICK B \in Nat : B = Backups /\ B >= 2
  BY Statics
<1>2. d \in [0..B -> Contents] /\ 0 \in 0..B /\ B # 0 /\ 1 # 0
  BY <1>1
<1>3. ASSUME NEW j \in 1..(B - 1), d2 = IF d[j] = Missing THEN d ELSE [d EXCEPT ![j + 1] = d[j], ![j] = Missing]
      PROVE  d2[0] = d[0]
  <2>1. j # 0 /\ j + 1 # 0
    BY <1>1
  <2> QED BY <1>2, <1>3, <2>1
<1>4. ASSUME NEW j \in 1..B, NEW x, d2 = [d EXCEPT ![j] = x] PROVE d2[0] = d[0]
  BY <1>2, <1>4
<1>5. 1 \in 1..B /\ B \in 1..B
  BY <1>1
<1> QED BY <1>1, <1>3, <1>4, <1>5 DEF InSave

LEMMA SavePerformKeepsChain ==
  ASSUME NEW L, NEW start, NEW h, NEW current, Beginning(L, start, h, current), StoreInv(L, start, h, current),
         FilesInv(L)', Perform, pc \in {"saving", "running"}, todo \in Seq(SaveOp), SaveTypes, ChainParts
  PROVE  SaveTypes' /\ ChainParts'
<1>1. /\ L \in Layouts /\ PlainTypes(L) /\ TodoInv(L) /\ FilesInv(L) /\ todo # << >>
      /\ RotationInv /\ MainInv /\ ReadableInv /\ TransitionInv /\ KeptInv
  BY DEF Beginning, StoreInv, Perform, ChainParts
<1>2. Rotating
  BY <1>1, SavingRotates
<1>3. pc' = pc /\ crashes' = crashes /\ corruptions' = corruptions /\ faults' = faults
  BY DEF Perform, bounds
<1>4. PICK d \in [0..Backups -> Contents] : d = disk[Current]
  BY <1>1, Statics DEF PlainTypes
<1>5. PICK d2 : d2 = disk'[Current]
  OBVIOUS
<1>6. InSave(d, d2) \/ EndOfSave(d, d2)
  BY <1>1, <1>2, <1>4, <1>5, SaveSteps
<1>7. Main = d[0] /\ Main' = d2[0]
  BY <1>4, <1>5 DEF Main
<1>8. saved.newer \in Tokens \cup {NoToken} /\ saved.older \in Tokens \cup {NoToken} /\ crashes \in Nat
  BY DEF SaveTypes
<1>9. CASE InSave(d, d2)
  <2>1. saved' = saved /\ Rotating' /\ \A i \in DOMAIN todo' : InTurn(todo'[i], Len(todo') - i + 1, Main')
    BY <1>9 DEF InSave
  <2>2. SaveTypes'
    BY <1>3, <2>1 DEF SaveTypes
  <2>3. d2[0] = d[0]
    BY <1>4, <1>9, SaveStaysOffMain
  <2>4. \A f \in Files : disk'[f][0] = Missing <=> disk[f][0] = Missing
    <3>1. ASSUME NEW f \in Files, f # Current PROVE disk'[f] = disk[f]
      <4>1. PICK o \in Operation : o = Head(todo) /\ disk' = Effect(o)
        BY PerformIs
      <4>2. o.file = Current
        BY <1>1, <4>1, TailIs, SaveOpFields
      <4>3. disk \in Disks
        BY <1>1 DEF PlainTypes, Disks
      <4> QED BY <3>1, <4>1, <4>2, <4>3, Effects
    <3> QED BY <1>4, <1>5, <2>3, <3>1
  <2>5. Present' = Present /\ (InTransition' <=> InTransition)
    BY <2>4, SamePresence
  <2>6. Reach' = Reach /\ Reach \in Nat
    BY <1>3, <1>8, <2>5 DEF Reach
  <2>7. /\ Main' = Main
        /\ Len(todo') <= Backups + 2
        /\ Len(todo') \in 2..(Backups + 1) => disk'[Current][Len(todo') - 1].is # "token"
        /\ Len(todo') = 1 => disk'[Current][1] = Main
        /\ KeptInv'
    BY <1>1, <1>2, <1>3, <1>4, <1>5, <1>9, <2>6, RotationKeeps
  <2>8. RotationInv'
    <3>1. Main # Missing => InTransition \/ pc = "running"
      BY <1>1, <1>2 DEF RotationInv
    <3> QED BY <1>3, <2>1, <2>5, <2>7, <3>1 DEF RotationInv
  <2>9. MainInv'
    <3>1. Known' = Known
      BY <2>1 DEF Known
    <3> QED BY <1>1, <1>3, <2>1, <2>7, <3>1 DEF MainInv
  <2>10. ReadableInv'
    <3>1. pc = "running" => Main.is = "token"
      BY <1>1 DEF ReadableInv, Saving
    <3>2. ASSUME NEW t \in Tokens, Restoring(Current, t)' PROVE FALSE
      <4>1. todo' = <<Fill(Current, 0, Content(t))>> \/ \E k \in 1..Backups : todo' = <<Copy(Current, k, 0)>>
        BY <3>2 DEF Restoring
      <4> QED BY <2>1, <4>1 DEF Rotating, Fill, Copy
    <3> QED BY <1>3, <2>1, <2>7, <3>1, <3>2 DEF ReadableInv
  <2>11. TransitionInv'
    BY <1>1, <1>2, <1>3, <2>1, <2>5 DEF TransitionInv
  <2> QED BY <2>2, <2>7, <2>8, <2>9, <2>10, <2>11 DEF ChainParts
<1>10. CASE EndOfSave(d, d2)
  <2>1. PICK t \in Tokens : d2 = [d EXCEPT ![0] = Content(t)] /\ saved' = [older |-> saved.newer, newer |-> t]
    BY <1>10 DEF EndOfSave
  <2>2. Len(todo) = 1 /\ todo' = << >> /\ saved'.older = saved.newer /\ saved'.newer = t
    BY <1>10, <2>1 DEF EndOfSave
  <2>3. Main' = Content(t) /\ Main'.is = "token" /\ Main' # Torn /\ Main' # Missing /\ t # NoToken
    <3>1. 0 \in 0..Backups
      BY Statics
    <3> QED BY <1>4, <1>7, <2>1, <3>1, Kinds, KindsDiffer, Statics
  <2>4. d2[1] = d[1]
    <3>1. 1 \in 0..Backups /\ 1 # 0
      BY Statics
    <3> QED BY <1>4, <2>1, <3>1
  <2>5. ~Rotating'
    BY <2>2 DEF Rotating
  <2>6. InTransition' => InTransition
    <3>1. ASSUME NEW f \in Files, f # Current PROVE disk'[f] = disk[f]
      <4>1. PICK o \in Operation : o = Head(todo) /\ disk' = Effect(o)
        BY PerformIs
      <4>2. o.file = Current
        BY <1>1, <4>1, TailIs, SaveOpFields
      <4>3. disk \in Disks
        BY <1>1 DEF PlainTypes, Disks
      <4> QED BY <3>1, <4>1, <4>2, <4>3, Effects
    <3>2. Current \in Present' /\ Present' \subseteq Present \cup {Current}
      <4>1. disk'[Current][0] # Missing
        BY <1>5, <1>7, <2>3
      <4> QED BY <3>1, <4>1, Statics DEF Present, ScanPartitionCheckpoints
    <3> QED BY <1>1, <3>2, TransitionEnds
  <2>7. SaveTypes'
    BY <1>3, <1>8, <2>1 DEF SaveTypes
  <2>8. RotationInv'
    BY <2>5 DEF RotationInv
  <2>9. MainInv'
    <3>1. Main' \in Known'
      BY <2>2, <2>3 DEF Known
    <3> QED BY <2>2, <2>3, <3>1 DEF MainInv
  <2>10. ReadableInv'
    BY <2>2, <2>3 DEF ReadableInv, Restoring, Main
  <2>11. TransitionInv'
    <3>1. pc # "opening" /\ (pc = "running" => ~InTransition)
      BY <1>1 DEF TransitionInv
    <3>2. InTransition => pc = "saving"
      BY <3>1
    <3> QED BY <1>3, <2>5, <2>6, <3>1, <3>2 DEF TransitionInv
  <2>12. KeptInv'
    <3>1. SUFFICES ASSUME saved.newer # NoToken, corruptions = 0 PROVE \E k \in 1..Backups : Kept(k)'
      BY <1>3, <2>2, <2>3 DEF KeptInv
    <3>2. Main = Content(saved.newer) /\ Main # Missing
      BY <1>1, <1>8, <3>1, Kinds, KindsDiffer DEF MainInv
    <3>3. d[1] = Main
      BY <1>1, <1>2, <1>4, <2>2, <3>2 DEF RotationInv
    <3>4. d2[1] \in Known'
      BY <2>2, <2>4, <3>2, <3>3 DEF Known
    <3>5. 1 <= Reach'
      <4>1. CASE InTransition'
        <5>1. crashes # 0
          BY <1>1, <1>2, <2>6, <3>1, <4>1 DEF TransitionInv
        <5> QED BY <1>3, <1>8, <4>1, <5>1 DEF Reach
      <4>2. CASE ~InTransition'
        BY <1>3, <1>8, <4>2 DEF Reach
      <4> QED BY <4>1, <4>2
    <3>6. FirstIn(d2, Known', 1)
      BY <3>4 DEF FirstIn
    <3>7. Within(1, Reach', Ahead')
      BY <3>5 DEF Within
    <3>8. Kept(1)'
      BY <1>5, <3>6, <3>7 DEF Kept
    <3>9. 1 \in 1..Backups
      BY Statics
    <3> QED BY <3>8, <3>9
  <2> QED BY <2>7, <2>8, <2>9, <2>10, <2>11, <2>12 DEF ChainParts
<1> QED BY <1>6, <1>9, <1>10

(* A step that changes neither the files nor what is known to be saved.    *)
SameFiles ==
  disk' = disk /\ saved' = saved /\ crashes' = crashes /\ corruptions' = corruptions

LEMMA SameFilesKeepChain ==
  ASSUME SaveTypes, ChainParts, SameFiles, ~Rotating, RotationInv', ReadableInv', TransitionInv'
  PROVE  SaveTypes' /\ ChainParts'
<1>1. disk' = disk /\ saved' = saved /\ crashes' = crashes /\ corruptions' = corruptions
  BY DEF SameFiles
<1>2. MainInv /\ KeptInv /\ crashes \in Nat
  BY DEF ChainParts, SaveTypes
<1>3. SaveTypes' /\ Main' = Main /\ Known' = Known
  BY <1>1 DEF SaveTypes, Main, Known
<1>4. MainInv'
  BY <1>1, <1>2, <1>3 DEF MainInv
<1>5. InTransition' <=> InTransition
  BY <1>1, SameDisk
<1>6. Reach' = Reach /\ Reach \in Nat
  BY <1>1, <1>2, <1>5 DEF Reach
<1>7. KeptInv'
  <2>1. Reach \in Nat /\ Reach' \in Nat /\ Reach <= Reach'
    BY <1>6
  <2>2. \A k \in 1..Backups : disk'[Current][k] = disk[Current][k]
    BY <1>1
  <2> QED BY <1>1, <1>2, <1>3, <2>1, <2>2, KeptStays
<1> QED BY <1>3, <1>4, <1>7 DEF ChainParts

(* A save begins.                                                          *)
LEMMA SaveBegins ==
  ASSUME NEW tok \in Tokens, disk' = disk, todo' = SaveOps(Current, tok),
         Main # Missing => InTransition \/ pc' = "running"
  PROVE  Rotating' /\ RotationInv' /\ \A t \in Tokens : ~Restoring(Current, t)'
<1>1. PICK ops : ops = SaveOps(Current, tok)
  OBVIOUS
<1>2. ops # << >> /\ ops[Len(ops)].op = "write" /\ todo' = ops
  BY <1>1, SaveOpsShape
<1>3. /\ Len(ops) = IF Main = Missing THEN 1 ELSE Backups + 2
      /\ DOMAIN ops = 1..Len(ops)
      /\ \A i \in DOMAIN ops : InTurn(ops[i], Len(ops) - i + 1, Main)
  BY <1>1, SaveOpsInTurn
<1>4. Main' = Main /\ (InTransition' <=> InTransition)
  BY SameDisk DEF Main
<1>5. Rotating'
  BY <1>2 DEF Rotating
<1>6. Backups \in Nat /\ 1 <= Backups + 2 /\ Backups + 2 # 1 /\ Backups + 2 \notin 2..(Backups + 1) /\ 1 \notin 2..(Backups + 1)
  BY Statics
<1>7. Len(todo') <= Backups + 2
  BY <1>2, <1>3, <1>6
<1>8. ~(Len(todo') \in 2..(Backups + 1)) /\ ~(Len(todo') = 1 /\ Main # Missing)
  BY <1>2, <1>3, <1>6
<1>9. RotationInv'
  BY <1>2, <1>3, <1>4, <1>7, <1>8 DEF RotationInv
<1>10. ASSUME NEW t \in Tokens, Restoring(Current, t)' PROVE FALSE
  <2>1. todo' = <<Fill(Current, 0, Content(t))>> \/ \E k \in 1..Backups : todo' = <<Copy(Current, k, 0)>>
    BY <1>10 DEF Restoring
  <2> QED BY <1>5, <2>1 DEF Rotating, Fill, Copy
<1> QED BY <1>5, <1>9, <1>10

(* Nothing is ahead.                                                       *)
LEMMA Idle ==
  /\ todo = << >> => ~Rotating /\ \A f \in Files, t \in Tokens : ~Restoring(f, t)
  /\ todo' = << >> => ~Rotating' /\ RotationInv' /\ \A t \in Tokens : ~Restoring(Current, t)'
<1>1. \A x : << >> # <<x>>
  OBVIOUS
<1>2. todo = << >> => ~Rotating /\ \A f \in Files, t \in Tokens : ~Restoring(f, t)
  BY <1>1 DEF Rotating, Restoring
<1>3. todo' = << >> => ~Rotating' /\ RotationInv'
  BY DEF Rotating, RotationInv
<1>4. ASSUME todo' = << >>, NEW t \in Tokens, Restoring(Current, t)' PROVE FALSE
  <2>1. todo' = <<Fill(Current, 0, Content(t))>> \/ \E k \in 1..Backups : todo' = <<Copy(Current, k, 0)>>
    BY <1>4 DEF Restoring
  <2> QED BY <1>1, <1>4, <2>1
<1> QED BY <1>2, <1>3, <1>4

LEMMA UpgradeLegacyKeepsChain ==
  ASSUME NEW L, NEW start, NEW h, NEW current, Beginning(L, start, h, current), StoreInv(L, start, h, current), UpgradeLegacy,
         SaveTypes, ChainParts
  PROVE  SaveTypes' /\ ChainParts'
<1>1. /\ PlainTypes(L) /\ TodoInv(L) /\ FilesInv(L) /\ L \in Layouts /\ pc = "down" /\ todo = << >> /\ Total = 0
      /\ MainInv /\ ReadableInv /\ TransitionInv
  BY DEF StoreInv, UpgradeLegacy, Beginning, TodoInv, ChainParts
<1>2. pc' = "saving" /\ todo' = SaveOps(Current, legacy) /\ SameFiles /\ disk' = disk
  BY DEF UpgradeLegacy, bounds, SameFiles
<1>3. L = {} /\ legacy = Captured
  BY <1>1 DEF UpgradeLegacy, PlainTypes
<1>4. Present = {}
  <2>1. SUFFICES ASSUME Present # {} PROVE FALSE
    OBVIOUS
  <2>2. PICK n : Indexed(L, n) /\ InForceNow(L, n)
    BY <1>1, <2>1, InForce
  <2> QED BY <1>1, <1>3, <2>2 DEF InForceNow
<1>5. Main = Missing
  BY <1>4, Statics DEF Present, ScanPartitionCheckpoints, Main
<1>6. saved.newer = NoToken /\ saved.older = NoToken /\ saved' = saved
  BY <1>1, <1>2, <1>5, KindsDiffer, Kinds DEF MainInv, SameFiles
<1>7. Rotating' /\ RotationInv'
  BY <1>2, <1>3, <1>5, Statics, SaveBegins
<1>8. ReadableInv' /\ TransitionInv'
  BY <1>2, <1>6 DEF ReadableInv, TransitionInv
<1> QED BY <1>1, <1>2, <1>7, <1>8, Idle, SameFilesKeepChain

(* The steps of a start that have nothing to do with a file.               *)
LEMMA ReadingKeepsChain ==
  ASSUME NEW L, NEW start, NEW h, NEW current, Beginning(L, start, h, current), StoreInv(L, start, h, current),
         SaveTypes, ChainParts, SameFiles, todo = << >>, todo' = << >>, pc \in {"down", "loading"},
         \/ pc' \in {"loading", "refused"}
         \/ pc' = "opening" /\ ~InTransition
  PROVE  SaveTypes' /\ ChainParts'
<1>1. TransitionInv /\ disk' = disk /\ saved' = saved /\ crashes' = crashes
  BY DEF ChainParts, SameFiles
<1>2. InTransition' <=> InTransition
  BY <1>1, SameDisk
<1>3. ~Rotating /\ RotationInv' /\ \A t \in Tokens : ~Restoring(Current, t)'
  BY Idle
<1>4. ReadableInv'
  BY <1>3 DEF ReadableInv
<1>5. TransitionInv'
  BY <1>1, <1>2 DEF TransitionInv
<1> QED BY <1>3, <1>4, <1>5, SameFilesKeepChain

(* The first version that can be read is one of the last two saves.        *)
LEMMA LoadsAKnownSave ==
  ASSUME NEW L, NEW start, NEW h, NEW current, Beginning(L, start, h, current), StoreInv(L, start, h, current),
         SaveTypes, MainInv, KeptInv, saved.older # NoToken, Reach <= Backups, Rotating => Reach < Backups
  PROVE  Content(LoadResumeToken(Current)) \in Known
<1>1. disk \in Disks /\ Current \in Files
  BY Statics DEF StoreInv, PlainTypes, Disks
<1>2. PICK d \in [0..Backups -> Contents] : d = disk[Current]
  BY <1>1 DEF Disks
<1>3. Main = d[0]
  BY <1>2 DEF Main
<1>4. PICK t : t = LoadResumeToken(Current)
  OBVIOUS
<1>5. /\ t \in Tokens \cup {NoToken}
      /\ t = NoToken => d[0] \in {Missing, Torn, Outdated}
      /\ t # NoToken => d[0] = Content(t) \/ d[0] = Torn
  BY <1>1, <1>2, <1>4, Loaded
<1>6. Main = Torn \/ (Main.is = "token" /\ Main \in Known)
  BY KindsDiffer, Kinds DEF MainInv
<1>7. CASE Main # Torn
  <2>1. d[0] \notin {Missing, Torn, Outdated} /\ Main \in Known
    BY <1>3, <1>6, <1>7, KindsDiffer
  <2> QED BY <1>3, <1>4, <1>5, <2>1
<1>8. CASE Main = Torn
  <2>1. PICK k \in 1..Backups : Kept(k)
    BY <1>8 DEF KeptInv
  <2>2. d[k] \in Known /\ \A j \in 1..(k - 1) : d[j].is # "token"
    BY <1>2, <2>1 DEF Kept, FirstIn
  <2>3. PICK B \in Nat : B = Backups
    BY Statics
  <2>4. Readable(Current) = {j \in 0..B : d[j] \notin {Missing, Torn, Outdated}}
    BY <1>2, <2>3 DEF Readable
  <2>5. d[k] \notin {Missing, Torn, Outdated}
    BY <2>2, KnownIsReadable, KindsDiffer
  <2>6. \A j \in 0..B : j < k => d[j] \in {Missing, Torn, Outdated}
    <3>1. ASSUME NEW j \in 0..B, j < k PROVE d[j] \in {Missing, Torn, Outdated}
      <4>1. CASE j = 0
        BY <1>3, <1>8, <4>1
      <4>2. CASE j # 0
        <5>1. j \in 1..(k - 1) /\ d[j] \in Contents
          BY <2>3, <3>1, <4>2
        <5> QED BY <2>2, <5>1, Kinds
      <4> QED BY <4>1, <4>2
    <3> QED BY <3>1
  <2>7. k \in Readable(Current) /\ \A m \in Readable(Current) : k <= m
    <3>1. k \in 0..B /\ \A m \in 0..B : m < k \/ k <= m
      BY <2>3
    <3> QED BY <2>4, <2>5, <2>6, <3>1
  <2>8. \A i \in Readable(Current) : (\A m \in Readable(Current) : i <= m) => i = k
    <3>1. ASSUME NEW i \in Readable(Current), \A m \in Readable(Current) : i <= m PROVE i = k
      <4>1. i \in 0..B /\ i <= k /\ k <= i
        BY <2>4, <2>7, <3>1
      <4> QED BY <2>3, <4>1
    <3> QED BY <3>1
  <2>9. Version(Current) = k
    <3>1. Main \notin {Missing, Outdated} /\ Readable(Current) # {}
      BY <1>8, <2>7, KindsDiffer
    <3> QED BY <2>7, <2>8, <3>1 DEF Version, Main
  <2>10. k # -1
    BY <2>3
  <2>11. LoadResumeToken(Current) = d[k].tok
    BY <1>2, <2>9, <2>10 DEF LoadResumeToken
  <2>12. \E u : d[k] = Content(u)
    BY <2>2 DEF Known
  <2>13. d[k] = Content(d[k].tok)
    BY <2>12 DEF Content
  <2> QED BY <2>2, <2>11, <2>13
<1> QED BY <1>7, <1>8

LEMMA DeletingIsPlain ==
  ASSUME NEW L \in Layouts, todo' \in Seq(DeleteOp(L))
  PROVE  ~Rotating' /\ RotationInv' /\ \A t \in Tokens : ~Restoring(Current, t)'
<1>1. PICK ops \in Seq(DeleteOp(L)) : ops = todo'
  OBVIOUS
<1>2. \A i \in DOMAIN ops : ops[i].op = "remove"
  <2>1. ASSUME NEW i \in DOMAIN ops PROVE ops[i] \in DeleteOp(L)
    BY LenProperties, ElementOfSeq
  <2> QED BY <2>1, DeleteOpFields
<1>3. ops # << >> => ops[Len(ops)].op = "remove"
  <2>1. ops # << >> => Len(ops) \in DOMAIN ops
    OBVIOUS
  <2> QED BY <1>2, <2>1
<1>4. ~Rotating'
  BY <1>1, <1>3 DEF Rotating
<1>5. ASSUME NEW t \in Tokens, Restoring(Current, t)' PROVE FALSE
  <2>1. todo' = <<Fill(Current, 0, Content(t))>> \/ \E k \in 1..Backups : todo' = <<Copy(Current, k, 0)>>
    BY <1>5 DEF Restoring
  <2>2. PICK o : ops = <<o>> /\ o.op # "remove"
    BY <1>1, <2>1 DEF Fill, Copy
  <2>3. 1 \in DOMAIN ops /\ ops[1] = o
    BY <2>2
  <2> QED BY <1>2, <2>2, <2>3
<1> QED BY <1>4, <1>5 DEF RotationInv

LEMMA LoadKeepsChain ==
  ASSUME NEW L, NEW start, NEW h, NEW current, Beginning(L, start, h, current), StoreInv(L, start, h, current), Load,
         SaveTypes, crashes < Backups, ChainParts
  PROVE  SaveTypes' /\ ChainParts'
<1>1. /\ PlainTypes(L) /\ FilesInv(L) /\ L \in Layouts /\ pc = "loading" /\ todo = << >>
      /\ MainInv /\ TransitionInv /\ KeptInv
  BY DEF StoreInv, Load, Beginning, ChainParts
<1>2. PICK f \in Active : f[1] = at /\ LoadResumeToken(f) # NoToken
  BY DEF Load
<1>3. FileOf(at) = f /\ f \in Files /\ f \in Present
  BY <1>1, <1>2, FileIs
<1>4. SameFiles /\ disk' = disk /\ saved' = saved /\ crashes' = crashes /\ pc' = pc /\ todo' = RestoreOps(f)
  BY <1>3 DEF Load, bounds, SameFiles
<1>5. InTransition' <=> InTransition
  BY <1>4, SameDisk
<1>6. PICK t : t = LoadResumeToken(f)
  OBVIOUS
<1>7. \/ todo' = << >>
      \/ disk[f][0] = Torn /\ \E k \in 1..Backups : disk[f][k] = Content(t) /\ todo' = <<Copy(f, k, 0)>>
  BY <1>1, <1>2, <1>3, <1>4, <1>6, Loaded, Statics DEF PlainTypes, Disks
<1>8. ~Rotating'
  BY <1>7 DEF Rotating, Copy
<1>9. RotationInv'
  BY <1>8 DEF RotationInv
<1>10. ~Rotating /\ Known' = Known
  BY <1>1, <1>4, Idle DEF Known
<1>11. ASSUME saved.older # NoToken, NEW u \in Tokens, Restoring(Current, u)' PROVE Content(u) \in Known
  <2>1. todo' # << >>
    BY <1>11, Idle
  <2>2. PICK k \in 1..Backups : disk[f][k] = Content(t) /\ todo' = <<Copy(f, k, 0)>>
    BY <1>7, <2>1
  <2>3. PICK m \in 1..Backups : disk[Current][m] = Content(u) /\ todo' = <<Copy(Current, m, 0)>>
    <3>1. \/ todo' = <<Fill(Current, 0, Content(u))>>
          \/ \E m \in 1..Backups : disk'[Current][m] = Content(u) /\ todo' = <<Copy(Current, m, 0)>>
      BY <1>11 DEF Restoring
    <3>2. todo' # <<Fill(Current, 0, Content(u))>>
      BY <2>2 DEF Fill, Copy
    <3> QED BY <1>4, <3>1, <3>2
  <2>4. Copy(f, k, 0) = Copy(Current, m, 0)
    BY <2>2, <2>3
  <2>5. f = Current /\ k = m
    BY <2>4 DEF Copy
  <2>6. ~InTransition
    <3>1. PICK n : Indexed(L, n) /\ InForceNow(L, n)
      BY <1>1, <1>3, InForce
    <3>2. Current \in Active
      BY <1>2, <2>5
    <3> QED BY <3>1, <3>2 DEF InForceNow
  <2>7. Reach <= Backups
    <3>1. Reach = crashes + 1 /\ crashes \in Nat
      BY <2>6 DEF Reach, SaveTypes
    <3> QED BY <3>1, Statics
  <2>8. Content(LoadResumeToken(Current)) \in Known
    BY <1>1, <1>10, <1>11, <2>7, LoadsAKnownSave
  <2> QED BY <1>6, <2>2, <2>3, <2>5, <2>8
<1>12. ReadableInv'
  BY <1>1, <1>4, <1>10, <1>11 DEF ReadableInv
<1>13. TransitionInv'
  BY <1>1, <1>4, <1>5 DEF TransitionInv
<1> QED BY <1>4, <1>9, <1>10, <1>12, <1>13, SameFilesKeepChain

LEMMA AssessKeepsChain ==
  ASSUME NEW L, NEW start, NEW h, NEW current, Beginning(L, start, h, current), StoreInv(L, start, h, current), Assess,
         SaveTypes, ChainParts
  PROVE  SaveTypes' /\ ChainParts'
<1>1. /\ PlainTypes(L) /\ FilesInv(L) /\ LoadInv(L) /\ L \in Layouts /\ pc = "loading" /\ todo = << >> /\ fetched # NoToken
      /\ TransitionInv
  BY DEF StoreInv, Assess, Beginning, ChainParts
<1>2. SameFiles /\ disk' = disk /\ saved' = saved /\ crashes' = crashes
  BY DEF Assess, bounds, SameFiles
<1>3. PICK best : best = Minimum(FileOf(at), fetched, found)
  OBVIOUS
<1>4. \/ at < Total /\ pc' = pc /\ todo' = todo
      \/ at = Total /\ ~InTransition /\ pc' = "opening" /\ todo' = todo
      \/ at = Total /\ InTransition /\ best = Nothing /\ pc' = "refused" /\ todo' = todo
      \/ at = Total /\ InTransition /\ best # Nothing /\ pc' = "saving" /\ todo' = SaveOps(Current, best.tok)
  BY <1>3 DEF Assess
<1>5. CASE pc' \in {"loading", "refused"} /\ todo' = << >>
  BY <1>1, <1>2, <1>5, ReadingKeepsChain
<1>6. CASE ~InTransition /\ pc' = "opening" /\ todo' = todo
  BY <1>1, <1>2, <1>6, ReadingKeepsChain
<1>7. CASE InTransition /\ best # Nothing /\ pc' = "saving" /\ todo' = SaveOps(Current, best.tok)
  <2>1. best.tok \in Tokens
    <3>1. fetched \in Tokens
      BY <1>1 DEF PlainTypes
    <3>2. found # Nothing => found.tok \in Tokens
      BY <1>1 DEF PlainTypes, FoundTokens
    <3>3. best = found \/ best.tok = fetched
      BY <1>3 DEF Minimum
    <3> QED BY <1>7, <3>1, <3>2, <3>3
  <2>2. Rotating' /\ RotationInv' /\ \A t \in Tokens : ~Restoring(Current, t)'
    <3>1. PICK t \in Tokens : t = best.tok
      BY <2>1
    <3> QED BY <1>2, <1>7, <3>1, SaveBegins
  <2>3. ReadableInv'
    BY <1>7, <2>2 DEF ReadableInv
  <2>4. TransitionInv'
    <3>1. InTransition' <=> InTransition
      BY <1>2, SameDisk
    <3> QED BY <1>1, <1>2, <1>7, <3>1 DEF TransitionInv
  <2>5. ~Rotating
    BY <1>1, Idle
  <2> QED BY <1>2, <2>2, <2>3, <2>4, <2>5, SameFilesKeepChain
<1> QED BY <1>1, <1>4, <1>5, <1>6, <1>7

(* The old files go, and today's file is in force.                         *)
LEMMA CleanUpKeepsChain ==
  ASSUME NEW L, NEW start, NEW h, NEW current, Beginning(L, start, h, current), StoreInv(L, start, h, current),
         CleanUp \/ CleanedUp \/ \E f \in old : DeleteNext(f), faults = 0,
         SaveTypes, ChainParts
  PROVE  SaveTypes' /\ ChainParts'
<1>1. /\ PlainTypes(L) /\ FilesInv(L) /\ DeleteInv(L) /\ L \in Layouts /\ todo = << >> /\ TransitionInv
      /\ pc \in {"saving", "deleting"}
  BY DEF StoreInv, CleanUp, CleanedUp, DeleteNext, Beginning, ChainParts
<1>2. SameFiles /\ disk' = disk /\ saved' = saved /\ crashes' = crashes
  BY DEF CleanUp, CleanedUp, DeleteNext, bounds, SameFiles
<1>3. pc' = "opening" => todo' = << >> /\ ~InTransition
  <2>1. CASE CleanUp
    <3>1. pc' = "opening" => L \cap Present = {}
      BY <1>1, <2>1 DEF CleanUp, FilesInv
    <3> QED BY <1>1, <2>1, <3>1, InTransitionIs DEF CleanUp
  <2>2. CASE CleanedUp
    <3>1. L \cap Present = {}
      BY <1>1, <2>2 DEF CleanedUp, DeleteInv, AboutToGo
    <3> QED BY <1>1, <2>2, <3>1, InTransitionIs DEF CleanedUp
  <2>3. CASE \E f \in old : DeleteNext(f)
    BY <2>3 DEF DeleteNext
  <2> QED BY <2>1, <2>2, <2>3
<1>4. pc' \in {"opening", "deleting"}
  BY DEF CleanUp, CleanedUp, DeleteNext
<1>5. ~Rotating' /\ RotationInv' /\ \A t \in Tokens : ~Restoring(Current, t)'
  <2>1. CASE todo' = << >>
    BY <2>1, Idle
  <2>2. CASE \E f \in old : todo' = DeleteOps(f)
    <3>1. PICK f \in L \ {Current} : todo' = DeleteOps(f)
      BY <1>1, <2>2 DEF PlainTypes
    <3>2. PICK ops : ops = DeleteOps(f)
      OBVIOUS
    <3>3. ops \in Seq(DeleteOp(L))
      BY <1>1, <3>2, DeleteOpsShape
    <3>4. todo' \in Seq(DeleteOp(L))
      BY <3>1, <3>2, <3>3
    <3> QED BY <1>1, <3>4, DeletingIsPlain
  <2>3. todo' = << >> \/ \E f \in old : todo' = DeleteOps(f)
    BY <1>1 DEF CleanUp, CleanedUp, DeleteNext
  <2> QED BY <2>1, <2>2, <2>3
<1>6. ReadableInv'
  BY <1>4, <1>5 DEF ReadableInv
<1>7. TransitionInv'
  <2>1. InTransition' <=> InTransition
    BY <1>2, SameDisk
  <2> QED BY <1>1, <1>2, <1>3, <1>4, <1>5, <2>1 DEF TransitionInv
<1>8. ~Rotating
  BY <1>1, Idle
<1> QED BY <1>2, <1>5, <1>6, <1>7, <1>8, SameFilesKeepChain

LEMMA OpenStreamKeepsChain ==
  ASSUME NEW L, NEW start, NEW h, NEW current, Beginning(L, start, h, current), StoreInv(L, start, h, current), OpenStream,
         SaveTypes, ChainParts
  PROVE  SaveTypes' /\ ChainParts'
<1>1. /\ PlainTypes(L) /\ L \in Layouts /\ pc = "opening" /\ todo = << >>
      /\ MainInv /\ TransitionInv /\ KeptInv
  BY DEF StoreInv, OpenStream, Beginning, ChainParts
<1>2. PICK t : t = LoadResumeToken(Current)
  OBVIOUS
<1>3. /\ pc' = "running" /\ todo' = RestoreOps(Current) /\ t # NoToken /\ disk' = disk
      /\ saved' = IF t = saved.newer THEN saved ELSE [older |-> NoToken, newer |-> t]
      /\ crashes' = crashes /\ corruptions' = corruptions
  BY <1>2 DEF OpenStream, bounds
<1>4. /\ t \in Tokens
      /\ \/ Main = Content(t) /\ todo' = << >>
         \/ Main = Torn /\ \E k \in 1..Backups : disk[Current][k] = Content(t) /\ todo' = <<Copy(Current, k, 0)>>
  BY <1>1, <1>2, <1>3, Loaded, Statics DEF PlainTypes, Disks, Main
<1>5. Main' = Main /\ (InTransition' <=> InTransition) /\ ~InTransition /\ ~Rotating
  BY <1>1, <1>3, SameDisk, Idle DEF Main, TransitionInv
<1>6. ~Rotating' /\ RotationInv'
  BY <1>4 DEF Rotating, Copy, RotationInv
<1>7. saved.newer # NoToken /\ saved'.newer = t /\ t # NoToken /\ (saved'.older # NoToken => saved' = saved)
  <2>1. Main # Missing
    BY <1>4, Kinds, KindsDiffer
  <2> QED BY <1>1, <1>3, <2>1 DEF MainInv
<1>8. SaveTypes'
  <2>1. [older |-> NoToken, newer |-> t] \in [older : Tokens \cup {NoToken}, newer : Tokens \cup {NoToken}]
    BY <1>4
  <2> QED BY <1>3, <2>1 DEF SaveTypes
<1>9. MainInv'
  <2>1. Main = Torn \/ Main.is = "token"
    BY <1>4, Kinds
  <2>2. corruptions = 0 => Main = Content(t)
    <3>1. corruptions = 0 => Main = Content(saved.newer)
      BY <1>1, <1>7 DEF MainInv
    <3>2. Content(saved.newer) # Torn
      BY KindsDiffer DEF Content
    <3> QED BY <1>4, <3>1, <3>2
  <2>3. saved'.older # NoToken /\ Main # Torn => Main \in Known'
    <3>1. saved' = saved => Known' = Known
      BY DEF Known
    <3> QED BY <1>1, <1>7, <3>1 DEF MainInv
  <2> QED BY <1>3, <1>5, <1>7, <2>1, <2>2, <2>3 DEF MainInv
<1>10. ReadableInv'
  <2>1. ASSUME Saving' PROVE Main.is = "token" /\ todo' = << >>
    <3>1. CASE Main = Content(t) /\ todo' = << >>
      BY <1>4, <3>1, Kinds
    <3>2. ASSUME NEW k \in 1..Backups, todo' = <<Copy(Current, k, 0)>> PROVE FALSE
      <4>1. PICK c : c = Copy(Current, k, 0)
        OBVIOUS
      <4>2. <<c>> \in Seq(SaveOp) /\ Head(<<c>>) = c /\ <<c>> # << >>
        BY <2>1, <3>2, <4>1 DEF Saving
      <4>3. c \in SaveOp /\ c.op = "copy" /\ c.to = 0
        BY <4>1, <4>2, TailIs DEF Copy
      <4> QED BY <4>3, SaveOpFields
    <3> QED BY <1>4, <3>1, <3>2
  <2>2. ASSUME saved'.older # NoToken, NEW u \in Tokens, Restoring(Current, u)' PROVE Content(u) \in Known'
    <3>1. todo' # << >>
      BY <2>2, Idle
    <3>2. PICK k \in 1..Backups : disk[Current][k] = Content(t) /\ todo' = <<Copy(Current, k, 0)>>
      BY <1>4, <3>1
    <3>3. \/ todo' = <<Fill(Current, 0, Content(u))>>
          \/ \E m \in 1..Backups : disk'[Current][m] = Content(u) /\ todo' = <<Copy(Current, m, 0)>>
      BY <2>2 DEF Restoring
    <3>4. todo' # <<Fill(Current, 0, Content(u))>>
      BY <3>2 DEF Fill, Copy
    <3>5. PICK m \in 1..Backups : disk[Current][m] = Content(u) /\ todo' = <<Copy(Current, m, 0)>>
      BY <1>3, <3>3, <3>4
    <3>6. Copy(Current, k, 0) = Copy(Current, m, 0)
      BY <3>2, <3>5
    <3>7. k = m
      BY <3>6 DEF Copy
    <3>8. Content(u) = Content(saved'.newer)
      BY <1>7, <3>2, <3>5, <3>7
    <3> QED BY <3>8 DEF Known
  <2> QED BY <1>5, <2>1, <2>2 DEF ReadableInv
<1>11. TransitionInv'
  BY <1>5 DEF TransitionInv
<1>12. KeptInv'
  <2>1. CASE saved'.older = NoToken
    BY <2>1 DEF KeptInv
  <2>2. CASE saved' = saved
    <3>1. Reach' = Reach /\ Reach \in Nat
      BY <1>3, <1>5 DEF Reach, SaveTypes
    <3>2. Reach \in Nat /\ Reach' \in Nat /\ Reach <= Reach'
      BY <3>1
    <3>3. \A k \in 1..Backups : disk'[Current][k] = disk[Current][k]
      BY <1>3
    <3> QED BY <1>1, <1>3, <1>5, <2>2, <3>2, <3>3, KeptStays
  <2> QED BY <1>7, <2>1, <2>2
<1> QED BY <1>6, <1>8, <1>9, <1>10, <1>11, <1>12 DEF ChainParts

LEMMA SaveTokenKeepsChain ==
  ASSUME NEW L, NEW start, NEW h, NEW current, Beginning(L, start, h, current), StoreInv(L, start, h, current),
         NEW tok \in Tokens, SaveToken(tok), SaveTypes, ChainParts
  PROVE  SaveTypes' /\ ChainParts'
<1>1. pc = "running" /\ todo = << >> /\ ReadableInv /\ TransitionInv
  BY DEF SaveToken, ChainParts
<1>2. SameFiles /\ disk' = disk /\ pc' = pc /\ todo' = SaveOps(Current, tok)
  BY DEF SaveToken, bounds, SameFiles
<1>3. Rotating' /\ RotationInv' /\ \A t \in Tokens : ~Restoring(Current, t)'
  BY <1>1, <1>2, SaveBegins
<1>4. Main.is = "token" /\ Main' = Main
  <2>1. << >> \in Seq(SaveOp)
    BY EmptySeq
  <2> QED BY <1>1, <1>2, <2>1 DEF ReadableInv, Saving, Main
<1>5. ReadableInv'
  BY <1>3, <1>4 DEF ReadableInv
<1>6. TransitionInv'
  <2>1. InTransition' <=> InTransition
    BY <1>2, SameDisk
  <2> QED BY <1>1, <1>2, <2>1 DEF TransitionInv
<1> QED BY <1>1, <1>2, <1>3, <1>5, <1>6, Idle, SameFilesKeepChain

(* A crash costs a version, whatever it interrupts.                        *)
LEMMA CrashKeepsChain ==
  ASSUME Crash, SaveTypes, ChainParts
  PROVE  SaveTypes' /\ ChainParts'
<1>1. MainInv /\ TransitionInv /\ KeptInv /\ crashes \in Nat
  BY DEF ChainParts, SaveTypes
<1>2. /\ pc' = "down" /\ todo' = << >> /\ disk' = disk /\ saved' = saved /\ crashes' = crashes + 1
      /\ corruptions' = corruptions
  BY DEF Crash
<1>3. Main' = Main /\ Known' = Known /\ (InTransition' <=> InTransition)
  BY <1>2, SameDisk DEF Main, Known
<1>4. SaveTypes' /\ crashes' # 0
  BY <1>1, <1>2 DEF SaveTypes
<1>5. MainInv'
  BY <1>1, <1>2, <1>3 DEF MainInv
<1>6. RotationInv' /\ ReadableInv'
  BY <1>2, Idle DEF ReadableInv
<1>7. TransitionInv'
  BY <1>2, <1>4 DEF TransitionInv
<1>8. KeptInv'
  <2>1. Reach \in Nat /\ Reach' \in Nat /\ Reach' = Reach + 1
    BY <1>1, <1>2, <1>3 DEF Reach
  <2>2. Reach <= Reach' /\ Reach < Reach'
    BY <2>1
  <2> QED BY <1>1, <1>2, <1>3, <2>1, <2>2, KeptStays
<1> QED BY <1>4, <1>5, <1>6, <1>7, <1>8 DEF ChainParts

LEMMA CorruptKeepsChain ==
  ASSUME NEW L, NEW start, NEW h, NEW current, Beginning(L, start, h, current), StoreInv(L, start, h, current), Corrupt,
         corruptions' <= 1, SaveTypes, ChainParts
  PROVE  SaveTypes' /\ ChainParts'
<1>1. /\ PlainTypes(L) /\ TodoInv(L) /\ L \in Layouts /\ pc = "down" /\ todo = << >>
      /\ MainInv /\ TransitionInv /\ KeptInv /\ crashes \in Nat
  BY DEF StoreInv, Corrupt, Beginning, TodoInv, ChainParts, SaveTypes
<1>2. PICK f \in Files : disk[f][0].is = "token" /\ disk' = [disk EXCEPT ![f][0] = Torn]
  BY DEF Corrupt
<1>3. pc' = pc /\ todo' = todo /\ saved' = saved /\ crashes' = crashes /\ corruptions' = corruptions + 1
  BY DEF Corrupt, memory
<1>4. corruptions = 0 /\ corruptions' # 0
  BY <1>1, <1>3 DEF PlainTypes
<1>5. Torn # Missing /\ disk[f][0] # Missing /\ 0 \in 0..Backups /\ Current \in Files /\ 0 \notin 1..Backups
  BY <1>2, KindsDiffer, Statics
<1>6. /\ disk'[f][0] = Torn
      /\ \A g \in Files, k \in 0..Backups : (g # f \/ k # 0) => disk'[g][k] = disk[g][k]
  BY <1>1, <1>2, <1>5 DEF PlainTypes
<1>7. InTransition' <=> InTransition
  <2>1. \A g \in Files : disk'[g][0] = Missing <=> disk[g][0] = Missing
    BY <1>5, <1>6
  <2> QED BY <2>1, SamePresence
<1>8. Main' = Main \/ (Main' = Torn /\ Main.is = "token")
  BY <1>2, <1>5, <1>6 DEF Main
<1>9. SaveTypes' /\ Known' = Known
  BY <1>3 DEF SaveTypes, Known
<1>10. MainInv'
  BY <1>1, <1>3, <1>4, <1>8, <1>9, KindsDiffer DEF MainInv
<1>11. RotationInv' /\ ReadableInv' /\ ~Rotating
  BY <1>1, <1>3, Idle DEF ReadableInv
<1>12. TransitionInv'
  BY <1>1, <1>3, <1>7 DEF TransitionInv
<1>13. KeptInv'
  <2>1. Reach' = Reach /\ Reach \in Nat
    BY <1>1, <1>3, <1>7 DEF Reach
  <2>2. Reach \in Nat /\ Reach' \in Nat /\ Reach <= Reach'
    BY <2>1
  <2>3. \A k \in 1..Backups : disk'[Current][k] = disk[Current][k]
    <3>1. \A k \in 1..Backups : k \in 0..Backups /\ k # 0
      BY Statics
    <3> QED BY <1>5, <1>6, <3>1
  <2> QED BY <1>1, <1>3, <1>4, <1>11, <2>2, <2>3, KeptStays
<1> QED BY <1>9, <1>10, <1>11, <1>12, <1>13 DEF ChainParts

LEMMA RestoreKeepsChain ==
  ASSUME NEW L, NEW start, NEW h, NEW current, Beginning(L, start, h, current), StoreInv(L, start, h, current), Perform,
         NEW f \in Files, NEW t \in Tokens, Restoring(f, t),
         \/ pc = "running" /\ f = Current
         \/ pc = "loading" /\ f \in Active /\ f[1] = at /\ fetched = t,
         SaveTypes, ChainParts
  PROVE  SaveTypes' /\ ChainParts'
<1>1. /\ PlainTypes(L) /\ L \in Layouts /\ MainInv /\ ReadableInv /\ TransitionInv /\ KeptInv /\ crashes \in Nat
  BY DEF StoreInv, Beginning, ChainParts, SaveTypes
<1>2. /\ \A g \in Files, k \in 0..Backups : (g # f \/ k # 0) => disk'[g][k] = disk[g][k]
      /\ \/ todo' = << >> /\ disk'[f][0] = Content(t)
         \/ todo' = <<Fill(f, 0, Content(t))>> /\ disk'[f][0] = Torn
  BY RestoreIs
<1>3. pc' = pc /\ crashes' = crashes /\ corruptions' = corruptions
  BY DEF Perform, bounds
<1>4. saved' = saved
  <2>1. \/ todo = <<Fill(f, 0, Content(t))>>
        \/ \E k \in 1..Backups : todo = <<Copy(f, k, 0)>>
    BY DEF Restoring
  <2>2. Head(todo).op # "write"
    BY <2>1 DEF Fill, Copy
  <2> QED BY <2>2 DEF Perform
<1>5. disk[f][0] = Torn /\ Torn # Missing /\ Content(t) # Missing /\ Content(t) # Torn /\ Content(t).is = "token"
  BY Kinds, KindsDiffer DEF Restoring
<1>6. 0 \in 0..Backups /\ Current \in Files /\ \A k \in 1..Backups : k \in 0..Backups /\ k # 0
  BY Statics
<1>7. InTransition' <=> InTransition
  <2>1. \A g \in Files : disk'[g][0] = Missing <=> disk[g][0] = Missing
    BY <1>2, <1>5, <1>6
  <2> QED BY <2>1, SamePresence
<1>8. SaveTypes' /\ Known' = Known
  BY <1>3, <1>4 DEF SaveTypes, Known
<1>9. ~Rotating'
  BY <1>2 DEF Rotating, Fill
<1>10. RotationInv' /\ TransitionInv'
  BY <1>1, <1>3, <1>4, <1>7, <1>9 DEF RotationInv, TransitionInv
<1>11. f # Current => Main' = Main
  BY <1>2, <1>6 DEF Main
<1>12. f = Current => Main = Torn /\ (Main' = Torn \/ Main' = Content(t))
  BY <1>2, <1>5 DEF Main
<1>13. f = Current /\ saved.older # NoToken => Content(t) \in Known
  BY <1>1 DEF ReadableInv
<1>14. MainInv'
  <2>1. CASE f # Current
    BY <1>1, <1>3, <1>4, <1>8, <1>11, <2>1 DEF MainInv
  <2>2. CASE f = Current
    <3>1. saved.newer # NoToken
      BY <1>1, <1>5, <1>12, <2>2 DEF MainInv
    <3>2. corruptions # 0
      <4>1. Content(saved.newer) # Torn
        BY KindsDiffer DEF Content
      <4> QED BY <1>1, <1>12, <2>2, <3>1, <4>1 DEF MainInv
    <3> QED BY <1>3, <1>4, <1>5, <1>8, <1>12, <1>13, <2>2, <3>1, <3>2 DEF MainInv
  <2> QED BY <2>1, <2>2
<1>15. ReadableInv'
  <2>1. ASSUME pc = "running", Saving' PROVE Main'.is = "token" /\ todo' = << >>
    <3>1. f = Current
      BY <2>1
    <3>2. ASSUME todo' = <<Fill(f, 0, Content(t))>> PROVE FALSE
      <4>1. PICK c : c = Fill(f, 0, Content(t))
        OBVIOUS
      <4>2. <<c>> \in Seq(SaveOp) /\ Head(<<c>>) = c /\ <<c>> # << >>
        BY <2>1, <3>2, <4>1 DEF Saving
      <4>3. c \in SaveOp /\ c.op = "fill" /\ c.to = 0
        BY <4>1, <4>2, TailIs DEF Fill
      <4> QED BY <4>3, SaveOpFields
    <3> QED BY <1>2, <1>5, <3>1, <3>2 DEF Main
  <2>2. ASSUME saved.older # NoToken, NEW u \in Tokens, Restoring(Current, u)' PROVE Content(u) \in Known
    <3>1. todo' # << >>
      BY <2>2, Idle
    <3>2. todo' = <<Fill(f, 0, Content(t))>>
      BY <1>2, <3>1
    <3>3. todo' = <<Fill(Current, 0, Content(u))>> \/ \E m \in 1..Backups : todo' = <<Copy(Current, m, 0)>>
      BY <2>2 DEF Restoring
    <3>4. Fill(f, 0, Content(t)) = Fill(Current, 0, Content(u))
      BY <3>2, <3>3 DEF Fill, Copy
    <3>5. f = Current /\ Content(t) = Content(u)
      BY <3>4 DEF Fill
    <3> QED BY <1>13, <2>2, <3>5
  <2> QED BY <1>3, <1>4, <1>8, <2>1, <2>2 DEF ReadableInv
<1>16. KeptInv'
  <2>1. Reach' = Reach /\ Reach \in Nat
    BY <1>1, <1>3, <1>7 DEF Reach
  <2>2. Reach \in Nat /\ Reach' \in Nat /\ Reach <= Reach'
    BY <2>1
  <2>3. \A k \in 1..Backups : disk'[Current][k] = disk[Current][k]
    BY <1>2, <1>6
  <2>4. ~Rotating
    BY RestoringDoesNotRotate
  <2> QED BY <1>1, <1>3, <1>4, <1>11, <1>12, <2>2, <2>3, <2>4, KeptStays
<1> QED BY <1>8, <1>10, <1>14, <1>15, <1>16 DEF ChainParts

LEMMA DeleteKeepsChain ==
  ASSUME NEW L, NEW start, NEW h, NEW current, Beginning(L, start, h, current), StoreInv(L, start, h, current),
         FilesInv(L)', Perform, pc = "deleting", todo \in Seq(DeleteOp(L)), SaveTypes, ChainParts
  PROVE  SaveTypes' /\ ChainParts'
<1>1. /\ PlainTypes(L) /\ FilesInv(L) /\ L \in Layouts /\ MainInv /\ TransitionInv /\ KeptInv /\ crashes \in Nat
  BY DEF StoreInv, Beginning, ChainParts, SaveTypes
<1>2. PICK o \in Operation :
        /\ o = Head(todo) /\ todo # << >> /\ disk' = Effect(o)
        /\ o.op # "copy" => todo' = << >> \o Tail(todo)
  BY PerformIs
<1>3. o \in DeleteOp(L) /\ Tail(todo) \in Seq(DeleteOp(L))
  BY <1>2, TailIs
<1>4. o.op = "remove" /\ o.file # Current
  BY <1>1, <1>3, DeleteOpFields
<1>5. todo' \in Seq(DeleteOp(L))
  <2>1. << >> \o Tail(todo) = Tail(todo)
    BY <1>3
  <2> QED BY <1>2, <1>3, <1>4, <2>1
<1>6. saved' = saved /\ crashes' = crashes /\ corruptions' = corruptions /\ pc' = pc
  BY <1>2, <1>4 DEF Perform, bounds
<1>7. ~Rotating' /\ RotationInv' /\ \A t \in Tokens : ~Restoring(Current, t)'
  BY <1>1, <1>5, DeletingIsPlain
<1>8. disk \in Disks /\ Current \in Files /\ 0 \in 0..Backups
  BY <1>1, Statics DEF PlainTypes, Disks
<1>9. disk'[Current] = disk[Current] /\ \A f \in Files : disk'[f][0] = Missing \/ disk'[f][0] = disk[f][0]
  <2>1. PICK after : after = disk'
    OBVIOUS
  <2>2. \A f \in Files \ {o.file} : after[f] = disk[f]
    BY <1>2, <1>8, <2>1, Effects
  <2>3. after[o.file][0] = IF o.from = 0 THEN Missing ELSE disk[o.file][0]
    BY <1>2, <1>4, <1>8, <2>1, Effects
  <2> QED BY <1>4, <1>8, <2>1, <2>2, <2>3
<1>10. InTransition' => InTransition
  <2>1. Present' \subseteq Present
    BY <1>9 DEF Present, ScanPartitionCheckpoints
  <2>2. Current \in Present => Current \in Present'
    BY <1>9 DEF Present, ScanPartitionCheckpoints
  <2> QED BY <1>1, <2>1, <2>2, TransitionEnds
<1>11. SaveTypes' /\ Known' = Known /\ Main' = Main
  BY <1>6, <1>9 DEF SaveTypes, Known, Main
<1>12. MainInv'
  BY <1>1, <1>6, <1>11 DEF MainInv
<1>13. ReadableInv'
  BY <1>6, <1>7 DEF ReadableInv
<1>14. TransitionInv'
  BY <1>6, <1>7 DEF TransitionInv
<1>15. KeptInv'
  <2>1. Reach \in Nat /\ Reach' \in Nat /\ Reach <= Reach'
    <3>1. crashes' \in Nat /\ crashes <= crashes'
      BY <1>1, <1>6
    <3> QED BY <1>1, <1>10, <3>1, ReachIs
  <2>2. ~Rotating
    <3>1. ASSUME NEW i \in DOMAIN todo PROVE todo[i].op = "remove"
      <4>1. todo[i] \in DeleteOp(L)
        BY LenProperties, ElementOfSeq
      <4> QED BY <1>1, <4>1, DeleteOpFields
    <3>2. Len(todo) \in DOMAIN todo
      BY <1>2
    <3> QED BY <3>1, <3>2 DEF Rotating
  <2> QED BY <1>1, <1>6, <1>9, <1>11, <2>1, <2>2, KeptStays
<1> QED BY <1>7, <1>11, <1>12, <1>13, <1>14, <1>15 DEF ChainParts

LEMMA PerformKeepsChain ==
  ASSUME NEW L, NEW start, NEW h, NEW current, Beginning(L, start, h, current), StoreInv(L, start, h, current), Perform,
         SaveTypes, ChainParts
  PROVE  SaveTypes' /\ ChainParts'
<1>1. L \in Layouts /\ PlainTypes(L) /\ TodoInv(L) /\ todo # << >>
  BY DEF Beginning, StoreInv, Perform
<1>2. FilesInv(L)'
  BY PerformKeeps DEF StoreInv
<1>3. CASE pc \in {"saving", "running"} /\ todo \in Seq(SaveOp)
  BY <1>2, <1>3, SavePerformKeepsChain
<1>4. CASE pc = "deleting" /\ todo \in Seq(DeleteOp(L))
  BY <1>2, <1>4, DeleteKeepsChain
<1>5. CASE \E f \in Files, t \in Tokens :
             /\ Restoring(f, t)
             /\ \/ pc = "running" /\ f = Current
                \/ pc = "loading" /\ f \in Active /\ f[1] = at /\ fetched = t
  BY <1>5, RestoreKeepsChain
<1> QED BY <1>1, <1>3, <1>4, <1>5, HeadTells

LEMMA StutterKeepsChain ==
  ASSUME UNCHANGED vars, SaveTypes, ChainParts
  PROVE  SaveTypes' /\ ChainParts'
<1>1. disk' = disk /\ pc' = pc /\ todo' = todo /\ saved' = saved /\ crashes' = crashes /\ corruptions' = corruptions
  BY DEF vars, memory, bounds
<1>2. (InTransition' <=> InTransition) /\ Main' = Main /\ Known' = Known /\ (Rotating' <=> Rotating)
  BY <1>1, SameDisk DEF Main, Known, Rotating
<1>3. Reach' = Reach /\ Ahead' = Ahead
  BY <1>1, <1>2 DEF Reach, Ahead
<1>4. SaveTypes' /\ (RotationInv => RotationInv') /\ (MainInv => MainInv')
  BY <1>1, <1>2 DEF SaveTypes, RotationInv, MainInv
<1>5. (ReadableInv => ReadableInv') /\ (TransitionInv => TransitionInv')
  BY <1>1, <1>2 DEF ReadableInv, TransitionInv, Saving, Restoring
<1>6. KeptInv => KeptInv'
  BY <1>1, <1>2, <1>3 DEF KeptInv, Kept
<1> QED BY <1>4, <1>5, <1>6 DEF ChainParts

LEMMA InitImpliesChain == Init => ChainInv
<1> SUFFICES ASSUME Init PROVE ChainInv
  OBVIOUS
<1>1. PICK L \in Layouts : \E start \in [L -> Tokens] : \E older \in BOOLEAN : \E current \in BOOLEAN :
        /\ current \/ \E f \in L : f[2] = Contiguous
        /\ disk = LeftBehind(L, start, older, current)
        /\ saved = IF Current \in L
                   THEN [older |-> LET b == disk[Current][1] IN IF b = Missing THEN NoToken ELSE b.tok,
                         newer |-> start[Current]]
                   ELSE [older |-> NoToken, newer |-> NoToken]
  BY DEF Init
<1>2. PICK start \in [L -> Tokens], older \in BOOLEAN, current \in BOOLEAN :
        /\ current \/ \E f \in L : f[2] = Contiguous
        /\ disk = LeftBehind(L, start, older, current)
        /\ saved = IF Current \in L
                   THEN [older |-> IF disk[Current][1] = Missing THEN NoToken ELSE disk[Current][1].tok,
                         newer |-> start[Current]]
                   ELSE [older |-> NoToken, newer |-> NoToken]
  BY <1>1
<1>3. pc = "down" /\ todo = << >> /\ crashes = 0 /\ corruptions = 0
  BY DEF Init
<1>4. ~Rotating /\ \A t \in Tokens : ~Restoring(Current, t)
  BY <1>3, Idle, Statics
<1>5. RotationInv /\ ReadableInv
  BY <1>3, <1>4 DEF RotationInv, ReadableInv
<1>6. Current \in Files /\ 0 \in 0..Backups /\ 1 \in 0..Backups /\ 1 \in 1..Backups /\ ~(0 > 1) /\ ~(1 > 1) /\ Backups >= 1
  BY Statics
<1>7. /\ Main = IF Current \notin L THEN Missing ELSE IF current THEN Content(start[Current]) ELSE Outdated
      /\ disk[Current][1] = IF Current \notin L THEN Missing
                            ELSE IF older /\ start[Current] > Captured THEN Content(start[Current] - 1) ELSE Missing
  BY <1>2, <1>6 DEF LeftBehind, Main
<1>8. CASE Current \notin L
  <2>1. saved = [older |-> NoToken, newer |-> NoToken] /\ Main = Missing
    BY <1>2, <1>7, <1>8
  <2>2. saved.older = NoToken /\ saved.newer = NoToken
    BY <2>1
  <2>3. SaveTypes
    BY <1>3, <2>1 DEF SaveTypes
  <2>4. MainInv /\ TransitionInv /\ KeptInv
    BY <1>3, <2>1, <2>2 DEF MainInv, TransitionInv, KeptInv
  <2> QED BY <1>3, <1>5, <2>3, <2>4 DEF ChainInv, ChainParts
<1>9. CASE Current \in L
  <2>1. PICK t \in Tokens : t = start[Current]
    BY <1>9
  <2>2. L = {Current} /\ current
    BY <1>2, <1>9, CurrentIsAlone DEF Current, Contiguous
  <2>3. Main = Content(t) /\ Main # Missing /\ Main.is = "token"
    BY <1>7, <1>9, <2>1, <2>2, Kinds, KindsDiffer
  <2>4. PICK o \in Tokens \cup {NoToken} :
          /\ saved = [older |-> o, newer |-> t]
          /\ o # NoToken => disk[Current][1] = Content(o)
    <3>1. CASE disk[Current][1] = Missing
      BY <1>2, <1>9, <2>1, <3>1
    <3>2. CASE disk[Current][1] # Missing
      <4>1. disk[Current][1] = Content(t - 1) /\ t > 1
        BY <1>7, <1>9, <2>1, <3>2 DEF Captured
      <4>2. t - 1 \in Tokens
        BY <4>1, Statics
      <4>3. disk[Current][1].tok = t - 1
        BY <4>1, <4>2, Kinds
      <4> QED BY <1>2, <1>9, <2>1, <3>2, <4>1, <4>2, <4>3
    <3> QED BY <3>1, <3>2
  <2>5. saved.older = o /\ saved.newer = t /\ t # NoToken
    BY <2>4, Statics
  <2>6. SaveTypes
    BY <1>3, <2>4 DEF SaveTypes
  <2>7. ~InTransition
    <3>1. PICK P : P = Present
      OBVIOUS
    <3>2. P = {Current}
      <4>1. \A f \in Files : f \notin L => disk[f][0] = Missing
        BY <1>2, <1>6 DEF LeftBehind
      <4> QED BY <1>6, <2>2, <2>3, <3>1, <4>1 DEF Present, ScanPartitionCheckpoints, Main
    <3>3. InTransition <=> Changing(P)
      BY <3>1 DEF InTransition, Changing, Active, Present
    <3> QED BY <2>2, <3>2, <3>3, ChangingIs
  <2>8. MainInv
    BY <2>3, <2>5 DEF MainInv, Known
  <2>9. TransitionInv
    BY <2>7 DEF TransitionInv
  <2>10. KeptInv
    <3>1. SUFFICES ASSUME o # NoToken PROVE Kept(1)
      BY <1>6, <2>5 DEF KeptInv
    <3>2. Reach = 1
      BY <1>3, <2>7 DEF Reach
    <3>3. Within(1, Reach, Ahead)
      BY <3>2 DEF Within
    <3>4. FirstIn(disk[Current], Known, 1)
      BY <2>4, <2>5, <3>1 DEF FirstIn, Known
    <3> QED BY <3>3, <3>4 DEF Kept
  <2> QED BY <1>3, <1>5, <2>6, <2>8, <2>9, <2>10 DEF ChainInv, ChainParts
<1> QED BY <1>8, <1>9

LEMMA NextKeepsChain == TokenStoreInv /\ ChainInv /\ [Next]_vars => ChainInv'
<1>1. SUFFICES ASSUME NEW L \in Layouts, NEW start \in [L -> Tokens], NEW h \in Files, NEW current \in BOOLEAN,
                      Beginning(L, start, h, current), StoreInv(L, start, h, current), ChainInv, [Next]_vars
               PROVE  ChainInv'
  BY DEF TokenStoreInv
<1>2. faults \in Nat /\ corruptions \in Nat /\ crashes \in Nat
  BY <1>1 DEF StoreInv, PlainTypes, ChainInv
<1>3. /\ faults' = faults \/ (Fault /\ faults' = faults + 1)
      /\ corruptions' = corruptions \/ corruptions' = corruptions + 1
      /\ crashes' = crashes \/ crashes' = crashes + 1
  <2>1. CASE UpgradeLegacy
    <3>1. UNCHANGED <<crashes, corruptions, faults>>
      BY <2>1 DEF UpgradeLegacy, bounds
    <3> QED BY <3>1
  <2>2. CASE Scan
    <3>1. UNCHANGED <<crashes, corruptions, faults>>
      BY <2>2 DEF Scan, bounds
    <3> QED BY <3>1
  <2>3. CASE Refuse
    <3>1. UNCHANGED <<crashes, corruptions, faults>>
      BY <2>3 DEF Refuse, bounds
    <3> QED BY <3>1
  <2>4. CASE Load
    <3>1. UNCHANGED <<crashes, corruptions, faults>>
      BY <2>4 DEF Load, bounds
    <3> QED BY <3>1
  <2>5. CASE Assess
    <3>1. UNCHANGED <<crashes, corruptions, faults>>
      BY <2>5 DEF Assess, bounds
    <3> QED BY <3>1
  <2>6. CASE CleanUp
    <3>1. UNCHANGED <<crashes, corruptions, faults>>
      BY <2>6 DEF CleanUp, bounds
    <3> QED BY <3>1
  <2>7. CASE CleanedUp
    <3>1. UNCHANGED <<crashes, corruptions, faults>>
      BY <2>7 DEF CleanedUp, bounds
    <3> QED BY <3>1
  <2>8. CASE OpenStream
    <3>1. UNCHANGED <<crashes, corruptions, faults>>
      BY <2>8 DEF OpenStream, bounds
    <3> QED BY <3>1
  <2>9. CASE Perform
    <3>1. UNCHANGED <<crashes, corruptions, faults>>
      BY <2>9 DEF Perform, bounds
    <3> QED BY <3>1
  <2>10. CASE \E f \in old : DeleteNext(f)
    <3>1. UNCHANGED <<crashes, corruptions, faults>>
      BY <2>10 DEF DeleteNext, bounds
    <3> QED BY <3>1
  <2>11. CASE \E tok \in Tokens : SaveToken(tok)
    <3>1. UNCHANGED <<crashes, corruptions, faults>>
      BY <2>11 DEF SaveToken, bounds
    <3> QED BY <3>1
  <2>12. CASE Fault
    <3>1. faults' = faults + 1 /\ crashes' = crashes /\ corruptions' = corruptions
      BY <2>12 DEF Fault
    <3> QED BY <2>12, <3>1
  <2>13. CASE Crash
    <3>1. crashes' = crashes + 1 /\ faults' = faults /\ corruptions' = corruptions
      BY <2>13 DEF Crash
    <3> QED BY <2>13, <3>1
  <2>14. CASE Corrupt
    <3>1. corruptions' = corruptions + 1 /\ faults' = faults /\ crashes' = crashes
      BY <2>14 DEF Corrupt
    <3> QED BY <2>14, <3>1
  <2>15. CASE UNCHANGED vars
    <3>1. UNCHANGED <<crashes, corruptions, faults>>
      BY <2>15 DEF vars, bounds
    <3> QED BY <2>15, <3>1
  <2> QED BY <1>1, <2>1, <2>2, <2>3, <2>4, <2>5, <2>6, <2>7, <2>8, <2>9, <2>10, <2>11, <2>12, <2>13, <2>14, <2>15 DEF Next
<1>4. crashes' \in Nat /\ (Mild' => Mild /\ ~Fault /\ corruptions' <= 1)
  <2>1. crashes' < Backups => crashes < Backups
    BY <1>2, <1>3, Statics
  <2>2. Fault => faults' = faults + 1
    BY DEF Fault
  <2> QED BY <1>2, <1>3, <2>1, <2>2 DEF Mild
<1>5. SUFFICES ASSUME Mild' PROVE SaveTypes' /\ ChainParts'
  BY <1>4 DEF ChainInv
<1>6. SaveTypes /\ ChainParts /\ faults = 0 /\ crashes < Backups /\ corruptions' <= 1 /\ ~Fault
  BY <1>1, <1>4, <1>5 DEF ChainInv, Mild
<1>7. CASE UpgradeLegacy
  BY <1>1, <1>6, <1>7, UpgradeLegacyKeepsChain
<1>8. CASE Scan \/ Refuse
  <2>1. todo = << >>
    BY <1>1, <1>8 DEF Scan, Refuse, StoreInv, TodoInv
  <2>2. SameFiles /\ todo' = todo /\ pc \in {"down", "loading"} /\ pc' \in {"loading", "refused"}
    BY <1>8 DEF Scan, Refuse, SameFiles, bounds
  <2> QED BY <1>1, <1>6, <2>1, <2>2, ReadingKeepsChain
<1>9. CASE Load
  BY <1>1, <1>6, <1>9, LoadKeepsChain
<1>10. CASE Assess
  BY <1>1, <1>6, <1>10, AssessKeepsChain
<1>11. CASE CleanUp \/ CleanedUp \/ \E f \in old : DeleteNext(f)
  BY <1>1, <1>6, <1>11, CleanUpKeepsChain
<1>12. CASE OpenStream
  BY <1>1, <1>6, <1>12, OpenStreamKeepsChain
<1>13. CASE Perform
  BY <1>1, <1>6, <1>13, PerformKeepsChain
<1>14. CASE Crash
  BY <1>6, <1>14, CrashKeepsChain
<1>15. CASE Corrupt
  BY <1>1, <1>6, <1>15, CorruptKeepsChain
<1>16. CASE \E tok \in Tokens : SaveToken(tok)
  BY <1>1, <1>6, <1>16, SaveTokenKeepsChain
<1>17. CASE UNCHANGED vars
  BY <1>6, <1>17, StutterKeepsChain
<1> QED BY <1>1, <1>6, <1>7, <1>8, <1>9, <1>10, <1>11, <1>12, <1>13, <1>14, <1>15, <1>16, <1>17 DEF Next

LEMMA ChainInvIsInvariant == Spec => [](TokenStoreInv /\ ChainInv)
<1>1. Init => TokenStoreInv /\ ChainInv
  BY InitImpliesInv, InitImpliesChain
<1>2. TokenStoreInv /\ ChainInv /\ [Next]_vars => (TokenStoreInv /\ ChainInv)'
  BY NextKeepsInv, NextKeepsChain
<1> QED BY <1>1, <1>2, PTL DEF Spec

LEMMA ChainCostsOneSave == TokenStoreInv /\ ChainInv => CorruptionCostsOneSave
<1>1. SUFFICES ASSUME NEW L \in Layouts, NEW start \in [L -> Tokens], NEW h \in Files, NEW current \in BOOLEAN,
                      Beginning(L, start, h, current), StoreInv(L, start, h, current), ChainInv,
                      faults = 0, corruptions <= 1, crashes < Backups, saved.older # NoToken
               PROVE  LoadResumeToken(Current) \in {saved.older, saved.newer}
  BY DEF TokenStoreInv, CorruptionCostsOneSave
<1>2. SaveTypes /\ RotationInv /\ MainInv /\ ReadableInv /\ KeptInv /\ TodoInv(L) /\ PlainTypes(L)
  BY <1>1 DEF ChainInv, ChainParts, Mild, StoreInv
<1>3. Content(LoadResumeToken(Current)) \in Known
  <2>1. PICK b : b = Reach
    OBVIOUS
  <2>2. b = IF InTransition THEN crashes ELSE crashes + 1
    BY <2>1 DEF Reach
  <2>3. b <= Backups /\ (InTransition => b < Backups)
    BY <1>1, <1>2, <2>2, Statics DEF SaveTypes
  <2>4. CASE Main = Torn
    <3>1. ASSUME Rotating PROVE InTransition
      <4>1. Main # Missing
        BY <2>4, KindsDiffer
      <4>2. InTransition \/ pc = "running"
        BY <3>1, <4>1, <1>2 DEF RotationInv
      <4>3. ASSUME pc = "running" PROVE FALSE
        <5>1. CASE Saving
          BY <1>2, <2>4, <4>3, <5>1, KindsDiffer DEF ReadableInv
        <5>2. CASE ~Saving
          <6>1. \E t \in Tokens : Restoring(Current, t)
            BY <1>2, <4>3, <5>2 DEF TodoInv
          <6> QED BY <3>1, <6>1, RestoringDoesNotRotate, Statics
        <5> QED BY <5>1, <5>2
      <4> QED BY <4>2, <4>3
    <3> QED BY <1>1, <1>2, <2>1, <2>3, <3>1, LoadsAKnownSave
  <2>5. CASE Main # Torn
    <3>1. Main \in Known /\ Main.is = "token"
      BY <1>1, <1>2, <2>5, KnownIsReadable DEF MainInv
    <3>2. disk \in Disks /\ Current \in Files
      BY <1>2, Statics DEF PlainTypes, Disks
    <3>3. Main = Content(LoadResumeToken(Current))
      <4>1. Main \notin {Missing, Torn, Outdated}
        BY <3>1, KindsDiffer
      <4> QED BY <3>2, <4>1, Loaded DEF Main
    <3> QED BY <3>1, <3>3
  <2> QED BY <2>4, <2>5
<1>4. \A t, u : Content(t) = Content(u) => t = u
  BY DEF Content
<1> QED BY <1>3, <1>4 DEF Known

(* Whatever is interrupted, and whenever: when a main file becomes         *)
(* unreadable, SaveResumeToken's rotation has left a backup from which     *)
(* LoadResumeToken takes one of the last two tokens, provided that there   *)
(* were fewer crashes than versions and no operation failed.               *)
THEOREM CorruptionCostsAtMostOneSave == Spec => []CorruptionCostsOneSave
BY ChainInvIsInvariant, ChainCostsOneSave, PTL
=============================================================================
