----------------------------- MODULE TokenStore -----------------------------
(***************************************************************************)
(* The resume token files of a pair: each is saved over a chain of backups *)
(* and loaded through it, and StartReplication carries the tokens of an    *)
(* older layout (several partitions, or the contiguous file names) over to *)
(* the one partition today's configuration asks for.                       *)
(*                                                                         *)
(* The files change one operation of the file system at a time, so that a  *)
(* crash, or an operation that fails, falls anywhere between.              *)
(*                                                                         *)
(* A token is a position of the source's change log; its file records the  *)
(* second of that position.                                                *)
(***************************************************************************)
EXTENDS Integers, SequencesExt

CONSTANTS
    Layouts,        \* sets of files an earlier release may have left
    MaxToken,       \* bound: the last position of the log
    PerSecond,      \* positions of a second
    Backups,        \* versions kept of a file (10 in the code)
    MaxCrashes,     \* bound
    MaxCorruptions, \* bound: main files that become unreadable
    MaxFaults       \* bound: operations that fail

\* A file is named by its partition (from 1) and the number of partitions;
\* the number of the contiguous names is Contiguous.
Contiguous == -1
Current == <<1, 1>>  \* configuration forces one partition
Files == (UNION Layouts) \cup {Current}

\* An earlier release left a file for each of its partitions.
IsLayout(files) ==
    /\ IsFiniteSet(files)
    /\ \E total \in {Cardinality(files), Contiguous} :
         files = {<<i, total>> : i \in 1..Cardinality(files)}

ASSUME TokenStoreAssumption ==
    /\ MaxToken \in Nat \ {0} /\ PerSecond \in Nat \ {0} /\ Backups \in Nat \ {0, 1}
    /\ MaxCrashes \in Nat /\ MaxCorruptions \in Nat /\ MaxFaults \in Nat
    /\ \A layout \in Layouts : IsLayout(layout)

Tokens == 1..MaxToken
NoToken == 0

\* The token captured before the copy is saved without a timestamp, which
\* counts as the beginning of time; a save of the tracker has one.
Captured == 1
\* Mutant: a missing timestamp is left at the zero time.
SecondOrZero(tok) == IF tok = Captured THEN -1 ELSE 1 + tok \div PerSecond
Second(tok) == IF tok = Captured THEN 0 ELSE 1 + tok \div PerSecond

\* What a file holds; a token is unwrapped from the shape the driver gave it.
Missing == [is |-> "missing", tok |-> NoToken]
Torn == [is |-> "torn", tok |-> NoToken]
Outdated == [is |-> "outdated", tok |-> NoToken]
Content(tok) == [is |-> "token", tok |-> tok]
Contents == {Missing, Torn, Outdated} \cup {Content(t) : t \in Tokens}

VARIABLES
    disk,       \* the content of every file (version 0) and of its backups
    legacy,     \* the token of the file that names no partition, or NoToken
    pc,         \* "down", "loading", "saving", "deleting", "opening", "running", "refused"
    todo,       \* the file operations the process has ahead of it
    old,        \* the files of the old layout it still has to delete
    at,         \* the partition being loaded
    fetched,    \* the token loaded for it
    found,      \* minToken with its file and its second
    from,       \* where the stream was opened
    saved,      \* the last two tokens known to be in Current: older and newer
    floor,      \* history: all partitions have dealt with the log up to here
    leftOut,    \* history: a token was left out of the minimum
    cut,        \* history: a crash or a fault hit a change of the layout
    crashes, corruptions, faults

memory == <<pc, todo, old, at, fetched, found, from>>
history == <<floor, leftOut, cut>>
bounds == <<crashes, corruptions, faults>>
vars == <<disk, legacy, memory, saved, history, bounds>>

Nothing == [tok |-> NoToken, second |-> -1]

(***************************************************************************)
(* Scanning: which files are there, and which layout is in force.          *)
(***************************************************************************)
ScanPartitionCheckpoints == {f \in Files : disk[f][0] # Missing}

Totals(files) == {f[2] : f \in files} \ {Contiguous}
Greatest(set) == CHOOSE n \in set : \A m \in set : m <= n

\* The greatest number of partitions any file names, or the contiguous files.
ActiveFiles(files) ==
    {f \in files : f[2] = IF Totals(files) # {} THEN Greatest(Totals(files)) ELSE Contiguous}
\* Mutant: the contiguous names are counted from zero.
HistoricalTotalFromZero(files) ==
    IF files = {} THEN 0
    ELSE IF Totals(files) # {} THEN Greatest(Totals(files)) ELSE Greatest({f[1] : f \in files}) + 1
HistoricalTotal(files) ==
    IF files = {} THEN 0
    ELSE IF Totals(files) # {} THEN Greatest(Totals(files)) ELSE Greatest({f[1] : f \in files})

Active == ActiveFiles(ScanPartitionCheckpoints)
Total == HistoricalTotal(ScanPartitionCheckpoints)
FileOf(i) == CHOOSE f \in Active : f[1] = i
InTransition == Active # {} /\ Active # {Current}

(***************************************************************************)
(* Operations on files.                                                    *)
(***************************************************************************)
Unlink(f, k) == [op |-> "remove", file |-> f, from |-> k, to |-> k, content |-> Missing]
Rename(f, k) == [op |-> "rename", file |-> f, from |-> k, to |-> k + 1, content |-> Missing]
Copy(f, k, m) == [op |-> "copy", file |-> f, from |-> k, to |-> m, content |-> Missing]
Fill(f, m, c) == [op |-> "fill", file |-> f, from |-> m, to |-> m, content |-> c]
WriteAtomic(f, c) == [op |-> "write", file |-> f, from |-> 0, to |-> 0, content |-> c]

\* SaveResumeToken: rotate the backups from the oldest on, copy the main file
\* to the first backup, replace the main file.
\* Mutant: the main file is copied before the backups are rotated.
SaveOpsCopyFirst(f, tok) ==
    (IF disk[f][0] = Missing THEN <<>>
     ELSE <<Copy(f, 0, 1), Unlink(f, Backups)>> \o [j \in 1..(Backups - 1) |-> Rename(f, Backups - j)])
    \o <<WriteAtomic(f, Content(tok))>>
\* Mutant: the main file is renamed to the first backup instead of copied.
SaveOpsMoveMain(f, tok) ==
    (IF disk[f][0] = Missing THEN <<>>
     ELSE <<Unlink(f, Backups)>> \o [j \in 1..Backups |-> Rename(f, Backups - j)])
    \o <<WriteAtomic(f, Content(tok))>>
SaveOps(f, tok) ==
    (IF disk[f][0] = Missing THEN <<>>
     ELSE <<Unlink(f, Backups)>> \o [j \in 1..(Backups - 1) |-> Rename(f, Backups - j)]
          \o <<Copy(f, 0, 1)>>)
    \o <<WriteAtomic(f, Content(tok))>>

\* DeleteResumeToken: the main file, then its backups.
DeleteOps(f) == [j \in 1..(Backups + 1) |-> Unlink(f, j - 1)]

\* What the first operation ahead does to the disk.
Effect(o) ==
    CASE o.op = "remove" -> [disk EXCEPT ![o.file][o.from] = Missing]
      [] o.op = "rename" -> IF disk[o.file][o.from] = Missing THEN disk
                            ELSE [disk EXCEPT ![o.file][o.to] = disk[o.file][o.from],
                                              ![o.file][o.from] = Missing]
      [] o.op = "copy"   -> [disk EXCEPT ![o.file][o.to] = Torn]
      [] OTHER           -> [disk EXCEPT ![o.file][o.to] = o.content]

\* A copy truncates its target before it fills it; the rest is one step each.
Perform ==
    /\ todo # <<>>
    /\ disk' = Effect(Head(todo))
    /\ todo' = (IF Head(todo).op = "copy"
                THEN <<Fill(Head(todo).file, Head(todo).to, disk[Head(todo).file][Head(todo).from])>>
                ELSE <<>>) \o Tail(todo)
    /\ saved' = IF Head(todo).op = "write" /\ Head(todo).file = Current
                THEN [older |-> saved.newer, newer |-> Head(todo).content.tok] ELSE saved
    /\ floor' = IF pc = "running" /\ Head(todo).op = "write" /\ Head(todo).content.tok > floor
                THEN Head(todo).content.tok ELSE floor
    /\ UNCHANGED <<legacy, pc, old, at, fetched, found, from, leftOut, cut, bounds>>

\* An operation fails.  A rename or a removal is passed over, with the backups
\* of a main file that stays; the tracker logs a failed save; a start ends; the
\* restoration of a backup is given up.
Fault ==
    /\ todo # <<>> /\ faults < MaxFaults /\ faults' = faults + 1
    /\ LET o == Head(todo)
       IN CASE o.op \in {"remove", "rename"} ->
                 /\ todo' = IF pc = "deleting" /\ o.from = 0 THEN <<>> ELSE Tail(todo)
                 /\ cut' = (cut \/ (pc = "deleting" /\ o.from = 0))
                 /\ UNCHANGED <<pc, old>>
            [] OTHER ->
                 /\ todo' = <<>>
                 /\ pc' = IF pc = "saving" THEN "down" ELSE pc
                 /\ old' = IF pc = "saving" THEN {} ELSE old
                 /\ UNCHANGED cut
    /\ UNCHANGED <<disk, legacy, at, fetched, found, from, saved, floor, leftOut, crashes, corruptions>>

(***************************************************************************)
(* Loading a file.                                                         *)
(***************************************************************************)
Readable(f) == {k \in 0..Backups : disk[f][k] \notin {Missing, Torn, Outdated}}

\* LoadResumeToken: the main file, or the first backup that can be read; none
\* when the main file is of another version.
Version(f) ==
    IF disk[f][0] \in {Missing, Outdated} \/ Readable(f) = {} THEN -1
    ELSE CHOOSE k \in Readable(f) : \A m \in Readable(f) : k <= m
LoadResumeToken(f) == IF Version(f) = -1 THEN NoToken ELSE disk[f][Version(f)].tok

\* A backup that was read is copied over the main file.
RestoreOps(f) == IF Version(f) <= 0 THEN <<>> ELSE <<Copy(f, Version(f), 0)>>

(***************************************************************************)
(* StartReplication.                                                       *)
(***************************************************************************)
\* What an earlier release may have left of a layout: each file with the save
\* before, or without; of the current version, or of an older one.
LeftBehind(layout, tok, older, current) ==
    [f \in Files |-> [k \in 0..Backups |->
        IF f \notin layout \/ k > 1 THEN Missing
        ELSE IF k = 0 THEN IF current THEN Content(tok[f]) ELSE Outdated
        ELSE IF older /\ tok[f] > Captured THEN Content(tok[f] - 1) ELSE Missing]]

LeastToken(layout, tok) ==
    CHOOSE t \in Tokens : (\E f \in layout : tok[f] = t) /\ (\A f \in layout : t <= tok[f])

Init ==
    /\ \E layout \in Layouts : \E tok \in [layout -> Tokens] : \E older \in BOOLEAN :
       \E current \in BOOLEAN :
         /\ current \/ \E f \in layout : f[2] = Contiguous
         /\ disk = LeftBehind(layout, tok, older, current)
         /\ legacy = IF layout = {} THEN Captured ELSE NoToken
         /\ floor = IF layout = {} THEN Captured ELSE LeastToken(layout, tok)
         /\ saved = IF Current \in layout
                    THEN [older |-> LET b == disk[Current][1] IN IF b = Missing THEN NoToken ELSE b.tok,
                          newer |-> tok[Current]]
                    ELSE [older |-> NoToken, newer |-> NoToken]
    /\ pc = "down" /\ todo = <<>> /\ old = {} /\ at = 1 /\ fetched = NoToken /\ found = Nothing /\ from = NoToken
    /\ leftOut = FALSE /\ cut = FALSE
    /\ crashes = 0 /\ corruptions = 0 /\ faults = 0

\* Without any partition file the token of the unpartitioned file is taken over.
UpgradeLegacy ==
    /\ pc = "down" /\ Total = 0 /\ legacy # NoToken
    /\ pc' = "saving" /\ todo' = SaveOps(Current, legacy)
    /\ UNCHANGED <<disk, legacy, old, at, fetched, found, from, saved, history, bounds>>

Scan ==
    /\ pc = "down" /\ Total > 0
    /\ pc' = "loading" /\ at' = 1 /\ found' = Nothing /\ fetched' = NoToken
    /\ UNCHANGED <<disk, legacy, todo, old, from, saved, history, bounds>>

\* A partition without a file, or whose file yields no token, refuses the start.
Refuse ==
    /\ pc = "loading" /\ todo = <<>> /\ fetched = NoToken
    /\ (\E f \in Active : f[1] = at) => LoadResumeToken(FileOf(at)) = NoToken
    /\ pc' = "refused"
    /\ UNCHANGED <<disk, legacy, todo, old, at, fetched, found, from, saved, history, bounds>>

Load ==
    /\ pc = "loading" /\ todo = <<>> /\ fetched = NoToken
    /\ \E f \in Active : f[1] = at /\ LoadResumeToken(f) # NoToken
    /\ fetched' = LoadResumeToken(FileOf(at))
    /\ todo' = RestoreOps(FileOf(at))
    /\ UNCHANGED <<disk, legacy, pc, old, at, found, from, saved, history, bounds>>

\* The main file is read again for its timestamp: the earliest wins, the first
\* of equals; a main file that cannot be read takes no part.
\* Mutant: the latest timestamp wins.
EarlierIsLater(second, best) == best = Nothing \/ second > best.second
Earlier(second, best) == best = Nothing \/ second < best.second

Minimum(f, tok, best) ==
    IF disk[f][0].is = "token" /\ Earlier(Second(disk[f][0].tok), best)
    THEN [tok |-> tok, second |-> Second(disk[f][0].tok)] ELSE best

Assess ==
    /\ pc = "loading" /\ todo = <<>> /\ fetched # NoToken
    /\ \E best \in {Minimum(FileOf(at), fetched, found)} :
         /\ found' = best
         /\ leftOut' = (leftOut \/ (InTransition /\ disk[FileOf(at)][0].is # "token"))
         /\ fetched' = NoToken
         /\ \/ at < Total /\ at' = at + 1 /\ UNCHANGED <<pc, todo, old>>
            \/ at = Total /\ ~InTransition /\ pc' = "opening" /\ UNCHANGED <<at, todo, old>>
            \/ at = Total /\ InTransition /\ best = Nothing /\ pc' = "refused" /\ UNCHANGED <<at, todo, old>>
            \/ at = Total /\ InTransition /\ best # Nothing
               /\ pc' = "saving" /\ todo' = SaveOps(Current, best.tok) /\ old' = Active /\ UNCHANGED at
    /\ UNCHANGED <<disk, legacy, from, saved, floor, cut, bounds>>

\* The new file is written: the old ones go, in the order of a Go map.
CleanUp ==
    /\ pc = "saving" /\ todo = <<>>
    /\ pc' = IF old = {} THEN "opening" ELSE "deleting"
    /\ UNCHANGED <<disk, legacy, todo, old, at, fetched, found, from, saved, history, bounds>>

DeleteNext(f) ==
    /\ pc = "deleting" /\ todo = <<>> /\ f \in old
    /\ todo' = DeleteOps(f) /\ old' = old \ {f}
    /\ UNCHANGED <<disk, legacy, pc, at, fetched, found, from, saved, history, bounds>>

CleanedUp ==
    /\ pc = "deleting" /\ todo = <<>> /\ old = {} /\ pc' = "opening"
    /\ UNCHANGED <<disk, legacy, todo, old, at, fetched, found, from, saved, history, bounds>>

\* The token is loaded once more, and the stream opened from it; from now on
\* the newest token known to be saved is the one that was loaded.
OpenStream ==
    /\ pc = "opening" /\ todo = <<>>
    /\ LoadResumeToken(Current) # NoToken
    /\ from' = LoadResumeToken(Current)
    /\ todo' = RestoreOps(Current)
    /\ saved' = IF LoadResumeToken(Current) = saved.newer THEN saved
                ELSE [older |-> NoToken, newer |-> LoadResumeToken(Current)]
    /\ pc' = "running"
    /\ UNCHANGED <<disk, legacy, old, at, fetched, found, history, bounds>>

\* The tracker saves the token of an event it has dealt with.
SaveToken(tok) ==
    /\ pc = "running" /\ todo = <<>>
    /\ from < tok
    /\ from' = tok /\ todo' = SaveOps(Current, tok)
    /\ UNCHANGED <<disk, legacy, pc, old, at, fetched, found, saved, history, bounds>>

(***************************************************************************)
(* The environment.                                                        *)
(***************************************************************************)
Crash ==
    /\ pc \notin {"down", "refused"} /\ crashes < MaxCrashes
    /\ crashes' = crashes + 1
    /\ cut' = (cut \/ (pc = "deleting" /\ (todo # <<>> \/ old # {})))
    /\ pc' = "down" /\ todo' = <<>> /\ old' = {} /\ at' = 1 /\ fetched' = NoToken /\ found' = Nothing /\ from' = NoToken
    /\ UNCHANGED <<disk, legacy, saved, floor, leftOut, corruptions, faults>>

\* A main file becomes unreadable.
Corrupt ==
    /\ pc = "down" /\ corruptions < MaxCorruptions
    /\ corruptions' = corruptions + 1
    /\ \E f \in Files : disk[f][0].is = "token" /\ disk' = [disk EXCEPT ![f][0] = Torn]
    /\ UNCHANGED <<legacy, memory, saved, history, crashes, faults>>

Next ==
    \/ UpgradeLegacy \/ Scan \/ Refuse \/ Load \/ Assess \/ CleanUp \/ CleanedUp \/ OpenStream
    \/ \E f \in old : DeleteNext(f)
    \/ Perform \/ Fault \/ Crash \/ Corrupt
    \/ \E tok \in Tokens : SaveToken(tok)

Spec == Init /\ [][Next]_vars

(***************************************************************************)
(* Properties.                                                             *)
(***************************************************************************)
TokenStoreTypeOK ==
    /\ disk \in [Files -> [0..Backups -> Contents]]
    /\ pc \in {"down", "loading", "saving", "deleting", "opening", "running", "refused"}
    /\ old \subseteq Files
    /\ \A i \in DOMAIN todo : todo[i].file \in Files /\ {todo[i].from, todo[i].to} \subseteq 0..Backups
    /\ found \in {Nothing} \cup [tok : Tokens, second : Nat]
    /\ {fetched, from, legacy} \subseteq Tokens \cup {NoToken}
    /\ floor \in Tokens

\* The stream is never opened ahead of what every partition of the old layout
\* had dealt with: whatever was interrupted, restored from a backup or
\* transferred before, and whatever the order of the tokens.  The files record
\* seconds, so it may be ahead within one; and a main file that could not be
\* restored is left out of the minimum.
StreamStartsBehindEveryPartition ==
    pc = "opening" /\ todo = <<>> /\ LoadResumeToken(Current) # NoToken
      => Second(LoadResumeToken(Current)) <= Second(floor) \/ leftOut

\* A start is refused for a reason: a file that became unreadable, files of
\* another version, or an interruption while the files of an old layout were
\* being deleted.  An interruption anywhere else leaves files the next start
\* accepts.
RefusalHasACause ==
    pc = "refused" => cut \/ corruptions > 0 \/ \E f \in Files : disk[f][0] = Outdated

\* Whatever is interrupted, and a refused start included, the progress itself is
\* in the main file of some partition: nothing has to be redone or given up.
\* (Two old files that cannot be deleted may be taken for the layout in force
\* later, and the progress made in between be overwritten with theirs.)
ProgressStaysOnDisk ==
    corruptions = 0 /\ faults <= 1 /\ (\A f \in Files : disk[f][0] # Outdated)
      => \/ legacy # NoToken /\ Second(legacy) = Second(floor)
         \/ \E f \in Files : disk[f][0].is = "token" /\ Second(disk[f][0].tok) = Second(floor)

\* The rotation keeps the backups in step at every moment of a save: when the
\* main file becomes unreadable, it costs one save at most.  An interrupted save
\* costs a version, so there may be fewer crashes than versions.
CorruptionCostsOneSave ==
    faults = 0 /\ corruptions <= 1 /\ crashes < Backups /\ saved.older # NoToken
      => LoadResumeToken(Current) \in {saved.older, saved.newer}
=============================================================================
