----------------------------- MODULE MCPipeline -----------------------------
(* Small instances of the pipeline: one stream, as in production, whose    *)
(* log puts two events of document "a" next to each other and one of "b"   *)
(* on the other worker.                                                    *)
EXTENDS ChangeStreamPipeline

MCStreams == {"s"}
MCDocs == {"a", "b"}
MCWorkers == 1..2
MCWorkerOf == [d \in MCDocs |-> IF d = "a" THEN 1 ELSE 2]
MCNamespace == [d \in MCDocs |-> "db.c"]

Ev(op, d) == [op |-> op, doc |-> d]

\* A history without shutdown.
SteadyLog == [s \in MCStreams |->
  <<Ev("unsupported", "b"), Ev("insert", "a"), Ev("update", "a"),
    Ev("update", "b")>>]
SteadyLength == [s \in MCStreams |-> 4]
SteadyClashing == {<<"s", 4>>}

\* A history with a skipped event, ended by a collection drop.
ShutdownLog == [s \in MCStreams |->
  <<Ev("update", "a"), Ev("update", "a"), Ev("updateWithoutDocument", "b"),
    Ev("drop", "a")>>]
ShutdownLength == [s \in MCStreams |-> 4]
ShutdownUntransformable == {<<"s", 1>>}
ShutdownClashing == {<<"s", 2>>}

\* A document deleted and, when it comes back, refused by the target.
ClashLog == [s \in MCStreams |-> <<Ev("delete", "a"), Ev("replace", "a")>>]
ClashClashing == {<<"s", 2>>}

\* Two updates of one document, and updates of two documents that share a
\* worker: each pair makes one ordered bulk write.
RepeatedLog == [s \in MCStreams |-> <<Ev("update", "a"), Ev("update", "a")>>]
PairLog == [s \in MCStreams |-> <<Ev("update", "a"), Ev("update", "b")>>]
PairLength == [s \in MCStreams |-> 2]
OneWorker == 1..1
SameWorkerOf == [d \in MCDocs |-> 1]

=============================================================================
