---------------------------- MODULE MCLifecycle ----------------------------
(* ReplicationLifecycle with small values for TLC. *)
EXTENDS ReplicationLifecycle

\* Document 1 changes, then document 2, then document 1 again.
MCLog == <<1, 2, 1>>
MCNoStart == {}
MCStarts == {0}
MCLive == {"live"}
MCBoth == {"live", "live-only"}
=============================================================================
