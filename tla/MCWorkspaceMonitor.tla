------------------------- MODULE MCWorkspaceMonitor -------------------------
(* An instance of WorkspaceMonitor for TLC: pkg and the directories beside it. *)
EXTENDS WorkspaceMonitor
=============================================================================
