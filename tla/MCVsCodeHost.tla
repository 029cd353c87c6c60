---------------------------- MODULE MCVsCodeHost ----------------------------
(* Instances of VsCodeHost: two copies of one asset.                       *)
EXTENDS VsCodeHost

CONSTANTS a, b

AllCommands == {"edit", "refresh", "delete", "resolve", "cleanup", "restore"}
OnlyResolve == {"resolve"}
=============================================================================
