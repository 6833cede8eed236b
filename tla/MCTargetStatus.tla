--------------------------- MODULE MCTargetStatus --------------------------
(* Two boots of two statuses each, a restart or reconnection between them. *)
EXTENDS TargetStatus

MCCommands == {"c1"}
=============================================================================
