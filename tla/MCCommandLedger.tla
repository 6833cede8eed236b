-------------------------- MODULE MCCommandLedger --------------------------
(* Three commands and a ring of two entries, so that every order of deliveries
   evicts a command the broker may still deliver. *)
EXTENDS CommandLedger

CONSTANTS arm, manual, reboot

AccessCommands == {arm, manual, reboot}

MCIssued == [c \in Commands |-> IF c = reboot THEN 2 ELSE 1]
MCKind == [c \in Commands |->
    CASE c = arm -> "arm" [] c = manual -> "manual"
      [] c = reboot -> "reboot"]
=============================================================================
