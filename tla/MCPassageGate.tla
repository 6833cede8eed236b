--------------------------- MODULE MCPassageGate ---------------------------
(***************************************************************************)
(* Values for the constants of PassageGate.  The filter holds three        *)
(* readings and an episode ends after two clear ones, which keeps the      *)
(* code's relation (more clear readings are needed than a minority of the  *)
(* filter); a blocked arm window is shorter than the configured one and    *)
(* the quiet interval after an attempt longer than the idle yield.         *)
(***************************************************************************)
EXTENDS PassageGate

MCRelayHold     == 2
MCFailsafeGrace == 1
MCCooldown      == 1
MCAuthTimeout   == 1
MCArmConfigured == 2
MCBlockedArm    == 1
MCArmDurations  == {MCArmConfigured, MCBlockedArm}
MCMaxAge        == 3
MCIdleYield     == 1
MCRetryQuiet    == 3
MCWindow        == 3
MCClearNeeded   == 2
=============================================================================
