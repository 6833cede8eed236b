--------------------------- MODULE MCGattSession ---------------------------
(***************************************************************************)
(* Values for the constants of GattSession.  The challenge and the         *)
(* authentication window last as long as each other, as in the code.       *)
(***************************************************************************)
EXTENDS GattSession, TLC

CONSTANTS h1, h2

MCHandles  == {h1, h2}
MCSymmetry == Permutations(MCHandles)
MCOneHandle == {h1}
=============================================================================
