----------------------------- MODULE DoorPromise -----------------------------
(***************************************************************************)
(* What the relay controller promises to the door it opens, whatever the   *)
(* tasks and callers behind it do: the strike is energised for at most     *)
(* Hold, and only after it rested for Rest since it was last energised in  *)
(* this boot; an authorisation that waits for the passage sensor is used   *)
(* for at most one pulse.  AccessFsm is shown to implement this module.    *)
(***************************************************************************)
EXTENDS Integers

CONSTANTS Hold, Rest, MaxAge

VARIABLES
  lit,      (* the strike is energised                                     *)
  litAge,   (* elapsed since it was last energised                         *)
  darkAge,  (* elapsed since it was last released, in this boot            *)
  waiting   (* an authorisation waits for the passage sensor               *)

doorVars == <<lit, litAge, darkAge, waiting>>

Init == lit = FALSE /\ litAge = 0 /\ darkAge = MaxAge /\ waiting = FALSE

Authorise ==
  /\ ~lit /\ ~waiting /\ darkAge >= Rest
  /\ waiting' = TRUE
  /\ UNCHANGED <<lit, litAge, darkAge>>

Lapse ==
  /\ waiting /\ waiting' = FALSE
  /\ UNCHANGED <<lit, litAge, darkAge>>

(* By the sensor (waiting) or at once, by an authorised manual request. *)
Energise ==
  /\ ~lit /\ darkAge >= Rest
  /\ lit' = TRUE /\ litAge' = 0 /\ waiting' = FALSE
  /\ UNCHANGED darkAge

Release ==
  /\ lit /\ lit' = FALSE /\ darkAge' = 0
  /\ UNCHANGED <<litAge, waiting>>

Reset == lit' = FALSE /\ litAge' = 0 /\ darkAge' = MaxAge /\ waiting' = FALSE

Older(a) == IF a < MaxAge THEN a + 1 ELSE a

Pass ==
  /\ ~(lit /\ litAge >= Hold)
  /\ litAge' = Older(litAge) /\ darkAge' = Older(darkAge)
  /\ UNCHANGED <<lit, waiting>>

Next == Authorise \/ Lapse \/ Energise \/ Release \/ Reset \/ Pass

Spec == Init /\ [][Next]_doorVars
=============================================================================
