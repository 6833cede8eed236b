-------------------------- MODULE MCEvidenceTrail --------------------------
(* One event of each kind, raised in every order, into queues so short that
   each of them is full in some behaviour and the ring wraps. *)
EXTENDS EvidenceTrail

CONSTANTS plain, terminal, direct

MCKind == [e \in Events |->
    CASE e = plain -> "plain" [] e = terminal -> "terminal"
      [] e = direct -> "direct"]
=============================================================================
