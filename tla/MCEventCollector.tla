------------------------- MODULE MCEventCollector --------------------------
(* Three events: the last one of the journal has the identity of the one   *)
(* before it, and so has the one a stranger signs with another key.         *)
EXTENDS EventCollector

MCEvents == {"granted", "opened", "other", "forged", "malformed"}
MCMalformed == {"malformed"}
MCForged == {"forged"}
MCSlot == [e \in MCEvents |-> IF e = "granted" THEN 1 ELSE 2]
MCProjected == MCEvents
MCJournal == <<"granted", "opened", "other">>
=============================================================================
