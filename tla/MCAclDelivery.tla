--------------------------- MODULE MCAclDelivery ---------------------------
(* One credential, granted and withdrawn, and enough versions for a generated
   snapshot and its replacement. *)
EXTENDS AclDelivery

CONSTANT c1
=============================================================================
