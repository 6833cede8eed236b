----------------------------- MODULE Enrollment -----------------------------
(***************************************************************************)
(* Phones, their accounts and their public keys: the rows of the legacy    *)
(* tenants table, the credentials of the personal tenant and the handlers  *)
(* of backend/app/main.py and acl_management.py that create, link, approve,*)
(* withdraw and delete them.                                               *)
(*                                                                         *)
(* A handler that is one transaction is one action.  Three are not: an     *)
(* enrolment and an approval read before they write, and a deletion (by an *)
(* administrator, or by the phone that logs out) reads the row, revokes    *)
(* the key in a transaction of its own and only then deletes the row.      *)
(* One personal tenant and one door; profile fields and the audit trail    *)
(* are left out, and the door grant is never taken from an active key.     *)
(***************************************************************************)
EXTENDS Integers

CONSTANTS
  Phones,
  Chosen,      (* credentials whose identifier the app chose (bootstrap)   *)
  Enrolled,    (* credentials whose identifier the server drew (challenge) *)
  PhoneOf,     (* the phone that holds the key: legacy_device_ref          *)
  Withdrawn,   (* the states a credential is taken back to                 *)
  Challenges,
  NoPhone, NoKey,
  MaxRows      (* bound: rows ever inserted; identifiers are not reused    *)

Credentials == Chosen \cup Enrolled

EnrollmentAssumption ==
  /\ MaxRows \in Nat
  /\ PhoneOf \in [Credentials -> Phones]
  /\ NoPhone \notin Phones /\ NoKey \notin Credentials /\ Chosen \cap Enrolled = {}
  /\ Withdrawn \subseteq {"DISABLED", "REVOKED"}

Ids    == 1..MaxRows
Absent == [phone |-> NoPhone, active |-> FALSE, owner |-> FALSE, dual |-> FALSE, key |-> NoKey]

VARIABLES
  rows,        (* the legacy accounts by id: is_active, tenant_uuid set,   *)
               (* credential_mode dual, credential_id                      *)
  nextId,
  status,      (* credentials.status                                       *)
  tenant,      (* acl_tenants.status                                       *)
  challenge,   (* enrollment_challenges                                    *)
  submits,     (* submissions past their checks                            *)
  approving,   (* approvals past theirs                                    *)
  leaving,     (* deletions and logouts past their first transaction       *)
  past         (* history: keys an account has been linked to, and keys    *)
               (* that a late approval has made live again                 *)

handlers == <<submits, approving, leaving>>
vars == <<rows, nextId, status, tenant, challenge, handlers, past>>

Init ==
  /\ rows = [i \in Ids |-> Absent] /\ nextId = 1
  /\ status = [c \in Credentials |-> "ABSENT"]
  /\ tenant = "ABSENT"
  /\ challenge = [e \in Challenges |-> "none"]
  /\ submits = {} /\ approving = {} /\ leaving = {}
  /\ past = [c \in Credentials |-> "unlinked"]

RowOf(p)   == {i \in Ids : rows[i].phone = p}
Owners     == {i \in Ids : rows[i].owner}
Keyed(c)   == {i \in Ids : rows[i].key = c}
Live(s)    == s \notin {"ABSENT", "DISABLED", "REVOKED"}

(* The owner's inactive row disables the tenant, and nothing enables it.    *)
Reconciled == IF \E i \in Owners : ~rows[i].active THEN "DISABLED" ELSE tenant
IfActive(A) ==
  /\ tenant # "ABSENT" /\ tenant' = Reconciled
  /\ Reconciled = "ACTIVE" /\ A

-----------------------------------------------------------------------------
(* Accounts.                                                                *)

(* A repeated request only renames the account.                             *)
Request(p) ==
  /\ RowOf(p) = {} /\ nextId \in Ids
  /\ rows' = [rows EXCEPT ![nextId] = [Absent EXCEPT !.phone = p]]
  /\ nextId' = nextId + 1
  /\ UNCHANGED <<status, tenant, challenge, handlers, past>>

SetActive(i, b) ==
  /\ rows[i].phone # NoPhone /\ rows[i].active # b
  /\ rows' = [rows EXCEPT ![i].active = b]
  /\ UNCHANGED <<nextId, status, tenant, challenge, handlers, past>>

DisableTenant ==
  /\ tenant = "ACTIVE"
  /\ tenant' = "DISABLED"
  /\ rows' = [i \in Ids |-> IF rows[i].owner THEN [rows[i] EXCEPT !.active = FALSE] ELSE rows[i]]
  /\ UNCHANGED <<nextId, status, challenge, handlers, past>>

-----------------------------------------------------------------------------
(* Keys.                                                                    *)

Approved(i) == rows[i].active /\ tenant # "DISABLED"

(* The same key again, or a key nobody has registered while no other key of *)
(* this phone is live.                                                      *)
Acceptable(c) ==
  /\ status[c] \in {"ABSENT", "ACTIVE"}
  /\ \A d \in Credentials \ {c} : PhoneOf[d] = PhoneOf[c] => ~Live(status[d])

Linkable(i, c) == rows[i].key \in {NoKey, c} /\ Keyed(c) \subseteq {i}

Bootstrap(i, c) ==
  /\ rows[i].phone = PhoneOf[c] /\ Approved(i) /\ Acceptable(c) /\ Linkable(i, c)
  /\ status' = [status EXCEPT ![c] = "ACTIVE"]
  /\ tenant' = "ACTIVE"
  /\ rows' = [rows EXCEPT ![i].dual = TRUE, ![i].key = c,
                          ![i].owner = (Owners \subseteq {i})]
  /\ past' = [past EXCEPT ![c] = "linked"]
  /\ UNCHANGED <<nextId, challenge, handlers>>

(* Asking for its status links a key, whatever its status, to the account.  *)
Bind(i, c) ==
  /\ status[c] # "ABSENT" /\ rows[i].phone = PhoneOf[c]
  /\ rows[i].key = NoKey /\ Linkable(i, c)
  /\ rows' = [rows EXCEPT ![i].key = c]
  /\ past' = [past EXCEPT ![c] = IF @ = "revived" THEN @ ELSE "linked"]
  /\ UNCHANGED <<nextId, status, tenant, challenge, handlers>>

IssueChallenge(e) ==
  /\ IfActive(challenge[e] = "none" /\ challenge' = [challenge EXCEPT ![e] = "issued"])
  /\ UNCHANGED <<rows, nextId, status, handlers, past>>

SubmitChecked(e, c) ==
  /\ status[c] = "ABSENT" /\ \A s \in submits : s.key # c
  /\ IfActive(challenge[e] = "issued" /\ submits' = submits \cup {[challenge |-> e, key |-> c]})
  /\ UNCHANGED <<rows, nextId, status, challenge, approving, leaving, past>>

(* The challenge is consumed and the key stored, or neither.                *)
SubmitCommitted(s) ==
  /\ IF challenge[s.challenge] = "issued"
       THEN /\ challenge' = [challenge EXCEPT ![s.challenge] = "used"]
            /\ status' = [status EXCEPT ![s.key] = "PENDING"]
       ELSE UNCHANGED <<challenge, status>>
  /\ submits' = submits \ {s}
  /\ UNCHANGED <<rows, nextId, tenant, approving, leaving, past>>

ApprovalChecked(c) ==
  /\ IfActive(status[c] = "PENDING" /\ approving' = approving \cup {c})
  /\ UNCHANGED <<rows, nextId, status, challenge, submits, leaving, past>>

(* Whatever became of the key since it was read: one that was revoked       *)
(* meanwhile is live again.                                                 *)
ApprovalWritten(c) ==
  /\ c \in approving
  /\ status' = [status EXCEPT ![c] = "ACTIVE"]
  /\ past' = [past EXCEPT ![c] = IF Live(status[c]) THEN @ ELSE "revived"]
  /\ approving' = approving \ {c}
  /\ UNCHANGED <<rows, nextId, tenant, challenge, submits, leaving>>

Withdraw(c, s) ==
  /\ status[c] # "ABSENT"
  /\ status' = [status EXCEPT ![c] = s]
  /\ UNCHANGED <<rows, nextId, tenant, challenge, handlers, past>>

(* A handler met a disabled account of the tenant's owner.                  *)
ReconcileOnly ==
  /\ tenant = "ACTIVE" /\ Reconciled = "DISABLED" /\ tenant' = "DISABLED"
  /\ UNCHANGED <<rows, nextId, status, challenge, handlers, past>>

-----------------------------------------------------------------------------
(* Leaving.                                                                 *)

Leave(i, c) ==
  /\ leaving' = leaving \cup {[row |-> i, key |-> c, revoked |-> c = NoKey]}
  /\ UNCHANGED <<rows, nextId, status, tenant, challenge, submits, approving, past>>

(* An account with a key that was never linked must be reconciled first.    *)
DeletePreflight(i) ==
  /\ rows[i].phone # NoPhone
  /\ rows[i].key # NoKey \/ ~rows[i].dual
  /\ Leave(i, rows[i].key)

(* The phone proves that it holds the key, once per nonce.                  *)
LogoutProof(c) ==
  /\ status[c] \in {"ACTIVE", "REVOKED"} /\ tenant = "ACTIVE"
  /\ \E i \in Keyed(c) : Leave(i, c)

(* The revocation is durable even if its publication fails and ends the     *)
(* handler.                                                                 *)
RevokeKey(l) ==
  /\ ~l.revoked
  /\ status' = [status EXCEPT ![l.key] = "REVOKED"]
  /\ leaving' \in {leaving \ {l}, (leaving \ {l}) \cup {[l EXCEPT !.revoked = TRUE]}}
  /\ UNCHANGED <<rows, nextId, tenant, challenge, submits, approving, past>>

SameRow(l)  == rows[l.row].phone # NoPhone
Unchanged(l) == rows[l.row].phone # NoPhone /\ rows[l.row].key = l.key

Actives(i)  == {j \in Ids \ {i} : rows[j].active}
Heir(i)     == CHOOSE j \in Actives(i) : \A k \in Actives(i) : j <= k
NoHeir(i)   == {}
(* The first active account after the owner's takes the tenant over.        *)
Heirs(i)    == IF rows[i].owner /\ Actives(i) # {} THEN {Heir(i)} ELSE {}

FinishLeaving(l) ==
  /\ l.revoked
  /\ LET heirs == Heirs(l.row)
     IN  IF Unchanged(l) /\ \A j \in heirs : rows[j].key # NoKey
           THEN rows' = [i \in Ids |->
                  IF i = l.row THEN Absent
                  ELSE IF i \in heirs THEN [rows[i] EXCEPT !.owner = TRUE, !.dual = TRUE]
                  ELSE rows[i]]
           ELSE UNCHANGED rows
  /\ leaving' = leaving \ {l}
  /\ UNCHANGED <<nextId, status, tenant, challenge, submits, approving, past>>

(* The process ends: transactions roll back and handlers are gone.          *)
Crash ==
  /\ submits' = {} /\ approving' = {} /\ leaving' = {}
  /\ UNCHANGED <<rows, nextId, status, tenant, challenge, past>>

-----------------------------------------------------------------------------
Accounts ==
  \/ \E p \in Phones : Request(p)
  \/ \E i \in Ids, b \in BOOLEAN : SetActive(i, b)
  \/ DisableTenant

Keys ==
  \/ \E i \in Ids, c \in Chosen : Bootstrap(i, c)
  \/ \E i \in Ids, c \in Credentials : Bind(i, c)
  \/ \E e \in Challenges : IssueChallenge(e) \/ \E c \in Enrolled : SubmitChecked(e, c)
  \/ \E s \in submits : SubmitCommitted(s)
  \/ \E c \in Enrolled : ApprovalChecked(c) \/ ApprovalWritten(c)
  \/ \E c \in Credentials, s \in Withdrawn : Withdraw(c, s)
  \/ ReconcileOnly

Leaving ==
  \/ \E i \in Ids : DeletePreflight(i)
  \/ \E c \in Credentials : LogoutProof(c)
  \/ \E l \in leaving : RevokeKey(l) \/ FinishLeaving(l)

Next == Accounts \/ Keys \/ Leaving \/ Crash

Spec == Init /\ [][Next]_vars

-----------------------------------------------------------------------------
(* A live key that an account was ever linked to (any live key, if the app  *)
(* chose it) is linked to an account of its phone, through which it can be  *)
(* revoked: no interleaving of a first start or an enrolment with a         *)
(* deletion or a logout leaves a live key behind whose account is gone (the *)
(* second, locked reading of the row in delete_tenant_admin and             *)
(* mobile_account_logout).  Only an approval that was read before the key   *)
(* was revoked and is written after it (approve_credential) does: it makes  *)
(* the key live again, and the deletion goes on.                            *)
KeyHasItsAccount ==
  \A c \in Credentials :
    (status[c] = "ACTIVE" /\ (c \in Chosen \/ past[c] = "linked"))
      => \E i \in Keyed(c) : rows[i].phone = PhoneOf[c]

(* The tenant loses its owner only when no account is active any more; the  *)
(* account that takes it over has a key.                                    *)
OwnerPassesOn ==
  /\ Owners # {} /\ Owners' = {} => \A i \in Ids : ~rows'[i].active
  /\ \A i \in Owners' \ Owners : rows'[i].key # NoKey

(* A challenge admits one key, also when two submissions passed their checks *)
(* before either was stored.                                                *)
OneKeyPerChallenge ==
  \A c \in Enrolled : status[c] = "ABSENT" /\ status'[c] # "ABSENT" =>
    \E e \in Challenges : challenge[e] = "issued" /\ challenge'[e] = "used"

(* What every step of an enrolment or a withdrawal keeps to.                *)
TenantIsKept == OwnerPassesOn /\ OneKeyPerChallenge
=============================================================================
