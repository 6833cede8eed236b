---------------------------- MODULE AdminControl ---------------------------
(***************************************************************************)
(* The requests of the backend that open the door, change the Target or    *)
(* remove data (src/backend/app/main.py, admin_security.py):               *)
(*                                                                         *)
(*   - "approval": a force-open of two administrators                      *)
(*     (request_force_open, approve_force_open);                           *)
(*   - "proof": a signed request of a phone (manual_open_v2, its v3 and v2 *)
(*     branches) and the pre-arm of a legacy device (door_prearm,          *)
(*     verify_access);                                                     *)
(*   - "data": the Target configuration, retention deletion and support    *)
(*     export (update_admin_config, delete_expired_privacy_data,           *)
(*     create_support_export).                                             *)
(*                                                                         *)
(* Handlers run in a pool of threads and the process may end between any   *)
(* two steps.  A transaction that commits may be reported as failed, and   *)
(* so may a publication that reached the broker; the caller then repeats   *)
(* its request.  A transaction that does not commit changes nothing and is *)
(* no step.  The three groups share no state: a behaviour follows one of   *)
(* them (lane).                                                            *)
(***************************************************************************)
EXTENDS Naturals

CONSTANTS Handlers,    \* threads that serve requests
          Operators,   \* administrators who may propose
          Approvers,   \* administrators who may approve
          Proofs,      \* signed requests, each with its own nonce
          Kind,        \* [Proofs -> {"v3", "v2"}]
          Settings,    \* values of the configuration, 0 among them
          Requests     \* retention requests a caller sends under one key

ControlAssumption ==
    /\ Kind \in [Proofs -> {"v3", "v2"}] /\ "proposal" \notin Proofs
    /\ 0 \in Settings /\ Settings \subseteq Nat
    /\ "none" \notin Requests /\ "nobody" \notin Approvers

VARIABLES lane,
          sessions,    \* administrators with a session that may act
          proposal,    \* the row of force_open_approvals
          used,        \* the nonces consumed
          entitled,    \* what the account of the phone may still sign with
          opens,       \* door commands that reached the broker
          arms,        \* pre-arm commands that reached the broker
          memory,      \* current_target_config
          file,        \* target_config.json
          told,        \* configurations that reached the broker
          job,         \* the row of privacy_deletion_jobs
          deletions, consent, exports,
          audit,       \* admin_audit
          call         \* what each handler is doing

approval == <<proposal>>
phone == <<used, entitled, arms>>
data == <<memory, file, told, job, deletions, consent, exports>>
vars == <<lane, sessions, approval, phone, opens, data, audit, call>>

Admins == Operators \union Approvers
NoProposal == [status |-> "none", proposer |-> "nobody", approver |-> "nobody",
               fresh |-> TRUE]
At(pc, for, v) == [pc |-> pc, for |-> for, value |-> v]
Rest == At("idle", "nothing", 0)
Entry(t) == <<t, 0>>
Things == Proofs \union {"proposal"}

Init == /\ lane \in {"approval", "proof", "data"}
        /\ sessions = {} /\ proposal = NoProposal
        /\ used = {} /\ entitled = {"v3", "v2"}
        /\ opens = [t \in Things |-> 0] /\ arms = 0
        /\ memory = 0 /\ file = 0 /\ told = {}
        /\ job = "none" /\ deletions = 0 /\ consent = TRUE /\ exports = 0
        /\ audit = {}
        /\ call = [h \in Handlers |-> Rest]

Does(h, pc, for) == call' = [call EXCEPT ![h] = At(pc, for, 0)]
Goes(h, pc, v) == call' = [call EXCEPT ![h] = At(pc, "nothing", v)]
Ends(h) == call' = [call EXCEPT ![h] = Rest]

-----------------------------------------------------------------------------
(* Sessions                                                                 *)

(* authenticate_mtls, authenticate_personal_password, issue_session.  The   *)
(* "data" requests need no more than one administrator.                     *)
Login == /\ lane # "proof"
         /\ \E a \in Admins \ sessions :
              /\ lane = "data" => sessions = {} /\ a \in Operators
              /\ sessions' = sessions \union {a}
         /\ UNCHANGED <<lane, approval, phone, opens, data, audit, call>>

(* A session expires, or is too old for an action that asks for a fresh     *)
(* one; rotate_sessions ends all of them.                                   *)
Logout == /\ sessions # {}
          /\ \/ \E a \in sessions : sessions' = sessions \ {a}
             \/ sessions' = {}
          /\ UNCHANGED <<lane, approval, phone, opens, data, audit, call>>

-----------------------------------------------------------------------------
(* Force-open with two persons                                              *)

(* A repeated request finds its proposal by its idempotency key.            *)
Propose ==
    /\ lane = "approval" /\ proposal.status = "none"
    /\ \E a \in Operators \intersect sessions :
         /\ proposal' = [NoProposal EXCEPT !.status = "PENDING", !.proposer = a]
         /\ audit' = audit \union {Entry("proposed")}
    /\ UNCHANGED <<lane, sessions, phone, opens, data, call>>

ProposalExpires ==
    /\ proposal.status = "PENDING" /\ proposal.fresh
    /\ proposal' = [proposal EXCEPT !.fresh = FALSE]
    /\ UNCHANGED <<lane, sessions, phone, opens, data, audit, call>>

Another(a) == a # proposal.proposer

Reserved(a) == [proposal EXCEPT !.status = "RECONCILIATION_REQUIRED", !.approver = a]

(* The first transaction of approve_force_open commits the disposition and  *)
(* its audit before anything can reach the broker.                          *)
Reserve(h) ==
    /\ lane = "approval" /\ call[h] = Rest
    /\ proposal.status = "PENDING" /\ proposal.fresh
    /\ \E a \in Approvers \intersect sessions :
         /\ Another(a)
         /\ proposal' = Reserved(a)
    /\ audit' = audit \union {Entry("reserved")}
    /\ \/ Does(h, "publish", "proposal")
       \/ UNCHANGED call
    /\ UNCHANGED <<lane, sessions, phone, opens, data>>

(* The second transaction; a handler that finds the row in another state    *)
(* leaves it.                                                               *)
Finish(h) ==
    /\ call[h].pc = "finish"
    /\ \/ UNCHANGED <<proposal, audit>>
       \/ /\ proposal.status = "RECONCILIATION_REQUIRED"
          /\ proposal' = [proposal EXCEPT !.status = "PUBLISHED"]
          /\ audit' = audit \union {Entry("published")}
    /\ Ends(h)
    /\ UNCHANGED <<lane, sessions, phone, opens, data>>

-----------------------------------------------------------------------------
(* Requests of a phone                                                      *)

(* The credential is ACTIVE with an ACTIVE account and an open grant (v3),  *)
(* or the account is active and has its key (v2).                           *)
Entitled(n) == Kind[n] \in entitled

(* The nonce is unique in its table: it is inserted, with the checks, in    *)
(* one transaction that precedes the publication.                           *)
Unchecked(n) == used
Consumed(n) == used \union {n}

Consume(h) ==
    /\ lane = "proof" /\ call[h] = Rest
    /\ \E n \in Proofs \ used :
         /\ Entitled(n)
         /\ used' = Consumed(n)
         /\ \/ Does(h, "publish", n)
            \/ UNCHANGED call
    /\ UNCHANGED <<lane, sessions, approval, entitled, arms, opens, data, audit>>

(* publish_force_open_to_mqtt for either kind of request.                   *)
PublishOpen(h) ==
    /\ call[h].pc = "publish" /\ call[h].for \in Things
    /\ \/ /\ opens' = [opens EXCEPT ![call[h].for] = @ + 1]
          /\ \/ Ends(h)
             \/ call[h].for = "proposal" /\ Does(h, "finish", "proposal")
       \/ UNCHANGED opens /\ Ends(h)
    /\ UNCHANGED <<lane, sessions, approval, phone, data, audit>>

(* door_prearm and verify_access look the account up, close the connection  *)
(* and then publish.                                                        *)
LookUp(h) ==
    /\ lane = "proof" /\ call[h] = Rest /\ arms = 0 /\ "v2" \in entitled
    /\ Does(h, "arm", "account")
    /\ UNCHANGED <<lane, sessions, approval, phone, opens, data, audit>>

PublishArm(h) ==
    /\ call[h].pc = "arm"
    /\ arms' \in {arms, 1}
    /\ Ends(h)
    /\ UNCHANGED <<lane, sessions, approval, used, entitled, opens, data, audit>>

(* The administrator suspends the account or revokes its credential.        *)
Revoke == /\ lane = "proof"
          /\ \E k \in entitled : entitled' = entitled \ {k}
          /\ UNCHANGED <<lane, sessions, approval, used, arms, opens, data, audit, call>>

-----------------------------------------------------------------------------
(* Configuration, retention, export                                         *)

(* update_admin_config changes the dictionary first.                        *)
ChangeConfig(h) ==
    /\ lane = "data" /\ call[h] = Rest /\ sessions # {}
    /\ \E v \in Settings \ {memory} : memory' = v /\ Goes(h, "audit", v)
    /\ UNCHANGED <<lane, sessions, approval, phone, opens, file, told, job,
                   deletions, consent, exports, audit>>

(* An audit that fails ends the request; save_target_config, which writes   *)
(* the dictionary as it is by then, ignores its own failure.                *)
AuditLater(h) == audit
AuditFirst(h) == audit \union {<<"config", call[h].value>>}

AuditConfig(h) ==
    /\ call[h].pc = "audit"
    /\ \/ Ends(h) /\ UNCHANGED audit
       \/ audit' = AuditFirst(h) /\ Goes(h, "save", call[h].value)
    /\ UNCHANGED <<lane, sessions, approval, phone, opens, data>>

SaveConfig(h) ==
    /\ call[h].pc = "save"
    /\ file' \in {file, memory}
    /\ Goes(h, "tell", call[h].value)
    /\ UNCHANGED <<lane, sessions, approval, phone, opens, memory, told, job,
                   deletions, consent, exports, audit>>

PublishConfig(h) ==
    /\ call[h].pc = "tell"
    /\ told' \in {told, told \union {call[h].value}}
    /\ Ends(h)
    /\ UNCHANGED <<lane, sessions, approval, phone, opens, memory, file, job,
                   deletions, consent, exports, audit>>

(* delete_expired_privacy_data: reservation, deletion, completion and audit *)
(* are one transaction.  The key is bound to its first request.             *)
Deletable(r) == job = "none"

Delete == /\ lane = "data" /\ sessions # {} /\ deletions < 2
          /\ \E r \in Requests : Deletable(r) /\ job' = r
          /\ deletions' = deletions + 1
          /\ audit' = audit \union {Entry("deleted")}
          /\ UNCHANGED <<lane, sessions, approval, phone, opens, memory, file,
                         told, consent, exports, call>>

(* create_support_export reads the consent for update.                      *)
Export == /\ lane = "data" /\ sessions # {} /\ consent /\ exports = 0
          /\ exports' = 1
          /\ audit' = audit \union {Entry("exported")}
          /\ UNCHANGED <<lane, sessions, approval, phone, opens, memory, file,
                         told, job, deletions, consent, call>>

WithdrawConsent ==
    /\ lane = "data" /\ consent /\ consent' = FALSE
    /\ UNCHANGED <<lane, sessions, approval, phone, opens, memory, file, told,
                   job, deletions, exports, audit, call>>

-----------------------------------------------------------------------------
(* Sessions and the configuration dictionary live in the process.           *)
Restart == /\ sessions' = {} /\ memory' = file
           /\ call' = [h \in Handlers |-> Rest]
           /\ UNCHANGED <<lane, approval, phone, opens, file, told, job,
                          deletions, consent, exports, audit>>

Next == \/ Login \/ Logout \/ Propose \/ ProposalExpires \/ Revoke
        \/ Delete \/ Export \/ WithdrawConsent \/ Restart
        \/ \E h \in Handlers :
              \/ Reserve(h) \/ Finish(h) \/ Consume(h) \/ PublishOpen(h)
              \/ LookUp(h) \/ PublishArm(h)
              \/ ChangeConfig(h) \/ AuditConfig(h) \/ SaveConfig(h) \/ PublishConfig(h)

Spec == Init /\ [][Next]_vars

-----------------------------------------------------------------------------
(* Properties                                                               *)

(* An approval opens the door at most once, whichever of its transactions   *)
(* or its publication is reported as failed and however often it is         *)
(* repeated (approve_force_open, "cannot turn a broker success into a       *)
(* retry-safe PUBLISHING ambiguity").                                       *)
OneOpenPerApproval == opens["proposal"] <= 1

(* A signed request opens the door at most once, although the phone sends   *)
(* it again when the first answer was an error (mobile_control_nonces and   *)
(* mobile_credential_control_nonces).                                       *)
OneOpenPerProof == \A n \in Proofs : opens[n] <= 1

(* An idempotency key deletes once: a caller that repeats its request after *)
(* an unknown outcome removes nothing more (run_privacy_retention).         *)
OneDeletionPerKey == deletions <= 1

(* No repetition, crash or uncertain outcome carries a request out twice.   *)
EffectsHappenOnce == OneOpenPerApproval /\ OneOpenPerProof /\ OneDeletionPerKey

(* A force-open that reached the broker has, on disk, the names of two      *)
(* different administrators (approve_force_open).                           *)
TwoPersons ==
    opens["proposal"] > 0 =>
        proposal.approver \in Approvers \ {proposal.proposer}

(* What reached the Target or left the store was audited before, wherever   *)
(* the process ended (_audit_admin, "before an irreversible action").       *)
EffectIsAudited ==
    /\ opens["proposal"] > 0 => Entry("reserved") \in audit
    /\ \A v \in told : <<"config", v>> \in audit
    /\ deletions > 0 => Entry("deleted") \in audit
    /\ exports > 0 => Entry("exported") \in audit

(* Whatever was done can be traced to who did it.                           *)
EffectIsAccountable == TwoPersons /\ EffectIsAudited
=============================================================================
