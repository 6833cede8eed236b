---------------------------- MODULE AclDelivery ----------------------------
(***************************************************************************)
(* How a change of a door's authorisations reaches its Target: the store,  *)
(* the durable snapshot job and the publisher of backend/app/              *)
(* acl_management.py, the delivery seen of target_acl_delivery.py, the     *)
(* refresh worker of acl_refresh.py and the Target's acceptance rule.      *)
(*                                                                         *)
(* One tenant, one door, one Target.  HTTP handlers commit their           *)
(* transaction at any point of a publication, which one lock serialises    *)
(* but which spends several store calls and a wait for an acknowledgement. *)
(* Snapshots share one lease and expire in the order of their versions, so *)
(* one threshold says which have expired.                                  *)
(***************************************************************************)
EXTENDS Integers

CONSTANTS
  Credentials,
  Withdrawn,   (* the states a credential is taken back to                 *)
  MaxVersion,  (* bound: versions one run may allocate                     *)
  MaxRevision  (* bound: revisions of one job that others may ask for      *)

ASSUME AclAssumption ==
  /\ MaxVersion \in Nat \ {0} /\ MaxRevision \in Nat \ {0}
  /\ Withdrawn \subseteq {"DISABLED", "REVOKED"}

Versions == 1..MaxVersion
Status   == {"ABSENT", "ACTIVE"} \cup Withdrawn
NoJob    == [revision |-> 0, generated |-> 0]
NoSnapshot == [written |-> FALSE, entries |-> {}]
Idle == [pc |-> "idle", why |-> "replace", revision |-> 0, version |-> 0, resend |-> FALSE]

VARIABLES
  status,     (* credentials.status                                        *)
  granted,    (* credential_door_grants with revoked_at NULL               *)
  rows,       (* credential_door_grants                                    *)
  tenant,     (* acl_tenants.status                                        *)
  legacy,     (* tenants.is_active of the mapped legacy row                *)
  job,        (* the row of acl_snapshot_jobs, revision 0 when there is none *)
  last,       (* acl_door_state.last_version                               *)
  snapshots,  (* acl_snapshots: the entries of each version                *)
  expired,    (* versions up to this one are past expires_at_epoch_s       *)
  op,         (* the publication that holds the lock                       *)
  seen,       (* TargetAclDeliveryTracker has noted the awaited version     *)
  bootRefresh,(* AclRefreshWorker._pending holds target_boot               *)
  net, acks,  (* snapshots and acknowledgements the broker still holds     *)
  target      (* the Target: high watermark and active version, 0 for none *)

grants      == <<granted, rows>>
storeVars   == <<status, grants, tenant, legacy, job>>
snapVars    == <<last, snapshots, expired>>
targetVars  == <<net, acks, target>>
vars == <<storeVars, snapVars, op, seen, bootRefresh, targetVars>>

Entries(v) == IF v = 0 THEN {} ELSE snapshots[v].entries
Latest == LET written == {v \in Versions : snapshots[v].written}
          IN  IF written = {} THEN 0 ELSE CHOOSE v \in written : \A w \in written : w <= v

Init ==
  /\ status \in [Credentials -> {"ABSENT", "ACTIVE"}]
  /\ granted = {} /\ rows = {} /\ tenant = "ACTIVE" /\ legacy = TRUE
  /\ job = NoJob /\ last = 0
  /\ snapshots = [v \in Versions |-> NoSnapshot]
  /\ expired = 0
  /\ op = Idle /\ seen = FALSE /\ bootRefresh = FALSE
  /\ net = {} /\ acks = {} /\ target = [mark |-> 0, active |-> 0]

-----------------------------------------------------------------------------
(* The store's rules.                                                      *)

Authorised == IF tenant = "ACTIVE" THEN {c \in granted : status[c] = "ACTIVE"} ELSE {}

(* Any earlier artifact of the job is forgotten.                           *)
Queued(j) == [revision |-> j.revision + 1, generated |-> 0]
QueueJob == job' = Queued(job)

ActiveTenant == tenant = "ACTIVE" /\ legacy

(* The bounds: whatever costs a version that the job's own work does not    *)
(* need leaves one for what may be under way and one for the job.           *)
Spare == last < MaxVersion - 1
Room  == Spare /\ job.revision < MaxRevision

(* The tenant's doors: those with a version, a grant or a job.             *)
DisableTenantAndQueue ==
  /\ tenant' = "DISABLED" /\ legacy' = FALSE
  /\ IF tenant = "ACTIVE" /\ (last > 0 \/ granted # {} \/ job # NoJob)
       THEN QueueJob ELSE UNCHANGED job

(* A disabled legacy row disables the tenant the next time it is looked at. *)
Reconcile ==
  IF legacy THEN UNCHANGED <<tenant, legacy, job>> ELSE DisableTenantAndQueue

-----------------------------------------------------------------------------
(* Handlers.                                                               *)

(* A revoked grant is a conflict, and so is a credential that is not active. *)
Bootstrapped(c) == status[c] = "ACTIVE" /\ (c \in granted \/ c \notin rows)

(* A credential of an approved phone is created active and granted at once; *)
(* a repeated request, or one for a credential that is active already,      *)
(* grants what was never granted and may ask for a snapshot again.  A job   *)
(* that is already there is left as it is.                                  *)
Bootstrap(c) ==
  /\ tenant = "ACTIVE" /\ legacy
  /\ status[c] = "ABSENT" \/ Bootstrapped(c)
  /\ LET current == status[c] # "ABSENT" /\ c \in Entries(Latest) /\ Latest > expired
     IN  /\ status' = [status EXCEPT ![c] = "ACTIVE"]
         /\ granted' = granted \cup {c} /\ rows' = rows \cup {c}
         /\ IF job = NoJob /\ ~current THEN Room /\ QueueJob ELSE UNCHANGED job
  /\ UNCHANGED <<tenant, legacy, snapVars, op, seen, bootRefresh, targetVars>>

(* A grant queues nothing: the next publication carries it.                 *)
Grant(c) ==
  /\ ActiveTenant /\ status[c] # "ABSENT" /\ c \notin granted
  /\ granted' = granted \cup {c} /\ rows' = rows \cup {c}
  /\ UNCHANGED <<status, tenant, legacy, job, snapVars, op, seen, bootRefresh, targetVars>>

RemoveFromDoor(c) ==
  /\ c \in granted
  /\ granted' = granted \ {c}
  /\ Room /\ QueueJob
  /\ UNCHANGED <<status, rows, tenant, legacy, snapVars, op, seen, bootRefresh, targetVars>>

(* A repeated request keeps a job that is already there.                    *)
StatusJob(c, s) ==
  IF c \in granted /\ ~(status[c] = s /\ job # NoJob) THEN Room /\ QueueJob ELSE UNCHANGED job

SetStatus(c, s) ==
  /\ status[c] # "ABSENT"
  /\ status' = [status EXCEPT ![c] = s]
  /\ StatusJob(c, s)
  /\ UNCHANGED <<grants, tenant, legacy, snapVars, op, seen, bootRefresh, targetVars>>

DisableTenant ==
  /\ DisableTenantAndQueue
  /\ UNCHANGED <<status, grants, snapVars, op, seen, bootRefresh, targetVars>>

LegacyDisable ==
  /\ legacy /\ legacy' = FALSE
  /\ UNCHANGED <<status, grants, tenant, job, snapVars, op, seen, bootRefresh, targetVars>>

(* A pull looks at the legacy row, works the job if there is one            *)
(* (BeginReplace) and answers with the latest snapshot.                     *)
Pull ==
  /\ Reconcile
  /\ UNCHANGED <<status, grants, snapVars, op, seen, bootRefresh, targetVars>>

-----------------------------------------------------------------------------
(* The publication, cut at its store calls.                                 *)

Step(pc) == [op EXCEPT !.pc = pc]
OpUnchanged == UNCHANGED <<storeVars, snapVars, seen, bootRefresh, targetVars>>

(* The handler that queued the job gets the lock, or a pull does.           *)
BeginReplace ==
  /\ op.pc = "idle" /\ job # NoJob
  /\ op' = [Idle EXCEPT !.pc = "read"]
  /\ UNCHANGED <<storeVars, snapVars, seen, bootRefresh, targetVars>>

(* The administrator's own publication touches no job.                      *)
BeginDirect ==
  /\ op.pc = "idle" /\ Spare
  /\ op' = [Idle EXCEPT !.pc = "allocate", !.why = "direct"]
  /\ OpUnchanged

SupersedeIfAbsent == IF job = NoJob THEN Room /\ QueueJob ELSE UNCHANGED job
SupersedeJob      == Room /\ QueueJob
QueueIfAbsent     == IF job = NoJob THEN Room /\ QueueJob ELSE UNCHANGED job

(* refresh_snapshot: a disabled tenant is refused, after reconciliation.    *)
Refresh(why, queue) ==
  IF ActiveTenant
    THEN /\ queue
         /\ op' = [Idle EXCEPT !.pc = "read", !.why = why]
         /\ UNCHANGED <<tenant, legacy>>
    ELSE Reconcile /\ UNCHANGED op

RefreshBoot ==
  /\ op.pc = "idle" /\ bootRefresh
  /\ bootRefresh' = FALSE
  /\ Refresh("boot", SupersedeJob)
  /\ UNCHANGED <<status, grants, snapVars, seen, targetVars>>

(* The worker may have chosen this before a boot was noted: it waits for    *)
(* the lock between its choice and its work.                                *)
RefreshLease ==
  /\ op.pc = "idle"
  /\ Refresh("replace", QueueIfAbsent)
  /\ UNCHANGED <<status, grants, snapVars, seen, bootRefresh, targetVars>>

ReadJobForGood ==
  /\ op.pc = "read"
  /\ op' = [op EXCEPT
       !.revision = job.revision,
       !.version  = job.generated,
       !.resend   = job.generated # 0,
       !.pc = IF job.generated = 0 THEN "allocate" ELSE "send"]
  /\ OpUnchanged

ReadJob ==
  /\ op.pc = "read"
  /\ op' = [op EXCEPT
       !.revision = job.revision,
       !.version  = job.generated,
       !.resend   = job.generated > expired,
       !.pc = IF job.generated = 0 THEN "allocate"
              ELSE IF job.generated > expired THEN "send" ELSE "expire"]
  /\ OpUnchanged

(* Only the artifact and the revision that were read are retired.           *)
ExpireArtifact ==
  /\ op.pc = "expire"
  /\ IF job = [revision |-> op.revision, generated |-> op.version]
       THEN /\ QueueJob
            /\ op' = [op EXCEPT !.pc = "allocate", !.revision = @ + 1]
       ELSE UNCHANGED job /\ op' = Idle
  /\ UNCHANGED <<status, grants, tenant, legacy, snapVars, seen, bootRefresh, targetVars>>

Allocate ==
  /\ op.pc = "allocate" /\ last < MaxVersion
  /\ Reconcile
  /\ last' = last + 1
  /\ op' = [op EXCEPT !.pc = "collect", !.version = last + 1]
  /\ UNCHANGED <<status, grants, snapshots, expired, seen, bootRefresh, targetVars>>

Collect ==
  /\ op.pc = "collect"
  /\ snapshots' = [snapshots EXCEPT ![op.version] = [written |-> TRUE, entries |-> Authorised]]
  /\ op' = Step("send")
  /\ UNCHANGED <<storeVars, last, expired, seen, bootRefresh, targetVars>>

(* mark_snapshot_job_generated, unless the job has moved on.                *)
Marked(j) == IF op.why # "direct" /\ ~op.resend /\ j # NoJob /\ j.revision = op.revision
               THEN [j EXCEPT !.generated = op.version] ELSE j

DeletedAnyRevision(j) == IF op.why # "direct" THEN NoJob ELSE j

(* delete_snapshot_job, unless the job has moved on.                        *)
Deleted(j) == IF op.why # "direct" /\ j.revision = op.revision THEN NoJob ELSE j

(* Earlier acknowledgements of this version are forgotten before it is sent; *)
(* a publish that reports failure may still have reached the broker.         *)
Send ==
  /\ op.pc = "send"
  /\ seen' = FALSE
  /\ \/ /\ net' = net \cup {op.version}
        /\ op' = Step("await") /\ UNCHANGED job
     \/ /\ net' \in {net, net \cup {op.version}}
        /\ op' = Idle /\ job' = Marked(job)
  /\ UNCHANGED <<status, grants, tenant, legacy, snapVars, bootRefresh, acks, target>>

Acknowledged ==
  /\ op.pc = "await" /\ seen
  /\ op' = Idle /\ job' = Deleted(job)
  /\ UNCHANGED <<status, grants, tenant, legacy, snapVars, seen, bootRefresh, targetVars>>

TimedOut ==
  /\ op.pc = "await" /\ ~seen
  /\ op' = Idle /\ job' = Marked(job)
  /\ UNCHANGED <<status, grants, tenant, legacy, snapVars, seen, bootRefresh, targetVars>>

(* Observations of other versions are forgotten before they could count.    *)
AckArrives(v) ==
  /\ v \in acks
  /\ acks' = acks \ {v}
  /\ seen' = (seen \/ (op.pc = "await" /\ op.version = v))
  /\ UNCHANGED <<storeVars, snapVars, op, bootRefresh, net, target>>

Reconnect ==
  /\ seen /\ seen' = FALSE
  /\ UNCHANGED <<storeVars, snapVars, op, bootRefresh, targetVars>>

(* The process ends at any point and starts again; only the store survives. *)
Crash ==
  /\ Spare \/ op.pc = "allocate"
  /\ op' = Idle
  /\ seen' = FALSE /\ bootRefresh' = FALSE
  /\ UNCHANGED <<storeVars, snapVars, targetVars>>

-----------------------------------------------------------------------------
(* The broker and the Target.                                               *)

(* applySignedAcl does not look at the time of what it is given: only the   *)
(* lease counts, when a phone is at the door.                               *)
Verdict(v) ==
  IF target.active = v THEN "idempotent"
  ELSE IF v <= target.mark THEN "replay"
  ELSE "activate"

(* Nothing is applied that the flash does not take, and the acknowledgement *)
(* may be lost.                                                             *)
Receive(v) ==
  /\ v \in net
  /\ net' = net \ {v}
  /\ \/ /\ Verdict(v) = "activate"
        /\ target' = [mark |-> v, active |-> v]
        /\ acks' \in {acks, acks \cup {v}}
     \/ /\ Verdict(v) = "idempotent" /\ UNCHANGED target
        /\ acks' \in {acks, acks \cup {v}}
     \/ Verdict(v) # "idempotent" /\ UNCHANGED <<target, acks>>
  /\ UNCHANGED <<storeVars, snapVars, op, seen, bootRefresh>>

(* The watermark is durable, the active list is not; the boot advisory may  *)
(* be lost.                                                                 *)
TargetReboots ==
  /\ target.active # 0
  /\ target' = [target EXCEPT !.active = 0]
  /\ bootRefresh' \in {bootRefresh, TRUE}
  /\ UNCHANGED <<storeVars, snapVars, op, seen, net, acks>>

Expire ==
  /\ Spare /\ expired < Latest /\ expired' = expired + 1
  /\ UNCHANGED <<storeVars, last, snapshots, op, seen, bootRefresh, targetVars>>

-----------------------------------------------------------------------------
Handlers ==
  \/ \E c \in Credentials : \/ Bootstrap(c) \/ Grant(c) \/ RemoveFromDoor(c)
                            \/ \E s \in Withdrawn : SetStatus(c, s)
  \/ DisableTenant \/ LegacyDisable \/ Pull

Publication ==
  \/ ReadJob \/ ExpireArtifact \/ Allocate \/ Collect \/ Send \/ Acknowledged \/ TimedOut

Worker == RefreshBoot \/ RefreshLease

Environment ==
  \/ \E v \in Versions : AckArrives(v) \/ Receive(v)
  \/ Reconnect \/ Crash \/ TargetReboots \/ Expire

Next == Handlers \/ BeginReplace \/ BeginDirect \/ Publication \/ Worker \/ Environment

(* The worker's thread and the holder of the lock go on, every wait is      *)
(* bounded, leases end and restarts stop at some time.                      *)
Fairness ==
  /\ WF_vars(Publication) /\ WF_vars(RefreshLease) /\ WF_vars(Expire)
  /\ SF_vars(Send /\ op'.pc = "await")
  /\ <>[][~Crash]_vars

Spec == Init /\ [][Next]_vars
FairSpec == Spec /\ Fairness

-----------------------------------------------------------------------------
(* Properties                                                               *)

(* While the Target holds, or may still activate, a snapshot that lets in a *)
(* credential that has lost its authorisation, a durable job says so: no    *)
(* interleaving of a revocation with a publication under way, no lost       *)
(* acknowledgement and no crash makes the backend forget it                 *)
(* (delete_snapshot_job, mark_snapshot_job_generated).                      *)
RevocationIsPursued ==
  \A v \in {target.active} \cup {n \in net : n > target.mark} :
    Entries(v) \subseteq Authorised \/ job # NoJob

(* What a boot refresh sends is newer than anything the Target has ever     *)
(* applied, whatever was queued or half delivered before the boot           *)
(* (supersede_snapshot_job): a rebooted Target would refuse anything else.  *)
BootRefreshIsNew ==
  [][op.why = "boot" /\ op.pc = "send" /\ op'.pc = "await" => op.version > target.mark]_vars

(* The job is gone, is being published, or may not be published while the   *)
(* tenant is disabled.                                                      *)
Worked == op.pc = "await" /\ op.why # "direct" /\ op.version > expired
Settled == job = NoJob \/ Worked \/ ~ActiveTenant

(* A queued job is published, as a snapshot that has not expired, however   *)
(* often the broker refuses it, whatever the Target has refused and         *)
(* although its artifact expires while it waits, as long as the tenant is   *)
(* active (AclRefreshWorker, expire_snapshot_job_artifact).                 *)
JobsAreWorked == job # NoJob ~> Settled
=============================================================================
