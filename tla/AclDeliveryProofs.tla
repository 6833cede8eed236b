------------------------- MODULE AclDeliveryProofs -------------------------
(***************************************************************************)
(* A withdrawn authorisation is pursued, and a boot refresh is news, for   *)
(* any credentials and any bounds.                                         *)
(*                                                                         *)
(* The argument for the first: a snapshot is fresh as long as nothing it   *)
(* lets in has lost its authorisation.  Whatever withdraws one also makes  *)
(* a new revision of the job, without an artifact.  So the artifact of a   *)
(* job, what is being published for the revision the job still has, and,   *)
(* when there is no job, everything the Target may hold, are fresh, they   *)
(* and every later version.  Each of the three hands this on to the next.  *)
(***************************************************************************)
EXTENDS AclDelivery, TLAPS

USE DEF grants

Phases == {"idle", "read", "expire", "allocate", "collect", "send", "await"}

(* Types, and versions that are somewhere have been allocated.             *)
Jobs == [revision : Nat, generated : Nat]
StoreTypes ==
  /\ job \in Jobs /\ last \in 0..MaxVersion /\ expired \in Nat
  /\ snapshots \in [Versions -> [written : BOOLEAN, entries : SUBSET Credentials]]
  /\ status \in [Credentials -> {"ABSENT", "ACTIVE"} \cup Withdrawn]
  /\ granted \subseteq Credentials
  /\ tenant \in {"ACTIVE", "DISABLED"} /\ legacy \in BOOLEAN
Ops == [pc : Phases, why : {"replace", "boot", "direct"},
        revision : Nat, version : 0..MaxVersion, resend : BOOLEAN]
OpTypes ==
  /\ op \in Ops
  /\ seen \in BOOLEAN /\ bootRefresh \in BOOLEAN
TargetTypes ==
  /\ net \subseteq 1..last /\ acks \subseteq 1..last
  /\ target \in [mark : 0..last, active : 0..last]
  /\ target.active \in {0, target.mark}

Unwritten == \A v \in Versions : v > last => snapshots[v].entries = {}

(* No job has a revision without being there, nor an artifact.             *)
JobSound == job.generated <= last /\ (job.revision = 0 => job = NoJob)

(* What is acknowledged has been activated.                                *)
AcksHonest ==
  /\ \A v \in acks : v <= target.mark
  /\ op.pc = "await" /\ seen => op.version <= target.mark

(* The publication of a job finds it there, at its revision or a later one. *)
Publishing == op.pc \in {"expire", "allocate", "collect", "send", "await"}
OpSound ==
  /\ op.pc # "idle" /\ op.why # "direct" => job.revision >= 1
  /\ Publishing /\ op.why # "direct" => op.revision \in 1..job.revision
  /\ op.pc \in {"expire", "send", "await"} => op.version \in 1..last
  /\ op.pc \in {"read", "expire", "allocate", "collect"} => ~op.resend
  /\ op.pc \in {"collect", "send"} /\ ~op.resend =>
       op.version = last /\ target.mark < last /\ last \notin net /\ last >= 1
  /\ op.why = "boot" => ~op.resend
  /\ op.why = "boot" /\ op.pc = "read" => job.generated = 0
  /\ op.why = "boot" => op.pc # "expire"
  /\ op.why = "direct" => op.pc # "read" /\ op.pc # "expire"

Fresh(v) == snapshots[v].entries \subseteq Authorised
FreshFrom(n) == \A v \in Versions : v >= n => Fresh(v)

ArtifactFresh == job.generated # 0 => FreshFrom(job.generated)
SentFresh ==
  op.pc \in {"send", "await"} /\ op.why # "direct" /\ op.revision = job.revision
    => FreshFrom(op.version)
TargetFresh == job = NoJob => FreshFrom(target.mark)

Types == StoreTypes /\ OpTypes /\ TargetTypes
Sound == Unwritten /\ JobSound /\ AcksHonest /\ OpSound
IInv  == Types /\ Sound /\ ArtifactFresh /\ SentFresh /\ TargetFresh

-----------------------------------------------------------------------------
(* What a transaction may do to the job and to the authorisations: nobody   *)
(* loses one, or the job gets a new revision without an artifact.           *)
StoreMove ==
  \/ job' = job /\ Authorised \subseteq Authorised'
  \/ job' = Queued(job)
AccountTypes ==
  /\ status \in [Credentials -> {"ABSENT", "ACTIVE"} \cup Withdrawn]
  /\ granted \subseteq Credentials
  /\ tenant \in {"ACTIVE", "DISABLED"} /\ legacy \in BOOLEAN

LEMMA ReconcileMoves ==
  ASSUME StoreTypes, Reconcile, UNCHANGED <<status, granted>>
  PROVE  StoreMove /\ AccountTypes'
<1>1. CASE legacy
  BY <1>1 DEF Reconcile, StoreMove, AccountTypes, StoreTypes, Authorised
<1>2. CASE ~legacy
  <2>1. DisableTenantAndQueue
    BY <1>2 DEF Reconcile
  <2>2. AccountTypes'
    BY <2>1 DEF DisableTenantAndQueue, AccountTypes, StoreTypes
  <2>3. job' = Queued(job) \/ (job' = job /\ (tenant = "DISABLED" \/ granted = {}))
    BY <2>1 DEF DisableTenantAndQueue, QueueJob, StoreTypes
  <2>4. Authorised' = {}
    BY <2>1 DEF DisableTenantAndQueue, Authorised
  <2>5. tenant = "DISABLED" \/ granted = {} => Authorised = {}
    BY DEF Authorised
  <2>. QED  BY <2>2, <2>3, <2>4, <2>5 DEF StoreMove
<1>. QED  BY <1>1, <1>2 DEF StoreTypes

LEMMA DisableMoves ==
  ASSUME StoreTypes, DisableTenantAndQueue, UNCHANGED <<status, granted>>
  PROVE  StoreMove /\ AccountTypes'
<1>1. AccountTypes'
  BY DEF DisableTenantAndQueue, AccountTypes, StoreTypes
<1>2. job' = Queued(job) \/ (job' = job /\ (tenant = "DISABLED" \/ granted = {}))
  BY DEF DisableTenantAndQueue, QueueJob, StoreTypes
<1>3. Authorised' = {}
  BY DEF DisableTenantAndQueue, Authorised
<1>4. tenant = "DISABLED" \/ granted = {} => Authorised = {}
  BY DEF Authorised
<1>. QED  BY <1>1, <1>2, <1>3, <1>4 DEF StoreMove

LEMMA HandlerMoves ==
  ASSUME StoreTypes, Handlers
  PROVE  StoreMove /\ AccountTypes' /\ UNCHANGED <<snapVars, op, seen, bootRefresh, targetVars>>
<1>1. ASSUME NEW c \in Credentials, Bootstrap(c)
      PROVE  StoreMove /\ AccountTypes' /\ UNCHANGED <<snapVars, op, seen, bootRefresh, targetVars>>
  <2>1. /\ status' = [status EXCEPT ![c] = "ACTIVE"] /\ granted' = granted \cup {c}
        /\ UNCHANGED <<tenant, legacy, snapVars, op, seen, bootRefresh, targetVars>>
        /\ job' = job \/ job' = Queued(job)
    BY <1>1 DEF Bootstrap, QueueJob
  <2>2. AccountTypes'
    BY <2>1 DEF AccountTypes, StoreTypes
  <2>3. Authorised \subseteq Authorised'
    BY <2>1 DEF Authorised, StoreTypes
  <2>. QED  BY <2>1, <2>2, <2>3 DEF StoreMove
<1>2. ASSUME NEW c \in Credentials, Grant(c)
      PROVE  StoreMove /\ AccountTypes' /\ UNCHANGED <<snapVars, op, seen, bootRefresh, targetVars>>
  <2>1. Authorised \subseteq Authorised'
    BY <1>2 DEF Grant, Authorised
  <2>. QED  BY <1>2, <2>1 DEF Grant, StoreMove, AccountTypes, StoreTypes
<1>3. ASSUME NEW c \in Credentials, RemoveFromDoor(c)
      PROVE  StoreMove /\ AccountTypes' /\ UNCHANGED <<snapVars, op, seen, bootRefresh, targetVars>>
  BY <1>3 DEF RemoveFromDoor, QueueJob, StoreMove, AccountTypes, StoreTypes
<1>4. ASSUME NEW c \in Credentials, NEW s \in Withdrawn, SetStatus(c, s)
      PROVE  StoreMove /\ AccountTypes' /\ UNCHANGED <<snapVars, op, seen, bootRefresh, targetVars>>
  <2>1. /\ status' = [status EXCEPT ![c] = s]
        /\ UNCHANGED <<granted, tenant, legacy, snapVars, op, seen, bootRefresh, targetVars>>
    BY <1>4 DEF SetStatus
  <2>2. job' = Queued(job) \/ (job' = job /\ (c \notin granted \/ status[c] = s))
    BY <1>4 DEF SetStatus, StatusJob, QueueJob
  <2>3. c \notin granted \/ status[c] = s => Authorised \subseteq Authorised'
    BY <2>1 DEF Authorised, StoreTypes
  <2>4. AccountTypes'
    BY <2>1 DEF AccountTypes, StoreTypes
  <2>. QED  BY <2>1, <2>2, <2>3, <2>4 DEF StoreMove
<1>5. ASSUME DisableTenant
      PROVE  StoreMove /\ AccountTypes' /\ UNCHANGED <<snapVars, op, seen, bootRefresh, targetVars>>
  BY <1>5, DisableMoves DEF DisableTenant
<1>6. ASSUME LegacyDisable
      PROVE  StoreMove /\ AccountTypes' /\ UNCHANGED <<snapVars, op, seen, bootRefresh, targetVars>>
  BY <1>6 DEF LegacyDisable, StoreMove, AccountTypes, StoreTypes, Authorised
<1>7. ASSUME Pull
      PROVE  StoreMove /\ AccountTypes' /\ UNCHANGED <<snapVars, op, seen, bootRefresh, targetVars>>
  BY <1>7, ReconcileMoves DEF Pull
<1>. QED  BY <1>1, <1>2, <1>3, <1>4, <1>5, <1>6, <1>7 DEF Handlers

-----------------------------------------------------------------------------
(* A transaction leaves the three kinds of fresh snapshots fresh.           *)
LEMMA FreshKept ==
  ASSUME IInv, StoreMove, snapshots' = snapshots
  PROVE  /\ job' = job => \A n : FreshFrom(n) => FreshFrom(n)'
         /\ ArtifactFresh'
         /\ target'.mark = target.mark => TargetFresh'
<1>1. job' = job => \A n : FreshFrom(n) => FreshFrom(n)'
  <2>1. job # Queued(job)
    BY DEF IInv, Types, StoreTypes, Jobs, Queued
  <2>. QED  BY <2>1 DEF StoreMove, FreshFrom, Fresh
<1>2. ArtifactFresh'
  BY <1>1 DEF StoreMove, IInv, ArtifactFresh, Queued
<1>3. ASSUME target'.mark = target.mark  PROVE TargetFresh'
  <2>1. CASE job' = Queued(job)
    BY <2>1 DEF IInv, Types, StoreTypes, Jobs, Queued, NoJob, TargetFresh
  <2>2. CASE job' = job
    BY <2>2, <1>1, <1>3 DEF IInv, TargetFresh
  <2>. QED  BY <2>1, <2>2 DEF StoreMove
<1>. QED  BY <1>1, <1>2, <1>3

(* Types and soundness of the job that a transaction leaves.                *)
LEMMA JobKept ==
  ASSUME IInv, StoreMove
  PROVE  /\ job' \in Jobs /\ job'.revision >= job.revision
         /\ job'.generated \in {0, job.generated}
         /\ last' = last => JobSound'
         /\ job' # job => job'.revision > job.revision
BY DEF IInv, Types, StoreTypes, Jobs, Sound, JobSound, StoreMove, Queued, NoJob

LEMMA StoreStep ==
  ASSUME IInv, StoreMove, AccountTypes', UNCHANGED <<snapVars, op, seen, targetVars>>,
         bootRefresh' \in BOOLEAN
  PROVE  IInv'
<1>. USE DEF snapVars, targetVars
<1>1. Types'
  BY JobKept DEF IInv, Types, StoreTypes, OpTypes, TargetTypes, AccountTypes
<1>2. Unwritten' /\ AcksHonest' /\ JobSound'
  BY JobKept DEF IInv, Sound, Unwritten, AcksHonest
<1>3. OpSound'
  <2>1. OpSound /\ job \in Jobs /\ job' \in Jobs /\ job'.revision >= job.revision
        /\ job'.generated \in {0, job.generated} /\ op.revision \in Nat
    BY JobKept DEF IInv, Sound, Types, StoreTypes, OpTypes, Ops
  <2>. QED  BY <2>1 DEF OpSound, Publishing, Jobs
<1>4. SentFresh'
  <2>1. CASE job' = job
    BY <2>1, FreshKept DEF IInv, SentFresh
  <2>2. CASE job' # job
    <3>1. job'.revision > job.revision /\ job.revision \in Nat /\ job'.revision \in Nat
      BY <2>2, JobKept DEF IInv, Types, StoreTypes, Jobs
    <3>2. op.pc \in {"send", "await"} /\ op.why # "direct" => op.revision \in 1..job.revision
      BY DEF IInv, Sound, OpSound, Publishing
    <3>. QED  BY <3>1, <3>2 DEF SentFresh
  <2>. QED  BY <2>1, <2>2
<1>. QED  BY <1>1, <1>2, <1>3, <1>4, FreshKept DEF IInv, Sound

-----------------------------------------------------------------------------
(* The steps of a publication.  Where the store does not change, fresh      *)
(* snapshots stay so.                                                       *)
LEMMA StoreSame ==
  ASSUME IInv, UNCHANGED <<storeVars, snapVars>>
  PROVE  /\ StoreTypes' /\ Unwritten' /\ JobSound' /\ ArtifactFresh'
         /\ \A n : FreshFrom(n) => FreshFrom(n)'
         /\ target'.mark = target.mark => TargetFresh'
<1>1. StoreMove
  BY DEF StoreMove, storeVars, Authorised
<1>2. StoreTypes' /\ Unwritten' /\ JobSound'
  BY DEF IInv, Types, StoreTypes, Sound, Unwritten, JobSound, storeVars, snapVars
<1>. QED  BY <1>1, <1>2, FreshKept DEF storeVars, snapVars

(* A publication begins, or is given up, before there is anything of it.    *)
LEMMA QuietStep ==
  ASSUME IInv, UNCHANGED <<storeVars, snapVars, targetVars>>,
         OpTypes', OpSound', op'.pc # "await" \/ UNCHANGED <<op, seen>>,
         op'.pc # "send" \/ UNCHANGED op
  PROVE  IInv'
<1>1. Types'
  BY StoreSame DEF IInv, Types, TargetTypes, snapVars, targetVars
<1>2. AcksHonest'
  BY DEF IInv, Sound, AcksHonest, targetVars
<1>3. SentFresh'
  BY StoreSame DEF IInv, SentFresh, storeVars
<1>4. TargetFresh'
  BY StoreSame DEF targetVars
<1>. QED  BY <1>1, <1>2, <1>3, <1>4, StoreSame DEF IInv, Sound

LEMMA FreshOps ==
  \A p \in Phases, w \in {"replace", "boot", "direct"} :
    [Idle EXCEPT !.pc = p] \in Ops /\ [Idle EXCEPT !.pc = p, !.why = w] \in Ops
<1>1. 0 \in 0..MaxVersion
  BY AclAssumption
<1>. QED  BY <1>1 DEF Idle, Ops

LEMMA BeginStep ==
  ASSUME IInv, BeginReplace \/ BeginDirect
  PROVE  IInv'
<1>1. CASE BeginReplace
  <2>1. op' = [Idle EXCEPT !.pc = "read"] /\ job' = job /\ job # NoJob
    BY <1>1 DEF BeginReplace, storeVars
  <2>2. OpTypes'
    <3>1. op' \in Ops
      BY <2>1, FreshOps DEF Phases
    <3>. QED  BY <1>1, <3>1 DEF BeginReplace, OpTypes, IInv, Types
  <2>3. job.revision >= 1
    BY <2>1 DEF IInv, Sound, JobSound, Types, StoreTypes, Jobs
  <2>4. OpSound'
    BY <2>1, <2>3 DEF Idle, OpSound, Publishing
  <2>. QED  BY <1>1, <2>1, <2>2, <2>4, QuietStep DEF BeginReplace, Idle
<1>2. CASE BeginDirect
  <2>1. op' = [Idle EXCEPT !.pc = "allocate", !.why = "direct"]
    BY <1>2 DEF BeginDirect
  <2>2. OpTypes'
    <3>1. op' \in Ops
      BY <2>1, FreshOps DEF Phases
    <3>. QED  BY <1>2, <3>1 DEF BeginDirect, OpUnchanged, OpTypes, IInv, Types
  <2>3. OpSound'
    BY <2>1 DEF Idle, OpSound, Publishing
  <2>. QED  BY <1>2, <2>1, <2>2, <2>3, QuietStep DEF BeginDirect, OpUnchanged, Idle
<1>. QED  BY <1>1, <1>2

LEMMA CrashStep ==
  ASSUME IInv, Crash
  PROVE  IInv'
<1>1. Idle \in Ops
  BY AclAssumption DEF Idle, Ops, Phases
<1>2. OpTypes'
  BY <1>1 DEF Crash, OpTypes
<1>3. OpSound'
  BY DEF Crash, Idle, OpSound, Publishing
<1>. QED  BY <1>2, <1>3, QuietStep DEF Crash, Idle

LEMMA ReadStep ==
  ASSUME IInv, ReadJob
  PROVE  IInv'
<1>0. job.generated \in 0..MaxVersion /\ job.revision \in Nat /\ expired \in Nat
  BY AclAssumption DEF IInv, Types, StoreTypes, Jobs, Sound, JobSound
<1>1. /\ op.pc = "read" /\ UNCHANGED <<storeVars, snapVars, seen, bootRefresh, targetVars>>
      /\ op'.why = op.why /\ op'.revision = job.revision /\ op'.version = job.generated
      /\ op'.resend = (job.generated > expired)
      /\ op'.pc = IF job.generated = 0 THEN "allocate"
                  ELSE IF job.generated > expired THEN "send" ELSE "expire"
      /\ op' \in Ops
  <2>1. op \in Ops
    BY DEF IInv, Types, OpTypes
  <2>2. (IF job.generated = 0 THEN "allocate"
         ELSE IF job.generated > expired THEN "send" ELSE "expire") \in Phases
    BY DEF Phases
  <2>3. (job.generated > expired) \in BOOLEAN
    OBVIOUS
  <2>. QED  BY <1>0, <2>1, <2>2, <2>3 DEF ReadJob, OpUnchanged, Ops
<1>2. OpTypes'
  BY <1>1 DEF OpTypes, IInv, Types
<1>3. op.why # "direct" /\ job.revision \in Nat /\ job.revision >= 1
  BY <1>1 DEF IInv, Sound, OpSound, Types, StoreTypes, Jobs
<1>4. job.generated \in 0..last /\ last \in Nat /\ expired \in Nat
  BY DEF IInv, Sound, JobSound, Types, StoreTypes, Jobs
<1>5. op.why = "boot" => job.generated = 0
  BY <1>1 DEF IInv, Sound, OpSound
<1>6. OpSound'
  <2>0. /\ job' = job /\ last' = last /\ op'.why = op.why /\ op'.revision = job.revision
        /\ op'.version = job.generated /\ op'.pc \in {"allocate", "send", "expire"}
        /\ op'.pc # "allocate" => job.generated # 0
        /\ op'.pc = "send" => op'.resend
        /\ op'.pc # "send" => ~op'.resend
        /\ op.why # "direct"
        /\ op.why = "boot" => op'.pc = "allocate"
    <3>1. job' = job /\ last' = last
      BY <1>1 DEF storeVars, snapVars
    <3>2. CASE job.generated = 0
      <4>1. (job.generated > expired) = FALSE
        BY <1>4, <3>2
      <4>2. op'.resend = FALSE /\ op'.pc = "allocate"
        BY <1>1, <3>2, <4>1
      <4>. QED  BY <1>1, <1>3, <3>1, <3>2, <4>2
    <3>3. CASE job.generated > expired
      <4>1. (job.generated > expired) = TRUE /\ job.generated # 0
        BY <1>4, <3>3
      <4>2. op'.resend = TRUE /\ op'.pc = "send"
        BY <1>1, <4>1
      <4>. QED  BY <1>1, <1>3, <1>5, <3>1, <4>1, <4>2
    <3>4. CASE job.generated # 0 /\ ~(job.generated > expired)
      <4>1. (job.generated > expired) = FALSE
        BY <3>4
      <4>2. op'.resend = FALSE /\ op'.pc = "expire"
        BY <1>1, <3>4, <4>1
      <4>. QED  BY <1>1, <1>3, <1>5, <3>1, <3>4, <4>2
    <3>. QED  BY <3>2, <3>3, <3>4
  <2>. QED  BY <1>3, <1>4, <2>0 DEF OpSound, Publishing
<1>7. Types'
  BY <1>1, <1>2, StoreSame DEF IInv, Types, TargetTypes, snapVars, targetVars
<1>8. AcksHonest'
  BY <1>1 DEF IInv, Sound, AcksHonest, targetVars
<1>9. SentFresh'
  <2>1. op'.pc = "send" => job.generated # 0
    BY <1>1
  <2>. QED  BY <1>1, <2>1, StoreSame DEF IInv, ArtifactFresh, SentFresh, storeVars
<1>. QED  BY <1>1, <1>6, <1>7, <1>8, <1>9, StoreSame DEF IInv, Sound, targetVars

LEMMA ExpireArtifactStep ==
  ASSUME IInv, ExpireArtifact
  PROVE  IInv'
<1>1. CASE op' = Idle /\ job' = job
  <2>0. Idle \in Ops
    BY AclAssumption DEF Idle, Ops, Phases
  <2>1. OpTypes' /\ OpSound'
    BY <1>1, <2>0 DEF ExpireArtifact, Idle, OpTypes, OpSound, Publishing, IInv, Types
  <2>2. UNCHANGED <<storeVars, snapVars, targetVars>> /\ op'.pc = "idle"
    BY <1>1 DEF ExpireArtifact, storeVars, Idle
  <2>. QED  BY <2>1, <2>2, QuietStep
<1>2. CASE job' = Queued(job) /\ op' = [op EXCEPT !.pc = "allocate", !.revision = @ + 1]
           /\ job = [revision |-> op.revision, generated |-> op.version]
  <2>1. UNCHANGED <<status, granted, tenant, legacy, snapVars, seen, bootRefresh, targetVars>> /\ op.pc = "expire"
    BY DEF ExpireArtifact
  <2>2. StoreMove
    BY <1>2 DEF StoreMove
  <2>3. Types'
    <3>1. op \in Ops /\ op.revision + 1 \in Nat /\ "allocate" \in Phases
      BY DEF IInv, Types, OpTypes, Ops, Phases
    <3>3. OpTypes'
      BY <1>2, <2>1, <3>1 DEF IInv, Types, OpTypes, Ops
    <3>2. StoreTypes' /\ TargetTypes'
      BY <2>1, <2>2, JobKept DEF IInv, Types, StoreTypes, TargetTypes, snapVars, targetVars
    <3>. QED  BY <3>2, <3>3 DEF Types
  <2>4. OpSound'
    <3>1. job'.revision = op.revision + 1 /\ job'.generated = 0 /\ op.revision \in Nat
      BY <1>2 DEF Queued, IInv, Types, OpTypes, Ops
    <3>2. op'.pc = "allocate" /\ op'.why = op.why /\ op'.resend = op.resend /\ op'.revision = op.revision + 1
      BY <1>2 DEF IInv, Types, OpTypes, Ops
    <3>3. ~op.resend
      BY <2>1 DEF IInv, Sound, OpSound
    <3>. QED  BY <3>1, <3>2, <3>3 DEF OpSound, Publishing
  <2>5. AcksHonest' /\ Unwritten' /\ JobSound' /\ SentFresh'
    BY <1>2, <2>1, <2>2, JobKept DEF IInv, Sound, AcksHonest, Unwritten, SentFresh, Types, OpTypes, snapVars, targetVars
  <2>. QED  BY <2>1, <2>2, <2>3, <2>4, <2>5, FreshKept DEF IInv, Sound, snapVars, targetVars
<1>. QED  BY <1>1, <1>2 DEF ExpireArtifact, QueueJob

LEMMA AllocateStep ==
  ASSUME IInv, Allocate
  PROVE  IInv'
<1>1. /\ op.pc = "allocate" /\ last < MaxVersion /\ last' = last + 1 /\ last \in 0..MaxVersion
      /\ UNCHANGED <<status, granted, snapshots, expired, seen, bootRefresh, targetVars>>
      /\ MaxVersion \in Nat
  BY AclAssumption DEF Allocate, IInv, Types, StoreTypes
<1>2. StoreMove /\ AccountTypes'
  BY <1>1, ReconcileMoves DEF Allocate, IInv, Types
<1>0. last + 1 \in 0..MaxVersion
  BY <1>1
<1>3. /\ op'.pc = "collect" /\ op'.version = last + 1 /\ op'.why = op.why
      /\ op'.revision = op.revision /\ op'.resend = op.resend
      /\ op' \in Ops
  BY <1>0 DEF Allocate, IInv, Types, OpTypes, Ops, Phases
<1>4. Types'
  BY <1>1, <1>2, <1>3, JobKept DEF IInv, Types, StoreTypes, OpTypes, TargetTypes, AccountTypes, targetVars
<1>5. JobSound'
  BY <1>1, JobKept, <1>2 DEF IInv, Sound, JobSound, Types, StoreTypes, Jobs, StoreMove, Queued, NoJob
<1>6. OpSound'
  <2>1. ~op.resend /\ op.revision \in Nat
    BY <1>1 DEF IInv, Sound, OpSound, Types, OpTypes, Ops
  <2>2. op.why # "direct" => job.revision >= 1 /\ op.revision \in 1..job.revision
    BY <1>1 DEF IInv, Sound, OpSound, Publishing
  <2>3. job'.revision \in Nat /\ job.revision \in Nat /\ job'.revision >= job.revision
    BY <1>2, JobKept DEF Jobs, IInv, Types, StoreTypes
  <2>4. target'.mark < last' /\ last' \notin net'
    BY <1>1 DEF IInv, Types, TargetTypes, targetVars
  <2>. QED  BY <1>1, <1>3, <2>1, <2>2, <2>3, <2>4 DEF OpSound, Publishing
<1>7. AcksHonest' /\ Unwritten' /\ SentFresh'
  BY <1>1, <1>3 DEF IInv, Sound, AcksHonest, Unwritten, SentFresh, Versions, targetVars
<1>. QED  BY <1>1, <1>2, <1>4, <1>5, <1>6, <1>7, FreshKept DEF IInv, Sound, targetVars

LEMMA CollectStep ==
  ASSUME IInv, Collect
  PROVE  IInv'
<1>0. op.pc = "collect" /\ ~op.resend
  BY DEF Collect, IInv, Sound, OpSound
<1>1. /\ op.pc = "collect" /\ UNCHANGED <<storeVars, last, expired, seen, bootRefresh, targetVars>>
      /\ op.version = last /\ last \in Versions /\ Authorised' = Authorised
      /\ snapshots' = [snapshots EXCEPT ![last] = [written |-> TRUE, entries |-> Authorised]]
  <2>1. op.version = last /\ last >= 1
    BY <1>0 DEF IInv, Sound, OpSound
  <2>2. last \in Versions
    BY <2>1, AclAssumption DEF IInv, Types, StoreTypes, Versions
  <2>3. Authorised' = Authorised
    BY DEF Collect, storeVars, Authorised
  <2>. QED  BY <2>1, <2>2, <2>3 DEF Collect
<1>2. /\ op'.pc = "send" /\ op'.version = op.version /\ op'.why = op.why
      /\ op'.revision = op.revision /\ op'.resend = op.resend
      /\ op' \in Ops
  BY DEF Collect, Step, IInv, Types, OpTypes, Ops, Phases
<1>3. Authorised \subseteq Credentials
  BY DEF Authorised, IInv, Types, StoreTypes
<1>4. Types'
  BY <1>1, <1>2, <1>3 DEF IInv, Types, StoreTypes, OpTypes, TargetTypes, storeVars, targetVars
<1>5. Unwritten' /\ JobSound' /\ AcksHonest'
  BY <1>1, <1>2 DEF IInv, Sound, Unwritten, JobSound, AcksHonest, Types, StoreTypes, Versions, storeVars, targetVars
<1>6. OpSound'
  BY <1>1, <1>2 DEF IInv, Sound, OpSound, Publishing, storeVars, targetVars, Types, StoreTypes
<1>7. \A v \in Versions : Fresh(v) => Fresh(v)'
  BY <1>1, <1>3 DEF Fresh, IInv, Types, StoreTypes
<1>8. FreshFrom(last)'
  <2>1. ASSUME NEW v \in Versions, v >= last  PROVE Fresh(v)'
    <3>1. CASE v = last
      BY <1>1, <1>3, <3>1 DEF Fresh, IInv, Types, StoreTypes
    <3>2. CASE v > last
      BY <1>7, <3>2 DEF Fresh, IInv, Sound, Unwritten
    <3>. QED  BY <2>1, <3>1, <3>2 DEF Versions, IInv, Types, StoreTypes
  <2>. QED  BY <1>1, <2>1 DEF FreshFrom
<1>9. ArtifactFresh' /\ TargetFresh'
  BY <1>1, <1>7 DEF IInv, ArtifactFresh, TargetFresh, FreshFrom, storeVars, targetVars
<1>10. SentFresh'
  BY <1>1, <1>2, <1>8 DEF SentFresh
<1>. QED  BY <1>4, <1>5, <1>6, <1>9, <1>10 DEF IInv, Sound

-----------------------------------------------------------------------------
(* A delivery ends: the job is marked, deleted or left as it is.            *)
LEMMA MarkedMoves ==
  ASSUME IInv, op.pc \in {"send", "await"}, job' = Marked(job), op' = Idle,
         UNCHANGED <<status, granted, tenant, legacy, snapVars>>
  PROVE  /\ job' \in Jobs /\ job'.revision = job.revision /\ JobSound'
         /\ ArtifactFresh' /\ (target'.mark = target.mark => TargetFresh')
<1>1. op.version \in 1..last /\ job \in Jobs /\ last \in Nat
  BY DEF IInv, Sound, OpSound, Types, StoreTypes
<1>2. Authorised' = Authorised
  BY DEF Authorised
<1>3. \A n : FreshFrom(n) => FreshFrom(n)'
  BY <1>2 DEF FreshFrom, Fresh, snapVars
<1>4. CASE job' = job
  BY <1>1, <1>3, <1>4 DEF IInv, Sound, JobSound, ArtifactFresh, TargetFresh, snapVars
<1>5. CASE /\ job' = [job EXCEPT !.generated = op.version] /\ job # NoJob
           /\ op.why # "direct" /\ job.revision = op.revision
  <2>1. job'.generated = op.version /\ job'.revision = job.revision /\ job' \in Jobs
    BY <1>1, <1>5 DEF Jobs
  <2>2. job.revision # 0
    BY <1>5 DEF IInv, Sound, JobSound
  <2>3. JobSound' /\ job' # NoJob
    BY <1>1, <2>1, <2>2 DEF JobSound, NoJob, snapVars
  <2>4. ArtifactFresh'
    BY <1>3, <1>5, <2>1 DEF IInv, SentFresh, ArtifactFresh
  <2>. QED  BY <2>1, <2>3, <2>4 DEF TargetFresh
<1>. QED  BY <1>4, <1>5 DEF Marked

LEMMA IdleKept ==
  ASSUME IInv, op' = Idle, seen' \in BOOLEAN, UNCHANGED bootRefresh
  PROVE  OpTypes' /\ OpSound' /\ SentFresh' /\ (UNCHANGED <<acks, target>> => AcksHonest')
<1>1. Idle \in Ops
  BY AclAssumption DEF Idle, Ops, Phases
<1>2. OpTypes'
  BY <1>1 DEF OpTypes, IInv, Types
<1>3. OpSound' /\ SentFresh'
  BY DEF Idle, OpSound, SentFresh, Publishing
<1>4. UNCHANGED <<acks, target>> => AcksHonest'
  BY DEF AcksHonest, Idle, IInv, Sound
<1>. QED  BY <1>2, <1>3, <1>4

LEMMA SendStep ==
  ASSUME IInv, Send
  PROVE  IInv'
<1>1. /\ op.pc = "send" /\ seen' = FALSE
      /\ UNCHANGED <<status, grants, tenant, legacy, snapVars, bootRefresh, acks, target>>
      /\ net' \in {net, net \cup {op.version}}
  BY DEF Send
<1>2. op.version \in 1..last
  BY <1>1 DEF IInv, Sound, OpSound
<1>3. TargetTypes' /\ Unwritten'
  BY <1>1, <1>2 DEF IInv, Types, TargetTypes, Sound, Unwritten, snapVars
<1>4. CASE op' = Step("await") /\ job' = job
  <2>1. /\ op'.pc = "await" /\ op'.why = op.why /\ op'.revision = op.revision
        /\ op'.version = op.version /\ op'.resend = op.resend /\ op' \in Ops
    BY <1>4 DEF Step, IInv, Types, OpTypes, Ops, Phases
  <2>2. OpTypes' /\ AcksHonest'
    BY <1>1, <2>1 DEF OpTypes, AcksHonest, IInv, Types, Sound
  <2>3. UNCHANGED <<storeVars, snapVars>>
    BY <1>1, <1>4 DEF storeVars
  <2>4. OpSound'
    BY <1>1, <1>4, <2>1 DEF IInv, Sound, OpSound, Publishing, snapVars
  <2>5. SentFresh'
    BY <1>1, <1>4, <2>1, <2>3, StoreSame DEF IInv, SentFresh
  <2>. QED  BY <1>1, <1>3, <2>2, <2>3, <2>4, <2>5, StoreSame DEF IInv, Types, Sound
<1>5. CASE op' = Idle /\ job' = Marked(job)
  <2>1. StoreTypes'
    BY <1>1, <1>5, MarkedMoves DEF IInv, Types, StoreTypes, snapVars
  <2>. QED  BY <1>1, <1>3, <1>5, <2>1, MarkedMoves, IdleKept DEF IInv, Types, Sound
<1>. QED  BY <1>4, <1>5 DEF Send

LEMMA TimedOutStep ==
  ASSUME IInv, TimedOut
  PROVE  IInv'
<1>1. /\ op.pc = "await" /\ op' = Idle /\ job' = Marked(job)
      /\ UNCHANGED <<status, granted, tenant, legacy, snapVars, seen, bootRefresh, targetVars>>
  BY DEF TimedOut
<1>2. StoreTypes' /\ TargetTypes' /\ Unwritten'
  BY <1>1, MarkedMoves DEF IInv, Types, StoreTypes, TargetTypes, Sound, Unwritten, snapVars, targetVars
<1>3. seen' \in BOOLEAN
  BY <1>1 DEF IInv, Types, OpTypes
<1>. QED  BY <1>1, <1>2, <1>3, MarkedMoves, IdleKept DEF IInv, Types, Sound, targetVars

(* The one step that forgets a job: what was sent for its revision is fresh, *)
(* and the Target has it or a later one.                                    *)
LEMMA AcknowledgedStep ==
  ASSUME IInv, Acknowledged
  PROVE  IInv'
<1>1. /\ op.pc = "await" /\ seen /\ op' = Idle /\ job' = Deleted(job)
      /\ UNCHANGED <<status, granted, tenant, legacy, snapVars, seen, bootRefresh, targetVars>>
  BY DEF Acknowledged
<1>2. Authorised' = Authorised
  BY <1>1 DEF Authorised
<1>3. \A n : FreshFrom(n) => FreshFrom(n)'
  BY <1>1, <1>2 DEF FreshFrom, Fresh, snapVars
<1>4. job' = job \/ (job' = NoJob /\ op.why # "direct" /\ job.revision = op.revision)
  BY <1>1 DEF Deleted
<1>5. StoreTypes' /\ TargetTypes' /\ Unwritten' /\ JobSound'
  <2>1. NoJob \in Jobs
    BY DEF NoJob, Jobs
  <2>2. JobSound'
    BY <1>1, <1>4 DEF IInv, Sound, JobSound, NoJob, Types, StoreTypes, snapVars
  <2>. QED  BY <1>1, <1>4, <2>1, <2>2 DEF IInv, Types, StoreTypes, TargetTypes, Sound, Unwritten, snapVars, targetVars
<1>6. ArtifactFresh'
  BY <1>3, <1>4 DEF IInv, ArtifactFresh, NoJob
<1>7. TargetFresh'
  <2>1. CASE job' = job
    BY <1>1, <1>3, <2>1 DEF IInv, TargetFresh, targetVars
  <2>2. CASE op.why # "direct" /\ job.revision = op.revision
    <3>1. FreshFrom(op.version)
      BY <1>1, <2>2 DEF IInv, SentFresh
    <3>2. op.version <= target.mark /\ op.version \in Nat /\ target.mark \in Nat
      BY <1>1 DEF IInv, Sound, AcksHonest, Types, OpTypes, Ops, TargetTypes, StoreTypes
    <3>3. FreshFrom(target.mark)
      BY <3>1, <3>2 DEF FreshFrom, Versions
    <3>. QED  BY <1>1, <1>3, <3>3 DEF TargetFresh, targetVars
  <2>. QED  BY <1>4, <2>1, <2>2
<1>8. seen' \in BOOLEAN
  BY <1>1 DEF IInv, Types, OpTypes
<1>. QED  BY <1>1, <1>5, <1>6, <1>7, <1>8, IdleKept DEF IInv, Types, Sound, targetVars

-----------------------------------------------------------------------------
(* The refresh worker.                                                      *)
LEMMA RefreshStep ==
  ASSUME IInv, RefreshBoot \/ RefreshLease
  PROVE  IInv'
<1>1. UNCHANGED <<status, granted, snapVars, seen, targetVars>> /\ bootRefresh' \in BOOLEAN
  BY DEF RefreshBoot, RefreshLease, IInv, Types, OpTypes
<1>2. CASE ~ActiveTenant
  <2>1. Reconcile /\ op' = op
    BY <1>2 DEF RefreshBoot, RefreshLease, Refresh
  <2>2. StoreMove /\ AccountTypes'
    BY <1>1, <2>1, ReconcileMoves DEF IInv, Types
  <2>. QED  BY <1>1, <2>1, <2>2, StoreStep
<1>3. CASE ActiveTenant
  <2>1. PICK why \in {"boot", "replace"} :
          /\ op' = [Idle EXCEPT !.pc = "read", !.why = why] /\ UNCHANGED <<tenant, legacy>>
          /\ job' = Queued(job) \/ (why = "replace" /\ job # NoJob /\ job' = job)
    BY <1>3 DEF RefreshBoot, RefreshLease, Refresh, SupersedeJob, QueueIfAbsent, QueueJob
  <2>2. StoreMove /\ AccountTypes'
    BY <1>1, <2>1 DEF StoreMove, Authorised, AccountTypes, IInv, Types, StoreTypes
  <2>3. op' \in Ops /\ op'.pc = "read" /\ op'.why = why /\ ~op'.resend
    BY <2>1, FreshOps DEF Phases, Idle
  <2>4. Types'
    BY <1>1, <2>2, <2>3, JobKept DEF IInv, Types, StoreTypes, OpTypes, TargetTypes, AccountTypes, snapVars, targetVars
  <2>5. job'.revision >= 1 /\ (why = "boot" => job'.generated = 0)
    BY <2>1 DEF Queued, IInv, Sound, JobSound, Types, StoreTypes, Jobs
  <2>6. OpSound' /\ AcksHonest' /\ SentFresh'
    BY <2>3, <2>5, <1>1 DEF OpSound, Publishing, AcksHonest, SentFresh, IInv, Sound, targetVars
  <2>7. Unwritten' /\ JobSound'
    BY <1>1, <2>2, JobKept DEF IInv, Sound, Unwritten, snapVars
  <2>. QED  BY <1>1, <2>2, <2>4, <2>6, <2>7, FreshKept DEF IInv, Sound, snapVars, targetVars
<1>. QED  BY <1>2, <1>3

(* The broker, the Target and the clock.                                    *)
LEMMA EnvironmentStep ==
  ASSUME IInv, Environment
  PROVE  IInv'
<1>1. ASSUME NEW v \in Versions, AckArrives(v)
      PROVE  IInv'
  <2>1. /\ v \in acks /\ acks' = acks \ {v} /\ seen' \in BOOLEAN
        /\ seen' => seen \/ (op.pc = "await" /\ op.version = v)
        /\ UNCHANGED <<storeVars, snapVars, op, bootRefresh, net, target>>
    BY <1>1 DEF AckArrives, IInv, Types, OpTypes
  <2>2. Types' /\ AcksHonest' /\ OpSound'
    BY <2>1, StoreSame DEF IInv, Types, OpTypes, TargetTypes, Sound, AcksHonest, OpSound, Publishing, storeVars, snapVars
  <2>3. SentFresh'
    BY <2>1, StoreSame DEF IInv, SentFresh, storeVars
  <2>. QED  BY <2>1, <2>2, <2>3, StoreSame DEF IInv, Sound
<1>2. ASSUME NEW v \in Versions, Receive(v)
      PROVE  IInv'
  <2>1. /\ v \in net /\ net' = net \ {v}
        /\ \/ /\ target' = [mark |-> v, active |-> v] /\ v > target.mark
              /\ acks' \in {acks, acks \cup {v}}
           \/ target' = target /\ target.mark = v /\ acks' \in {acks, acks \cup {v}}
           \/ target' = target /\ acks' = acks
        /\ UNCHANGED <<storeVars, snapVars, op, seen, bootRefresh>>
    BY <1>2 DEF Receive, Verdict, IInv, Types, TargetTypes, StoreTypes, Versions
  <2>2. v \in 1..last /\ last \in Nat /\ target.mark \in Nat /\ v \in Nat
    BY <2>1 DEF IInv, Types, TargetTypes, StoreTypes
  <2>3. target'.mark \in Nat /\ target'.mark >= target.mark /\ target'.mark \in {v, target.mark}
    BY <2>1, <2>2
  <2>4. TargetTypes'
    <3>1. last' = last /\ net' \subseteq 1..last /\ acks' \subseteq 1..last
      BY <2>1, <2>2 DEF IInv, Types, TargetTypes, snapVars
    <3>2. target' = target \/ (target' = [mark |-> v, active |-> v] /\ v \in 0..last)
      BY <2>1, <2>2
    <3>3. target' \in [mark : 0..last, active : 0..last] /\ target'.active \in {0, target'.mark}
      BY <3>2 DEF IInv, Types, TargetTypes
    <3>. QED  BY <3>1, <3>3 DEF TargetTypes
  <2>5. Types'
    BY <2>1, <2>4, StoreSame DEF IInv, Types, OpTypes
  <2>6. AcksHonest'
    <3>1. \A a \in acks : a \in Nat
      BY DEF IInv, Types, TargetTypes, StoreTypes
    <3>2. op.version \in Nat
      BY DEF IInv, Types, OpTypes, Ops
    <3>. QED  BY <2>1, <2>2, <2>3, <3>1, <3>2 DEF IInv, Sound, AcksHonest
  <2>7. OpSound'
    BY <2>1, <2>2, <2>3 DEF IInv, Sound, OpSound, Publishing, storeVars, snapVars
  <2>8. SentFresh'
    BY <2>1, StoreSame DEF IInv, SentFresh, storeVars
  <2>9. TargetFresh'
    <3>1. ASSUME job = NoJob  PROVE FreshFrom(target'.mark)
      BY <3>1, <2>2, <2>3 DEF IInv, TargetFresh, FreshFrom, Versions
    <3>2. \A n : FreshFrom(n) => FreshFrom(n)'
      BY <2>1, StoreSame
    <3>. QED  BY <2>1, <3>1, <3>2 DEF TargetFresh, storeVars
  <2>. QED  BY <2>1, <2>5, <2>6, <2>7, <2>8, <2>9, StoreSame DEF IInv, Sound
<1>3. ASSUME Reconnect
      PROVE  IInv'
  <2>1. seen' = FALSE /\ UNCHANGED <<storeVars, snapVars, op, bootRefresh, targetVars>>
    BY <1>3 DEF Reconnect
  <2>2. Types' /\ AcksHonest' /\ OpSound'
    BY <2>1, StoreSame DEF IInv, Types, OpTypes, TargetTypes, Sound, AcksHonest, OpSound, Publishing, storeVars, snapVars, targetVars
  <2>3. SentFresh'
    BY <2>1, StoreSame DEF IInv, SentFresh, storeVars
  <2>. QED  BY <2>1, <2>2, <2>3, StoreSame DEF IInv, Sound, targetVars
<1>4. ASSUME TargetReboots
      PROVE  IInv'
  <2>1. /\ target' = [target EXCEPT !.active = 0] /\ bootRefresh' \in BOOLEAN
        /\ UNCHANGED <<storeVars, snapVars, op, seen, net, acks>>
    BY <1>4 DEF TargetReboots, IInv, Types, OpTypes
  <2>2. target'.mark = target.mark /\ target'.active = 0
    BY <2>1 DEF IInv, Types, TargetTypes
  <2>3. Types' /\ AcksHonest' /\ OpSound'
    <3>1. TargetTypes'
      BY <2>1, <2>2 DEF IInv, Types, TargetTypes, StoreTypes, snapVars
    <3>2. OpTypes' /\ AcksHonest'
      BY <2>1, <2>2 DEF IInv, Types, OpTypes, Sound, AcksHonest
    <3>3. OpSound'
      BY <2>1, <2>2 DEF IInv, Sound, OpSound, Publishing, storeVars, snapVars
    <3>. QED  BY <2>1, <3>1, <3>2, <3>3, StoreSame DEF Types
  <2>4. SentFresh'
    BY <2>1, StoreSame DEF IInv, SentFresh, storeVars
  <2>. QED  BY <2>1, <2>2, <2>3, <2>4, StoreSame DEF IInv, Sound
<1>5. ASSUME Expire
      PROVE  IInv'
  <2>1. expired' = expired + 1 /\ UNCHANGED <<storeVars, last, snapshots, op, seen, bootRefresh, targetVars>>
    BY <1>5 DEF Expire
  <2>2. Authorised' = Authorised
    BY <2>1 DEF Authorised, storeVars
  <2>3. Types'
    BY <2>1 DEF IInv, Types, StoreTypes, OpTypes, TargetTypes, storeVars, targetVars
  <2>4. Sound'
    BY <2>1 DEF IInv, Sound, Unwritten, JobSound, AcksHonest, OpSound, Publishing, storeVars, targetVars
  <2>5. ArtifactFresh' /\ SentFresh' /\ TargetFresh'
    BY <2>1, <2>2 DEF IInv, ArtifactFresh, SentFresh, TargetFresh, FreshFrom, Fresh, storeVars, targetVars
  <2>. QED  BY <2>3, <2>4, <2>5 DEF IInv
<1>. QED  BY <1>1, <1>2, <1>3, <1>4, <1>5, CrashStep DEF Environment

-----------------------------------------------------------------------------
LEMMA InitInv == Init => IInv
<1>. SUFFICES ASSUME Init PROVE IInv
  OBVIOUS
<1>1. Idle \in Ops /\ NoJob \in Jobs
  BY AclAssumption DEF Idle, Ops, Phases, NoJob, Jobs
<1>2. Types
  <2>1. OpTypes
    BY <1>1 DEF Init, OpTypes
  <2>2. TargetTypes
    <3>1. [mark |-> 0, active |-> 0] \in [mark : 0..0, active : 0..0]
      OBVIOUS
    <3>. QED  BY <3>1 DEF Init, TargetTypes
  <2>3. NoSnapshot \in [written : BOOLEAN, entries : SUBSET Credentials]
    BY DEF NoSnapshot
  <2>4. status \in [Credentials -> {"ABSENT", "ACTIVE"} \cup Withdrawn]
    BY DEF Init
  <2>5. 0 \in 0..MaxVersion
    BY AclAssumption
  <2>6. StoreTypes
    BY <1>1, <2>3, <2>4, <2>5 DEF Init, StoreTypes
  <2>. QED  BY <2>1, <2>2, <2>6 DEF Types
<1>3. Sound
  BY DEF Init, Sound, Unwritten, JobSound, AcksHonest, OpSound, Publishing, Idle, NoJob, NoSnapshot
<1>4. \A v \in Versions : Fresh(v)
  BY DEF Init, Fresh, NoSnapshot
<1>. QED  BY <1>2, <1>3, <1>4 DEF IInv, ArtifactFresh, SentFresh, TargetFresh, FreshFrom

LEMMA Inductive == IInv /\ [Next]_vars => IInv'
<1>. SUFFICES ASSUME IInv, [Next]_vars PROVE IInv'
  OBVIOUS
<1>1. CASE Handlers
  <2>1. bootRefresh' \in BOOLEAN
    BY <1>1, HandlerMoves DEF IInv, Types, OpTypes
  <2>. QED  BY <1>1, <2>1, HandlerMoves, StoreStep DEF IInv, Types
<1>2. CASE Publication
  BY <1>2, ReadStep, ExpireArtifactStep, AllocateStep, CollectStep, SendStep, AcknowledgedStep, TimedOutStep
     DEF Publication
<1>3. CASE UNCHANGED vars
  <2>1. OpTypes' /\ OpSound'
    BY <1>3 DEF vars, storeVars, snapVars, targetVars, IInv, Types, OpTypes, Sound, OpSound, Publishing
  <2>. QED  BY <1>3, <2>1, QuietStep DEF vars
<1>. QED  BY <1>1, <1>2, <1>3, BeginStep, RefreshStep, EnvironmentStep DEF Next, Worker

(* The inductive invariant holds in every behaviour.                        *)
THEOREM DeliveryInvariance == Spec => []IInv
<1>. QED  BY InitInv, Inductive, PTL DEF Spec

(* A withdrawn authorisation is pursued: while the Target has, or may still *)
(* activate, a snapshot that is too wide, a durable job says so.            *)
THEOREM RevocationAlwaysPursued == Spec => []RevocationIsPursued
<1>1. IInv => RevocationIsPursued
  <2>. SUFFICES ASSUME IInv, job = NoJob,
                       NEW v \in {target.active} \cup {n \in net : n > target.mark}
                PROVE  Entries(v) \subseteq Authorised
    BY DEF RevocationIsPursued
  <2>1. FreshFrom(target.mark)
    BY DEF IInv, TargetFresh
  <2>2. v = 0 \/ (v \in Versions /\ v >= target.mark)
    BY AclAssumption DEF IInv, Types, TargetTypes, StoreTypes, Versions
  <2>. QED  BY <2>1, <2>2 DEF FreshFrom, Fresh, Entries
<1>. QED  BY <1>1, DeliveryInvariance, PTL

(* What a boot refresh sends is newer than all that the Target has applied. *)
THEOREM BootRefreshAlwaysNew == Spec => BootRefreshIsNew
<1>1. IInv => (op.why = "boot" /\ op.pc = "send" => op.version > target.mark)
  BY DEF IInv, Sound, OpSound, Types, TargetTypes, StoreTypes
<1>2. IInv /\ [Next]_vars => [op.why = "boot" /\ op.pc = "send" /\ op'.pc = "await"
                               => op.version > target.mark]_vars
  BY <1>1
<1>. QED  BY <1>2, DeliveryInvariance, PTL DEF Spec, BootRefreshIsNew
=============================================================================
