----------------------------- MODULE Operations -----------------------------
(***************************************************************************)
(* The components of the backend and of the operator's tools that share no *)
(* state, side by side: `part' says which of them a behaviour is one of,   *)
(* x1 to x16 are its variables and the rest stay off.                      *)
(***************************************************************************)
EXTENDS Naturals, Sequences, FiniteSets

CONSTANTS
  (* Publication *)
  Builds, Takes, Released,
  (* Enrollment *)
  Phones, Chosen, Enrolled, PhoneOf, Withdrawn, Challenges, NoPhone, NoKey, MaxRows,
  (* AdminControl, whose Requests are those sent under one idempotency key *)
  Handlers, Operators, Approvers, Proofs, Kind, Settings, KeyRequests,
  (* BrokerActivation *)
  Inputs, Versioned, MaxActivations,
  (* HaAdoption *)
  MaxAdoptions, StopMayTimeOut,
  (* Maintenance, whose Requests are the signed ones *)
  SignedRequests,
  (* HealthMonitor *)
  MaxCycles, PendingCapacity,
  (* MqttPublisher *)
  Publishers, Prober, MaxInflight, Threshold, MaxAttempts,
  (* EventStream *)
  Streams, Required, HandsFree,
  (* BackupRestore *)
  Tables, Contents, MaxBackups, Restorers,
  (* SessionView *)
  Sessions, NoOne, MaxBoot

VARIABLES part, x1, x2, x3, x4, x5, x6, x7, x8, x9, x10, x11, x12, x13, x14, x15, x16

vars == <<part, x1, x2, x3, x4, x5, x6, x7, x8, x9, x10, x11, x12, x13, x14, x15, x16>>

Off == "off"

-----------------------------------------------------------------------------
(* The parts.                                                               *)
P == INSTANCE Publication WITH
       lane <- x1, kept <- x2, pointer <- x3, served <- x4, job <- x5,
       upload <- x6
E == INSTANCE Enrollment WITH
       rows <- x1, nextId <- x2, status <- x3, tenant <- x4,
       challenge <- x5, submits <- x6, approving <- x7, leaving <- x8,
       past <- x9
A == INSTANCE AdminControl WITH
       lane <- x1, sessions <- x2, proposal <- x3, used <- x4,
       entitled <- x5, opens <- x6, arms <- x7, memory <- x8, file <- x9,
       told <- x10, job <- x11, deletions <- x12, consent <- x13,
       exports <- x14, audit <- x15, call <- x16, Requests <- KeyRequests
B == INSTANCE BrokerActivation WITH
       containers <- x1, incoming <- x2, stage <- x3, current <- x4,
       pending <- x5, job <- x6, drawn <- x7
H == INSTANCE HaAdoption WITH
       running <- x1, config <- x2, private <- x3, candidate <- x4,
       journal <- x5, pc <- x6, broker <- x7, adoptions <- x8
M == INSTANCE Maintenance WITH
       submit <- x1, worker <- x2, job <- x3, pid <- x4, latest <- x5,
       lock <- x6, config <- x7, effective <- x8, journal <- x9,
       daemon <- x10, containers <- x11, restarts <- x12,
       loose <- x13, Requests <- SignedRequests
W == INSTANCE HealthMonitor WITH
       file <- x1, mem <- x2, pc <- x3, cycle <- x4, drawn <- x5,
       since <- x6, written <- x7, raised <- x8, accepted <- x9
Q == INSTANCE MqttPublisher WITH
       state <- x1, failures <- x2, ripe <- x3, free <- x4, pc <- x5,
       gate <- x6, client <- x7, attempt <- x8, connecting <- x9,
       failed <- x10, cancelled <- x11, attempts <- x12
S == INSTANCE EventStream WITH
       stream <- x1, rest <- x2, unique <- x3, phase <- x4, left <- x5,
       out <- x6
R == INSTANCE BackupRestore WITH
       db <- x1, backup <- x2, begun <- x3, bundles <- x4, work <- x5,
       lab <- x6, restore <- x7, passed <- x8
V == INSTANCE SessionView WITH
       boot <- x1, seq <- x2, state <- x3, owner <- x4, sink <- x5,
       last <- x6, air <- x7, store <- x8, live <- x9, fate <- x10

ASSUME PartsAssumption ==
  /\ P!BuildsAssumption /\ E!EnrollmentAssumption /\ A!ControlAssumption /\ H!AdoptionAssumption
  /\ M!MaintenanceAssumption /\ Q!PublisherAssumption /\ S!StreamsAssumption /\ V!SessionAssumption

Init ==
    \/ /\ part = "publication" /\ P!Init
       /\ x7 = Off /\ x8 = Off /\ x9 = Off /\ x10 = Off /\ x11 = Off /\ x12 = Off
       /\ x13 = Off /\ x14 = Off /\ x15 = Off /\ x16 = Off
    \/ /\ part = "enrollment" /\ E!Init
       /\ x10 = Off /\ x11 = Off /\ x12 = Off /\ x13 = Off /\ x14 = Off
       /\ x15 = Off /\ x16 = Off
    \/ /\ part = "control" /\ A!Init
    \/ /\ part = "broker" /\ B!Init
       /\ x8 = Off /\ x9 = Off /\ x10 = Off /\ x11 = Off /\ x12 = Off /\ x13 = Off
       /\ x14 = Off /\ x15 = Off /\ x16 = Off
    \/ /\ part = "adoption" /\ H!Init
       /\ x9 = Off /\ x10 = Off /\ x11 = Off /\ x12 = Off /\ x13 = Off /\ x14 = Off
       /\ x15 = Off /\ x16 = Off
    \/ /\ part = "maintenance" /\ M!Init
       /\ x14 = Off /\ x15 = Off /\ x16 = Off
    \/ /\ part = "health" /\ W!Init
       /\ x10 = Off /\ x11 = Off /\ x12 = Off /\ x13 = Off /\ x14 = Off /\ x15 = Off
       /\ x16 = Off
    \/ /\ part = "mqtt" /\ Q!Init
       /\ x13 = Off /\ x14 = Off /\ x15 = Off /\ x16 = Off
    \/ /\ part = "events" /\ S!Init
       /\ x7 = Off /\ x8 = Off /\ x9 = Off /\ x10 = Off /\ x11 = Off /\ x12 = Off
       /\ x13 = Off /\ x14 = Off /\ x15 = Off /\ x16 = Off
    \/ /\ part = "backup" /\ R!Init
       /\ x9 = Off /\ x10 = Off /\ x11 = Off /\ x12 = Off /\ x13 = Off /\ x14 = Off
       /\ x15 = Off /\ x16 = Off
    \/ /\ part = "session" /\ V!Init
       /\ x11 = Off /\ x12 = Off /\ x13 = Off /\ x14 = Off /\ x15 = Off /\ x16 = Off

Next ==
    \/ part = "publication" /\ P!Next /\ UNCHANGED <<part, x7, x8, x9, x10, x11, x12, x13, x14, x15, x16>>
    \/ part = "enrollment" /\ E!Next /\ UNCHANGED <<part, x10, x11, x12, x13, x14, x15, x16>>
    \/ part = "control" /\ A!Next /\ UNCHANGED <<part>>
    \/ part = "broker" /\ B!Next /\ UNCHANGED <<part, x8, x9, x10, x11, x12, x13, x14, x15, x16>>
    \/ part = "adoption" /\ H!Next /\ UNCHANGED <<part, x9, x10, x11, x12, x13, x14, x15, x16>>
    \/ part = "maintenance" /\ M!Next /\ UNCHANGED <<part, x14, x15, x16>>
    \/ part = "health" /\ W!Next /\ UNCHANGED <<part, x10, x11, x12, x13, x14, x15, x16>>
    \/ part = "mqtt" /\ Q!Next /\ UNCHANGED <<part, x13, x14, x15, x16>>
    \/ part = "events" /\ S!Next /\ UNCHANGED <<part, x7, x8, x9, x10, x11, x12, x13, x14, x15, x16>>
    \/ part = "backup" /\ R!Next /\ UNCHANGED <<part, x9, x10, x11, x12, x13, x14, x15, x16>>
    \/ part = "session" /\ V!Next /\ UNCHANGED <<part, x11, x12, x13, x14, x15, x16>>

Spec == Init /\ [][Next]_vars

-----------------------------------------------------------------------------
(* The properties of each part, on behaviours of that part.                 *)

(* Whoever reads a publication finds a whole build, after refused, repeated *)
(* and stopped runs (Publication: ota_contract_gate.py, SFTP publishers).   *)
PublishedIsWhole == part = "publication" => P!PublishedIsWhole

(* Publication only ever moves to newer builds and keeps what it replaces.  *)
PublicationMovesForward == [][part = "publication" => P!OnlyForward]_vars

(* A live key that had an account has one through which it can be revoked,  *)
(* unless a late approval has revived it (Enrollment: registration,         *)
(* deletion and logout of main.py and acl_api.py).                          *)
KeyHasItsAccount == part = "enrollment" => E!KeyHasItsAccount

(* The tenant keeps an owner while it has an account, and a challenge       *)
(* admits one key (Enrollment).                                             *)
TenantIsKept == [][part = "enrollment" => E!TenantIsKept]_vars

(* An approval, a signed request or an idempotency key has its effect once  *)
(* (AdminControl: force-open, mobile open and retention of main.py).        *)
EffectsHappenOnce == part = "control" => A!EffectsHappenOnce

(* What was done was audited, and a force-open by two persons (AdminControl).*)
EffectIsAccountable == part = "control" => A!EffectIsAccountable

(* A stopped broker or collector is within reach of the rollback, wherever  *)
(* an activation ended (BrokerActivation: activate.py).                     *)
WayBack == part = "broker" => B!WayBack

(* A stopped Home Assistant has somebody who will start it, and its new     *)
(* password is never in an open directory (HaAdoption: ha_mqtt_adoption.py).*)
AdoptionIsSafe == part = "adoption" => H!AdoptionIsSafe

(* Maintenance scripts run alone, and none takes the containers down        *)
(* (Maintenance: gateway.py, recover_dockerd.py).                           *)
MaintenanceIsSafe == part = "maintenance" => M!MaintenanceIsSafe

(* The owner hears of every incident, in order (HealthMonitor: monitor.py). *)
OwnerIsTold == part = "health" => W!OwnerIsTold

(* One broker session, and a breaker that never stays half open             *)
(* (MqttPublisher: ops_runtime.py).                                         *)
PublisherIsSafe == part = "mqtt" => Q!PublisherIsSafe

(* The order of recorded events is causal and a verdict is earned           *)
(* (EventStream: event_parser.py).                                          *)
StreamIsJudged == part = "events" => S!StreamIsJudged

(* A restore that passes has lost nothing (BackupRestore).                  *)
PassLosesNothing == part = "backup" => R!PassLosesNothing

(* The phone is told the end its own session had (SessionView: main.py).    *)
AnswerIsTrue == part = "session" => V!AnswerIsTrue
=============================================================================
