----------------------------- MODULE GattSession -----------------------------
(***************************************************************************)
(* The local authentication session of the door controller: ProtocolCore   *)
(* and AdapterState (src/src/GattProtocol.cpp), GattServer                 *)
(* (src/src/GattServer.cpp) and the part of loop() in src/src/main.cpp     *)
(* that services them, up to the signed restart and OTA.                   *)
(*                                                                         *)
(* Two tasks share the session under core_mutex.  The BLE host task        *)
(* accepts and drops links, enqueues writes and reports failed             *)
(* indications; loopTask runs the protocol in GattServer::update, whose    *)
(* critical sections are the values of pc from "drain1" to "drain2", so    *)
(* the host task may act between any two of them.  A session that ends in  *)
(* the host task must not run the access state machine there: it leaves a  *)
(* coalesced abort request that loopTask drains.                           *)
(*                                                                         *)
(* Abstracted: cryptography (a proof is for the session it names, or       *)
(* "junk", which stands for every message the core rejects, the fragments  *)
(* that do not fit included), reassembly (a message arrives whole), the    *)
(* contents of outputs (output says that some are queued or in flight),    *)
(* the failure counter behind the rate limit (an input here) and the gate, *)
(* of which only who owns it is kept: VERIFIED is ARMED, RELAY_HOLD or     *)
(* COOLDOWN of AccessFsm.                                                  *)
(***************************************************************************)
EXTENDS Integers, Sequences

CONSTANTS
  Handles,       (* connection handles of the BLE controller               *)
  WriteCapacity, (* kPendingWriteCapacity                                  *)
  ChallengeLife, (* kChallengeLifetimeMs                                   *)
  AuthTimeout,   (* GATT_AUTH_PENDING_TIMEOUT_MS                           *)
  MaxLinks,      (* bound: links the controller accepts                    *)
  MaxSessions    (* bound: challenges it issues                            *)

ASSUME SessionAssumption ==
  /\ WriteCapacity \in Nat \ {0}
  /\ ChallengeLife \in Nat \ {0} /\ AuthTimeout \in Nat
  /\ ChallengeLife <= AuthTimeout
  /\ MaxLinks \in Nat /\ MaxSessions \in Nat
  /\ 0 \notin Handles

Nobody == 0

VARIABLES
  links,          (* links the host has announced and not yet taken down   *)
  owner,          (* AdapterState::active_owner_ (its handle), the core's connection *)
  gen,            (* ProtocolCore::connection_generation_                  *)
  writes,         (* pending_writes_, each tagged with its owner's generation *)
  overflow,       (* pending_overflow_                                     *)
  fastStart,      (* fast_start_requested_                                 *)
  output,         (* outputs queued in the core, staged or awaiting confirmation *)
  sess,           (* ProtocolCore::state_ between two critical sections    *)
  sid,            (* session_id_ (0: all zero)                             *)
  issued,         (* challenges issued so far                              *)
  chalAge,        (* elapsed since the challenge was issued                *)
  authActive,     (* auth_control_active_                                  *)
  abortPending,   (* ProductionLifecycleEventSink::abort_pending_          *)
  otaBusy,        (* advertising_ota_busy_                                 *)
  radioReserved,  (* radio_reserved_                                       *)
  gate,           (* TargetAccessFsm::state_, abstracted                   *)
  gateAge,        (* elapsed since AUTH_PENDING was entered                *)
  restartPending, (* signedRestartPending                                  *)
  pc,             (* where loopTask is                                     *)
  ret,            (* where GattServer::update returns to                   *)
  granted,        (* history: the sessions whose action was committed      *)
  undrained       (* history: the session began with an abort still to be drained *)

linkVars    == <<links, owner, gen>>
adapterVars == <<writes, overflow, fastStart, output>>
coreVars    == <<sess, sid, issued, chalAge, authActive>>
busyVars    == <<otaBusy, radioReserved>>
gateVars    == <<gate, gateAge>>
loopVars    == <<restartPending, pc, ret>>
history     == <<granted, undrained>>
vars == <<linkVars, adapterVars, coreVars, abortPending, busyVars, gateVars, loopVars, history>>

Init ==
  /\ links = {} /\ owner = Nobody /\ gen = 0
  /\ writes = <<>> /\ overflow = FALSE /\ fastStart = FALSE /\ output = FALSE
  /\ sess = "Idle" /\ sid = 0 /\ issued = 0 /\ chalAge = 0
  /\ authActive = FALSE /\ abortPending = FALSE
  /\ otaBusy = FALSE /\ radioReserved = FALSE
  /\ gate = "IDLE" /\ gateAge = 0
  /\ restartPending = FALSE /\ pc = "head" /\ ret = "after"
  /\ granted = {} /\ undrained = FALSE

CoreBusy == otaBusy \/ radioReserved   (* ProtocolCore::ota_busy_ *)
-----------------------------------------------------------------------------
(* The protocol core.  Each operator runs under core_mutex.                *)

EndSession == sess' = "Idle" /\ sid' = 0 /\ chalAge' = 0 /\ UNCHANGED issued

(* abortAuthControl() *)
AbortAuth ==
  /\ abortPending' = IF authActive THEN TRUE ELSE abortPending
  /\ authActive' = FALSE

(* disconnect() and abortTransport(): a committed action is left alone. *)
DropSession ==
  /\ EndSession
  /\ IF sess = "Completed" THEN UNCHANGED <<authActive, abortPending>> ELSE AbortAuth

(* reject(): the result is queued, the session is over. *)
Reject == output' = TRUE /\ AbortAuth /\ EndSession /\ UNCHANGED <<gateVars, history>>

ResultOnly == output' = TRUE /\ UNCHANGED <<coreVars, abortPending, gateVars, history>>

Nothing == UNCHANGED <<output, coreVars, abortPending, gateVars, history>>

(* A new session: beginAuth() asks the gate for AUTH_PENDING.  If another  *)
(* owner has it the peer gets BUSY and the attempt itself is aborted.      *)
BeginSession ==
  IF issued = MaxSessions
  THEN Nothing
  ELSE /\ output' = TRUE
       /\ IF gate = "IDLE"
          THEN /\ gate' = "AUTH_PENDING" /\ gateAge' = 0
               /\ sess' = "ChallengeIssued" /\ issued' = issued + 1 /\ sid' = issued + 1
               /\ chalAge' = 0 /\ authActive' = TRUE
               /\ undrained' = abortPending
               /\ UNCHANGED <<abortPending, granted>>
          ELSE /\ abortPending' = TRUE
               /\ UNCHANGED <<coreVars, gateVars, history>>

(* beginFastSession(): the peer subscribed to the fast characteristic. *)
BeginFastSession(limited) ==
  IF sess # "Idle" THEN Nothing
  ELSE IF CoreBusy \/ limited THEN ResultOnly
  ELSE BeginSession

(* A proof that verifies is committed at most while the gate waits for it. *)
Commit(admitted) ==
  IF authActive /\ admitted /\ gate = "AUTH_PENDING"
  THEN /\ gate' = "VERIFIED" /\ sess' = "Completed" /\ authActive' = FALSE
       /\ granted' = granted \union {sid} /\ output' = TRUE
       /\ UNCHANGED <<gateAge, sid, issued, chalAge, abortPending, undrained>>
  ELSE Reject

ProofInTime(w) == sess = "ChallengeIssued" /\ w.sid = sid /\ chalAge < ChallengeLife

(* Mutant of ReceiveFrame: a busy target goes on verifying. *)
ReceiveThoughBusy(w, limited, admitted) ==
  IF w.gen # gen \/ owner = Nobody THEN Nothing
  ELSE IF sess = "Completed" \/ limited THEN ResultOnly
  ELSE IF w.kind = "hello" /\ sess = "Idle" THEN BeginSession
  ELSE IF w.kind = "proof" /\ ProofInTime(w) THEN Commit(admitted)
  ELSE Reject

(* receiveFrame() with a whole message. *)
ReceiveFrame(w, limited, admitted) ==
  IF w.gen # gen \/ owner = Nobody THEN Nothing
  ELSE IF CoreBusy \/ sess = "Completed" \/ limited THEN ResultOnly
  ELSE IF w.kind = "hello" /\ sess = "Idle" THEN BeginSession
  ELSE IF w.kind = "proof" /\ ProofInTime(w) THEN Commit(admitted)
  ELSE Reject

-----------------------------------------------------------------------------
(* The BLE host task.                                                      *)

HostOnly == UNCHANGED <<busyVars, gateVars, loopVars, history>>

ClearWrites == writes' = <<>> /\ overflow' = FALSE

(* handleConnect(), core->connect() and acceptConnection() *)
Admits == owner = Nobody /\ ~radioReserved

HostConnect(h) ==
  /\ h \notin links /\ gen < MaxLinks
  /\ links' = links \union {h}
  /\ IF Admits
     THEN /\ owner' = h /\ gen' = gen + 1
          /\ EndSession /\ ClearWrites /\ output' = FALSE
          /\ UNCHANGED <<fastStart, authActive, abortPending>>
     ELSE UNCHANGED <<owner, gen, adapterVars, coreVars, abortPending>>
  /\ HostOnly

ForgetIngress == ClearWrites /\ fastStart' = FALSE /\ output' = FALSE

(* handleDisconnect(): by handle, so a late callback for a link that has   *)
(* lost its ownership changes nothing.                                     *)
HostDisconnect(h) ==
  /\ h \in links /\ links' = links \ {h}
  /\ IF owner = h
     THEN owner' = Nobody /\ DropSession /\ ForgetIngress
     ELSE UNCHANGED <<owner, adapterVars, coreVars, abortPending>>
  /\ UNCHANGED gen /\ HostOnly

HostSubscribeFast(h, on) ==
  /\ owner = h /\ fastStart' = on
  /\ UNCHANGED <<linkVars, writes, overflow, output, coreVars, abortPending>> /\ HostOnly

Messages ==
  {[gen |-> gen, kind |-> k, sid |-> 0] : k \in {"hello", "junk"}}
    \union {[gen |-> gen, kind |-> "proof", sid |-> s] : s \in 1..issued}

QueueFull == Len(writes) = WriteCapacity

(* handleWrite(): a full queue, or a write that is too long, is remembered *)
(* as an overflow of its owner.                                            *)
HostWrite(h, w, tooLong) ==
  /\ owner = h
  /\ IF tooLong \/ QueueFull
     THEN overflow' = TRUE /\ UNCHANGED writes
     ELSE writes' = Append(writes, w) /\ UNCHANGED overflow
  /\ UNCHANGED <<linkVars, fastStart, output, coreVars, abortPending>> /\ HostOnly

OutputConfirmed ==
  /\ output /\ output' = FALSE
  /\ UNCHANGED <<linkVars, writes, overflow, fastStart, coreVars, abortPending>> /\ HostOnly

(* An indication that fails, cannot be staged or is not confirmed in time  *)
(* (the last two in loopTask, with the same effect).                       *)
OutputFails ==
  /\ output /\ output' = FALSE
  /\ ClearWrites /\ DropSession
  /\ UNCHANGED <<linkVars, fastStart>> /\ HostOnly

Host ==
  \/ \E h \in Handles : HostConnect(h) \/ HostDisconnect(h)
  \/ \E h \in Handles, on \in BOOLEAN : HostSubscribeFast(h, on)
  \/ \E h \in Handles, w \in Messages, tooLong \in BOOLEAN : HostWrite(h, w, tooLong)
  \/ OutputConfirmed \/ OutputFails

-----------------------------------------------------------------------------
(* loopTask.  A value of pc names what it does next.                       *)

LoopOnly == UNCHANGED <<linkVars, restartPending>>

GoTo(p) == pc' = p /\ UNCHANGED ret

(* GattServer::update() begins; it returns to p. *)
CallUpdate(p) == pc' = "drain1" /\ ret' = p

(* Mutant of DrainAbort: the abort resets whatever the gate is doing. *)
DrainOntoAnyGate ==
  /\ abortPending' = FALSE
  /\ gate' = (IF abortPending THEN "IDLE" ELSE gate) /\ gateAge' = 0

(* drainControls(): the coalesced abort reaches handleAuthAbort(), which   *)
(* only ends an AUTH_PENDING.                                              *)
DrainAbort ==
  /\ abortPending' = FALSE
  /\ IF abortPending /\ gate = "AUTH_PENDING"
     THEN gate' = "IDLE" /\ gateAge' = 0
     ELSE UNCHANGED gateVars

Drain(from) ==
  /\ pc = from /\ DrainAbort
  /\ UNCHANGED <<adapterVars, coreVars, busyVars, history>> /\ LoopOnly

DrainFirst == Drain("drain1") /\ GoTo("fast")

(* The second drain, and the end of update(): what drainOutputs() stages   *)
(* stays an output, what it cannot stage is OutputFails.                   *)
DrainLast == Drain("drain2") /\ pc' = ret /\ ret' = "after"

StartFast(limited) ==
  /\ pc = "fast" /\ fastStart' = FALSE
  /\ IF fastStart THEN BeginFastSession(limited) ELSE Nothing
  /\ UNCHANGED <<writes, overflow, busyVars>> /\ LoopOnly /\ GoTo("over")

(* consumeOverflow(): the queue is dropped and the owner's session with it.*)
ConsumeOverflow(limited) ==
  /\ pc = "over"
  /\ IF overflow
     THEN /\ ClearWrites /\ GoTo("core")
          /\ IF CoreBusy \/ sess = "Completed" \/ limited THEN ResultOnly ELSE Reject
     ELSE UNCHANGED <<writes, overflow>> /\ Nothing /\ GoTo("pop")
  /\ UNCHANGED <<fastStart, busyVars>> /\ LoopOnly

PopWrite(limited, admitted) ==
  /\ pc = "pop" /\ writes # <<>>
  /\ writes' = Tail(writes)
  /\ ReceiveFrame(Head(writes), limited, admitted)
  /\ UNCHANGED <<overflow, fastStart, busyVars>> /\ LoopOnly /\ GoTo("pop")

PopsDone ==
  /\ pc = "pop" /\ writes = <<>>
  /\ Nothing
  /\ UNCHANGED <<writes, overflow, fastStart, busyVars>> /\ LoopOnly /\ GoTo("core")

(* ProtocolCore::tick(): the challenge expires; or a peer stalled in the   *)
(* middle of a message, which is rejected.                                 *)
CoreTick(stalled) ==
  /\ pc = "core"
  /\ IF \/ sess = "ChallengeIssued" /\ chalAge >= ChallengeLife
        \/ stalled /\ owner # Nobody /\ sess # "Completed"
     THEN Reject ELSE Nothing
  /\ UNCHANGED <<writes, overflow, fastStart, busyVars>> /\ LoopOnly /\ GoTo("drain2")

Update ==
  \/ DrainFirst \/ PopsDone \/ DrainLast
  \/ \E b \in BOOLEAN : StartFast(b) \/ ConsumeOverflow(b) \/ CoreTick(b)
  \/ \E limited, admitted \in BOOLEAN : PopWrite(limited, admitted)
-----------------------------------------------------------------------------
(* The rest of loop().                                                     *)

KeepsGate  == UNCHANGED <<gateVars, history>>
KeepsCore  == UNCHANGED <<adapterVars, coreVars, abortPending>>
KeepsBusy  == UNCHANGED busyVars

(* TargetAccessFsm::tick(): the authentication window ends, or an access   *)
(* that was granted has run its course.                                    *)
GateTick ==
  /\ gate' \in IF gate = "VERIFIED" THEN {"VERIFIED", "IDLE"}
              ELSE IF gate = "AUTH_PENDING" /\ gateAge >= AuthTimeout THEN {"IDLE"}
              ELSE {gate}
  /\ gateAge' = IF gate' = "AUTH_PENDING" THEN gateAge ELSE 0
  /\ UNCHANGED history

LoopHead ==
  /\ pc = "head" /\ GateTick
  /\ KeepsCore /\ KeepsBusy /\ LoopOnly /\ CallUpdate("after")

(* isAccessPathCritical() *)
Critical ==
  \/ gate # "IDLE" \/ sess # "Idle" \/ output
  \/ fastStart \/ writes # <<>> \/ overflow \/ owner # Nobody

(* Mutant of PhysicalActive: a connected peer counts as an access. *)
PhysicalOrConnected == gate = "VERIFIED" \/ owner # Nobody

(* isVerifiedPhysicalAccessActive() *)
PhysicalActive == gate = "VERIFIED"

(* setOtaBusy(true): a challenge that is out is answered BUSY at once. *)
BecomeBusy ==
  /\ otaBusy' = TRUE /\ UNCHANGED radioReserved
  /\ ClearWrites /\ UNCHANGED fastStart
  /\ IF sess = "ChallengeIssued"
     THEN output' = TRUE /\ AbortAuth /\ EndSession
     ELSE output' \in {FALSE, output} /\ UNCHANGED <<coreVars, abortPending>>

(* servicePendingSignedRestart() up to its first check *)
BeginRestart ==
  /\ BecomeBusy /\ KeepsGate
  /\ GoTo(IF PhysicalActive THEN "lease" ELSE "flush")

(* The snapshot of accessCritical decides whether the network may run. *)
StayOr(quiet) ==
  /\ KeepsCore /\ KeepsBusy /\ KeepsGate
  /\ GoTo(IF Critical THEN "lease" ELSE quiet)

AfterHead ==
  /\ pc = "after" /\ LoopOnly
  /\ IF restartPending THEN BeginRestart ELSE StayOr("net")

(* flushOtaBusy(): as long as the BUSY result is on its way, or 3 s. *)
FlushOrWait(p, next) ==
  /\ pc = p
  /\ IF otaBusy /\ owner # Nobody /\ output THEN CallUpdate(p) ELSE next
  /\ KeepsCore /\ KeepsBusy /\ KeepsGate /\ LoopOnly

FlushTimesOut(p, next) ==
  /\ pc = p /\ next
  /\ KeepsCore /\ KeepsBusy /\ KeepsGate /\ LoopOnly

RestartFlush        == FlushOrWait("flush", CallUpdate("quiesce"))
RestartFlushTimeout == FlushTimesOut("flush", CallUpdate("quiesce"))

(* abortUnverifiedIngress(): the owner is forgotten here and disconnected  *)
(* later, in the host task.                                                *)
AbortUnverifiedIngress ==
  IF owner = Nobody
  THEN UNCHANGED <<linkVars, adapterVars, coreVars, abortPending>>
  ELSE ForgetIngress /\ DropSession /\ owner' = Nobody /\ UNCHANGED <<links, gen>>

Quiesce ==
  /\ pc = "quiesce"
  /\ IF PhysicalActive
     THEN GoTo("lease") /\ UNCHANGED linkVars /\ KeepsCore
     ELSE CallUpdate("reboot") /\ AbortUnverifiedIngress
  /\ KeepsBusy /\ KeepsGate /\ UNCHANGED restartPending

(* Everything here is in RAM. *)
Reset ==
  /\ links' = {} /\ owner' = Nobody /\ gen' = 0
  /\ writes' = <<>> /\ overflow' = FALSE /\ fastStart' = FALSE /\ output' = FALSE
  /\ sess' = "Idle" /\ sid' = 0 /\ issued' = 0 /\ chalAge' = 0
  /\ authActive' = FALSE /\ abortPending' = FALSE
  /\ otaBusy' = FALSE /\ radioReserved' = FALSE
  /\ gate' = "IDLE" /\ gateAge' = 0
  /\ restartPending' = FALSE /\ pc' = "head" /\ ret' = "after"
  /\ granted' = {} /\ undrained' = FALSE

PutOff ==
  /\ GoTo("lease")
  /\ KeepsCore /\ KeepsBusy /\ KeepsGate /\ LoopOnly

(* performPendingRestart(), unless an access has won meanwhile. *)
Reboot == pc = "reboot" /\ IF PhysicalActive THEN PutOff ELSE Reset

(* Mutant of ExpireUnverified: the peer keeps its link and its session. *)
ExpireKeepingPeer ==
  /\ UNCHANGED <<linkVars, adapterVars, coreVars, abortPending, history>>
  /\ gate' = "IDLE" /\ gateAge' = 0

(* An unverified lease ran out: the peer goes, then cleanupToIdle(). *)
ExpireUnverified ==
  /\ AbortUnverifiedIngress /\ UNCHANGED history
  /\ gate' = "IDLE" /\ gateAge' = 0

(* enforceAccessCriticalLease(), the access path being critical. *)
LeaseLasts ==
  /\ pc = "lease" /\ GoTo("head")
  /\ KeepsCore /\ KeepsBusy /\ KeepsGate /\ LoopOnly

LeaseExpires ==
  /\ pc = "lease"
  /\ IF PhysicalActive
     THEN Reset
     ELSE ExpireUnverified /\ GoTo("head") /\ KeepsBusy /\ UNCHANGED restartPending
-----------------------------------------------------------------------------
(* The network, while the access path is not critical.                     *)

(* tryReserveIdleRadio(), for a repair of Wi-Fi or of the MQTT transport. *)
ReserveRadio ==
  /\ pc = "net" /\ GoTo("radio")
  /\ ~otaBusy /\ ~radioReserved /\ links = {}
  /\ ~fastStart /\ writes = <<>> /\ ~overflow /\ ~output /\ sess = "Idle"
  /\ radioReserved' = TRUE /\ UNCHANGED otaBusy
  /\ KeepsCore /\ KeepsGate /\ LoopOnly

ReleaseRadio ==
  /\ pc = "radio" /\ CallUpdate("mqtt")
  /\ radioReserved' = FALSE /\ UNCHANGED otaBusy
  /\ KeepsCore /\ KeepsGate /\ LoopOnly

NoRadioWork ==
  /\ pc = "net" /\ CallUpdate("mqtt")
  /\ KeepsCore /\ KeepsBusy /\ KeepsGate /\ LoopOnly

(* MqttManager::update(): nothing, a remote open or arming while the gate  *)
(* is idle, or a signed restart, which is only staged.                     *)
MqttQuiet ==
  /\ pc = "mqtt"
  /\ IF Critical THEN GoTo("lease") ELSE CallUpdate("checked")
  /\ KeepsCore /\ KeepsBusy /\ KeepsGate /\ LoopOnly

MqttOpens ==
  /\ pc = "mqtt" /\ ~Critical /\ CallUpdate("checked")
  /\ gate' = "VERIFIED" /\ UNCHANGED <<gateAge, history>>
  /\ KeepsCore /\ KeepsBusy /\ LoopOnly

MqttStagesRestart ==
  /\ pc = "mqtt" /\ ~Critical /\ CallUpdate("checked")
  /\ restartPending' = TRUE
  /\ UNCHANGED linkVars /\ KeepsCore /\ KeepsBusy /\ KeepsGate

AfterMqtt ==
  /\ pc = "checked" /\ LoopOnly
  /\ IF restartPending THEN BeginRestart ELSE StayOr("ota")

NoOta ==
  /\ pc = "ota" /\ GoTo("head")
  /\ KeepsCore /\ KeepsBusy /\ KeepsGate /\ LoopOnly

(* checkAndUpdate(): busy, flush, wait until the gate is safe, work. *)
OtaBegin ==
  /\ pc = "ota" /\ BecomeBusy /\ KeepsGate /\ LoopOnly /\ GoTo("otaflush")

OtaFlush        == FlushOrWait("otaflush", GoTo("otawait"))
OtaFlushTimeout == FlushTimesOut("otaflush", GoTo("otawait"))

(* isSafeForOta() *)
OtaWait ==
  /\ pc = "otawait" /\ GateTick
  /\ IF gate' = "IDLE" THEN GoTo("otawork") ELSE CallUpdate("otawait")
  /\ KeepsCore /\ KeepsBusy /\ LoopOnly

(* The download loop serves the session, which answers BUSY. *)
OtaWork ==
  /\ pc = "otawork" /\ CallUpdate("otawork")
  /\ KeepsCore /\ KeepsBusy /\ KeepsGate /\ LoopOnly

OtaRestart == pc = "otawork" /\ Reset

(* The wait timed out, or the check is over. *)
OtaEnd ==
  /\ pc \in {"otawait", "otawork"} /\ GoTo("head")
  /\ otaBusy' = FALSE /\ UNCHANGED radioReserved
  /\ KeepsCore /\ KeepsGate /\ LoopOnly

RestartPath ==
  \/ RestartFlush \/ RestartFlushTimeout \/ Quiesce \/ Reboot

NetworkPath ==
  \/ ReserveRadio \/ ReleaseRadio \/ NoRadioWork
  \/ MqttQuiet \/ MqttOpens \/ MqttStagesRestart \/ AfterMqtt

OtaPath ==
  \/ NoOta \/ OtaBegin \/ OtaFlush \/ OtaFlushTimeout
  \/ OtaWait \/ OtaWork \/ OtaRestart \/ OtaEnd

Loop ==
  \/ Update \/ LoopHead \/ AfterHead \/ LeaseLasts \/ LeaseExpires
  \/ RestartPath \/ NetworkPath \/ OtaPath

(* One unit of time, for the challenge and the authentication window. *)
Tick ==
  /\ \/ sess = "ChallengeIssued" /\ chalAge < ChallengeLife
     \/ gate = "AUTH_PENDING" /\ gateAge < AuthTimeout
  /\ chalAge' = IF sess = "ChallengeIssued" /\ chalAge < ChallengeLife THEN chalAge + 1 ELSE chalAge
  /\ gateAge' = IF gate = "AUTH_PENDING" /\ gateAge < AuthTimeout THEN gateAge + 1 ELSE gateAge
  /\ UNCHANGED <<linkVars, adapterVars, sess, sid, issued, authActive, abortPending,
                 busyVars, gate, loopVars, history>>

Next == Host \/ Loop \/ Tick

Spec == Init /\ [][Next]_vars

(* loopTask runs (the loop watchdog resets the chip otherwise); an access  *)
(* that was granted comes to its end (AccessFsm); a flush is given up in   *)
(* the end; and the peer does not refill the queue faster than it drains.  *)
LiveSpec ==
  /\ Spec /\ WF_vars(Loop)
  /\ SF_vars(LoopHead /\ gate' # "VERIFIED")
  /\ SF_vars(RestartFlushTimeout) /\ SF_vars(PopsDone)
-----------------------------------------------------------------------------
(* Properties.                                                             *)

Message == [gen : 0..MaxLinks, kind : {"hello", "proof", "junk"}, sid : 0..MaxSessions]

(* Every variable keeps to its type. *)
STypeOK ==
  /\ links \subseteq Handles /\ owner \in links \union {Nobody} /\ gen \in 0..MaxLinks
  /\ writes \in Seq(Message) /\ Len(writes) <= WriteCapacity
  /\ overflow \in BOOLEAN /\ fastStart \in BOOLEAN /\ output \in BOOLEAN
  /\ sess \in {"Idle", "ChallengeIssued", "Completed"}
  /\ sid \in 0..MaxSessions /\ issued \in 0..MaxSessions
  /\ chalAge \in 0..ChallengeLife /\ gateAge \in 0..AuthTimeout
  /\ authActive \in BOOLEAN /\ abortPending \in BOOLEAN
  /\ otaBusy \in BOOLEAN /\ radioReserved \in BOOLEAN
  /\ gate \in {"IDLE", "AUTH_PENDING", "VERIFIED"}
  /\ restartPending \in BOOLEAN /\ undrained \in BOOLEAN
  /\ pc \in {"head", "drain1", "fast", "over", "pop", "core", "drain2", "after",
             "lease", "flush", "quiesce", "reboot", "net", "radio", "mqtt",
             "checked", "ota", "otaflush", "otawait", "otawork"}
  /\ ret \in {"after", "flush", "quiesce", "reboot", "mqtt", "checked", "otawait", "otawork", "otaflush"}
  /\ granted \subseteq 1..MaxSessions

(* The gate is never left waiting for a session that is gone: while it     *)
(* waits, a challenge is out or the abort that will free it is on its way, *)
(* whichever task ended the session.                                       *)
PendingOwned == gate = "AUTH_PENDING" => sess = "ChallengeIssued" \/ abortPending

(* A peer that holds a challenge in time finds the gate waiting for it;    *)
(* unless its session began while the abort of an earlier one was still to *)
(* be drained, which costs it a BUSY.                                      *)
LiveChallengeFindsGate ==
  sess = "ChallengeIssued" /\ chalAge < ChallengeLife /\ ~undrained => gate = "AUTH_PENDING"

(* Nothing a former peer left behind reaches the protocol: what is queued  *)
(* is the present owner's, of this very connection.                        *)
IngressOwned ==
  /\ \A i \in 1..Len(writes) : owner # Nobody /\ writes[i].gen = gen
  /\ overflow \/ fastStart => owner # Nobody

(* While the radio is reserved no peer is connected, queued or in a        *)
(* session: neither task may let one in.                                   *)
RadioExclusive ==
  radioReserved => owner = Nobody /\ writes = <<>> /\ ~fastStart /\ sess = "Idle"

(* The parts of the session that two tasks and the loop keep apart belong   *)
(* together all the time: gate and session, session and peer, queue and     *)
(* connection, radio and reservation.                                       *)
SessionIsOwned == PendingOwned /\ LiveChallengeFindsGate /\ IngressOwned /\ RadioExclusive

(* An access that was granted is taken back by nobody: a late abort, an    *)
(* expired challenge, a lost indication, a dropped link or a busy period   *)
(* leaves it to the state machine's own tick (or a reset of the chip).     *)
CommittedStays ==
  [][gate = "VERIFIED" /\ gate' # "VERIFIED" => pc \in {"head", "otawait"} \/ Reset]_vars

SignedRestart == pc = "reboot" /\ ~PhysicalActive /\ Reset

(* However peers come and go meanwhile, a signed restart or the one after  *)
(* an update never falls into an access or an authentication.              *)
RestartQuiet ==
  [][SignedRestart \/ OtaRestart => gate = "IDLE" /\ sess # "ChallengeIssued"]_vars

(* A signed restart that was staged happens, although peers may connect    *)
(* and write all the time.                                                 *)
RestartHappens == restartPending ~> ~restartPending

(* "Overflow wins before any queued proof can reach the verifier." *)
OverflowFirst == [][granted' # granted => ~overflow]_vars
=============================================================================
