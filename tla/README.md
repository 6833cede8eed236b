# A verification of the gatekeeper

The repository is a door access system: an ESP32-C6 controller at the door (the
*Target*), a FastAPI Backend, an Android/Flutter app, and the signed releases,
operations scripts and contracts around them. This directory holds TLA+ modules
of the core logic of the Target, of the Backend and of the tools that operate
them, the TLC configurations that check them on small instances, and TLAPS proofs
of what matters most for every value of the constants. Paths below are relative to
the repository (`src/main.cpp` is the firmware's main file, `backend/app/main.py`
the Backend's).

| module | what it is | run | proved in |
|---|---|---|---|
| `AccessFsm` | the access state machine, the relay, the cutoff timer | `passage` | `DoorProofs` |
| `DoorPromise` | what the relay promises; `AccessFsm` implements it | `passage` | `DoorProofs` |
| `PassageGate` | `AccessFsm` under its real callers, with the passage sensor, the clearance latch and the retry budget | `passage` | `DoorProofs` |
| `GattSession` | the local BLE session between the NimBLE task and loopTask, with signed restart, OTA, lease and radio | `session*` | `GattSessionProofs` |
| `CommandLedger` | signed MQTT commands and their replay ledger in flash | `ledger*` | `CommandLedgerProofs` |
| `OfflineQueue` | the ring of signed records in flash, with its two metadata slots | `evidence` | `EvidenceTrailProofs` |
| `DurableFifo` | what that queue promises; `OfflineQueue` as `EvidenceTrail` uses it implements it | `evidence` | `EvidenceTrailProofs` |
| `EvidenceTrail` | a signed access event from the task that raised it to the Backend's receipt | `evidence` | `EvidenceTrailProofs` |
| `AclDelivery` | grants and revocations on their way into the Target's ACL | `acl` | `AclDeliveryProofs` |
| `EventCollector` | an access event from the Target's journal through the store to Home Assistant | `collector` | `EventCollectorProofs` |
| `TargetStatus` | verified statuses, availability, and commands bound to a boot | `status*` | `TargetStatusProofs` |
| `AdminControl` | force-open, signed phone requests, configuration, retention, export | `operations` | `OperationsProofs` |
| `Enrollment` | phones, accounts, keys and the tenant's owner | `operations` | `OperationsProofs` |
| `SessionView` | what a phone is told about its session | `operations` | `OperationsProofs` |
| `MqttPublisher` | the Backend's one publishing session and its breaker | `operations` | `OperationsProofs` |
| `Publication` | firmware and app published over SFTP | `operations` | `OperationsProofs` |
| `BrokerActivation` | the NAS broker replaced, committed and rolled back | `operations` | `OperationsProofs` |
| `HaAdoption` | Home Assistant given a broker account of its own | `operations` | `OperationsProofs` |
| `Maintenance` | signed maintenance and the recovery of dockerd | `operations`, `maintenance_worker` | `OperationsProofs` |
| `HealthMonitor` | the availability monitor of Home Assistant | `operations` | `OperationsProofs` |
| `BackupRestore` | the legacy database's backup and the restore that proves it | `operations` | `OperationsProofs` |
| `EventStream` | the acceptance parser over recorded events | `operations` | `OperationsProofs` |
| `Operations` | the eleven modules from `AdminControl` on, side by side | `operations` | `OperationsProofs` |

## 1. The system

### Tasks of the Target

- **loopTask** runs `loop()` of `src/main.cpp`. Every change of the access state
  machine is made there: relay deadline and tick, one pass of `GattServer::update`,
  a pending signed restart, WiFi, MQTT, OTA, sensor sampling, the lease on the
  unverified session. A loop watchdog (45 s) resets the chip if it stops.
- **the NimBLE host task** delivers connect, disconnect, subscribe, write and
  indication-status callbacks. It shares the protocol core with loopTask under
  `core_mutex` and never calls the state machine: an abort is coalesced into a
  flag that loopTask drains.
- **the esp_timer task** runs one callback, the relay cutoff, at any point of
  `loop()`. It drives the output and sets a flag.
- **MQTT workers** (connect, telemetry, ingress) lease the socket exclusively.
  They hand commands over to loopTask.

### Components, their state and what makes them correct

| component | state | operations | correct when |
|---|---|---|---|
| access state machine (`TargetAccessFsm`), relay (`main.cpp`) | state, arm window, relay command, output, deadline, one-shot | challenge, grant, arm, sensor trigger, manual opens, abort, tick, cutoff callback, failsafe | a pulse is bounded and reported once, the output rests between pulses, the gate always recovers |
| passage sensing (`UltrasonicSensor`, `PassageRearmPolicy`) | median window, clearance latch, retry budget | sample, note pulse, admit, arm | one automatic pulse per occupied passage, never on an earlier person's samples, retries bounded |
| GATT core and adapter (`GattProtocol`, `GattServer`) | connection owner and generation, write queue, session, abort flag, busy and radio flags | connect, disconnect, write, subscribe, indication result, update, abort ingress | the gate is owned by a live session or being freed, nothing of a former peer reaches the core, an access once granted stays |
| command ledger (`TargetCommandSecurity`, `MqttManager`) | two flash slots, RAM copy, command in hand | authorize, act, complete, reset | a command is acted on at most once, whatever is redelivered or lost |
| offline event queue and evidence (`OfflineEventQueue`, `DeferredAccessQueue`, the outbox of `MqttManager`, receipts) | ring of records, two metadata slots, outbox, RTC image, deferred queue | emit, drain, checkpoint, spill, publish, receipt, restart, begin | an accepted terminal survives every software reset until its receipt, the order is kept, a restart reports its evidence durable only when it is |
| Target ACL (`TargetAclManager`) | two slots, generation records, watermark, lease | apply, begin, lookup | no older ACL is ever active again, re-delivery does not extend a lease |
| OTA (`OtaManager`, `OtaVersionPolicy`, `OtaHealthPolicy`) | version floor in two slots, health window, busy flag | check, download, commit, begin | the floor never falls, an unhealthy image is rolled back |
| network (`WifiManager`, `NetworkRecovery*`, `Mqtt*Policy`) | recovery phase, deadlines, lease of the socket, generation of a result | update, reserve radio, adopt result | a stale result is never adopted, a repair never disturbs a peer |
| access-critical lease (`AccessCriticalLeasePolicy`) | epoch, quiet period | expired | a reconnecting peer earns no fresh epoch |
| presence advertisement, BLE startup | retry and quiet periods | update | the advertiser comes back |
| Backend requests and administration (`backend/app/main.py`, `admin_security.py`) | sessions, proposal, nonces, configuration, deletion jobs, audit | propose, approve, consume, publish, change, delete, export | an effect happens once, and was audited first |
| Backend accounts and keys (`main.py`, `acl_management.py`, `acl_api.py`) | account rows, credentials, tenant, challenges | register, first start, enrol, approve, revoke, delete, log out | a live key can be revoked through an account, the tenant has an owner |
| Backend ACL delivery (`acl_management.py`, `acl_refresh.py`, `target_acl_delivery.py`) | grants, one job per door, artifacts, versions, acknowledgements | queue, publish, acknowledge, expire, refresh | a revocation is pursued until the Target has it, a job is worked |
| Backend collector (`main.py`, `access_event_conflicts.py`) | history, conflicts, outbox, subscription | persist, receipt, subscribe, publish, echo | nothing forgotten before it is stored, every event announced in turn |
| Backend status (`main.py`, `home_assistant_bridge.py`, `target_boot_registry.py`) | high-water, live state, timer, retained availability, commands | persist, effects, expire, connect, stop, request, acknowledge | online is guarded by a deadline, evidence is of this connection and boot |
| answer about an access (`_personal_access_session`) | - (events, live status) | answer | no phone is told of another session's end |
| Backend publisher (`ops_runtime.py`) | client, gate, slots, breaker | publish, probe, discard | one session, never half open for good |
| publication (`scripts/ota_contract_gate.py`) | immutable files, pointer, fixed pair | publish, roll back | a reader finds a whole build, never an older one |
| broker activation (`scripts/nas_broker_ops`) | containers, journal, stage, state | stage, activate, roll back | what is stopped can be brought back |
| Home Assistant adoption (`ops/ha_mqtt_adoption.py`, `scripts/nas_ha_ops`) | configuration, directory mode, journal | adopt, watch, restore | a stopped HA has somebody who starts it |
| Docker recovery (`scripts/nas_maintenance`) | queue lock, job, daemon | submit, work, recover | one script at a time, containers survive |
| monitor (`scripts/nas_ha_health`) | state file, journal, pending notices | cycle, notify | the owner hears of every incident |
| legacy backup (`backend/deploy`, `scripts/ops_commercial_gate.py`) | bundles, lab | back up, prepare, restore, verify | a pass has lost nothing |
| event stream judge (`observability/event_parser.py`) | events kept, order | validate, order, judge | the order is causal, a verdict is earned |
| Android credential worker and BLE wake (Kotlin), Flutter app | worker state, registration, session engine | start, process death, reconcile | at most one attempt in hand |

`PROJECT.json` lists every one of them with its files and status.

### What is hard here

Two tasks on one session; an abort applied after the session it was meant for
is gone; a cutoff that pre-empts the loop; samples, admissions and overflow flags
read at one moment and used at another; flash writes that fail, tear, or report a
failure after they landed; a broker that repeats and reorders; a restart that
must not fall into an access and must not be put off for ever. In the Backend:
threads that read, release a lock or a transaction and act later; commits and
publications whose outcome is unknown and that are repeated; connections, boots
and processes that end in between. In the tools: a job that ends at any call, and
a second actor that takes over from one who is late. `PROJECT.json`
lists each hazard at its line and the properties aimed at it, and those that
nothing covers yet.

## 2. The modules

### AccessFsm (and DoorPromise)

One action per handler of `TargetAccessFsm`, each the whole handler. The head of
`loop()` is three steps, `LoopTimerFlag`, `LoopFailsafe` and `LoopTick`;
`RelayTimerFires` may come between any two of them. `DriveOn` and `DriveOff` are
`relayOn()` and `relayOff()`. A timestamp is kept as the time elapsed since it was
taken, saturating at `MaxAge`; the wrap of the 32-bit clock is therefore not
visible, nor is a change of the cooldown at run time (it is a constant).
`TimerMayFail` covers `Ticker::once_ms`, whose result the code does not look at.
`Restart` is any reset of the chip. `offAge` and `unreported` are history.

Callers may ask for anything at any time in "serve". `PassageGate` has the real ones,
each of them a handler of `AccessFsm` under a narrower guard. Its behaviours are therefore
behaviours of `AccessFsm` by the shape of the definitions; that says nothing about
`main.cpp` and is no property here, only the lemma by which what is proved of `AccessFsm`
for every caller holds of the firmware's.

`DoorPromise` is the abstract door: lit at most `Hold`, only after resting for
`Rest`, and an authorisation waiting for the sensor is used once. The mapping:
lit is the physical output, waiting is `state = "ARMED"`.

### PassageGate

Extends `AccessFsm` with the sensor's window, `PassageRearmPolicy` and
`PresenceReadyPolicy` (both in `include/PassageRearmPolicy.h`) and the callbacks
that `setup()` and `loop()` install. A reading is one of near, band, clear or none,
which is all that the median, the threshold and the latch tell apart. `ok`, an
input of every caller, is "OTA idle and ACL lease valid". Admission is captured at the
challenge (`admitted`) and used at the grant, as in the code.

### GattSession

The critical sections of `GattServer::update` are the values of `pc` from
"drain1" to "drain2", so the host task acts between any two. Other values
are the steps of `loop()` with the branches each takes: `servicePendingSignedRestart`
("flush", "quiesce", "reboot"), the network, the OTA check, the lease. Messages carry
the generation they were queued under and, for a proof, the session they name.

Abstracted: cryptography (a proof is for the session it names or is junk);
reassembly (a message arrives whole; a peer stalled in the middle of one is
`CoreTick(stalled)`); the contents of outputs; the failure counter behind the rate
limit (an input); the gate, of which `VERIFIED` stands for ARMED, RELAY_HOLD and
COOLDOWN; a dropped abort when nobody waits. Left out: failure of the random
generator, the enable switch and `destroyService`, the AP upload page (same busy
and wait path as OTA). `gateAge` and `chalAge` start at different moments only if
they do in the code.

The second and third physical checks of the pending restart never hold in the
model, because busy keeps the core from committing: they are defensive.

### CommandLedger

`TargetCommandSecurity` with both callers in `MqttManager`, the ordinary and the
access-critical receive path. A flash write ends in one of four ways (`stored`,
`refused`, `torn`, `misreported`); a power loss during a write is a failed
outcome followed by `Reset`. With `ReadsMayFail` a valid slot may also be
unreadable at boot. A command stands for its whole signed envelope: two
commands never share a nonce, and a message with a bad signature, identity or
schema is answered before state is read and is left out. The random `boot_id` is the
number of the boot. An ordinary access is answered before its effect and marked
completed after it (`close`); a reboot is staged only after its completion is
stored; a manual open in a critical phase is refused while another signed access is
under way. `SignedCommandAccessTracker` is kept as active or not.

### OfflineQueue, EvidenceTrail (and DurableFifo)

`OfflineQueue` is `src/OfflineEventQueue.cpp` over `NvsQueueStorage` of `src/main.cpp`.
The two writes of `push` are two actions, so that anything may happen between them;
`popFront` is one write. A write that reports failure, or is cut off, leaves the old
blob, the new one, or one whose CRC fails. Only signed records that need a receipt are
pushed in this firmware, so a full ring refuses the event; the branch that drops two
unsigned diagnostics for a gap record has no caller and is left out.

`EvidenceTrail` extends it with what surrounds it. `Emit` may come from any task at any
moment. `job` is what loopTask needs a push for: `checkpointTerminalEvent`
("checkpoint": all older records first, then the terminal; failing that the outbox's
reserved place and RTC memory), `enqueueEventWithDurableSpill` ("spill"), the
publication that failed ("park") and `persistPendingEventsForRestart` ("persist"). Each
push is refused at once by a full ring, or is the two writes, after which the job goes
on (`PushDone`) or falls back (`PushFailed`). `Receipt` may be late or repeated: any
event published so far whose record is at the head again. A software reset keeps RTC
memory, a power loss does not. A "plain" event may be refused for good by the sink, as
malformed: the drain quarantines it and goes on.

Abstracted: the records and their MACs; the RTC journal is the one image
`restoreNewest` takes, replaced or cleared in one step (its two slots and magic-last
commit make a save so; a reset inside `clearJournal` may leave an older image, which
can only repeat records). Saving it does not fail, because every record was validated
on its way into the outbox. An event raised after the seal is refused without a gap, as
in the code. Left out: the failure latch (`EvidencePersistenceFailureLatch`), the queue
of unsigned diagnostics, the two-second pause between publications.

`DurableFifo` is the promise: the program sees a queue, a reset finds the same queue, and
only the operation under way or refused last may be found done or not done. `durable`
is mapped to `Loaded`, what `begin()` would make of the flash at that moment.

### AclDelivery

The store's transactions (`QueueJob`, `SetStatus`, `Grant`, `RemoveFromDoor`,
`DisableTenantAndQueue`, ...) may commit at any point of a publication, which is cut
at every store call and at the wait for the acknowledgement. A job is its revision and
the version it has generated, a snapshot what it lets in. The Target accepts a version
above its watermark, expired or not (`TargetAclManager.cpp:346` puts the time aside; the
lease counts when a phone is at the door), loses its active ACL at a reset and keeps the
watermark. One tenant, one door, one Target; envelopes, signatures and the audit trail
are left out. Snapshots share one lease, so one threshold says which have expired.

The code has no limit to versions and revisions, and `JobsAreWorked` must not be met by one
of ours. `Room` and `Spare` therefore keep every step that spends a version the waiting job
does not need itself (a new request, a direct publication, an expiry, a crash) from taking
the last ones: whoever has to replace an expired artifact always finds a version, and a job
is settled only when it is gone, when an unexpired snapshot of it is being sent, or when the
tenant is disabled.

### EventCollector

The network thread, the writer thread and the outbox thread, with one bit for whether
the outbox thread's generation is the current one. A commit may fail, or succeed and be
reported as failed; a record may repeat or collide with one that is there; a stranger
may publish on the topic (its record has no valid MAC). Field checks of a record are one
verdict. Faults happen until `calm`, a step that comes at some time.

### TargetStatus

A status is a boot and a revision; any may be delivered at any time, again. `Persist`
advances the durable high-water, `Effects` is what follows if the connection is still
the one the status came on, up to the timer being armed; then the database is asked for the
boot, which takes any time or fails, and only `Publish` says what is shown. The shutdown is
cut too: the timer is stopped (`Stop`), "offline" is said (`Silence`), the connection is
closed (`Leave`), and the writer, whose lock it does not take, goes on through all of it.
Ages have three values, told apart by the 15 s of a command and the 90.25 s of the
availability. The live registry and the command bridge are one variable, since they hold
the same status while there is a connection.

A retained "online" that nobody will take back is thus reachable, in two ways: the timer
fires while the database is asked (`main.py:3530-3559`), or the shutdown stops the timer and
says its last word meanwhile (`main.py:4095-4125`). The history variable `late` marks these
publications. `OnlineIsGuarded` and `SilenceIsShown` say that they are the *only* ones,
which is less than `wiki/architecture.md:331-335` (a silent Target is shown offline right
after the maximum age) and `:346-347` (without a connection or a fresh status the
availability is offline) promise.

### AdminControl

Three lanes that share no state, of which a behaviour follows one: the force-open of two
persons, the signed requests of a phone, and configuration, retention and export.
Handlers are threads; a transaction is one step, a commit or a publication may be
reported as failed after it took effect, and the process may end between any two steps.
`door_force_open`, which the application does not register as a route, is left out, and
so are reports and plain queries.

### Enrollment

A handler that is one transaction is one action; enrolment, approval, deletion and
logout are not and are cut where they read, revoke and delete. Proofs of possession are
verdicts. The grant of the door is never taken from an active key here (`AclDelivery`
does that), and family invitations are left out.

`approve_credential` reads PENDING and later writes ACTIVE whatever the key is by then
(`acl_management.py:2338-2349`). A key revoked in between, say by the deletion of its
account, is live again and the deletion goes on: a live key without an account is
reachable, although `wiki/project_status.md:935` counts REVOKED among the terminal states.
The history variable `past` marks such keys ("revived") and those an account was ever linked
to. `KeyHasItsAccount` says of every other live key, chosen or enrolled, that it has its
account; an enrolled key that no account has asked about yet has none to lose.

### SessionView

`Answer` and `NextAuthReady` are `_personal_access_session`, predicate by predicate. The
rest makes its evidence: events that are lost and late without limit, the terminal
summary of the Target's latest status, which names the last session only, and boots.
PROVED stands for everything a session emits before the relay and RELAY_ON for everything
after it. Of the summary's phase mask the values are told apart that the answer tells apart:
every phase of a passage ("success"), the failsafe's ("failsafe"), anything less
("partial"); the mask loses what the sink refused. A session of no phone is the manual
opening of a signed command. The nonce of the read proof is left out.

### MqttPublisher

`CircuitBreaker` and `PersistentMqttPublisher`: the gate around the connection, the
attempt that outlives the thread that started it, the slots, the probe. A deadline may
pass at any wait. To discard a session is assumed to take less than the breaker's
fifteen seconds. `close()` is left out.

### Publication

Two publishers on disjoint directories (`lane`). A build is a commit with its number;
a second take of the same build has other bytes. A rename may fail before or after it
moved the file, and any step may be the last. The mobile publisher reads the fixed pair of
both directories, and each manifest again before it replaces anything.

Each publisher is serialised by its workflow's concurrency group. Another writer of the
mobile primary directory is not: `release_to_production` of `build_app.yml` (591 and
before, from 405) copies its APK and manifest over the fixed files, reads nothing and keeps
nothing. `Upload` is that writer. It comes between any two steps, each file left as it was,
partly written or replaced, at most once between two readings of the publisher (a second one
leaves the same choices). It runs only with release evidence the gate accepts
(`ota_contract_gate.py:3384-3398`); at this commit `ota/release-evidence.json` blocks it, so
the model covers what the workflow does once that is lifted. The like job for the firmware
is switched off in the workflow (`deploy.yml:930-931`, "false &&"): the Target pointer has
one writer, and its second reading (`StillThere`) finds what the first found unless
somebody moves the pointer by hand. A manifest signed with another key counts as unreadable.

What the upload takes from the promises stands in the properties: the whole pair may be
gone only while the fallback is being replaced, a pair an upload left there is not kept, and
an upload after the last reading can make a primary directory older.

### BrokerActivation, HaAdoption, Maintenance, HealthMonitor, BackupRestore

Jobs of the NAS and of the owner's machine, cut at every call that changes something. In
`BrokerActivation` a job may end anywhere, and a Docker call may fail after it took
effect. In `HaAdoption` only the worker is ever killed from outside; the watchdog ends by
the worker's hand, the rollback job by its alarm, which runs the `finally` of `restore`;
`StopMayTimeOut` says whose `docker stop` may report failure after it worked. Only the
worker's may (`AdoptionAssumption`): after the watchdog, or a rollback job beside it, comes
nobody, so a stop or a start of theirs that fails for good is left to the operator and left
out. In `Maintenance` workers are not killed, and the alarm, or a lost connection, may cut a
submit at any of its steps. Cut between the launch of the worker and the record of its pid
(`gateway.py:189-192`) it leaves a worker that `live()` does not find (`loose`): the next
submit may launch a second script beside it, which `maintenance_worker` shows.
`MaintenanceIsSafe` says what is left: two scripts run together only if one of them is such
a worker's, and the containers are safe until such a worker has its turn. In `HealthMonitor` the probes are
verdicts and cycles stand for time. In `BackupRestore` a digest stands for what it is taken
of, and keys, ages and the migration set only make a step refuse, which any step may do.

### EventStream

The parser over a recorded stream: read in any order, deduplicate, validate, order
(Kahn's algorithm over cause and sequence), judge. What one event must look like on its
own is the flag `valid`; a code stands for the event's code and, where the verdict tells
them apart, its reason. A stream may hold events of several sessions, as the validation
allows: a cause is of the same session, every session is of one kind, updates one thing
and has one terminal; only a stream of one session is judged. The digest of the artifact and
the references that name the Target are left out. The required chains are constants, so that
an instance can shorten them. `StreamsAssumption` says what the proofs need of both:
collections are finite, identifiers and clock times are ordered (numbers stand for the code's
strings), a reset is an event of an access, Targets do not share a boot identifier (it is 128
random bits), the local chain asks for the proof before the relay and the chain of a Target's
update for the installation before the boot.

### Operations

The eleven modules from `AdminControl` on share no state, so one module holds them side by
side and one run checks it: `part` says which of them a behaviour is one of, the variables
`x1` to `x16` are its variables. No step mixes two of them, and the number of states is the
sum, not the product. Each property is the module's own on behaviours of that part. What the
parts assume of their constants are plain definitions in them; `PartsAssumption` assumes
them all.

## 3. What is checked

Every run finishes within about three minutes on two workers.

| run | bounds | shows |
|---|---|---|
| `passage` | pulse 2 units, grace, cooldown and authentication 1, arm windows 1 and 2, ages to 3; window of 3, 2 clear readings end an episode | `DoorSpec` (bounded and spaced pulses, one for each authorisation), `GateRecovers` (a pulse ends although loopTask may hang for ever; while it runs the gate is idle again and again), `OnePulsePerEpisode`, `FreshMajority`, `RetryBudget` |
| `session` | two handles, two links, two challenges, queue of one | `SessionIsOwned` (four invariants about gate, challenge, ingress and radio), `CommittedStays`, `RestartQuiet`, `RestartHappens` |
| `session_overflow` | one of each | *violated*: `OverflowFirst` |
| `ledger` | arm, manual and reboot commands, ring of two, two boots | `AtMostOnce`, `NothingAfterRefusal`, `NothingForgotten` |
| `ledger_reset` | as `ledger` | *violated*: `ResetAnsweredUncertain` |
| `evidence` | a plain event, a terminal and a terminal of a signed command; ring of two, deferred queue of one, outbox of two, one reset | `EvidenceIsKept` (terminals survive a software reset, a power loss takes only what was in RAM and RTC, order is kept), `CleanIsDurable`, `FifoSpec`, `TerminalDelivered` |
| `acl` | one credential, three versions, two revisions that others ask for | `RevocationIsPursued`, `BootRefreshIsNew`, `JobsAreWorked` |
| `collector` | a journal of three events of which two share an identity, a forged and a malformed one, a queue of one | `HistoryIsGenuine`, `AnnouncedInTurn`, `EverythingAnnounced` |
| `status` | two boots of two statuses, two connections, a queue of one, one command | `OnlineIsGuarded`, `EvidenceIsCurrent`, `SilenceIsShown` |
| `status_refresh` | as `status` | *violated*: `BootQueuesItsRefresh` |
| `operations` | see below | one or two properties of each of the eleven parts |
| `maintenance_worker` | three requests | *violated*: `OneActiveWorker` |

The parts of `operations`: three builds and two takes, an upload of the middle build
(`PublishedIsWhole`, `PublicationMovesForward`); two phones, one key the app chose and two that compete for
one challenge, two rows (`KeyHasItsAccount`, `TenantIsKept`); two handlers, three
administrators of whom one may propose and approve, requests of both kinds, two changes
of the configuration, two retention requests under one key (`EffectsHappenOnce`,
`EffectIsAccountable`); two activations, two bundles (`WayBack`); two adoptions
(`AdoptionIsSafe`); three maintenance requests (`MaintenanceIsSafe`); nine cycles, two
pending notices (`OwnerIsTold`); two publishers and a prober, three attempts, a threshold
of two (`PublisherIsSafe`); six recorded sessions (a local, a manual and a reset
access, updates of Target and phone, a roll back), each with every single fault, and two
sessions in one collection (`StreamIsJudged`); two backups, two restorers (`PassLosesNothing`); two sessions, two
boots (`AnswerIsTrue`).

Why the bounds are enough. `AccessFsm`: the pulse and the failsafe come due at different
moments, the one-shot before, with or after the tick of the loop, and one arm window is
shorter than a pulse; the one-shot starts (`TimerMayFail` is false, or the first half of
`GateRecovers` would not hold), and `DoorSpec` with one that does not is left to the proof.
`PassageGate`: the code's relation
between window and clear readings is kept (`2 * ClearNeeded > Window`), a blocked
window is shorter than the configured one and the quiet interval longer than the
idle yield. `GattSession`: two handles and two links give a former peer, a later one
and a late disconnect; two challenges give a proof for the wrong session and an
abort that arrives a session late; a queue of one fills and overflows, and the proof of
`SessionIsOwned` covers the other sizes. `CommandLedger`: a ring of two and
three commands evict in every order; two boots are what a command signed for an
earlier boot takes; with only one boot at a time a third adds no new order.
`EvidenceTrail`: every queue is shorter than the number of events, so each is full in some
behaviour, and a ring of two wraps; a second reset during the recovery from the first is
left to the proof of `FifoSpec`, which holds for any number. `AclDelivery`: three versions are
a generated snapshot, one that expires or is overtaken, and the replacement that is always
left for it (see above), two revisions a change behind a publication; the proofs cover the
rest, more credentials among them. `EventCollector`: three events are one
that is sent, one behind it and one that collides. `TargetStatus`: two boots and two
connections are the old and the new of each. In `operations` the parts are two of whatever
competes, and enough attempts for one that fails and one that follows it. Two rows of
accounts are a phone and the one that takes the tenant over, or a phone and its second
registration; both at once are left to the proofs.

Deadlock is not checked by `evidence` and `collector`, which stop when everything is
acknowledged or announced, nor by `operations` and `maintenance_worker`, whose jobs end at
their bounds.

### Fairness

- `AccessFsm!TimerFairness`: time passes (strong fairness of `Tick`; no behaviour puts
  infinitely many steps into an instant), a due one-shot runs (the esp_timer task has
  the higher priority) and the head of `loop()`, which blocks nowhere, is
  finished once begun. `LoopFairness`, the premise of the second half of
  `GateRecovers`: `loop()` is called again, or else the watchdog resets the chip, which is
  a `Restart`.
- `GattSession!LiveSpec`: loopTask runs (watchdog); an access that was
  granted ends, which is `GateRecovers` of `AccessFsm`; a flush is given up after 3 s
  (`flushOtaBusy`); the drain of the write queue ends, since a peer writes at most once
  in a connection interval and the queue drains within one.
- `EvidenceTrail!Fairness`: loopTask goes on with the job in hand (weak fairness of
  `Step`) and the restart it has prepared happens; the Backend is reached again and
  again and a receipt is stored again and again (strong fairness of `Publish` and of
  `Receipt(e, TRUE)`), which is the retry every two seconds and the assumption that
  the flash does not refuse for ever.
- `AclDelivery!Fairness`: the holder of the lock and the refresh worker's thread go on
  (every wait has a deadline), leases end, restarts of the Backend stop at some time, and
  the broker takes a publication again and again (strong fairness of a `Send` that gets
  as far as the wait).
- `EventCollector!Fairness`: threads, callbacks and the Target's repetition go on, and
  the faults stop (`Calm`).
- `TargetStatus!Fairness`: threads run, the timer fires, the broker notices a dead
  connection, time passes. No fairness of the Target: that it is silent is the point.

### Findings

1. `OverflowFirst`. The comment at `src/GattServer.cpp:1025` says that overflow wins
   before any queued proof can reach the verifier. The latch is read once (line 1023)
   and the queue popped afterwards with the mutex released in between: a write that
   overflows then does not stop a proof already queued. The overflow is handled on the
   next pass, after the grant.
2. `ResetAnsweredUncertain`. `wiki/target_command_ota_security.md:24` says that a command
   whose completion was cut off by a reset is answered `duplicate_uncertain` on
   redelivery. A reset makes a new `boot_id`, and `authorize()` compares it before the
   ledger (`src/TargetCommandSecurity.cpp:177`): the answer is a boot mismatch. It is as
   safe (`AtMostOnce` holds), but not what the document says.
3. `BootQueuesItsRefresh`. `wiki/backend_acl_management.md:185` says that the first
   status to commit a new boot queues its ACL refresh. The worker commits, then looks
   whether the connection is still the one the status came on
   (`backend/app/main.py:3315`), and skips the refresh if it is not; a later status of the
   same boot is not an advance any more. The Target is without an active ACL until the
   refresh worker's next periodic pass.
4. `OneActiveWorker`. `wiki/signed_nas_maintenance.md:18` promises "One active maintenance
   worker". A submission launches its worker and then saves its pid
   (`scripts/nas_maintenance/gateway.py:189-192`) under an alarm of 20 s. Ended in between, it
   leaves a job without a pid, which the next submission takes for dead.

## 4. What is proved

All proofs are checked by TLAPS (Z3, Zenon, LS4), for every value of the constants that
satisfies the named assumptions.

- **DoorProofs**, from `TimingAssumption` and `PassageAssumption`. The inductive invariant
  `IInv` of `AccessFsm` adds to `TypeOK` what ties the machine to the output: the relay is
  commanded exactly in RELAY_HOLD, an energised output is held by the machine with its
  deadline, its age is the age of the state, and a rested gate (IDLE, AUTH_PENDING or ARMED)
  has been off for the cooldown. The last part is what `PulseSpacing` needs: the one-shot
  ends a pulse before the machine enters COOLDOWN, so the output has been off at least as
  long as the cooldown has lasted. From it: `TypeOK`, `CutoffScheduled`, `OnTimeBounded`,
  `CloseReportedOnce`, `PulseSpacing`, `OverdueCut`, and the refinement `Spec => DoorSpec`
  step by step. No run repeats the invariants: `DoorSpec` implies what they say of the
  output. All of it holds of `PassageGate` by LEMMA `CallersAreAccessFsm`. `BudgetInv` relates the budget flag, the idle age
  and the time since the last automatic arm; `RetryBudget` follows. `SensorInv` is about the
  filter and the latch: near readings in the filter are near readings of this session
  (`ReadingsFresh`), the latch's streak is the streak of clear readings since the last pulse
  (`LatchWitnessed`), and in ARMED that streak is at the end of the filter (`ClearTail`).
  The first gives `FreshMajority`. The others give `OnePulsePerEpisode`: the sample that ends
  an episode cannot also open, since with `2 * ClearNeeded > Window` its median is not near.
- **GattSessionProofs**, from `SessionAssumption`. `IInv` is `CInv /\ HInv /\ LInv`: the
  core's invariant (an active control belongs to a challenge, a challenge has a
  connected owner and a number, the two clocks advance together), the host's (queued
  writes are of this owner and this connection) and the loop's (the radio is reserved
  only at "radio"). From it: `STypeOK`, the four parts of `SessionIsOwned`, and
  `CommittedStays`. `RestartInv` follows loopTask to a restart: from the busy flag on no
  session begins (`BusyAndAnswered`), the `update()` before a signed restart drains the
  abort that was left (`DrainedForReboot`, which rests on `PendingOwned`), and an update is
  installed only from an idle gate (`IdleForOta`). It gives `RestartQuiet`.
- **CommandLedgerProofs**, from `CommandsAssumption`, `LedgerAssumption` and
  `NoLedgerAssumption`. `LedgerInv` is the type invariant, what is in hand (a command
  being handled is recorded in RAM and was signed for this boot), `ActedOnce` and
  `BootsKnown`; it gives `AtMostOnce` with unreadable slots included, because a ledger
  that is lost is lost at a reset, after which no earlier command is for this boot.
  `RefusedIsOut` (a refused command is recorded, expired or of an earlier boot) gives
  `NothingAfterRefusal`. `Durable` (RAM is the newer of the stored slots; what was
  acted on is recorded in it) gives `ActedIsDurable` and `NothingForgotten`.
- **EvidenceTrailProofs**, from `CapacityAssumption`, `TornAssumption` and
  `EvidenceAssumption`. `QInv` says how RAM and flash are related: every record of the
  ring is in its slot and not newer than the metadata in use (`Held`), that metadata
  describes the ring up to a record at which loading stopped (`ActiveAgrees`), and the
  other metadata is older, or one generation ahead and one operation away
  (`OtherSettled`, `OtherInDoubt`). The lemmas on loading turn this into what `begin()`
  finds: the ring, the ring with one more, or with one less. `TrailInv` adds that
  between the two writes of a push nothing else touches the queue (`PushIntact`) and what
  each job has in hand (`JobIntact`). From it: `ETypeOK`, `QueueSound` and the refinement
  `Spec => FifoSpec`. `KeepInv` puts the rest of the firmware around it:
  what loopTask is accepting is what `drain()` looks at or a terminal raised by the manager
  itself (`InHand`); a restart seals the sink before it empties it and the outbox after that
  (`RestartInOrder`); without a gap every event raised is accepted, in the sink, in hand or
  quarantined (`Accounted`); and `InPlace`: what is queued was accepted (`Known`), what was
  accepted and is neither received nor lost is in the ring or the outbox (`Complete`), the
  outbox begins with what the RTC image holds, its terminals among it (`Retained`), and all
  of it is in the order of acceptance (`Ordered`), the flash as a reset would find it
  included. From it: `EvidenceIsKept` and `CleanIsDurable`.
- **AclDeliveryProofs**, from `AclAssumption`. A snapshot is *fresh* as long as nothing it
  lets in has lost its authorisation. Whatever withdraws an authorisation also makes a new
  revision of the job, without an artifact. So the artifact a job has, what is being
  published for the revision the job still has, and, when there is no job, everything the
  Target may hold are fresh, they and every later version. Each of the three hands this on
  to the next, and `RevocationIsPursued` is its last part. `BootRefreshIsNew` needs that
  the version a boot refresh sends was allocated after everything the Target has seen.
- **TargetStatusProofs**, from `StatusAssumption`. The two properties are inductive together
  with the types of everything that carries a status and with `Held`: a timer runs only in a
  process that is not stopping, and a connection that was lost has left its will. What is
  shown online has a timer of this connection, a shutdown or a writer with a word yet to
  say, or the broker's will, or was published late (`OnlineIsGuarded`); every status in use
  is of this connection, every command bound to the boot it was accepted on
  (`EvidenceIsCurrent`). That a publication may be late is not assumed away: the theorem
  holds of every behaviour, and `late` is what the code does not exclude.
- **EventCollectorProofs**, from `CollectorAssumption`. `StoreInv` follows an event from the
  journal to the history (what is in the journal or the queue is the Target's own or is
  refused, what is announced is stored), `AnnounceInv` a row of the outbox through the
  broker: it is handed over only when every row before it is marked, and marked only when
  the broker has routed it under the present generation. From them: `HistoryIsGenuine` and
  `AnnouncedInTurn`.
- **OperationsProofs**, from `PartsAssumption`. One inductive invariant for each part, which
  its steps keep and every other part's leave alone.
  - `PublicationInv`: a run has settled what the bytes it publishes are before anything
    points at them, what it replaces was kept first, and what it has read of the primary
    directory is there still unless an upload came. `PublishedIsWhole`,
    `PublicationMovesForward`.
  - `EnrollmentInv`: a row that is free is blank, a handler in the middle of its work still
    names a key that is registered, and a key whose deletion has revoked it is not live again
    unless a late approval has revived it. `KeyHasItsAccount`, `TenantIsKept`.
  - `ControlInv`: what permits an effect is spent in the transaction that precedes it, and
    only the handler that spent it may publish; a permit is unspent, or in the hands of one
    handler, or gone. `EffectsHappenOnce`, and with what each step leaves in the audit,
    `EffectIsAccountable`.
  - `ActivationInv`: a service that is down has an item in the record that a rollback would
    read, with its original under the backup's name or its own; the journal names it before
    it is stopped and goes only when `current.json` tells the same or both are up.
    `WayBack`.
  - `AdoptionInv`: while Home Assistant is down and the adoption undecided, the worker is on
    its way, or the watchdog has yet to act, or an actor is inside a restore that starts it.
    `AdoptionIsSafe`.
  - `MaintenanceInv`: who holds `queue.lock` is the only one who may start a script, a worker
    that has had its turn is one `live()` finds or is loose, and while no loose one has had
    it, the journal and the daemon tell how far the attempt has come. `MaintenanceIsSafe`,
    with alarms anywhere.
  - `MonitorInv`: the file's pending notices are the last ones raised, and what the owner was
    sent is all that came before, in that order. `OwnerIsTold`.
  - `PublisherInv`: a slot, an attempt and the probe each have one thread, and a breaker that
    is half open has a probe that will settle it. `PublisherIsSafe`.
  - `BackupInv`: a bundle's inventory is that of its source, and a restore compares with the
    inventory of a bundle that exists. `PassLosesNothing`.
  - `ViewInv`: whatever can be told of a session, queued, on the air, stored or in memory, is
    the end that session had, its phases included: only a session that was cut off has the
    failsafe's. `AnswerIsTrue`.
  - `StreamInv`: what an event has left to wait for are its predecessors that are not in the
    order, so it enters when it waits for none, and then all it follows is in the order,
    because the nearest of them is. That is `OrderIsCausal`, the first half of
    `StreamIsJudged`. For the second half, `VerdictIsEarned`, the recursive functions with
    which the model goes back over causes and chooses a chain are shown to exist
    (`StepsHaveAFunction`); their layers grow until they stop (`LayersEnd`), so the ancestors
    of an event are the least set that holds its past, and an event chosen for a chain is
    before the next one (`ChainIsBefore`), the proof before the relay and the installation
    before the boot. Two more facts about the ordering have no run of
    their own: exactly one ready event comes next (`OrderIsDetermined`), which is what makes
    the order "a deterministic topological order", and a stream is refused for its order only
    if some of its events follow each other in a circle (`RefusalMeansACircle`).

  Each of these was a TLC invariant of the `operations` instance (or of a larger one of its
  part) before it was proved. Where an argument goes over the numbers, as over the versions
  of `BackupRestore` or the layers of ancestors of `EventStream`, it takes a least number
  (often that of a least counterexample), whose existence follows from the well-foundedness
  of `<` on the naturals (`LeastNumber`), and no induction.

Only model-checked: the six liveness properties (`GateRecovers`, `RestartHappens`,
`TerminalDelivered`, `JobsAreWorked`, `EverythingAnnounced`, `SilenceIsShown`), since
fairness is beyond the proof system. Every invariant, action property and refinement that
a passing run checks is a theorem.

## 5. What is not modelled

- **Firmware**: the flash slots of `TargetAclManager` and of the OTA version floor (the
  two-slot argument of `CommandLedgerProofs` is the same), the epoch arithmetic of
  `AccessCriticalLeasePolicy` (its expiry is a choice in `GattSession`), the socket lease
  of the three MQTT workers, `NetworkRecovery`, the health window of OTA, the wrap of the
  32-bit clock. Configuration commands are in `CommandLedger` and its proofs but not in
  the run.
- **Backend**: reports and queries, family invitations, discovery documents, retention of
  logs, the HTTP layer and its schemas.
- **A granted key and a waiting artifact**: the first start of a phone leaves a job of the
  door with the artifact it has (`acl_management.py:1230`). `Bootstrap` of `AclDelivery` is
  that step; no property asks for the grant to arrive, since a late grant denies and the
  lease refresh repairs it.
- **Phone**: the Kotlin worker and BLE wake run under Android's own scheduling, which is
  not in the repository; `GattSession` takes a phone that may do anything at any time.
- **Scripts**: the validators of workflow files, contracts and test vectors in
  `ota_contract_gate.py` and `ops_commercial_gate.py` are pure checks of text without
  state.
- Cryptography and parsing (their verdict is an input), image streaming and
  verification (I/O), screens, command lines, and the wire formats, which no property
  here is about.
