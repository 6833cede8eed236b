----------------------------- MODULE PassageGate -----------------------------
(***************************************************************************)
(* Who may arm the gate automatically, and what the passage sensor must    *)
(* have seen before it may open the door: the state machine of AccessFsm   *)
(* driven by loopTask's real callers in src/src/main.cpp, with the         *)
(* clearance latch and the retry budget of PassageRearmPolicy.h and the    *)
(* median filter of UltrasonicSensor.cpp.                                  *)
(*                                                                         *)
(* A reading is reduced to what the decisions tell apart: "near" (at or    *)
(* under the threshold), "band" (within 10 cm above it), "clear" (beyond)  *)
(* and "none" (no or an implausible echo); the poll cadence only limits    *)
(* how often a reading is taken.  Whether the ACL lease is valid and OTA   *)
(* is idle is an input of every call that asks.                            *)
(***************************************************************************)
EXTENDS AccessFsm, FiniteSets

CONSTANTS
  ArmConfigured,  (* g_pre_arm_duration_ms                                 *)
  BlockedArm,     (* kBlockedArmMs                                         *)
  IdleYield,      (* kIdleYieldMs                                          *)
  RetryQuiet,     (* kRetryQuietMs                                         *)
  Window,         (* readings in the median filter: 5                      *)
  ClearNeeded     (* consecutive clear readings that end an episode: 3     *)

ASSUME PassageAssumption ==
  /\ {ArmConfigured, BlockedArm} \subseteq ArmDurations
  /\ IdleYield \in Nat /\ RetryQuiet \in Nat
  /\ IdleYield <= RetryQuiet /\ RetryQuiet <= MaxAge
  /\ Window \in Nat \ {0} /\ ClearNeeded \in Nat \ {0}
  /\ 2 * ClearNeeded > Window

Reading == {"near", "band", "clear", "none"}

VARIABLES
  window,      (* UltrasonicSensor::history, oldest first: was the reading near? *)
  blocked,     (* PassageRearmPolicy::blocked_                             *)
  clears,      (* clear_samples_                                           *)
  waiting,     (* PresenceReadyPolicy::waiting_                            *)
  ready,       (* ready_                                                   *)
  retryQuiet,  (* retry_quiet_                                             *)
  idleAge,     (* elapsed since since_                                     *)
  admitted,    (* automaticAuthAdmitted                                    *)
  clearRun,    (* history: consecutive clear readings since the last pulse, up to ClearNeeded *)
  episodeOver, (* history: ClearNeeded of them in a row were seen since the last pulse *)
  nearSeen,    (* history: near readings of this ARMED session             *)
  armAge,      (* history: elapsed since the last automatic arm            *)
  armForgiven  (* history: a blocked passage was confirmed clear since then *)

rearmVars    == <<blocked, clears>>
presenceVars == <<waiting, ready, retryQuiet, idleAge>>
ghosts       == <<clearRun, episodeOver, nearSeen, armAge, armForgiven>>
passageVars  == <<window, rearmVars, presenceVars, admitted, ghosts>>
allVars      == <<vars, passageVars>>

NoReadings == [i \in 1..Window |-> FALSE]

PInit ==
  /\ Init
  /\ window = NoReadings
  /\ blocked = FALSE /\ clears = 0
  /\ waiting = FALSE /\ ready = FALSE /\ retryQuiet = FALSE /\ idleAge = 0
  /\ admitted = FALSE
  /\ clearRun = 0 /\ episodeOver = TRUE /\ nearSeen = 0
  /\ armAge = MaxAge /\ armForgiven = TRUE

-----------------------------------------------------------------------------
(* PresenceReadyPolicy.                                                    *)

GateIdle == state = "IDLE" /\ ~pin

(* update(now, idle), with retry_quiet_ = quiet: is the next automatic     *)
(* attempt admitted?  An interruption starts the quiet interval again.     *)
IdleFor == IF waiting THEN idleAge ELSE 0

Admits(idle, quiet) ==
  idle /\ (ready \/ IdleFor >= IF quiet THEN RetryQuiet ELSE IdleYield)

UpdatePresence(idle, quiet) ==
  /\ waiting' = idle
  /\ ready' = Admits(idle, quiet)
  /\ idleAge' = IF idle THEN IdleFor ELSE idleAge

(* Mutant of NoteAutomaticArm: the attempt costs no budget. *)
NoteArmForFree == waiting' = FALSE /\ ready' = FALSE /\ UNCHANGED <<retryQuiet, idleAge>>

NoteAutomaticArm == retryQuiet' = TRUE /\ waiting' = FALSE /\ ready' = FALSE /\ UNCHANGED idleAge

(* armDurationMs(): a blocked passage is waited for at most BlockedArm. *)
ArmDurationMs == IF blocked /\ ArmConfigured > BlockedArm THEN BlockedArm ELSE ArmConfigured

(* Mutant of ResetReadings: the filter keeps the previous person's readings. *)
KeepReadings == UNCHANGED window

(* UltrasonicSensor::resetHistory() *)
ResetReadings == window' = NoReadings

(* What every automatic session does beside arming the state machine. *)
SessionArmed ==
  /\ NoteAutomaticArm
  /\ ResetReadings
  /\ nearSeen' = 0 /\ armAge' = 0 /\ armForgiven' = FALSE
  /\ UNCHANGED <<rearmVars, clearRun, episodeOver>>

-----------------------------------------------------------------------------
(* PassageRearmPolicy.                                                     *)

(* notePulse(), called by the relay driver as the output goes on. *)
NotePulse == blocked' = TRUE /\ clears' = 0 /\ clearRun' = 0 /\ episodeOver' = FALSE

(* Mutant of Observed: an invalid echo leaves the streak alone. *)
ObservedIgnoringNone(r) ==
  LET n == IF r = "clear" THEN clears + 1 ELSE IF r = "none" THEN clears ELSE 0
  IN  IF blocked /\ n < ClearNeeded
      THEN [blocked |-> TRUE, clears |-> n] ELSE [blocked |-> FALSE, clears |-> 0]

(* observeDistance(): only an unbroken run of valid, far readings clears. *)
Observed(r) ==
  LET n == IF r = "clear" THEN clears + 1 ELSE 0
  IN  IF blocked /\ n < ClearNeeded
      THEN [blocked |-> TRUE, clears |-> n] ELSE [blocked |-> FALSE, clears |-> 0]

(* The same readings, kept for the properties. *)
Witness(r) ==
  LET n == IF r # "clear" THEN 0 ELSE IF clearRun < ClearNeeded THEN clearRun + 1 ELSE clearRun
  IN  clearRun' = n /\ episodeOver' = (episodeOver \/ n = ClearNeeded)

(* The rest of the pass: noteConfirmedClearance() when the passage was      *)
(* blocked before it and is not any more, then update().                   *)
FinishPass(ok) ==
  LET cleared == blocked /\ ~blocked'
  IN  /\ retryQuiet' = (retryQuiet /\ ~cleared)
      /\ armForgiven' = (armForgiven \/ cleared)
      /\ UpdatePresence(state' = "IDLE" /\ ~pin' /\ ok, retryQuiet')
      /\ UNCHANGED <<admitted, armAge>>

-----------------------------------------------------------------------------
(* The sensor pass of loop().  Here and below ok says that OTA is idle and *)
(* the ACL lease is valid, as the caller asks.                             *)

(* readDistanceCm(): the reading replaces the oldest one in the filter. *)
Pushed(r) == [i \in 1..Window |-> IF i < Window THEN window[i + 1] ELSE r = "near"]

(* The median is at or under the threshold; no echo sorts as far away. *)
MedianNear(w) == 2 * Cardinality({i \in 1..Window : w[i]}) > Window

(* median <= threshold and not blocked, once r has been taken in *)
OpensOn(r) == MedianNear(Pushed(r)) /\ ~Observed(r).blocked

(* ARMED: sample, update the latch, perhaps open.  handleSensorTrigger()   *)
(* refuses once the arm window is over.                                    *)
SampleArmed(r, ok) ==
  /\ pc = "serve" /\ state = "ARMED"
  /\ window' = Pushed(r)
  /\ nearSeen' = IF r = "near" /\ nearSeen < Window THEN nearSeen + 1 ELSE nearSeen
  /\ IF OpensOn(r) /\ age < limit
     THEN HandleSensorTrigger /\ NotePulse
     ELSE /\ UNCHANGED vars
          /\ blocked' = Observed(r).blocked /\ clears' = Observed(r).clears
          /\ Witness(r)
  /\ FinishPass(ok)

(* IDLE and COOLDOWN: raw readings for the latch only. *)
SampleResting(r, ok) ==
  /\ pc = "serve" /\ state \in {"IDLE", "COOLDOWN"}
  /\ blocked' = Observed(r).blocked /\ clears' = Observed(r).clears
  /\ Witness(r)
  /\ UNCHANGED <<vars, window, nearSeen>>
  /\ FinishPass(ok)

(* A pass in which no sample is due. *)
PassWithoutSample(ok) ==
  /\ pc = "serve"
  /\ UNCHANGED <<vars, window, rearmVars, clearRun, episodeOver, nearSeen>>
  /\ FinishPass(ok)

-----------------------------------------------------------------------------
(* The callers that begin and end a session.                               *)

(* triggerArm(), for the signed pre-arm command. *)
TriggerArm(ok) ==
  /\ pc = "serve"
  /\ admitted' = admitted
  /\ IF Admits(GateIdle /\ ok, retryQuiet)
     THEN HandlePreArm(ArmDurationMs) /\ SessionArmed
     ELSE /\ UpdatePresence(GateIdle /\ ok, retryQuiet)
          /\ UNCHANGED <<vars, window, rearmVars, retryQuiet, ghosts>>

(* The GATT callback for a new challenge: admission is captured now and    *)
(* used when the proof arrives; the session may still open manually.       *)
OnAuthPending(ok) ==
  /\ pc = "serve"
  /\ admitted' = Admits(GateIdle /\ ok, retryQuiet)
  /\ UpdatePresence(GateIdle /\ ok, retryQuiet)
  /\ IF state = "IDLE" /\ ~relayOn THEN HandleAuthPending ELSE UNCHANGED vars
  /\ UNCHANGED <<window, rearmVars, retryQuiet, ghosts>>

(* The callback for a verified proof that asks for the sensor. *)
OnAuthGrantArm ==
  /\ pc = "serve" /\ admitted /\ admitted' = FALSE
  /\ IF state = "AUTH_PENDING" /\ ~relayOn
     THEN HandleAuthSuccess(ArmDurationMs) /\ SessionArmed
     ELSE UNCHANGED <<vars, window, rearmVars, presenceVars, ghosts>>

(* A pulse nobody has to pass the sensor for. *)
ManualPulse ==
  /\ HandleLocalManualOpen \/ HandleManualRemoteOpen \/ SupersedeAndOpen
  /\ NotePulse
  /\ UNCHANGED <<window, presenceVars, admitted, nearSeen, armAge, armForgiven>>

OnAuthAbort ==
  /\ pc = "serve" /\ admitted' = FALSE
  /\ IF state = "AUTH_PENDING" THEN HandleAuthAbort ELSE UNCHANGED vars
  /\ UNCHANGED <<window, rearmVars, presenceVars, ghosts>>

-----------------------------------------------------------------------------
PRestart ==
  /\ Restart
  /\ window' = NoReadings
  /\ blocked' = FALSE /\ clears' = 0
  /\ waiting' = FALSE /\ ready' = FALSE /\ retryQuiet' = FALSE /\ idleAge' = 0
  /\ admitted' = FALSE
  /\ clearRun' = 0 /\ episodeOver' = TRUE /\ nearSeen' = 0
  /\ armAge' = MaxAge /\ armForgiven' = TRUE

PTick ==
  /\ Tick
  /\ idleAge' = IF waiting THEN Older(idleAge) ELSE idleAge
  /\ armAge' = Older(armAge)
  /\ UNCHANGED <<window, rearmVars, waiting, ready, retryQuiet, admitted,
                 clearRun, episodeOver, nearSeen, armForgiven>>

(* The steps that do not look at the passage at all. *)
Elsewhere ==
  /\ LoopStep \/ RelayTimerFires \/ UnverifiedCleanup \/ OtaSafeTick
  /\ UNCHANGED passageVars

PNext ==
  \/ Elsewhere
  \/ \E r \in Reading, ok \in BOOLEAN : SampleArmed(r, ok) \/ SampleResting(r, ok)
  \/ \E ok \in BOOLEAN : PassWithoutSample(ok) \/ TriggerArm(ok) \/ OnAuthPending(ok)
  \/ OnAuthGrantArm \/ ManualPulse \/ OnAuthAbort
  \/ PRestart \/ PTick

PSpec == PInit /\ [][PNext]_allVars

(* With the time, the one-shot and the head of loop() going on as in        *)
(* AccessFsm.                                                               *)
LivePSpec == PSpec /\ TimerFairness

-----------------------------------------------------------------------------
(* Properties.                                                             *)

SensorPulse == state = "ARMED" /\ state' = "RELAY_HOLD" /\ localSensorWait' = localSensorWait

(* One occupied passage gets one automatic pulse: whatever opened the door *)
(* last - the sensor or either manual command - ClearNeeded valid, far     *)
(* readings in a row were taken since then, an echo that failed counting   *)
(* for nothing.                                                            *)
OnePulsePerEpisode == [][SensorPulse => episodeOver]_allVars

(* The median never opens on readings of an earlier person: a majority of  *)
(* a whole filter was near in this very session.                           *)
FreshMajority == [][SensorPulse => 2 * nearSeen' > Window]_allVars

(* However the GATT and MQTT callers interleave with the loop, and however *)
(* long a proof takes after its challenge was admitted, two automatic arms *)
(* are RetryQuiet apart unless the passage was confirmed clear in between. *)
RetryBudget ==
  [][state # "ARMED" /\ state' = "ARMED" => armAge >= RetryQuiet \/ armForgiven]_allVars
=============================================================================
