------------------------------ MODULE AccessFsm ------------------------------
(***************************************************************************)
(* The access state machine of the door controller and the relay it drives *)
(* (src/src/TargetAccessFsm.cpp and the relay half of src/src/main.cpp).   *)
(*                                                                         *)
(* Two tasks touch the relay.  loopTask owns the state machine: each       *)
(* iteration first looks at the relay deadline ("head", "cutoff", "tick")  *)
(* and then serves its callers ("serve").  The esp_timer task owns nothing *)
(* but the cutoff callback, which may preempt loopTask between any two     *)
(* steps and turns the output off without telling the state machine.       *)
(*                                                                         *)
(* Time is discrete.  A millisecond timestamp is kept as the time elapsed  *)
(* since it was taken ("age"), saturating at MaxAge, so the code's         *)
(* now - start comparisons are comparisons of ages and the 32-bit wrap of  *)
(* millis() is not visible.  Everything between two readings of millis()   *)
(* in the head of the loop takes no time.                                  *)
(*                                                                         *)
(* The serve step lets any admissible caller act in any order.  The module *)
(* PassageGate restricts the callers to the ones the firmware has.         *)
(***************************************************************************)
EXTENDS Integers

CONSTANTS
  RelayHold,     (* RELAY_HOLD_MS                                          *)
  FailsafeGrace, (* RELAY_FAILSAFE_GRACE_MS                                *)
  Cooldown,      (* g_relay_cooldown_ms                                    *)
  AuthTimeout,   (* GATT_AUTH_PENDING_TIMEOUT_MS                           *)
  ArmDurations,  (* the arm durations a caller may ask for                 *)
  MaxAge,        (* ages saturate here: past every limit they are compared with *)
  TimerMayFail   (* can Ticker::once_ms fail to start the cutoff timer?    *)

ASSUME TimingAssumption ==
  /\ RelayHold \in Nat \ {0}
  /\ FailsafeGrace \in Nat
  /\ Cooldown \in Nat \ {0}
  /\ AuthTimeout \in Nat \ {0}
  /\ ArmDurations \subseteq Nat \ {0}
  /\ MaxAge \in Nat
  /\ RelayHold + FailsafeGrace <= MaxAge
  /\ Cooldown <= MaxAge
  /\ AuthTimeout <= MaxAge
  /\ \A d \in ArmDurations : d <= MaxAge
  /\ TimerMayFail \in BOOLEAN

GateState == {"IDLE", "AUTH_PENDING", "ARMED", "RELAY_HOLD", "COOLDOWN"}

VARIABLES
  state,            (* TargetAccessFsm::state_                             *)
  isArmed,          (* is_armed_                                           *)
  localSensorWait,  (* local_sensor_wait_                                  *)
  relayOn,          (* relay_on_: what the state machine last commanded    *)
  age,              (* elapsed since state_start_ms_ (= pre_arm_start_ms_ while ARMED) *)
  limit,            (* pre_arm_duration_ms_                                *)
  pin,              (* RelayController::isOn(): the physical output        *)
  onAge,            (* elapsed since relayActivatedMs                      *)
  deadlineActive,   (* relayDeadlineActive                                 *)
  timerTriggered,   (* relayTimerTriggered                                 *)
  timerArmed,       (* the cutoff one-shot is pending in the esp_timer task *)
  pc,               (* where loopTask is in loop()                         *)
  offAge,           (* history: elapsed since the output last went off     *)
  unreported        (* history: pulses whose door_close event is still due *)

fsmVars   == <<state, isArmed, localSensorWait, relayOn, age, limit>>
relayVars == <<pin, onAge, deadlineActive, timerTriggered, timerArmed>>
history   == <<offAge, unreported>>
vars      == <<fsmVars, relayVars, history, pc>>

Init ==
  /\ state = "IDLE" /\ isArmed = FALSE /\ localSensorWait = FALSE
  /\ relayOn = FALSE /\ age = 0 /\ limit = 0
  /\ pin = FALSE /\ onAge = 0 /\ deadlineActive = FALSE
  /\ timerTriggered = FALSE /\ timerArmed = FALSE
  /\ offAge = MaxAge /\ unreported = 0
  /\ pc = "head"

-----------------------------------------------------------------------------
(* The relay driver.                                                       *)

(* relayOn(): an output that is already on keeps its deadline. *)
DriveOn ==
  IF pin
  THEN UNCHANGED relayVars
  ELSE /\ pin' = TRUE /\ onAge' = 0
       /\ deadlineActive' = TRUE /\ timerTriggered' = FALSE
       /\ timerArmed' \in BOOLEAN /\ (TimerMayFail \/ timerArmed')

(* relayOff(): detach the one-shot, output off, both flags cleared. *)
DriveOff ==
  /\ pin' = FALSE /\ deadlineActive' = FALSE
  /\ timerTriggered' = FALSE /\ timerArmed' = FALSE
  /\ UNCHANGED onAge

NoteOff  == offAge' = IF pin THEN 0 ELSE offAge

(* forceRelayOffFromTimer(), in the esp_timer task, at any point of loop(). *)
RelayTimerFires ==
  /\ timerArmed /\ onAge >= RelayHold
  /\ pin' = FALSE /\ deadlineActive' = FALSE
  /\ timerTriggered' = TRUE /\ timerArmed' = FALSE
  /\ NoteOff
  /\ UNCHANGED <<fsmVars, onAge, unreported, pc>>

-----------------------------------------------------------------------------
(* The state machine's own transitions.                                    *)

Holding == state = "RELAY_HOLD" /\ relayOn

(* completeRelayHold(), past its guard: reports one door_close event. *)
CompleteRelayHold ==
  /\ state' = "COOLDOWN" /\ age' = 0
  /\ relayOn' = FALSE /\ isArmed' = FALSE
  /\ DriveOff /\ NoteOff
  /\ unreported' = unreported - 1
  /\ UNCHANGED <<limit, localSensorWait>>

(* Every way into RELAY_HOLD. *)
EnterRelayHold ==
  /\ state' = "RELAY_HOLD" /\ age' = 0
  /\ isArmed' = FALSE /\ relayOn' = TRUE
  /\ DriveOn
  /\ unreported' = unreported + 1
  /\ UNCHANGED <<limit, offAge>>

BackToIdle ==
  /\ state' = "IDLE" /\ isArmed' = FALSE /\ age' = 0
  /\ UNCHANGED <<limit, relayOn>>

(* Mutants of TimedOut: one state without its timeout. *)

TimedOutExceptPending ==
  \/ state = "ARMED" /\ age >= limit
  \/ state = "RELAY_HOLD" /\ age >= RelayHold
  \/ state = "COOLDOWN" /\ age >= Cooldown

(* tick(): the four timeouts. *)
TimedOut ==
  \/ state \in {"AUTH_PENDING", "ARMED"} /\ age >= limit
  \/ state = "RELAY_HOLD" /\ age >= RelayHold
  \/ state = "COOLDOWN" /\ age >= Cooldown

FsmTick ==
  IF ~TimedOut
  THEN UNCHANGED <<fsmVars, relayVars, history>>
  ELSE IF state = "RELAY_HOLD"
       THEN CompleteRelayHold
       ELSE BackToIdle /\ UNCHANGED <<localSensorWait, relayVars, history>>

-----------------------------------------------------------------------------
(* The head of loop().                                                     *)

(* The cutoff callback ran: let the state machine record the completion. *)
LoopTimerFlag ==
  /\ pc = "head" /\ pc' = "cutoff"
  /\ IF timerTriggered /\ Holding
     THEN CompleteRelayHold
     ELSE /\ timerTriggered' = FALSE
          /\ UNCHANGED <<fsmVars, pin, onAge, deadlineActive, timerArmed, history>>

(* Neither the callback nor the tick ended the hold in time: force it off. *)
LoopFailsafe ==
  /\ pc = "cutoff" /\ pc' = "tick"
  /\ IF deadlineActive /\ onAge >= RelayHold + FailsafeGrace
     THEN IF Holding
          THEN CompleteRelayHold
          ELSE DriveOff /\ NoteOff /\ UNCHANGED <<fsmVars, unreported>>
     ELSE UNCHANGED <<fsmVars, relayVars, history>>

LoopTick ==
  /\ pc = "tick" /\ pc' = "serve"
  /\ FsmTick

LoopEnd ==
  /\ pc = "serve" /\ pc' = "head"
  /\ UNCHANGED <<fsmVars, relayVars, history>>

-----------------------------------------------------------------------------
(* What loopTask's callers ask of the state machine.  A call whose guard   *)
(* fails returns false and changes nothing.                                *)

Serving == pc = "serve" /\ UNCHANGED pc

HandleAuthPending ==
  /\ Serving
  /\ state = "IDLE" /\ ~relayOn
  /\ state' = "AUTH_PENDING" /\ isArmed' = FALSE /\ age' = 0
  /\ limit' = AuthTimeout
  /\ UNCHANGED <<localSensorWait, relayOn, relayVars, history>>

HandleAuthSuccess(d) ==
  /\ Serving
  /\ state = "AUTH_PENDING" /\ ~relayOn
  /\ state' = "ARMED" /\ isArmed' = TRUE /\ localSensorWait' = TRUE
  /\ age' = 0 /\ limit' = d
  /\ UNCHANGED <<relayOn, relayVars, history>>

HandleLocalManualOpen ==
  /\ Serving
  /\ state = "AUTH_PENDING" /\ ~relayOn
  /\ EnterRelayHold /\ UNCHANGED localSensorWait

HandleAuthAbort ==
  /\ Serving
  /\ state = "AUTH_PENDING"
  /\ BackToIdle
  /\ UNCHANGED <<localSensorWait, relayVars, history>>

HandlePreArm(d) ==
  /\ Serving
  /\ state = "IDLE" /\ ~relayOn
  /\ state' = "ARMED" /\ isArmed' = TRUE /\ localSensorWait' = FALSE
  /\ age' = 0 /\ limit' = d
  /\ UNCHANGED <<relayOn, relayVars, history>>

HandleManualRemoteOpen ==
  /\ Serving
  /\ state = "IDLE" /\ ~relayOn
  /\ EnterRelayHold /\ UNCHANGED localSensorWait

(* supersedeArmedForManual() and then handleManualRemoteOpen(), run as one *)
(* exclusive operation: the automatic session becomes a manual pulse.      *)
SupersedeAndOpen ==
  /\ Serving
  /\ state = "ARMED" /\ isArmed /\ localSensorWait /\ ~relayOn /\ ~pin
  /\ EnterRelayHold /\ localSensorWait' = FALSE

HandleSensorTrigger ==
  /\ Serving
  /\ state = "ARMED" /\ isArmed /\ age < limit
  /\ EnterRelayHold /\ UNCHANGED localSensorWait

(* Mutant of PhysicalAccessActive: the rest after a pulse is not an access. *)
PhysicalExceptCooldown == state \in {"ARMED", "RELAY_HOLD"} \/ pin

(* isVerifiedPhysicalAccessActive() *)
PhysicalAccessActive == state \in {"ARMED", "RELAY_HOLD", "COOLDOWN"} \/ pin

(* enforceAccessCriticalLease() on an expired unverified lease: cleanupToIdle(). *)
UnverifiedCleanup ==
  /\ Serving
  /\ ~PhysicalAccessActive
  /\ state' = "IDLE" /\ isArmed' = FALSE /\ age' = 0 /\ relayOn' = FALSE
  /\ DriveOff /\ NoteOff
  /\ UNCHANGED <<limit, localSensorWait, unreported>>

(* currentOtaSafeState(): the OTA owner lets a session that is over expire. *)
OtaSafeTick == Serving /\ FsmTick

(* A reset of the chip, from setup() on: power loss, watchdog, or one of   *)
(* the controlled restarts.                                                *)
Restart ==
  /\ pc' = "head"
  /\ state' = "IDLE" /\ isArmed' = FALSE /\ localSensorWait' = FALSE
  /\ relayOn' = FALSE /\ age' = 0 /\ limit' = 0
  /\ pin' = FALSE /\ onAge' = 0 /\ deadlineActive' = FALSE
  /\ timerTriggered' = FALSE /\ timerArmed' = FALSE
  /\ offAge' = MaxAge /\ unreported' = 0

-----------------------------------------------------------------------------
(* One unit of time.  A pending one-shot fires when it is due: it is held  *)
(* up by no lower-priority task.  No time passes inside the loop's head.   *)
Older(a) == IF a < MaxAge THEN a + 1 ELSE a

TimeMayPass ==
  /\ pc \in {"head", "serve"}
  /\ ~(timerArmed /\ onAge >= RelayHold)

Tick ==
  /\ TimeMayPass
  /\ age' = Older(age) /\ onAge' = Older(onAge) /\ offAge' = Older(offAge)
  /\ UNCHANGED <<state, isArmed, localSensorWait, relayOn, limit, pin,
                 deadlineActive, timerTriggered, timerArmed, unreported, pc>>

LoopStep == LoopTimerFlag \/ LoopFailsafe \/ LoopTick \/ LoopEnd

Call ==
  \/ HandleAuthPending
  \/ \E d \in ArmDurations : HandleAuthSuccess(d)
  \/ HandleLocalManualOpen
  \/ HandleAuthAbort
  \/ \E d \in ArmDurations : HandlePreArm(d)
  \/ HandleManualRemoteOpen
  \/ SupersedeAndOpen
  \/ HandleSensorTrigger
  \/ UnverifiedCleanup
  \/ OtaSafeTick

Next == LoopStep \/ Call \/ RelayTimerFires \/ Restart \/ Tick

Spec == Init /\ [][Next]_vars

(* No behaviour squeezes infinitely many steps into one instant, the timer *)
(* task runs when it is due, and the head of loop(), which calls nothing   *)
(* that blocks, is finished once begun.  loopTask may be stuck in "serve". *)
TimerFairness ==
  /\ SF_vars(Tick) /\ WF_vars(RelayTimerFires)
  /\ WF_vars(LoopFailsafe) /\ WF_vars(LoopTick)

(* loop() is called again and again (the loop watchdog resets the chip     *)
(* otherwise, which is a Restart).                                         *)
LoopFairness == WF_vars(LoopTimerFlag) /\ WF_vars(LoopEnd)

-----------------------------------------------------------------------------
(* Properties.                                                             *)

FlagsOK ==
  /\ isArmed \in BOOLEAN /\ localSensorWait \in BOOLEAN /\ relayOn \in BOOLEAN
  /\ pin \in BOOLEAN /\ deadlineActive \in BOOLEAN
  /\ timerTriggered \in BOOLEAN /\ timerArmed \in BOOLEAN

ValuesOK ==
  /\ state \in GateState
  /\ pc \in {"head", "cutoff", "tick", "serve"}
  /\ age \in 0..MaxAge /\ limit \in 0..MaxAge
  /\ onAge \in 0..MaxAge /\ offAge \in 0..MaxAge
  /\ unreported \in 0..1

(* Every variable keeps to its type. *)
TypeOK == FlagsOK /\ ValuesOK

(* Whatever the order of the cutoff callback, the failsafe check, the tick *)
(* and the callers, an energised output always has someone who will turn   *)
(* it off: the state machine is holding it, the loop's failsafe watches it *)
(* and, where the one-shot could be started, the one-shot is still pending.*)
CutoffScheduled ==
  pin => /\ Holding
         /\ deadlineActive
         /\ TimerMayFail \/ timerArmed

(* With a working one-shot the output is never on for longer than          *)
(* RELAY_HOLD_MS, even while loopTask is stuck in a caller.                *)
OnTimeBounded == ~TimerMayFail /\ pin => onAge <= RelayHold

(* Each pulse is reported closed exactly once, although the one-shot, the  *)
(* tick and the failsafe may each be the one to end it: the close is due   *)
(* while the machine is in RELAY_HOLD, and only then.                      *)
CloseReportedOnce == unreported = IF state = "RELAY_HOLD" THEN 1 ELSE 0

(* Within one boot the output rests for the whole cooldown between two     *)
(* pulses, counted from when it physically went off - which the one-shot   *)
(* may do long before loopTask notices and enters COOLDOWN.                *)
PulseSpacing == [][~pin /\ pin' => offAge >= Cooldown]_vars

(* One pass through the head of the loop is enough to end a pulse that is  *)
(* overdue, even when the one-shot was never started.                      *)
OverdueCut == [][pc = "tick" /\ pc' = "serve" => ~(pin' /\ onAge' >= RelayHold)]_vars

(* Liveness: with a working one-shot every pulse ends, even if loopTask    *)
(* never comes back to its head.                                           *)
PulseEnds == pin ~> ~pin

(* Liveness: every pulse ends even if loopTask never comes back to its     *)
(* head, and while the loop runs the gate is IDLE again and again,         *)
(* whatever the callers do.                                                *)
GateRecovers == PulseEnds /\ (LoopFairness => []<>(state = "IDLE"))

(* The state machine and its relay keep the promise of a DoorPromise: a    *)
(* pulse is bounded, starts only from a rested output and consumes the     *)
(* authorisation that was waiting for the sensor.                          *)
Door == INSTANCE DoorPromise WITH
  Hold <- RelayHold, Rest <- Cooldown,
  lit <- pin, litAge <- onAge, darkAge <- offAge, waiting <- (state = "ARMED")

DoorSpec == Door!Spec
=============================================================================
