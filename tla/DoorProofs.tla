----------------------------- MODULE DoorProofs -----------------------------
(***************************************************************************)
(* What the door guarantees for every value of its constants.  First of    *)
(* AccessFsm, whoever its callers are: type correctness, the safety        *)
(* invariants, the action properties, and that it implements DoorPromise.  *)
(* Then of PassageGate: its callers are callers AccessFsm allows, so all   *)
(* of that holds of them; the retry budget holds for every choice of the   *)
(* intervals, and what opens the door is what the sensor saw of this       *)
(* person, for every size of the filter.                                   *)
(***************************************************************************)
EXTENDS PassageGate, FiniteSetTheorems, TLAPS

-----------------------------------------------------------------------------
(* The access state machine.                                               *)

(* The state machine's flags are functions of its state. *)
FlagsFollowState ==
  /\ relayOn <=> state = "RELAY_HOLD"
  /\ isArmed <=> state = "ARMED"

(* The relay side: who watches an energised output, and what the one-shot  *)
(* leaves behind for the loop when it has cut it.                          *)
RelayConsistent ==
  /\ pin <=> deadlineActive
  /\ timerArmed => pin
  /\ pin => /\ state = "RELAY_HOLD"
            /\ age = onAge
            /\ TimerMayFail \/ timerArmed
  /\ timerTriggered => state = "RELAY_HOLD" /\ ~pin

(* How long the output has rested in each state. *)
Rested ==
  /\ state \in {"IDLE", "AUTH_PENDING", "ARMED"} => offAge >= Cooldown
  /\ state = "COOLDOWN" => offAge >= age

(* The inductive part beside the types. *)
Core == /\ FlagsFollowState
        /\ RelayConsistent
        /\ Rested
        /\ OnTimeBounded
        /\ CloseReportedOnce

IInv == FlagsOK /\ ValuesOK /\ Core

LEMMA OlderType == ASSUME NEW a \in 0..MaxAge
                   PROVE  /\ Older(a) \in 0..MaxAge
                          /\ Older(a) >= a
                          /\ a < MaxAge => Older(a) = a + 1
  BY TimingAssumption DEF Older

LEMMA InitIInv == Init => IInv
<1> SUFFICES ASSUME Init PROVE IInv
  OBVIOUS
<1>1. FlagsOK
  BY Zenon DEF Init, FlagsOK
<1>2. ValuesOK
  BY TimingAssumption DEF Init, ValuesOK, GateState
<1>3. Core
  BY TimingAssumption
  DEF Init, Core, FlagsFollowState, RelayConsistent, Rested, OnTimeBounded, CloseReportedOnce
<1> QED
  BY <1>1, <1>2, <1>3 DEF IInv

(* Ending a hold, whoever asks for it. *)
LEMMA CompleteKeepsIInv ==
  ASSUME IInv, state = "RELAY_HOLD", CompleteRelayHold, pc' \in {"head", "cutoff", "tick", "serve"}
  PROVE  IInv'
<1> USE DEF IInv, CompleteRelayHold, DriveOff, NoteOff
<1>1. FlagsOK'
  BY Zenon DEF FlagsOK
<1>2. ValuesOK'
  BY TimingAssumption DEF ValuesOK, GateState, Core, CloseReportedOnce
<1>3. Core'
  BY TimingAssumption
  DEF ValuesOK, Core, FlagsFollowState, RelayConsistent, Rested, OnTimeBounded, CloseReportedOnce
<1> QED
  BY <1>1, <1>2, <1>3

(* Beginning a pulse, from any state in which no pulse is running. *)
LEMMA EnterKeepsIInv ==
  ASSUME IInv, state # "RELAY_HOLD", EnterRelayHold, localSensorWait' \in BOOLEAN,
         UNCHANGED pc
  PROVE  IInv'
<1> USE DEF IInv, EnterRelayHold
<1>1. ~pin
  BY DEF Core, RelayConsistent
<1>2. FlagsOK'
  BY <1>1, Zenon DEF FlagsOK, DriveOn
<1>3. ValuesOK'
  BY <1>1, TimingAssumption DEF ValuesOK, GateState, Core, CloseReportedOnce, DriveOn
<1>4. Core'
  BY <1>1, TimingAssumption
  DEF DriveOn, ValuesOK, Core, FlagsFollowState, RelayConsistent, Rested, OnTimeBounded, CloseReportedOnce
<1> QED
  BY <1>2, <1>3, <1>4

(* A state machine step that leaves the relay and the pulse alone: between *)
(* the three states that wait, or out of a cooldown that is over.          *)
LEMMA QuietKeepsIInv ==
  ASSUME IInv, UNCHANGED <<relayOn, relayVars, history>>,
         pc' \in {"head", "cutoff", "tick", "serve"},
         state \in {"IDLE", "AUTH_PENDING", "ARMED"} \/ (state = "COOLDOWN" /\ age >= Cooldown),
         state' \in {"IDLE", "AUTH_PENDING", "ARMED"},
         isArmed' \in BOOLEAN, isArmed' <=> state' = "ARMED",
         localSensorWait' \in BOOLEAN,
         age' = 0, limit' \in 0..MaxAge
  PROVE  IInv'
<1> USE DEF IInv, relayVars, history
<1>1. FlagsOK'
  BY Zenon DEF FlagsOK
<1>2. ValuesOK'
  BY TimingAssumption DEF ValuesOK, GateState
<1>3. Core'
  BY TimingAssumption
  DEF ValuesOK, Core, FlagsFollowState, RelayConsistent, Rested, OnTimeBounded, CloseReportedOnce
<1> QED
  BY <1>1, <1>2, <1>3

LEMMA UnchangedKeepsIInv ==
  ASSUME IInv, UNCHANGED <<fsmVars, relayVars, history>>, pc' \in {"head", "cutoff", "tick", "serve"}
  PROVE  IInv'
<1> USE DEF IInv, fsmVars, relayVars, history
<1>1. FlagsOK'
  BY Zenon DEF FlagsOK
<1>2. ValuesOK'
  BY DEF ValuesOK
<1>3. Core'
  BY DEF Core, FlagsFollowState, RelayConsistent, Rested, OnTimeBounded, CloseReportedOnce
<1> QED
  BY <1>1, <1>2, <1>3

(* cleanupToIdle() where no physical access is active. *)
LEMMA CleanupKeepsIInv == IInv /\ UnverifiedCleanup => IInv'
<1> SUFFICES ASSUME IInv, UnverifiedCleanup PROVE IInv'
  OBVIOUS
<1> USE DEF IInv, UnverifiedCleanup, DriveOff, NoteOff, PhysicalAccessActive, Serving
<1>1. FlagsOK'
  BY Zenon DEF FlagsOK
<1>2. ValuesOK'
  BY TimingAssumption DEF ValuesOK, GateState
<1>3. Core'
  BY TimingAssumption
  DEF ValuesOK, GateState, Core, FlagsFollowState, RelayConsistent, Rested, OnTimeBounded, CloseReportedOnce
<1> QED
  BY <1>1, <1>2, <1>3

-----------------------------------------------------------------------------
(* One lemma per part of Next.                                             *)

LEMMA TimerStep == IInv /\ RelayTimerFires => IInv'
<1> SUFFICES ASSUME IInv, RelayTimerFires PROVE IInv'
  OBVIOUS
<1> USE DEF IInv, RelayTimerFires, NoteOff, fsmVars
<1>1. FlagsOK'
  BY Zenon DEF FlagsOK
<1>2. ValuesOK'
  BY TimingAssumption DEF ValuesOK
<1>3. Core'
  BY TimingAssumption
  DEF ValuesOK, Core, FlagsFollowState, RelayConsistent, Rested, OnTimeBounded, CloseReportedOnce
<1> QED
  BY <1>1, <1>2, <1>3

LEMMA RestartStep == IInv /\ Restart => IInv'
<1> SUFFICES ASSUME IInv, Restart PROVE IInv'
  OBVIOUS
<1> USE DEF IInv, Restart
<1>1. FlagsOK'
  BY Zenon DEF FlagsOK
<1>2. ValuesOK'
  BY TimingAssumption DEF ValuesOK, GateState
<1>3. Core'
  BY TimingAssumption
  DEF ValuesOK, Core, FlagsFollowState, RelayConsistent, Rested, OnTimeBounded, CloseReportedOnce
<1> QED
  BY <1>1, <1>2, <1>3

LEMMA TickStep == IInv /\ Tick => IInv'
<1> SUFFICES ASSUME IInv, Tick PROVE IInv'
  OBVIOUS
<1> USE DEF IInv, Tick
<1>1. FlagsOK'
  BY Zenon DEF FlagsOK
<1>2. ValuesOK'
  BY TimingAssumption DEF ValuesOK, Older
<1>3. (FlagsFollowState /\ RelayConsistent /\ Rested /\ CloseReportedOnce)'
  BY TimingAssumption
  DEF ValuesOK, Core, FlagsFollowState, RelayConsistent, Rested, CloseReportedOnce, Older
<1>4. OnTimeBounded'
  BY TimingAssumption
  DEF ValuesOK, Core, RelayConsistent, OnTimeBounded, TimeMayPass, Older
<1> QED
  BY <1>1, <1>2, <1>3, <1>4 DEF Core

LEMMA TickFsmKeepsIInv ==
  ASSUME IInv, FsmTick, pc' \in {"head", "cutoff", "tick", "serve"}
  PROVE  IInv'
<1>1. CASE ~TimedOut
  BY <1>1, UnchangedKeepsIInv DEF FsmTick
<1>2. CASE TimedOut /\ state = "RELAY_HOLD"
  BY <1>2, CompleteKeepsIInv DEF FsmTick
<1>3. CASE TimedOut /\ state # "RELAY_HOLD"
  <2>1. BackToIdle /\ UNCHANGED <<localSensorWait, relayVars, history>>
    BY <1>3 DEF FsmTick
  <2>2. state \in {"IDLE", "AUTH_PENDING", "ARMED"} \/ (state = "COOLDOWN" /\ age >= Cooldown)
    BY <1>3 DEF TimedOut, IInv, ValuesOK, GateState
  <2>3. localSensorWait' \in BOOLEAN
    BY <2>1, Zenon DEF IInv, FlagsOK
  <2>4. limit' \in 0..MaxAge
    BY <2>1 DEF IInv, ValuesOK, BackToIdle
  <2> QED
    BY <2>1, <2>2, <2>3, <2>4, QuietKeepsIInv DEF BackToIdle
<1> QED
  BY <1>1, <1>2, <1>3

LEMMA LoopKeepsIInv == IInv /\ LoopStep => IInv'
<1> SUFFICES ASSUME IInv, LoopStep PROVE IInv'
  OBVIOUS
<1> DEFINE Points == {"head", "cutoff", "tick", "serve"}
<1>1. CASE LoopTimerFlag
  <2>1. pc' \in Points
    BY <1>1 DEF LoopTimerFlag
  <2>2. CASE timerTriggered /\ Holding
    BY <1>1, <2>1, <2>2, CompleteKeepsIInv DEF LoopTimerFlag, Holding
  <2>3. CASE ~(timerTriggered /\ Holding)
    <3>1. ~timerTriggered
      BY <2>3 DEF IInv, Core, FlagsFollowState, RelayConsistent, Holding
    <3>2. timerTriggered' = FALSE /\ UNCHANGED <<fsmVars, pin, onAge, deadlineActive, timerArmed, history>>
      BY <1>1, <2>3 DEF LoopTimerFlag
    <3>3. UNCHANGED <<fsmVars, relayVars, history>>
      BY <3>1, <3>2, Zenon DEF relayVars, IInv, FlagsOK
    <3> QED
      BY <2>1, <3>3, UnchangedKeepsIInv
  <2> QED
    BY <2>2, <2>3
<1>2. CASE LoopFailsafe
  <2>1. pc' \in Points
    BY <1>2 DEF LoopFailsafe
  <2>2. deadlineActive => Holding
    BY DEF IInv, Core, FlagsFollowState, RelayConsistent, Holding
  <2>3. CASE deadlineActive /\ onAge >= RelayHold + FailsafeGrace
    BY <1>2, <2>1, <2>2, <2>3, CompleteKeepsIInv DEF LoopFailsafe, Holding
  <2>4. CASE ~(deadlineActive /\ onAge >= RelayHold + FailsafeGrace)
    BY <1>2, <2>1, <2>4, UnchangedKeepsIInv DEF LoopFailsafe
  <2> QED
    BY <2>3, <2>4
<1>3. CASE LoopTick
  BY <1>3, TickFsmKeepsIInv DEF LoopTick
<1>4. CASE LoopEnd
  BY <1>4, UnchangedKeepsIInv DEF LoopEnd
<1> QED
  BY <1>1, <1>2, <1>3, <1>4 DEF LoopStep

LEMMA CallKeepsIInv == IInv /\ Call => IInv'
<1> SUFFICES ASSUME IInv, Call PROVE IInv'
  OBVIOUS
<1>1. localSensorWait \in BOOLEAN /\ limit \in 0..MaxAge /\ pc \in {"head", "cutoff", "tick", "serve"}
  BY DEF IInv, FlagsOK, ValuesOK
<1>2. AuthTimeout \in 0..MaxAge /\ \A d \in ArmDurations : d \in 0..MaxAge
  BY TimingAssumption
<1>3. CASE HandleAuthPending
  BY <1>1, <1>2, <1>3, QuietKeepsIInv DEF HandleAuthPending, Serving
<1>4. ASSUME NEW d \in ArmDurations, HandleAuthSuccess(d) PROVE IInv'
  BY <1>1, <1>2, <1>4, QuietKeepsIInv DEF HandleAuthSuccess, Serving
<1>5. CASE HandleLocalManualOpen
  BY <1>1, <1>5, EnterKeepsIInv DEF HandleLocalManualOpen, Serving
<1>6. CASE HandleAuthAbort
  BY <1>1, <1>6, QuietKeepsIInv DEF HandleAuthAbort, BackToIdle, Serving
<1>7. ASSUME NEW d \in ArmDurations, HandlePreArm(d) PROVE IInv'
  BY <1>1, <1>2, <1>7, QuietKeepsIInv DEF HandlePreArm, Serving
<1>8. CASE HandleManualRemoteOpen
  BY <1>1, <1>8, EnterKeepsIInv DEF HandleManualRemoteOpen, Serving
<1>9. CASE SupersedeAndOpen
  BY <1>9, EnterKeepsIInv DEF SupersedeAndOpen, Serving
<1>10. CASE HandleSensorTrigger
  BY <1>1, <1>10, EnterKeepsIInv DEF HandleSensorTrigger, Serving
<1>11. CASE UnverifiedCleanup
  BY <1>11, CleanupKeepsIInv
<1>12. CASE OtaSafeTick
  BY <1>1, <1>12, TickFsmKeepsIInv DEF OtaSafeTick, Serving
<1> QED
  BY <1>3, <1>4, <1>5, <1>6, <1>7, <1>8, <1>9, <1>10, <1>11, <1>12 DEF Call

(* Every step keeps the invariant. *)
LEMMA NextKeepsIInv == IInv /\ [Next]_vars => IInv'
<1> SUFFICES ASSUME IInv, [Next]_vars PROVE IInv'
  OBVIOUS
<1>1. CASE Next
  BY <1>1, LoopKeepsIInv, CallKeepsIInv, TimerStep, RestartStep, TickStep DEF Next
<1>2. CASE UNCHANGED vars
  <2>1. UNCHANGED <<fsmVars, relayVars, history>> /\ pc' \in {"head", "cutoff", "tick", "serve"}
    BY <1>2 DEF vars, IInv, ValuesOK
  <2> QED
    BY <2>1, UnchangedKeepsIInv
<1> QED
  BY <1>1, <1>2

-----------------------------------------------------------------------------
(* The theorems.                                                           *)

THEOREM Invariance == Spec => []IInv
  BY InitIInv, NextKeepsIInv, PTL DEF Spec

(* Every variable keeps to its type, in every reachable state of the gate. *)
THEOREM TypeCorrect == Spec => []TypeOK
<1>1. IInv => TypeOK
  BY DEF IInv, TypeOK
<1> QED
  BY <1>1, Invariance, PTL

(* An energised output is never left without somebody who turns it off. *)
THEOREM CutoffAlwaysScheduled == Spec => []CutoffScheduled
<1>1. IInv => CutoffScheduled
  BY DEF IInv, Core, FlagsFollowState, RelayConsistent, CutoffScheduled, Holding
<1> QED
  BY <1>1, Invariance, PTL

(* With a working one-shot no pulse outlasts RELAY_HOLD_MS. *)
THEOREM OnTimeAlwaysBounded == Spec => []OnTimeBounded
<1>1. IInv => OnTimeBounded
  BY DEF IInv, Core
<1> QED
  BY <1>1, Invariance, PTL

(* Every pulse is reported closed exactly once. *)
THEOREM CloseAlwaysReportedOnce == Spec => []CloseReportedOnce
<1>1. IInv => CloseReportedOnce
  BY DEF IInv, Core
<1> QED
  BY <1>1, Invariance, PTL

(* A pulse begins only in EnterRelayHold, and only where the output rested. *)
LEMMA PulseStart == IInv /\ Next /\ ~pin /\ pin' => offAge >= Cooldown
<1> SUFFICES ASSUME IInv, Next, ~pin, pin' PROVE offAge >= Cooldown
  OBVIOUS
<1>1. CASE LoopStep
  BY <1>1 DEF LoopStep, LoopTimerFlag, LoopFailsafe, LoopTick, LoopEnd, FsmTick,
              CompleteRelayHold, DriveOff, relayVars
<1>2. CASE Call
  <2>1. state \in {"IDLE", "AUTH_PENDING", "ARMED"}
    BY <1>2 DEF Call, HandleAuthPending, HandleAuthSuccess, HandleLocalManualOpen,
                HandleAuthAbort, HandlePreArm, HandleManualRemoteOpen, SupersedeAndOpen,
                HandleSensorTrigger, UnverifiedCleanup, DriveOff,
                OtaSafeTick, FsmTick, CompleteRelayHold, relayVars
  <2> QED
    BY <2>1 DEF IInv, Core, Rested
<1>3. CASE RelayTimerFires
  BY <1>3 DEF RelayTimerFires
<1>4. CASE Restart
  BY <1>4 DEF Restart
<1>5. CASE Tick
  BY <1>5 DEF Tick
<1> QED
  BY <1>1, <1>2, <1>3, <1>4, <1>5 DEF Next

(* Two pulses of one boot are at least the cooldown apart, counted from    *)
(* the moment the output physically went off.                              *)
THEOREM PulsesSpaced == Spec => PulseSpacing
<1>1. IInv /\ [Next]_vars => [~pin /\ pin' => offAge >= Cooldown]_vars
  BY PulseStart
<1> QED
  BY <1>1, Invariance, PTL DEF Spec, PulseSpacing

(* One pass of the head of the loop ends an overdue pulse, one-shot or not. *)
THEOREM OverdueAlwaysCut == Spec => OverdueCut
<1>1. IInv /\ [Next]_vars => [pc = "tick" /\ pc' = "serve" => ~(pin' /\ onAge' >= RelayHold)]_vars
  <2> SUFFICES ASSUME IInv, Next, pc = "tick", pc' = "serve", pin', onAge' >= RelayHold
               PROVE  FALSE
    OBVIOUS
  <2>1. LoopTick
    BY DEF Next, LoopStep, LoopTimerFlag, LoopFailsafe, LoopTick, LoopEnd, Call, Serving,
           HandleAuthPending, HandleAuthSuccess, HandleLocalManualOpen, HandleAuthAbort,
           HandlePreArm, HandleManualRemoteOpen, SupersedeAndOpen, HandleSensorTrigger,
           UnverifiedCleanup, OtaSafeTick, RelayTimerFires, Restart, Tick
  <2>2. pin /\ onAge >= RelayHold
    BY <2>1 DEF LoopTick, FsmTick, CompleteRelayHold, DriveOff, relayVars
  <2>3. TimedOut /\ state = "RELAY_HOLD"
    BY <2>2 DEF TimedOut, IInv, Core, RelayConsistent
  <2> QED
    BY <2>1, <2>3 DEF LoopTick, FsmTick, CompleteRelayHold, DriveOff
<1> QED
  BY <1>1, Invariance, PTL DEF Spec, OverdueCut

-----------------------------------------------------------------------------
(* AccessFsm implements DoorPromise.                                       *)

LEMMA DoorInit == Init => Door!Init
  BY DEF Init, Door!Init

LEMMA DoorComplete ==
  ASSUME IInv, state = "RELAY_HOLD", CompleteRelayHold
  PROVE  Door!Release \/ UNCHANGED Door!doorVars
<1>1. CASE pin
  BY <1>1 DEF CompleteRelayHold, DriveOff, NoteOff, Door!Release
<1>2. CASE ~pin
  BY <1>2, Zenon DEF CompleteRelayHold, DriveOff, NoteOff, Door!doorVars, IInv, FlagsOK
<1> QED
  BY <1>1, <1>2

LEMMA DoorEnter ==
  ASSUME IInv, state \in {"IDLE", "AUTH_PENDING", "ARMED"}, EnterRelayHold
  PROVE  Door!Energise
<1>1. ~pin /\ offAge >= Cooldown
  BY DEF IInv, Core, RelayConsistent, Rested
<1> QED
  BY <1>1 DEF EnterRelayHold, DriveOn, Door!Energise

LEMMA DoorTick == ASSUME IInv, FsmTick
                  PROVE  Door!Next \/ UNCHANGED Door!doorVars
<1>1. CASE ~TimedOut
  BY <1>1 DEF FsmTick, fsmVars, relayVars, history, Door!doorVars
<1>2. CASE TimedOut /\ state = "RELAY_HOLD"
  BY <1>2, DoorComplete DEF FsmTick, Door!Next
<1>3. CASE TimedOut /\ state # "RELAY_HOLD"
  BY <1>3 DEF FsmTick, BackToIdle, relayVars, history, Door!Next, Door!Lapse, Door!doorVars
<1> QED
  BY <1>1, <1>2, <1>3

LEMMA DoorStep == ASSUME IInv, TimerMayFail = FALSE, [Next]_vars
                  PROVE  [Door!Next]_(Door!doorVars)
<1> DEFINE Stutter == UNCHANGED <<pin, onAge, offAge, state>>
<1>1. Stutter => UNCHANGED Door!doorVars
  BY DEF Door!doorVars
<1>2. CASE LoopTimerFlag
  BY <1>1, <1>2, DoorComplete DEF LoopTimerFlag, Holding, Door!Next, fsmVars, history
<1>3. CASE LoopFailsafe
  <2>1. deadlineActive => Holding
    BY DEF IInv, Core, FlagsFollowState, RelayConsistent, Holding
  <2> QED
    BY <1>1, <1>3, <2>1, DoorComplete
    DEF LoopFailsafe, Holding, Door!Next, fsmVars, relayVars, history
<1>4. CASE LoopTick
  BY <1>4, DoorTick DEF LoopTick
<1>5. CASE LoopEnd
  BY <1>1, <1>5 DEF LoopEnd, fsmVars, relayVars, history
<1>6. CASE Call
  <2>1. state \in {"IDLE", "AUTH_PENDING", "ARMED"} => ~pin /\ offAge >= Cooldown
    BY DEF IInv, Core, RelayConsistent, Rested
  <2>2. CASE HandleAuthPending \/ HandleAuthAbort
    BY <2>2 DEF HandleAuthPending, HandleAuthAbort, BackToIdle, relayVars, history, Door!doorVars
  <2>3. ASSUME NEW d \in ArmDurations, HandleAuthSuccess(d) \/ HandlePreArm(d)
        PROVE  Door!Authorise
    BY <2>1, <2>3 DEF HandleAuthSuccess, HandlePreArm, relayVars, history, Door!Authorise
  <2>4. CASE HandleLocalManualOpen \/ HandleManualRemoteOpen
    BY <2>4, DoorEnter DEF HandleLocalManualOpen, HandleManualRemoteOpen, Door!Next
  <2>5. CASE SupersedeAndOpen \/ HandleSensorTrigger
    BY <2>5, DoorEnter DEF SupersedeAndOpen, HandleSensorTrigger, Door!Next
  <2>6. CASE UnverifiedCleanup
    <3>1. ~pin /\ state # "ARMED"
      BY <2>6 DEF UnverifiedCleanup, PhysicalAccessActive
    <3> QED
      BY <2>6, <3>1, Zenon DEF UnverifiedCleanup, DriveOff, NoteOff, Door!doorVars, IInv, FlagsOK
  <2>7. CASE OtaSafeTick
    BY <2>7, DoorTick DEF OtaSafeTick
  <2> QED
    BY <1>6, <2>2, <2>3, <2>4, <2>5, <2>6, <2>7 DEF Call, Door!Next
<1>7. CASE RelayTimerFires
  <2>1. pin
    BY <1>7 DEF RelayTimerFires, IInv, Core, RelayConsistent
  <2> QED
    BY <1>7, <2>1 DEF RelayTimerFires, NoteOff, fsmVars, Door!Next, Door!Release
<1>8. CASE Restart
  BY <1>8 DEF Restart, Door!Next, Door!Reset
<1>9. CASE Tick
  <2>1. ~(pin /\ onAge >= RelayHold)
    BY <1>9 DEF Tick, TimeMayPass, IInv, Core, RelayConsistent
  <2> QED
    BY <1>9, <2>1 DEF Tick, Older, Door!Older, Door!Next, Door!Pass
<1>10. CASE UNCHANGED vars
  BY <1>1, <1>10 DEF vars, fsmVars, relayVars, history
<1> QED
  BY <1>2, <1>3, <1>4, <1>5, <1>6, <1>7, <1>8, <1>9, <1>10 DEF Next, LoopStep

(* Where the one-shot always starts, the state machine, the relay driver,  *)
(* the loop and the timer task together keep the promise of DoorPromise.   *)
THEOREM KeepsDoorPromise == TimerMayFail = FALSE => (Spec => DoorSpec)
<1> SUFFICES ASSUME TimerMayFail = FALSE PROVE Spec => DoorSpec
  OBVIOUS
<1>1. IInv /\ [Next]_vars => [Door!Next]_(Door!doorVars)
  BY DoorStep
<1> QED
  BY <1>1, DoorInit, Invariance, PTL DEF Spec, DoorSpec, Door!Spec


-----------------------------------------------------------------------------
(* Every step of the callers is a step of AccessFsm.                       *)

LEMMA CallerStep == ASSUME PassageAssumption, [PNext]_allVars PROVE [Next]_vars
<1>1. ArmDurationMs \in ArmDurations
  BY DEF ArmDurationMs, PassageAssumption
<1>2. CASE Elsewhere
  BY <1>2 DEF Elsewhere, Next, Call
<1>3. ASSUME NEW r \in Reading, NEW ok \in BOOLEAN, SampleArmed(r, ok) \/ SampleResting(r, ok)
      PROVE  [Next]_vars
  BY <1>3 DEF SampleArmed, SampleResting, Next, Call
<1>4. ASSUME NEW ok \in BOOLEAN, PassWithoutSample(ok) \/ TriggerArm(ok) \/ OnAuthPending(ok)
      PROVE  [Next]_vars
  <2>1. CASE PassWithoutSample(ok)
    BY <2>1 DEF PassWithoutSample
  <2>2. CASE TriggerArm(ok)
    BY <1>1, <2>2 DEF TriggerArm, Next, Call
  <2>3. CASE OnAuthPending(ok)
    BY <2>3 DEF OnAuthPending, Next, Call
  <2> QED
    BY <1>4, <2>1, <2>2, <2>3
<1>5. CASE OnAuthGrantArm
  BY <1>1, <1>5 DEF OnAuthGrantArm, Next, Call
<1>6. CASE ManualPulse
  BY <1>6 DEF ManualPulse, Next, Call
<1>7. CASE OnAuthAbort
  BY <1>7 DEF OnAuthAbort, Next, Call
<1>8. CASE PRestart \/ PTick
  BY <1>8 DEF PRestart, PTick, Next
<1>9. CASE UNCHANGED allVars
  BY <1>9 DEF allVars
<1> QED
  BY <1>2, <1>3, <1>4, <1>5, <1>6, <1>7, <1>8, <1>9 DEF PNext

(* So what is shown of AccessFsm holds of the callers of main.cpp.          *)
LEMMA CallersAreAccessFsm == PSpec => Spec
<1>1. PInit => Init
  BY DEF PInit
<1>2. [PNext]_allVars => [Next]_vars
  BY CallerStep, PassageAssumption
<1> QED
  BY <1>1, <1>2, PTL DEF PSpec, Spec

-----------------------------------------------------------------------------
(* The retry budget.                                                       *)

Earned == armForgiven \/ armAge >= RetryQuiet

AgesOK == idleAge \in 0..MaxAge /\ armAge \in 0..MaxAge

(* An attempt that is not forgiven keeps the long quiet interval in force; *)
(* the idle interval began after the attempt; and an admission that is     *)
(* still of use - announced as ready, or captured by the pending session - *)
(* was earned.                                                             *)
BudgetInv ==
  /\ AgesOK
  /\ ~armForgiven => retryQuiet
  /\ waiting => idleAge <= armAge
  /\ ready => Earned
  /\ state = "AUTH_PENDING" /\ admitted => Earned

LEMMA AdmitsEarned ==
  ASSUME BudgetInv, NEW idle, NEW quiet, ~armForgiven => quiet, Admits(idle, quiet)
  PROVE  Earned
  BY PassageAssumption, TimingAssumption DEF BudgetInv, AgesOK, Earned, Admits, IdleFor

LEMMA BudgetInit == PInit => BudgetInv
  BY TimingAssumption, PassageAssumption DEF PInit, Init, BudgetInv, AgesOK, Earned

(* update() by any caller, while the attempt's history does not change. *)
LEMMA UpdateKeepsBudget ==
  ASSUME BudgetInv, NEW idle,
         UpdatePresence(idle, retryQuiet'),
         armForgiven' \/ retryQuiet',
         armForgiven => armForgiven', UNCHANGED armAge,
         state' = "AUTH_PENDING" /\ admitted' => Earned'
  PROVE  BudgetInv'
<1>1. waiting' <=> idle
  BY Zenon DEF UpdatePresence
<1>2. ready' <=> Admits(idle, retryQuiet')
  BY Zenon DEF UpdatePresence
<1>3. idleAge' = IF idle THEN IdleFor ELSE idleAge
  BY DEF UpdatePresence
<1>4. Admits(idle, retryQuiet') => Earned'
  BY PassageAssumption, TimingAssumption DEF BudgetInv, AgesOK, Earned, Admits, IdleFor
<1> QED
  BY <1>1, <1>2, <1>3, <1>4, TimingAssumption DEF BudgetInv, AgesOK, IdleFor

(* The end of every sensor pass. *)
LEMMA FinishKeepsBudget ==
  ASSUME BudgetInv, NEW ok \in BOOLEAN, FinishPass(ok),
         state' = "AUTH_PENDING" => state = "AUTH_PENDING"
  PROVE  BudgetInv'
<1> DEFINE cleared == blocked /\ ~blocked'
<1> DEFINE idle == state' = "IDLE" /\ ~pin' /\ ok
<1>1. (retryQuiet' <=> retryQuiet /\ ~cleared) /\ (armForgiven' <=> armForgiven \/ cleared)
  BY Zenon DEF FinishPass
<1>2. UpdatePresence(idle, retryQuiet') /\ UNCHANGED <<admitted, armAge>>
  BY DEF FinishPass
<1>3. armForgiven' \/ retryQuiet'
  BY <1>1 DEF BudgetInv
<1>4. state' = "AUTH_PENDING" /\ admitted' => Earned'
  BY <1>1, <1>2 DEF BudgetInv, Earned
<1> QED
  BY <1>1, <1>2, <1>3, <1>4, UpdateKeepsBudget

(* Leaving every variable of the budget alone, and not beginning to wait   *)
(* for a proof.                                                            *)
LEMMA SameBudget ==
  ASSUME BudgetInv, UNCHANGED <<presenceVars, armAge, armForgiven>>,
         state' = "AUTH_PENDING" => state = "AUTH_PENDING",
         admitted' => admitted
  PROVE  BudgetInv'
  BY DEF BudgetInv, AgesOK, Earned, presenceVars

LEMMA ArmKeepsBudget ==
  ASSUME BudgetInv, SessionArmed, state' = "ARMED"
  PROVE  BudgetInv'
  BY TimingAssumption DEF BudgetInv, AgesOK, Earned, SessionArmed, NoteAutomaticArm

LEMMA NextKeepsBudget == BudgetInv /\ [PNext]_allVars => BudgetInv'
<1> SUFFICES ASSUME BudgetInv, [PNext]_allVars PROVE BudgetInv'
  OBVIOUS
<1>1. CASE Elsewhere
  <2>1. state' = "AUTH_PENDING" => state = "AUTH_PENDING"
    BY <1>1 DEF Elsewhere, LoopStep, LoopTimerFlag, LoopFailsafe, LoopTick, LoopEnd, FsmTick,
                RelayTimerFires, UnverifiedCleanup, OtaSafeTick, CompleteRelayHold, BackToIdle,
                fsmVars
  <2> QED
    BY <1>1, <2>1, SameBudget DEF Elsewhere, passageVars, ghosts
<1>2. ASSUME NEW r \in Reading, NEW ok \in BOOLEAN, SampleArmed(r, ok)
      PROVE  BudgetInv'
  <2>1. state' # "AUTH_PENDING"
    BY <1>2 DEF SampleArmed, HandleSensorTrigger, EnterRelayHold, vars, fsmVars
  <2> QED
    BY <1>2, <2>1, FinishKeepsBudget DEF SampleArmed
<1>3. ASSUME NEW r \in Reading, NEW ok \in BOOLEAN, SampleResting(r, ok)
      PROVE  BudgetInv'
  BY <1>3, FinishKeepsBudget DEF SampleResting, vars, fsmVars
<1>4. ASSUME NEW ok \in BOOLEAN, PassWithoutSample(ok) PROVE BudgetInv'
  BY <1>4, FinishKeepsBudget DEF PassWithoutSample, vars, fsmVars
<1>5. ASSUME NEW ok \in BOOLEAN, TriggerArm(ok) PROVE BudgetInv'
  <2>1. CASE Admits(GateIdle /\ ok, retryQuiet)
    BY <1>5, <2>1, ArmKeepsBudget DEF TriggerArm, HandlePreArm
  <2>2. CASE ~Admits(GateIdle /\ ok, retryQuiet)
    <3>1. /\ UpdatePresence(GateIdle /\ ok, retryQuiet)
          /\ UNCHANGED <<admitted, state, retryQuiet, armAge, armForgiven>>
      BY <1>5, <2>2 DEF TriggerArm, vars, fsmVars, ghosts
    <3> QED
      BY <3>1, UpdateKeepsBudget DEF BudgetInv, Earned
  <2> QED
    BY <2>1, <2>2
<1>6. ASSUME NEW ok \in BOOLEAN, OnAuthPending(ok) PROVE BudgetInv'
  <2>1. /\ UpdatePresence(GateIdle /\ ok, retryQuiet)
        /\ UNCHANGED <<retryQuiet, armAge, armForgiven>>
    BY <1>6 DEF OnAuthPending, ghosts
  <2>2. admitted' <=> Admits(GateIdle /\ ok, retryQuiet)
    BY <1>6, Zenon DEF OnAuthPending
  <2>3. admitted' => Earned'
    BY <2>1, <2>2, AdmitsEarned DEF BudgetInv, Earned
  <2> QED
    BY <2>1, <2>3, UpdateKeepsBudget DEF BudgetInv
<1>7. CASE OnAuthGrantArm
  <2>1. CASE state = "AUTH_PENDING" /\ ~relayOn
    BY <1>7, <2>1, ArmKeepsBudget DEF OnAuthGrantArm, HandleAuthSuccess
  <2>2. CASE ~(state = "AUTH_PENDING" /\ ~relayOn)
    BY <1>7, <2>2, SameBudget DEF OnAuthGrantArm, vars, fsmVars, ghosts
  <2> QED
    BY <2>1, <2>2
<1>8. CASE ManualPulse
  <2>1. state' # "AUTH_PENDING"
    BY <1>8 DEF ManualPulse, HandleLocalManualOpen, HandleManualRemoteOpen, SupersedeAndOpen,
                EnterRelayHold
  <2> QED
    BY <1>8, <2>1, SameBudget DEF ManualPulse
<1>9. CASE OnAuthAbort
  BY <1>9, SameBudget DEF OnAuthAbort, HandleAuthAbort, BackToIdle, vars, fsmVars, ghosts
<1>10. CASE PRestart
  BY <1>10, TimingAssumption, PassageAssumption
  DEF PRestart, Restart, BudgetInv, AgesOK, Earned
<1>11. CASE PTick
  BY <1>11, TimingAssumption, PassageAssumption
  DEF PTick, Tick, Older, BudgetInv, AgesOK, Earned
<1>12. CASE UNCHANGED allVars
  BY <1>12, SameBudget DEF allVars, vars, fsmVars, passageVars, ghosts
<1> QED
  BY <1>1, <1>2, <1>3, <1>4, <1>5, <1>6, <1>7, <1>8, <1>9, <1>10, <1>11, <1>12 DEF PNext

(* The gate is armed only by the two admitted ways. *)
LEMMA ArmIsEarned ==
  ASSUME BudgetInv, PNext, state # "ARMED", state' = "ARMED"
  PROVE  armAge >= RetryQuiet \/ armForgiven
<1>1. CASE \E ok \in BOOLEAN : TriggerArm(ok)
  <2>1. PICK ok \in BOOLEAN : TriggerArm(ok)
    BY <1>1
  <2>2. Admits(GateIdle /\ ok, retryQuiet)
    BY <2>1 DEF TriggerArm, vars, fsmVars
  <2> QED
    BY <2>2, AdmitsEarned DEF BudgetInv, Earned
<1>2. CASE OnAuthGrantArm
  <2>1. state = "AUTH_PENDING" /\ admitted
    BY <1>2 DEF OnAuthGrantArm, vars, fsmVars
  <2> QED
    BY <2>1 DEF BudgetInv, Earned
<1>3. CASE Elsewhere
  BY <1>3 DEF Elsewhere, LoopStep, LoopTimerFlag, LoopFailsafe, LoopTick, LoopEnd, FsmTick,
              RelayTimerFires, UnverifiedCleanup, OtaSafeTick, CompleteRelayHold, BackToIdle,
              fsmVars
<1>4. CASE \E r \in Reading, ok \in BOOLEAN : SampleArmed(r, ok) \/ SampleResting(r, ok)
  BY <1>4 DEF SampleArmed, SampleResting, vars, fsmVars
<1>5. CASE \E ok \in BOOLEAN : PassWithoutSample(ok) \/ OnAuthPending(ok)
  BY <1>5 DEF PassWithoutSample, OnAuthPending, HandleAuthPending, vars, fsmVars
<1>6. CASE ManualPulse \/ OnAuthAbort
  BY <1>6 DEF ManualPulse, HandleLocalManualOpen, HandleManualRemoteOpen, SupersedeAndOpen,
              EnterRelayHold, OnAuthAbort, HandleAuthAbort, BackToIdle, vars, fsmVars
<1>7. CASE PRestart \/ PTick
  BY <1>7 DEF PRestart, Restart, PTick, Tick
<1> QED
  BY <1>1, <1>2, <1>3, <1>4, <1>5, <1>6, <1>7 DEF PNext

(* Two automatic arms are RetryQuiet apart unless the passage was confirmed *)
(* clear in between, for every choice of the intervals.                    *)
THEOREM RetryBudgetHolds == PSpec => RetryBudget
<1>1. BudgetInv /\ [PNext]_allVars
      => [state # "ARMED" /\ state' = "ARMED" => armAge >= RetryQuiet \/ armForgiven]_allVars
  BY ArmIsEarned
<1> QED
  BY <1>1, BudgetInit, NextKeepsBudget, PTL DEF PSpec, RetryBudget

-----------------------------------------------------------------------------
(* The passage sensor.                                                     *)

NearIn(w) == {i \in 1..Window : w[i]}

SensorTypes ==
  /\ window \in [1..Window -> BOOLEAN] /\ nearSeen \in 0..Window
  /\ blocked \in BOOLEAN /\ episodeOver \in BOOLEAN
  /\ clears \in Nat /\ clearRun \in 0..ClearNeeded

(* The filter holds near readings of this session only. *)
ReadingsFresh == Cardinality(NearIn(window)) <= nearSeen

(* The latch counts the clear readings since the last pulse, and is opened *)
(* by nothing but enough of them.                                          *)
LatchWitnessed ==
  /\ blocked => clears = clearRun /\ clears < ClearNeeded
  /\ ~blocked => episodeOver

(* The clear readings the latch has counted are the newest of the filter,  *)
(* those older than the session not being in it.                           *)
ClearTail ==
  state = "ARMED" /\ blocked => \A i \in 1..Window : i > Window - clears => ~window[i]

SensorInv == SensorTypes /\ ReadingsFresh /\ LatchWitnessed /\ ClearTail

sensorVars == <<window, rearmVars, clearRun, episodeOver, nearSeen>>

LEMMA NearSize ==
  ASSUME NEW w \in [1..Window -> BOOLEAN]
  PROVE  IsFiniteSet(NearIn(w)) /\ Cardinality(NearIn(w)) \in 0..Window
<1>1. IsFiniteSet(1..Window) /\ Cardinality(1..Window) = Window
  BY FS_Interval, PassageAssumption
<1>2. NearIn(w) \in SUBSET (1..Window)
  BY DEF NearIn
<1>3. IsFiniteSet(NearIn(w)) /\ Cardinality(NearIn(w)) <= Cardinality(1..Window)
  BY <1>1, <1>2, FS_Subset
<1>4. Cardinality(NearIn(w)) \in Nat
  BY <1>3, FS_CardinalityType
<1>. QED  BY <1>1, <1>3, <1>4, PassageAssumption

LEMMA NothingNear == NearIn(NoReadings) = {} /\ Cardinality(NearIn(NoReadings)) = 0
BY FS_EmptySet DEF NearIn, NoReadings

(* A reading that is pushed takes the last place, the others move up by one. *)
LEMMA PushedAt ==
  ASSUME NEW r \in Reading
  PROVE  /\ \A i \in 1..Window : i < Window => Pushed(r)[i] = window[i + 1]
         /\ Pushed(r)[Window] = (r = "near")
<1>1. Window \in 1..Window /\ ~(Window < Window)
  BY PassageAssumption
<1>2. \A i \in 1..Window : i < Window => Pushed(r)[i] = window[i + 1]
  BY Zenon DEF Pushed
<1>3. Pushed(r)[Window] = (r = "near")
  BY <1>1, Zenon DEF Pushed
<1>. QED  BY <1>1, <1>2, <1>3

LEMMA PushedTyped ==
  ASSUME SensorTypes, NEW r \in Reading
  PROVE  Pushed(r) \in [1..Window -> BOOLEAN]
<1>1. \A i \in 1..Window : (IF i < Window THEN window[i + 1] ELSE r = "near") \in BOOLEAN
  <2>. SUFFICES ASSUME NEW i \in 1..Window
                PROVE  (IF i < Window THEN window[i + 1] ELSE r = "near") \in BOOLEAN
    OBVIOUS
  <2>1. CASE i < Window
    <3>1. i + 1 \in 1..Window
      BY <2>1, PassageAssumption
    <3>2. window[i + 1] \in BOOLEAN
      BY <3>1 DEF SensorTypes
    <3>. QED  BY <2>1, <3>2, Zenon
  <2>2. CASE ~(i < Window)
    BY <2>2, Zenon
  <2>. QED  BY <2>1, <2>2, Zenon
<1>. QED  BY <1>1, Zenon DEF Pushed

(* So the filter has at most one more near reading, and only if this is one. *)
LEMMA PushedNear ==
  ASSUME SensorTypes, NEW r \in Reading
  PROVE  /\ Pushed(r) \in [1..Window -> BOOLEAN]
         /\ Cardinality(NearIn(Pushed(r))) <= Cardinality(NearIn(window)) + (IF r = "near" THEN 1 ELSE 0)
<1>. DEFINE old == NearIn(window)
            new == NearIn(Pushed(r))
            moved == new \ {Window}
            back == [i \in moved |-> i + 1]
<1>1. Pushed(r) \in [1..Window -> BOOLEAN]
  BY PushedTyped
<1>2. IsFiniteSet(old) /\ Cardinality(old) \in 0..Window
  BY NearSize DEF SensorTypes
<1>3. IsFiniteSet(new) /\ Cardinality(new) \in 0..Window
  BY <1>1, NearSize
<1>4. \A i \in moved : i \in 1..Window /\ i + 1 \in old
  <2>. SUFFICES ASSUME NEW i \in moved PROVE i \in 1..Window /\ i + 1 \in old
    OBVIOUS
  <2>1. i \in 1..Window /\ i < Window /\ Pushed(r)[i]
    BY PassageAssumption DEF NearIn
  <2>2. window[i + 1] /\ i + 1 \in 1..Window
    BY <2>1, PassageAssumption, PushedAt
  <2>. QED  BY <2>1, <2>2 DEF NearIn
<1>5. back \in Injection(moved, old)
  <2>1. back \in [moved -> old]
    BY <1>4
  <2>2. \A a, b \in moved : back[a] = back[b] => a = b
    BY <1>4
  <2>. QED  BY <2>1, <2>2 DEF Injection, IsInjective
<1>6. Cardinality(moved) <= Cardinality(old)
  BY <1>2, <1>5, FS_Injection
<1>7. /\ IsFiniteSet(moved)
      /\ Cardinality(moved) = IF Window \in new THEN Cardinality(new) - 1 ELSE Cardinality(new)
  BY <1>3, FS_RemoveElement
<1>8. Window \in new => r = "near"
  BY PushedAt DEF NearIn
<1>9. Cardinality(moved) \in Nat
  BY <1>7, FS_CardinalityType
<1>. QED  BY <1>1, <1>2, <1>3, <1>6, <1>7, <1>8, <1>9

(* While the latch is blocked, the reading that would end the episode comes *)
(* with so many clear ones before it that the median is not near.          *)
LEMMA BlockedNeverOpens ==
  ASSUME SensorInv, state = "ARMED", blocked, NEW r \in Reading, OpensOn(r)
  PROVE  FALSE
<1>1. clears \in Nat /\ clears < ClearNeeded /\ ClearNeeded \in Nat \ {0} /\ Window \in Nat \ {0}
  BY PassageAssumption DEF SensorInv, SensorTypes, LatchWitnessed
<1>2. r = "clear" /\ clears + 1 >= ClearNeeded
  BY <1>1 DEF OpensOn, Observed
<1>3. Pushed(r) \in [1..Window -> BOOLEAN]
  BY PushedNear DEF SensorInv
<1>4. NearIn(Pushed(r)) \in SUBSET (1..(Window - (clears + 1)))
  <2>. SUFFICES ASSUME NEW i \in 1..Window, Pushed(r)[i] PROVE i <= Window - (clears + 1)
    BY <1>1 DEF NearIn
  <2>1. i < Window /\ window[i + 1]
    <3>1. i # Window
      BY <1>2, PushedAt
    <3>2. i < Window
      BY <1>1, <3>1
    <3>. QED  BY <3>2, PushedAt
  <2>2. ~(i + 1 > Window - clears)
    BY <1>1, <2>1 DEF SensorInv, ClearTail
  <2>. QED  BY <1>1, <2>2
<1>5. /\ IsFiniteSet(1..(Window - (clears + 1)))
      /\ Cardinality(1..(Window - (clears + 1))) =
           IF 1 > Window - (clears + 1) THEN 0 ELSE Window - (clears + 1) - 1 + 1
  BY <1>1, FS_Interval
<1>6. Cardinality(NearIn(Pushed(r))) <= Cardinality(1..(Window - (clears + 1)))
  BY <1>4, <1>5, FS_Subset
<1>7. 2 * Cardinality(NearIn(Pushed(r))) > Window
  BY DEF OpensOn, MedianNear, NearIn
<1>8. Cardinality(NearIn(Pushed(r))) \in Nat
  BY <1>3, NearSize, <1>1
<1>. QED  BY <1>1, <1>2, <1>5, <1>6, <1>7, <1>8, PassageAssumption

(* observeDistance(): the latch and its witness go on together. *)
LEMMA ObservingKeeps ==
  ASSUME SensorTypes, LatchWitnessed, NEW r \in Reading, Witness(r),
         blocked' = Observed(r).blocked, clears' = Observed(r).clears
  PROVE  /\ LatchWitnessed'
         /\ blocked' \in BOOLEAN /\ episodeOver' \in BOOLEAN /\ clears' \in Nat /\ clearRun' \in 0..ClearNeeded
         /\ blocked' => blocked /\ clears' = IF r = "clear" THEN clears + 1 ELSE 0
<1>. DEFINE n == IF r = "clear" THEN clears + 1 ELSE 0
            m == IF r # "clear" THEN 0 ELSE IF clearRun < ClearNeeded THEN clearRun + 1 ELSE clearRun
<1>1. clears \in Nat /\ clearRun \in 0..ClearNeeded /\ ClearNeeded \in Nat \ {0}
  BY PassageAssumption DEF SensorTypes
<1>2. n \in Nat /\ m \in 0..ClearNeeded
  BY <1>1
<1>3. clearRun' = m /\ (episodeOver' <=> episodeOver \/ m = ClearNeeded) /\ episodeOver' \in BOOLEAN
  BY Zenon DEF Witness
<1>4. CASE blocked /\ n < ClearNeeded
  <2>1. blocked' = TRUE /\ clears' = n
    BY <1>4 DEF Observed
  <2>2. clears = clearRun /\ clears < ClearNeeded
    BY <1>4 DEF LatchWitnessed
  <2>3. m = n
    BY <1>1, <2>2
  <2>4. blocked' \in BOOLEAN
    BY <2>1, Zenon
  <2>. QED  BY <1>1, <1>2, <1>3, <1>4, <2>1, <2>3, <2>4 DEF LatchWitnessed
<1>5. CASE ~(blocked /\ n < ClearNeeded)
  <2>1. blocked' = FALSE /\ clears' = 0
    BY <1>5 DEF Observed
  <2>2. episodeOver'
    <3>1. CASE blocked
      <4>1. clears = clearRun /\ clears < ClearNeeded
        BY <3>1 DEF LatchWitnessed
      <4>2. m = ClearNeeded
        BY <1>1, <1>5, <3>1, <4>1
      <4>. QED  BY <1>3, <4>2
    <3>2. CASE ~blocked
      BY <1>3, <3>2 DEF LatchWitnessed
    <3>. QED  BY <3>1, <3>2
  <2>3. blocked' \in BOOLEAN
    BY <2>1, Zenon
  <2>. QED  BY <1>2, <1>3, <2>1, <2>2, <2>3 DEF LatchWitnessed
<1>. QED  BY <1>4, <1>5

LEMMA PulseKeeps ==
  ASSUME NotePulse, window' \in [1..Window -> BOOLEAN], nearSeen' \in 0..Window, ReadingsFresh'
  PROVE  SensorInv'
<1>1. blocked' = TRUE /\ clears' = 0 /\ clearRun' = 0 /\ episodeOver' = FALSE
  BY DEF NotePulse
<1>2. blocked' \in BOOLEAN /\ episodeOver' \in BOOLEAN
  BY <1>1, Zenon
<1>. QED  BY <1>1, <1>2, PassageAssumption DEF SensorInv, SensorTypes, LatchWitnessed, ClearTail

LEMMA SensorSame ==
  ASSUME SensorInv, UNCHANGED sensorVars, state' = "ARMED" => state = "ARMED"
  PROVE  SensorInv'
BY DEF SensorInv, SensorTypes, ReadingsFresh, LatchWitnessed, ClearTail, sensorVars, rearmVars, NearIn

(* A session begins with an empty filter. *)
LEMMA ArmKeepsSensor ==
  ASSUME SensorInv, SessionArmed
  PROVE  SensorInv'
<1>1. window' = NoReadings /\ nearSeen' = 0 /\ UNCHANGED <<blocked, clears, clearRun, episodeOver>>
  BY DEF SessionArmed, ResetReadings, rearmVars
<1>2. NoReadings \in [1..Window -> BOOLEAN] /\ \A i \in 1..Window : NoReadings[i] = FALSE
  BY DEF NoReadings
<1>3. ReadingsFresh'
  BY <1>1, NothingNear DEF ReadingsFresh, NearIn
<1>. QED  BY <1>1, <1>2, <1>3, PassageAssumption DEF SensorInv, SensorTypes, LatchWitnessed, ClearTail

LEMMA SampleArmedKeeps ==
  ASSUME SensorInv, NEW r \in Reading, NEW ok \in BOOLEAN, SampleArmed(r, ok)
  PROVE  SensorInv'
<1>1. state = "ARMED" /\ window' = Pushed(r) /\ SensorTypes
  BY DEF SampleArmed, SensorInv
<1>2. nearSeen' = IF r = "near" /\ nearSeen < Window THEN nearSeen + 1 ELSE nearSeen
  BY DEF SampleArmed
<1>3. window' \in [1..Window -> BOOLEAN] /\ nearSeen' \in 0..Window
  BY <1>1, <1>2, PushedNear, PassageAssumption DEF SensorTypes
<1>4. ReadingsFresh'
  <2>1. Cardinality(NearIn(window)) \in 0..Window /\ nearSeen \in 0..Window
    BY <1>1, NearSize DEF SensorTypes
  <2>2. Cardinality(NearIn(Pushed(r))) \in 0..Window
    BY <1>1, <1>3, NearSize
  <2>3. Cardinality(NearIn(Pushed(r))) <= nearSeen'
    BY <1>1, <1>2, <2>1, <2>2, PushedNear, PassageAssumption DEF SensorInv, ReadingsFresh
  <2>. QED  BY <1>1, <2>3 DEF ReadingsFresh, NearIn
<1>5. CASE OpensOn(r) /\ age < limit
  BY <1>3, <1>4, <1>5, PulseKeeps DEF SampleArmed
<1>6. CASE ~(OpensOn(r) /\ age < limit)
  <2>1. blocked' = Observed(r).blocked /\ clears' = Observed(r).clears /\ Witness(r)
    BY <1>6 DEF SampleArmed
  <2>2. /\ LatchWitnessed'
        /\ blocked' \in BOOLEAN /\ episodeOver' \in BOOLEAN /\ clears' \in Nat /\ clearRun' \in 0..ClearNeeded
        /\ blocked' => blocked /\ clears' = IF r = "clear" THEN clears + 1 ELSE 0
    BY <1>1, <2>1, ObservingKeeps DEF SensorInv
  <2>3. ClearTail'
    <3>. SUFFICES ASSUME blocked', NEW i \in 1..Window, i > Window - clears' PROVE ~window'[i]
      BY DEF ClearTail
    <3>1. r = "clear" /\ clears' = clears + 1 /\ blocked /\ clears \in Nat
      <4>1. window' \in [1..Window -> BOOLEAN] /\ clears \in Nat /\ Window \in Nat \ {0}
        BY <1>1, <1>3, PassageAssumption DEF SensorTypes
      <4>2. clears' # 0
        BY <4>1
      <4>. QED  BY <2>2, <4>1, <4>2
    <3>2. CASE i = Window
      <4>1. Pushed(r)[i] = (r = "near")
        BY <3>2, PushedAt
      <4>. QED  BY <1>1, <3>1, <4>1
    <3>3. CASE i < Window
      <4>1. i + 1 \in 1..Window /\ i + 1 > Window - clears
        BY <3>1, <3>3, PassageAssumption
      <4>2. ~window[i + 1]
        BY <1>1, <3>1, <4>1 DEF SensorInv, ClearTail
      <4>. QED  BY <1>1, <3>3, <4>2, PushedAt
    <3>. QED  BY <3>2, <3>3, PassageAssumption
  <2>. QED  BY <1>3, <1>4, <2>2, <2>3 DEF SensorInv, SensorTypes
<1>. QED  BY <1>5, <1>6

LEMMA SampleRestingKeeps ==
  ASSUME SensorInv, NEW r \in Reading, NEW ok \in BOOLEAN, SampleResting(r, ok)
  PROVE  SensorInv'
<1>1. state' # "ARMED" /\ UNCHANGED <<window, nearSeen>>
  BY DEF SampleResting, vars, fsmVars
<1>2. blocked' = Observed(r).blocked /\ clears' = Observed(r).clears /\ Witness(r)
  BY DEF SampleResting
<1>. QED  BY <1>1, <1>2, ObservingKeeps DEF SensorInv, SensorTypes, ReadingsFresh, ClearTail, NearIn

LEMMA RestartKeepsSensor ==
  ASSUME window = NoReadings, blocked = FALSE, clears = 0, clearRun = 0, episodeOver = TRUE, nearSeen = 0
  PROVE  SensorInv
<1>1. blocked \in BOOLEAN /\ episodeOver \in BOOLEAN
  BY Zenon
<1>2. NoReadings \in [1..Window -> BOOLEAN]
  BY DEF NoReadings
<1>. QED  BY <1>1, <1>2, NothingNear, PassageAssumption
          DEF SensorInv, SensorTypes, ReadingsFresh, LatchWitnessed, ClearTail

LEMMA NextKeepsSensor == SensorInv /\ [PNext]_allVars => SensorInv'
<1>. SUFFICES ASSUME SensorInv, [PNext]_allVars PROVE SensorInv'
  OBVIOUS
<1>1. CASE Elsewhere
  <2>1. state' = "ARMED" => state = "ARMED"
    BY <1>1 DEF Elsewhere, LoopStep, LoopTimerFlag, LoopFailsafe, LoopTick, LoopEnd, FsmTick,
                RelayTimerFires, UnverifiedCleanup, OtaSafeTick, CompleteRelayHold, BackToIdle, fsmVars
  <2>. QED  BY <1>1, <2>1, SensorSame DEF Elsewhere, passageVars, ghosts, sensorVars
<1>2. CASE \E r \in Reading, ok \in BOOLEAN : SampleArmed(r, ok) \/ SampleResting(r, ok)
  BY <1>2, SampleArmedKeeps, SampleRestingKeeps
<1>3. ASSUME NEW ok \in BOOLEAN, PassWithoutSample(ok) PROVE SensorInv'
  BY <1>3, SensorSame DEF PassWithoutSample, vars, fsmVars, sensorVars
<1>4. ASSUME NEW ok \in BOOLEAN, TriggerArm(ok) PROVE SensorInv'
  <2>1. CASE Admits(GateIdle /\ ok, retryQuiet)
    BY <1>4, <2>1, ArmKeepsSensor DEF TriggerArm
  <2>2. CASE ~Admits(GateIdle /\ ok, retryQuiet)
    BY <1>4, <2>2, SensorSame DEF TriggerArm, vars, fsmVars, ghosts, sensorVars
  <2>. QED  BY <2>1, <2>2
<1>5. ASSUME NEW ok \in BOOLEAN, OnAuthPending(ok) PROVE SensorInv'
  BY <1>5, SensorSame DEF OnAuthPending, HandleAuthPending, vars, fsmVars, ghosts, sensorVars
<1>6. CASE OnAuthGrantArm
  <2>1. CASE state = "AUTH_PENDING" /\ ~relayOn
    BY <1>6, <2>1, ArmKeepsSensor DEF OnAuthGrantArm
  <2>2. CASE ~(state = "AUTH_PENDING" /\ ~relayOn)
    BY <1>6, <2>2, SensorSame DEF OnAuthGrantArm, vars, fsmVars, ghosts, sensorVars
  <2>. QED  BY <2>1, <2>2
<1>7. CASE ManualPulse
  BY <1>7, PulseKeeps DEF ManualPulse, SensorInv, SensorTypes, ReadingsFresh, NearIn
<1>8. CASE OnAuthAbort
  BY <1>8, SensorSame DEF OnAuthAbort, HandleAuthAbort, BackToIdle, vars, fsmVars, ghosts, sensorVars
<1>9. CASE PRestart
  <2>1. /\ window' = NoReadings /\ blocked' = FALSE /\ clears' = 0
        /\ clearRun' = 0 /\ episodeOver' = TRUE /\ nearSeen' = 0
    BY <1>9 DEF PRestart
  <2>2. blocked' \in BOOLEAN /\ episodeOver' \in BOOLEAN
    BY <2>1, Zenon
  <2>3. NoReadings \in [1..Window -> BOOLEAN]
    BY DEF NoReadings
  <2>4. ReadingsFresh'
    BY <2>1, NothingNear DEF ReadingsFresh, NearIn
  <2>. QED  BY <2>1, <2>2, <2>3, <2>4, PassageAssumption
            DEF SensorInv, SensorTypes, LatchWitnessed, ClearTail
<1>10. CASE PTick
  BY <1>10, SensorSame DEF PTick, Tick, sensorVars
<1>11. CASE UNCHANGED allVars
  BY <1>11, SensorSame DEF allVars, vars, fsmVars, passageVars, ghosts, sensorVars
<1>. QED
  BY <1>1, <1>2, <1>3, <1>4, <1>5, <1>6, <1>7, <1>8, <1>9, <1>10, <1>11 DEF PNext

LEMMA SensorInit == PInit => SensorInv
BY RestartKeepsSensor DEF PInit

(* Only a sample that opens the gate is a pulse of the sensor. *)
LEMMA SensorPulseIsSample ==
  ASSUME PNext, SensorPulse
  PROVE  \E r \in Reading, ok \in BOOLEAN : SampleArmed(r, ok) /\ OpensOn(r)
<1>1. CASE Elsewhere
  BY <1>1 DEF SensorPulse, Elsewhere, LoopStep, LoopTimerFlag, LoopFailsafe, LoopTick, LoopEnd, FsmTick,
              RelayTimerFires, UnverifiedCleanup, OtaSafeTick, CompleteRelayHold, BackToIdle, fsmVars
<1>2. CASE \E r \in Reading, ok \in BOOLEAN : SampleArmed(r, ok) \/ SampleResting(r, ok)
  BY <1>2 DEF SensorPulse, SampleArmed, SampleResting, vars, fsmVars
<1>3. CASE \E ok \in BOOLEAN : PassWithoutSample(ok) \/ TriggerArm(ok) \/ OnAuthPending(ok)
  BY <1>3 DEF SensorPulse, PassWithoutSample, TriggerArm, HandlePreArm, OnAuthPending, HandleAuthPending,
              vars, fsmVars
<1>4. CASE OnAuthGrantArm \/ OnAuthAbort
  BY <1>4 DEF SensorPulse, OnAuthGrantArm, HandleAuthSuccess, OnAuthAbort, HandleAuthAbort, BackToIdle,
              vars, fsmVars
<1>5. CASE ManualPulse
  BY <1>5 DEF SensorPulse, ManualPulse, HandleLocalManualOpen, HandleManualRemoteOpen, SupersedeAndOpen
<1>6. CASE PRestart \/ PTick
  BY <1>6 DEF SensorPulse, PRestart, Restart, PTick, Tick
<1>. QED  BY <1>1, <1>2, <1>3, <1>4, <1>5, <1>6 DEF PNext

(* One occupied passage gets one automatic pulse, for every size of the    *)
(* filter and every number of clear readings that is more than its half.   *)
THEOREM EpisodeHasOnePulse == PSpec => OnePulsePerEpisode
<1>1. SensorInv /\ [PNext]_allVars => [SensorPulse => episodeOver]_allVars
  <2>. SUFFICES ASSUME SensorInv, PNext, SensorPulse PROVE episodeOver
    OBVIOUS
  <2>1. PICK r \in Reading : OpensOn(r)
    BY SensorPulseIsSample
  <2>2. ~blocked
    BY <2>1, BlockedNeverOpens DEF SensorPulse
  <2>. QED  BY <2>2 DEF SensorInv, LatchWitnessed
<1>. QED  BY <1>1, SensorInit, NextKeepsSensor, PTL DEF PSpec, OnePulsePerEpisode

(* The median opens the door on a majority of readings of this session.    *)
THEOREM MajorityAlwaysFresh == PSpec => FreshMajority
<1>1. SensorInv /\ [PNext]_allVars => [SensorPulse => 2 * nearSeen' > Window]_allVars
  <2>. SUFFICES ASSUME SensorInv, PNext, SensorPulse PROVE 2 * nearSeen' > Window
    OBVIOUS
  <2>1. PICK r \in Reading, ok \in BOOLEAN : SampleArmed(r, ok) /\ OpensOn(r)
    BY SensorPulseIsSample
  <2>2. SensorInv'
    BY NextKeepsSensor
  <2>. DEFINE near == Cardinality(NearIn(Pushed(r)))
  <2>3. near <= nearSeen' /\ nearSeen' \in 0..Window
    BY <2>1, <2>2 DEF SampleArmed, SensorInv, SensorTypes, ReadingsFresh, NearIn
  <2>4. 2 * near > Window
    BY <2>1 DEF OpensOn, MedianNear, NearIn
  <2>5. near \in 0..Window /\ Window \in Nat
    BY PushedTyped, NearSize, PassageAssumption DEF SensorInv
  <2>. HIDE DEF near
  <2>6. \A a, b, w \in Int : a <= b /\ 2 * a > w => 2 * b > w
    OBVIOUS
  <2>7. near \in Int /\ nearSeen' \in Int /\ Window \in Int
    BY <2>3, <2>5
  <2>. QED  BY <2>3, <2>4, <2>6, <2>7
<1>. QED  BY <1>1, SensorInit, NextKeepsSensor, PTL DEF PSpec, FreshMajority

(* What AccessFsm promises of the relay holds under the real callers.      *)
THEOREM CallersKeepPulsesSpaced == PSpec => PulseSpacing
  BY CallersAreAccessFsm, PulsesSpaced
=============================================================================
