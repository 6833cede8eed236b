--------------------------- MODULE CommandLedger ---------------------------
(***************************************************************************)
(* Signed MQTT commands at the Target: TargetCommandSecurity (replay       *)
(* ledger in two alternating flash slots) with the two callers of          *)
(* MqttManager, the ordinary receive path and the access-critical one.     *)
(*                                                                         *)
(* The broker may deliver a command late, out of order and any number of   *)
(* times; every flash write may fail before, in the middle of or after     *)
(* writing; power may be lost between any two steps.                       *)
(*                                                                         *)
(* A command stands for its whole signed envelope, so two commands never   *)
(* share a nonce; a message whose signature, identity or schema is wrong   *)
(* is answered before any state is read and is left out.                   *)
(***************************************************************************)
EXTENDS Naturals

CONSTANTS
    Commands,      \* the signed commands the Backend may ever send
    Issued,        \* issued_at of each command
    Kind,          \* its action: "arm", "manual", "setting" or "reboot"
    Entries,       \* kCommandReplayEntries, the size of the ring
    ReadsMayFail,  \* whether a valid slot may be unreadable at boot
    MaxBoot,       \* bound: the number of boots explored
    NoCommand,     \* an empty ring entry, or no command in progress
    NoLedger       \* a slot that is absent or fails its CRC

Kinds == {"arm", "manual", "setting", "reboot"}

ASSUME CommandsAssumption ==
    /\ NoCommand \notin Commands
    /\ Issued \in [Commands -> Nat \ {0}]
    /\ Kind \in [Commands -> Kinds]
ASSUME LedgerAssumption ==
    /\ Entries \in Nat \ {0}
    /\ ReadsMayFail \in BOOLEAN
    /\ MaxBoot \in Nat \ {0}

VARIABLES
    boot,     \* number of this boot; the random boot_id is never reused
    bootOf,   \* the boot a command was signed for, 0 while unpublished
    expired,  \* commands past expires_at
    flash,    \* the two stored ledgers
    ram,      \* ledger_
    active,   \* active_slot_
    ready,    \* ready_, without which the command plane stays off
    step,     \* where loopTask is in the handling of a command
    current,  \* the command being handled
    critical, \* criticalIngressDispatch: received in an access-critical phase
    done,     \* the effect of the current command was carried out
    tracker,  \* signedCommandAccessTracker.active()
    effects,  \* history: how often each command was acted on
    refused,  \* history: commands answered with a final refusal
    interrupted \* history: commands a reset caught before their completion

stored == <<flash, ram, active>>
handling == <<step, current, critical, done>>
history == <<effects, refused, interrupted>>
vars == <<boot, bootOf, expired, stored, ready, handling, tracker, history>>

Index == 0 .. Entries - 1
Slots == {0, 1}
Entry == [cmd : Commands \cup {NoCommand}, state : 0 .. 2]
Ledger == [gen : Nat, next : Index, floor : Nat, entries : [Index -> Entry]]

ASSUME NoLedgerAssumption == NoLedger \notin Ledger

EmptyLedger == [gen |-> 0, next |-> 0, floor |-> 0,
                entries |-> [i \in Index |-> [cmd |-> NoCommand, state |-> 0]]]

Steps == {"receive",  \* nothing in hand
          "act",      \* recorded; the effect comes next
          "settle",   \* to be marked completed and answered
          "close",    \* answered before its effect; to be marked completed
          "retire"}   \* expired while it was recorded; to be marked completed

\* Results after which a command is over; "Accepted", "StorageFailure" and
\* "ClockUntrusted" are not among them.
FinalRefusals == {"EffectRejected", "BootMismatch", "Expired",
                  "DuplicateCompleted", "DuplicateUncertain"}

\* The commands a ledger will not accept (again).
Held(l) == {c \in Commands : \E i \in Index : l.entries[i].cmd = c}
Retired(l) == {c \in Commands : Issued[c] <= l.floor}
Recorded(l) == Held(l) \cup Retired(l)

-----------------------------------------------------------------------------
(* Storage *)

\* How a write ends: stored and read back; refused; torn; or written although
\* the write or its read-back reports a failure.
WriteOutcomes == {"stored", "refused", "torn", "misreported"}

Sealed(l) == [l EXCEPT !.gen = @ + 1]

CandidateSlot(a) == 1 - a

\* persistLedger with the restoration of ledger_ that all its callers do.
Persist(l, how) ==
    /\ flash' = [flash EXCEPT ![CandidateSlot(active)] =
                    CASE how = "refused" -> @
                      [] how = "torn" -> NoLedger
                      [] OTHER -> Sealed(l)]
    /\ IF how = "stored"
         THEN ram' = Sealed(l) /\ active' = CandidateSlot(active)
         ELSE UNCHANGED <<ram, active>>

\* Mutant: prefers the first slot.
FirstOf(V) == IF 0 \in V THEN 0 ELSE 1
NewestOf(V) ==
    IF 1 \in V /\ (0 \notin V \/ flash[1].gen > flash[0].gen) THEN 1 ELSE 0

\* The slots that read back as valid.
ReadableSets ==
    LET valid == {i \in Slots : flash[i] # NoLedger}
    IN IF ReadsMayFail THEN SUBSET valid ELSE {valid}

Load(V, how) ==
    IF V = {}
      THEN /\ flash' = [flash EXCEPT ![1] =
                           CASE how = "refused" -> @
                             [] how = "torn" -> NoLedger
                             [] OTHER -> Sealed(EmptyLedger)]
           /\ ready' = (how = "stored")
           /\ ram' = Sealed(EmptyLedger)
           /\ active' = IF how = "stored" THEN 1 ELSE 0
      ELSE /\ active' = NewestOf(V)
           /\ ram' = flash[NewestOf(V)]
           /\ ready' = TRUE
           /\ UNCHANGED flash

-----------------------------------------------------------------------------
(* The ledger *)

\* The entry authorize() adds, and the floor that keeps the evicted one out.
\* Mutants: the evicted command is forgotten; the index is not wrapped.
RecordForgetting(l, c) ==
    [l EXCEPT !.entries = [@ EXCEPT ![l.next] = [cmd |-> c, state |-> 1]],
              !.next = (l.next + 1) % Entries]
RecordAccepted(l, c) ==
    LET old == l.entries[l.next].cmd
    IN [l EXCEPT
          !.floor = IF old # NoCommand /\ Issued[old] > @ THEN Issued[old] ELSE @,
          !.entries = [@ EXCEPT ![l.next] = [cmd |-> c, state |-> 1]],
          !.next = (l.next + 1) % Entries]

\* Mutant: completion frees the entry.
FreeEntry(l, c) ==
    [l EXCEPT !.entries = [i \in Index |->
        IF @[i].cmd = c THEN [cmd |-> NoCommand, state |-> 0] ELSE @[i]]]
Completed(l, c) ==
    [l EXCEPT !.entries = [i \in Index |->
        IF @[i].cmd = c THEN [@[i] EXCEPT !.state = 2] ELSE @[i]]]

\* The checks of authorize(), in their order.
Verdict(c, clockTrusted) ==
    CASE bootOf[c] # boot -> "BootMismatch"
      [] bootOf[c] = boot /\ ~clockTrusted -> "ClockUntrusted"
      [] bootOf[c] = boot /\ clockTrusted /\ c \in expired -> "Expired"
      [] OTHER ->
           IF c \in Held(ram)
             THEN IF \E i \in Index : ram.entries[i] = [cmd |-> c, state |-> 2]
                    THEN "DuplicateCompleted" ELSE "DuplicateUncertain"
             ELSE IF c \in Retired(ram) THEN "Expired" ELSE "Accepted"

\* The application answer, of which only a final refusal is kept.
Answer(c, result) ==
    refused' = IF result \in FinalRefusals THEN refused \cup {c} ELSE refused

ActedOn(c) == effects' = [effects EXCEPT ![c] = @ + 1]

-----------------------------------------------------------------------------
(* The Backend, the broker and time *)

\* The Backend signs for the boot it knows, which may be an earlier one.
Publish(c, b) ==
    /\ bootOf[c] = 0
    /\ b <= boot
    /\ bootOf' = [bootOf EXCEPT ![c] = b]
    /\ UNCHANGED <<boot, expired, stored, ready, handling, tracker, history>>

Expire(c) ==
    /\ bootOf[c] # 0 /\ c \notin expired
    /\ expired' = expired \cup {c}
    /\ UNCHANGED <<boot, bootOf, stored, ready, handling, tracker, history>>

-----------------------------------------------------------------------------
(* MqttManager::callback *)

Delivered(c) == ready /\ step = "receive" /\ bootOf[c] # 0

\* A command that authorize() does not accept.
Refuse(c, clockTrusted) ==
    /\ Delivered(c)
    /\ Verdict(c, clockTrusted) # "Accepted"
    /\ Answer(c, Verdict(c, clockTrusted))
    /\ UNCHANGED <<boot, bootOf, expired, stored, ready, handling, tracker,
                   effects, interrupted>>

Access(c) == Kind[c] \in {"arm", "manual"}

\* What follows the acceptance of c: its effect, or its settlement without.
NextStep(c, inCritical, lastSecond) ==
    CASE inCritical /\ lastSecond -> "retire"
      [] inCritical /\ ~lastSecond -> IF Kind[c] = "manual" THEN "act" ELSE "settle"
      [] ~inCritical /\ Access(c) -> IF tracker THEN "settle" ELSE "act"
      [] ~inCritical /\ ~Access(c) -> IF Kind[c] = "setting" THEN "act" ELSE "settle"

\* authorize() accepts c and records it before anything else happens. On the
\* ordinary path an access is answered before its effect, so that no TLS
\* write follows the physical transition.
Accept(c, inCritical, lastSecond, how) ==
    /\ Delivered(c)
    /\ Verdict(c, TRUE) = "Accepted"
    /\ Persist(RecordAccepted(ram, c), how)
    /\ IF how # "stored"
         THEN Answer(c, "StorageFailure") /\ UNCHANGED <<handling, tracker>>
         ELSE /\ step' = NextStep(c, inCritical, lastSecond)
              /\ current' = c
              /\ critical' = inCritical
              /\ done' = (Kind[c] = "reboot" /\ ~inCritical)
              /\ IF Access(c) /\ ~inCritical /\ ~tracker
                   THEN Answer(c, "Accepted") /\ tracker' = TRUE
                   ELSE UNCHANGED <<refused, tracker>>
    /\ UNCHANGED <<boot, bootOf, expired, ready, effects, interrupted>>

\* The effect: dispatchPendingAccessCommand, dispatchCriticalManual or the
\* setting's own case. The gate or the setting may refuse it; a critical
\* manual open is refused while another signed access is under way.
Act(works) ==
    /\ step = "act"
    /\ critical /\ tracker => ~works
    /\ IF works THEN ActedOn(current) ELSE UNCHANGED effects
    /\ done' = works
    /\ tracker' = IF Access(current) /\ ~(critical /\ tracker) THEN works ELSE tracker
    /\ step' = IF Access(current) /\ ~critical THEN "close" ELSE "settle"
    /\ UNCHANGED <<boot, bootOf, expired, stored, ready, current, critical,
                   refused, interrupted>>

\* The answer that goes with markCompleted().
Outcome(how) ==
    CASE how # "stored" -> "StorageFailure"
      [] how = "stored" /\ step = "retire" -> "Expired"
      [] how = "stored" /\ step # "retire" -> IF done THEN "Accepted" ELSE "EffectRejected"

\* markCompleted() and the application answer; a reboot is staged only once
\* its completion is stored.
Settle(how) ==
    /\ step \in {"settle", "close", "retire"}
    /\ Persist(Completed(ram, current), how)
    /\ IF step = "close" THEN UNCHANGED refused ELSE Answer(current, Outcome(how))
    /\ IF Kind[current] = "reboot" /\ done /\ how = "stored"
         THEN ActedOn(current) ELSE UNCHANGED effects
    /\ step' = "receive" /\ current' = NoCommand
    /\ critical' = FALSE /\ done' = FALSE
    /\ UNCHANGED <<boot, bootOf, expired, ready, tracker, interrupted>>

\* The access of a signed command reaches its terminal event.
AccessEnds ==
    /\ tracker /\ step = "receive"
    /\ tracker' = FALSE
    /\ UNCHANGED <<boot, bootOf, expired, stored, ready, handling, history>>

\* Power loss, watchdog or restart at any moment, then begin() of a new boot.
Reset(V, how) ==
    /\ boot < MaxBoot
    /\ boot' = boot + 1
    /\ Load(V, how)
    /\ interrupted' = IF step = "receive" THEN interrupted
                                          ELSE interrupted \cup {current}
    /\ step' = "receive" /\ current' = NoCommand
    /\ critical' = FALSE /\ done' = FALSE /\ tracker' = FALSE
    /\ UNCHANGED <<bootOf, expired, effects, refused>>

-----------------------------------------------------------------------------
\* A Target that has just initialised its first ledger.
Init ==
    /\ boot = 1
    /\ bootOf = [c \in Commands |-> 0]
    /\ expired = {}
    /\ flash = [i \in Slots |-> IF i = 1 THEN Sealed(EmptyLedger) ELSE NoLedger]
    /\ ram = Sealed(EmptyLedger) /\ active = 1 /\ ready = TRUE
    /\ step = "receive" /\ current = NoCommand
    /\ critical = FALSE /\ done = FALSE /\ tracker = FALSE
    /\ effects = [c \in Commands |-> 0]
    /\ refused = {} /\ interrupted = {}

Next ==
    \/ \E c \in Commands, b \in 1 .. boot : Publish(c, b)
    \/ \E c \in Commands : Expire(c)
    \/ \E c \in Commands, clockTrusted \in BOOLEAN : Refuse(c, clockTrusted)
    \/ \E c \in Commands, inCritical, lastSecond \in BOOLEAN,
          how \in WriteOutcomes : Accept(c, inCritical, lastSecond, how)
    \/ \E works \in BOOLEAN : Act(works)
    \/ \E how \in WriteOutcomes : Settle(how)
    \/ AccessEnds
    \/ \E V \in ReadableSets, how \in WriteOutcomes : Reset(V, how)

Spec == Init /\ [][Next]_vars

-----------------------------------------------------------------------------
(* Properties *)

\* The type invariant. It also says that both the ledger in RAM and the stored
\* ones are well formed, which validLedger() assumes of what it indexes.
LTypeOK ==
    /\ boot \in 1 .. MaxBoot /\ bootOf \in [Commands -> 0 .. MaxBoot]
    /\ expired \subseteq Commands
    /\ flash \in [Slots -> Ledger \cup {NoLedger}]
    /\ ram \in Ledger /\ active \in Slots /\ ready \in BOOLEAN
    /\ step \in Steps /\ current \in Commands \cup {NoCommand}
    /\ critical \in BOOLEAN /\ done \in BOOLEAN /\ tracker \in BOOLEAN
    /\ effects \in [Commands -> Nat]
    /\ refused \subseteq Commands /\ interrupted \subseteq Commands

\* However often and however late the broker delivers a command, and whatever
\* the flash does, the Target acts on it at most once: the ring may have
\* evicted it, but then the floor keeps it out.
AtMostOnce == \A c \in Commands : effects[c] <= 1

\* A command that has been acted on is in what the next boot will load: its
\* record was durable before the effect, and no write, failed or torn, of any
\* later command takes it away ("persisted before the effect").
ActedIsDurable ==
    ~ReadsMayFail =>
        LET valid == {i \in Slots : flash[i] # NoLedger}
        IN /\ valid # {}
           /\ \A c \in Commands :
                 effects[c] > 0 => c \in Recorded(flash[NewestOf(valid)])

\* A command answered with a final refusal is never acted on later, not after
\* the access that blocked it has ended, nor after a reset ("durably retired
\* rather than resurrected").
NothingAfterRefusal ==
    [][\A c \in refused : effects'[c] = effects[c]]_vars

\* A reset forgets nothing that RAM held back before it.
NothingForgotten ==
    [][boot' # boot /\ ~ReadsMayFail => Recorded(ram) \subseteq Recorded(ram')]_vars

\* "a reset before completion returns duplicate_uncertain": what the
\* documentation says a command in time is answered when a reset caught it
\* between its record and its completion. Verdict checks the boot first.
ResetAnsweredUncertain ==
    \A c \in interrupted \ expired : Verdict(c, TRUE) = "DuplicateUncertain"

=============================================================================
