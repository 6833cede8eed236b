------------------------ MODULE CommandLedgerProofs ------------------------
(* Proofs about CommandLedger, for any commands, any ring size and any number
   of boots. *)
EXTENDS CommandLedger, TLAPS

-----------------------------------------------------------------------------
(* What the ledger operators keep *)

LEMMA Wraps == \A i \in Index : (i + 1) % Entries \in Index
BY LedgerAssumption, SMT DEF Index

LEMMA RecordAcceptedKeeps ==
    ASSUME NEW l \in Ledger, NEW c \in Commands
    PROVE  /\ RecordAccepted(l, c) \in Ledger
           /\ RecordAccepted(l, c).gen = l.gen
           /\ Recorded(l) \subseteq Recorded(RecordAccepted(l, c))
           /\ c \in Held(RecordAccepted(l, c))
<1> DEFINE old == l.entries[l.next].cmd
           up == IF old # NoCommand /\ Issued[old] > l.floor THEN Issued[old] ELSE l.floor
           n == RecordAccepted(l, c)
<1>1. /\ l.gen \in Nat /\ l.next \in Index /\ l.floor \in Nat
      /\ l.entries \in [Index -> Entry]
      /\ DOMAIN l = {"gen", "next", "floor", "entries"}
  BY DEF Ledger
<1>2. l.entries[l.next] \in Entry
  BY <1>1
<1>3. old \in Commands \cup {NoCommand}
  BY <1>2 DEF Entry
<1>4. up \in Nat /\ up >= l.floor /\ (old # NoCommand => Issued[old] <= up)
  BY <1>1, <1>3, CommandsAssumption
<1>5. [cmd |-> c, state |-> 1] \in Entry
  BY DEF Entry
<1>6. n = [gen |-> l.gen, next |-> (l.next + 1) % Entries, floor |-> up,
           entries |-> [l.entries EXCEPT ![l.next] = [cmd |-> c, state |-> 1]]]
  <2> DEFINE es == [l.entries EXCEPT ![l.next] = [cmd |-> c, state |-> 1]]
             nx == (l.next + 1) % Entries
  <2>1. n = [l EXCEPT !.floor = up, !.entries = es, !.next = nx]
    BY DEF RecordAccepted
  <2> HIDE DEF es, nx, up, n
  <2>2. n = [gen |-> l.gen, next |-> nx, floor |-> up, entries |-> es]
    BY <2>1 DEF Ledger
  <2> QED BY <2>2 DEF es, nx
<1>7. n \in Ledger
  BY <1>1, <1>4, <1>5, <1>6, Wraps DEF Ledger
<1>8. \A i \in Index : i # l.next => n.entries[i] = l.entries[i]
  BY <1>1, <1>6
<1>9. n.entries[l.next].cmd = c /\ n.floor = up /\ n.gen = l.gen
  BY <1>1, <1>6
<1>10. c \in Held(n)
  BY <1>1, <1>9 DEF Held
<1>11. ASSUME NEW d \in Recorded(l) PROVE d \in Recorded(n)
  <2>1. d \in Commands /\ Issued[d] \in Nat
    BY <1>11, CommandsAssumption DEF Recorded, Held, Retired
  <2>2. CASE d \in Retired(l)
    BY <2>1, <2>2, <1>1, <1>4, <1>9 DEF Recorded, Retired
  <2>3. CASE d \in Held(l)
    <3>1. PICK i \in Index : l.entries[i].cmd = d
      BY <2>3 DEF Held
    <3>2. CASE i # l.next
      BY <3>1, <3>2, <2>1, <1>8 DEF Recorded, Held
    <3>3. CASE i = l.next
      <4>1. old = d /\ d # NoCommand
        BY <3>1, <3>3, <2>1, CommandsAssumption
      <4>2. Issued[d] <= n.floor
        BY <4>1, <1>4, <1>9
      <4> QED BY <4>2, <2>1 DEF Recorded, Retired
    <3> QED BY <3>2, <3>3
  <2> QED BY <2>2, <2>3, <1>11 DEF Recorded
<1> QED BY <1>7, <1>9, <1>10, <1>11

LEMMA CompletedKeeps ==
    ASSUME NEW l \in Ledger, NEW c
    PROVE  /\ Completed(l, c) \in Ledger
           /\ Completed(l, c).gen = l.gen
           /\ Held(Completed(l, c)) = Held(l)
           /\ Recorded(Completed(l, c)) = Recorded(l)
<1> DEFINE n == Completed(l, c)
           es == [i \in Index |-> IF l.entries[i].cmd = c
                     THEN [l.entries[i] EXCEPT !.state = 2] ELSE l.entries[i]]
<1>1. /\ l.gen \in Nat /\ l.next \in Index /\ l.floor \in Nat
      /\ l.entries \in [Index -> Entry]
  BY DEF Ledger
<1>2. n = [gen |-> l.gen, next |-> l.next, floor |-> l.floor, entries |-> es]
  BY <1>1 DEF Completed, Ledger
<1>3. \A i \in Index : es[i] \in Entry /\ es[i].cmd = l.entries[i].cmd
  BY <1>1 DEF Entry
<1>4. es \in [Index -> Entry]
  BY <1>3
<1>5. n \in Ledger /\ n.gen = l.gen /\ n.floor = l.floor /\ n.entries = es
  BY <1>1, <1>2, <1>4 DEF Ledger
<1>6. Held(n) = Held(l)
  BY <1>3, <1>5 DEF Held
<1>7. Retired(n) = Retired(l)
  BY <1>5 DEF Retired
<1> QED BY <1>5, <1>6, <1>7 DEF Recorded

LEMMA SealedKeeps ==
    ASSUME NEW l \in Ledger
    PROVE  /\ Sealed(l) \in Ledger
           /\ Sealed(l).gen = l.gen + 1
           /\ Held(Sealed(l)) = Held(l)
           /\ Recorded(Sealed(l)) = Recorded(l)
<1>1. /\ l.gen \in Nat /\ l.next \in Index /\ l.floor \in Nat
      /\ l.entries \in [Index -> Entry]
  BY DEF Ledger
<1>2. Sealed(l) = [gen |-> l.gen + 1, next |-> l.next, floor |-> l.floor,
                   entries |-> l.entries]
  BY DEF Sealed, Ledger
<1>3. Sealed(l) \in Ledger /\ Sealed(l).gen = l.gen + 1
      /\ Sealed(l).floor = l.floor /\ Sealed(l).entries = l.entries
  BY <1>1, <1>2 DEF Ledger
<1> QED BY <1>3 DEF Held, Recorded, Retired

LEMMA EmptyIsLedger == EmptyLedger \in Ledger
<1>1. 0 \in Index
  BY LedgerAssumption DEF Index
<1>2. [cmd |-> NoCommand, state |-> 0] \in Entry
  BY DEF Entry
<1> QED BY <1>1, <1>2 DEF EmptyLedger, Ledger
-----------------------------------------------------------------------------
(* Types, and each command at most once *)

\* The command in hand is of this boot and recorded in RAM; it has not been
\* acted on while its effect is still to come.
InHand ==
    step # "receive" =>
        /\ current \in Commands /\ bootOf[current] = boot
        /\ current \in Held(ram)
        /\ step = "act" => effects[current] = 0 /\ Kind[current] # "reboot"
        /\ Kind[current] = "reboot" /\ done => effects[current] = 0

\* What has been acted on cannot be accepted again: it is recorded in RAM, or
\* was signed for an earlier boot.
ActedOnce ==
    \A c \in Commands : effects[c] # 0 =>
        /\ effects[c] = 1
        /\ bootOf[c] # 0
        /\ bootOf[c] = boot => c \in Recorded(ram)

BootsKnown == \A c \in Commands : bootOf[c] <= boot

LedgerInv == LTypeOK /\ InHand /\ ActedOnce /\ BootsKnown

Stable == UNCHANGED <<boot, bootOf, expired, ready>>

LEMMA PersistEffect ==
    ASSUME LTypeOK, NEW l \in Ledger, NEW how \in WriteOutcomes, Persist(l, how)
    PROVE  /\ flash' \in [Slots -> Ledger \cup {NoLedger}]
           /\ ram' \in Ledger /\ active' \in Slots
           /\ how = "stored" => ram' = Sealed(l)
           /\ how # "stored" => ram' = ram
<1>1. Sealed(l) \in Ledger
  BY SealedKeeps
<1>2. CandidateSlot(active) \in Slots
  BY DEF LTypeOK, CandidateSlot, Slots
<1>3. flash' \in [Slots -> Ledger \cup {NoLedger}]
  <2>1. (CASE how = "refused" -> flash[CandidateSlot(active)]
           [] how = "torn" -> NoLedger
           [] OTHER -> Sealed(l)) \in Ledger \cup {NoLedger}
    BY <1>1, <1>2 DEF LTypeOK
  <2> QED BY <2>1, <1>2 DEF LTypeOK, Persist
<1>4. /\ ram' \in Ledger /\ active' \in Slots
      /\ how = "stored" => ram' = Sealed(l)
      /\ how # "stored" => ram' = ram
  BY <1>1, <1>2 DEF LTypeOK, Persist
<1> QED BY <1>3, <1>4

LEMMA LoadEffect ==
    ASSUME LTypeOK, NEW V \in ReadableSets, NEW how \in WriteOutcomes, Load(V, how)
    PROVE  /\ flash' \in [Slots -> Ledger \cup {NoLedger}]
           /\ ram' \in Ledger /\ active' \in Slots /\ ready' \in BOOLEAN
<1>1. V \subseteq Slots /\ \A i \in V : flash[i] \in Ledger
  BY LedgerAssumption DEF ReadableSets, LTypeOK
<1>2. CASE V = {}
  <2>1. Sealed(EmptyLedger) \in Ledger
    BY SealedKeeps, EmptyIsLedger
  <2>2. (CASE how = "refused" -> flash[1] [] how = "torn" -> NoLedger
           [] OTHER -> Sealed(EmptyLedger)) \in Ledger \cup {NoLedger}
    BY <2>1 DEF LTypeOK, Slots
  <2>3. flash' \in [Slots -> Ledger \cup {NoLedger}]
    BY <1>2, <2>2 DEF LTypeOK, Load
  <2>4. ready' \in BOOLEAN
    BY <1>2, Zenon DEF Load
  <2> QED BY <1>2, <2>1, <2>3, <2>4 DEF Load, Slots
<1>3. CASE V # {}
  <2>1. NewestOf(V) \in V
    BY <1>1, <1>3 DEF NewestOf, Slots
  <2> QED BY <1>1, <1>3, <2>1 DEF Load, LTypeOK
<1> QED BY <1>2, <1>3

LEMMA LedgerInit == Init => LedgerInv
<1> SUFFICES ASSUME Init PROVE LedgerInv
  OBVIOUS
<1>1. Sealed(EmptyLedger) \in Ledger
  BY SealedKeeps, EmptyIsLedger
<1>2. LTypeOK
  <2>1. flash \in [Slots -> Ledger \cup {NoLedger}]
    BY <1>1 DEF Init
  <2>2. /\ boot \in 1 .. MaxBoot /\ bootOf \in [Commands -> 0 .. MaxBoot]
        /\ effects \in [Commands -> Nat]
    BY LedgerAssumption DEF Init
  <2> QED BY <1>1, <2>1, <2>2 DEF Init, LTypeOK, Slots, Steps
<1>3. InHand /\ ActedOnce /\ BootsKnown
  BY DEF Init, InHand, ActedOnce, BootsKnown
<1> QED BY <1>2, <1>3 DEF LedgerInv

\* A command accepted in this boot has not been acted on.
LEMMA AcceptedIsFresh ==
    ASSUME LedgerInv, NEW c \in Commands, Verdict(c, TRUE) = "Accepted"
    PROVE  bootOf[c] = boot /\ effects[c] = 0
<1>1. bootOf[c] = boot
  BY DEF Verdict
<1>2. c \notin Held(ram) /\ c \notin Retired(ram)
  BY <1>1 DEF Verdict
<1> QED BY <1>1, <1>2 DEF LedgerInv, ActedOnce, Recorded

LEMMA AcceptKeeps ==
    ASSUME LedgerInv, NEW c \in Commands, NEW inCritical \in BOOLEAN,
           NEW lastSecond \in BOOLEAN, NEW how \in WriteOutcomes,
           Accept(c, inCritical, lastSecond, how)
    PROVE  LedgerInv'
<1> DEFINE l == RecordAccepted(ram, c)
<1>1. /\ l \in Ledger /\ Recorded(ram) \subseteq Recorded(l) /\ c \in Held(l)
  BY RecordAcceptedKeeps DEF LedgerInv, LTypeOK
<1>2. Persist(l, how)
  BY DEF Accept
<1> HIDE DEF l
<1>3. /\ flash' \in [Slots -> Ledger \cup {NoLedger}]
      /\ ram' \in Ledger /\ active' \in Slots
      /\ how = "stored" => ram' = Sealed(l)
      /\ how # "stored" => ram' = ram
  BY <1>1, <1>2, PersistEffect DEF LedgerInv
<1>4. /\ Recorded(ram) \subseteq Recorded(ram')
      /\ how = "stored" => c \in Held(ram')
  BY <1>1, <1>3, SealedKeeps
<1>5. bootOf[c] = boot /\ effects[c] = 0
  BY AcceptedIsFresh DEF Accept
<1>6. UNCHANGED <<boot, bootOf, expired, ready, effects, interrupted>>
  BY DEF Accept
<1>7. refused' \subseteq Commands
  BY DEF Accept, Answer, LedgerInv, LTypeOK
<1>8. CASE how # "stored"
  <2>1. UNCHANGED <<handling, tracker, ram>>
    BY <1>3, <1>8 DEF Accept
  <2>2. LTypeOK'
    BY <2>1, <1>3, <1>6, <1>7 DEF LedgerInv, LTypeOK, handling
  <2>3. (InHand /\ ActedOnce /\ BootsKnown)'
    BY <2>1, <1>6 DEF LedgerInv, InHand, ActedOnce, BootsKnown, handling, Held,
                      Recorded, Retired
  <2> QED BY <2>2, <2>3 DEF LedgerInv
<1>9. CASE how = "stored"
  <2>1. /\ step' = NextStep(c, inCritical, lastSecond)
        /\ current' = c /\ critical' = inCritical
        /\ done' = (Kind[c] = "reboot" /\ ~inCritical)
    BY <1>9 DEF Accept
  <2>2. Kind[c] \in Kinds
    BY CommandsAssumption
  <2>3. step' \in Steps /\ (step' = "act" => Kind[c] # "reboot")
    BY <2>1, <2>2 DEF NextStep, Steps, Kinds, Access
  <2>4. done' \in BOOLEAN
    BY <2>1, Zenon
  <2>5. tracker' \in BOOLEAN
    <3>1. tracker' = TRUE \/ tracker' = tracker
      BY <1>9, Zenon DEF Accept
    <3>2. tracker \in BOOLEAN
      BY DEF LedgerInv, LTypeOK
    <3> QED BY <3>1, <3>2, Zenon
  <2>6. LTypeOK'
    BY <2>1, <2>3, <2>4, <2>5, <1>3, <1>6, <1>7 DEF LedgerInv, LTypeOK
  <2>7. InHand'
    BY <2>1, <2>3, <1>4, <1>5, <1>6, <1>9 DEF InHand
  <2>8. (ActedOnce /\ BootsKnown)'
    BY <1>4, <1>6 DEF LedgerInv, ActedOnce, BootsKnown
  <2> QED BY <2>6, <2>7, <2>8 DEF LedgerInv
<1> QED BY <1>8, <1>9

LEMMA ActKeeps ==
    ASSUME LedgerInv, NEW works \in BOOLEAN, Act(works)
    PROVE  LedgerInv'
<1>1. /\ current \in Commands /\ bootOf[current] = boot /\ current \in Held(ram)
      /\ effects[current] = 0 /\ Kind[current] # "reboot"
  BY DEF LedgerInv, InHand, Act
<1>2. /\ UNCHANGED <<boot, bootOf, expired, ready, current, critical, refused, interrupted>>
      /\ UNCHANGED <<flash, ram, active>>
      /\ done' = works /\ step' \in {"close", "settle"}
  BY DEF Act, stored
<1>3. /\ effects' \in [Commands -> Nat]
      /\ \A d \in Commands : d # current => effects'[d] = effects[d]
      /\ effects'[current] \in {0, 1}
  <2>1. CASE works
    BY <2>1, <1>1 DEF Act, ActedOn, LedgerInv, LTypeOK
  <2>2. CASE ~works
    BY <2>2, <1>1 DEF Act, LedgerInv, LTypeOK
  <2> QED BY <2>1, <2>2
<1>4. tracker' \in BOOLEAN
  <2>1. tracker' = works \/ tracker' = tracker
    BY Zenon DEF Act
  <2>2. tracker \in BOOLEAN
    BY DEF LedgerInv, LTypeOK
  <2> QED BY <2>1, <2>2, Zenon
<1>5. LTypeOK'
  BY <1>2, <1>3, <1>4 DEF LedgerInv, LTypeOK, Steps
<1>6. InHand'
  BY <1>1, <1>2 DEF InHand, Held
<1>7. ActedOnce'
  <2> SUFFICES ASSUME NEW d \in Commands, effects'[d] # 0
               PROVE  /\ effects'[d] = 1 /\ bootOf[d] # 0
                      /\ bootOf[d] = boot => d \in Recorded(ram)
    BY <1>2 DEF ActedOnce, Recorded, Held, Retired
  <2>1. CASE d = current
    BY <2>1, <1>1, <1>3 DEF Recorded, LedgerInv, LTypeOK
  <2>2. CASE d # current
    BY <2>2, <1>3 DEF LedgerInv, ActedOnce
  <2> QED BY <2>1, <2>2
<1>8. BootsKnown'
  BY <1>2 DEF LedgerInv, BootsKnown
<1> QED BY <1>5, <1>6, <1>7, <1>8 DEF LedgerInv

LEMMA SettleKeeps ==
    ASSUME LedgerInv, NEW how \in WriteOutcomes, Settle(how)
    PROVE  LedgerInv'
<1> DEFINE l == Completed(ram, current)
<1>1. /\ current \in Commands /\ bootOf[current] = boot /\ current \in Held(ram)
      /\ Kind[current] = "reboot" /\ done => effects[current] = 0
  BY DEF LedgerInv, InHand, Settle
<1>2. l \in Ledger /\ Recorded(l) = Recorded(ram)
  BY CompletedKeeps DEF LedgerInv, LTypeOK
<1>3. Persist(l, how)
  BY DEF Settle
<1> HIDE DEF l
<1>4. /\ flash' \in [Slots -> Ledger \cup {NoLedger}]
      /\ ram' \in Ledger /\ active' \in Slots
      /\ Recorded(ram') = Recorded(ram)
  BY <1>2, <1>3, PersistEffect, SealedKeeps DEF LedgerInv
<1>5. /\ UNCHANGED <<boot, bootOf, expired, ready, tracker, interrupted>>
      /\ step' = "receive" /\ current' = NoCommand /\ critical' = FALSE /\ done' = FALSE
  BY DEF Settle
<1>6. refused' \subseteq Commands
  BY <1>1 DEF Settle, Answer, LedgerInv, LTypeOK
<1>7. /\ effects' \in [Commands -> Nat]
      /\ \A d \in Commands : d # current => effects'[d] = effects[d]
      /\ effects'[current] = effects[current] \/ effects'[current] = 1
  <2>1. CASE Kind[current] = "reboot" /\ done /\ how = "stored"
    BY <2>1, <1>1 DEF Settle, ActedOn, LedgerInv, LTypeOK
  <2>2. CASE ~(Kind[current] = "reboot" /\ done /\ how = "stored")
    BY <2>2 DEF Settle, LedgerInv, LTypeOK
  <2> QED BY <2>1, <2>2
<1>8. LTypeOK'
  BY <1>4, <1>5, <1>6, <1>7 DEF LedgerInv, LTypeOK, Steps
<1>9. InHand' /\ BootsKnown'
  BY <1>5 DEF InHand, LedgerInv, BootsKnown
<1>10. ActedOnce'
  <2> SUFFICES ASSUME NEW d \in Commands, effects'[d] # 0
               PROVE  /\ effects'[d] = 1 /\ bootOf[d] # 0
                      /\ bootOf[d] = boot => d \in Recorded(ram)
    BY <1>4, <1>5 DEF ActedOnce
  <2>1. CASE d = current
    BY <2>1, <1>1, <1>7 DEF Recorded, LedgerInv, LTypeOK, ActedOnce
  <2>2. CASE d # current
    BY <2>2, <1>7 DEF LedgerInv, ActedOnce
  <2> QED BY <2>1, <2>2
<1> QED BY <1>8, <1>9, <1>10 DEF LedgerInv

LEMMA ResetKeeps ==
    ASSUME LedgerInv, NEW V \in ReadableSets, NEW how \in WriteOutcomes,
           Reset(V, how)
    PROVE  LedgerInv'
<1>1. /\ flash' \in [Slots -> Ledger \cup {NoLedger}]
      /\ ram' \in Ledger /\ active' \in Slots /\ ready' \in BOOLEAN
  BY LoadEffect DEF LedgerInv, Reset
<1>2. boot' = boot + 1 /\ boot' \in 1 .. MaxBoot /\ boot \in Nat
  BY LedgerAssumption DEF Reset, LedgerInv, LTypeOK
<1>3. interrupted' \subseteq Commands
  BY DEF Reset, LedgerInv, LTypeOK, InHand
<1>4. /\ step' = "receive" /\ current' = NoCommand
      /\ critical' = FALSE /\ done' = FALSE /\ tracker' = FALSE
      /\ UNCHANGED <<bootOf, expired, effects, refused>>
  BY DEF Reset
<1>5. LTypeOK'
  BY <1>1, <1>2, <1>3, <1>4 DEF LedgerInv, LTypeOK, Steps
<1>6. \A c \in Commands : bootOf'[c] \in Nat /\ bootOf'[c] <= boot
  BY <1>2, <1>4, LedgerAssumption DEF LedgerInv, LTypeOK, BootsKnown
<1>7. (InHand /\ ActedOnce /\ BootsKnown)'
  BY <1>2, <1>4, <1>6 DEF InHand, LedgerInv, ActedOnce, BootsKnown
<1> QED BY <1>5, <1>7 DEF LedgerInv

LEMMA LedgerStep == LedgerInv /\ [Next]_vars => LedgerInv'
<1> SUFFICES ASSUME LedgerInv, [Next]_vars PROVE LedgerInv'
  OBVIOUS
<1>1. ASSUME NEW c \in Commands, NEW b \in 1 .. boot, Publish(c, b)
      PROVE  LedgerInv'
  <2>1. /\ UNCHANGED <<boot, expired, stored, ready, handling, tracker, history>>
        /\ bootOf[c] = 0 /\ bootOf' = [bootOf EXCEPT ![c] = b]
    BY <1>1 DEF Publish
  <2>2. b \in 0 .. MaxBoot /\ b <= boot /\ boot # 0
    BY LedgerAssumption DEF LedgerInv, LTypeOK
  <2>3. \A d \in Commands : bootOf'[d] = IF d = c THEN b ELSE bootOf[d]
    BY <2>1 DEF LedgerInv, LTypeOK
  <2>4. effects[c] = 0
    BY <2>1 DEF LedgerInv, ActedOnce
  <2>5. step # "receive" => current # c
    BY <2>1, <2>2 DEF LedgerInv, InHand
  <2>6. LTypeOK'
    BY <2>1, <2>2 DEF LedgerInv, LTypeOK, stored, handling, history
  <2>7. InHand'
    BY <2>1, <2>3, <2>5 DEF LedgerInv, InHand, stored, handling, history, Held
  <2>8. (ActedOnce /\ BootsKnown)'
    BY <2>1, <2>2, <2>3, <2>4 DEF LedgerInv, ActedOnce, BootsKnown, stored,
       handling, history, Recorded, Held, Retired
  <2> QED BY <2>6, <2>7, <2>8 DEF LedgerInv
<1>2. ASSUME \/ \E c \in Commands : Expire(c)
             \/ \E c \in Commands, clockTrusted \in BOOLEAN : Refuse(c, clockTrusted)
             \/ AccessEnds
             \/ UNCHANGED vars
      PROVE  LedgerInv'
  <2>1. /\ UNCHANGED <<boot, bootOf, flash, ram, active, ready, step, current,
                       critical, done, effects, interrupted>>
        /\ expired' \subseteq Commands /\ refused' \subseteq Commands
    BY <1>2 DEF Expire, Refuse, AccessEnds, vars, stored, handling, history,
       Answer, LedgerInv, LTypeOK
  <2>2. tracker' \in BOOLEAN
    <3>1. tracker' = tracker \/ tracker' = FALSE
      BY <1>2 DEF Expire, Refuse, AccessEnds, vars
    <3> QED BY <3>1 DEF LedgerInv, LTypeOK
  <2>3. LTypeOK'
    BY <2>1, <2>2 DEF LedgerInv, LTypeOK
  <2>4. (InHand /\ ActedOnce /\ BootsKnown)'
    BY <2>1 DEF LedgerInv, InHand, ActedOnce, BootsKnown, Recorded, Held, Retired
  <2> QED BY <2>3, <2>4 DEF LedgerInv
<1> QED BY <1>1, <1>2, AcceptKeeps, ActKeeps, SettleKeeps, ResetKeeps DEF Next

THEOREM LedgerInvariance == Spec => []LedgerInv
<1>1. Init => LedgerInv
  BY LedgerInit
<1>2. LedgerInv /\ [Next]_vars => LedgerInv'
  BY LedgerStep
<1> QED BY <1>1, <1>2, PTL DEF Spec

\* The types of the ledger and its callers, for every ring size.
THEOREM LedgerTypes == Spec => []LTypeOK
<1>1. LedgerInv => LTypeOK
  BY DEF LedgerInv
<1> QED BY <1>1, LedgerInvariance, PTL

\* Whatever the broker repeats and the flash loses, a command is acted on at
\* most once, even if both slots may be unreadable at every boot.
THEOREM ActedAtMostOnce == Spec => []AtMostOnce
<1>1. LedgerInv => AtMostOnce
  <2> SUFFICES ASSUME LedgerInv, NEW c \in Commands PROVE effects[c] <= 1
    BY DEF AtMostOnce
  <2> QED BY DEF LedgerInv, LTypeOK, ActedOnce
<1> QED BY <1>1, LedgerInvariance, PTL

-----------------------------------------------------------------------------
(* Refused commands stay out *)

\* A refused command is of an earlier boot, expired or recorded, and it is not
\* the one in hand.
RefusedIsOut ==
    /\ \A c \in refused : /\ bootOf[c] # 0
                          /\ bootOf[c] = boot => c \in expired \cup Recorded(ram)
    /\ step # "receive" => current \notin refused

\* RAM only ever records more within one boot.
LEMMA RamGrows ==
    ASSUME LedgerInv, Next, boot' = boot
    PROVE  Recorded(ram) \subseteq Recorded(ram')
<1>1. CASE \E c \in Commands, inCritical, lastSecond \in BOOLEAN,
              how \in WriteOutcomes : Accept(c, inCritical, lastSecond, how)
  <2>1. PICK c \in Commands, inCritical \in BOOLEAN, lastSecond \in BOOLEAN,
             how \in WriteOutcomes : Accept(c, inCritical, lastSecond, how)
    BY <1>1
  <2>2. /\ RecordAccepted(ram, c) \in Ledger
        /\ Recorded(ram) \subseteq Recorded(RecordAccepted(ram, c))
    BY RecordAcceptedKeeps DEF LedgerInv, LTypeOK
  <2>3. Persist(RecordAccepted(ram, c), how)
    BY <2>1 DEF Accept
  <2>4. ram' = ram \/ ram' = Sealed(RecordAccepted(ram, c))
    BY <2>2, <2>3, PersistEffect DEF LedgerInv
  <2> QED BY <2>2, <2>4, SealedKeeps
<1>2. CASE \E how \in WriteOutcomes : Settle(how)
  <2>1. PICK how \in WriteOutcomes : Settle(how)
    BY <1>2
  <2>2. /\ Completed(ram, current) \in Ledger
        /\ Recorded(ram) = Recorded(Completed(ram, current))
    BY CompletedKeeps DEF LedgerInv, LTypeOK
  <2>3. Persist(Completed(ram, current), how)
    BY <2>1 DEF Settle
  <2>4. ram' = ram \/ ram' = Sealed(Completed(ram, current))
    BY <2>2, <2>3, PersistEffect DEF LedgerInv
  <2> QED BY <2>2, <2>4, SealedKeeps
<1>3. CASE \E V \in ReadableSets, how \in WriteOutcomes : Reset(V, how)
  BY <1>3 DEF Reset, LedgerInv, LTypeOK
<1>4. CASE ram' = ram
  BY <1>4 DEF Recorded, Held, Retired
<1>5. ram' = ram \/ (\E c \in Commands, inCritical, lastSecond \in BOOLEAN,
              how \in WriteOutcomes : Accept(c, inCritical, lastSecond, how))
      \/ (\E how \in WriteOutcomes : Settle(how))
      \/ (\E V \in ReadableSets, how \in WriteOutcomes : Reset(V, how))
  BY DEF Next, Publish, Expire, Refuse, Act, AccessEnds, stored
<1> QED BY <1>1, <1>2, <1>3, <1>4, <1>5

\* The steps at which a command joins the refused ones, or comes in hand.
LEMMA RefusedStep ==
    ASSUME LedgerInv, RefusedIsOut, Next
    PROVE  /\ RefusedIsOut'
           /\ \A c \in refused : effects'[c] = effects[c]
<1>0. /\ refused \subseteq Commands /\ boot \in Nat
      /\ \A c \in Commands : bootOf[c] \in Nat /\ bootOf[c] <= boot
      /\ effects \in [Commands -> Nat]
  BY LedgerAssumption DEF LedgerInv, LTypeOK, BootsKnown
<1>1. ASSUME NEW c \in Commands, NEW b \in 1 .. boot, Publish(c, b)
      PROVE  RefusedIsOut' /\ effects' = effects
  <2>1. /\ UNCHANGED <<boot, expired, ram, step, current, refused, effects>>
        /\ bootOf[c] = 0 /\ \A d \in Commands : d # c => bootOf'[d] = bootOf[d]
    BY <1>1, <1>0 DEF Publish, stored, handling, history, LedgerInv, LTypeOK
  <2>2. c \notin refused
    BY <2>1 DEF RefusedIsOut
  <2> QED BY <2>1, <2>2, <1>0 DEF RefusedIsOut, Recorded, Held, Retired
<1>2. ASSUME NEW c \in Commands, Expire(c)
      PROVE  RefusedIsOut' /\ effects' = effects
  BY <1>2 DEF Expire, RefusedIsOut, stored, handling, history, Recorded, Held, Retired
<1>3. ASSUME NEW c \in Commands, NEW clockTrusted \in BOOLEAN, Refuse(c, clockTrusted)
      PROVE  RefusedIsOut' /\ effects' = effects
  <2>1. /\ UNCHANGED <<boot, bootOf, expired, ram, step, current, effects>>
        /\ step = "receive" /\ bootOf[c] # 0
        /\ refused' \subseteq refused \cup {c}
    BY <1>3 DEF Refuse, Delivered, Answer, stored, handling
  <2>2. c \in refused' \ refused => Verdict(c, clockTrusted) \in FinalRefusals
    BY <1>3 DEF Refuse, Answer
  <2>3. Verdict(c, clockTrusted) \in FinalRefusals /\ bootOf[c] = boot
           => c \in expired \cup Recorded(ram)
    BY DEF Verdict, FinalRefusals, Recorded
  <2> QED BY <2>1, <2>2, <2>3 DEF RefusedIsOut, Recorded, Held, Retired
<1>4. ASSUME NEW c \in Commands, NEW inCritical \in BOOLEAN,
             NEW lastSecond \in BOOLEAN, NEW how \in WriteOutcomes,
             Accept(c, inCritical, lastSecond, how)
      PROVE  RefusedIsOut' /\ effects' = effects
  <2>1. Verdict(c, TRUE) = "Accepted"
    BY <1>4 DEF Accept
  <2>2. bootOf[c] = boot /\ c \notin expired /\ c \notin Recorded(ram)
    <3>1. bootOf[c] = boot
      BY <2>1 DEF Verdict
    <3>2. c \notin expired
      BY <2>1, <3>1 DEF Verdict
    <3>3. c \notin Held(ram) /\ c \notin Retired(ram)
      BY <2>1, <3>1, <3>2 DEF Verdict
    <3> QED BY <3>1, <3>2, <3>3 DEF Recorded
  <2>3. c \notin refused
    BY <2>2 DEF RefusedIsOut
  <2>4. UNCHANGED <<boot, bootOf, expired, effects>> /\ refused' = refused
    BY <1>4 DEF Accept, Answer, FinalRefusals
  <2>5. (step' = step /\ current' = current) \/ current' = c
    BY <1>4 DEF Accept, handling
  <2>6. Recorded(ram) \subseteq Recorded(ram')
    BY <1>4, <2>4, RamGrows
  <2> QED BY <2>3, <2>4, <2>5, <2>6 DEF RefusedIsOut
<1>5. ASSUME NEW works \in BOOLEAN, Act(works)
      PROVE  RefusedIsOut' /\ \A d \in refused : effects'[d] = effects[d]
  <2>1. /\ UNCHANGED <<boot, bootOf, expired, ram, current, refused>>
        /\ step = "act"
        /\ effects' = effects \/ ActedOn(current)
    BY <1>5 DEF Act, stored
  <2>2. current \notin refused /\ current \in Commands
    BY <2>1 DEF RefusedIsOut, LedgerInv, InHand
  <2>3. \A d \in refused : effects'[d] = effects[d]
    BY <2>1, <2>2, <1>0 DEF ActedOn
  <2> QED BY <2>1, <2>2, <2>3 DEF RefusedIsOut, Recorded, Held, Retired
<1>6. ASSUME NEW how \in WriteOutcomes, Settle(how)
      PROVE  RefusedIsOut' /\ \A d \in refused : effects'[d] = effects[d]
  <2>1. /\ UNCHANGED <<boot, bootOf, expired>> /\ step' = "receive"
        /\ effects' = effects \/ ActedOn(current)
        /\ refused' \subseteq refused \cup {current}
        /\ step # "receive"
    BY <1>6 DEF Settle, Answer
  <2>2. /\ current \notin refused /\ current \in Commands
        /\ bootOf[current] = boot /\ boot # 0 /\ current \in Recorded(ram)
    BY <2>1 DEF RefusedIsOut, LedgerInv, InHand, Recorded, LTypeOK
  <2>3. \A d \in refused : effects'[d] = effects[d]
    BY <2>1, <2>2, <1>0 DEF ActedOn
  <2>4. Recorded(ram) \subseteq Recorded(ram')
    BY <1>6, <2>1, RamGrows
  <2> QED BY <2>1, <2>2, <2>3, <2>4 DEF RefusedIsOut
<1>7. ASSUME AccessEnds PROVE RefusedIsOut' /\ effects' = effects
  BY <1>7 DEF AccessEnds, RefusedIsOut, stored, handling, history, Recorded, Held, Retired
<1>8. ASSUME NEW V \in ReadableSets, NEW how \in WriteOutcomes, Reset(V, how)
      PROVE  RefusedIsOut' /\ effects' = effects
  <2>1. /\ boot' = boot + 1 /\ step' = "receive"
        /\ UNCHANGED <<bootOf, expired, effects, refused>>
    BY <1>8 DEF Reset
  <2>2. ASSUME NEW c \in refused PROVE bootOf[c] # boot + 1
    <3>1. c \in Commands /\ boot \in Nat
      BY <1>0
    <3>2. bootOf[c] \in Nat /\ bootOf[c] <= boot
      BY <1>0, <3>1
    <3> QED BY <3>1, <3>2
  <2> QED BY <2>1, <2>2 DEF RefusedIsOut
<1> QED BY <1>1, <1>2, <1>3, <1>4, <1>5, <1>6, <1>7, <1>8 DEF Next

\* A command whose last word was a refusal is never carried out: not when the
\* access that blocked it ends, not when it is delivered again, not after a
\* reset, whatever the flash did in between.
THEOREM RefusalIsFinal == Spec => NothingAfterRefusal
<1>1. Init => RefusedIsOut
  BY DEF Init, RefusedIsOut
<1>2. LedgerInv /\ RefusedIsOut /\ [Next]_vars => RefusedIsOut'
  <2>1. LedgerInv /\ RefusedIsOut /\ Next => RefusedIsOut'
    BY RefusedStep
  <2>2. RefusedIsOut /\ UNCHANGED vars => RefusedIsOut'
    BY DEF RefusedIsOut, vars, stored, handling, history, Recorded, Held, Retired
  <2> QED BY <2>1, <2>2
<1>3. LedgerInv /\ RefusedIsOut /\ [Next]_vars
         => [\A c \in refused : effects'[c] = effects[c]]_vars
  BY RefusedStep
<1> QED BY <1>1, <1>2, <1>3, LedgerInvariance, PTL DEF Spec, NothingAfterRefusal

-----------------------------------------------------------------------------
(* What a reset finds in the flash *)

\* The active slot holds what RAM holds. The other one is unusable, older, or
\* a write that landed although it was reported as failed, and then it records
\* at least as much.
Mirrored ==
    /\ flash[active] = ram
    /\ LET other == flash[CandidateSlot(active)]
       IN other # NoLedger =>
            \/ other.gen < ram.gen
            \/ other.gen > ram.gen /\ Recorded(ram) \subseteq Recorded(other)

ActedIsRecorded == \A c \in Commands : effects[c] > 0 => c \in Recorded(ram)

Durable == Mirrored /\ ActedIsRecorded

ValidSlots == {i \in Slots : flash[i] # NoLedger}

\* The newest valid slot records everything RAM does.
LEMMA NewestRecordsAll ==
    ASSUME LTypeOK, Mirrored
    PROVE  /\ ValidSlots # {} /\ NewestOf(ValidSlots) \in ValidSlots
           /\ Recorded(ram) \subseteq Recorded(flash[NewestOf(ValidSlots)])
           /\ flash[NewestOf(ValidSlots)].gen >= ram.gen
           /\ LET n == NewestOf(ValidSlots)
                  other == flash[CandidateSlot(n)]
              IN other # NoLedger => other.gen < flash[n].gen
<1> DEFINE a == active  b == CandidateSlot(active)
<1>1. /\ a \in Slots /\ b \in Slots /\ a # b /\ CandidateSlot(b) = a
      /\ \A i \in Slots : i = a \/ i = b
  BY DEF LTypeOK, Slots, CandidateSlot
<1>2. flash[a] = ram /\ ram \in Ledger /\ ram # NoLedger /\ ram.gen \in Nat
  BY NoLedgerAssumption DEF LTypeOK, Mirrored, Ledger
<1>3. a \in ValidSlots
  BY <1>1, <1>2 DEF ValidSlots
<1>4. CASE flash[b] = NoLedger
  <2>1. NewestOf(ValidSlots) = a
    BY <1>1, <1>3, <1>4 DEF NewestOf, ValidSlots, Slots
  <2> QED BY <2>1, <1>2, <1>3, <1>4
<1>5. CASE flash[b] # NoLedger
  <2>1. b \in ValidSlots /\ flash[b] \in Ledger /\ flash[b].gen \in Nat
    BY <1>1, <1>5 DEF ValidSlots, LTypeOK, Ledger
  <2>2. CASE flash[b].gen < ram.gen
    <3>1. NewestOf(ValidSlots) = a
      BY <1>1, <1>2, <1>3, <2>1, <2>2 DEF NewestOf, Slots
    <3> QED BY <3>1, <1>2, <1>3, <2>1, <2>2
  <2>3. CASE flash[b].gen > ram.gen /\ Recorded(ram) \subseteq Recorded(flash[b])
    <3>1. NewestOf(ValidSlots) = b
      BY <1>1, <1>2, <1>3, <2>1, <2>3 DEF NewestOf, Slots
    <3> QED BY <3>1, <1>1, <1>2, <1>3, <2>1, <2>3
  <2> QED BY <1>5, <2>2, <2>3 DEF Mirrored
<1> QED BY <1>4, <1>5

LEMMA PersistMirrors ==
    ASSUME LTypeOK, Mirrored, NEW l \in Ledger, NEW how \in WriteOutcomes,
           Persist(l, how), l.gen = ram.gen, Recorded(ram) \subseteq Recorded(l)
    PROVE  Mirrored'
<1> DEFINE a == active  b == CandidateSlot(active)
<1>1. /\ a \in Slots /\ b \in Slots /\ a # b /\ CandidateSlot(b) = a
  BY DEF LTypeOK, Slots, CandidateSlot
<1>2. /\ Sealed(l) \in Ledger /\ Sealed(l).gen = ram.gen + 1
      /\ Recorded(ram) \subseteq Recorded(Sealed(l))
      /\ ram \in Ledger /\ ram.gen \in Nat
  BY SealedKeeps DEF LTypeOK, Ledger
<1>3. flash'[a] = flash[a] /\ flash[a] = ram
  BY <1>1 DEF Persist, LTypeOK, Mirrored
<1>4. CASE how = "stored"
  <2>1. /\ active' = b /\ ram' = Sealed(l) /\ flash'[b] = Sealed(l)
    BY <1>1, <1>4 DEF Persist, LTypeOK
  <2>2. CandidateSlot(active') = a
    BY <1>1, <2>1
  <2> QED BY <2>1, <2>2, <1>2, <1>3 DEF Mirrored
<1>5. CASE how # "stored"
  <2>1. active' = a /\ ram' = ram /\ CandidateSlot(active') = b
    BY <1>5 DEF Persist, CandidateSlot
  <2>2. flash'[b] = flash[b] \/ flash'[b] = NoLedger \/ flash'[b] = Sealed(l)
    BY <1>1 DEF Persist, LTypeOK
  <2>3. CASE flash'[b] = flash[b]
    BY <2>1, <2>3, <1>3 DEF Mirrored, Recorded, Held, Retired
  <2>4. CASE flash'[b] = NoLedger
    BY <2>1, <2>4, <1>3 DEF Mirrored
  <2>5. CASE flash'[b] = Sealed(l)
    <3>1. Recorded(ram') = Recorded(ram)
      BY <2>1
    <3> QED BY <2>1, <2>5, <3>1, <1>2, <1>3 DEF Mirrored
  <2> QED BY <2>2, <2>3, <2>4, <2>5
<1> QED BY <1>4, <1>5

LEMMA ResetLoadsNewest ==
    ASSUME LTypeOK, Mirrored, ~ReadsMayFail,
           NEW V \in ReadableSets, NEW how \in WriteOutcomes, Load(V, how)
    PROVE  Mirrored' /\ Recorded(ram) \subseteq Recorded(ram')
<1>1. V = ValidSlots
  BY DEF ReadableSets, ValidSlots
<1>2. V # {} /\ NewestOf(V) \in Slots
  BY <1>1, NewestRecordsAll DEF ValidSlots
<1>3. flash' = flash /\ active' = NewestOf(V) /\ ram' = flash[NewestOf(V)]
  BY <1>2 DEF Load
<1>4. Recorded(ram) \subseteq Recorded(ram')
  BY <1>1, <1>3, NewestRecordsAll
<1>5. Mirrored'
  BY <1>1, <1>3, NewestRecordsAll DEF Mirrored, CandidateSlot
<1> QED BY <1>4, <1>5

LEMMA DurableStep ==
    ASSUME LedgerInv, Durable, ~ReadsMayFail, Next
    PROVE  Durable' /\ (boot' # boot => Recorded(ram) \subseteq Recorded(ram'))
<1>0. LTypeOK /\ Mirrored /\ ram \in Ledger /\ boot \in Nat
  BY LedgerAssumption DEF LedgerInv, LTypeOK, Durable
<1>1. ASSUME NEW c \in Commands, NEW inCritical \in BOOLEAN,
             NEW lastSecond \in BOOLEAN, NEW how \in WriteOutcomes,
             Accept(c, inCritical, lastSecond, how)
      PROVE  Durable' /\ boot' = boot
  <2>1. /\ RecordAccepted(ram, c) \in Ledger
        /\ RecordAccepted(ram, c).gen = ram.gen
        /\ Recorded(ram) \subseteq Recorded(RecordAccepted(ram, c))
    BY <1>0, RecordAcceptedKeeps
  <2>2. Persist(RecordAccepted(ram, c), how) /\ UNCHANGED <<boot, effects>>
    BY <1>1 DEF Accept
  <2>3. Mirrored'
    BY <1>0, <2>1, <2>2, PersistMirrors
  <2>4. Recorded(ram) \subseteq Recorded(ram')
    BY <1>1, <2>2, RamGrows DEF Next
  <2> QED BY <2>2, <2>3, <2>4 DEF Durable, ActedIsRecorded
<1>2. ASSUME NEW how \in WriteOutcomes, Settle(how)
      PROVE  Durable' /\ boot' = boot
  <2>1. /\ Completed(ram, current) \in Ledger
        /\ Completed(ram, current).gen = ram.gen
        /\ Recorded(ram) \subseteq Recorded(Completed(ram, current))
    BY <1>0, CompletedKeeps
  <2>2. /\ Persist(Completed(ram, current), how) /\ boot' = boot
        /\ effects' = effects \/ ActedOn(current)
        /\ step # "receive"
    BY <1>2 DEF Settle
  <2>3. Mirrored'
    BY <1>0, <2>1, <2>2, PersistMirrors
  <2>4. Recorded(ram) \subseteq Recorded(ram')
    BY <1>2, <2>2, RamGrows DEF Next
  <2>5. current \in Recorded(ram)
    BY <2>2 DEF LedgerInv, InHand, Recorded
  <2>6. \A d \in Commands : d # current => effects'[d] = effects[d]
    BY <2>2 DEF ActedOn, LedgerInv, LTypeOK
  <2> QED BY <2>2, <2>3, <2>4, <2>5, <2>6 DEF Durable, ActedIsRecorded
<1>3. ASSUME NEW works \in BOOLEAN, Act(works)
      PROVE  Durable' /\ boot' = boot
  <2>1. /\ UNCHANGED <<flash, ram, active, boot>>
        /\ effects' = effects \/ ActedOn(current)
        /\ step # "receive"
    BY <1>3 DEF Act, stored
  <2>2. current \in Recorded(ram)
    BY <2>1 DEF LedgerInv, InHand, Recorded
  <2>3. \A d \in Commands : d # current => effects'[d] = effects[d]
    BY <2>1 DEF ActedOn, LedgerInv, LTypeOK
  <2> QED BY <2>1, <2>2, <2>3 DEF Durable, Mirrored, ActedIsRecorded, Recorded,
                                 Held, Retired
<1>4. ASSUME NEW V \in ReadableSets, NEW how \in WriteOutcomes, Reset(V, how)
      PROVE  Durable' /\ Recorded(ram) \subseteq Recorded(ram')
  <2>1. Load(V, how) /\ effects' = effects
    BY <1>4 DEF Reset
  <2>2. Mirrored' /\ Recorded(ram) \subseteq Recorded(ram')
    BY <1>0, <2>1, ResetLoadsNewest
  <2> QED BY <2>1, <2>2 DEF Durable, ActedIsRecorded
<1>5. ASSUME UNCHANGED <<flash, ram, active, effects, boot>>
      PROVE  Durable' /\ boot' = boot
  BY <1>5 DEF Durable, Mirrored, ActedIsRecorded, Recorded, Held, Retired
<1>6. \/ \E c \in Commands, inCritical, lastSecond \in BOOLEAN,
           how \in WriteOutcomes : Accept(c, inCritical, lastSecond, how)
      \/ \E how \in WriteOutcomes : Settle(how)
      \/ \E works \in BOOLEAN : Act(works)
      \/ \E V \in ReadableSets, how \in WriteOutcomes : Reset(V, how)
      \/ UNCHANGED <<flash, ram, active, effects, boot>>
  BY DEF Next, Publish, Expire, Refuse, AccessEnds, stored, history
<1> QED BY <1>1, <1>2, <1>3, <1>4, <1>5, <1>6

LEMMA DurableInvariance == Spec => [](LedgerInv /\ (~ReadsMayFail => Durable))
<1>1. Init => (~ReadsMayFail => Durable)
  <2> SUFFICES ASSUME Init PROVE Durable
    OBVIOUS
  <2>1. Mirrored
    BY DEF Init, Mirrored, CandidateSlot, Slots
  <2> QED BY <2>1 DEF Init, Durable, ActedIsRecorded
<1>2. LedgerInv /\ (~ReadsMayFail => Durable) /\ [Next]_vars
         => (~ReadsMayFail => Durable)'
  <2> SUFFICES ASSUME LedgerInv, ~ReadsMayFail, Durable, [Next]_vars
               PROVE  Durable'
    OBVIOUS
  <2>1. CASE Next
    BY <2>1, DurableStep
  <2>2. CASE UNCHANGED vars
    BY <2>2 DEF vars, stored, history, Durable, Mirrored, ActedIsRecorded,
       Recorded, Held, Retired
  <2> QED BY <2>1, <2>2
<1> QED BY <1>1, <1>2, LedgerInvariance, PTL DEF Spec

\* Where flash reads do not fail, whatever has been acted on is in the ledger
\* the next boot loads, after any mixture of failed, torn and misreported
\* writes.
THEOREM ActedAlwaysDurable == Spec => []ActedIsDurable
<1>1. LedgerInv /\ (~ReadsMayFail => Durable) => ActedIsDurable
  <2> SUFFICES ASSUME LTypeOK, Durable
               PROVE  /\ ValidSlots # {}
                      /\ \A c \in Commands : effects[c] > 0 =>
                            c \in Recorded(flash[NewestOf(ValidSlots)])
    BY DEF ActedIsDurable, LedgerInv, ValidSlots
  <2> QED BY NewestRecordsAll DEF Durable, ActedIsRecorded
<1> QED BY <1>1, DurableInvariance, PTL

\* A reset between any two steps loses nothing that RAM held back.
THEOREM ResetForgetsNothing == Spec => NothingForgotten
<1>1. LedgerInv /\ (~ReadsMayFail => Durable) /\ [Next]_vars =>
        [boot' # boot /\ ~ReadsMayFail => Recorded(ram) \subseteq Recorded(ram')]_vars
  BY DurableStep
<1> QED BY <1>1, DurableInvariance, PTL DEF Spec, NothingForgotten
=============================================================================
