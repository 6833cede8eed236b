------------------------- MODULE GattSessionProofs -------------------------
(***************************************************************************)
(* Proofs that the five state invariants of GattSession hold for any       *)
(* number of links, sessions, queued writes and any pair of timeouts with  *)
(* ChallengeLife <= AuthTimeout.                                           *)
(*                                                                         *)
(* None of them is inductive alone.  PendingOwned needs to know that the   *)
(* core still controls the gate exactly while its challenge is out         *)
(* (authActive), or a session could end without asking for the abort; that *)
(* a link which is accepted finds no session (SessionHasOwner), because    *)
(* connect() resets one silently; and LiveChallengeFindsGate needs the two *)
(* clocks of the session to run together.                                  *)
(***************************************************************************)
EXTENDS GattSession, TLAPS

AuthOwned == authActive <=> sess = "ChallengeIssued"

SessionHasOwner == owner = Nobody => sess = "Idle"

ChallengeNamed == sess = "ChallengeIssued" => sid \in 1..MaxSessions

ClocksTogether ==
  sess = "ChallengeIssued" /\ ~undrained =>
    /\ ~abortPending
    /\ chalAge < ChallengeLife => gate = "AUTH_PENDING" /\ gateAge = chalAge

RadioHeld == radioReserved => pc = "radio" /\ owner = Nobody /\ writes = <<>> /\ ~fastStart

(* The part of the inductive invariant that the protocol core works on. *)
CoreTypes ==
  /\ sess \in {"Idle", "ChallengeIssued", "Completed"}
  /\ sid \in 0..MaxSessions /\ issued \in 0..MaxSessions
  /\ chalAge \in 0..ChallengeLife /\ gateAge \in 0..AuthTimeout
  /\ authActive \in BOOLEAN /\ abortPending \in BOOLEAN
  /\ gate \in {"IDLE", "AUTH_PENDING", "VERIFIED"}
  /\ undrained \in BOOLEAN /\ output \in BOOLEAN
  /\ granted \subseteq 1..MaxSessions

CoreInv == AuthOwned /\ PendingOwned /\ SessionHasOwner /\ ChallengeNamed /\ ClocksTogether

(* The part that the host task works on. *)
IngressTypes ==
  /\ links \subseteq Handles /\ owner \in links \union {Nobody} /\ gen \in 0..MaxLinks
  /\ writes \in Seq(Message) /\ Len(writes) <= WriteCapacity
  /\ overflow \in BOOLEAN /\ fastStart \in BOOLEAN

LoopPoint ==
  {"head", "drain1", "fast", "over", "pop", "core", "drain2", "after", "lease", "flush",
   "quiesce", "reboot", "net", "radio", "mqtt", "checked", "ota", "otaflush", "otawait", "otawork"}

ReturnPoint ==
  {"after", "flush", "quiesce", "reboot", "mqtt", "checked", "otawait", "otawork", "otaflush"}

LoopTypes ==
  /\ otaBusy \in BOOLEAN /\ radioReserved \in BOOLEAN /\ restartPending \in BOOLEAN
  /\ pc \in LoopPoint /\ ret \in ReturnPoint

CInv == CoreTypes /\ CoreInv
HInv == IngressTypes /\ IngressOwned
LInv == LoopTypes /\ RadioHeld
IInv == CInv /\ HInv /\ LInv

(* What a step leaves alone keeps its part of the invariant. *)
LEMMA CoreKept ==
  ASSUME CInv, UNCHANGED <<owner, coreVars, abortPending, gateVars, history>>, output' \in BOOLEAN
  PROVE  CInv'
BY DEF CInv, CoreTypes, CoreInv, AuthOwned, PendingOwned, SessionHasOwner, ChallengeNamed,
       ClocksTogether, coreVars, gateVars, history

LEMMA IngressKept ==
  ASSUME HInv, UNCHANGED <<linkVars, writes, overflow, fastStart>>
  PROVE  HInv'
BY DEF HInv, IngressTypes, IngressOwned, linkVars

-----------------------------------------------------------------------------
(* The operators of the protocol core.                                     *)

LEMMA NothingKeeps == ASSUME CInv, Nothing \/ ResultOnly, UNCHANGED owner PROVE CInv'
<1>1. output' \in BOOLEAN
  BY Zenon DEF CInv, CoreTypes, Nothing, ResultOnly
<1>2. UNCHANGED <<coreVars, abortPending, gateVars, history>>
  BY DEF Nothing, ResultOnly
<1>. QED  BY <1>1, <1>2, CoreKept

(* Ending the session with an abort keeps the gate owned. *)
LEMMA EndKeeps ==
  ASSUME CInv, EndSession, AbortAuth \/ (sess # "ChallengeIssued" /\ UNCHANGED <<authActive, abortPending>>),
         UNCHANGED <<gateVars, history>>, output' \in BOOLEAN
  PROVE  CInv'
<1>1. authActive' \in BOOLEAN /\ abortPending' \in BOOLEAN
  BY Zenon DEF CInv, CoreTypes, AbortAuth
<1>2. CoreTypes'
  BY SessionAssumption, <1>1 DEF CInv, CoreTypes, EndSession, gateVars, history
<1>3. ~authActive'
  BY DEF CInv, CoreInv, AuthOwned, AbortAuth
<1>4. PendingOwned'
  BY DEF CInv, CoreInv, PendingOwned, AuthOwned, AbortAuth, gateVars
<1>. QED  BY <1>2, <1>3, <1>4 DEF CInv, CoreInv, AuthOwned, SessionHasOwner, ChallengeNamed,
          ClocksTogether, EndSession

LEMMA RejectKeeps == ASSUME CInv, Reject PROVE CInv'
<1>1. output' \in BOOLEAN
  BY Zenon DEF Reject
<1>. QED  BY <1>1, EndKeeps DEF Reject

LEMMA DropKeeps ==
  ASSUME CInv, DropSession, UNCHANGED <<gateVars, history>>, output' \in BOOLEAN
  PROVE  CInv'
BY EndKeeps DEF DropSession

LEMMA BeginKeeps ==
  ASSUME CInv, BeginSession, sess = "Idle", owner # Nobody, UNCHANGED owner
  PROVE  CInv'
<1>1. CASE issued = MaxSessions
  BY <1>1, NothingKeeps DEF BeginSession
<1>2. CASE issued # MaxSessions /\ gate # "IDLE"
  <2>1. output' \in BOOLEAN /\ abortPending' \in BOOLEAN
    BY <1>2, Zenon DEF BeginSession
  <2>2. CoreTypes'
    BY <1>2, <2>1 DEF BeginSession, CInv, CoreTypes, coreVars, gateVars, history
  <2>. QED  BY <1>2, <2>2 DEF BeginSession, CInv, CoreInv, AuthOwned, PendingOwned, SessionHasOwner,
            ChallengeNamed, ClocksTogether, coreVars, gateVars, history
<1>3. CASE issued # MaxSessions /\ gate = "IDLE"
  <2>1. output' \in BOOLEAN /\ abortPending' \in BOOLEAN /\ authActive' \in BOOLEAN /\ undrained' \in BOOLEAN
    BY <1>3, Zenon DEF BeginSession, CInv, CoreTypes
  <2>2. CoreTypes'
    <3>1. issued' = issued + 1 /\ sid' = issued + 1 /\ issued + 1 \in 0..MaxSessions
      BY SessionAssumption, <1>3 DEF BeginSession, CInv, CoreTypes
    <3>2. /\ sess' = "ChallengeIssued" /\ gate' = "AUTH_PENDING" /\ chalAge' = 0 /\ gateAge' = 0
          /\ granted' = granted
      BY <1>3 DEF BeginSession
    <3>3. 0 \in 0..ChallengeLife /\ 0 \in 0..AuthTimeout
      BY SessionAssumption
    <3>4. granted \subseteq 1..MaxSessions
      BY DEF CInv, CoreTypes
    <3>. QED  BY <2>1, <3>1, <3>2, <3>3, <3>4 DEF CoreTypes
  <2>3. ClocksTogether'
    <3>1. undrained' = abortPending'
      BY <1>3 DEF BeginSession
    <3>2. undrained' <=> abortPending'
      BY <3>1, Zenon
    <3>. QED  BY <1>3, <3>2 DEF BeginSession, ClocksTogether
  <2>4. AuthOwned' /\ PendingOwned' /\ SessionHasOwner' /\ ChallengeNamed'
    BY SessionAssumption, <1>3, <2>2
       DEF BeginSession, AuthOwned, PendingOwned, SessionHasOwner, ChallengeNamed, CInv, CoreTypes
  <2>. QED  BY <2>2, <2>3, <2>4 DEF CInv, CoreInv
<1>. QED  BY <1>1, <1>2, <1>3

LEMMA CommitKeeps ==
  ASSUME CInv, NEW b \in BOOLEAN, Commit(b), owner # Nobody, UNCHANGED owner
  PROVE  CInv'
<1>1. CASE authActive /\ b /\ gate = "AUTH_PENDING"
  <2>1. output' \in BOOLEAN /\ authActive' \in BOOLEAN
    BY <1>1, Zenon DEF Commit
  <2>2. sid \in 1..MaxSessions
    BY <1>1 DEF CInv, CoreInv, AuthOwned, ChallengeNamed
  <2>3. CoreTypes'
    BY <1>1, <2>1, <2>2 DEF Commit, CInv, CoreTypes
  <2>. QED  BY <1>1, <2>3 DEF Commit, CInv, CoreInv, AuthOwned, PendingOwned, SessionHasOwner,
            ChallengeNamed, ClocksTogether
<1>2. CASE ~(authActive /\ b /\ gate = "AUTH_PENDING")
  BY <1>2, RejectKeeps DEF Commit
<1>. QED  BY <1>1, <1>2

LEMMA ReceiveKeeps ==
  ASSUME CInv, NEW w, NEW limited \in BOOLEAN, NEW admitted \in BOOLEAN,
         ReceiveFrame(w, limited, admitted), UNCHANGED owner
  PROVE  CInv'
<1>1. CASE w.gen # gen \/ owner = Nobody
  BY <1>1, NothingKeeps DEF ReceiveFrame
<1>2. CASE ~(w.gen # gen \/ owner = Nobody)
  <2>1. \/ ResultOnly
        \/ sess = "Idle" /\ BeginSession
        \/ Commit(admitted)
        \/ Reject
    BY <1>2 DEF ReceiveFrame
  <2>. QED  BY <1>2, <2>1, NothingKeeps, BeginKeeps, CommitKeeps, RejectKeeps
<1>. QED  BY <1>1, <1>2

-----------------------------------------------------------------------------
(* The host task.                                                          *)

(* The host task does not move loopTask and does not touch the busy flags: *)
(* it keeps LInv as long as it lets nobody in while the radio is reserved. *)
LEMMA HostKeepsLoop ==
  ASSUME LInv, HostOnly,
         radioReserved => UNCHANGED <<owner, writes, fastStart>>
  PROVE  LInv'
BY DEF LInv, LoopTypes, RadioHeld, HostOnly, busyVars, loopVars

LEMMA Forgotten ==
  ASSUME HInv, ForgetIngress, links' \subseteq Handles, owner' \in links' \union {Nobody}, UNCHANGED gen
  PROVE  HInv'
<1>1. overflow' = FALSE /\ fastStart' = FALSE /\ writes' = <<>>
  BY DEF ForgetIngress, ClearWrites
<1>2. overflow' \in BOOLEAN /\ fastStart' \in BOOLEAN
  BY <1>1, Zenon
<1>3. Len(<<>>) <= WriteCapacity /\ <<>> \in Seq(Message)
  BY SessionAssumption
<1>. QED  BY <1>1, <1>2, <1>3 DEF HInv, IngressTypes, IngressOwned

LEMMA Cleared ==
  ASSUME HInv, ClearWrites, UNCHANGED <<linkVars, fastStart>>
  PROVE  HInv'
<1>1. overflow' = FALSE /\ writes' = <<>>
  BY DEF ClearWrites
<1>2. overflow' \in BOOLEAN
  BY <1>1, Zenon
<1>3. Len(<<>>) <= WriteCapacity /\ <<>> \in Seq(Message)
  BY SessionAssumption
<1>. QED  BY <1>1, <1>2, <1>3 DEF HInv, IngressTypes, IngressOwned, linkVars

LEMMA ConnectKeeps ==
  ASSUME IInv, NEW h \in Handles, HostConnect(h)
  PROVE  IInv'
<1>1. h # Nobody
  BY SessionAssumption DEF Nobody
<1>2. CASE Admits
  <2>1. owner = Nobody /\ ~radioReserved /\ sess = "Idle"
    BY <1>2 DEF Admits, IInv, CInv, CoreInv, SessionHasOwner
  <2>2. output' \in BOOLEAN
    BY <1>2, Zenon DEF HostConnect
  <2>3. CInv'
    BY <1>2, <2>1, <2>2, EndKeeps DEF HostConnect, HostOnly, IInv
  <2>4. overflow' = FALSE /\ writes' = <<>>
    BY <1>2 DEF HostConnect, ClearWrites
  <2>5. overflow' \in BOOLEAN
    BY <2>4, Zenon
  <2>6. Len(<<>>) <= WriteCapacity /\ <<>> \in Seq(Message) /\ MaxLinks \in Nat
    BY SessionAssumption
  <2>7. HInv'
    BY <1>1, <1>2, <2>4, <2>5, <2>6 DEF HostConnect, IInv, HInv, IngressTypes, IngressOwned
  <2>8. LInv'
    BY <2>1, HostKeepsLoop DEF HostConnect, IInv
  <2>. QED  BY <2>3, <2>7, <2>8 DEF IInv
<1>3. CASE ~Admits
  <2>1. CInv'
    BY <1>3, CoreKept DEF HostConnect, HostOnly, adapterVars, IInv, CInv, CoreTypes
  <2>2. HInv'
    BY <1>3 DEF HostConnect, adapterVars, IInv, HInv, IngressTypes, IngressOwned
  <2>3. LInv'
    BY <1>3, HostKeepsLoop DEF HostConnect, adapterVars, IInv
  <2>. QED  BY <2>1, <2>2, <2>3 DEF IInv
<1>. QED  BY <1>2, <1>3

LEMMA DisconnectKeeps ==
  ASSUME IInv, NEW h \in Handles, HostDisconnect(h)
  PROVE  IInv'
<1>1. CASE owner = h
  <2>1. output' \in BOOLEAN
    BY <1>1, Zenon DEF HostDisconnect, ForgetIngress
  <2>2. CInv'
    BY <1>1, <2>1, DropKeeps DEF HostDisconnect, HostOnly, IInv
  <2>3. HInv'
    BY <1>1, Forgotten DEF HostDisconnect, IInv, HInv, IngressTypes
  <2>4. ~radioReserved
    BY <1>1, SessionAssumption DEF IInv, LInv, RadioHeld, Nobody
  <2>. QED  BY <2>2, <2>3, <2>4, HostKeepsLoop DEF HostDisconnect, IInv
<1>2. CASE owner # h
  <2>1. CInv'
    BY <1>2, CoreKept DEF HostDisconnect, HostOnly, adapterVars, IInv, CInv, CoreTypes
  <2>2. HInv'
    BY <1>2 DEF HostDisconnect, adapterVars, IInv, HInv, IngressTypes, IngressOwned
  <2>3. LInv'
    BY <1>2, HostKeepsLoop DEF HostDisconnect, adapterVars, IInv
  <2>. QED  BY <2>1, <2>2, <2>3 DEF IInv
<1>. QED  BY <1>1, <1>2

LEMMA SubscribeKeeps ==
  ASSUME IInv, NEW h \in Handles, NEW on \in BOOLEAN, HostSubscribeFast(h, on)
  PROVE  IInv'
<1>1. owner # Nobody /\ ~radioReserved
  BY SessionAssumption DEF HostSubscribeFast, IInv, LInv, RadioHeld, Nobody
<1>2. CInv'
  BY CoreKept DEF HostSubscribeFast, HostOnly, linkVars, IInv, CInv, CoreTypes
<1>3. fastStart' \in BOOLEAN
  BY Zenon DEF HostSubscribeFast
<1>4. HInv'
  BY <1>1, <1>3 DEF HostSubscribeFast, linkVars, IInv, HInv, IngressTypes, IngressOwned
<1>. QED  BY <1>1, <1>2, <1>4, HostKeepsLoop DEF HostSubscribeFast, IInv

LEMMA MessagesOfOwner == ASSUME IInv, NEW w \in Messages PROVE w \in Message /\ w.gen = gen
<1>1. gen \in 0..MaxLinks /\ issued \in 0..MaxSessions
  BY DEF IInv, HInv, IngressTypes, CInv, CoreTypes
<1>2. 0 \in 0..MaxSessions
  BY SessionAssumption
<1>3. CASE \E k \in {"hello", "junk"} : w = [gen |-> gen, kind |-> k, sid |-> 0]
  BY <1>1, <1>2, <1>3 DEF Message
<1>4. CASE \E s \in 1..issued : w = [gen |-> gen, kind |-> "proof", sid |-> s]
  BY SessionAssumption, <1>1, <1>4 DEF Message
<1>. QED  BY <1>3, <1>4 DEF Messages

LEMMA WriteKeeps ==
  ASSUME IInv, NEW h \in Handles, NEW w \in Messages, NEW tooLong \in BOOLEAN, HostWrite(h, w, tooLong)
  PROVE  IInv'
<1>1. owner # Nobody /\ ~radioReserved
  BY SessionAssumption DEF HostWrite, IInv, LInv, RadioHeld, Nobody
<1>2. CInv'
  BY CoreKept DEF HostWrite, HostOnly, linkVars, IInv, CInv, CoreTypes
<1>3. HInv'
  <2>1. CASE tooLong \/ QueueFull
    <3>1. overflow' \in BOOLEAN
      BY <2>1, Zenon DEF HostWrite
    <3>. QED  BY <1>1, <2>1, <3>1 DEF HostWrite, linkVars, IInv, HInv, IngressTypes, IngressOwned
  <2>2. CASE ~(tooLong \/ QueueFull)
    <3>1. writes' = Append(writes, w) /\ writes \in Seq(Message) /\ Len(writes) < WriteCapacity
      BY <2>2, SessionAssumption DEF HostWrite, QueueFull, IInv, HInv, IngressTypes
    <3>2. w \in Message /\ w.gen = gen
      BY MessagesOfOwner
    <3>3. writes' \in Seq(Message) /\ Len(writes') <= WriteCapacity
      BY <3>1, <3>2, SessionAssumption
    <3>4. \A i \in 1..Len(writes') : writes'[i].gen = gen
      BY <3>1, <3>2 DEF IInv, HInv, IngressOwned
    <3>. QED  BY <1>1, <2>2, <3>3, <3>4 DEF HostWrite, linkVars, IInv, HInv, IngressTypes, IngressOwned
  <2>. QED  BY <2>1, <2>2
<1>. QED  BY <1>1, <1>2, <1>3, HostKeepsLoop DEF HostWrite, IInv

LEMMA OutputKeeps == ASSUME IInv, OutputConfirmed \/ OutputFails PROVE IInv'
<1>0. output' \in BOOLEAN
  BY Zenon DEF OutputConfirmed, OutputFails
<1>1. CASE OutputConfirmed
  <2>1. CInv'
    BY <1>0, <1>1, CoreKept DEF OutputConfirmed, HostOnly, linkVars, IInv
  <2>2. HInv'
    BY <1>1, IngressKept DEF OutputConfirmed, IInv
  <2>. QED  BY <1>1, <2>1, <2>2, HostKeepsLoop DEF OutputConfirmed, linkVars, IInv
<1>2. CASE OutputFails
  <2>1. CInv'
    BY <1>0, <1>2, DropKeeps DEF OutputFails, HostOnly, IInv
  <2>2. HInv'
    BY <1>2, Cleared DEF OutputFails, IInv
  <2>3. radioReserved => UNCHANGED <<owner, writes, fastStart>>
    BY <1>2 DEF OutputFails, ClearWrites, linkVars, IInv, LInv, RadioHeld
  <2>. QED  BY <1>2, <2>1, <2>2, <2>3, HostKeepsLoop DEF OutputFails, IInv
<1>. QED  BY <1>1, <1>2

-----------------------------------------------------------------------------
(* GattServer::update(), in loopTask.                                      *)

(* Everywhere but at "radio" the radio is not reserved. *)
LEMMA LoopKept ==
  ASSUME LInv, pc # "radio", UNCHANGED radioReserved,
         otaBusy' \in BOOLEAN, restartPending' \in BOOLEAN, pc' \in LoopPoint, ret' \in ReturnPoint
  PROVE  LInv'
BY DEF LInv, LoopTypes, RadioHeld

(* A step within update() from p to a next point of it. *)
LEMMA UpdateStep ==
  ASSUME LInv, NEW p \in {"drain1", "fast", "over", "pop", "core"}, pc = p,
         NEW q \in {"fast", "over", "pop", "core", "drain2"}, GoTo(q),
         UNCHANGED <<busyVars, restartPending>>
  PROVE  LInv'
BY LoopKept DEF LInv, LoopTypes, GoTo, busyVars, LoopPoint

LEMMA DrainKeeps ==
  ASSUME CInv, DrainAbort, UNCHANGED <<owner, output, coreVars, history>>
  PROVE  CInv'
<1>1. abortPending' = FALSE
  BY DEF DrainAbort
<1>2. abortPending' \in BOOLEAN
  BY <1>1, Zenon
<1>3. CASE abortPending /\ gate = "AUTH_PENDING"
  <2>1. gate' = "IDLE" /\ gateAge' = 0 /\ 0 \in 0..AuthTimeout
    BY <1>3, SessionAssumption DEF DrainAbort
  <2>. QED  BY <1>1, <1>2, <1>3, <2>1 DEF CInv, CoreTypes, CoreInv, AuthOwned, PendingOwned,
            SessionHasOwner, ChallengeNamed, ClocksTogether, coreVars, history
<1>4. CASE ~(abortPending /\ gate = "AUTH_PENDING")
  BY <1>1, <1>2, <1>4 DEF DrainAbort, CInv, CoreTypes, CoreInv, AuthOwned, PendingOwned,
     SessionHasOwner, ChallengeNamed, ClocksTogether, coreVars, gateVars, history
<1>. QED  BY <1>3, <1>4

LEMMA DrainStepKeeps == ASSUME IInv, DrainFirst \/ DrainLast PROVE IInv'
<1>1. CInv'
  BY DrainKeeps DEF DrainFirst, DrainLast, Drain, LoopOnly, linkVars, adapterVars, IInv
<1>2. HInv'
  BY IngressKept DEF DrainFirst, DrainLast, Drain, LoopOnly, adapterVars, IInv
<1>3. CASE DrainFirst
  BY <1>1, <1>2, <1>3, UpdateStep DEF DrainFirst, Drain, LoopOnly, IInv
<1>4. CASE DrainLast
  <2>1. pc' \in LoopPoint /\ ret' \in ReturnPoint
    BY <1>4 DEF DrainLast, IInv, LInv, LoopTypes, LoopPoint, ReturnPoint
  <2>. QED  BY <1>1, <1>2, <1>4, <2>1, LoopKept DEF DrainLast, Drain, LoopOnly, busyVars, IInv, LInv, LoopTypes
<1>. QED  BY <1>3, <1>4

LEMMA StartFastKeeps == ASSUME IInv, NEW b \in BOOLEAN, StartFast(b) PROVE IInv'
<1>1. UNCHANGED <<owner, gen, links>>
  BY DEF StartFast, LoopOnly, linkVars
<1>2. CInv'
  <2>1. CASE fastStart /\ sess = "Idle" /\ ~(CoreBusy \/ b)
    <3>1. BeginSession /\ owner # Nobody
      BY <2>1 DEF StartFast, BeginFastSession, IInv, HInv, IngressOwned
    <3>. QED  BY <1>1, <2>1, <3>1, BeginKeeps DEF IInv
  <2>2. CASE ~(fastStart /\ sess = "Idle" /\ ~(CoreBusy \/ b))
    <3>1. Nothing \/ ResultOnly
      BY <2>2 DEF StartFast, BeginFastSession
    <3>. QED  BY <1>1, <3>1, NothingKeeps DEF IInv
  <2>. QED  BY <2>1, <2>2
<1>3. fastStart' = FALSE
  BY DEF StartFast
<1>4. fastStart' \in BOOLEAN
  BY <1>3, Zenon
<1>5. HInv'
  BY <1>1, <1>3, <1>4 DEF StartFast, IInv, HInv, IngressTypes, IngressOwned
<1>. QED  BY <1>2, <1>5, UpdateStep DEF StartFast, LoopOnly, IInv

LEMMA ConsumeOverflowKeeps == ASSUME IInv, NEW b \in BOOLEAN, ConsumeOverflow(b) PROVE IInv'
<1>1. UNCHANGED owner /\ UNCHANGED linkVars /\ UNCHANGED fastStart
  BY DEF ConsumeOverflow, LoopOnly, linkVars
<1>2. CASE overflow
  <2>1. CInv'
    <3>1. ResultOnly \/ Reject
      BY <1>2 DEF ConsumeOverflow
    <3>. QED  BY <1>1, <3>1, NothingKeeps, RejectKeeps DEF IInv
  <2>2. HInv'
    BY <1>1, <1>2, Cleared DEF ConsumeOverflow, IInv
  <2>. QED  BY <1>2, <2>1, <2>2, UpdateStep DEF ConsumeOverflow, LoopOnly, IInv
<1>3. CASE ~overflow
  <2>1. CInv'
    BY <1>1, <1>3, NothingKeeps DEF ConsumeOverflow, IInv
  <2>2. HInv'
    BY <1>1, <1>3, IngressKept DEF ConsumeOverflow, IInv
  <2>. QED  BY <1>3, <2>1, <2>2, UpdateStep DEF ConsumeOverflow, LoopOnly, IInv
<1>. QED  BY <1>2, <1>3

LEMMA PopWriteKeeps ==
  ASSUME IInv, NEW limited \in BOOLEAN, NEW admitted \in BOOLEAN, PopWrite(limited, admitted)
  PROVE  IInv'
<1>1. UNCHANGED owner /\ UNCHANGED linkVars /\ UNCHANGED <<fastStart, overflow>>
  BY DEF PopWrite, LoopOnly, linkVars
<1>2. CInv'
  BY <1>1, ReceiveKeeps DEF PopWrite, IInv
<1>3. HInv'
  <2>1. writes \in Seq(Message) /\ writes # <<>> /\ writes' = Tail(writes)
    BY DEF PopWrite, IInv, HInv, IngressTypes
  <2>2. writes' \in Seq(Message) /\ Len(writes') = Len(writes) - 1 /\ Len(writes) \in Nat \ {0}
    BY <2>1
  <2>3. \A i \in 1..Len(writes') : writes'[i] = writes[i + 1] /\ i + 1 \in 1..Len(writes)
    BY <2>1, <2>2
  <2>. QED  BY SessionAssumption, <1>1, <2>2, <2>3 DEF IInv, HInv, IngressTypes, IngressOwned, linkVars
<1>. QED  BY <1>2, <1>3, UpdateStep DEF PopWrite, LoopOnly, IInv

LEMMA CoreTickKeeps == ASSUME IInv, PopsDone \/ \E b \in BOOLEAN : CoreTick(b) PROVE IInv'
<1>1. UNCHANGED owner /\ UNCHANGED <<linkVars, writes, overflow, fastStart>>
  BY DEF PopsDone, CoreTick, LoopOnly, linkVars
<1>2. CInv'
  <2>1. Nothing \/ Reject
    BY DEF PopsDone, CoreTick
  <2>. QED  BY <1>1, <2>1, NothingKeeps, RejectKeeps DEF IInv
<1>3. HInv'
  BY <1>1, IngressKept DEF IInv
<1>. QED  BY <1>2, <1>3, UpdateStep DEF PopsDone, CoreTick, LoopOnly, IInv

-----------------------------------------------------------------------------
(* The rest of loop().                                                     *)

LEMMA CoreAndGateKept ==
  ASSUME IInv, KeepsCore, KeepsGate, UNCHANGED linkVars
  PROVE  CInv' /\ HInv'
<1>1. output' \in BOOLEAN
  BY DEF KeepsCore, adapterVars, IInv, CInv, CoreTypes
<1>2. CInv'
  BY <1>1, CoreKept DEF KeepsCore, KeepsGate, linkVars, IInv
<1>3. HInv'
  BY IngressKept DEF KeepsCore, adapterVars, IInv
<1>. QED  BY <1>2, <1>3

LEMMA GateTickKeeps ==
  ASSUME IInv, GateTick, KeepsCore, UNCHANGED linkVars
  PROVE  CInv' /\ HInv'
<1>1. HInv'
  BY IngressKept DEF KeepsCore, adapterVars, IInv
<1>2. gate' \in {"IDLE", "AUTH_PENDING", "VERIFIED"} /\ gateAge' \in 0..AuthTimeout
  BY SessionAssumption DEF GateTick, IInv, CInv, CoreTypes
<1>3. gate' = "AUTH_PENDING" => gate = "AUTH_PENDING"
  BY DEF GateTick, IInv, CInv, CoreTypes
<1>4. ClocksTogether'
  <2>. SUFFICES ASSUME sess = "ChallengeIssued", ~undrained, chalAge < ChallengeLife
                PROVE  ~abortPending /\ gate' = "AUTH_PENDING" /\ gateAge' = chalAge
    BY DEF ClocksTogether, IInv, CInv, CoreInv, KeepsCore, coreVars, GateTick, history
  <2>1. ~abortPending /\ gate = "AUTH_PENDING" /\ gateAge = chalAge
    BY DEF ClocksTogether, IInv, CInv, CoreInv
  <2>2. ~(gateAge >= AuthTimeout)
    BY <2>1, SessionAssumption DEF IInv, CInv, CoreTypes
  <2>. QED  BY <2>1, <2>2 DEF GateTick
<1>5. CoreTypes' /\ AuthOwned' /\ PendingOwned' /\ SessionHasOwner' /\ ChallengeNamed'
  BY <1>2, <1>3 DEF IInv, CInv, CoreTypes, CoreInv, AuthOwned, PendingOwned, SessionHasOwner,
     ChallengeNamed, KeepsCore, adapterVars, coreVars, linkVars, GateTick, history
<1>. QED  BY <1>1, <1>4, <1>5 DEF CInv, CoreInv

LEMMA BecomeBusyKeeps ==
  ASSUME IInv, BecomeBusy, KeepsGate, UNCHANGED linkVars
  PROVE  CInv' /\ HInv' /\ otaBusy' \in BOOLEAN
<1>1. HInv'
  BY Cleared DEF BecomeBusy, IInv
<1>2. otaBusy' \in BOOLEAN
  BY Zenon DEF BecomeBusy
<1>3. CASE sess = "ChallengeIssued"
  <2>1. output' \in BOOLEAN
    BY <1>3, Zenon DEF BecomeBusy
  <2>. QED  BY <1>1, <1>2, <1>3, <2>1, EndKeeps DEF BecomeBusy, KeepsGate, IInv
<1>4. CASE sess # "ChallengeIssued"
  <2>1. output' \in {FALSE, output} /\ output \in BOOLEAN
    BY <1>4 DEF BecomeBusy, IInv, CInv, CoreTypes
  <2>2. output' \in BOOLEAN
    BY <2>1, Zenon
  <2>. QED  BY <1>1, <1>2, <1>4, <2>2, CoreKept DEF BecomeBusy, KeepsGate, linkVars, IInv
<1>. QED  BY <1>3, <1>4

LEMMA AbortIngressKeeps ==
  ASSUME IInv, AbortUnverifiedIngress
  PROVE  HInv' /\ (UNCHANGED <<gateVars, history>> => CInv')
<1>1. CASE owner = Nobody
  <2>1. output' \in BOOLEAN
    BY <1>1 DEF AbortUnverifiedIngress, adapterVars, IInv, CInv, CoreTypes
  <2>. QED  BY <1>1, <2>1, CoreKept, IngressKept DEF AbortUnverifiedIngress, adapterVars, linkVars, IInv
<1>2. CASE owner # Nobody
  <2>1. output' \in BOOLEAN
    BY <1>2, Zenon DEF AbortUnverifiedIngress, ForgetIngress
  <2>2. HInv'
    BY <1>2, Forgotten DEF AbortUnverifiedIngress, IInv, HInv, IngressTypes
  <2>. QED  BY <1>2, <2>1, <2>2, DropKeeps DEF AbortUnverifiedIngress, IInv
<1>. QED  BY <1>1, <1>2

(* A loop step that only moves on. *)
MovesOn ==
  /\ pc # "radio" /\ pc' \in LoopPoint /\ ret' \in ReturnPoint
  /\ KeepsCore /\ KeepsBusy /\ KeepsGate /\ LoopOnly

LEMMA MovesOnKeeps == ASSUME IInv, MovesOn PROVE IInv'
<1>1. CInv' /\ HInv'
  BY CoreAndGateKept DEF MovesOn, LoopOnly
<1>2. LInv'
  BY LoopKept DEF MovesOn, KeepsBusy, busyVars, LoopOnly, IInv, LInv, LoopTypes
<1>. QED  BY <1>1, <1>2 DEF IInv

LEMMA RetTyped == IInv => ret \in ReturnPoint
BY DEF IInv, LInv, LoopTypes

LEMMA FlushMovesOn ==
  ASSUME IInv, RestartFlush \/ RestartFlushTimeout \/ OtaFlush \/ OtaFlushTimeout
  PROVE  MovesOn
BY RetTyped DEF RestartFlush, RestartFlushTimeout, OtaFlush, OtaFlushTimeout, FlushOrWait, FlushTimesOut,
   MovesOn, CallUpdate, GoTo, LoopPoint, ReturnPoint

LEMMA IdleMovesOn ==
  ASSUME IInv, LeaseLasts \/ NoRadioWork \/ MqttQuiet \/ NoOta \/ OtaWork
  PROVE  MovesOn
BY RetTyped DEF LeaseLasts, NoRadioWork, MqttQuiet, NoOta, OtaWork,
   MovesOn, CallUpdate, GoTo, LoopPoint, ReturnPoint

LEMMA ResetKeeps == ASSUME Reset PROVE IInv'
<1>1. authActive' \in BOOLEAN /\ abortPending' \in BOOLEAN /\ undrained' \in BOOLEAN /\ output' \in BOOLEAN
      /\ overflow' \in BOOLEAN /\ fastStart' \in BOOLEAN
      /\ otaBusy' \in BOOLEAN /\ radioReserved' \in BOOLEAN /\ restartPending' \in BOOLEAN
  BY Zenon DEF Reset
<1>2. CInv'
  BY <1>1, SessionAssumption DEF Reset, CInv, CoreTypes, CoreInv, AuthOwned, PendingOwned, SessionHasOwner,
     ChallengeNamed, ClocksTogether
<1>3. Len(<<>>) <= WriteCapacity /\ <<>> \in Seq(Message)
  BY SessionAssumption
<1>4. HInv'
  BY <1>1, <1>3, SessionAssumption DEF Reset, HInv, IngressTypes, IngressOwned
<1>5. LInv'
  BY <1>1 DEF Reset, LInv, LoopTypes, RadioHeld, LoopPoint, ReturnPoint
<1>. QED  BY <1>2, <1>4, <1>5 DEF IInv

LEMMA InitInv == Init => IInv
<1>. SUFFICES ASSUME Init PROVE IInv
  OBVIOUS
<1>1. authActive \in BOOLEAN /\ abortPending \in BOOLEAN /\ undrained \in BOOLEAN /\ output \in BOOLEAN
      /\ overflow \in BOOLEAN /\ fastStart \in BOOLEAN
      /\ otaBusy \in BOOLEAN /\ radioReserved \in BOOLEAN /\ restartPending \in BOOLEAN
  BY Zenon DEF Init
<1>2. CInv
  BY <1>1, SessionAssumption DEF Init, CInv, CoreTypes, CoreInv, AuthOwned, PendingOwned, SessionHasOwner,
     ChallengeNamed, ClocksTogether
<1>3. Len(<<>>) <= WriteCapacity /\ <<>> \in Seq(Message)
  BY SessionAssumption
<1>4. HInv
  BY <1>1, <1>3, SessionAssumption DEF Init, HInv, IngressTypes, IngressOwned
<1>5. LInv
  BY <1>1 DEF Init, LInv, LoopTypes, RadioHeld, LoopPoint, ReturnPoint
<1>. QED  BY <1>2, <1>4, <1>5 DEF IInv

LEMMA LoopHeadKeeps == ASSUME IInv, LoopHead PROVE IInv'
<1>1. CInv' /\ HInv'
  BY GateTickKeeps DEF LoopHead, LoopOnly, linkVars
<1>2. LInv'
  BY LoopKept DEF LoopHead, KeepsBusy, busyVars, LoopOnly, CallUpdate, LoopPoint, ReturnPoint, IInv, LInv, LoopTypes
<1>. QED  BY <1>1, <1>2 DEF IInv

(* Both places where a signed restart begins, and the snapshots. *)
LEMMA AfterKeeps == ASSUME IInv, AfterHead \/ AfterMqtt PROVE IInv'
<1>0. pc # "radio" /\ LoopOnly
  BY DEF AfterHead, AfterMqtt
<1>1. CASE restartPending
  <2>1. BecomeBusy /\ KeepsGate /\ pc' \in {"lease", "flush"} /\ ret' = ret
    BY <1>1 DEF AfterHead, AfterMqtt, BeginRestart, GoTo
  <2>2. CInv' /\ HInv' /\ otaBusy' \in BOOLEAN
    BY <1>0, <2>1, BecomeBusyKeeps DEF LoopOnly, linkVars
  <2>3. LInv'
    BY <1>0, <2>1, <2>2, RetTyped, LoopKept DEF BecomeBusy, LoopOnly, LoopPoint, IInv, LInv, LoopTypes
  <2>. QED  BY <2>2, <2>3 DEF IInv
<1>2. CASE ~restartPending
  <2>1. MovesOn
    BY <1>0, <1>2, RetTyped DEF AfterHead, AfterMqtt, StayOr, GoTo, MovesOn, LoopPoint
  <2>. QED  BY <2>1, MovesOnKeeps
<1>. QED  BY <1>1, <1>2

LEMMA QuiesceKeeps == ASSUME IInv, Quiesce PROVE IInv'
<1>0. pc' \in LoopPoint /\ ret' \in ReturnPoint /\ pc # "radio"
  BY RetTyped DEF Quiesce, GoTo, CallUpdate, LoopPoint, ReturnPoint
<1>1. LInv'
  BY <1>0, LoopKept DEF Quiesce, KeepsBusy, busyVars, IInv, LInv, LoopTypes
<1>2. CASE PhysicalActive
  BY <1>1, <1>2, CoreAndGateKept DEF Quiesce, IInv
<1>3. CASE ~PhysicalActive
  BY <1>1, <1>3, AbortIngressKeeps DEF Quiesce, KeepsGate, IInv
<1>. QED  BY <1>2, <1>3

LEMMA RebootKeeps == ASSUME IInv, Reboot PROVE IInv'
<1>1. CASE PhysicalActive
  <2>1. MovesOn
    BY <1>1, RetTyped DEF Reboot, PutOff, GoTo, MovesOn, LoopPoint
  <2>. QED  BY <2>1, MovesOnKeeps
<1>2. CASE ~PhysicalActive
  BY <1>2, ResetKeeps DEF Reboot
<1>. QED  BY <1>1, <1>2

LEMMA LeaseExpiresKeeps == ASSUME IInv, LeaseExpires PROVE IInv'
<1>1. CASE PhysicalActive
  BY <1>1, ResetKeeps DEF LeaseExpires
<1>2. CASE ~PhysicalActive
  <2>1. HInv' /\ sess' = "Idle" /\ ~authActive' /\ sid' \in 0..MaxSessions
        /\ issued' \in 0..MaxSessions /\ chalAge' \in 0..ChallengeLife
    <3>1. CASE owner = Nobody
      BY <1>2, <3>1, AbortIngressKeeps DEF LeaseExpires, ExpireUnverified, AbortUnverifiedIngress, coreVars,
         IInv, CInv, CoreTypes, CoreInv, SessionHasOwner, AuthOwned
    <3>2. CASE owner # Nobody
      <4>1. AbortUnverifiedIngress /\ DropSession
        BY <1>2, <3>2 DEF LeaseExpires, ExpireUnverified, AbortUnverifiedIngress
      <4>2. HInv'
        BY <4>1, AbortIngressKeeps
      <4>3. ~authActive'
        BY <4>1 DEF DropSession, AbortAuth, IInv, CInv, CoreInv, AuthOwned
      <4>. QED  BY <4>1, <4>2, <4>3, SessionAssumption DEF DropSession, EndSession, IInv, CInv, CoreTypes
    <3>. QED  BY <3>1, <3>2
  <2>2. output' \in BOOLEAN /\ abortPending' \in BOOLEAN /\ authActive' \in BOOLEAN
    <3>1. CASE owner = Nobody
      BY <1>2, <3>1 DEF LeaseExpires, ExpireUnverified, AbortUnverifiedIngress, adapterVars, coreVars,
         IInv, CInv, CoreTypes
    <3>2. CASE owner # Nobody
      <4>1. ForgetIngress /\ DropSession
        BY <1>2, <3>2 DEF LeaseExpires, ExpireUnverified, AbortUnverifiedIngress
      <4>. QED  BY <4>1, Zenon DEF DropSession, AbortAuth, ForgetIngress, IInv, CInv, CoreTypes
    <3>. QED  BY <3>1, <3>2
  <2>3. CInv'
    <3>1. gate' = "IDLE" /\ gateAge' = 0 /\ granted' = granted /\ undrained' = undrained
      BY <1>2 DEF LeaseExpires, ExpireUnverified, history
    <3>2. CoreTypes'
      BY <2>1, <2>2, <3>1, SessionAssumption DEF IInv, CInv, CoreTypes
    <3>. QED  BY <2>1, <3>1, <3>2 DEF CInv, CoreInv, AuthOwned, PendingOwned, SessionHasOwner, ChallengeNamed,
              ClocksTogether
  <2>4. LInv'
    BY <1>2, RetTyped, LoopKept DEF LeaseExpires, GoTo, KeepsBusy, busyVars, LoopPoint, IInv, LInv, LoopTypes
  <2>. QED  BY <2>1, <2>3, <2>4 DEF IInv
<1>. QED  BY <1>1, <1>2

LEMMA RadioKeeps == ASSUME IInv, ReserveRadio \/ ReleaseRadio PROVE IInv'
<1>1. CInv' /\ HInv'
  BY CoreAndGateKept DEF ReserveRadio, ReleaseRadio, LoopOnly
<1>2. radioReserved' \in BOOLEAN
  BY Zenon DEF ReserveRadio, ReleaseRadio
<1>3. pc' \in LoopPoint /\ ret' \in ReturnPoint
  BY RetTyped DEF ReserveRadio, ReleaseRadio, GoTo, CallUpdate, LoopPoint, ReturnPoint
<1>4. CASE ReserveRadio
  <2>1. owner = Nobody
    BY <1>4 DEF ReserveRadio, IInv, HInv, IngressTypes
  <2>. QED  BY <1>1, <1>2, <1>3, <1>4, <2>1 DEF ReserveRadio, LoopOnly, GoTo, KeepsCore, adapterVars, linkVars,
            IInv, LInv, LoopTypes, RadioHeld
<1>5. CASE ReleaseRadio
  BY <1>1, <1>2, <1>3, <1>5 DEF ReleaseRadio, LoopOnly, IInv, LInv, LoopTypes, RadioHeld
<1>. QED  BY <1>4, <1>5

LEMMA MqttKeeps == ASSUME IInv, MqttOpens \/ MqttStagesRestart PROVE IInv'
<1>1. pc # "radio" /\ pc' \in LoopPoint /\ ret' \in ReturnPoint /\ UNCHANGED busyVars /\ UNCHANGED linkVars
  BY DEF MqttOpens, MqttStagesRestart, CallUpdate, LoopPoint, ReturnPoint, KeepsBusy, LoopOnly
<1>2. restartPending' \in BOOLEAN
  BY Zenon DEF MqttOpens, MqttStagesRestart, LoopOnly, IInv, LInv, LoopTypes
<1>3. LInv'
  BY <1>1, <1>2, LoopKept DEF busyVars, IInv, LInv, LoopTypes
<1>4. CASE MqttOpens
  <2>1. sess = "Idle" /\ gate' = "VERIFIED" /\ UNCHANGED <<adapterVars, coreVars, abortPending, gateAge, history>>
    BY <1>4 DEF MqttOpens, Critical, KeepsCore
  <2>2. CInv'
    BY <1>1, <2>1 DEF adapterVars, coreVars, history, linkVars, IInv, CInv, CoreTypes, CoreInv, AuthOwned, PendingOwned,
       SessionHasOwner, ChallengeNamed, ClocksTogether
  <2>3. HInv'
    BY <1>1, <2>1, IngressKept DEF adapterVars, IInv
  <2>. QED  BY <1>3, <2>2, <2>3 DEF IInv
<1>5. CASE MqttStagesRestart
  BY <1>1, <1>3, <1>5, CoreAndGateKept DEF MqttStagesRestart, IInv
<1>. QED  BY <1>4, <1>5

LEMMA OtaKeeps == ASSUME IInv, OtaBegin \/ OtaWait \/ OtaEnd \/ OtaRestart PROVE IInv'
<1>1. CASE OtaBegin
  <2>1. CInv' /\ HInv' /\ otaBusy' \in BOOLEAN
    BY <1>1, BecomeBusyKeeps DEF OtaBegin, LoopOnly
  <2>2. LInv'
    BY <1>1, <2>1, RetTyped, LoopKept DEF OtaBegin, BecomeBusy, GoTo, LoopOnly, LoopPoint, IInv, LInv, LoopTypes
  <2>. QED  BY <2>1, <2>2 DEF IInv
<1>2. CASE OtaWait
  <2>1. CInv' /\ HInv'
    BY <1>2, GateTickKeeps DEF OtaWait, LoopOnly
  <2>2. pc' \in LoopPoint /\ ret' \in ReturnPoint
    BY <1>2, RetTyped DEF OtaWait, GoTo, CallUpdate, LoopPoint, ReturnPoint
  <2>3. LInv'
    BY <1>2, <2>2, LoopKept DEF OtaWait, KeepsBusy, busyVars, LoopOnly, IInv, LInv, LoopTypes
  <2>. QED  BY <2>1, <2>3 DEF IInv
<1>3. CASE OtaEnd
  <2>1. CInv' /\ HInv'
    BY <1>3, CoreAndGateKept DEF OtaEnd, LoopOnly
  <2>2. otaBusy' \in BOOLEAN
    BY <1>3, Zenon DEF OtaEnd
  <2>3. LInv'
    BY <1>3, <2>2, RetTyped, LoopKept DEF OtaEnd, GoTo, LoopOnly, LoopPoint, IInv, LInv, LoopTypes
  <2>. QED  BY <2>1, <2>3 DEF IInv
<1>4. CASE OtaRestart
  BY <1>4, ResetKeeps DEF OtaRestart
<1>. QED  BY <1>1, <1>2, <1>3, <1>4

LEMMA TickKeeps == ASSUME IInv, Tick PROVE IInv'
<1>1. /\ chalAge \in 0..ChallengeLife /\ gateAge \in 0..AuthTimeout
      /\ ChallengeLife \in Nat /\ AuthTimeout \in Nat /\ ChallengeLife <= AuthTimeout
  BY SessionAssumption DEF IInv, CInv, CoreTypes
<1>2. chalAge' \in 0..ChallengeLife /\ gateAge' \in 0..AuthTimeout
  BY <1>1 DEF Tick
<1>3. ClocksTogether'
  <2>1. UNCHANGED <<sess, undrained, abortPending, gate>>
    BY DEF Tick, history
  <2>2. ASSUME sess = "ChallengeIssued", ~undrained, chalAge' < ChallengeLife
        PROVE  gate = "AUTH_PENDING" /\ gateAge' = chalAge'
    <3>1. chalAge < ChallengeLife /\ chalAge' = chalAge + 1
      BY <1>1, <2>2 DEF Tick
    <3>2. gate = "AUTH_PENDING" /\ gateAge = chalAge
      BY <2>2, <3>1 DEF ClocksTogether, IInv, CInv, CoreInv
    <3>. QED  BY <1>1, <3>1, <3>2 DEF Tick
  <2>. QED  BY <2>1, <2>2 DEF ClocksTogether, IInv, CInv, CoreInv
<1>4. CInv'
  BY <1>2, <1>3 DEF Tick, adapterVars, linkVars, history, IInv, CInv, CoreTypes, CoreInv, AuthOwned, PendingOwned,
     SessionHasOwner, ChallengeNamed
<1>5. HInv'
  BY IngressKept DEF Tick, adapterVars, IInv
<1>6. LInv'
  BY DEF Tick, busyVars, loopVars, linkVars, adapterVars, IInv, LInv, LoopTypes, RadioHeld
<1>. QED  BY <1>4, <1>5, <1>6 DEF IInv

-----------------------------------------------------------------------------
(* Every step keeps the inductive invariant. *)
LEMMA Inductive == IInv /\ [Next]_vars => IInv'
<1>. SUFFICES ASSUME IInv, [Next]_vars PROVE IInv'
  OBVIOUS
<1>1. CASE Host
  BY <1>1, ConnectKeeps, DisconnectKeeps, SubscribeKeeps, WriteKeeps, OutputKeeps DEF Host
<1>2. CASE Update
  BY <1>2, DrainStepKeeps, StartFastKeeps, ConsumeOverflowKeeps, PopWriteKeeps, CoreTickKeeps DEF Update
<1>3. CASE LoopHead \/ AfterHead \/ LeaseLasts \/ LeaseExpires
  BY <1>3, LoopHeadKeeps, AfterKeeps, IdleMovesOn, MovesOnKeeps, LeaseExpiresKeeps
<1>4. CASE RestartPath
  BY <1>4, FlushMovesOn, MovesOnKeeps, QuiesceKeeps, RebootKeeps DEF RestartPath
<1>5. CASE NetworkPath
  BY <1>5, RadioKeeps, IdleMovesOn, MovesOnKeeps, MqttKeeps, AfterKeeps DEF NetworkPath
<1>6. CASE OtaPath
  BY <1>6, FlushMovesOn, IdleMovesOn, MovesOnKeeps, OtaKeeps DEF OtaPath
<1>7. CASE Tick
  BY <1>7, TickKeeps
<1>8. CASE UNCHANGED vars
  BY <1>8 DEF vars, linkVars, adapterVars, coreVars, busyVars, gateVars, loopVars, history,
     IInv, CInv, CoreTypes, CoreInv, AuthOwned, PendingOwned, SessionHasOwner, ChallengeNamed, ClocksTogether,
     HInv, IngressTypes, IngressOwned, LInv, LoopTypes, RadioHeld
<1>. QED  BY <1>1, <1>2, <1>3, <1>4, <1>5, <1>6, <1>7, <1>8 DEF Next, Loop

(* The inductive invariant holds in every behaviour. *)
THEOREM SessionInvariance == Spec => []IInv
<1>1. Init => IInv
  BY InitInv
<1>2. IInv /\ [Next]_vars => IInv'
  BY Inductive
<1>. QED  BY <1>1, <1>2, PTL DEF Spec

(* Every variable of the session keeps to its type. *)
THEOREM SessionTypes == Spec => []STypeOK
<1>1. IInv => STypeOK
  BY DEF IInv, CInv, CoreTypes, HInv, IngressTypes, LInv, LoopTypes, LoopPoint, ReturnPoint, STypeOK
<1>. QED  BY <1>1, SessionInvariance, PTL

(* The gate is never left in AUTH_PENDING for a session that is gone,      *)
(* whichever task ended it (abort requests of GattServer.cpp).             *)
THEOREM GateNeverOrphaned == Spec => []PendingOwned
<1>1. IInv => PendingOwned
  BY DEF IInv, CInv, CoreInv
<1>. QED  BY <1>1, SessionInvariance, PTL

(* A challenge in time finds the gate waiting, whenever the timeouts of    *)
(* the two state machines satisfy ChallengeLife <= AuthTimeout.            *)
THEOREM LiveChallengeServed == Spec => []LiveChallengeFindsGate
<1>1. IInv => LiveChallengeFindsGate
  BY DEF IInv, CInv, CoreInv, ClocksTogether, LiveChallengeFindsGate
<1>. QED  BY <1>1, SessionInvariance, PTL

(* What is queued is the present owner's (the generation of the token).    *)
THEOREM IngressAlwaysOwned == Spec => []IngressOwned
<1>1. IInv => IngressOwned
  BY DEF IInv, HInv
<1>. QED  BY <1>1, SessionInvariance, PTL

(* The radio reservation and a session exclude each other.                 *)
THEOREM RadioAlwaysExclusive == Spec => []RadioExclusive
<1>1. IInv => RadioExclusive
  BY DEF IInv, CInv, CoreInv, SessionHasOwner, LInv, RadioHeld, RadioExclusive
<1>. QED  BY <1>1, SessionInvariance, PTL

(* Gate, session, peer, queue and radio belong together all the time.      *)
THEOREM SessionAlwaysOwned == Spec => []SessionIsOwned
<1>1. PendingOwned /\ LiveChallengeFindsGate /\ IngressOwned /\ RadioExclusive => SessionIsOwned
  BY DEF SessionIsOwned
<1>. QED  BY <1>1, GateNeverOrphaned, LiveChallengeServed, IngressAlwaysOwned, RadioAlwaysExclusive, PTL

-----------------------------------------------------------------------------
(* What a step may do to a granted access. *)
Spares == gate = "VERIFIED" /\ gate' # "VERIFIED" => pc \in {"head", "otawait"} \/ Reset

LEMMA HostSpares == Host => Spares
BY DEF Host, HostConnect, HostDisconnect, HostSubscribeFast, HostWrite, OutputConfirmed, OutputFails,
   HostOnly, gateVars, Spares

(* The core asks for AUTH_PENDING only of an idle gate, and an abort only  *)
(* ends AUTH_PENDING.                                                      *)
LEMMA UpdateSpares == Update => Spares
<1>. SUFFICES ASSUME Update, gate = "VERIFIED" PROVE gate' = "VERIFIED"
  BY DEF Spares
<1>1. Reject => UNCHANGED gate
  BY DEF Reject, gateVars
<1>2. ResultOnly \/ Nothing => UNCHANGED gate
  BY DEF ResultOnly, Nothing, gateVars
<1>3. BeginSession => UNCHANGED gate
  BY <1>2 DEF BeginSession, gateVars
<1>4. \A b \in BOOLEAN : Commit(b) => UNCHANGED gate
  BY <1>1 DEF Commit
<1>5. CASE DrainFirst \/ DrainLast
  BY <1>5 DEF DrainFirst, DrainLast, Drain, DrainAbort, gateVars
<1>6. CASE PopsDone \/ \E b \in BOOLEAN : CoreTick(b)
  BY <1>1, <1>2, <1>6 DEF PopsDone, CoreTick
<1>7. CASE \E b \in BOOLEAN : StartFast(b)
  BY <1>2, <1>3, <1>7 DEF StartFast, BeginFastSession
<1>8. CASE \E b \in BOOLEAN : ConsumeOverflow(b)
  BY <1>1, <1>2, <1>8 DEF ConsumeOverflow
<1>9. CASE \E limited, admitted \in BOOLEAN : PopWrite(limited, admitted)
  <2>. PICK limited \in BOOLEAN, admitted \in BOOLEAN : PopWrite(limited, admitted)
    BY <1>9
  <2>1. ReceiveFrame(Head(writes), limited, admitted)
    BY DEF PopWrite
  <2>. QED  BY <1>1, <1>2, <1>3, <1>4, <2>1 DEF ReceiveFrame
<1>. QED  BY <1>5, <1>6, <1>7, <1>8, <1>9 DEF Update

LEMMA RestartSpares == RestartPath => Spares
BY DEF RestartPath, RestartFlush, RestartFlushTimeout, FlushOrWait, FlushTimesOut, Quiesce, Reboot, PutOff,
   KeepsGate, gateVars, Spares

LEMMA NetworkSpares == NetworkPath => Spares
BY DEF NetworkPath, ReserveRadio, ReleaseRadio, NoRadioWork, MqttQuiet, MqttOpens, MqttStagesRestart,
   AfterMqtt, BeginRestart, StayOr, KeepsGate, gateVars, Spares

LEMMA OtaSpares == OtaPath => Spares
BY DEF OtaPath, NoOta, OtaBegin, OtaFlush, OtaFlushTimeout, FlushOrWait, FlushTimesOut, OtaWait, OtaWork,
   OtaRestart, OtaEnd, KeepsGate, gateVars, Spares

LEMMA HeadSpares == LoopHead \/ AfterHead \/ LeaseLasts \/ LeaseExpires \/ Tick => Spares
BY DEF LoopHead, AfterHead, BeginRestart, StayOr, LeaseLasts, LeaseExpires, PhysicalActive, Tick,
   KeepsGate, gateVars, Spares

(* An access that was granted is taken back by no abort, expiry, lost      *)
(* indication, dropped link or busy period.                                *)
THEOREM CommittedAlwaysStays == Spec => CommittedStays
<1>1. [Next]_vars => [gate = "VERIFIED" /\ gate' # "VERIFIED" => pc \in {"head", "otawait"} \/ Reset]_vars
  BY HostSpares, UpdateSpares, RestartSpares, NetworkSpares, OtaSpares, HeadSpares
     DEF Next, Loop, Spares
<1>. QED  BY <1>1, PTL DEF Spec, CommittedStays

-----------------------------------------------------------------------------
(* Restarts.  On the way to one loopTask is busy from the first step on: the *)
(* core starts no session, and the one that was out has been answered.       *)

BusyPoint == {"flush", "quiesce", "reboot", "otaflush", "otawait", "otawork"}

UpdatePoint == {"drain1", "fast", "over", "pop", "core", "drain2"}

(* loopTask is at one of these points, or in the update() that returns to it. *)
Around(points) == pc \in points \/ (pc \in UpdatePoint /\ ret \in points)

BusyAndAnswered == Around(BusyPoint) => otaBusy /\ sess # "ChallengeIssued"

(* The abort that the busy period left behind is drained by the first        *)
(* section of the update() before the reboot.                                *)
DrainedForReboot == pc # "drain1" /\ Around({"reboot"}) => gate # "AUTH_PENDING"

(* The wait for the gate ended with the gate idle, and nothing has begun.    *)
IdleForOta == Around({"otawork"}) => gate = "IDLE"

RestartInv == BusyAndAnswered /\ DrainedForReboot /\ IdleForOta

LEMMA Elsewhere ==
  ASSUME pc' \notin BusyPoint, pc' \in UpdatePoint => ret' \notin BusyPoint
  PROVE  RestartInv'
BY DEF RestartInv, BusyAndAnswered, DrainedForReboot, IdleForOta, Around, BusyPoint, UpdatePoint

(* A step that leads from one busy point to another and leaves the gate. *)
LEMMA StaysBusy ==
  ASSUME BusyAndAnswered, pc \in BusyPoint, UNCHANGED otaBusy, sess' \in {sess, "Idle"}
  PROVE  otaBusy' /\ sess' # "ChallengeIssued"
BY DEF BusyAndAnswered, Around

LEMMA HostKeepsQuiet == ASSUME RestartInv, Host PROVE RestartInv'
<1>1. UNCHANGED <<pc, ret, otaBusy, gate>>
  BY DEF Host, HostConnect, HostDisconnect, HostSubscribeFast, HostWrite, OutputConfirmed, OutputFails,
     HostOnly, busyVars, gateVars, loopVars
<1>2. sess' \in {sess, "Idle"}
  BY DEF Host, HostConnect, HostDisconnect, HostSubscribeFast, HostWrite, OutputConfirmed, OutputFails,
     DropSession, EndSession, coreVars
<1>. QED  BY <1>1, <1>2 DEF RestartInv, BusyAndAnswered, DrainedForReboot, IdleForOta, Around

(* What update() does while loopTask is busy: no session begins. *)
LEMMA BusyCoreStarts ==
  ASSUME Update, otaBusy
  PROVE  sess' \in {sess, "Idle"} /\ gate' \in {gate, "IDLE"}
<1>1. Reject => sess' = "Idle" /\ gate' = gate
  BY DEF Reject, EndSession, gateVars
<1>2. ResultOnly \/ Nothing => sess' = sess /\ gate' = gate
  BY DEF ResultOnly, Nothing, coreVars, gateVars
<1>3. CoreBusy
  BY DEF CoreBusy
<1>4. CASE DrainFirst \/ DrainLast
  BY <1>4 DEF DrainFirst, DrainLast, Drain, DrainAbort, coreVars, gateVars
<1>5. CASE PopsDone \/ \E b \in BOOLEAN : CoreTick(b)
  BY <1>1, <1>2, <1>5 DEF PopsDone, CoreTick
<1>6. CASE \E b \in BOOLEAN : StartFast(b)
  BY <1>2, <1>3, <1>6 DEF StartFast, BeginFastSession
<1>7. CASE \E b \in BOOLEAN : ConsumeOverflow(b)
  BY <1>1, <1>2, <1>7 DEF ConsumeOverflow
<1>8. CASE \E limited, admitted \in BOOLEAN : PopWrite(limited, admitted)
  <2>. PICK limited \in BOOLEAN, admitted \in BOOLEAN : PopWrite(limited, admitted)
    BY <1>8
  <2>1. ReceiveFrame(Head(writes), limited, admitted)
    BY DEF PopWrite
  <2>. QED  BY <1>2, <1>3, <2>1 DEF ReceiveFrame
<1>. QED  BY <1>4, <1>5, <1>6, <1>7, <1>8 DEF Update

(* Where update() goes next: on, or back to whoever called it. *)
LEMMA UpdateGoes ==
  ASSUME Update
  PROVE  /\ pc \in UpdatePoint /\ UNCHANGED otaBusy
         /\ \/ pc' \in UpdatePoint \ {"drain1"} /\ ret' = ret
            \/ pc = "drain2" /\ pc' = ret /\ ret' = "after"
         /\ pc = "drain1" => DrainAbort /\ UNCHANGED coreVars
BY DEF Update, DrainFirst, DrainLast, Drain, DrainAbort, StartFast, ConsumeOverflow, PopWrite, PopsDone,
   CoreTick, GoTo, UpdatePoint, busyVars

LEMMA UpdateKeepsQuiet == ASSUME IInv, RestartInv, Update PROVE RestartInv'
<1>1. CASE ~Around(BusyPoint)
  BY <1>1, UpdateGoes, Elsewhere DEF Around, BusyPoint, UpdatePoint
<1>2. CASE Around(BusyPoint)
  <2>1. otaBusy /\ sess # "ChallengeIssued" /\ ret \in BusyPoint
    BY <1>2, UpdateGoes DEF RestartInv, BusyAndAnswered, Around, BusyPoint, UpdatePoint
  <2>2. sess' # "ChallengeIssued" /\ gate' \in {gate, "IDLE"} /\ otaBusy'
    BY <2>1, BusyCoreStarts, UpdateGoes
  <2>3. \A q \in BusyPoint : Around({q})' => ret = q
    BY UpdateGoes DEF Around, BusyPoint, UpdatePoint
  <2>4. Around({ret})
    BY UpdateGoes DEF Around
  <2>5. DrainedForReboot'
    <3>. SUFFICES ASSUME Around({"reboot"})' PROVE gate' # "AUTH_PENDING"
      BY DEF DrainedForReboot
    <3>1. ret = "reboot"
      BY <2>3 DEF BusyPoint
    <3>2. CASE pc = "drain1"
      <4>1. gate = "AUTH_PENDING" => abortPending
        BY <2>1 DEF IInv, CInv, CoreInv, PendingOwned
      <4>. QED  BY <3>2, <4>1, UpdateGoes DEF DrainAbort, gateVars
    <3>3. CASE pc # "drain1"
      BY <2>2, <2>4, <3>1, <3>3 DEF RestartInv, DrainedForReboot
    <3>. QED  BY <3>2, <3>3
  <2>6. IdleForOta'
    BY <2>2, <2>3, <2>4 DEF RestartInv, IdleForOta, BusyPoint
  <2>. QED  BY <2>2, <2>5, <2>6 DEF RestartInv, BusyAndAnswered
<1>. QED  BY <1>1, <1>2

(* The steps that turn the busy flag on, and the answer they give. *)
LEMMA BecomesBusyQuietly ==
  ASSUME BecomeBusy, NEW p \in {"lease", "flush", "otaflush"}, GoTo(p)
  PROVE  RestartInv'
<1>1. otaBusy' /\ sess' # "ChallengeIssued"
  BY DEF BecomeBusy, EndSession, coreVars
<1>. QED  BY <1>1 DEF GoTo, RestartInv, BusyAndAnswered, DrainedForReboot, IdleForOta, Around, UpdatePoint

LEMMA RestartPathKeepsQuiet == ASSUME RestartInv, RestartPath PROVE RestartInv'
<1>1. CASE RestartFlush \/ RestartFlushTimeout
  <2>1. pc = "flush" /\ pc' = "drain1" /\ ret' \in {"flush", "quiesce"} /\ UNCHANGED <<otaBusy, sess>>
    BY <1>1 DEF RestartFlush, RestartFlushTimeout, FlushOrWait, FlushTimesOut, CallUpdate, KeepsCore,
       KeepsBusy, coreVars, busyVars
  <2>. QED  BY <2>1, StaysBusy DEF RestartInv, BusyAndAnswered, DrainedForReboot, IdleForOta, Around, BusyPoint
<1>2. CASE Quiesce /\ PhysicalActive
  BY <1>2, Elsewhere DEF Quiesce, GoTo, BusyPoint, UpdatePoint
<1>3. CASE Quiesce /\ ~PhysicalActive
  <2>1. pc = "quiesce" /\ pc' = "drain1" /\ ret' = "reboot" /\ UNCHANGED otaBusy
    BY <1>3 DEF Quiesce, CallUpdate, KeepsBusy, busyVars
  <2>2. sess' \in {sess, "Idle"}
    BY <1>3 DEF Quiesce, AbortUnverifiedIngress, DropSession, EndSession, coreVars
  <2>. QED  BY <2>1, <2>2, StaysBusy DEF RestartInv, BusyAndAnswered, DrainedForReboot, IdleForOta, Around, BusyPoint
<1>4. CASE Reboot
  BY <1>4, Elsewhere DEF Reboot, PutOff, GoTo, Reset, BusyPoint, UpdatePoint
<1>. QED  BY <1>1, <1>2, <1>3, <1>4 DEF RestartPath

LEMMA NetworkKeepsQuiet == ASSUME RestartInv, NetworkPath PROVE RestartInv'
<1>1. CASE AfterMqtt /\ restartPending
  BY <1>1, BecomesBusyQuietly DEF AfterMqtt, BeginRestart
<1>2. CASE ~(AfterMqtt /\ restartPending)
  <2>1. pc' \in {"radio", "lease", "ota"} \/ (pc' = "drain1" /\ ret' \in {"mqtt", "checked"})
    BY <1>2 DEF NetworkPath, ReserveRadio, ReleaseRadio, NoRadioWork, MqttQuiet, MqttOpens,
       MqttStagesRestart, AfterMqtt, StayOr, GoTo, CallUpdate
  <2>. QED  BY <2>1, Elsewhere DEF BusyPoint, UpdatePoint
<1>. QED  BY <1>1, <1>2

LEMMA OtaKeepsQuiet == ASSUME RestartInv, OtaPath PROVE RestartInv'
<1>1. CASE NoOta \/ OtaRestart \/ OtaEnd
  BY <1>1, Elsewhere DEF NoOta, OtaRestart, OtaEnd, Reset, GoTo, BusyPoint, UpdatePoint
<1>2. CASE OtaBegin
  BY <1>2, BecomesBusyQuietly DEF OtaBegin
<1>3. CASE OtaFlush \/ OtaFlushTimeout
  <2>1. /\ pc = "otaflush" /\ UNCHANGED <<otaBusy, sess>>
        /\ pc' = "otawait" \/ (pc' = "drain1" /\ ret' = "otaflush")
    BY <1>3 DEF OtaFlush, OtaFlushTimeout, FlushOrWait, FlushTimesOut, GoTo, CallUpdate, KeepsCore,
       KeepsBusy, coreVars, busyVars
  <2>. QED  BY <2>1, StaysBusy DEF RestartInv, BusyAndAnswered, DrainedForReboot, IdleForOta, Around,
            BusyPoint, UpdatePoint
<1>4. CASE OtaWait
  <2>1. /\ pc = "otawait" /\ UNCHANGED <<otaBusy, sess>>
        /\ (pc' = "otawork" /\ gate' = "IDLE") \/ (pc' = "drain1" /\ ret' = "otawait")
    BY <1>4 DEF OtaWait, GoTo, CallUpdate, KeepsCore, KeepsBusy, coreVars, busyVars
  <2>. QED  BY <2>1, StaysBusy DEF RestartInv, BusyAndAnswered, DrainedForReboot, IdleForOta, Around,
            BusyPoint, UpdatePoint
<1>5. CASE OtaWork
  <2>1. pc = "otawork" /\ UNCHANGED <<otaBusy, sess, gate>> /\ pc' = "drain1" /\ ret' = "otawork"
    BY <1>5 DEF OtaWork, CallUpdate, KeepsCore, KeepsBusy, KeepsGate, coreVars, busyVars, gateVars
  <2>. QED  BY <2>1, StaysBusy DEF RestartInv, BusyAndAnswered, DrainedForReboot, IdleForOta, Around, BusyPoint
<1>. QED  BY <1>1, <1>2, <1>3, <1>4, <1>5 DEF OtaPath

LEMMA HeadKeepsQuiet ==
  ASSUME RestartInv, LoopHead \/ AfterHead \/ LeaseLasts \/ LeaseExpires
  PROVE  RestartInv'
<1>1. CASE AfterHead /\ restartPending
  BY <1>1, BecomesBusyQuietly DEF AfterHead, BeginRestart
<1>2. CASE ~(AfterHead /\ restartPending)
  <2>1. pc' \in {"net", "lease", "head"} \/ (pc' = "drain1" /\ ret' = "after")
    BY <1>2 DEF LoopHead, AfterHead, LeaseLasts, LeaseExpires, StayOr, Reset, GoTo, CallUpdate
  <2>. QED  BY <2>1, Elsewhere DEF BusyPoint, UpdatePoint
<1>. QED  BY <1>1, <1>2

LEMMA TickKeepsQuiet == ASSUME RestartInv, Tick \/ UNCHANGED vars PROVE RestartInv'
<1>1. UNCHANGED <<pc, ret, otaBusy, sess, gate>>
  BY DEF Tick, vars, busyVars, coreVars, gateVars, loopVars
<1>. QED  BY <1>1 DEF RestartInv, BusyAndAnswered, DrainedForReboot, IdleForOta, Around

(* However peers come and go meanwhile, neither the signed restart of       *)
(* servicePendingSignedRestart() nor the one after an update falls into an  *)
(* access or into an authentication that is under way.                      *)
THEOREM RestartAlwaysQuiet == Spec => RestartQuiet
<1>1. Init => RestartInv
  BY DEF Init, RestartInv, BusyAndAnswered, DrainedForReboot, IdleForOta, Around, BusyPoint, UpdatePoint
<1>2. IInv /\ RestartInv /\ [Next]_vars => RestartInv'
  BY HostKeepsQuiet, UpdateKeepsQuiet, RestartPathKeepsQuiet, NetworkKeepsQuiet, OtaKeepsQuiet,
     HeadKeepsQuiet, TickKeepsQuiet DEF Next, Loop
<1>3. IInv /\ RestartInv /\ [Next]_vars =>
        [SignedRestart \/ OtaRestart => gate = "IDLE" /\ sess # "ChallengeIssued"]_vars
  <2>. SUFFICES ASSUME IInv, RestartInv, SignedRestart \/ OtaRestart
                PROVE  gate = "IDLE" /\ sess # "ChallengeIssued"
    OBVIOUS
  <2>1. sess # "ChallengeIssued"
    <3>1. Around(BusyPoint)
      BY DEF SignedRestart, OtaRestart, Around, BusyPoint
    <3>. QED  BY <3>1 DEF RestartInv, BusyAndAnswered
  <2>2. gate \in {"IDLE", "AUTH_PENDING", "VERIFIED"}
    BY DEF IInv, CInv, CoreTypes
  <2>3. CASE SignedRestart
    BY <2>1, <2>2, <2>3 DEF SignedRestart, PhysicalActive, RestartInv, DrainedForReboot, Around
  <2>4. CASE OtaRestart
    BY <2>1, <2>4 DEF OtaRestart, RestartInv, IdleForOta, Around
  <2>. QED  BY <2>3, <2>4
<1>. QED  BY <1>1, <1>2, <1>3, SessionInvariance, PTL DEF Spec, RestartQuiet
=============================================================================
