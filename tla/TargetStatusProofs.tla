------------------------ MODULE TargetStatusProofs ------------------------
(***************************************************************************)
(* What is shown of a Target and done on the ground of its statuses, for   *)
(* any number of boots, revisions, connections and commands and a queue of *)
(* any size.                                                               *)
(***************************************************************************)
EXTENDS TargetStatus, TLAPS

USE DEF retained

Items == [s : Statuses, conn : 0..MaxConnections]
Works == [pc : {"idle", "failed", "repeated", "advanced", "publish"},
          s : Statuses \cup {None}, conn : 0..MaxConnections, boot : BOOLEAN, armed : BOOLEAN]
Calls == [pc : {"none", "pending", "closed"}, boot : Nat, seen : Nat]

Types ==
    /\ TypeOK
    /\ queue \in Seq(Items) /\ work \in Works
    /\ timer \in BOOLEAN /\ will \in BOOLEAN
    /\ health \in [failed : BOOLEAN, proof : 0..MaxConnections]
    /\ cmd \in [Commands -> Calls]

(* A timer runs only in a process that is not stopping, and a connection    *)
(* that was lost, not taken down, has left its will.                        *)
Held == /\ timer => proc = "running"
        /\ link = "lost" /\ proc # "gone" /\ shown = "online" => will

(* The inductive invariant.                                                 *)
IInv == Types /\ Held /\ OnlineIsGuarded /\ EvidenceIsCurrent

-----------------------------------------------------------------------------
LEMMA BootOf ==
  ASSUME StatusAssumption, NEW s \in Statuses \cup {None}
  PROVE  Boot(s) \in Nat
<1>1. CASE s \in Statuses
  BY <1>1 DEF Statuses, Boots, Boot
<1>2. CASE s = None
  BY <1>2 DEF None, Boot
<1>. QED  BY <1>1, <1>2

LEMMA Rests ==
  ASSUME StatusAssumption
  PROVE  /\ MaxConnections \in Nat /\ 0 \in 0..MaxConnections
         /\ Idle \in Works /\ NoCommand \in Calls
         /\ Unhealthy \in [failed : BOOLEAN, proof : 0..MaxConnections]
<1>1. MaxConnections \in Nat /\ 0 \in 0..MaxConnections
  BY DEF StatusAssumption
<1>. QED  BY <1>1 DEF Idle, NoCommand, Unhealthy, Works, Calls

LEMMA InitInv ==
  ASSUME StatusAssumption, Init  PROVE IInv
<1>1. Types
  <2>1. conn \in 0..MaxConnections /\ age \in 0..2
    <3>1. conn = 0 /\ age = 0 /\ 0 \in 0..2
      BY DEF Init
    <3>. QED  BY <3>1, Rests
  <2>2. late \in BOOLEAN
    BY DEF Init
  <2>3. TypeOK
    BY <2>1, <2>2 DEF Init, TypeOK
  <2>4. queue \in Seq(Items) /\ cmd \in [Commands -> Calls]
    BY Rests DEF Init
  <2>. QED  BY <2>3, <2>4, Rests DEF Init, Types
<1>. QED  BY <1>1 DEF Init, IInv, Held, OnlineIsGuarded, EvidenceIsCurrent, ProofIsOfThisConnection,
            CommandMeetsItsBoot, Unhealthy, NoCommand

LEMMA DeliverInv ==
  ASSUME StatusAssumption, IInv, Deliver  PROVE IInv'
<1>. USE DEF IInv, Types, TypeOK
<1>1. PICK s \in Statuses :
        \/ /\ queue' = Append(queue, [s |-> s, conn |-> conn])
           /\ UNCHANGED health
        \/ /\ health' = [health EXCEPT !.failed = TRUE]
           /\ UNCHANGED queue
  BY DEF Deliver
<1>2. UNCHANGED <<proc, link, conn, work, high, live, age, timer, will, shown, late, cmd>>
  BY DEF Deliver, mark, bridge, availability
<1>3. queue' \in Seq(Items)
  <2>1. [s |-> s, conn |-> conn] \in Items
    BY DEF Items
  <2>2. queue \in Seq(Items)
    OBVIOUS
  <2>3. Append(queue, [s |-> s, conn |-> conn]) \in Seq(Items)
    BY <2>1, <2>2
  <2>. QED  BY <1>1, <2>2, <2>3
<1>4. /\ health' \in [failed : BOOLEAN, proof : 0..MaxConnections]
      /\ health'.proof = health.proof
  BY <1>1
<1>5. Types'
  BY <1>2, <1>3, <1>4
<1>. QED  BY <1>2, <1>4, <1>5 DEF Held, OnlineIsGuarded, EvidenceIsCurrent, ProofIsOfThisConnection,
            CommandMeetsItsBoot

LEMMA PersistInv ==
  ASSUME StatusAssumption, IInv, Persist  PROVE IInv'
<1>. USE DEF IInv, Types, TypeOK
<1>1. UNCHANGED <<proc, link, conn, live, age, timer, will, shown, late, health, cmd>>
  BY DEF Persist, bridge, availability
<1>2. Head(queue) \in Items /\ queue' \in Seq(Items)
  BY DEF Persist
<1>3. Head(queue).s \in Statuses /\ Head(queue).conn \in 0..MaxConnections
  BY <1>2 DEF Items
<1>4. high' \in Statuses \cup {None}
  BY <1>3 DEF Persist
<1>5. work' \in Works
  <2>. DEFINE Done(pc) == [pc |-> pc, s |-> Head(queue).s, conn |-> Head(queue).conn,
                           boot |-> Boot(Head(queue).s) # Boot(high), armed |-> FALSE]
  <2>1. /\ Done("repeated") \in Works
        /\ Done("advanced") \in Works
        /\ Done("failed") \in Works
    BY <1>3 DEF Works
  <2>2. \/ work' = work
        \/ work' = Done("repeated")
        \/ work' = Done("advanced")
        \/ work' = Done("failed")
    BY DEF Persist
  <2>. QED  BY <2>1, <2>2
<1>6. Types'
  BY <1>1, <1>2, <1>4, <1>5
<1>7. work.pc # "publish"
  BY DEF Persist
<1>. QED  BY <1>1, <1>6, <1>7 DEF Held, OnlineIsGuarded, EvidenceIsCurrent, ProofIsOfThisConnection,
            CommandMeetsItsBoot

(* Only a status of this connection counts, and a timer is armed only in a  *)
(* process that is not stopping.                                            *)
LEMMA EffectsInv ==
  ASSUME StatusAssumption, IInv, Effects  PROVE IInv'
<1>. USE DEF IInv, Types, TypeOK
<1>1. UNCHANGED <<proc, link, conn, queue, high, will, shown, cmd>>
  BY DEF Effects
<1>2. /\ health' \in [failed : BOOLEAN, proof : 0..MaxConnections]
      /\ EvidenceIsCurrent'
  <2>1. CASE ~Current(work)
    BY <1>1, <2>1 DEF Effects, EvidenceIsCurrent, ProofIsOfThisConnection, CommandMeetsItsBoot
  <2>2. CASE Current(work)
    <3>1. link # "down" /\ work.conn = conn
      BY <2>2 DEF Current
    <3>2. health' = [health EXCEPT
                       !.failed = (work.pc = "failed"),
                       !.proof = IF work.pc = "failed" THEN @ ELSE work.conn]
      BY <2>2 DEF Effects
    <3>3. /\ health' \in [failed : BOOLEAN, proof : 0..MaxConnections]
          /\ health'.proof \in {health.proof, conn}
      BY <3>1, <3>2 DEF Works
    <3>. QED  BY <1>1, <3>1, <3>3 DEF EvidenceIsCurrent, ProofIsOfThisConnection, CommandMeetsItsBoot
  <2>. QED  BY <2>1, <2>2
<1>3. CASE ~(Current(work) /\ work.pc = "advanced")
  <2>1. work' = Idle /\ UNCHANGED <<live, age, timer, late>>
    BY <1>3 DEF Effects, bridge
  <2>2. work.pc # "publish"
    BY DEF Effects, Due
  <2>. QED  BY <1>1, <1>2, <2>1, <2>2, Rests DEF Held, OnlineIsGuarded
<1>4. CASE Current(work) /\ work.pc = "advanced"
  <2>1. PICK armed \in {Arms, FALSE} :
          /\ timer' = armed /\ late' = (late /\ ~armed)
          /\ work' = [work EXCEPT !.pc = "publish", !.armed = armed]
    BY <1>4 DEF Effects
  <2>2. live' = work.s /\ age' = 0 /\ work.s \in Statuses \cup {None}
    BY <1>4 DEF Effects, Works
  <2>3. armed \in BOOLEAN /\ (armed => proc = "running")
    BY DEF Arms
  <2>4. work' \in Works /\ work'.pc = "publish" /\ work'.armed = armed
    BY <2>1, <2>3 DEF Works
  <2>5. late' \in BOOLEAN /\ timer' \in BOOLEAN
    BY <2>1, <2>3
  <2>6. work.pc # "publish"
    BY <1>4
  <2>7. Held' /\ OnlineIsGuarded'
    <3>1. CASE armed
      BY <1>1, <1>4, <2>1, <2>3, <2>6, <3>1 DEF Held, OnlineIsGuarded, Current
    <3>2. CASE ~armed
      BY <1>1, <2>1, <2>4, <2>6, <3>2 DEF Held, OnlineIsGuarded
    <3>. QED  BY <2>3, <3>1, <3>2
  <2>. QED  BY <1>1, <1>2, <2>2, <2>4, <2>5, <2>7
<1>. QED  BY <1>3, <1>4

(* What goes online has armed the timer; if that is gone already, the       *)
(* publication is late or the shutdown has yet to say offline.              *)
LEMMA PublishInv ==
  ASSUME StatusAssumption, IInv, Publish  PROVE IInv'
<1>. USE DEF IInv, Types, TypeOK
<1>1. UNCHANGED <<proc, link, conn, queue, high, live, age, timer, will, cmd>> /\ work' = Idle
  BY DEF Publish, mark, bridge
<1>2. health' \in [failed : BOOLEAN, proof : 0..MaxConnections] /\ health'.proof = health.proof
  BY DEF Publish
<1>3. EvidenceIsCurrent'
  BY <1>1, <1>2 DEF EvidenceIsCurrent, ProofIsOfThisConnection, CommandMeetsItsBoot
<1>4. \/ UNCHANGED <<shown, late>> /\ (work.armed \/ link # "up")
      \/ shown' = "offline" /\ late' = FALSE
      \/ /\ work.armed /\ link = "up" /\ shown' = "online"
         /\ late' = (late \/ (work.armed /\ ~timer /\ proc # "stopping"))
  BY DEF Publish, Fresh, OfflineIfUp, Offline
<1>5. shown' \in {"online", "offline"} /\ late' \in BOOLEAN
  BY <1>4
<1>6. Held' /\ OnlineIsGuarded'
  <2>1. CASE UNCHANGED <<shown, late>> /\ (work.armed \/ link # "up")
    BY <1>1, <2>1 DEF Held, OnlineIsGuarded
  <2>2. CASE shown' = "offline"
    BY <1>1, <2>2 DEF Held, OnlineIsGuarded
  <2>3. CASE /\ work.armed /\ link = "up"
             /\ late' = (late \/ (work.armed /\ ~timer /\ proc # "stopping"))
    BY <1>1, <2>3 DEF Held, OnlineIsGuarded
  <2>. QED  BY <1>4, <2>1, <2>2, <2>3
<1>. QED  BY <1>1, <1>2, <1>3, <1>5, <1>6, Rests

LEMMA TimeInv ==
  ASSUME StatusAssumption, IInv, Tick \/ Expire \/ LoseLink \/ WillFires  PROVE IInv'
<1>. USE DEF IInv, Types, TypeOK, Held, OnlineIsGuarded, EvidenceIsCurrent, ProofIsOfThisConnection,
       CommandMeetsItsBoot
<1>1. CASE Tick
  BY <1>1 DEF Tick, ingress, mark, availability
<1>2. CASE Expire
  BY <1>2 DEF Expire, OfflineIfUp, Offline, ingress, mark, bridge
<1>3. CASE LoseLink
  BY <1>3 DEF LoseLink, ingress, mark, bridge
<1>4. CASE WillFires
  BY <1>4 DEF WillFires, Offline, ingress, mark, bridge
<1>. QED  BY <1>1, <1>2, <1>3, <1>4

LEMMA ForgottenOf ==
  ASSUME cmd \in [Commands -> Calls], CommandMeetsItsBoot,
         cmd' = [c \in Commands |-> Forgotten(cmd[c])]
  PROVE  cmd' \in [Commands -> Calls] /\ CommandMeetsItsBoot'
<1>1. ASSUME NEW c \in Commands
      PROVE  Forgotten(cmd[c]) \in Calls /\ Forgotten(cmd[c]).boot = Forgotten(cmd[c]).seen
  BY DEF Forgotten, Calls, CommandMeetsItsBoot
<1>. QED  BY <1>1 DEF CommandMeetsItsBoot

LEMMA ConnectionInv ==
  ASSUME StatusAssumption, IInv, Disconnect \/ Connect \/ Stop \/ Silence \/ Leave \/ Restart  PROVE IInv'
<1>. USE DEF IInv, Types, TypeOK
<1>1. CASE Disconnect
  <2>1. health' \in [failed : BOOLEAN, proof : 0..MaxConnections] /\ health'.proof = 0
    BY <1>1, Rests DEF Disconnect
  <2>2. UNCHANGED <<proc, conn, queue, work, high, will, shown, late, cmd>>
    BY <1>1 DEF Disconnect, ingress, mark
  <2>3. link' = "down" /\ live' = None /\ age' = 0 /\ timer' = FALSE
    BY <1>1 DEF Disconnect
  <2>4. TypeOK'
    <3>1. 0 \in 0..2
      OBVIOUS
    <3>. QED  BY <2>2, <2>3, <3>1
  <2>5. Types'
    BY <2>1, <2>2, <2>3, <2>4
  <2>6. Held' /\ OnlineIsGuarded' /\ EvidenceIsCurrent'
    BY <1>1, <2>1, <2>2 DEF Disconnect, Held, OnlineIsGuarded, EvidenceIsCurrent,
       ProofIsOfThisConnection, CommandMeetsItsBoot
  <2>. QED  BY <2>5, <2>6
<1>2. CASE Connect
  <2>1. cmd' \in [Commands -> Calls] /\ CommandMeetsItsBoot'
    BY <1>2, ForgottenOf DEF Connect, EvidenceIsCurrent
  <2>2. health' \in [failed : BOOLEAN, proof : 0..MaxConnections] /\ health'.proof = 0
    BY <1>2, Rests DEF Connect
  <2>3. UNCHANGED <<proc, queue, work, high, will>>
    BY <1>2 DEF Connect, ingress, mark
  <2>4. conn' \in 0..MaxConnections
    BY <1>2, Rests DEF Connect
  <2>5. link' = "up" /\ live' = None /\ age' = 0 /\ timer' = FALSE
        /\ shown' = "offline" /\ late' = FALSE
    BY <1>2 DEF Connect, Offline
  <2>6. TypeOK'
    <3>1. 0 \in 0..2
      OBVIOUS
    <3>. QED  BY <2>3, <2>4, <2>5, <3>1
  <2>7. Types'
    BY <2>1, <2>2, <2>3, <2>4, <2>5, <2>6
  <2>8. Held' /\ OnlineIsGuarded' /\ EvidenceIsCurrent'
    BY <1>2, <2>1, <2>2, <2>5 DEF Connect, Held, OnlineIsGuarded, EvidenceIsCurrent, ProofIsOfThisConnection
  <2>. QED  BY <2>7, <2>8
<1>3. CASE Stop
  <2>1. UNCHANGED <<link, conn, queue, work, high, live, age, will, shown, late, health, cmd>>
    BY <1>3 DEF Stop, ingress, mark, bridge
  <2>2. Types'
    BY <1>3, <2>1 DEF Stop
  <2>3. Held' /\ OnlineIsGuarded' /\ EvidenceIsCurrent'
    BY <1>3, <2>1 DEF Stop, Held, OnlineIsGuarded, EvidenceIsCurrent, ProofIsOfThisConnection,
       CommandMeetsItsBoot
  <2>. QED  BY <2>2, <2>3
<1>4. CASE Restart
  <2>1. cmd' \in [Commands -> Calls] /\ CommandMeetsItsBoot'
    BY <1>4, ForgottenOf DEF Restart, EvidenceIsCurrent
  <2>2. work' \in Works /\ queue' \in Seq(Items)
    BY <1>4, Rests DEF Restart
  <2>3. health' \in [failed : BOOLEAN, proof : 0..MaxConnections] /\ health'.proof = 0
    BY <1>4, Rests DEF Restart, Unhealthy
  <2>4. will' \in BOOLEAN
    BY <1>4 DEF Restart
  <2>5. /\ proc' = "running" /\ link' = "down" /\ live' = None /\ age' = 0 /\ timer' = FALSE
        /\ UNCHANGED <<conn, high, shown, late>>
    BY <1>4 DEF Restart
  <2>6. TypeOK'
    <3>1. 0 \in 0..2
      OBVIOUS
    <3>. QED  BY <2>3, <2>4, <2>5, <3>1
  <2>7. Types'
    BY <2>1, <2>2, <2>3, <2>4, <2>5, <2>6
  <2>8. Held' /\ OnlineIsGuarded' /\ EvidenceIsCurrent'
    BY <1>4, <2>1, <2>3 DEF Restart, Held, OnlineIsGuarded, EvidenceIsCurrent, ProofIsOfThisConnection
  <2>. QED  BY <2>7, <2>8
<1>5. CASE Silence
  <2>1. UNCHANGED <<link, conn, queue, work, high, live, age, timer, will, health, cmd>>
    BY <1>5 DEF Silence, ingress, mark, bridge
  <2>2. /\ shown' \in {shown, "offline"} /\ late' \in {late, FALSE}
        /\ IF link = "up" THEN shown' = "offline" ELSE shown' = shown /\ late' = late
    BY <1>5 DEF Silence, OfflineIfUp, Offline
  <2>3. Types'
    BY <1>5, <2>1, <2>2 DEF Silence
  <2>4. Held' /\ OnlineIsGuarded'
    BY <1>5, <2>1, <2>2 DEF Silence, Held, OnlineIsGuarded
  <2>5. EvidenceIsCurrent'
    BY <2>1 DEF EvidenceIsCurrent, ProofIsOfThisConnection, CommandMeetsItsBoot
  <2>. QED  BY <2>3, <2>4, <2>5
<1>6. CASE Leave
  <2>1. UNCHANGED <<conn, queue, work, high, live, age, timer, will, shown, late, health, cmd>>
    BY <1>6 DEF Leave, ingress, mark, bridge, availability
  <2>2. link' \in {link, "lost"} /\ (link' = "lost" => link \in {"up", "lost"})
    BY <1>6 DEF Leave
  <2>3. Types'
    BY <1>6, <2>1, <2>2 DEF Leave
  <2>4. Held' /\ OnlineIsGuarded' /\ EvidenceIsCurrent'
    BY <1>6, <2>1, <2>2 DEF Leave, Held, OnlineIsGuarded, EvidenceIsCurrent,
       ProofIsOfThisConnection, CommandMeetsItsBoot
  <2>. QED  BY <2>3, <2>4
<1>. QED  BY <1>1, <1>2, <1>3, <1>4, <1>5, <1>6

LEMMA CommandInv ==
  ASSUME StatusAssumption, IInv, Request \/ Ack  PROVE IInv'
<1>. USE DEF IInv, Types, TypeOK
<1>1. UNCHANGED <<proc, link, conn, queue, work, high, live, age, timer, will, health>>
  BY DEF Request, Ack, ingress, mark, bridge, availability
<1>2. cmd' \in [Commands -> Calls] /\ CommandMeetsItsBoot'
  <2>1. CASE cmd' = cmd
    BY <2>1 DEF EvidenceIsCurrent, CommandMeetsItsBoot
  <2>2. ASSUME NEW c \in Commands, NEW r \in Calls, r.boot = r.seen, cmd' = [cmd EXCEPT ![c] = r]
        PROVE  cmd' \in [Commands -> Calls] /\ CommandMeetsItsBoot'
    BY <2>2 DEF EvidenceIsCurrent, CommandMeetsItsBoot
  <2>3. CASE Ack
    <3>1. PICK c \in Commands : cmd' = [cmd EXCEPT ![c].pc = "closed"]
      BY <2>3 DEF Ack
    <3>. DEFINE r == [cmd[c] EXCEPT !.pc = "closed"]
    <3>2. r \in Calls /\ r.boot = r.seen /\ cmd' = [cmd EXCEPT ![c] = r]
      BY <3>1 DEF Calls, EvidenceIsCurrent, CommandMeetsItsBoot
    <3>. QED  BY <2>2, <3>2
  <2>4. CASE Request /\ cmd' # cmd
    <3>1. PICK c \in Commands, pc \in {"pending", "closed"} :
            /\ SameBoot(Boot(live))
            /\ cmd' = [cmd EXCEPT ![c] = [pc |-> pc, boot |-> Boot(high), seen |-> Boot(live)]]
      BY <2>4 DEF Request
    <3>. DEFINE r == [pc |-> pc, boot |-> Boot(high), seen |-> Boot(live)]
    <3>2. Boot(live) \in Nat /\ Boot(high) = Boot(live)
      BY <3>1, BootOf DEF SameBoot
    <3>3. r \in Calls /\ r.boot = r.seen /\ cmd' = [cmd EXCEPT ![c] = r]
      BY <3>1, <3>2 DEF Calls
    <3>. QED  BY <2>2, <3>3
  <2>. QED  BY <2>1, <2>3, <2>4
<1>3. (shown' = shown /\ late' = late) \/ (shown' = "offline" /\ late' = FALSE)
  BY DEF Request, Ack, Offline, availability
<1>. QED  BY <1>1, <1>2, <1>3 DEF Held, OnlineIsGuarded, EvidenceIsCurrent, ProofIsOfThisConnection

LEMMA StutterInv ==
  ASSUME IInv, UNCHANGED vars  PROVE IInv'
BY DEF vars, ingress, mark, bridge, availability, IInv, Types, TypeOK, Held, OnlineIsGuarded,
   EvidenceIsCurrent, ProofIsOfThisConnection, CommandMeetsItsBoot

LEMMA StatusInvariant == Spec => []IInv
<1>1. Init => IInv
  BY InitInv, StatusAssumption
<1>2. IInv /\ [Next]_vars => IInv'
  <2>. SUFFICES ASSUME IInv, [Next]_vars  PROVE IInv'
    OBVIOUS
  <2>. QED  BY StatusAssumption, DeliverInv, PersistInv, EffectsInv, PublishInv, TimeInv, ConnectionInv,
              CommandInv, StutterInv DEF Next
<1>. QED  BY <1>1, <1>2, PTL DEF Spec

(* Every variable keeps the type its component declares.                    *)
THEOREM StatusTypeCorrect == Spec => []TypeOK
<1>1. IInv => TypeOK
  BY DEF IInv, Types
<1>. QED  BY <1>1, StatusInvariant, PTL

(* Whoever reads "online" can rely on the timer of this connection, on the  *)
(* writer or the shutdown that is about to say offline, or on the will the  *)
(* broker holds, whatever is lost, stopped or restarted: the one exception  *)
(* is a publication whose own timer went while the database was asked.      *)
THEOREM OnlineAlwaysGuarded == Spec => []OnlineIsGuarded
<1>1. IInv => OnlineIsGuarded
  BY DEF IInv
<1>. QED  BY <1>1, StatusInvariant, PTL

(* Readiness rests on evidence of this connection, and a command is signed  *)
(* for the boot whose live status it was accepted on.                       *)
THEOREM EvidenceAlwaysCurrent == Spec => []EvidenceIsCurrent
<1>1. IInv => EvidenceIsCurrent
  BY DEF IInv
<1>. QED  BY <1>1, StatusInvariant, PTL
=============================================================================
