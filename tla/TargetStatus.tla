---------------------------- MODULE TargetStatus ---------------------------
(***************************************************************************)
(* What the backend knows of one Target, and what it does on that ground   *)
(* (src/backend/app/main.py, home_assistant_bridge.py):                    *)
(*                                                                         *)
(*   - the Target signs a status for every revision of every boot; the     *)
(*     broker delivers any of them, at any time, again;                    *)
(*   - a writer thread advances the durable high-water mark and, if the    *)
(*     connection the status came on is still the current one, applies its *)
(*     live effects (_persist_authenticated_target_status,                 *)
(*     _AuthenticatedTargetStatusWorker, accept_verified_status);          *)
(*   - Home Assistant sees a retained availability that a timer, the       *)
(*     broker's will or an orderly shutdown takes back                     *)
(*     (_BridgeAvailabilityExpiry, on_connect, lifespan).  The timer is    *)
(*     armed before the database is asked for the boot, "online" is        *)
(*     published after the answer, and the shutdown waits for neither;     *)
(*   - a request of Home Assistant becomes a signed command for the boot   *)
(*     the last live status spoke of (accept_request, accept_ack,          *)
(*     _signed_target_command).                                            *)
(*                                                                         *)
(* A status is <<boot, revision>>; the Target signs one document for each. *)
(* The broker may deliver them in any order and repeat them, so the order  *)
(* in which the Target signs them makes no difference here.                *)
(* Age 0 is younger than the 15 s of a command, age 1 than the 90.25 s of  *)
(* the availability, age 2 is older.  The registry of live states and the  *)
(* bridge hold the same status while a connection lasts; the bridge is not *)
(* asked while there is none, so one variable stands for both.             *)
(***************************************************************************)
EXTENDS Naturals, Sequences

CONSTANTS MaxBoot, MaxRevision, MaxConnections, Capacity, Commands

ASSUME StatusAssumption ==
    {MaxBoot, MaxRevision, MaxConnections, Capacity} \subseteq Nat \ {0}

VARIABLES proc,       \* the backend: "running", "stopping" (the expiry is
                      \* stopped), "silenced" (it has said offline), "gone"
          link,       \* "up", "lost" (no callback yet) or "down"
          conn,       \* the connections made so far
          queue,      \* the status writer's queue: [s, conn]
          work,       \* a committed status whose effects are due, or
                      \* which is to be published
          high,       \* target_access_status_highwater
          live, age,  \* _TargetGateStateRegistry and the bridge
          renewed,    \* the last boot an ACL refresh was asked for
          timer,      \* _BridgeAvailabilityExpiry is armed
          will,       \* the broker holds the will of a dead connection
          shown,      \* the retained availability
          late,       \* history: "online" came after its timer had gone
          health,     \* _authenticated_status_collector_health
          cmd         \* the commands

mark == <<high, renewed>>
bridge == <<live, age>>
retained == <<shown, late>>
availability == <<timer, will, retained>>
ingress == <<queue, work>>
vars == <<proc, link, conn, ingress, mark, bridge, availability,
          health, cmd>>

None == <<0, 0>>
Boots == 1..MaxBoot
Statuses == Boots \X (1..MaxRevision)
Boot(s) == s[1]
Earlier(s, t) == s[1] < t[1] \/ (s[1] = t[1] /\ s[2] < t[2])

Idle == [pc |-> "idle", s |-> None, conn |-> 0, boot |-> FALSE, armed |-> FALSE]
Unhealthy == [failed |-> FALSE, proof |-> 0]
NoCommand == [pc |-> "none", boot |-> 0, seen |-> 0]

Init == /\ proc = "running" /\ link = "down" /\ conn = 0
        /\ queue = <<>> /\ work = Idle
        /\ high = None /\ renewed = 0
        /\ live = None /\ age = 0
        /\ timer = FALSE /\ will = FALSE /\ shown = "offline" /\ late = FALSE
        /\ health = Unhealthy
        /\ cmd = [c \in Commands |-> NoCommand]

-----------------------------------------------------------------------------
(* The broker                                                               *)

(* The callbacks of the client run until the shutdown ends its loop; those  *)
(* that ask for the generation of the transport wait while a status is      *)
(* being published, for the writer holds its lock (_transport_lock).        *)
Looping == proc # "gone"
Unlocked == work.pc # "publish"

(* What is shown is taken back, if there is a socket to say so.             *)
Offline == shown' = "offline" /\ late' = FALSE
OfflineIfUp == IF link = "up" THEN Offline ELSE UNCHANGED retained

(* on_message and request: a full queue is a failure of the writer.         *)
Deliver ==
    /\ link = "up" /\ Looping /\ Unlocked
    /\ \E s \in Statuses :
         \/ /\ Len(queue) < Capacity
            /\ queue' = Append(queue, [s |-> s, conn |-> conn])
            /\ UNCHANGED health
         \/ /\ Len(queue) = Capacity
            /\ health' = [health EXCEPT !.failed = TRUE]
            /\ UNCHANGED queue
    /\ UNCHANGED <<proc, link, conn, work, mark, bridge, availability,
                   cmd>>

-----------------------------------------------------------------------------
(* The status writer                                                        *)

(* An older boot, or an older revision of this boot, is refused.            *)
NotOlder(s) == ~Earlier(s, high)

(* The transaction: high-water, boot row, terminal summary.  A status that  *)
(* is the high-water itself repairs the derived boot row and advances       *)
(* nothing; a failure of the database may come before or after the commit.  *)
Persist ==
    /\ work.pc = "idle" /\ queue # <<>>
    /\ queue' = Tail(queue)
    /\ LET s == Head(queue).s
           Done(pc) == [pc |-> pc, s |-> s, conn |-> Head(queue).conn,
                        boot |-> Boot(s) # Boot(high), armed |-> FALSE]
       IN \/ /\ ~NotOlder(s)
             /\ UNCHANGED <<work, high>>
          \/ /\ NotOlder(s)
             /\ high' = s
             /\ work' = Done(IF s = high THEN "repeated" ELSE "advanced")
          \/ /\ work' = Done("failed")
             /\ high' \in {high} \union {t \in {s} : NotOlder(t)}
    /\ UNCHANGED <<proc, link, conn, renewed, bridge, availability,
                   health, cmd>>

(* The transport generation: a disconnection or a new connection voids what *)
(* an earlier one has queued.                                               *)
AnyConnection(w) == link # "down"
Current(w) == link # "down" /\ w.conn = conn

(* arm: the timer of the last status replaces the one before; a stopped     *)
(* expiry arms nothing more, and a thread may fail to start.                *)
StillArms == TRUE
Arms == proc = "running"

(* note_writer_result, note_verified_evidence, then, for a status that has  *)
(* advanced: the registry, the ACL refresh of a new boot, the timer.        *)
Due == {"failed", "repeated", "advanced"}
Effects ==
    /\ work.pc \in Due
    /\ IF Current(work)
       THEN health' = [health EXCEPT
                         !.failed = (work.pc = "failed"),
                         !.proof = IF work.pc = "failed" THEN @ ELSE work.conn]
       ELSE UNCHANGED health
    /\ IF Current(work) /\ work.pc = "advanced"
       THEN /\ live' = work.s /\ age' = 0
            /\ renewed' = IF work.boot THEN Boot(work.s) ELSE renewed
            /\ \E armed \in {Arms, FALSE} :
                 /\ timer' = armed
                 /\ late' = (late /\ ~armed)
                 /\ work' = [work EXCEPT !.pc = "publish", !.armed = armed]
       ELSE work' = Idle /\ UNCHANGED <<bridge, renewed, timer, late>>
    /\ UNCHANGED <<proc, link, conn, queue, high, will, shown, cmd>>

FreshAnyway(armed, s) == Boot(s) = Boot(high)
Fresh(armed, s) == armed /\ Boot(s) = Boot(high)

(* The database has been asked for the boot.  It may be out of reach, which *)
(* ends the work of an armed status, or fail to answer, which is no proof.  *)
(* The publication reaches the broker while the socket lives, whatever has  *)
(* become of the timer meanwhile.                                           *)
Publish ==
    /\ work.pc = "publish"
    /\ work' = Idle
    /\ \/ /\ work.armed
          /\ health' = [health EXCEPT !.failed = TRUE]
          /\ UNCHANGED retained
       \/ /\ \E fresh \in {Fresh(work.armed, work.s), FALSE} :
               IF fresh /\ link = "up"
               THEN /\ shown' = "online"
                    /\ late' = (late \/ (work.armed /\ ~timer /\ proc # "stopping"))
               ELSE OfflineIfUp
          /\ UNCHANGED health
    /\ UNCHANGED <<proc, link, conn, queue, mark, bridge, timer, will, cmd>>

-----------------------------------------------------------------------------
(* Time                                                                     *)

(* The expiry is due at age 2; it publishes under its own lock.             *)
Tick == /\ live # None /\ age < 2
        /\ age' = age + 1
        /\ UNCHANGED <<proc, link, conn, ingress, mark, live,
                       availability, health, cmd>>

Expire == /\ timer /\ age = 2
          /\ timer' = FALSE
          /\ OfflineIfUp
          /\ UNCHANGED <<proc, link, conn, ingress, mark, bridge, will,
                         health, cmd>>

-----------------------------------------------------------------------------
(* The connection                                                           *)

LoseLink == /\ link = "up"
            /\ link' = "lost" /\ will' = TRUE
            /\ UNCHANGED <<proc, conn, ingress, mark, bridge, timer, retained,
                           health, cmd>>

(* The broker publishes the will when it notices: at once, or even after    *)
(* the next connection.                                                     *)
WillFires == /\ will
             /\ will' = FALSE /\ Offline
             /\ UNCHANGED <<proc, link, conn, ingress, mark, bridge, timer,
                            health, cmd>>

(* reset_transport forgets what is pending.                                 *)
Forgotten(c) == IF c.pc = "none" THEN c ELSE [c EXCEPT !.pc = "closed"]

Disconnect ==
    /\ link = "lost" /\ Unlocked
    /\ link' = "down"
    /\ live' = None /\ age' = 0 /\ timer' = FALSE
    /\ health' = [health EXCEPT !.proof = 0]
    /\ UNCHANGED <<proc, conn, ingress, mark, will, retained, cmd>>

(* on_connect: everything live starts anew behind an offline barrier.       *)
Connect ==
    /\ link = "down" /\ Looping /\ Unlocked /\ conn < MaxConnections
    /\ link' = "up" /\ conn' = conn + 1
    /\ live' = None /\ age' = 0
    /\ timer' = FALSE /\ Offline
    /\ health' = [health EXCEPT !.proof = 0]
    /\ cmd' = [c \in Commands |-> Forgotten(cmd[c])]
    /\ UNCHANGED <<proc, ingress, mark, will>>

(* The end of lifespan: the expiry is stopped, "offline" is published, the  *)
(* client's loop ends with a disconnection that takes the will back.  The   *)
(* writer goes on meanwhile.                                                *)
Stop == /\ proc = "running"
        /\ proc' = "stopping" /\ timer' = FALSE
        /\ UNCHANGED <<link, conn, ingress, mark, bridge, will, retained,
                       health, cmd>>

Silence == /\ proc = "stopping"
           /\ proc' = "silenced" /\ OfflineIfUp
           /\ UNCHANGED <<link, conn, ingress, mark, bridge, timer, will,
                          health, cmd>>

Leave == /\ proc = "silenced"
         /\ proc' = "gone"
         /\ link' = IF link = "up" THEN "lost" ELSE link
         /\ UNCHANGED <<conn, ingress, mark, bridge, availability, health,
                        cmd>>

(* The process ends, wherever it is, and a new one starts: its refresh      *)
(* worker begins with a pass over every Target.                             *)
Restart ==
    /\ will' = (will \/ link = "up")
    /\ proc' = "running" /\ link' = "down"
    /\ queue' = <<>> /\ work' = Idle
    /\ live' = None /\ age' = 0 /\ timer' = FALSE
    /\ renewed' = Boot(high)
    /\ health' = Unhealthy
    /\ cmd' = [c \in Commands |-> Forgotten(cmd[c])]
    /\ UNCHANGED <<conn, high, retained>>

-----------------------------------------------------------------------------
(* Commands                                                                 *)

(* _signed_target_command: the envelope names the boot of the boot row,     *)
(* which must be the boot the request was accepted for.                     *)
SameBoot(b) == b = Boot(high)

(* accept_request and the publication, which may succeed, fail, or reach    *)
(* the broker although it is reported as failed.  A request that finds the  *)
(* status stale takes the availability back.                                *)
Request ==
    /\ link = "up" /\ Looping
    /\ \/ /\ live # None /\ age = 0
          /\ \E c \in Commands :
               /\ cmd[c].pc = "none" /\ SameBoot(Boot(live))
               /\ \E pc \in {"pending", "closed"} :
                    cmd' = [cmd EXCEPT ![c] = [pc |-> pc, boot |-> Boot(high),
                                               seen |-> Boot(live)]]
          /\ UNCHANGED retained
       \/ /\ live = None \/ age > 0
          /\ Offline /\ UNCHANGED cmd
    /\ UNCHANGED <<proc, link, conn, ingress, mark, bridge, timer, will,
                   health>>

(* accept_ack: a pending command of the boot that is live, once.            *)
Ack == /\ link = "up" /\ Looping /\ live # None /\ age = 0
       /\ \E c \in Commands :
            /\ cmd[c].pc = "pending" /\ cmd[c].boot = Boot(live)
            /\ cmd' = [cmd EXCEPT ![c].pc = "closed"]
       /\ UNCHANGED <<proc, link, conn, ingress, mark, bridge, availability,
                      health>>

Next == \/ Deliver \/ Persist \/ Effects \/ Publish
        \/ Tick \/ Expire \/ LoseLink \/ WillFires \/ Disconnect \/ Connect
        \/ Stop \/ Silence \/ Leave \/ Restart \/ Request \/ Ack

(* The threads of the backend run, a shutdown that has begun goes on, the   *)
(* timer fires, the broker notices a dead connection, and time passes.      *)
Fairness == /\ WF_vars(Persist) /\ WF_vars(Effects) /\ WF_vars(Publish)
            /\ WF_vars(Silence)
            /\ WF_vars(Tick) /\ WF_vars(Expire) /\ WF_vars(WillFires)
            /\ WF_vars(Disconnect)

Spec == Init /\ [][Next]_vars /\ Fairness

-----------------------------------------------------------------------------
(* Properties                                                               *)

TypeOK ==
    /\ proc \in {"running", "stopping", "silenced", "gone"} /\ link \in {"up", "lost", "down"}
    /\ conn \in 0..MaxConnections
    /\ high \in Statuses \union {None} /\ live \in Statuses \union {None}
    /\ age \in 0..2 /\ shown \in {"online", "offline"} /\ late \in BOOLEAN

(* Whoever reads "online" can rely on somebody to take it back: the timer   *)
(* of this connection, the writer that could not arm one and is about to    *)
(* say so, a shutdown that has yet to say so, or the will the broker still  *)
(* holds (the expiry, accept_verified_status, the end of lifespan,          *)
(* on_connect).  Only a publication whose own timer has fired, or has been  *)
(* stopped by a shutdown that has said its last word, while the database    *)
(* was asked for the boot leaves it unguarded (late).                       *)
OnlineIsGuarded ==
    shown = "online" =>
      \/ will \/ late
      \/ /\ link = "up"
         /\ \/ proc = "stopping"
            \/ proc = "running" /\ (timer \/ (work.pc = "publish" /\ ~work.armed))

(* Readiness and the live registry speak of this connection only: a status  *)
(* that began on an older one proves nothing (the worker's _run, "cannot    *)
(* prove key agreement").  Every status that is live was delivered on it.   *)
ProofIsOfThisConnection == health.proof # 0 => health.proof = conn /\ link # "down"

(* A command reaches the boot whose live status it was accepted on, and no  *)
(* other, although a newer boot may be committed before its effects are     *)
(* applied (accept_request, _signed_target_command).                        *)
CommandMeetsItsBoot == \A c \in Commands : cmd[c].boot = cmd[c].seen

(* Nothing of an earlier connection or boot is acted on.                    *)
EvidenceIsCurrent == ProofIsOfThisConnection /\ CommandMeetsItsBoot

(* A Target that is not heard of any more is not shown online for ever,     *)
(* whatever connection or process is lost meanwhile, unless the publication *)
(* was late: the statuses are finitely many, and only one that advances the *)
(* mark is news.                                                            *)
SilenceIsShown == []<>(shown = "offline" \/ late)

(* Every boot that becomes the durable high-water has its ACL refresh asked *)
(* for by the commit that made it so (accept_verified_status).              *)
BootQueuesItsRefresh ==
    [][ work.pc = "advanced" /\ work.boot /\ work'.pc # "advanced"
        => renewed' = Boot(work.s) ]_vars
=============================================================================
