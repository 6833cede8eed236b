--------------------------- MODULE EventCollector --------------------------
(***************************************************************************)
(* How an access event of a Target becomes durable in the backend and is   *)
(* announced to Home Assistant (src/backend/app/main.py):                  *)
(*                                                                         *)
(*   - the MQTT network thread queues the event for the writer thread      *)
(*     (on_message, _CanonicalAccessEventWorker);                          *)
(*   - the writer commits it with its outbox row, or keeps a record whose  *)
(*     identity collides apart, and only then publishes the receipt that   *)
(*     lets the Target forget it (_persist_canonical_target_access_event,  *)
(*     preserve_conflict, publish_access_receipt);                         *)
(*   - the outbox thread publishes the oldest row that is not sent and     *)
(*     marks it when its own message comes back from the broker            *)
(*     (_HomeAssistantAccessEventOutboxWorker).                            *)
(*                                                                         *)
(* A generation of the transport is kept as one bit: whether the outbox    *)
(* thread's generation is still the current one.  Back-off delays are      *)
(* steps that take their time.  Faults (lost messages, failed statements,  *)
(* lost connections, a restart) happen until `calm`.                       *)
(***************************************************************************)
EXTENDS Naturals, Sequences, SequencesExt

CONSTANTS Events,       \* what arrives on the event topic of one Target
          Malformed,    \* of these: another document or code than the contract's
          Forged,       \* of these: unsigned or with a wrong MAC
          Slot,         \* [Events -> its (boot, sequence) identity]
          Projected,    \* the events Home Assistant is told of
          Journal,      \* the Target's journal, oldest event first
          Capacity      \* of the writer's queue

ASSUME CollectorAssumption ==
    /\ Slot \in [Events -> Nat] /\ Projected \subseteq Events
    /\ Malformed \subseteq Events /\ Forged \subseteq Events
    /\ ToSet(Journal) \cap (Malformed \union Forged) = {}
    /\ Journal \in Seq(Events) /\ Capacity \in Nat \ {0}

VARIABLES journal,    \* what the Target has not forgotten
          queue,      \* the writer's queue
          history,    \* access_event_history
          conflicts,  \* access_event_conflicts
          outbox,     \* ha_access_event_outbox: [event, sent], oldest first
          receipts,   \* commit receipts on their way to the Target
          link,       \* "up", "lost" (no callback yet) or "down"
          sub,        \* the receipt subscription: "none", "waiting", "ready"
          acks,       \* SUBACKs on the way: of the "current" or a "stale" request
          blocked,    \* _awaiting_reconnect
          pub,        \* the outbox thread
          sending,    \* rows on their way to the broker
          echoes,     \* rows on their way back
          routed,     \* the rows the broker has handed to its subscribers
          calm

store == <<journal, queue, history, conflicts, receipts>>
transport == <<link, sub, acks, blocked>>
vars == <<store, outbox, transport, pub, sending, echoes, routed, calm>>

Waiting == [pc |-> "wait", row |-> 0, fresh |-> FALSE, early |-> FALSE,
            pending |-> FALSE, seen |-> FALSE]

Init == /\ journal = Journal /\ queue = <<>> /\ history = {} /\ conflicts = {}
        /\ outbox = <<>> /\ receipts = {}
        /\ link = "down" /\ sub = "none" /\ acks = {} /\ blocked = FALSE
        /\ pub = Waiting /\ sending = {} /\ echoes = {} /\ routed = {}
        /\ calm = FALSE

Queued(e) == \E i \in DOMAIN outbox : outbox[i].event = e

-----------------------------------------------------------------------------
(* From the Target to the store                                             *)

(* The Target sends the oldest event of its journal until the receipt of    *)
(* that event arrives; on_message drops it when the queue is full.          *)
Deliver ==
    /\ journal # <<>> /\ link = "up" /\ Len(queue) < Capacity
    /\ queue' = Append(queue, Head(journal))
    /\ UNCHANGED <<journal, history, conflicts, receipts, outbox, transport,
                   pub, sending, echoes, routed, calm>>

(* Anyone may publish on the topic.                                         *)
Inject ==
    /\ ~calm /\ link = "up" /\ Len(queue) < Capacity
    /\ \E e \in Malformed \union Forged : queue' = Append(queue, e)
    /\ UNCHANGED <<journal, history, conflicts, receipts, outbox, transport,
                   pub, sending, echoes, routed, calm>>

(* _parse_canonical_target_access_event: the exact document and its code    *)
(* table; _authenticate_canonical_target_access_event: its MAC.             *)
Parsed(e) == e \notin Malformed
Authentic(e) == Parsed(e) /\ e \notin Forged

(* The unique keys of access_event_history: the event, its place in a boot. *)
Clashes(e) == \E h \in history : Slot[h] = Slot[e]

(* INSERT of the event and, for a terminal one, of its projection.          *)
EventAlone(e) ==
    history' = history \union {e} /\ UNCHANGED <<conflicts, outbox>>
Inserted(e) ==
    /\ history' = history \union {e}
    /\ outbox' = IF e \in Projected THEN Append(outbox, [event |-> e, sent |-> FALSE])
                                    ELSE outbox
    /\ UNCHANGED conflicts

(* preserve_conflict: the colliding record is kept, and kept apart          *)
Preserved(e) ==
    conflicts' = conflicts \union {e} /\ UNCHANGED <<history, outbox>>

(* The row that made the INSERT fail is this very event: INSERT IGNORE of   *)
(* its projection.                                                          *)
Repeated(e) ==
    IF e \in Projected /\ ~Queued(e) THEN Inserted(e)
                                     ELSE UNCHANGED <<history, conflicts, outbox>>

Committed(e) ==
    \/ ~Clashes(e) /\ Inserted(e)
    \/ e \in history /\ Repeated(e)
    \/ Clashes(e) /\ e \notin history /\ Preserved(e)

Receipt(e) == receipts' = IF link = "up" THEN receipts \union {e} ELSE receipts

(* One item of the writer.  A commit may be lost, or land and be reported   *)
(* as failed: neither is followed by a receipt.                             *)
Stored(e) ==
    \/ Committed(e) /\ Receipt(e)
    \/ ~calm /\ Committed(e) /\ UNCHANGED receipts
    \/ ~calm /\ UNCHANGED <<history, conflicts, outbox, receipts>>

Persist ==
    /\ queue # <<>>
    /\ IF Authentic(Head(queue))
       THEN Stored(Head(queue))
       ELSE UNCHANGED <<history, conflicts, outbox, receipts>>
    /\ queue' = Tail(queue)
    /\ UNCHANGED <<journal, transport, pub, sending, echoes, routed, calm>>

(* The receipt of the oldest event lets the Target go on to the next one.   *)
Forget ==
    /\ journal # <<>> /\ Head(journal) \in receipts
    /\ journal' = Tail(journal)
    /\ receipts' = receipts \ {Head(journal)}
    /\ UNCHANGED <<queue, history, conflicts, outbox, transport, pub, sending,
                   echoes, routed, calm>>

-----------------------------------------------------------------------------
(* The connection: callbacks of the network thread                          *)

Live == link # "down"

(* A new generation: whatever the outbox thread waits for is void.          *)
NewGeneration == pub' = [pub EXCEPT !.fresh = FALSE, !.early = FALSE,
                                    !.pending = FALSE, !.seen = FALSE]

(* on_connect subscribes to the receipts; the call may fail, the SUBACK may *)
(* be lost.                                                                 *)
Connect ==
    /\ link = "down"
    /\ link' = "up" /\ blocked' = FALSE
    /\ \/ sub' = "waiting" /\ acks' = {"current"}
       \/ ~calm /\ sub' = "waiting" /\ acks' = {}
       \/ ~calm /\ sub' = "none" /\ acks' = {}
    /\ NewGeneration
    /\ UNCHANGED <<store, outbox, sending, echoes, routed, calm>>

LoseLink ==
    /\ ~calm /\ link = "up"
    /\ link' = "lost"
    /\ UNCHANGED <<store, outbox, sub, acks, blocked, pub, sending, echoes,
                   routed, calm>>

(* on_disconnect: reset_transport                                           *)
Disconnect ==
    /\ link = "lost"
    /\ link' = "down" /\ sub' = "none" /\ acks' = {} /\ blocked' = FALSE
    /\ echoes' = {}
    /\ NewGeneration
    /\ UNCHANGED <<store, outbox, sending, routed, calm>>

(* acknowledge_subscription: while the thread is inside subscribe() the     *)
(* answer is kept aside; one of another request is ignored.                 *)
Asking == pub.pc = "ask" /\ pub.fresh
Acknowledge ==
    \E a \in acks :
      /\ link = "up" /\ acks' = acks \ {a}
      /\ \/ Asking /\ pub' = [pub EXCEPT !.early = @ \/ a = "current"] /\ sub' = sub
         \/ /\ ~Asking /\ pub' = pub
            /\ \/ sub' = IF sub = "waiting" /\ a = "current" THEN "ready" ELSE sub
               \/ ~calm /\ sub' = IF sub = "waiting" /\ a = "current" THEN "none"
                                                                      ELSE sub
      /\ UNCHANGED <<store, outbox, link, blocked, sending, echoes, routed, calm>>

(* note_broker_receipt: only the row in flight counts                       *)
OwnEcho(r) == pub.pending /\ pub.row = r
Echo ==
    \E r \in echoes :
      /\ link = "up"
      /\ echoes' = echoes \ {r}
      /\ pub' = IF OwnEcho(r) THEN [pub EXCEPT !.seen = TRUE] ELSE pub
      /\ UNCHANGED <<store, outbox, transport, sending, routed, calm>>

-----------------------------------------------------------------------------
(* The outbox thread                                                        *)

(* No SUBACK in time: whatever answer still comes is stale.                 *)
OnlyReconnect == ~Live /\ UNCHANGED vars
SubscriptionTimeout ==
    /\ pub.pc = "wait" /\ sub = "waiting" /\ Live
    /\ calm => "current" \notin acks
    /\ sub' = "none" /\ acks' = {"stale" : a \in acks}
    /\ UNCHANGED <<store, outbox, link, blocked, pub, sending, echoes, routed, calm>>

Subscribe ==
    /\ pub.pc = "wait" /\ sub = "none" /\ Live /\ ~blocked
    /\ pub' = [pub EXCEPT !.pc = "ask", !.fresh = TRUE, !.early = FALSE]
    /\ acks' \in IF link = "up" THEN {acks \union {"current"}} \union
                                     (IF calm THEN {} ELSE {acks}) ELSE {acks}
    /\ UNCHANGED <<store, outbox, link, sub, blocked, sending, echoes, routed, calm>>

(* subscribe() has returned, perhaps into another generation.               *)
Subscribed ==
    /\ pub.pc = "ask"
    /\ pub' = [pub EXCEPT !.pc = "wait", !.early = FALSE]
    /\ IF pub.fresh /\ Live
       THEN \/ link = "up" /\ sub' = IF pub.early THEN "ready" ELSE "waiting"
            \/ (link = "lost" \/ ~calm) /\ sub' = "none"
       ELSE sub' = sub
    /\ UNCHANGED <<store, outbox, link, acks, blocked, sending, echoes, routed, calm>>

(* The oldest row that is not sent, with this generation ready.             *)
Unsent == {i \in DOMAIN outbox : ~outbox[i].sent}
AnyUnsent(i) == i \in Unsent
Oldest(i) == i \in Unsent /\ \A j \in Unsent : i <= j

Load ==
    /\ pub.pc = "wait" /\ Live /\ ~blocked /\ sub = "ready"
    /\ \E i \in Unsent :
         Oldest(i) /\ pub' = [pub EXCEPT !.pc = "publish", !.row = i, !.fresh = TRUE]
    /\ UNCHANGED <<store, outbox, transport, sending, echoes, routed, calm>>

Back == [pub EXCEPT !.pc = "wait", !.pending = FALSE, !.seen = FALSE]

(* A change of generation stops it; a lost socket blocks the generation; a  *)
(* full client queue makes it try again later.                              *)
Publish ==
    /\ pub.pc = "publish"
    /\ \/ /\ ~(pub.fresh /\ Live /\ sub = "ready")
          /\ pub' = Back /\ UNCHANGED <<sub, blocked, sending>>
       \/ /\ pub.fresh /\ sub = "ready" /\ link = "lost"
          /\ pub' = Back /\ blocked' = TRUE /\ sub' = "none" /\ UNCHANGED sending
       \/ /\ pub.fresh /\ sub = "ready" /\ link = "up"
          /\ pub' = [pub EXCEPT !.pc = "await", !.pending = TRUE, !.seen = FALSE]
          /\ sending' = sending \union {pub.row}
          /\ UNCHANGED <<sub, blocked>>
       \/ ~calm /\ pub' = Back /\ UNCHANGED <<sub, blocked, sending>>
    /\ UNCHANGED <<store, outbox, link, acks, echoes, routed, calm>>

Delivered == pub.pending /\ pub.seen /\ Live /\ sub = "ready" /\ pub.fresh

Await ==
    /\ pub.pc = "await"
    /\ \/ Delivered /\ pub' = [Back EXCEPT !.pc = "mark"]
       \/ /\ ~Delivered
          /\ ~pub.pending \/ ~calm \/ pub.row \notin sending \union echoes
          /\ pub' = Back
    /\ UNCHANGED <<store, outbox, transport, sending, echoes, routed, calm>>

(* _mark_home_assistant_access_event_published                              *)
Mark ==
    /\ pub.pc = "mark"
    /\ pub' = Back
    /\ \/ outbox' = [outbox EXCEPT ![pub.row].sent = TRUE]
       \/ ~calm /\ UNCHANGED outbox
    /\ UNCHANGED <<store, transport, sending, echoes, routed, calm>>

-----------------------------------------------------------------------------
(* The broker, and what may go wrong                                        *)

(* A queued message is delivered in this connection or a later one.         *)
Route ==
    \E r \in sending :
      /\ link = "up"
      /\ sending' = sending \ {r}
      /\ routed' = routed \union {r}
      /\ echoes' \in {echoes \union {r}} \union (IF calm THEN {} ELSE {echoes})
      /\ UNCHANGED <<store, outbox, transport, pub, calm>>

LoseMessage ==
    /\ ~calm
    /\ \/ sending # {} /\ sending' = {} /\ UNCHANGED receipts
       \/ receipts # {} /\ receipts' = {} /\ UNCHANGED sending
    /\ UNCHANGED <<journal, queue, history, conflicts, outbox, transport, pub,
                   echoes, routed, calm>>

(* The backend is started again: threads and client queue are new.          *)
Restart ==
    /\ ~calm
    /\ queue' = <<>> /\ link' = "down" /\ sub' = "none" /\ acks' = {}
    /\ blocked' = FALSE /\ pub' = Waiting /\ sending' = {} /\ echoes' = {}
    /\ UNCHANGED <<journal, history, conflicts, outbox, receipts, routed, calm>>

Calm == ~calm /\ calm' = TRUE
        /\ UNCHANGED <<store, outbox, transport, pub, sending, echoes, routed>>

-----------------------------------------------------------------------------
OutboxThread == \/ SubscriptionTimeout \/ Subscribe \/ Subscribed \/ Load
                \/ Publish \/ Await \/ Mark
Callbacks == Connect \/ Disconnect \/ Acknowledge \/ Echo \/ Route

Next == \/ Deliver \/ Inject \/ Persist \/ Forget
        \/ Connect \/ LoseLink \/ Disconnect \/ Acknowledge \/ Echo
        \/ SubscriptionTimeout \/ Subscribe \/ Subscribed
        \/ Load \/ Publish \/ Await \/ Mark
        \/ Route \/ LoseMessage \/ Restart \/ Calm

Fairness == WF_vars(Persist) /\ WF_vars(OutboxThread) /\ WF_vars(Callbacks)
            /\ WF_vars(Deliver) /\ WF_vars(Forget) /\ WF_vars(Calm)

Spec == Init /\ [][Next]_vars /\ Fairness

-----------------------------------------------------------------------------
(* The Target forgets nothing the backend could lose: what has left its     *)
(* journal is in the history with its outbox row, or kept as a conflict     *)
(* (receipt after commit, also when a commit is reported as failed).        *)
Forgotten == {e \in ToSet(Journal) : e \notin ToSet(journal)}
NothingForgottenEarly ==
    \A e \in Forgotten \union receipts :
        \/ e \in conflicts
        \/ e \in history /\ (e \in Projected => Queued(e))

(* A record whose identity collides is never counted or announced, and the  *)
(* genuine record it collides with stays (preserve_conflict): nobody without *)
(* the key can take a place in the history and push a real event aside.      *)
ConflictKeptApart ==
    \A e \in conflicts : /\ e \notin history /\ ~Queued(e)
                         /\ \E h \in history : Slot[h] = Slot[e] /\ h \in ToSet(Journal)

(* The history is whole, and nothing but the Target's own events.           *)
HistoryIsGenuine == NothingForgottenEarly /\ ConflictKeptApart

(* A row is marked as published only after the broker has handed that very  *)
(* row to its subscribers: a late answer to an earlier row, or one of an    *)
(* earlier connection, does not count (note_broker_receipt, _publish).      *)
SentWasRouted == \A i \in DOMAIN outbox : outbox[i].sent => i \in routed

(* Home Assistant never hears of an event before an older one has been      *)
(* confirmed, over reconnects, retries and restarts.                        *)
AnnouncedInOrder ==
    \A i \in routed \union sending, j \in DOMAIN outbox : j < i => outbox[j].sent

(* What Home Assistant hears is what is marked, and in the order of events.  *)
AnnouncedInTurn == SentWasRouted /\ AnnouncedInOrder

(* Once faults stop, a queued row is announced: neither an unanswered       *)
(* subscription, nor a lost echo, nor a blocked generation wedges the       *)
(* outbox (_wait_for_ready_transport), and the journal drains.              *)
EverythingAnnounced ==
    <>[](journal = <<>> /\ \A i \in DOMAIN outbox : outbox[i].sent)
=============================================================================
