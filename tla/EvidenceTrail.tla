---------------------------- MODULE EvidenceTrail ----------------------------
(***************************************************************************)
(* The way of a signed access event from the task that raised it to the    *)
(* Backend's receipt: DeferredCanonicalEventSink (a queue the NimBLE task  *)
(* and loopTask append to and loopTask drains), the event outbox of        *)
(* MqttManager, its copy in RTC memory and the OfflineQueue in flash.      *)
(*                                                                         *)
(* Flash writes may fail, the link may lose a publication or a receipt or  *)
(* repeat it later, and a software reset (which keeps RTC memory) or a     *)
(* power loss (which does not) may come between any two writes.            *)
(*                                                                         *)
(* An event is its signed record.  The RTC journal is the image            *)
(* restoreNewest would take: saveJournal replaces the inactive one and     *)
(* commits it with its last store, so a reset finds the former image or    *)
(* the new one.  Its records were validated when they entered the outbox,  *)
(* so saving it does not fail.                                             *)
(***************************************************************************)
EXTENDS OfflineQueue

CONSTANTS
    Kind,           \* "plain", "terminal" or "direct"
    DeferredSize,   \* DeferredAccessQueue::kCapacity
    OutboxSize,     \* the size of eventOutbox, its last place for terminals
    MaxResets,      \* bound: the number of resets explored
    NoEvent         \* no event in hand

\* "direct" events are the terminals of signed commands, which MqttManager
\* raises itself; the sink may refuse a "plain" one for good, as malformed.
Kinds == {"plain", "terminal", "direct"}

ASSUME EvidenceAssumption ==
    /\ Kind \in [Events -> Kinds]
    /\ DeferredSize \in Nat \ {0}
    /\ OutboxSize \in Nat \ {0, 1}
    /\ MaxResets \in Nat
    /\ NoEvent \notin Events

VARIABLES
    deferred,  \* queue_ of the deferred sink
    sealed,    \* sealed_, set for a restart
    gap,       \* evidence_gap_: an event was refused or quarantined this boot
    outbox,    \* eventOutbox
    rtc,       \* the newest valid image of rtcEventFallback
    retained,  \* retained_front_count_: how many of its records are unsettled
    job,       \* what loopTask needs a push to the flash queue for
    arg,       \* the event it is accepting, if any
    saved,     \* the record of that push is written, its metadata is not
    restart,   \* how far persistPendingEventsForRestart has come
    clean,     \* deferredComplete: whether the drain left nothing behind
    resets,    \* number of resets so far
    raised,    \* history: events raised
    accepted,  \* history: events the outbox or the flash took, in order
    sent,      \* history: events published, and so known to the Backend
    received,  \* history: events whose receipt the Target has verified
    degraded,  \* history: terminals accepted although the flash refused them
    dropped,   \* history: events let go before acceptance, by the seal, by a
               \* refusal nobody retries or by a reset
    lost       \* history: accepted events a reset did not leave anywhere

sink == <<deferred, sealed, gap>>
outboxes == <<outbox, rtc, retained>>
task == <<job, arg, saved>>
restarting == <<restart, clean>>
vars == <<queue, sink, outboxes, task, restarting, resets,
          raised, accepted, sent, received, degraded, dropped, lost>>

Terminal == {e \in Events : Kind[e] \in {"terminal", "direct"}}
Elements(s) == {s[i] : i \in DOMAIN s}

Jobs == {"idle",
         "checkpoint",  \* checkpointTerminalEvent of arg
         "spill",       \* enqueueEventWithDurableSpill of arg, the outbox full
         "park",        \* a publication of the outbox's front failed
         "persist"}     \* persistPendingEventsForRestart

EInit ==
    /\ QInit
    /\ deferred = <<>> /\ sealed = FALSE /\ gap = FALSE
    /\ outbox = <<>> /\ rtc = <<>> /\ retained = 0
    /\ job = "idle" /\ arg = NoEvent /\ saved = FALSE
    /\ restart = "no" /\ clean = TRUE /\ resets = 0
    /\ raised = {} /\ accepted = <<>> /\ sent = {} /\ received = {}
    /\ degraded = {} /\ dropped = {} /\ lost = {}

Idle == job = "idle" /\ restart = "no"
Stop == job' = "idle" /\ arg' = NoEvent /\ saved' = FALSE
Note(e) == accepted' = IF e \in Elements(accepted) THEN accepted ELSE Append(accepted, e)

-----------------------------------------------------------------------------
(* Raising an event.                                                       *)

\* emit(): any task, at any moment of loopTask's work.
Emit(e) ==
    /\ e \notin raised /\ Kind[e] # "direct"
    /\ raised' = raised \cup {e}
    /\ \/ sealed /\ dropped' = dropped \cup {e} /\ UNCHANGED <<deferred, gap>>
       \/ /\ ~sealed /\ Len(deferred) = DeferredSize
          /\ gap' = TRUE /\ UNCHANGED <<deferred, dropped>>
       \/ /\ ~sealed /\ Len(deferred) < DeferredSize
          /\ deferred' = Append(deferred, e) /\ UNCHANGED <<gap, dropped>>
    /\ UNCHANGED <<queue, outboxes, task, restarting, resets, sealed,
                   accepted, sent, received, degraded, lost>>

\* enqueueSignedCommandTerminalEvent, on loopTask.
EmitDirect(e) ==
    /\ Idle /\ e \notin raised /\ Kind[e] = "direct"
    /\ raised' = raised \cup {e}
    /\ job' = "checkpoint" /\ arg' = e
    /\ UNCHANGED <<queue, sink, outboxes, saved, restarting, resets,
                   accepted, sent, received, degraded, dropped, lost>>

-----------------------------------------------------------------------------
(* The outbox.                                                             *)

\* Mutant: every record that leaves the outbox clears the RTC image.
PopOutbox_ClearsTooEarly ==
    outbox' = Tail(outbox) /\ retained' = 0 /\ rtc' = <<>>

\* popEventOutbox: the RTC image goes with the last record it stands for.
PopOutbox ==
    /\ outbox' = Tail(outbox)
    /\ retained' = IF retained = 0 THEN 0 ELSE retained - 1
    /\ rtc' = IF retained = 1 THEN <<>> ELSE rtc

\* saveEventOutboxToRtcFallback of what the outbox is after the step.
SaveToRtc == rtc' = outbox' /\ retained' = Len(outbox')

\* enqueueCanonicalEvent returned true: the deferred queue lets the event go.
Settle(e) ==
    /\ Note(e)
    /\ deferred' = IF Kind[e] = "direct" THEN deferred ELSE Tail(deferred)
    /\ Stop
    /\ UNCHANGED <<restarting, dropped>>

\* It returned false: the deferred queue keeps the event and ends its drain;
\* the terminal of a signed command has nobody to keep it.
Refuse(e) ==
    /\ dropped' = IF Kind[e] = "direct" THEN dropped \cup {e} ELSE dropped
    /\ restart' = IF restart = "drain" THEN "persist" ELSE restart
    /\ clean' = (clean /\ restart # "drain")
    /\ Stop
    /\ UNCHANGED <<deferred, accepted>>

\* drain() and tryEmit of its head; a push to the flash may have to come first.
Deliver ==
    /\ job = "idle" /\ restart \in {"no", "drain"} /\ deferred # <<>>
    /\ LET e == Head(deferred)
       IN  \/ /\ Kind[e] = "plain"
              /\ deferred' = Tail(deferred) /\ gap' = TRUE
              /\ UNCHANGED <<outbox, task, accepted, dropped>>
           \/ /\ Kind[e] = "plain" /\ Len(outbox) < OutboxSize - 1
              /\ outbox' = Append(outbox, e) /\ Note(e)
              /\ deferred' = Tail(deferred)
              /\ UNCHANGED <<gap, task, dropped>>
           \/ /\ Kind[e] = "plain" /\ Len(outbox) >= OutboxSize - 1
              /\ job' = "spill" /\ arg' = e
              /\ UNCHANGED <<deferred, gap, outbox, saved, accepted, dropped>>
           \/ /\ Kind[e] = "terminal"
              /\ job' = "checkpoint" /\ arg' = e
              /\ UNCHANGED <<deferred, gap, outbox, saved, accepted, dropped>>
    /\ UNCHANGED <<queue, sealed, rtc, retained, restarting, resets,
                   raised, sent, received, degraded, lost>>

-----------------------------------------------------------------------------
(* Pushing to the flash for the job in hand.                               *)

\* A checkpoint moves all older records first, then the terminal itself.
Pushed == IF outbox # <<>> THEN Head(outbox) ELSE arg
Pushing == job # "idle" /\ ~saved /\ Pushed # NoEvent

\* The push succeeded: what the job does next.
PushDone ==
    \/ /\ job = "checkpoint" /\ outbox = <<>>
       /\ Settle(arg) /\ UNCHANGED outboxes
    \/ /\ job \in {"checkpoint", "persist"} /\ outbox # <<>>
       /\ PopOutbox /\ saved' = FALSE
       /\ UNCHANGED <<deferred, job, arg, restarting, accepted, dropped>>
    \/ /\ job = "spill" /\ Len(outbox) - 1 < OutboxSize - 1
       /\ outbox' = Append(Tail(outbox), arg)
       /\ retained' = IF retained = 0 THEN 0 ELSE retained - 1
       /\ rtc' = IF retained = 1 THEN <<>> ELSE rtc
       /\ Settle(arg)
    \/ /\ job = "spill" /\ Len(outbox) - 1 >= OutboxSize - 1
       /\ PopOutbox /\ Refuse(arg)
    \/ /\ job = "park"
       /\ PopOutbox /\ Stop
       /\ UNCHANGED <<deferred, restarting, accepted, dropped>>

\* The push was refused or failed.
PushFailed ==
    \/ /\ job = "checkpoint" /\ Len(outbox) < OutboxSize
       /\ outbox' = Append(outbox, arg) /\ SaveToRtc
       /\ degraded' = degraded \cup {arg}
       /\ Settle(arg)
    \/ /\ job = "checkpoint" /\ Len(outbox) >= OutboxSize
       /\ Refuse(arg) /\ UNCHANGED <<outboxes, degraded>>
    \/ /\ job = "spill"
       /\ Refuse(arg) /\ UNCHANGED <<outboxes, degraded>>
    \/ /\ job = "park"
       /\ Stop
       /\ UNCHANGED <<deferred, outboxes, restarting, accepted, degraded, dropped>>
    \/ /\ job = "persist"
       /\ UNCHANGED outbox /\ SaveToRtc
       /\ restart' = "down" /\ clean' = FALSE /\ Stop
       /\ UNCHANGED <<deferred, accepted, degraded, dropped>>

PushRefused ==
    /\ Pushing /\ Full
    /\ PushFailed
    /\ UNCHANGED <<queue, sealed, gap, resets, raised, sent, received, lost>>

PushRecord(ok) ==
    /\ Pushing /\ ~Full
    /\ SaveRecord(Pushed, ok)
    /\ \/ /\ ok /\ saved' = TRUE
          /\ UNCHANGED <<deferred, outboxes, job, arg, restarting, accepted,
                         degraded, dropped>>
       \/ ~ok /\ PushFailed
    /\ UNCHANGED <<sealed, gap, resets, raised, sent, received, lost>>

PushMeta(ok) ==
    /\ job # "idle" /\ saved
    /\ CommitPush(Pushed, ok)
    /\ \/ ok /\ PushDone /\ UNCHANGED degraded
       \/ ~ok /\ PushFailed
    /\ UNCHANGED <<sealed, gap, resets, raised, sent, received, lost>>

-----------------------------------------------------------------------------
(* Publication and receipt.  The flash goes before the outbox, and only    *)
(* its head or, with the flash empty, the outbox's is published.           *)

\* Mutant: only what is in RAM is looked for.
Waiting_OutboxOnly == outbox # <<>>

Waiting == ring # <<>> \/ outbox # <<>>

Front == IF ring # <<>> THEN Head(ring) ELSE Head(outbox)

\* Published, again and again until the receipt comes.
Publish ==
    /\ Idle /\ Waiting
    /\ sent' = sent \cup {Front}
    /\ UNCHANGED <<queue, sink, outboxes, task, restarting, resets,
                   raised, accepted, received, degraded, dropped, lost>>

\* Not published: a record that is only in RAM is moved to the flash.
PublishFails ==
    /\ Idle /\ ring = <<>> /\ outbox # <<>>
    /\ job' = "park"
    /\ UNCHANGED <<queue, sink, outboxes, arg, saved, restarting, resets,
                   raised, accepted, sent, received, degraded, dropped, lost>>

\* consumeDiagnosticReceipt, of a receipt that may be late or repeated.  ok is
\* whether the flash takes the removal; if not, the record is published again.
Receipt(e, ok) ==
    /\ Idle /\ e \in sent /\ Waiting /\ e = Front
    /\ received' = received \cup {e}
    /\ \/ ring # <<>> /\ PopFront(ok) /\ UNCHANGED outboxes
       \/ ring = <<>> /\ ok /\ PopOutbox /\ UNCHANGED queue
    /\ UNCHANGED <<sink, task, restarting, resets,
                   raised, accepted, sent, degraded, dropped, lost>>

-----------------------------------------------------------------------------
(* A controlled restart: seal and drain the sink, move the outbox to the   *)
(* flash or failing that to RTC memory, restart.                           *)

RestartBegins ==
    /\ Idle /\ resets < MaxResets
    /\ sealed' = TRUE /\ restart' = "drain" /\ clean' = TRUE
    /\ UNCHANGED <<queue, deferred, gap, outboxes, task, resets,
                   raised, accepted, sent, received, degraded, dropped, lost>>

\* Mutant: a gap in the evidence is forgotten when the sink is empty.
RestartDrained_ForgetsGap ==
    /\ restart = "drain" /\ job = "idle" /\ deferred = <<>>
    /\ restart' = "persist" /\ UNCHANGED clean
    /\ UNCHANGED <<queue, sink, outboxes, task, resets,
                   raised, accepted, sent, received, degraded, dropped, lost>>

RestartDrained ==
    /\ restart = "drain" /\ job = "idle" /\ deferred = <<>>
    /\ restart' = "persist" /\ clean' = (clean /\ ~gap)
    /\ UNCHANGED <<queue, sink, outboxes, task, resets,
                   raised, accepted, sent, received, degraded, dropped, lost>>

RestartPersists ==
    /\ restart = "persist" /\ job = "idle"
    /\ job' = "persist"
    /\ UNCHANGED <<queue, sink, outboxes, arg, saved, restarting, resets,
                   raised, accepted, sent, received, degraded, dropped, lost>>

\* Nothing is left in the outbox: the RTC image is no longer needed.
RestartPersisted ==
    /\ job = "persist" /\ ~saved /\ outbox = <<>>
    /\ rtc' = <<>> /\ retained' = 0
    /\ restart' = "down" /\ Stop
    /\ UNCHANGED <<queue, sink, outbox, clean, resets,
                   raised, accepted, sent, received, degraded, dropped, lost>>

\* MqttManager::init restores the RTC image and begin() loads the flash,
\* whether it was the restart above, a crash or a power loss.
Reset(powerLost) ==
    /\ resets < MaxResets
    /\ resets' = resets + 1
    /\ Begin
    /\ rtc' = IF powerLost THEN <<>> ELSE rtc
    /\ outbox' = rtc' /\ retained' = Len(rtc')
    /\ deferred' = <<>> /\ sealed' = FALSE /\ gap' = FALSE
    /\ Stop /\ restart' = "no" /\ clean' = TRUE
    /\ LET found == Elements(Loaded) \cup Elements(rtc')
           inDoubt == found \ Elements(accepted)
       IN  /\ accepted' = IF inDoubt = {} THEN accepted
                          ELSE Append(accepted, CHOOSE e \in inDoubt : TRUE)
           /\ lost' = lost \cup ((Elements(accepted) \ received) \ found)
           /\ dropped' = dropped \cup (raised \ (Elements(accepted) \cup inDoubt))
    /\ UNCHANGED <<raised, sent, received, degraded>>

-----------------------------------------------------------------------------
Step ==
    \/ Deliver \/ PushRefused
    \/ \E ok \in BOOLEAN : PushRecord(ok) \/ PushMeta(ok)
    \/ RestartDrained \/ RestartPersists \/ RestartPersisted

Next ==
    \/ \E e \in Events : Emit(e) \/ EmitDirect(e)
    \/ Step
    \/ Publish \/ PublishFails
    \/ \E e \in Events, ok \in BOOLEAN : Receipt(e, ok)
    \/ RestartBegins
    \/ \E powerLost \in BOOLEAN : Reset(powerLost)

Spec == EInit /\ [][Next]_vars

\* loopTask goes on with what it has in hand and restarts when it is done; the
\* Backend is reached again and again, and the flash does not refuse for ever.
Fairness ==
    /\ WF_vars(Step)
    /\ WF_vars(restart = "down" /\ Reset(FALSE))
    /\ SF_vars(Publish)
    /\ \A e \in Events : SF_vars(Receipt(e, TRUE))

LiveSpec == Spec /\ Fairness

-----------------------------------------------------------------------------

TaskTypeOK ==
    /\ deferred \in Seq(Events) /\ Len(deferred) <= DeferredSize
    /\ sealed \in BOOLEAN /\ gap \in BOOLEAN
    /\ outbox \in Seq(Events) /\ Len(outbox) <= OutboxSize
    /\ rtc \in Seq(Events) /\ Len(rtc) <= OutboxSize
    /\ retained \in 0 .. OutboxSize
    /\ job \in Jobs /\ arg \in Events \cup {NoEvent} /\ saved \in BOOLEAN
    /\ restart \in {"no", "drain", "persist", "down"} /\ clean \in BOOLEAN

HistoryTypeOK ==
    /\ resets \in 0 .. MaxResets
    /\ accepted \in Seq(Events)
    /\ raised \subseteq Events /\ sent \subseteq Events /\ received \subseteq Events
    /\ degraded \subseteq Events /\ dropped \subseteq Events /\ lost \subseteq Events

\* The queues stay within their sizes and hold nothing but events.
ETypeOK == QTypeOK /\ TaskTypeOK /\ HistoryTypeOK

\* What makes the flash queue trustworthy: RAM and flash agree up to the one
\* operation in doubt (QInv), and between the two writes of a push nothing else
\* touches the queue, so that the metadata counts the record just written.
JobIntact ==
    /\ job \in {"checkpoint", "spill"} =>
           arg \in Events /\ (Kind[arg] = "direct" \/ deferred # <<>>)
    /\ job \in {"spill", "park"} => outbox # <<>>

PushIntact ==
    saved => /\ job # "idle" /\ Len(ring) < Capacity /\ Pushed \in Events
             /\ records[SlotAt(head, Len(ring))]
                    = [event |-> Pushed, gen |-> generation + 1]

QueueSound == QInv /\ JobIntact /\ PushIntact

\* An accepted terminal stays within reach of a software reset until its
\* receipt, at every point of every push, removal and restart: it is in what
\* begin() would load or in the RTC image, unless a power loss took it.
TerminalSurvives ==
    \A e \in Terminal \cap Elements(accepted) :
        e \in received \cup lost \cup Elements(Loaded) \cup Elements(rtc)

\* A power loss takes no terminal but those accepted in RTC memory only, for
\* which the failure of the flash was reported.
PowerLossOnlyDegraded == lost \cap Terminal \subseteq degraded

\* The Backend never sees an event before it has acknowledged all that were
\* accepted earlier and can still be had; resets may repeat events but never
\* turn their order round.
PublishedInOrder ==
    \A i, j \in DOMAIN accepted :
        i < j /\ accepted[j] \in sent => accepted[i] \in received \cup lost

\* Whatever fails, is repeated or loses power between the sink and the Backend:
\* no terminal is lost but a degraded one, and the order is kept
\* (persistAccessTerminal, checkpointOutbox, publishEvents).
EvidenceIsKept == TerminalSurvives /\ PowerLossOnlyDegraded /\ PublishedInOrder

\* A restart that reports its evidence durable leaves nothing anywhere but in
\* the flash: no event was refused by a full queue or quarantined in this boot,
\* and what the sink and the outbox held has been written.
CleanIsDurable ==
    restart = "down" /\ clean =>
        raised \ (received \cup dropped \cup lost) \subseteq Elements(Loaded)

\* What the program sees of the flash queue and what a reset would find in it
\* behave like the durable queue OfflineEventQueue promises.
Fifo == INSTANCE DurableFifo WITH fifo <- ring, durable <- Loaded
FifoSpec == Fifo!Spec

\* Every accepted terminal is acknowledged in the end, whatever was in front
\* of it and however full the queues were, unless a power loss took it.
TerminalDelivered ==
    \A e \in Terminal :
        e \in Elements(accepted) ~> e \in received \cup lost
=============================================================================
