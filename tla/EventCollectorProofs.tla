----------------------- MODULE EventCollectorProofs -----------------------
(***************************************************************************)
(* The history holds the Target's own events and loses none it has taken   *)
(* over, and Home Assistant hears of them in turn: for any journal, any    *)
(* events and a queue of any size.                                         *)
(*                                                                         *)
(* Two invariants that share the outbox.  StoreInv follows an event from   *)
(* the journal to the history; AnnounceInv follows a row of the outbox     *)
(* through the broker: a row is handed to the broker only when every row   *)
(* before it is marked, and marked only when the broker has routed it.     *)
(***************************************************************************)
EXTENDS EventCollector, TLAPS

Rows == [event : Events, sent : BOOLEAN]
Threads == [pc : {"wait", "ask", "publish", "await", "mark"}, row : Nat,
            fresh : BOOLEAN, early : BOOLEAN, pending : BOOLEAN, seen : BOOLEAN]

Types == /\ journal \in Seq(Events) /\ queue \in Seq(Events)
         /\ outbox \in Seq(Rows) /\ pub \in Threads

(* What is genuine is the Target's, what waits in the outbox is in the      *)
(* history.                                                                 *)
Genuine == /\ ToSet(journal) \subseteq ToSet(Journal)
           /\ ToSet(queue) \subseteq ToSet(Journal) \cup Malformed \cup Forged
           /\ history \subseteq ToSet(Journal)
           /\ \A i \in DOMAIN outbox : outbox[i].event \in history

StoreInv == Genuine /\ HistoryIsGenuine

(* Every row before this one is marked.                                     *)
InTurn(r) == r \in DOMAIN outbox /\ \A j \in DOMAIN outbox : j < r => outbox[j].sent

RowInHand ==
    /\ pub.pc \in {"publish", "await", "mark"} => InTurn(pub.row)
    /\ pub.pending => pub.pc = "await"
    /\ pub.seen => pub.pending
    /\ pub.seen \/ pub.pc = "mark" => pub.row \in routed

AnnounceInv ==
    /\ \A r \in routed \cup sending : InTurn(r)
    /\ echoes \subseteq routed
    /\ SentWasRouted /\ RowInHand

IInv == Types /\ StoreInv /\ AnnounceInv

-----------------------------------------------------------------------------
(* Sequences                                                                *)

LEMMA ToSetAppend ==
  ASSUME NEW S, NEW q \in Seq(S), NEW x \in S
  PROVE  Append(q, x) \in Seq(S) /\ ToSet(Append(q, x)) = ToSet(q) \cup {x}
<1>. DEFINE a == Append(q, x)
<1>1. /\ a \in Seq(S) /\ a[Len(q) + 1] = x /\ Len(q) + 1 \in DOMAIN a
      /\ \A i \in DOMAIN q : i \in DOMAIN a /\ a[i] = q[i]
      /\ \A i \in DOMAIN a : i \in DOMAIN q \/ i = Len(q) + 1
  OBVIOUS
<1>. HIDE DEF a
<1>2. \A y : y \in ToSet(a) <=> y \in ToSet(q) \cup {x}
  BY <1>1 DEF ToSet
<1>. QED  BY <1>1, <1>2 DEF a

LEMMA ToSetTail ==
  ASSUME NEW S, NEW q \in Seq(S), q # <<>>
  PROVE  /\ Head(q) \in ToSet(q) /\ Tail(q) \in Seq(S)
         /\ ToSet(q) = {Head(q)} \cup ToSet(Tail(q))
<1>. DEFINE t == Tail(q)
            h == Head(q)
<1>1. h = q[1] /\ 1 \in DOMAIN q /\ t \in Seq(S)
  OBVIOUS
<1>2. \A i \in DOMAIN t : t[i] = q[i + 1] /\ i + 1 \in DOMAIN q
  OBVIOUS
<1>3. \A i \in DOMAIN q : i = 1 \/ (i - 1 \in DOMAIN t /\ q[i] = t[i - 1])
  OBVIOUS
<1>. HIDE DEF t, h
<1>4. \A y : y \in ToSet(q) <=> y \in {h} \cup ToSet(t)
  BY <1>1, <1>2, <1>3 DEF ToSet
<1>5. h \in ToSet(q)
  BY <1>1 DEF ToSet
<1>. QED  BY <1>1, <1>4, <1>5 DEF t, h

LEMMA ToSetEmpty ==
  ASSUME NEW S
  PROVE  <<>> \in Seq(S) /\ ToSet(<<>>) = {}
BY DEF ToSet

-----------------------------------------------------------------------------
LEMMA InitInv ==
  ASSUME CollectorAssumption, Init  PROVE IInv
<1>1. Types
  BY DEF Init, Types, CollectorAssumption, Waiting, Threads
<1>2. Genuine
  BY ToSetEmpty DEF Init, Genuine
<1>3. HistoryIsGenuine
  BY DEF Init, HistoryIsGenuine, NothingForgottenEarly, ConflictKeptApart, Forgotten
<1>4. AnnounceInv
  BY DEF Init, AnnounceInv, SentWasRouted, RowInHand, Waiting
<1>. QED  BY <1>1, <1>2, <1>3, <1>4 DEF IInv, StoreInv

(* Steps that leave the store alone, but for a queue or a receipt lost.     *)
LEMMA StoreKept ==
  ASSUME Types, StoreInv, UNCHANGED <<journal, history, conflicts>>,
         queue' = queue \/ queue' = <<>>, receipts' \subseteq receipts,
         DOMAIN outbox' = DOMAIN outbox,
         \A i \in DOMAIN outbox : outbox'[i].event = outbox[i].event
  PROVE  StoreInv'
<1>1. ToSet(queue') \subseteq ToSet(queue)
  BY ToSetEmpty
<1>2. \A e : Queued(e)' <=> Queued(e)
  BY DEF Queued
<1>3. Forgotten' = Forgotten
  BY DEF Forgotten
<1>4. Genuine'
  BY <1>1 DEF StoreInv, Genuine
<1>5. NothingForgottenEarly'
  BY <1>2, <1>3 DEF StoreInv, HistoryIsGenuine, NothingForgottenEarly
<1>6. ConflictKeptApart'
  BY <1>2 DEF StoreInv, HistoryIsGenuine, ConflictKeptApart
<1>. QED  BY <1>4, <1>5, <1>6 DEF StoreInv, HistoryIsGenuine

(* Steps that leave the outbox and its thread alone.                        *)
LEMMA AnnounceKept ==
  ASSUME AnnounceInv, UNCHANGED <<outbox, pub, sending, echoes, routed>>
  PROVE  AnnounceInv'
BY DEF AnnounceInv, InTurn, SentWasRouted, RowInHand

(* A new row is the last one, and not marked.                               *)
LEMMA AnnounceGrown ==
  ASSUME Types, AnnounceInv, NEW e \in Events,
         outbox' = Append(outbox, [event |-> e, sent |-> FALSE]),
         UNCHANGED <<pub, sending, echoes, routed>>
  PROVE  AnnounceInv'
<1>1. /\ DOMAIN outbox \subseteq DOMAIN outbox'
      /\ \A i \in DOMAIN outbox : outbox'[i] = outbox[i]
      /\ \A j \in DOMAIN outbox' : j \in DOMAIN outbox \/ j = Len(outbox) + 1
      /\ outbox'[Len(outbox) + 1].sent = FALSE
  BY DEF Types, Rows
<1>2. \A r : InTurn(r) => InTurn(r)'
  <2>. SUFFICES ASSUME NEW r, InTurn(r), NEW j \in DOMAIN outbox', j < r
                PROVE  outbox'[j].sent
    BY <1>1 DEF InTurn
  <2>1. r \in 1..Len(outbox)
    BY DEF InTurn, Types
  <2>2. j \in DOMAIN outbox
    BY <1>1, <2>1 DEF Types
  <2>. QED  BY <1>1, <2>2 DEF InTurn
<1>. QED  BY <1>1, <1>2 DEF AnnounceInv, SentWasRouted, RowInHand

-----------------------------------------------------------------------------
(* From the journal to the history                                          *)

LEMMA ArrivalInv ==
  ASSUME CollectorAssumption, IInv, Deliver \/ Inject  PROVE IInv'
<1>1. PICK e \in Events : /\ e \in ToSet(Journal) \cup Malformed \cup Forged
                          /\ queue' = Append(queue, e)
  <2>1. CASE Deliver
    <3>1. journal # <<>> /\ queue' = Append(queue, Head(journal))
      BY <2>1 DEF Deliver
    <3>2. Head(journal) \in ToSet(journal) /\ Head(journal) \in Events
      BY <3>1, ToSetTail DEF IInv, Types
    <3>. QED  BY <3>1, <3>2 DEF IInv, StoreInv, Genuine
  <2>2. CASE Inject
    BY <2>2 DEF Inject, CollectorAssumption
  <2>. QED  BY <2>1, <2>2
<1>2. UNCHANGED <<journal, history, conflicts, receipts, outbox, pub, sending, echoes, routed>>
  BY DEF Deliver, Inject
<1>3. queue' \in Seq(Events) /\ ToSet(queue') = ToSet(queue) \cup {e}
  BY <1>1, ToSetAppend DEF IInv, Types
<1>4. Genuine'
  BY <1>1, <1>2, <1>3 DEF IInv, StoreInv, Genuine
<1>5. HistoryIsGenuine'
  BY <1>2 DEF IInv, StoreInv, HistoryIsGenuine, NothingForgottenEarly, ConflictKeptApart,
     Forgotten, Queued
<1>. QED  BY <1>2, <1>3, <1>4, <1>5, AnnounceKept DEF IInv, Types, StoreInv

(* What a commit leaves: e is in the history with its row, or a conflict.   *)
LEMMA CommittedOf ==
  ASSUME CollectorAssumption, Types, StoreInv, NEW e \in ToSet(Journal), e \in Events, Committed(e)
  PROVE  /\ \/ outbox' = outbox
            \/ outbox' = Append(outbox, [event |-> e, sent |-> FALSE])
         /\ history \subseteq history' /\ history' \subseteq history \cup {e}
         /\ conflicts \subseteq conflicts' /\ conflicts' \subseteq conflicts \cup {e}
         /\ \A x : Queued(x)' <=> Queued(x) \/ (x = e /\ outbox' # outbox)
         /\ \A i \in DOMAIN outbox' : outbox'[i].event \in history'
         /\ ConflictKeptApart'
         /\ e \in conflicts' \/ (e \in history' /\ (e \in Projected => Queued(e)'))
<1>. DEFINE row == [event |-> e, sent |-> FALSE]
<1>1. outbox \in Seq(Rows) /\ row \in Rows /\ row.event = e
  BY DEF Types, Rows
<1>2. ASSUME outbox' = Append(outbox, row)
      PROVE  /\ \A i \in DOMAIN outbox' : outbox'[i] = row \/ (i \in DOMAIN outbox /\ outbox'[i] = outbox[i])
             /\ \A i \in DOMAIN outbox : i \in DOMAIN outbox' /\ outbox'[i] = outbox[i]
             /\ Len(outbox) + 1 \in DOMAIN outbox' /\ outbox'[Len(outbox) + 1] = row
             /\ outbox' # outbox
  BY <1>1, <1>2
<1>3. outbox' = Append(outbox, row) => \A x : Queued(x)' <=> Queued(x) \/ x = e
  BY <1>1, <1>2 DEF Queued
<1>4. outbox' = outbox => \A x : Queued(x)' <=> Queued(x)
  BY DEF Queued
<1>5. \A x : Queued(x) => x \in history
  BY DEF StoreInv, Genuine, Queued
<1>6. ASSUME Inserted(e), e \notin conflicts
      PROVE  /\ history' = history \cup {e} /\ conflicts' = conflicts
             /\ outbox' = outbox \/ outbox' = Append(outbox, row)
             /\ e \in Projected => outbox' = Append(outbox, row)
             /\ ConflictKeptApart'
  <2>1. /\ history' = history \cup {e} /\ conflicts' = conflicts
        /\ outbox' = outbox \/ outbox' = Append(outbox, row)
        /\ e \in Projected => outbox' = Append(outbox, row)
    BY <1>6 DEF Inserted
  <2>2. ConflictKeptApart'
    BY <1>3, <1>4, <1>6, <2>1 DEF StoreInv, HistoryIsGenuine, ConflictKeptApart
  <2>. QED  BY <2>1, <2>2
<1>7. CASE ~Clashes(e) /\ Inserted(e)
  <2>1. e \notin conflicts
    BY <1>7 DEF Clashes, StoreInv, HistoryIsGenuine, ConflictKeptApart
  <2>. QED  BY <1>2, <1>3, <1>4, <1>6, <1>7, <2>1 DEF StoreInv, Genuine
<1>8. CASE e \in history /\ Repeated(e)
  <2>1. e \notin conflicts
    BY <1>8 DEF StoreInv, HistoryIsGenuine, ConflictKeptApart
  <2>2. CASE Inserted(e)
    BY <1>2, <1>3, <1>4, <1>6, <2>1, <2>2 DEF StoreInv, Genuine
  <2>3. CASE UNCHANGED <<history, conflicts, outbox>> /\ ~(e \in Projected /\ ~Queued(e))
    BY <1>4, <1>8, <2>3 DEF StoreInv, HistoryIsGenuine, ConflictKeptApart, Genuine
  <2>. QED  BY <1>8, <2>2, <2>3 DEF Repeated
<1>9. CASE Clashes(e) /\ e \notin history /\ Preserved(e)
  <2>1. conflicts' = conflicts \cup {e} /\ UNCHANGED <<history, outbox>>
    BY <1>9 DEF Preserved
  <2>2. ~Queued(e) /\ \E h \in history : Slot[h] = Slot[e] /\ h \in ToSet(Journal)
    BY <1>5, <1>9 DEF Clashes, StoreInv, Genuine
  <2>3. ConflictKeptApart'
    BY <1>4, <1>9, <2>1, <2>2 DEF StoreInv, HistoryIsGenuine, ConflictKeptApart
  <2>. QED  BY <1>4, <2>1, <2>3 DEF StoreInv, Genuine
<1>. QED  BY <1>7, <1>8, <1>9 DEF Committed

LEMMA PersistInv ==
  ASSUME CollectorAssumption, IInv, Persist  PROVE IInv'
<1>. PICK e : e = Head(queue)
  OBVIOUS
<1>1. /\ queue # <<>> /\ queue' = Tail(queue)
      /\ UNCHANGED <<journal, pub, sending, echoes, routed>>
  BY DEF Persist
<1>2. e \in ToSet(queue) /\ queue' \in Seq(Events) /\ ToSet(queue') \subseteq ToSet(queue) /\ e \in Events
  BY <1>1, ToSetTail DEF IInv, Types
<1>3. Forgotten' = Forgotten
  BY <1>1 DEF Forgotten
<1>4. CASE UNCHANGED <<history, conflicts, outbox, receipts>>
  <2>1. Genuine'
    BY <1>1, <1>2, <1>4 DEF IInv, StoreInv, Genuine
  <2>2. HistoryIsGenuine'
    BY <1>3, <1>4 DEF IInv, StoreInv, HistoryIsGenuine, NothingForgottenEarly, ConflictKeptApart,
       Queued
  <2>. QED  BY <1>1, <1>2, <1>4, <2>1, <2>2, AnnounceKept DEF IInv, Types, StoreInv
<1>5. CASE Authentic(e) /\ Committed(e) /\ receipts' \subseteq receipts \cup {e}
  <2>1. e \in ToSet(Journal)
    BY <1>2, <1>5 DEF Authentic, Parsed, IInv, StoreInv, Genuine
  <2>2. /\ \/ outbox' = outbox
           \/ outbox' = Append(outbox, [event |-> e, sent |-> FALSE])
        /\ history \subseteq history' /\ history' \subseteq history \cup {e}
        /\ conflicts \subseteq conflicts'
        /\ \A x : Queued(x)' <=> Queued(x) \/ (x = e /\ outbox' # outbox)
        /\ \A i \in DOMAIN outbox' : outbox'[i].event \in history'
        /\ ConflictKeptApart'
        /\ e \in conflicts' \/ (e \in history' /\ (e \in Projected => Queued(e)'))
    BY <1>2, <1>5, <2>1, CommittedOf DEF IInv
  <2>3. NothingForgottenEarly'
    BY <1>3, <1>5, <2>2 DEF IInv, StoreInv, HistoryIsGenuine, NothingForgottenEarly
  <2>4. Genuine'
    BY <1>1, <1>2, <2>1, <2>2 DEF IInv, StoreInv, Genuine
  <2>5. outbox' \in Seq(Rows)
    <3>1. [event |-> e, sent |-> FALSE] \in Rows
      BY <1>2 DEF Rows
    <3>2. Append(outbox, [event |-> e, sent |-> FALSE]) \in Seq(Rows)
      BY <3>1, ToSetAppend DEF IInv, Types
    <3>. QED  BY <2>2, <3>2 DEF IInv, Types
  <2>6. AnnounceInv'
    BY <1>1, <1>2, <2>2, AnnounceKept, AnnounceGrown DEF IInv
  <2>. QED  BY <1>1, <1>2, <2>2, <2>3, <2>4, <2>5, <2>6 DEF IInv, Types, StoreInv, HistoryIsGenuine
<1>. QED  BY <1>4, <1>5 DEF Persist, Stored, Receipt

LEMMA ForgetInv ==
  ASSUME CollectorAssumption, IInv, Forget  PROVE IInv'
<1>1. /\ journal # <<>> /\ Head(journal) \in receipts /\ journal' = Tail(journal)
      /\ receipts' = receipts \ {Head(journal)}
      /\ UNCHANGED <<queue, history, conflicts, outbox, pub, sending, echoes, routed>>
  BY DEF Forget
<1>2. journal' \in Seq(Events) /\ ToSet(journal) = {Head(journal)} \cup ToSet(journal')
  BY <1>1, ToSetTail DEF IInv, Types
<1>3. Forgotten' \subseteq Forgotten \cup {Head(journal)}
  BY <1>2 DEF Forgotten
<1>4. HistoryIsGenuine'
  BY <1>1, <1>3 DEF IInv, StoreInv, HistoryIsGenuine, NothingForgottenEarly, ConflictKeptApart,
     Queued
<1>5. Genuine'
  BY <1>1, <1>2 DEF IInv, StoreInv, Genuine
<1>. QED  BY <1>1, <1>2, <1>4, <1>5, AnnounceKept DEF IInv, Types, StoreInv

-----------------------------------------------------------------------------
(* From the outbox to Home Assistant                                        *)

(* The thread keeps its row, or drops it.                                   *)
LetsGo == /\ pub' \in Threads /\ pub'.row \in {pub.row, 0}
          /\ pub'.pc = "wait" \/ (pub'.pc = pub.pc /\ pub'.row = pub.row)
          /\ pub'.pending => pub.pending /\ pub'.pc = pub.pc
          /\ pub'.seen => pub.seen /\ pub'.pending /\ pub'.row = pub.row

(* Steps of the connection, after which the thread has nothing new in hand. *)
LEMMA ConnectionInv ==
  ASSUME CollectorAssumption, IInv,
         \/ Connect \/ LoseLink \/ Disconnect \/ Acknowledge
         \/ SubscriptionTimeout \/ Calm \/ LoseMessage \/ Restart
  PROVE  IInv'
<1>1. /\ UNCHANGED <<journal, history, conflicts, outbox, routed>>
      /\ queue' = queue \/ queue' = <<>>
      /\ receipts' \subseteq receipts
  BY DEF Connect, LoseLink, Disconnect, Acknowledge, SubscriptionTimeout, Calm, LoseMessage,
     Restart, store, transport
<1>2. sending' \subseteq sending /\ echoes' \subseteq echoes
  BY DEF Connect, LoseLink, Disconnect, Acknowledge, SubscriptionTimeout, Calm, LoseMessage,
     Restart, store, transport
<1>3. \/ pub' = pub \/ pub' = Waiting \/ NewGeneration
      \/ \E b \in BOOLEAN : pub' = [pub EXCEPT !.early = b]
  <2>1. CASE Acknowledge
    <3>1. PICK a \in acks : \/ pub' = [pub EXCEPT !.early = @ \/ a = "current"]
                            \/ pub' = pub
      BY <2>1 DEF Acknowledge
    <3>2. (pub.early \/ a = "current") \in BOOLEAN
      BY DEF IInv, Types, Threads
    <3>. QED  BY <3>1, <3>2
  <2>. QED  BY <2>1 DEF Connect, LoseLink, Disconnect, SubscriptionTimeout, Calm, LoseMessage,
              Restart
<1>4. LetsGo
  <2>1. pub \in Threads /\ (pub.seen => pub.pending)
    BY DEF IInv, Types, AnnounceInv, RowInHand
  <2>2. CASE pub' = pub
    BY <2>1, <2>2 DEF LetsGo, Threads
  <2>3. CASE pub' = Waiting
    BY <2>3 DEF LetsGo, Threads, Waiting
  <2>4. CASE NewGeneration
    BY <2>1, <2>4 DEF LetsGo, Threads, NewGeneration
  <2>5. ASSUME NEW b \in BOOLEAN, pub' = [pub EXCEPT !.early = b]
        PROVE  LetsGo
    BY <2>1, <2>5 DEF LetsGo, Threads
  <2>. QED  BY <1>3, <2>2, <2>3, <2>4, <2>5
<1>5. AnnounceInv'
  BY <1>1, <1>2, <1>4 DEF LetsGo, IInv, AnnounceInv, InTurn, SentWasRouted, RowInHand
<1>6. Types'
  BY <1>1, <1>4, ToSetEmpty DEF LetsGo, IInv, Types
<1>7. StoreInv'
  BY <1>1, StoreKept DEF IInv
<1>. QED  BY <1>5, <1>6, <1>7 DEF IInv

(* A row comes back from the broker.                                        *)
LEMMA EchoInv ==
  ASSUME CollectorAssumption, IInv, Echo  PROVE IInv'
<1>1. PICK r \in echoes :
        /\ echoes' = echoes \ {r}
        /\ pub' = IF OwnEcho(r) THEN [pub EXCEPT !.seen = TRUE] ELSE pub
  BY DEF Echo
<1>2. UNCHANGED <<journal, queue, history, conflicts, receipts, outbox, sending, routed>>
  BY DEF Echo, store
<1>3. r \in routed
  BY DEF IInv, AnnounceInv
<1>4. /\ pub' \in Threads /\ pub'.pc = pub.pc /\ pub'.row = pub.row /\ pub'.pending = pub.pending
      /\ pub'.seen => pub.seen \/ (pub.pending /\ pub.row = r)
  BY <1>1 DEF IInv, Types, Threads, OwnEcho
<1>5. AnnounceInv'
  BY <1>1, <1>2, <1>3, <1>4 DEF IInv, AnnounceInv, InTurn, SentWasRouted, RowInHand
<1>. QED  BY <1>2, <1>4, <1>5, StoreKept DEF IInv, Types

(* The steps of the outbox thread, but for Publish and Mark.                *)
LEMMA ThreadInv ==
  ASSUME CollectorAssumption, IInv, Subscribe \/ Subscribed \/ Load \/ Await  PROVE IInv'
<1>1. UNCHANGED <<journal, queue, history, conflicts, receipts, outbox, sending, echoes, routed>>
  BY DEF Subscribe, Subscribed, Load, Await, store
<1>2. CASE Subscribe \/ Subscribed
  <2>1. /\ pub' \in Threads /\ pub'.pc \in {"ask", "wait"} /\ pub.pc \in {"ask", "wait"}
        /\ pub'.pending = pub.pending /\ pub'.seen = pub.seen
    BY <1>2 DEF Subscribe, Subscribed, IInv, Types, Threads
  <2>2. ~pub.pending /\ ~pub.seen
    BY <2>1 DEF IInv, AnnounceInv, RowInHand
  <2>3. AnnounceInv'
    BY <1>1, <2>1, <2>2 DEF IInv, AnnounceInv, InTurn, SentWasRouted, RowInHand
  <2>. QED  BY <1>1, <2>1, <2>3, StoreKept DEF IInv, Types
<1>3. CASE Load
  <2>1. PICK i \in Unsent :
          pub.pc = "wait" /\ Oldest(i) /\ pub' = [pub EXCEPT !.pc = "publish", !.row = i, !.fresh = TRUE]
    BY <1>3 DEF Load
  <2>2. i \in DOMAIN outbox /\ i \in Nat
    BY DEF Unsent, IInv, Types
  <2>3. InTurn(i)
    BY <2>1, <2>2 DEF Oldest, Unsent, InTurn, IInv, Types
  <2>4. /\ pub' \in Threads /\ pub'.pc = "publish" /\ pub'.row = i
        /\ pub'.pending = pub.pending /\ pub'.seen = pub.seen
    BY <2>1, <2>2 DEF IInv, Types, Threads
  <2>5. ~pub.pending /\ ~pub.seen
    BY <2>1 DEF IInv, AnnounceInv, RowInHand
  <2>6. InTurn(i)'
    BY <1>1, <2>3 DEF InTurn
  <2>7. AnnounceInv'
    BY <1>1, <2>4, <2>5, <2>6 DEF IInv, AnnounceInv, InTurn, SentWasRouted, RowInHand
  <2>. QED  BY <1>1, <2>4, <2>7, StoreKept DEF IInv, Types
<1>4. CASE Await
  <2>1. /\ pub' \in Threads /\ pub'.row = pub.row /\ ~pub'.pending /\ ~pub'.seen
        /\ pub.pc = "await"
        /\ pub'.pc = "wait" \/ (pub'.pc = "mark" /\ pub.seen)
    BY <1>4 DEF Await, Back, Delivered, IInv, Types, Threads
  <2>2. AnnounceInv'
    BY <1>1, <2>1 DEF IInv, AnnounceInv, InTurn, SentWasRouted, RowInHand
  <2>. QED  BY <1>1, <2>1, <2>2, StoreKept DEF IInv, Types
<1>. QED  BY <1>2, <1>3, <1>4

(* A row is handed over while every row before it is marked.                *)
LEMMA PublishInv ==
  ASSUME CollectorAssumption, IInv, Publish  PROVE IInv'
<1>1. UNCHANGED <<journal, queue, history, conflicts, receipts, outbox, echoes, routed>>
  BY DEF Publish, store
<1>2. /\ pub' \in Threads /\ pub'.row = pub.row /\ ~pub'.seen
      /\ pub.pc = "publish" /\ InTurn(pub.row)
      /\ pub'.pc = "wait" \/ pub'.pc = "await"
      /\ pub'.pending => pub'.pc = "await"
  BY DEF Publish, Back, IInv, Types, Threads, AnnounceInv, RowInHand
<1>3. sending' \subseteq sending \cup {pub.row}
  BY DEF Publish
<1>4. AnnounceInv'
  BY <1>1, <1>2, <1>3 DEF IInv, AnnounceInv, InTurn, SentWasRouted, RowInHand
<1>. QED  BY <1>1, <1>2, <1>4, StoreKept DEF IInv, Types

LEMMA Marked ==
  ASSUME NEW x \in Rows
  PROVE  /\ [x EXCEPT !.sent = TRUE] \in Rows
         /\ [x EXCEPT !.sent = TRUE].event = x.event
         /\ [x EXCEPT !.sent = TRUE].sent
BY DEF Rows

LEMMA MarkInv ==
  ASSUME CollectorAssumption, IInv, Mark  PROVE IInv'
<1>1. UNCHANGED <<journal, queue, history, conflicts, receipts, sending, echoes, routed>>
  BY DEF Mark, store
<1>2. /\ pub' \in Threads /\ pub'.pc = "wait" /\ ~pub'.pending /\ ~pub'.seen
      /\ pub.pc = "mark" /\ pub.row \in routed /\ pub.row \in DOMAIN outbox
  BY DEF Mark, Back, IInv, Types, Threads, AnnounceInv, RowInHand, InTurn
<1>3. /\ outbox' \in Seq(Rows) /\ DOMAIN outbox' = DOMAIN outbox
      /\ \A i \in DOMAIN outbox : /\ outbox'[i].event = outbox[i].event
                                  /\ outbox'[i].sent => outbox[i].sent \/ i = pub.row
                                  /\ outbox[i].sent => outbox'[i].sent
  <2>1. CASE outbox' = outbox
    BY <2>1 DEF IInv, Types
  <2>2. CASE outbox' = [outbox EXCEPT ![pub.row].sent = TRUE]
    <3>1. outbox \in Seq(Rows) /\ pub.row \in DOMAIN outbox
      BY <1>2 DEF IInv, Types
    <3>. DEFINE r == [outbox[pub.row] EXCEPT !.sent = TRUE]
    <3>2. outbox[pub.row] \in Rows
      BY <3>1
    <3>3. r \in Rows /\ r.event = outbox[pub.row].event /\ r.sent
      BY <3>2, Marked
    <3>4. outbox' = [outbox EXCEPT ![pub.row] = r]
      BY <2>2
    <3>. HIDE DEF r
    <3>. QED  BY <3>1, <3>3, <3>4
  <2>. QED  BY <2>1, <2>2 DEF Mark
<1>4. AnnounceInv'
  BY <1>1, <1>2, <1>3 DEF IInv, AnnounceInv, InTurn, SentWasRouted, RowInHand
<1>. QED  BY <1>1, <1>2, <1>3, <1>4, StoreKept DEF IInv, Types

LEMMA RouteInv ==
  ASSUME CollectorAssumption, IInv, Route  PROVE IInv'
<1>1. UNCHANGED <<journal, queue, history, conflicts, receipts, outbox, pub>>
  BY DEF Route, store
<1>2. PICK r \in sending : /\ sending' = sending \ {r} /\ routed' = routed \cup {r}
                           /\ echoes' \subseteq echoes \cup {r}
  BY DEF Route
<1>3. AnnounceInv'
  BY <1>1, <1>2 DEF IInv, AnnounceInv, InTurn, SentWasRouted, RowInHand
<1>. QED  BY <1>1, <1>3, StoreKept DEF IInv, Types

LEMMA StutterInv ==
  ASSUME IInv, UNCHANGED vars  PROVE IInv'
BY StoreKept, AnnounceKept DEF vars, store, transport, IInv, Types

-----------------------------------------------------------------------------
LEMMA CollectorInvariant == Spec => []IInv
<1>1. Init => IInv
  BY InitInv, CollectorAssumption
<1>2. IInv /\ [Next]_vars => IInv'
  <2>. SUFFICES ASSUME IInv, [Next]_vars  PROVE IInv'
    OBVIOUS
  <2>. QED  BY CollectorAssumption, ArrivalInv, PersistInv, ForgetInv, ConnectionInv, EchoInv,
              ThreadInv, PublishInv, MarkInv, RouteInv, StutterInv DEF Next
<1>. QED  BY <1>1, <1>2, PTL DEF Spec

(* What the Target has forgotten is stored, and nothing but the Target's    *)
(* own events is: the writer, its receipts and preserve_conflict.           *)
THEOREM HistoryAlwaysGenuine == Spec => []HistoryIsGenuine
<1>1. IInv => HistoryIsGenuine
  BY DEF IInv, StoreInv
<1>. QED  BY <1>1, CollectorInvariant, PTL

(* Events are announced one after another, and marked when the broker has   *)
(* handed them on: the outbox thread over reconnects and restarts.          *)
THEOREM AlwaysAnnouncedInTurn == Spec => []AnnouncedInTurn
<1>1. IInv => AnnouncedInTurn
  BY DEF IInv, AnnounceInv, AnnouncedInTurn, AnnouncedInOrder, InTurn
<1>. QED  BY <1>1, CollectorInvariant, PTL
=============================================================================
