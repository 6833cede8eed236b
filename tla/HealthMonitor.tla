--------------------------- MODULE HealthMonitor ---------------------------
(***************************************************************************)
(* The Home Assistant observer of the NAS, scripts/nas_ha_health/          *)
(* monitor.py: a cycle reads state.json, observes, writes state.json,      *)
(* appends to the journal and hands the owner the oldest pending notice.   *)
(* A crash may come between any two of these; systemd starts it again.     *)
(*                                                                         *)
(* What is observed is an input: the container, HTTP, the WebSocket        *)
(* handshake and Docker's lifecycle events each may be found wanting or    *)
(* not be readable at all.  Cycles stand for time; the two seconds by      *)
(* which two queries for events overlap are less than a cycle.             *)
(***************************************************************************)
EXTENDS Naturals, Sequences

CONSTANTS MaxCycles,      \* bound on cycles observed
          PendingCapacity \* bound on pending notices, 16 in the code

VARIABLES file,     \* state.json
          mem,      \* `value' of the cycle under way
          pc,       \* step of the cycle
          cycle,    \* cycles observed
          drawn,    \* incident identities drawn
          since,    \* the cycle its query for events starts after
          written,  \* events up to this cycle are in the journal
          raised,   \* history: notices written into pending, in order
          accepted  \* history: notices the notifier took

mvars == <<file, mem, pc, cycle, drawn, since, written, raised, accepted>>

Boot == [failures |-> 0, successes |-> 0, open |-> FALSE, incident |-> 0,
         pending |-> <<>>, overflow |-> FALSE, until |-> 0]

Init == /\ file = Boot /\ mem = Boot /\ pc = "idle" /\ cycle = 0 /\ drawn = 0
        /\ since = 0 /\ written = 0 /\ raised = <<>> /\ accepted = {}

-----------------------------------------------------------------------------
(* advance(): counts, and a notice when the second failure opens an         *)
(* incident or the second success closes it.  Counts matter up to two.      *)
AtMostTwo(n) == IF n > 2 THEN 2 ELSE n

Observed(v, failed) ==
    [v EXCEPT !.failures = IF failed THEN AtMostTwo(@ + 1) ELSE 0,
              !.successes = IF failed THEN 0 ELSE AtMostTwo(@ + 1)]

Opens(v) == v.failures >= 2 /\ ~v.open
Closes(v) == v.successes >= 2 /\ v.open

Queue(v, notice) ==
    IF Len(v.pending) >= PendingCapacity
    THEN [v EXCEPT !.overflow = TRUE]
    ELSE [v EXCEPT !.pending = Append(@, notice)]

Advance(v) ==
    CASE Opens(v) -> Queue([v EXCEPT !.open = TRUE, !.incident = drawn + 1],
                           [phase |-> "failure", incident |-> drawn + 1])
      [] Closes(v) -> Queue([v EXCEPT !.open = FALSE],
                            [phase |-> "recovered", incident |-> v.incident])
      [] OTHER -> v

(* What the probes of a cycle may find.  The container is up as it should    *)
(* be, and Docker told its events, or not; the page and an authenticated     *)
(* websocket answered through the ingress, or not.                           *)
Container == {"running", "wrong"} \X {"told", "silent"}
Ingress == {"open", "shut"}

(* reasons(), and no lifecycle events.                                       *)
Failed(container, ingress) ==
    container # <<"running", "told">> \/ ingress = "shut"

(* Without its events the next query starts from the same point again.       *)
Observe ==
    /\ pc = "idle" /\ cycle < MaxCycles
    /\ \E container \in Container, ingress \in Ingress :
         LET v == Observed(file, Failed(container, ingress))
         IN  /\ mem' = [Advance(v) EXCEPT !.until = IF container[2] = "told"
                                                    THEN cycle + 1 ELSE @]
             /\ drawn' = IF Opens(v) THEN drawn + 1 ELSE drawn
    /\ cycle' = cycle + 1 /\ since' = file.until /\ pc' = "save"
    /\ UNCHANGED <<file, written, raised, accepted>>

(* The state is on disk before the journal and before any notice.           *)
SaveState ==
    /\ pc = "save" /\ file' = mem /\ pc' = "journal"
    /\ raised' = IF Len(mem.pending) > Len(file.pending)
                 THEN Append(raised, mem.pending[Len(mem.pending)]) ELSE raised
    /\ UNCHANGED <<mem, cycle, drawn, since, written, accepted>>

(* The observations of this cycle, with the events since the last query.    *)
Journal ==
    /\ pc = "journal" /\ pc' = IF mem.pending = <<>> THEN "idle" ELSE "notify"
    /\ written' = IF mem.until = cycle /\ written >= since THEN cycle ELSE written
    /\ UNCHANGED <<file, mem, cycle, drawn, since, raised, accepted>>

\* a notice off the queue before the notifier answered for it
PopAnyway ==
    /\ pc = "notify"
    /\ accepted' \in {accepted, accepted \cup {Head(mem.pending)}}
    /\ mem' = [mem EXCEPT !.pending = Tail(@)] /\ pc' = "pop"
    /\ UNCHANGED <<file, cycle, drawn, since, written, raised>>

(* notify_owner() with the oldest: taken, refused, or taken without an      *)
(* answer in time.                                                          *)
Notify ==
    /\ pc = "notify"
    /\ \/ /\ accepted' = accepted \cup {Head(mem.pending)}
          /\ mem' = [mem EXCEPT !.pending = Tail(@)] /\ pc' = "pop"
       \/ /\ accepted' \in {accepted, accepted \cup {Head(mem.pending)}}
          /\ pc' = "idle" /\ UNCHANGED mem
    /\ UNCHANGED <<file, cycle, drawn, since, written, raised>>

Pop ==
    /\ pc = "pop" /\ file' = mem /\ pc' = "idle"
    /\ UNCHANGED <<mem, cycle, drawn, since, written, raised, accepted>>

(* A crash, or a journal that cannot be written: main() ends, systemd       *)
(* starts it again.                                                         *)
Crash ==
    /\ pc # "idle" /\ pc' = "idle" /\ mem' = file
    /\ UNCHANGED <<file, cycle, drawn, since, written, raised, accepted>>

Next == Observe \/ SaveState \/ Journal \/ Notify \/ Pop \/ Crash

Spec == Init /\ [][Next]_mvars

-----------------------------------------------------------------------------
(* The notices not yet taken off the file are the last ones raised.          *)
Gone == Len(raised) - Len(file.pending)

\* Nothing is announced that a crash could make the observer forget, no notice
\* leaves the queue unannounced, and the owner hears them in the order they
\* were raised, the last one perhaps again.  (run_cycle: atomic before the
\* notifier, pending[0], the second atomic.)
NoticesArrive ==
    /\ SubSeq(raised, Gone + 1, Len(raised)) = file.pending
    /\ \/ accepted = {raised[i] : i \in 1..Gone}
       \/ /\ file.pending # <<>>
          /\ accepted = {raised[i] : i \in 1..Gone + 1}

\* Until the queue has overflowed, every failure the owner hears of is
\* followed by the recovery of the same incident before another one opens.
\* (advance: alert_open and incident.)
IncidentsAlternate ==
    ~file.overflow =>
        \A i \in 1..Len(raised) :
            IF i % 2 = 1 THEN raised[i].phase = "failure"
            ELSE raised[i] = [phase |-> "recovered", incident |-> raised[i-1].incident]

\* What the owner hears is the truth, all of it, in its order.
OwnerIsTold == NoticesArrive /\ IncidentsAlternate
=============================================================================
