---------------------------- MODULE EventStream ----------------------------
(***************************************************************************)
(* The acceptance parser over recorded events, observability/              *)
(* event_parser.py: events in the order in which they were collected,      *)
(* repeated or in conflict, are deduplicated, validated as a stream,       *)
(* ordered by cause and by the sequence of their producer, and judged.     *)
(*                                                                         *)
(* An event is a record; what one event must look like on its own          *)
(* (validate_event) is the flag `valid'.  Its code stands for the event's  *)
(* code and, where the verdict tells them apart, its reason: RESET is a    *)
(* termination by RESET_DURING_SESSION, RECOVERED an update completed by   *)
(* ROLLBACK_COMPLETED, REJECTED any terminal event the verdict asks        *)
(* nothing of.  `at' is the boot of the Target an event names; part,       *)
(* version and goal are update.component, current_version and              *)
(* target_version; `confirmed' says that update.confirmation is the one    *)
(* the code calls for.  The artifact's digest, and references of a Target  *)
(* that only have to be the same as another event's, are left out.  The    *)
(* required chains are constants, so that an instance can shorten them.    *)
(***************************************************************************)
EXTENDS Naturals, Sequences, FiniteSets, SequencesExt

CONSTANTS Streams,  \* set of collections of events, each a set of records
          Required, \* codes a completed session must show, for each path
          HandsFree \* codes that have no place on the manual path

(* Collections are finite; identifiers and times are ordered, here as       *)
(* numbers are; a reset belongs to an access (validate_event).  A boot      *)
(* identifier is 128 random bits (DiagnosticsManager.cpp:218), so no two    *)
(* Targets share one.  A local session shows its proof before the relay, an *)
(* update of the Target its installation before the boot that confirms it   *)
(* (the lists of evaluate_access_session and evaluate_update_session).      *)
Shows(path, first, then) ==
    /\ DOMAIN Required[path] = 1..Len(Required[path]) /\ Len(Required[path]) \in Nat
    /\ \E i, j \in 1..Len(Required[path]) :
         i < j /\ Required[path][i] = first /\ Required[path][j] = then

StreamsAssumption ==
  /\ \A s \in Streams :
       /\ IsFiniteSet(s)
       /\ \A e \in s : e.valid => /\ {e.id, e.source, e.boot, e.seq, e.wall} \subseteq Nat
                                /\ (e.code = "RESET" => e.kind = "access")
       /\ \A x, y \in s :
            x.valid /\ y.valid /\ x.component = "target" /\ y.component = "target" /\ x.boot = y.boot
              => x.source = y.source
  /\ Shows("local", "PROOF", "RELAY_ON") /\ Shows("target", "INSTALLED", "BOOTED")

VARIABLES stream,  \* what was collected
          rest,    \* what has not been read yet
          unique,  \* events kept
          phase,   \* "read", "order", "judge", "passed" or "refused"
          left,    \* predecessors not yet in the order, for each event
          out      \* the order, as far as it is known

svars == <<stream, rest, unique, phase, left, out>>

Terminals == {"COMPLETED", "RECOVERED", "REJECTED", "RESET"}
Producer(e) == <<e.source, e.boot>>
Refuse == phase' = "refused" /\ UNCHANGED <<stream, rest, unique, left, out>>

Init == /\ stream \in Streams /\ rest = stream
        /\ unique = {} /\ phase = "read" /\ left = <<>> /\ out = <<>>

-----------------------------------------------------------------------------
(* deduplicate_events(): the same event again is nothing, another content   *)
(* or another identity in its place is a conflict.  Copies are members of   *)
(* the collection that differ in `copy' only.                               *)
Content(e) == [f \in DOMAIN e \ {"copy"} |-> e[f]]
Conflicts(e) ==
    \E p \in unique : \/ p.id = e.id /\ Content(p) # Content(e)
                      \/ p.id # e.id /\ Producer(p) = Producer(e) /\ p.seq = e.seq

Read ==
    /\ phase = "read"
    /\ \E e \in rest :
         \/ (~e.valid \/ Conflicts(e)) /\ Refuse
         \/ /\ e.valid /\ ~Conflicts(e)
            /\ rest' = rest \ {e}
            /\ unique' = IF \E p \in unique : p.id = e.id THEN unique ELSE unique \cup {e}
            /\ UNCHANGED <<stream, phase, left, out>>

\* a graph without the sequence of the producers
CausesOnly(x, y) == y.cause = x.id

(* Edges of the graph: a cause, and the next event of the same producer.    *)
Edge(x, y) ==
    \/ y.cause = x.id
    \/ /\ Producer(x) = Producer(y) /\ x.seq < y.seq
       /\ ~\E z \in unique : Producer(z) = Producer(x) /\ x.seq < z.seq /\ z.seq < y.seq

(* validate_stream() without its cycle check: causes are there, of the same *)
(* session and of an earlier attempt, the producer's clock and attempts do  *)
(* not go back; every session is of one kind, updates one thing and has one *)
(* terminal event.                                                          *)
SessionIds == {e.session : e \in unique}
EventsOf(s) == {e \in unique : e.session = s}
StreamSound ==
    /\ \A e \in unique : e.cause # 0 =>
          \E c \in unique : c.id = e.cause /\ c.session = e.session /\ c.attempt <= e.attempt
    /\ \A x, y \in unique : Producer(x) = Producer(y) /\ x.seq < y.seq =>
          x.mono <= y.mono /\ x.attempt <= y.attempt
    /\ \A s \in SessionIds :
          /\ Cardinality({<<e.kind, e.part, e.goal>> : e \in EventsOf(s)}) = 1
          /\ Cardinality({e \in EventsOf(s) : e.code \in Terminals}) = 1

Validate ==
    /\ phase = "read" /\ rest = {}
    /\ \/ ~StreamSound /\ Refuse
       \/ /\ StreamSound /\ phase' = "order"
          /\ left' = [e \in unique |-> Cardinality({x \in unique : Edge(x, e)})]
          /\ UNCHANGED <<stream, rest, unique, out>>

-----------------------------------------------------------------------------
(* order_events(): Kahn's algorithm; of the events that are ready, those    *)
(* with a synchronised clock by its time, then the others by producer and   *)
(* sequence.  A cycle leaves events that never become ready.                *)
Ready == {e \in unique : left[e] = 0 /\ e \notin Range(out)}

First(x, y) ==
    \/ x.wall # 0 /\ y.wall = 0
    \/ x.wall # 0 /\ y.wall # 0 /\ (x.wall < y.wall \/ (x.wall = y.wall /\ x.id < y.id))
    \/ /\ x.wall = 0 /\ y.wall = 0
       /\ \/ x.source < y.source
          \/ x.source = y.source /\ x.boot < y.boot
          \/ Producer(x) = Producer(y) /\ x.seq < y.seq

Order ==
    /\ phase = "order"
    /\ \E e \in Ready :
         /\ \A x \in Ready \ {e} : First(e, x)
         /\ out' = Append(out, e)
         /\ left' = [x \in unique |-> IF Edge(e, x) THEN left[x] - 1 ELSE left[x]]
    /\ UNCHANGED <<stream, rest, unique, phase>>

Ordered ==
    /\ phase = "order" /\ Ready = {}
    /\ phase' = IF Len(out) = Cardinality(unique) THEN "judge" ELSE "refused"
    /\ UNCHANGED <<stream, rest, unique, left, out>>

-----------------------------------------------------------------------------
(* evaluate_access_session() and evaluate_update_session().                 *)
Ancestors(e) ==
    LET up[n \in 0..Cardinality(unique)] ==
          IF n = 0 THEN {x \in unique : Edge(x, e)}
          ELSE LET known == up[n-1]
               IN  known \cup {x \in unique : \E y \in known : Edge(x, y)}
    IN  up[Cardinality(unique)]
Precedes(x, y) == x = y \/ x \in Ancestors(y)

Of(code) == {e \in unique : e.code = code}
Terminal == CHOOSE e \in unique : e.code \in Terminals
Target(e) == e.component = "target"
Position(e) == CHOOSE i \in 1..Len(out) : out[i] = e

(* _required_causal_chain(): the first of each code after the one before it. *)
Chain(codes) ==
    LET next[i \in 0..Len(codes)] ==
          IF i = 0 THEN 0
          ELSE LET later == {k \in next[i-1] + 1..Len(out) : out[k].code = codes[i]}
               IN  IF next[i-1] > Len(out) \/ later = {} THEN Len(out) + 1
                   ELSE CHOOSE k \in later : \A l \in later : k <= l
    IN  /\ next[Len(codes)] <= Len(out)
        /\ \A i \in 2..Len(codes) : Precedes(out[next[i-1]], out[next[i]])

\* as many relay-off events as relay-on events
RelayPaired == Cardinality(Of("RELAY_ON")) = Cardinality(Of("RELAY_OFF"))
RelaySound ==
    /\ Cardinality(Of("RELAY_ON")) <= 1 /\ RelayPaired
    /\ Of("PROOF_REJECTED") # {} => Of("RELAY_ON") = {}

(* One boot of the Target, or a reset told by the next boot, which names    *)
(* the last event of the former one.                                        *)
Former == {e \in unique : Target(e) /\ e.boot # Terminal.boot}
NamesLastFormer ==
    \E c \in Former : /\ c.id = Terminal.cause
                      /\ \A e \in Former : Position(e) <= Position(c)
ResetSound ==
    IF Terminal.code = "RESET"
    THEN /\ Target(Terminal) /\ NamesLastFormer
         /\ Cardinality({e.boot : e \in {x \in unique : Target(x)}}) = 2
    ELSE Cardinality({e.boot : e \in {x \in unique : Target(x)}}) <= 1

(* The first event that names a path decides it.                            *)
Pathful == {i \in 1..Len(out) : out[i].path # ""}
AccessPath == IF Pathful = {} THEN "local"
              ELSE out[CHOOSE i \in Pathful : \A j \in Pathful : i <= j].path
AccessSound ==
    /\ RelaySound /\ ResetSound
    /\ Terminal.code = "COMPLETED" =>
         /\ AccessPath \in {"local", "legacy", "manual"} /\ Chain(Required[AccessPath])
         /\ AccessPath = "manual" => \A e \in unique : e.code \notin HandsFree

(* A roll back proves the version the update started from; the Target does  *)
(* so in one new boot.                                                      *)
FirstOf(code) ==
    out[CHOOSE i \in 1..Len(out) : out[i].code = code /\ \A j \in 1..i-1 : out[j].code # code]
Recovery == {e \in unique : e.code \in {"PREVIOUS_INSTALLED", "PREVIOUS_BOOTED", "PREVIOUS_HEALTHY",
                                        "ROLLED_BACK", "RECOVERED"}}
RollbackSound ==
    /\ Chain(Required["rollback"])
    /\ \A e \in Recovery : e.version = FirstOf("U_STARTED").version /\ e.confirmed
    /\ FirstOf("U_STARTED").version # Terminal.goal
    /\ Terminal.part = "target" =>
         /\ FirstOf("ROLLBACK").boot # FirstOf("PREVIOUS_BOOTED").boot
         /\ \A e \in Recovery : Target(e)
         /\ Cardinality({e.boot : e \in Recovery}) = 1

UpdateSound ==
    /\ Terminal.code = "RECOVERED" => RollbackSound
    /\ Terminal.code = "COMPLETED" =>
         /\ Terminal.confirmed /\ Chain(Required[Terminal.part])
         /\ Terminal.part = "target" =>
              {e.at : e \in Of("INSTALLED")} \cap {e.at : e \in Of("BOOTED")} = {}

(* One session is judged at a time.                                         *)
Judge ==
    /\ phase = "judge"
    /\ phase' = IF /\ Cardinality(SessionIds) = 1
                   /\ IF \E e \in unique : e.kind = "update"
                      THEN (\A e \in unique : e.kind = "update") /\ UpdateSound
                      ELSE AccessSound
                THEN "passed" ELSE "refused"
    /\ UNCHANGED <<stream, rest, unique, left, out>>

Next == Read \/ Validate \/ Order \/ Ordered \/ Judge

Spec == Init /\ [][Next]_svars

-----------------------------------------------------------------------------
(* What the order has to respect.                                           *)
Follows(y, x) == y.cause = x.id \/ (Producer(x) = Producer(y) /\ x.seq < y.seq)

\* However the events were collected, the order never puts an event before one
\* of its causes or before an earlier one of its producer, directly or not,
\* and a stream whose causes run in a circle is never ordered to the end.
\* (order_events, and the cycle checks of it and of validate_stream.)
OrderIsCausal ==
    /\ \A i \in 1..Len(out), x \in unique :
          Follows(out[i], x) => \E j \in 1..i-1 : out[j] = x
    /\ phase \in {"judge", "passed"} => ToSet(out) = unique

\* What passes as a completed local session opened the door for a verified
\* proof: each relay activation is caused by one, whatever else was recorded,
\* repeated or left out.  What passes as a reset was told by somebody who knew
\* the last thing the former boot did.  What passes as an update of the Target
\* was installed and, because of it, booted in another boot.
VerdictIsEarned ==
    phase = "passed" =>
      /\ Terminal.code = "COMPLETED" /\ Terminal.kind = "access" /\ AccessPath = "local" =>
           \A on \in Of("RELAY_ON") : \E p \in Of("PROOF") : Precedes(p, on)
      /\ Terminal.code = "RESET" => \A e \in Former : Precedes(e, Terminal)
      /\ Terminal.code = "COMPLETED" /\ Terminal.kind = "update" /\ Terminal.part = "target" =>
           \E i \in Of("INSTALLED"), b \in Of("BOOTED") : Precedes(i, b) /\ i.at # b.at

\* Order and verdict of a collection of events can be relied on.
StreamIsJudged == OrderIsCausal /\ VerdictIsEarned
=============================================================================
