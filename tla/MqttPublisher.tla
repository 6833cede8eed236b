--------------------------- MODULE MqttPublisher ---------------------------
(***************************************************************************)
(* The one MQTT session of the backend's request threads: CircuitBreaker   *)
(* and PersistentMqttPublisher of ops_runtime.py, used by main.py through  *)
(* _persistent_publisher.  Threads publish, one thread probes; each has a  *)
(* deadline, and the connection is made by a thread of its own that nobody *)
(* can interrupt.                                                          *)
(*                                                                         *)
(* Deadlines may pass at any wait.  To discard a session takes less than   *)
(* the fifteen seconds after which the breaker lets a caller try again.    *)
(* close(), of the shutdown, is left out.                                  *)
(***************************************************************************)
EXTENDS Naturals, FiniteSets

CONSTANTS Publishers,  \* threads that publish
          Prober,      \* the thread of the readiness probe
          MaxInflight, \* capacity, 16 in the code
          Threshold,   \* failures that open the breaker
          MaxAttempts  \* bound on connection attempts

PublisherAssumption ==
    /\ IsFiniteSet(Publishers) /\ Prober \notin Publishers
    /\ "free" \notin Publishers \cup {Prober}
    /\ MaxInflight \in Nat \ {0} /\ Threshold \in Nat

VARIABLES state,      \* of the breaker
          failures,   \* its failures in a row
          ripe,       \* reset_seconds have passed since it opened
          free,       \* free slots of the capacity
          pc,         \* where each thread is
          gate,       \* thread that holds the connect gate, or "free"
          client,     \* attempt the session came from, 0 for no session
          attempt,    \* the attempt on record, 0 for none
          connecting, \* attempts whose connect thread is alive
          failed,     \* attempts that ended with an error
          cancelled,  \* attempts that were cancelled
          attempts    \* attempts made

mqvars == <<state, failures, ripe, free, pc, gate, client, attempt, connecting,
            failed, cancelled, attempts>>
breaker == <<state, failures, ripe>>
session == <<client, attempt, connecting, failed, cancelled, attempts>>

Threads == Publishers \cup {Prober}
Go(t, step) == pc' = [pc EXCEPT ![t] = step]
Freed(t) == IF t = Prober THEN free ELSE free + 1

Init == /\ state = "closed" /\ failures = 0 /\ ripe = FALSE
        /\ free = MaxInflight /\ pc = [t \in Threads |-> "idle"] /\ gate = "free"
        /\ client = 0 /\ attempt = 0 /\ connecting = {} /\ failed = {}
        /\ cancelled = {} /\ attempts = 0

-----------------------------------------------------------------------------
(* permit(): everybody while closed, one caller once the time is over.      *)
Permit(t) ==
    /\ pc[t] = "idle"
    /\ \/ state = "closed" /\ UNCHANGED state
       \/ state = "open" /\ ripe /\ state' = "half_open"
    /\ Go(t, IF t = Prober THEN "connect" ELSE "slot")
    /\ UNCHANGED <<failures, ripe, free, gate, session>>

(* A publisher that finds no slot goes without a word to the breaker.       *)
Slot(t) ==
    /\ pc[t] = "slot"
    /\ IF free > 0 THEN free' = free - 1 /\ Go(t, "connect")
                   ELSE UNCHANGED free /\ Go(t, "idle")
    /\ UNCHANGED <<breaker, gate, session>>

TimePasses ==
    /\ state = "open" /\ ~ripe /\ ripe' = TRUE
    /\ \A t \in Threads : pc[t] # "discard"
    /\ UNCHANGED <<state, failures, free, pc, gate, session>>

(* _connected_client(): the session there is, or the gate, or the deadline.  *)
EnterGate(t) ==
    /\ pc[t] = "connect"
    /\ \/ client # 0 /\ Go(t, "use") /\ UNCHANGED gate
       \/ client = 0 /\ gate = "free" /\ gate' = t /\ Go(t, "gate")
       \/ client = 0 /\ gate # "free" /\ UNCHANGED gate /\ Go(t, "failure")
    /\ UNCHANGED <<breaker, free, session>>

(* Inside, a session somebody else made, the attempt on record, or a new one.*)
Connect(t) ==
    /\ pc[t] = "gate"
    /\ \/ client # 0 /\ gate' = "free" /\ Go(t, "use") /\ UNCHANGED session
       \/ client = 0 /\ attempt # 0 /\ Go(t, "wait") /\ UNCHANGED <<gate, session>>
       \/ /\ client = 0 /\ attempt = 0 /\ attempts < MaxAttempts
          /\ attempts' = attempts + 1 /\ attempt' = attempts + 1
          /\ connecting' = connecting \cup {attempts + 1}
          /\ Go(t, "wait") /\ UNCHANGED <<gate, client, failed, cancelled>>
    /\ UNCHANGED <<breaker, free>>

(* connect_worker(): the call returns, or raises, whenever it likes.         *)
ConnectReturns(i) ==
    /\ i \in connecting /\ connecting' = connecting \ {i}
    /\ failed' \in {failed, failed \cup {i}}
    /\ UNCHANGED <<breaker, free, pc, gate, client, attempt, cancelled, attempts>>

(* The deadline: the attempt is cancelled, but stays until its thread ends.  *)
GivesUp(t) ==
    /\ pc[t] = "wait"
    /\ cancelled' = cancelled \cup {attempt}
    /\ gate' = "free" /\ Go(t, "failure")
    /\ UNCHANGED <<breaker, free, client, attempt, connecting, failed, attempts>>

\* a cancellation that does not outlive its caller
Returned(i) == i \notin failed
Usable(i) == i \notin cancelled /\ i \notin failed

(* The thread has ended: a session, unless it failed or was cancelled.       *)
Connected(t) ==
    /\ pc[t] = "wait" /\ attempt \notin connecting
    /\ attempt' = 0 /\ gate' = "free"
    /\ IF Usable(attempt) THEN client' = attempt /\ Go(t, "use")
                          ELSE UNCHANGED client /\ Go(t, "failure")
    /\ UNCHANGED <<breaker, free, connecting, failed, cancelled, attempts>>

(* The broker confirms in time, or not.                                      *)
Confirmed(t) ==
    /\ pc[t] = "use"
    /\ \/ /\ state' = "closed" /\ failures' = 0 /\ ripe' = FALSE
          /\ free' = Freed(t) /\ Go(t, "idle")
       \/ Go(t, "failure") /\ UNCHANGED <<breaker, free>>
    /\ UNCHANGED <<gate, session>>

(* failure(), then _discard() of whatever session there is by then.          *)
Fails(t) ==
    /\ pc[t] = "failure" /\ Go(t, "discard")
    /\ failures' = IF failures < Threshold THEN failures + 1 ELSE failures
    /\ IF failures + 1 >= Threshold \/ state = "half_open"
       THEN state' = "open" /\ ripe' = FALSE
       ELSE UNCHANGED <<state, ripe>>
    /\ UNCHANGED <<free, gate, session>>

Discard(t) ==
    /\ pc[t] = "discard" /\ client' = 0 /\ Go(t, "idle")
    /\ free' = Freed(t)
    /\ UNCHANGED <<breaker, gate, attempt, connecting, failed, cancelled, attempts>>

Next == \/ TimePasses
        \/ \E i \in 1..MaxAttempts : ConnectReturns(i)
        \/ \E t \in Threads :
             \/ Permit(t) \/ Slot(t) \/ EnterGate(t) \/ Connect(t) \/ GivesUp(t)
             \/ Connected(t) \/ Confirmed(t) \/ Fails(t) \/ Discard(t)

Spec == Init /\ [][Next]_mqvars

-----------------------------------------------------------------------------
\* However many callers give up on a connection that hangs in DNS or TLS, at
\* most one connect thread is alive, and no client that was cancelled is ever
\* published on.  (_connect_attempt is kept until its thread is done.)
OneSession ==
    /\ Cardinality(connecting) <= 1
    /\ client \notin cancelled

\* A breaker that let one caller through is waiting for a caller who will tell
\* it the outcome: it never stays half open with nobody at work.  (permit,
\* and every path of publish and probe to success() or failure().)
HalfOpenIsTried ==
    state = "half_open" =>
        \E t \in Threads : pc[t] \in {"slot", "connect", "gate", "wait", "use", "failure"}

\* What concurrent publishers and the probe together keep to.
PublisherIsSafe == OneSession /\ HalfOpenIsTried
=============================================================================
