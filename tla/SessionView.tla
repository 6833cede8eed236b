----------------------------- MODULE SessionView ------------------------------
(* What a phone is told about its own session at the door:                   *)
(* _personal_access_session of main.py, which puts the answer together from  *)
(* the signed events of that session, as far as they have arrived, and the   *)
(* Target's latest status, which names only the last session that ended.     *)
(*                                                                           *)
(* The Target's side is as much of AccessFsm, GattServer and MqttManager as  *)
(* makes the evidence: what a session emits, what the terminal summary       *)
(* holds, what a reset forgets.  Events are lost and late without limit; a   *)
(* status takes effect when it is accepted (TargetStatus).  `PROVED' stands  *)
(* for all a session emits before the relay and `RELAY_ON' for all it emits  *)
(* after, its end aside.  A session of no phone is the manual opening of a   *)
(* signed command.                                                           *)
EXTENDS Naturals, Sequences, FiniteSets

CONSTANTS Sessions, \* sessions of phones, each with its own credential_ref
          NoOne,    \* no session
          MaxBoot   \* bound on boots of the Target

SessionAssumption == NoOne \notin Sessions /\ MaxBoot \in Nat

VARIABLES boot,   \* source_boot_count
          seq,    \* source_sequence of the last event of this boot
          state,  \* of the access FSM
          owner,  \* the phone's session the FSM serves
          sink,   \* the ends of sessions before loopTask drains them
          last,   \* accessTerminalSummary
          air,    \* signed events not yet in the store
          store,  \* access_event_history
          live,   \* live_evidence(): the latest status, or none that is fresh
          fate    \* history: what became of each session

vvars == <<boot, seq, state, owner, sink, last, air, store, live, fate>>

NoSummary == [session |-> NoOne, code |-> "none", seq |-> 0, mask |-> "partial"]
NoStatus == [state |-> "unknown", boot |-> 0, last |-> NoSummary]

Init == /\ boot = 1 /\ seq = 0 /\ state = "IDLE" /\ owner = NoOne
        /\ sink = <<>> /\ last = NoSummary
        /\ air = {} /\ store = {} /\ live = NoStatus
        /\ fate = [s \in Sessions |-> "none"]

-----------------------------------------------------------------------------
(* The Target.                                                              *)
Event(s, code, n) == [session |-> s, code |-> code, seq |-> n, boot |-> boot]

(* A verified proof arms the gate or, for a manual opening, opens it.       *)
Verified(s) ==
    /\ fate[s] = "none" /\ state = "IDLE" /\ owner' = s
    /\ fate' = [fate EXCEPT ![s] = "running"]
    /\ \/ /\ state' = "ARMED" /\ seq' = seq + 1
          /\ air' = air \cup {Event(s, "PROVED", seq')}
       \/ /\ state' = "RELAY_HOLD" /\ seq' = seq + 2
          /\ air' = air \cup {Event(s, "PROVED", seq + 1), Event(s, "RELAY_ON", seq')}
    /\ UNCHANGED <<boot, sink, last, store, live>>

RelayOn ==
    /\ state = "ARMED"
    /\ state' = "RELAY_HOLD" /\ seq' = seq + 1
    /\ air' = air \cup {Event(owner, "RELAY_ON", seq')}
    /\ UNCHANGED <<boot, owner, sink, last, store, live, fate>>

(* The end of a phone's session, told to the sink in the handler.  Drained,  *)
(* it has the given phases behind it if nothing of the session was refused.  *)
Ends(code, mask, next) ==
    /\ seq' = seq + 1 /\ owner' = NoOne /\ state' = next
    /\ sink' = Append(sink, [event |-> Event(owner, code, seq'), mask |-> mask])
    /\ fate' = [fate EXCEPT ![owner] = IF code = "COMPLETED" THEN "completed" ELSE "terminated"]
    /\ UNCHANGED <<boot, last, air, store, live>>

(* The hold is over, or the failsafe cuts it off.                           *)
RelayOff ==
    /\ state = "RELAY_HOLD" /\ owner # NoOne
    /\ \/ Ends("COMPLETED", "success", "COOLDOWN")
       \/ Ends("TERMINATED", "failsafe", "COOLDOWN")

(* The sensor saw nobody, or a signed command for a manual opening takes the *)
(* place of the session that waits.                                          *)
Terminate(next) ==
    /\ state = "ARMED"
    /\ Ends("TERMINATED", "partial", next)

(* The command's own end does not pass the sink and names no credential; its *)
(* sequence number is left out.                                              *)
CommandOpens ==
    \/ Terminate("RELAY_HOLD")
    \/ /\ state = "IDLE" /\ state' = "RELAY_HOLD"
       /\ UNCHANGED <<boot, seq, owner, sink, last, air, store, live, fate>>

CommandEnds ==
    /\ state = "RELAY_HOLD" /\ owner = NoOne /\ state' = "COOLDOWN"
    /\ last' = NoSummary
    /\ UNCHANGED <<boot, seq, owner, sink, air, store, live, fate>>

(* The summary notes an end with the phases the sink let through before it,  *)
(* and does not when the end or the proof was refused.  An event refused is  *)
(* one that never arrives.                                                   *)
Drain ==
    /\ sink # <<>> /\ sink' = Tail(sink)
    /\ LET e == Head(sink).event
       IN  /\ air' = air \cup {e}
           /\ \/ UNCHANGED last
              \/ \E mask \in {"partial", Head(sink).mask} :
                   last' = [session |-> e.session, code |-> e.code, seq |-> e.seq, mask |-> mask]
    /\ UNCHANGED <<boot, seq, state, owner, store, live, fate>>

CooldownEnds ==
    /\ state = "COOLDOWN" /\ state' = "IDLE"
    /\ UNCHANGED <<boot, seq, owner, sink, last, air, store, live, fate>>

Reset ==
    /\ boot < MaxBoot
    /\ boot' = boot + 1 /\ seq' = 0 /\ state' = "IDLE" /\ owner' = NoOne
    /\ sink' = <<>> /\ last' = NoSummary
    /\ fate' = [s \in Sessions |-> IF s = owner THEN "reset" ELSE fate[s]]
    /\ UNCHANGED <<air, store, live>>

(* What arrives, in any order.                                              *)
Arrive ==
    /\ \E e \in air : store' = store \cup {e} /\ air' = air \ {e}
    /\ UNCHANGED <<boot, seq, state, owner, sink, last, live, fate>>

Status ==
    /\ live' = [state |-> state, boot |-> boot, last |-> last] /\ live' # live
    /\ UNCHANGED <<boot, seq, state, owner, sink, last, air, store, fate>>

(* ACCESS_STATUS_MAX_AGE_SECONDS without a status.                          *)
Ages ==
    /\ live # NoStatus /\ live' = NoStatus
    /\ UNCHANGED <<boot, seq, state, owner, sink, last, air, store, fate>>

Next == \/ \E s \in Sessions : Verified(s)
        \/ RelayOn \/ RelayOff \/ Terminate("IDLE") \/ CommandOpens \/ CommandEnds
        \/ Drain \/ CooldownEnds \/ Reset
        \/ Arrive \/ Status \/ Ages

Spec == Init /\ [][Next]_vvars

-----------------------------------------------------------------------------
(* The answer.  matched rows are the events of this session; the status      *)
(* speaks of it only when its summary names it.                              *)
Matched(s) == {e \in store : e.session = s}
Codes(s) == {e.code : e \in Matched(s)}
Terminals(s) == {e \in Matched(s) : e.code \in {"COMPLETED", "TERMINATED"}}

\* a status that speaks of whoever asks
AnySummary(s) == live.last # NoSummary
OwnSummary(s) == live # NoStatus /\ live.last.session = s

\* rows of two boots are no evidence
SeveralBoots(s) == Cardinality({e.boot : e \in Matched(s)}) > 1
NothingKnown(s) == (Matched(s) = {} /\ ~OwnSummary(s)) \/ SeveralBoots(s)

SameBoot(s) == live # NoStatus /\ \A e \in Matched(s) : e.boot = live.boot
Idle == live.state = "IDLE"

SignedTermination(s) == \E e \in Terminals(s) :
    e.code = "TERMINATED" /\ \A f \in Terminals(s) : f.seq <= e.seq

(* A later session may have taken the summary over: the signed termination   *)
(* and an idle Target of the same boot are enough to try again.              *)
TerminationReady(s) == SignedTermination(s) /\ SameBoot(s) /\ Idle

SummaryValid(s) ==
    /\ OwnSummary(s) /\ SameBoot(s)
    /\ Terminals(s) # {} => \E e \in Terminals(s) :
          /\ \A f \in Terminals(s) : f.seq <= e.seq
          /\ e.code = live.last.code /\ e.seq = live.last.seq

(* A completed end is a success with every phase of a passage behind it.     *)
Succeeded(l) == l.code = "COMPLETED" /\ l.mask = "success"

Completed(s) == SummaryValid(s) /\ Succeeded(live.last)
Terminated(s) ==
    \/ SignedTermination(s)
    \/ SummaryValid(s) /\ (live.last.code = "TERMINATED" \/ live.last.mask = "failsafe")

Answer(s) ==
    CASE NothingKnown(s)                        -> "pending"
      [] ~NothingKnown(s) /\ Terminated(s)      -> "terminated"
      [] ~NothingKnown(s) /\ ~Terminated(s) /\ Completed(s) /\ Idle -> "complete"
      [] OTHER -> IF "RELAY_ON" \in Codes(s) THEN "relay_active"
                  ELSE IF "PROVED" \in Codes(s) THEN "armed" ELSE "pending"

NextAuthReady(s) ==
    /\ ~NothingKnown(s)
    /\ \/ TerminationReady(s)
       \/ Idle /\ SummaryValid(s) /\ (Completed(s) \/ Terminated(s))

-----------------------------------------------------------------------------
\* Whatever was lost, came late or was overwritten by another session or
\* another boot, a phone that is told of an end is told the one its own session
\* had, and it is told to present itself again only when its session is over.
\* (_personal_access_session: terminal_ref_matches, status_boot_aligned,
\* terminal_event_consistent.)
AnswerIsTrue ==
    \A s \in Sessions :
      /\ Answer(s) = "complete" => fate[s] = "completed"
      /\ Answer(s) = "terminated" => fate[s] = "terminated"
      /\ NextAuthReady(s) => fate[s] \in {"completed", "terminated"}
=============================================================================
