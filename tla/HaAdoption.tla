----------------------------- MODULE HaAdoption -----------------------------
(***************************************************************************)
(* Home Assistant is given its own broker account: the gateway of          *)
(* scripts/nas_ha_ops/ha_ops.py and the operator ops/ha_mqtt_adoption.py   *)
(* with its three processes, each of which may stop HA, write its          *)
(* configuration and start it again: the worker that adopts, the watchdog  *)
(* forked beside it, and a later rollback job of the gateway.              *)
(*                                                                         *)
(* Left out: refresh-logging, diagnose, verify and status, which change    *)
(* neither HA nor its files, and the contents of the configuration beyond  *)
(* whose identity it holds.  Only the worker is ever killed from outside:  *)
(* the watchdog ends by the worker's hand, the rollback job by its alarm,  *)
(* which runs the `finally` of restore.  A NAS without power is left out.  *)
(***************************************************************************)
EXTENDS Naturals, FiniteSets

CONSTANTS MaxAdoptions,   \* bound on adoptions started
          StopMayTimeOut  \* actors whose docker stop may fail after it worked

(* After the worker comes the watchdog.  After the watchdog, or a rollback   *)
(* job beside it, comes nobody: a stop or a start of theirs that fails for   *)
(* good is left to the operator, and left out.                               *)
AdoptionAssumption == StopMayTimeOut \subseteq {"worker"}

VARIABLES running,   \* the HA container runs
          config,    \* identity in core.config_entries: "old", "new", "other"
          private,   \* .storage has mode 0700
          candidate, \* candidate.json is in the work directory
          journal,   \* journal.json of the latest work directory
          pc,        \* where each actor is, "off" if it is not alive
          broker,    \* current.json of the broker gateway exists
          adoptions

hvars == <<running, config, private, candidate, journal, pc, broker, adoptions>>

Actors == {"worker", "watchdog", "rollback"}
NoJournal == [completed |-> FALSE, restored |-> FALSE]

Alive(a) == pc[a] # "off"
At(a, step) == pc[a] = step
Go(a, step) == pc' = [pc EXCEPT ![a] = step]
HaFiles == <<config, private, candidate>>

Init == /\ running = TRUE /\ config = "old" /\ private = FALSE
        /\ candidate = FALSE /\ journal = NoJournal
        /\ pc = [a \in Actors |-> "off"]
        /\ broker = FALSE /\ adoptions = 0

-----------------------------------------------------------------------------
(* The gateway's guards: adopt does nothing after a completed adoption and  *)
(* refuses while its observer lives.                                        *)
Admitted ==
    /\ ~Alive("rollback")
    /\ ~(journal.completed /\ ~journal.restored)
    /\ ~Alive("worker")

(* preflight(): a running HA with the configuration that was captured.      *)
Preflight == running /\ config = "old"

(* start_session(): the lock that worker and watchdog inherit, the journal  *)
(* and the two processes.                                                   *)
Adopt ==
    /\ Admitted /\ Preflight
    /\ ~Alive("watchdog") /\ adoptions < MaxAdoptions
    /\ journal' = NoJournal /\ candidate' = FALSE
    /\ pc' = [pc EXCEPT !["worker"] = "stop", !["watchdog"] = "asleep"]
    /\ adoptions' = adoptions + 1
    /\ UNCHANGED <<running, config, private, broker>>

(* adopt() of the operator: stop, snapshot and candidate, private directory, *)
(* new identity, start, wait for the named connection, complete.             *)
HaStops ==
    /\ At("worker", "stop") /\ running' = FALSE
    /\ Go("worker", "snapshot")
    /\ UNCHANGED <<HaFiles, journal, broker, adoptions>>

Snapshot ==
    /\ At("worker", "snapshot") /\ config = "old"
    /\ candidate' = TRUE /\ Go("worker", "close")
    /\ UNCHANGED <<running, config, private, journal, broker, adoptions>>

CloseDirectory ==
    /\ At("worker", "close") /\ private' = TRUE /\ Go("worker", "install")
    /\ UNCHANGED <<running, config, candidate, journal, broker, adoptions>>

Install ==
    /\ At("worker", "install") /\ config' = "new" /\ Go("worker", "launch")
    /\ UNCHANGED <<running, private, candidate, journal, broker, adoptions>>

HaStarts ==
    /\ At("worker", "launch") /\ running' = TRUE
    /\ Go("worker", "observe")
    /\ UNCHANGED <<HaFiles, journal, broker, adoptions>>

(* The broker's log names the new identity after the start.                 *)
Witnessed == running /\ config = "new"

Complete ==
    /\ At("worker", "observe") /\ Witnessed
    /\ journal' = [journal EXCEPT !.completed = TRUE]
    /\ Go("worker", "call_off")
    /\ UNCHANGED <<running, HaFiles, broker, adoptions>>

(* The worker that is through, or restored, ends the watchdog and leaves.   *)
CallOff ==
    /\ At("worker", "call_off")
    /\ pc' = [pc EXCEPT !["worker"] = "off", !["watchdog"] = "off"]
    /\ UNCHANGED <<running, HaFiles, journal, broker, adoptions>>

(* Any exception in adopt(): restore.                                       *)
Fails ==
    /\ pc["worker"] \in {"stop", "snapshot", "close", "install", "launch", "observe"}
    /\ running' \in IF At("worker", "stop") /\ "worker" \in StopMayTimeOut
                    THEN {running, FALSE} ELSE {running}
    /\ Go("worker", "begin")
    /\ UNCHANGED <<HaFiles, journal, broker, adoptions>>

(* A Home Assistant that runs may rewrite the identity in its own file.     *)
HaRewrites ==
    /\ running /\ config = "new" /\ config' = "other"
    /\ UNCHANGED <<running, private, candidate, journal, pc, broker, adoptions>>

-----------------------------------------------------------------------------
(* restore(): stop, old identity, then the old directory mode, start, and   *)
(* last the journal.  It is run by each of the three.                       *)
RestoreBegins(a) ==
    /\ At(a, "begin")
    /\ IF running THEN Go(a, "stop_again") ELSE Go(a, "put_back")
    /\ UNCHANGED <<running, HaFiles, journal, broker, adoptions>>

RestoreStops(a) ==
    /\ At(a, "stop_again")
    /\ \/ running' = FALSE /\ Go(a, "put_back")
       \/ a \in StopMayTimeOut /\ running' = FALSE /\ Go(a, "off")
    /\ UNCHANGED <<HaFiles, journal, broker, adoptions>>

PutBack(a) ==
    /\ At(a, "put_back")
    /\ IF candidate /\ config # "other"
       THEN config' = "old" /\ Go(a, "open")
       ELSE UNCHANGED config /\ Go(a, IF candidate THEN "start_only" ELSE "start")
    /\ UNCHANGED <<running, private, candidate, journal, broker, adoptions>>

OpenDirectory(a) ==
    /\ At(a, "open") /\ private' = FALSE /\ Go(a, "start")
    /\ UNCHANGED <<running, config, candidate, journal, broker, adoptions>>

(* Whoever is not through: the worker leaves it to the watchdog.            *)
GivesUp(a) == Go(a, IF a = "worker" THEN "leave" ELSE "off")

(* An identity somebody else wrote stays; HA is started all the same.       *)
StartAgain(a) ==
    /\ running' = TRUE
    /\ \/ At(a, "start") /\ Go(a, "confirm")
       \/ At(a, "start_only") /\ GivesUp(a)
    /\ UNCHANGED <<HaFiles, journal, broker, adoptions>>

Confirm(a) ==
    /\ At(a, "confirm")
    /\ IF running
       THEN /\ journal' = [journal EXCEPT !.restored = TRUE]
            /\ Go(a, IF a = "worker" THEN "call_off" ELSE "off")
       ELSE UNCHANGED journal /\ GivesUp(a)
    /\ UNCHANGED <<running, HaFiles, broker, adoptions>>

(* A worker whose restore failed leaves the watchdog to it.                 *)
Leave ==
    /\ At("worker", "leave") /\ Go("worker", "off")
    /\ UNCHANGED <<running, HaFiles, journal, broker, adoptions>>

-----------------------------------------------------------------------------
(* watchdog_recover(), 300 s after the fork: the journal is read, then the  *)
(* worker killed, then HA restored.                                         *)
WatchdogReads ==
    /\ At("watchdog", "asleep")
    /\ Go("watchdog", IF journal.completed \/ journal.restored THEN "off" ELSE "kill")
    /\ UNCHANGED <<running, HaFiles, journal, broker, adoptions>>

\* a watchdog that gives the worker's own restore the benefit of the doubt
WatchdogWaits ==
    /\ At("watchdog", "kill") /\ ~Alive("worker")
    /\ Go("watchdog", "off")
    /\ UNCHANGED <<running, HaFiles, journal, broker, adoptions>>

WatchdogKills ==
    /\ At("watchdog", "kill")
    /\ pc' = [pc EXCEPT !["worker"] = "off", !["watchdog"] = "begin"]
    /\ UNCHANGED <<running, HaFiles, journal, broker, adoptions>>

(* ha_ops rollback: not while the authenticated broker is on record, only a *)
(* completed adoption that was not restored yet.                            *)
Rollback ==
    /\ ~Alive("rollback") /\ ~broker
    /\ journal.completed /\ ~journal.restored
    /\ Go("rollback", "begin")
    /\ UNCHANGED <<running, HaFiles, journal, broker, adoptions>>

(* The worker is killed; the watchdog stays.                                *)
Killed ==
    /\ Alive("worker") /\ Go("worker", "off")
    /\ UNCHANGED <<running, HaFiles, journal, broker, adoptions>>

(* The other gateway installs or removes the authenticated broker.          *)
BrokerTurns ==
    /\ broker' = ~broker
    /\ UNCHANGED <<running, HaFiles, journal, pc, adoptions>>

Next == \/ Adopt \/ HaStops \/ Snapshot \/ CloseDirectory \/ Install \/ HaStarts
        \/ Complete \/ CallOff
        \/ Fails \/ HaRewrites \/ Leave \/ Killed
        \/ \E a \in Actors : \/ RestoreBegins(a) \/ RestoreStops(a) \/ PutBack(a)
                             \/ OpenDirectory(a) \/ StartAgain(a) \/ Confirm(a)
        \/ WatchdogReads \/ WatchdogKills \/ Rollback \/ BrokerTurns

Spec == Init /\ [][Next]_hvars

-----------------------------------------------------------------------------
\* Whoever is interrupted, and however the three processes overlap, a stopped
\* Home Assistant has somebody who will start it: an actor under way, the
\* watchdog, or a rollback the gateway would admit once the broker is back.
\* (finally: started(original) of restore; watchdog_recover.)
HaComesBack ==
    \/ running
    \/ \E a \in Actors : Alive(a)
    \/ journal.completed /\ ~journal.restored

\* The new password is in HA's configuration only while its directory is
\* closed to others, in every step of an adoption and of any restore.
CredentialIsPrivate == config # "old" => private

\* What an adoption, cut short anywhere, leaves behind.
AdoptionIsSafe == HaComesBack /\ CredentialIsPrivate
=============================================================================
