---------------------------- MODULE Maintenance ----------------------------
(***************************************************************************)
(* Signed maintenance of the NAS: the gateway scripts/nas_maintenance/     *)
(* gateway.py, which runs one authorised script at a time, and the script  *)
(* it exists for, recover_dockerd.py, which restarts the Docker daemon     *)
(* under eight running containers.                                         *)
(*                                                                         *)
(* Every request carries that script with `apply' of the prepared plan.    *)
(* Left out: signatures, the read-only commands, `prepare', the contents   *)
(* of plan and receipts.  Workers are not killed from outside; the alarm   *)
(* may end a submit at any of its steps.                                   *)
(***************************************************************************)
EXTENDS Naturals, FiniteSets

CONSTANT Requests  \* request identities, positive numbers

MaintenanceAssumption == 0 \notin Requests

VARIABLES submit,     \* step of the submit of each request
          worker,     \* step of its worker, "none" before the launch
          job,        \* state in job.json, "none" while there is no file
          pid,        \* job.json names a process
          latest,     \* latest.json, 0 while there is none
          lock,       \* queue.lock: submit of r is holding it, or 0
          loose,      \* history: workers no submit had recorded, see SubmitCut
          config,     \* dockerd.json asks for live-restore
          effective,  \* the daemon has live-restore in effect
          journal,    \* last phase of journal.json, "none" before any
          daemon,     \* "old", "stopping" or "new"
          containers, \* the containers survived so far
          restarts    \* restarts of the daemon asked for

gateway == <<submit, worker, job, pid, latest, lock, loose>>
docker == <<config, effective, journal, daemon, containers, restarts>>
mvars == <<gateway, docker>>

ScriptSteps == {"check", "drift", "journal", "install", "reload", "wait", "verified",
                "requested", "restart", "observe", "undo", "undo_reload", "undo_notify"}
Script(r) == worker[r] \in ScriptSteps
To(r, step) == worker' = [worker EXCEPT ![r] = step]

Init == /\ submit = [r \in Requests |-> "idle"] /\ worker = [r \in Requests |-> "none"]
        /\ job = [r \in Requests |-> "none"] /\ pid = [r \in Requests |-> FALSE]
        /\ latest = 0 /\ lock = 0 /\ loose = {}
        /\ config = FALSE /\ effective = FALSE /\ journal = "none"
        /\ daemon = "old" /\ containers = TRUE /\ restarts = 0

-----------------------------------------------------------------------------

(* live() of the request latest.json names.                                 *)
Live ==
    /\ latest # 0
    /\ job[latest] \in {"queued", "running"} /\ pid[latest]
    /\ worker[latest] \notin {"none", "ended"}

(* submit(): under the lock, no directory of this request and nobody alive. *)
(* Then directory, job, pointer, process and process number, in that order. *)
SubmitBegins(r) ==
    /\ submit[r] = "idle" /\ lock = 0 /\ ~Live
    /\ lock' = r /\ submit' = [submit EXCEPT ![r] = "queue"]
    /\ UNCHANGED <<worker, job, pid, latest, loose, docker>>

SubmitSteps(r) ==
    /\ \/ /\ submit[r] = "queue" /\ submit' = [submit EXCEPT ![r] = "point"]
          /\ job' = [job EXCEPT ![r] = "queued"]
          /\ UNCHANGED <<worker, pid, latest, lock>>
       \/ /\ submit[r] = "point" /\ submit' = [submit EXCEPT ![r] = "launch"]
          /\ latest' = r
          /\ UNCHANGED <<worker, job, pid, lock>>
       \/ /\ submit[r] = "launch" /\ submit' = [submit EXCEPT ![r] = "pid"]
          /\ To(r, "started")
          /\ UNCHANGED <<job, pid, latest, lock>>
       \/ /\ submit[r] = "pid" /\ submit' = [submit EXCEPT ![r] = "through"]
          /\ pid' = [pid EXCEPT ![r] = TRUE] /\ lock' = 0
          /\ UNCHANGED <<worker, job, latest>>
    /\ UNCHANGED <<loose, docker>>

(* SIGALRM after 20 s, or a lost connection: the lock goes, the files stay.  *)
(* Cut before it has the process number on record, the submit leaves a       *)
(* worker loose that live() does not find.                                   *)
SubmitCut(r) ==
    /\ lock = r /\ lock' = 0 /\ submit' = [submit EXCEPT ![r] = "through"]
    /\ loose' = IF submit[r] = "pid" THEN loose \cup {r} ELSE loose
    /\ UNCHANGED <<worker, job, pid, latest, docker>>

(* worker(): running under the lock, then the envelope is validated again    *)
(* (it may have expired), and the script is started.  A loose worker records *)
(* its number here, which live() finds if latest.json is still its own.      *)
WorkerRuns(r) ==
    /\ worker[r] = "started" /\ lock = 0
    /\ job' = [job EXCEPT ![r] = "running"] /\ pid' = [pid EXCEPT ![r] = TRUE]
    /\ To(r, "validate")
    /\ loose' = IF latest = r THEN loose \ {r} ELSE loose
    /\ UNCHANGED <<submit, latest, lock, docker>>

Execute(r) ==
    /\ worker[r] = "validate"
    /\ \/ To(r, "check") \/ To(r, "save")
    /\ UNCHANGED <<submit, job, pid, latest, lock, loose, docker>>

(* The script ran into its timeout: its process group is killed where it is. *)
ScriptTimesOut(r) ==
    /\ Script(r) /\ To(r, "save")
    /\ UNCHANGED <<submit, job, pid, latest, lock, loose, docker>>

WorkerEnds(r) ==
    /\ worker[r] = "save" /\ To(r, "ended")
    /\ job' = [job EXCEPT ![r] = "ended"]
    /\ UNCHANGED <<submit, pid, latest, lock, loose, docker>>

-----------------------------------------------------------------------------
(* recover_dockerd.py apply: no attempt on record, the configuration and     *)
(* the daemon of the plan.                                                   *)
Fresh == journal = "none"

Check(r) ==
    /\ worker[r] = "check"
    /\ To(r, IF Fresh THEN "drift" ELSE "save")
    /\ UNCHANGED <<submit, job, pid, latest, lock, loose, docker>>

Drift(r) ==
    /\ worker[r] = "drift"
    /\ \/ ~config /\ daemon = "old" /\ To(r, "journal")
       \/ To(r, "save")
    /\ UNCHANGED <<submit, job, pid, latest, lock, loose, docker>>

Validated(r) ==
    /\ worker[r] = "journal" /\ journal' = "validated" /\ To(r, "install")
    /\ UNCHANGED <<submit, job, pid, latest, lock, loose, config, effective, daemon, containers, restarts>>

InstallCandidate(r) ==
    /\ worker[r] = "install" /\ config' = TRUE /\ To(r, "reload")
    /\ UNCHANGED <<submit, job, pid, latest, lock, loose, effective, journal, daemon, containers, restarts>>

(* systemctl reload, which may fail or leave the daemon as it was.           *)
Reload(r) ==
    /\ worker[r] = "reload"
    /\ \/ To(r, "wait") /\ effective' \in {effective, config}
       \/ To(r, "undo") /\ UNCHANGED effective
    /\ UNCHANGED <<submit, job, pid, latest, lock, loose, config, journal, daemon, containers, restarts>>

\* a script that takes the reload's word for live-restore
Impatient(r) ==
    /\ worker[r] = "wait" /\ (To(r, "verified") \/ To(r, "undo"))
    /\ UNCHANGED <<submit, job, pid, latest, lock, loose, docker>>

(* Twenty seconds for live-restore and the same containers as in the plan.   *)
Activated(r) ==
    /\ worker[r] = "wait"
    /\ \/ effective /\ To(r, "verified")
       \/ To(r, "undo")
    /\ UNCHANGED <<submit, job, pid, latest, lock, loose, docker>>

Undo(r) ==
    /\ \/ /\ worker[r] = "undo" /\ To(r, "undo_reload")
          /\ config' = FALSE /\ UNCHANGED <<effective, journal>>
       \/ /\ worker[r] = "undo_reload"
          /\ \/ To(r, "undo_notify") /\ effective' \in {effective, config}
             \/ To(r, "save") /\ UNCHANGED effective
          /\ UNCHANGED <<config, journal>>
       \/ /\ worker[r] = "undo_notify" /\ To(r, "save")
          /\ journal' = "pre_restart_failed" /\ UNCHANGED <<config, effective>>
    /\ UNCHANGED <<submit, job, pid, latest, lock, loose, daemon, containers, restarts>>

(* live_restore_verified, restart_requested, and only then the restart.      *)
Announce(r) ==
    /\ \/ worker[r] = "verified" /\ To(r, "requested") /\ journal' = "live_restore_verified"
       \/ worker[r] = "requested" /\ To(r, "restart") /\ journal' = "restart_requested"
    /\ UNCHANGED <<submit, job, pid, latest, lock, loose, config, effective, daemon, containers, restarts>>

Restart(r) ==
    /\ worker[r] = "restart" /\ To(r, "observe")
    /\ daemon' = "stopping" /\ restarts' = restarts + 1
    /\ UNCHANGED <<submit, job, pid, latest, lock, loose, config, effective, journal, containers>>

(* The daemon ends by itself or, still deactivating after 30 s, by SIGKILL;  *)
(* systemd starts the next one with the file as it is then.                  *)
DaemonTurns ==
    /\ daemon = "stopping" /\ daemon' = "new"
    /\ containers' = (containers /\ effective) /\ effective' = config
    /\ UNCHANGED <<gateway, config, journal, restarts>>

ForceKilled(r) ==
    /\ worker[r] = "observe" /\ daemon = "stopping" /\ daemon' = "new"
    /\ containers' = (containers /\ effective) /\ effective' = config
    /\ journal' = "stopping_daemon_forced"
    /\ UNCHANGED <<gateway, config, restarts>>

Observed(r) ==
    /\ worker[r] = "observe" /\ To(r, "save")
    /\ \/ daemon = "new" /\ effective /\ journal' = "verified"
       \/ UNCHANGED journal
    /\ UNCHANGED <<submit, job, pid, latest, lock, loose, config, effective, daemon, containers, restarts>>

Next == \/ DaemonTurns
        \/ \E r \in Requests :
             \/ SubmitBegins(r) \/ SubmitSteps(r) \/ SubmitCut(r)
             \/ WorkerRuns(r) \/ Execute(r) \/ ScriptTimesOut(r) \/ WorkerEnds(r)
             \/ Check(r) \/ Drift(r) \/ Validated(r) \/ InstallCandidate(r)
             \/ Reload(r) \/ Activated(r) \/ Undo(r) \/ Announce(r)
             \/ Restart(r) \/ ForceKilled(r) \/ Observed(r)

Spec == Init /\ [][Next]_mvars

-----------------------------------------------------------------------------
\* Two authorised scripts run at the same time only if one of them belongs to
\* a worker cut loose, which a later submit went past: whatever other submit
\* its alarm cuts short, and however a worker waits for the lock.
\* (submit: current and live(current); worker: LOCK_EX.)
ScriptsAlone ==
    \A r, s \in Requests : Script(r) /\ Script(s) => r = s \/ r \in loose \/ s \in loose

\* As long as no such worker has had its turn, the daemon is asked to restart
\* once at most, and it ends only with live-restore in effect: attempts that
\* fail, time out at any step or follow one another never take a container
\* down.  (recover: refuse a journal, wait for LiveRestoreEnabled, roll back
\* before the restart and never after it.)
ContainersSurvive ==
    (\A r \in loose : worker[r] = "started") => containers /\ restarts <= 1

\* What the maintenance gateway and its script together keep to.
MaintenanceIsSafe == ScriptsAlone /\ ContainersSurvive

\* "One active maintenance worker" (wiki/signed_nas_maintenance.md:18): two
\* workers never have their turn at the same time.
OneActiveWorker ==
    LET Active(r) == worker[r] \notin {"none", "started", "ended"}
    IN  \A r, s \in Requests : Active(r) /\ Active(s) => r = s
=============================================================================
