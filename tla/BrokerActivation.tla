-------------------------- MODULE BrokerActivation --------------------------
(***************************************************************************)
(* The NAS gateway that puts an authenticated broker in the place of the   *)
(* anonymous one: scripts/nas_broker_ops/broker_ops.py (receive, stage,    *)
(* the locked worker) and activate.py (replacement of the broker and of    *)
(* the collector by new containers, the retained stopped originals, the    *)
(* journal of the transaction, rollback).                                  *)
(*                                                                         *)
(* A container is [svc, name, id, up]: name 0 is the service's operating   *)
(* name, name n > 0 the backup name drawn by activation n; id 0 is the     *)
(* container that was there first, id n the one activation n created.      *)
(* Restart policies and mounts are left out.  A job can end at any point   *)
(* (power, SIGKILL, the 300 s alarm, a Docker call that fails or that      *)
(* fails after it took effect).                                            *)
(***************************************************************************)
EXTENDS Naturals, Sequences

CONSTANTS Inputs,         \* versions of the bundle the operator may send, 1..n
          Versioned,      \* those that name the installed device versions
          MaxActivations  \* bound on activations that get to change something

VARIABLES containers, \* what Docker knows
          incoming,   \* the bundle INCOMING points to, 0: none
          stage,      \* stage-evidence.json: the input it validated, 0: absent
          current,    \* current.json: activations from newest to oldest
          pending,    \* pending.json: <<>> or <<the transaction>>
          job,        \* the worker that holds maintenance.lock
          drawn       \* backup names drawn so far (uuid4 in the code)

bvars == <<containers, incoming, stage, current, pending, job, drawn>>

Services == {"mosquitto", "telegraf"}
Idle == [op |-> "none", at |-> "-", svc |-> "-", n |-> 0, todo |-> <<>>]

Held(s, name) == {k \in containers : k.svc = s /\ k.name = name}
HeldBy(s, name, id) == \E k \in Held(s, name) : k.id = id
Serving(s) == \E k \in Held(s, 0) : k.up
\* What activate() demands before it writes anything: the preflight observes
\* the devices through the running broker, docker top finds the collector.
Healthy == \A s \in Services : Serving(s)

At(step) == job.at = step
Go(step) == job' = [job EXCEPT !.at = step]

Replace(k, l) == containers' = (containers \ {k}) \cup {l}
BringUp(s) == \E k \in Held(s, 0) : Replace(k, [k EXCEPT !.up = TRUE])

Init == /\ containers = {[svc |-> s, name |-> 0, id |-> 0, up |-> TRUE] : s \in Services}
        /\ incoming = 0 /\ stage = 0
        /\ current = <<>> /\ pending = <<>>
        /\ job = Idle /\ drawn = 0

-----------------------------------------------------------------------------
(* receive: the complete bundle, then the pointer, then a stage that        *)
(* belongs to another bundle is removed, unless the process ends before.    *)
Receive(i, cut) ==
    /\ job = Idle
    /\ incoming' = i
    /\ stage' = IF incoming # i /\ ~cut THEN 0 ELSE stage
    /\ UNCHANGED <<containers, current, pending, job, drawn>>

(* main: the lock is free and no worker is live, so a worker is started.    *)
Submit(op) ==
    /\ job = Idle /\ incoming # 0
    /\ job' = [Idle EXCEPT !.op = op, !.at = "begin"]
    /\ UNCHANGED <<containers, incoming, stage, current, pending, drawn>>

(* stage: the former evidence goes first; the new one names the input whose *)
(* sixteen handshakes passed against a private broker.                      *)
StageBegin ==
    /\ job.op = "stage" /\ At("begin")
    /\ stage' = 0 /\ Go("probe")
    /\ UNCHANGED <<containers, incoming, current, pending, drawn>>

StageEnd ==
    /\ At("probe") /\ Serving("mosquitto")
    /\ stage' = incoming /\ job' = Idle
    /\ UNCHANGED <<containers, incoming, current, pending, drawn>>

-----------------------------------------------------------------------------
(* activate(), up to the first entry of the journal.                        *)
ApplyBegin ==
    /\ job.op = "apply" /\ At("begin")
    /\ stage # 0 /\ stage = incoming /\ incoming \in Versioned
    /\ Healthy /\ drawn < MaxActivations
    /\ pending' = <<[items |-> <<>>, prev |-> current]>>
    /\ job' = [job EXCEPT !.at = "prepare", !.svc = "mosquitto", !.n = drawn + 1]
    /\ drawn' = drawn + 1
    /\ UNCHANGED <<containers, incoming, stage, current>>

Item(s, n, id) == [svc |-> s, name |-> n, id |-> id]
Prepared(item) == <<[pending[1] EXCEPT !.items = Append(@, item)]>>

(* wait_broker_principal(): the collector is touched only when the new      *)
(* broker accepts the prepared principal.                                   *)
BrokerAnswers == job.svc = "telegraf" => Serving("mosquitto")

\* a replacement that stops the original first and records it never
PrepareUnrecorded ==
    /\ At("prepare") /\ BrokerAnswers
    /\ Held(job.svc, 0) # {}
    /\ Go("stop")
    /\ UNCHANGED <<containers, incoming, stage, current, pending, drawn>>

(* replace_container: the journal names the original before it is stopped.  *)
Prepare ==
    /\ At("prepare") /\ BrokerAnswers
    /\ \E k \in Held(job.svc, 0) : pending' = Prepared(Item(job.svc, job.n, k.id))
    /\ Go("stop")
    /\ UNCHANGED <<containers, incoming, stage, current, drawn>>

Stop ==
    /\ At("stop")
    /\ \E k \in Held(job.svc, 0) : Replace(k, [k EXCEPT !.up = FALSE])
    /\ Go("rename")
    /\ UNCHANGED <<incoming, stage, current, pending, drawn>>

Rename ==
    /\ At("rename")
    /\ \E k \in Held(job.svc, 0) : Replace(k, [k EXCEPT !.name = job.n])
    /\ Go("create")
    /\ UNCHANGED <<incoming, stage, current, pending, drawn>>

New(up) == [svc |-> job.svc, name |-> 0, id |-> job.n, up |-> up]

Create ==
    /\ At("create")
    /\ containers' = containers \cup {New(TRUE)}
    /\ job' = IF job.svc = "mosquitto"
              THEN [job EXCEPT !.at = "prepare", !.svc = "telegraf"]
              ELSE [job EXCEPT !.at = "verify"]
    /\ UNCHANGED <<incoming, stage, current, pending, drawn>>

(* Devices, readiness and collector seen again: current.json, then the      *)
(* journal goes.                                                            *)
Commit ==
    /\ At("verify") /\ Healthy
    /\ current' = <<[n |-> job.n, items |-> pending[1].items]>> \o pending[1].prev
    /\ Go("unlink")
    /\ UNCHANGED <<containers, incoming, stage, pending, drawn>>

Unlink ==
    /\ At("unlink")
    /\ pending' = <<>> /\ job' = Idle
    /\ UNCHANGED <<containers, incoming, stage, current, drawn>>

-----------------------------------------------------------------------------
(* Failures of replace_container.                                           *)
\* a stop or a rename that failed, with or without effect: the outer handler
\* starts the original again if it still has its name, and may fail at that
\* too.
Restoring == [job EXCEPT !.at = "restore", !.todo = pending[1].items]

StopFails ==
    /\ At("stop")
    /\ \E k \in Held(job.svc, 0), up \in BOOLEAN : Replace(k, [k EXCEPT !.up = up])
    /\ job' = Restoring
    /\ UNCHANGED <<incoming, stage, current, pending, drawn>>

RenameFails ==
    /\ At("rename")
    /\ \/ BringUp(job.svc)
       \/ UNCHANGED containers
       \/ \E k \in Held(job.svc, 0) : Replace(k, [k EXCEPT !.name = job.n])
    /\ job' = Restoring
    /\ UNCHANGED <<incoming, stage, current, pending, drawn>>

\* a create or start that failed: the inner handler removes the new container
\* if it can, renames the original back and starts it, and may stop short.
CreateFails ==
    /\ At("create")
    /\ \E k \in Held(job.svc, job.n) :
          \/ Replace(k, [k EXCEPT !.name = 0, !.up = TRUE])
          \/ Replace(k, [k EXCEPT !.name = 0])
          \/ containers' = containers \cup {New(FALSE)}
          \/ UNCHANGED containers
    /\ job' = Restoring
    /\ UNCHANGED <<incoming, stage, current, pending, drawn>>

\* inspect, wait_broker_principal, observe or ready failed, or the alarm went
\* off, after current.json was written perhaps.
CheckFails ==
    /\ job.op = "apply" /\ job.at \in {"prepare", "verify", "unlink"}
    /\ job' = Restoring
    /\ UNCHANGED <<containers, incoming, stage, current, pending, drawn>>

-----------------------------------------------------------------------------
(* rollback(): the journal of an interrupted activation before current.     *)
Transaction == IF pending # <<>> THEN pending[1]
               ELSE [items |-> current[1].items, prev |-> Tail(current)]

RollbackBegin ==
    /\ job.op = "rollback" /\ At("begin")
    /\ pending # <<>> \/ current # <<>>
    /\ job' = [job EXCEPT !.at = "restore", !.todo = Transaction.items]
    /\ UNCHANGED <<containers, incoming, stage, current, pending, drawn>>

(* restore_container, broker first.  Without its backup name the original   *)
(* must still be in place; with it, the replacement goes first.             *)
RestoreInPlace ==
    /\ At("restore") /\ job.todo # <<>>
    /\ LET i == Head(job.todo) IN
         /\ Held(i.svc, i.name) = {} /\ HeldBy(i.svc, 0, i.id)
         /\ BringUp(i.svc)
    /\ job' = [job EXCEPT !.todo = Tail(@)]
    /\ UNCHANGED <<incoming, stage, current, pending, drawn>>

RestoreDelete ==
    /\ At("restore") /\ job.todo # <<>>
    /\ LET i == Head(job.todo) IN
         /\ HeldBy(i.svc, i.name, i.id)
         /\ containers' = containers \ Held(i.svc, 0)
    /\ Go("rename_back")
    /\ UNCHANGED <<incoming, stage, current, pending, drawn>>

RestoreRename ==
    /\ At("rename_back")
    /\ LET i == Head(job.todo) IN
         \E k \in Held(i.svc, i.name) : Replace(k, [k EXCEPT !.name = 0])
    /\ Go("start_back")
    /\ UNCHANGED <<incoming, stage, current, pending, drawn>>

RestoreStart ==
    /\ At("start_back")
    /\ BringUp(Head(job.todo).svc)
    /\ job' = [job EXCEPT !.at = "restore", !.todo = Tail(@)]
    /\ UNCHANGED <<incoming, stage, current, pending, drawn>>

(* Everything restored: a failed activation drops its journal, a rollback   *)
(* puts the previous state back first.                                      *)
RestoreDone ==
    /\ At("restore") /\ job.todo = <<>>
    /\ IF job.op = "apply" THEN /\ pending' = <<>> /\ job' = Idle
                                /\ UNCHANGED current
       ELSE /\ current' = Transaction.prev
            /\ IF pending = <<>> THEN job' = Idle ELSE Go("unlink")
            /\ UNCHANGED pending
    /\ UNCHANGED <<containers, incoming, stage, drawn>>

(* The worker ends here: refused, out of time, killed or without power.     *)
JobEnds ==
    /\ job # Idle /\ job' = Idle
    /\ UNCHANGED <<containers, incoming, stage, current, pending, drawn>>

Next == \/ \E i \in Inputs, cut \in BOOLEAN : Receive(i, cut)
        \/ \E op \in {"stage", "apply", "rollback"} : Submit(op)
        \/ StageBegin \/ StageEnd
        \/ ApplyBegin \/ Prepare \/ Stop \/ Rename \/ Create \/ Commit \/ Unlink
        \/ StopFails \/ RenameFails \/ CreateFails \/ CheckFails
        \/ RollbackBegin \/ RestoreInPlace \/ RestoreDelete \/ RestoreRename
        \/ RestoreStart \/ RestoreDone \/ JobEnds

Spec == Init /\ [][Next]_bvars

-----------------------------------------------------------------------------
\* Whatever has happened and whenever a worker ended, a service that is not
\* running has its original within reach of the rollback an operator would
\* ask for: the record rollback() reads names it, and it stands under its
\* backup name or under the service's.  (activate.py's prepared and
\* restore_container; a journal written after the stop, or one dropped too
\* early, leaves a stopped broker nobody knows of.)
Reachable(it) ==
    \/ HeldBy(it.svc, it.name, it.id)
    \/ Held(it.svc, it.name) = {} /\ HeldBy(it.svc, 0, it.id)

WayBack ==
    \A s \in Services :
        \/ Serving(s)
        \/ /\ pending # <<>> \/ current # <<>>
           /\ \E i \in 1..Len(Transaction.items) :
                LET it == Transaction.items[i] IN it.svc = s /\ Reachable(it)

=============================================================================
