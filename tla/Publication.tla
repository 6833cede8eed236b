---------------------------- MODULE Publication ----------------------------
(***************************************************************************)
(* The two publishers of scripts/ota_contract_gate.py that write the NAS   *)
(* over SFTP: publish_target_sftp (a pointer version.json beside immutable *)
(* firmware) and publish_mobile_sftp (a fixed APK and a fixed manifest in  *)
(* a fallback and a primary directory).                                    *)
(*                                                                         *)
(* A build is a commit with its build number.  A workflow that is run      *)
(* again builds other bytes for the same commit: a take.  <<b, t>> is the  *)
(* identity and the bytes of an artifact or of the manifest that is bound  *)
(* to it.  Each publisher is serialised by its concurrency group, so one   *)
(* job at a time runs, and any step of a job may be its last.  The two     *)
(* write disjoint directories: a behaviour follows one of them (lane).     *)
(*                                                                         *)
(* Nothing serialises the mobile publisher with release_to_production of   *)
(* build_app.yml, which copies an APK and a manifest over the fixed files  *)
(* of the primary directory, reads nothing and keeps nothing.  Its like    *)
(* for the firmware is switched off (deploy.yml, "false &&"), so nobody    *)
(* else moves the Target pointer.                                          *)
(***************************************************************************)
EXTENDS Naturals, FiniteSets

CONSTANTS Builds, Takes,
          Released    \* what release_to_production uploads

BuildsAssumption == /\ Builds \subseteq Nat \ {0} /\ Takes \subseteq Nat \ {0}
                    /\ Released \subseteq Builds \X Takes

VARIABLES lane,     \* "target" or "mobile"
          kept,     \* [directory -> [build -> take]]: the immutable files
          pointer,  \* target: version.json
          served,   \* mobile: the fixed APK and manifest of a directory
          job,      \* the publisher that runs, or one at rest
          upload    \* history: an upload over the primary directory since the
                    \* run has read both ("unread"), or since it has but before
                    \* it has read the manifest again ("read"), or "none"

vars == <<lane, kept, pointer, served, job, upload>>

None == <<0, 0>>
Broken == <<0, 1>>  \* a part of a file, or signed with another key
Pairs == Builds \X Takes
Number(p) == p[1]
Take(p) == p[2]

Target == "target"
History == "target_history"
Mobiles == {"fallback", "primary"}
Directories == {Target, History} \union Mobiles

Nothing == [apk |-> None, manifest |-> None]
Pair(p) == [apk |-> p, manifest |-> p]

(* _validate_remote_mobile_pair: the manifest binds the APK beside it      *)
ValidPair(s) == s.manifest \notin {None, Broken} /\ s.apk = s.manifest

Idle == [pc |-> "idle", cand |-> None, bytes |-> None, at |-> Target,
         first |-> [d \in Mobiles |-> Nothing], old |-> None]

Init == /\ lane \in {"target", "mobile"}
        /\ kept = [d \in Directories |-> [b \in Builds |-> 0]]
        /\ pointer = None
        /\ served \in [Mobiles -> {Nothing} \union {Pair(p) : p \in Pairs}]
        /\ lane = "target" => served = [d \in Mobiles |-> Nothing]
        /\ job = Idle
        /\ upload = "none"

-----------------------------------------------------------------------------
(* What a run is given, and how it reads the directory                      *)

(* create_target_manifest and create_mobile_manifest bind the manifest to  *)
(* one artifact; a run may be handed another one.                           *)
Handed == [manifest : Pairs, bytes : Pairs]

(* verify_target_manifest, verify_mobile_manifest                           *)
AnyBytes(h) == Number(h.bytes) = Number(h.manifest)
Bound(h) == h.bytes = h.manifest

(* _target_pointer_decision: nothing to replace, the same, or an older one *)
Upgrade(p, cand) == p = None \/ Number(p) < Number(cand)

(* _mobile_pair_decision over _read_mobile_sftp_root_state: an APK without *)
(* a manifest is refused, and so is a manifest that cannot be verified; a  *)
(* signed manifest is a floor even when its APK does not match, and an     *)
(* equal build only passes as the same valid pair.                         *)
Publishable(s, cand) ==
    /\ s.manifest = None => s.apk = None
    /\ s.manifest # Broken
    /\ \/ Upgrade(s.manifest, cand)
       \/ s.manifest = cand /\ ValidPair(s)

(* _preflight_mobile_sftp_roots: both directories before either is written *)
BothRootsPass(cand) == \A d \in Mobiles : Publishable(served[d], cand)

(* _place_immutable_sftp_bytes and _preserve_immutable_sftp_bytes: a name  *)
(* that holds other bytes is a conflict; a name that holds these is left.  *)
Placeable(d, p) == kept[d][Number(p)] \in {0, Take(p)}
Placed(d, p) == [kept EXCEPT ![d][Number(p)] = Take(p)]

-----------------------------------------------------------------------------
(* publish_target_sftp                                                      *)

(* verify, read the pointer, decide, stage with read-back.  `old` is the    *)
(* pointer this run has read.                                               *)
BeginTarget ==
    /\ lane = "target" /\ job.pc = "idle"
    /\ \E h \in Handed :
         /\ Bound(h)
         /\ pointer = h.manifest \/ Upgrade(pointer, h.manifest)
         /\ job' = [Idle EXCEPT !.pc = "place", !.cand = h.manifest,
                                !.bytes = h.bytes, !.old = pointer]
    /\ UNCHANGED <<lane, kept, pointer, served, upload>>

(* The immutable firmware; a run that found its own pointer ends here.      *)
PlaceArtifact ==
    /\ lane = "target" /\ job.pc = "place" /\ Placeable(Target, job.bytes)
    /\ kept' = Placed(Target, job.bytes)
    /\ job' = IF job.old = job.cand THEN Idle ELSE [job EXCEPT !.pc = "history"]
    /\ UNCHANGED <<lane, pointer, served, upload>>

(* The immutable manifest of the candidate, then that of the build the      *)
(* pointer named: two files of one directory.                               *)
PlaceManifests ==
    /\ lane = "target" /\ job.pc = "history" /\ Placeable(History, job.cand)
    /\ \/ kept' = Placed(History, job.cand) /\ job' = Idle
       \/ /\ job.old # None => Placeable(History, job.old)
          /\ kept' = [kept EXCEPT ![History] =
                        [b \in Builds |-> IF b = Number(job.cand) THEN Take(job.cand)
                                          ELSE IF b = Number(job.old) THEN Take(job.old)
                                          ELSE @[b]]]
          /\ job' = [job EXCEPT !.pc = "check"]
    /\ UNCHANGED <<lane, pointer, served, upload>>

(* The second reading of the pointer: only the first value lets the run     *)
(* go on, its own candidate makes it the idempotent loser of a race.  With  *)
(* the other writer switched off it finds what the first has found.         *)
StillThere == job.old = pointer

CheckPointer ==
    /\ lane = "target" /\ job.pc = "check"
    /\ job' = IF StillThere THEN [job EXCEPT !.pc = "swap"] ELSE Idle
    /\ UNCHANGED <<lane, kept, pointer, served, upload>>

(* posix_rename of the staged pointer; a failure that is reported may still *)
(* have moved the file.                                                     *)
SwapPointer ==
    /\ lane = "target" /\ job.pc = "swap"
    /\ pointer' \in {pointer, job.cand}
    /\ job' = Idle
    /\ UNCHANGED <<lane, kept, served, upload>>

-----------------------------------------------------------------------------
(* publish_mobile_sftp                                                      *)

(* Both floors are read first; the states read here are the ones each       *)
(* directory is published from.                                             *)
BeginMobile ==
    /\ lane = "mobile" /\ job.pc = "idle"
    /\ \E h \in Handed :
         /\ Bound(h) /\ BothRootsPass(h.manifest)
         /\ job' = [Idle EXCEPT !.pc = "place", !.cand = h.manifest, !.bytes = h.bytes,
                                !.at = "fallback", !.first = served]
    /\ upload' = "none"
    /\ UNCHANGED <<lane, kept, pointer, served>>

First == job.first[job.at]
NextRoot == IF job.at = "fallback" THEN [job EXCEPT !.pc = "place", !.at = "primary"]
                                   ELSE Idle

PlaceCandidate ==
    /\ lane = "mobile" /\ job.pc = "place" /\ Placeable(job.at, job.bytes)
    /\ kept' = Placed(job.at, job.bytes)
    /\ job' = [job EXCEPT !.pc = "keep"]
    /\ UNCHANGED <<lane, pointer, served, upload>>

(* The pair that was served becomes immutable history before it is replaced.*)
KeepPrevious ==
    /\ lane = "mobile" /\ job.pc = "keep"
    /\ ValidPair(First) => Placeable(job.at, First.apk)
    /\ kept' = IF ValidPair(First) THEN Placed(job.at, First.apk) ELSE kept
    /\ job' = IF First.manifest = job.cand THEN NextRoot ELSE [job EXCEPT !.pc = "check"]
    /\ UNCHANGED <<lane, pointer, served, upload>>

(* The second reading of the manifest: if it is another one, the run ends,  *)
(* as the loser of a race to the same build or with an error.               *)
Unread == TRUE
SameManifest == served[job.at].manifest = First.manifest

CheckManifest ==
    /\ lane = "mobile" /\ job.pc = "check"
    /\ job' = IF SameManifest THEN [job EXCEPT !.pc = "apk"] ELSE Idle
    /\ upload' = IF job.at = "primary" /\ upload = "unread" THEN "read" ELSE upload
    /\ UNCHANGED <<lane, kept, pointer, served>>

(* A promotion that fails goes back to the first pair if there was a valid  *)
(* one, and otherwise ends the run where it is.                             *)
Rollback == IF ValidPair(First) THEN [job EXCEPT !.pc = "undo_apk"] ELSE Idle

(* One posix_rename of a fixed file with its read-back: it is confirmed, or *)
(* it fails, before or after the file has moved.                            *)
Rename(renamed, done, failed) ==
    /\ \/ served' = renamed /\ job' = done
       \/ served' = renamed /\ job' = failed
       \/ served' = served /\ job' = failed
    /\ UNCHANGED <<lane, kept, pointer, upload>>

PromoteApk ==
    /\ lane = "mobile" /\ job.pc = "apk"
    /\ Rename([served EXCEPT ![job.at].apk = job.bytes], [job EXCEPT !.pc = "manifest"], Rollback)

PromoteManifest ==
    /\ lane = "mobile" /\ job.pc = "manifest"
    /\ Rename([served EXCEPT ![job.at].manifest = job.cand], NextRoot, Rollback)

UndoApk ==
    /\ lane = "mobile" /\ job.pc = "undo_apk"
    /\ Rename([served EXCEPT ![job.at].apk = First.apk], [job EXCEPT !.pc = "undo_manifest"], Idle)

UndoManifest ==
    /\ lane = "mobile" /\ job.pc = "undo_manifest"
    /\ Rename([served EXCEPT ![job.at].manifest = First.manifest], Idle, Idle)

(* release_to_production: what it has left of the fixed files of the        *)
(* primary directory when the publisher looks next, each of them its own,   *)
(* a part of it or not reached yet.  Bound: once between two readings.      *)
Upload ==
    /\ lane = "mobile" /\ upload # "unread"
    /\ \E p \in Released :
         \E apk \in {served["primary"].apk, Broken, p},
            manifest \in {served["primary"].manifest, Broken, p} :
              served' = [served EXCEPT !["primary"] = [apk |-> apk, manifest |-> manifest]]
    /\ upload' = "unread"
    /\ UNCHANGED <<lane, kept, pointer, job>>

-----------------------------------------------------------------------------
(* A conflict, a lost channel, the 30 minute limit or a cancelled workflow. *)
Stop ==
    /\ job.pc # "idle"
    /\ job' = Idle
    /\ UNCHANGED <<lane, kept, pointer, served, upload>>

Next == \/ BeginTarget \/ PlaceArtifact \/ PlaceManifests \/ CheckPointer \/ SwapPointer
        \/ BeginMobile \/ PlaceCandidate \/ KeepPrevious \/ CheckManifest
        \/ PromoteApk \/ PromoteManifest \/ UndoApk \/ UndoManifest
        \/ Upload \/ Stop

Spec == Init /\ [][Next]_vars

-----------------------------------------------------------------------------
(* Whoever follows the Target pointer finds the very bytes its signed       *)
(* manifest names, whatever runs were repeated, refused or stopped between  *)
(* the immutable file and the pointer (_publish_target_sftp_bytes).         *)
PointerHasItsArtifact ==
    pointer # None => kept[Target][Number(pointer)] = Take(pointer)

(* A run that found both mobile directories serving a valid pair leaves one *)
(* of them serving a valid pair at every instant, with failed renames,      *)
(* failed rollbacks or its end at any point (fallback first).  An upload    *)
(* over the primary may only take that away while the fallback is being     *)
(* replaced.                                                                *)
OneEndpointServes ==
    (/\ job.at \in Mobiles /\ \A d \in Mobiles : ValidPair(job.first[d])
     /\ upload = "none" \/ job.at = "primary")
        => \E d \in Mobiles : ValidPair(served[d])

(* Both readers of a publication find whole builds.                         *)
PublishedIsWhole == PointerHasItsArtifact /\ OneEndpointServes

(* The Target pointer only ever moves to a newer build, although a run has  *)
(* read it long before it writes it (_target_pointer_decision).             *)
PointerForward == pointer' # pointer => Number(pointer') > Number(pointer)

(* A valid mobile pair that a promotion breaks or replaces is in the        *)
(* directory's immutable history (the previous-pair preservation): nothing  *)
(* but an upload, or what one has left since the run has read the primary   *)
(* directory, is lost.                                                      *)
PreviousPairIsKept ==
    \A d \in Mobiles :
        (/\ ValidPair(served[d]) /\ served'[d] # served[d]
         /\ d = "fallback" \/ upload' = "none")
            => kept[d][Number(served[d].apk)] = Take(served[d].apk)

(* No directory starts to serve a build older than what the other one, or   *)
(* itself, is signed for: the partial stale publication the preflight of    *)
(* both floors is there to prevent (wiki/ota_operations_runbook.md section  *)
(* 1.2).  An upload is caught by the second reading of the manifest, unless *)
(* it comes after it.                                                       *)
NoPartialStale ==
    \A d, e \in Mobiles :
        (job.pc = "apk" /\ served'[d].apk # served[d].apk /\ upload' # "unread")
            => Number(served[e].manifest) <= Number(served'[d].apk)

(* What every step of a publisher keeps to.                                 *)
OnlyForward == PointerForward /\ PreviousPairIsKept /\ NoPartialStale
=============================================================================
