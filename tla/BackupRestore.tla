--------------------------- MODULE BackupRestore ----------------------------
(* A database backup from the running NAS to a restore that proves it:       *)
(* create_legacy_backup.sh and capture_legacy_inventory.py on the NAS,       *)
(* prepare_backup_in_wsl.py and restore_backup_in_wsl.py on the owner's      *)
(* machine, and the manifest, verification and restore of                    *)
(* ops_commercial_gate.py.                                                   *)
(*                                                                           *)
(* The API goes on writing during the backup.  A dump, an inventory and a    *)
(* restored database are the contents of the required tables; a digest       *)
(* stands for what it is taken of.  Keys, ages and the migration set only    *)
(* make a step refuse, which any step may do here.                           *)
EXTENDS Naturals, FiniteSets

CONSTANTS Tables,     \* the required tables
          Contents,   \* what a table may hold
          MaxBackups, \* bound on backups begun
          Restorers   \* runs of the restore against one lab

VARIABLES db,       \* the live database
          backup,   \* the backup under way
          begun,    \* backups begun
          bundles,  \* complete bundles: [id, dump, inventory, source]
          work,     \* extraction directories: bundle id -> how far it got
          lab,      \* the restore container, its volume and what is in it
          restore,  \* step of each restorer and the files it was given
          passed    \* results written: [restored, source]

rvars == <<db, backup, begun, bundles, work, lab, restore, passed>>
nas == <<db, backup, begun, bundles>>

Empty == [t \in Tables |-> "absent"]
NoBackup == [at |-> "none", before |-> Empty, dump |-> Empty]
Off == [at |-> "off", dump |-> 0, manifest |-> 0]
Of(i) == CHOOSE b \in bundles : b.id = i

Init == /\ db \in [Tables -> Contents]
        /\ backup = NoBackup /\ begun = 0 /\ bundles = {}
        /\ work = [i \in 1..MaxBackups |-> "none"]
        /\ lab = [volume |-> FALSE, container |-> FALSE, db |-> Empty]
        /\ restore = [r \in Restorers |-> Off] /\ passed = {}

-----------------------------------------------------------------------------
(* The legacy API never stops.                                              *)
Write ==
    /\ \E t \in Tables, v \in Contents : db' = [db EXCEPT ![t] = v]
    /\ UNCHANGED <<backup, begun, bundles, work, lab, restore, passed>>

(* capture_legacy_inventory.py: one read-only transaction with a consistent *)
(* snapshot over all tables.                                                *)
Inventory == db

Before ==
    /\ backup.at = "none" /\ begun < MaxBackups
    /\ begun' = begun + 1
    /\ backup' = [NoBackup EXCEPT !.at = "dump", !.before = Inventory]
    /\ UNCHANGED <<db, bundles, work, lab, restore, passed>>

(* mariadb-dump --single-transaction.                                       *)
Dump ==
    /\ backup.at = "dump"
    /\ backup' = [backup EXCEPT !.at = "after", !.dump = db]
    /\ UNCHANGED <<db, begun, bundles, work, lab, restore, passed>>

\* a backup that compares nothing with what the tables held before
AnyAfter == backup.at = "after"

(* The second inventory, byte by byte the first; then the bundle.           *)
Unchanged == backup.at = "after" /\ Inventory = backup.before

After ==
    /\ Unchanged
    /\ bundles' = bundles \cup {[id |-> begun, dump |-> backup.dump,
                                 inventory |-> backup.before, source |-> Inventory]}
    /\ backup' = NoBackup
    /\ UNCHANGED <<db, begun, work, lab, restore, passed>>

(* Refused, failed or interrupted: the staging directory goes.              *)
BackupEnds ==
    /\ backup.at # "none" /\ backup' = NoBackup
    /\ UNCHANGED <<db, begun, bundles, work, lab, restore, passed>>

-----------------------------------------------------------------------------
(* prepare_backup_in_wsl.py: a directory of its own for each backup, never   *)
(* one that exists; members, manifest and the encrypted bundle in it.  A run *)
(* that ends early leaves the directory, and the next one is refused.        *)
Extract ==
    /\ \E b \in bundles : work[b.id] = "none" /\ work' = [work EXCEPT ![b.id] = "extracted"]
    /\ UNCHANGED <<nas, lab, restore, passed>>

Manifest ==
    /\ \E i \in DOMAIN work :
         work[i] = "extracted" /\ work' = [work EXCEPT ![i] = "manifest"]
    /\ UNCHANGED <<nas, lab, restore, passed>>

Encrypt ==
    /\ \E i \in DOMAIN work :
         work[i] = "manifest" /\ work' = [work EXCEPT ![i] = "encrypted"]
    /\ UNCHANGED <<nas, lab, restore, passed>>

Ready == {i \in DOMAIN work : work[i] \in {"manifest", "encrypted"}}

-----------------------------------------------------------------------------
To(r, step) == restore' = [restore EXCEPT ![r].at = step]
At(r, step) == restore[r].at = step

(* verify_backup(): the dump is the one the manifest was made for.           *)
Verified(d, m) == Of(d).dump = Of(m).dump

(* restore_backup_in_wsl.py: no container and no volume of that name, a dump *)
(* and a manifest that belong together.                                      *)
RestoreBegins(r) ==
    /\ At(r, "off") /\ ~lab.container /\ ~lab.volume
    /\ \E d, m \in Ready :
         /\ Verified(d, m)
         /\ restore' = [restore EXCEPT ![r] = [at |-> "volume", dump |-> d, manifest |-> m]]
    /\ UNCHANGED <<nas, work, lab, passed>>

\* docker volume create accepts a volume that exists; docker run refuses a
\* name that is taken.
CreateVolume(r) ==
    /\ At(r, "volume") /\ To(r, "run")
    /\ lab' = [lab EXCEPT !.volume = TRUE]
    /\ UNCHANGED <<nas, work, passed>>

RunContainer(r) ==
    /\ At(r, "run")
    /\ IF lab.container THEN To(r, "off") /\ UNCHANGED lab
       ELSE To(r, "empty") /\ lab' = [lab EXCEPT !.container = TRUE, !.volume = TRUE]
    /\ UNCHANGED <<nas, work, passed>>

(* restore_and_verify_database(): an empty database, the import, the check.  *)
EmptyTarget(r) ==
    /\ At(r, "empty") /\ lab.container
    /\ To(r, IF lab.db = Empty THEN "import" ELSE "off")
    /\ UNCHANGED <<nas, work, lab, passed>>

\* the client may stop anywhere, by itself or at the deadline
Import(r) ==
    /\ At(r, "import") /\ lab.container
    /\ \/ /\ lab' = [lab EXCEPT !.db = Of(restore[r].dump).dump] /\ To(r, "check")
       \/ /\ \E S \in SUBSET Tables :
               lab' = [lab EXCEPT !.db = [t \in Tables |->
                          IF t \in S THEN Of(restore[r].dump).dump[t] ELSE lab.db[t]]]
          /\ To(r, "off")
    /\ UNCHANGED <<nas, work, passed>>

(* verify_restored_database(): the inventory of the restored tables.        *)
SameInventory(r) == lab.db = Of(restore[r].manifest).inventory

Pass(r) ==
    /\ At(r, "check") /\ lab.container /\ To(r, "off")
    /\ IF SameInventory(r)
       THEN passed' = passed \cup {[restored |-> lab.db, source |-> Of(restore[r].manifest).source]}
       ELSE UNCHANGED passed
    /\ UNCHANGED <<nas, work, lab>>

(* Refused, timed out or interrupted: what was created stays for diagnosis. *)
RestoreEnds(r) ==
    /\ restore[r].at # "off" /\ restore' = [restore EXCEPT ![r] = Off]
    /\ UNCHANGED <<nas, work, lab, passed>>

(* The owner removes the lab, the volume with it or later.                   *)
OwnerClears ==
    /\ \/ lab.container /\ lab' = [lab EXCEPT !.container = FALSE]
       \/ /\ lab.volume /\ ~lab.container
          /\ lab' = [volume |-> FALSE, container |-> FALSE, db |-> Empty]
    /\ \A r \in Restorers : restore[r].at \notin {"empty", "import", "check"}
    /\ UNCHANGED <<nas, work, restore, passed>>

Next == \/ Write \/ Before \/ Dump \/ After \/ BackupEnds
        \/ Extract \/ Manifest \/ Encrypt \/ OwnerClears
        \/ \E r \in Restorers :
             \/ RestoreBegins(r) \/ CreateVolume(r) \/ RunContainer(r) \/ EmptyTarget(r)
             \/ Import(r) \/ Pass(r) \/ RestoreEnds(r)

Spec == Init /\ [][Next]_rvars

-----------------------------------------------------------------------------
\* A restore that passes proves that nothing committed before the backup was
\* complete is lost: its tables are those the source held when the second
\* inventory was taken, whatever was written, undone or mixed up meanwhile.
\* (create_legacy_backup.sh compares the inventories, verify_restored_database
\* compares the restored tables with them; neither would do alone.)
PassLosesNothing == \A p \in passed : p.restored = p.source
=============================================================================
