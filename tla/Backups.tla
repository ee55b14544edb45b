------------------------------- MODULE Backups -------------------------------
(***************************************************************************)
(* Local backups of the manager's database: the files of the backup        *)
(* folder, their rotation, the vault of images they share, and the restore *)
(* of one of them, which first makes a safety copy and then swaps the      *)
(* database file.                                                          *)
(*                                                                         *)
(* A database is its sales, the images it refers to, the backups it knows  *)
(* of and its schema version.  A file's name is the moment it was made.    *)
(***************************************************************************)
EXTENDS Naturals, FiniteSets

CONSTANTS
    Images,
    Keep,            \* Keep[kind]: how many backups of a kind are kept
    Latest,          \* the schema version the newest application wants
    MaxSales,        \* bound: sales
    MaxBackups,      \* bound: backup files made
    None

Kinds == {"scheduled", "manual", "premigration", "prerestore"}

BackupsAssumption ==
    /\ Keep \in [Kinds -> Nat \ {0}]
    /\ {Latest, MaxSales, MaxBackups} \subseteq Nat
    /\ None \notin Nat

VARIABLES
    store,           \* the database file: [sales, images, rows, schema]
    files,           \* the backup folder: name |-> [kind, holds, kept]
    vault, disk,     \* images in the vault, and in the image folder
    version,         \* the schema version of the installed application
    stage,           \* "open", or the restore is "copying" or "closed", or
                     \* the database is "opening"
    chosen,          \* the backup that is restored: [file, safety]
    copy,            \* its copy beside the database file
    clock,           \* names given
    swap,            \* the last restore: [was, rung, safety], or None (history)
    rung             \* sales since the safety copy (history)

folderVars == <<files, vault, clock>>
restoreVars == <<chosen, copy>>
historyVars == <<swap, rung>>
vars == <<store, folderVars, disk, version, stage, restoreVars, historyVars>>

Open == stage \in {"open", "copying"}

(* selectBackupsToDelete: the newest of a kind stay, and the new one.      *)
Kept(dir, new) ==
    {f \in DOMAIN dir :
        \/ f = new
        \/ Cardinality({g \in DOMAIN dir : dir[g].kind = dir[f].kind /\ g > f})
               < Keep[dir[f].kind]}

(* Fault: only the live database is asked which images are in use.         *)
LiveImages(live, dir) == live.images

(* collectRetainedImageDigests and referencedImageDigests.                 *)
Referenced(live, dir) == live.images \cup UNION {dir[f].holds.images : f \in DOMAIN dir}

(* copySnapshotImages: what the vault has not is taken from the disk.      *)
Filled(images) == vault \cup (images \cap disk)

(* garbageCollectImageVault.                                               *)
Collected(images, live, dir) == images \cap Referenced(live, dir)

(* createBackup: the copy is verified, the images it refers to go into the *)
(* vault as far as they are on the disk, older files rotate out, and the   *)
(* images that no file and not the database refers to are removed.         *)
BackUp(live, kind) ==
    LET name == clock + 1
        full == Filled(live.images)
        all == [f \in DOMAIN files \cup {name} |->
                   IF f = name
                   THEN [kind |-> kind, holds |-> live, kept |-> live.images \cap full]
                   ELSE files[f]]
        left == [f \in Kept(all, name) |-> all[f]]
    IN  /\ clock < MaxBackups
        /\ clock' = name
        /\ files' = left
        /\ vault' = Collected(full, live, left)

(* A copy that fails, or does not pass verifyBackup, leaves nothing behind. *)
BackupFails == UNCHANGED <<store, folderVars>>

(* The schedule, the end of the application, or "Back up now".             *)
MakeBackup(kind) ==
    /\ Open
    /\ \/ /\ BackUp(store, kind)
          /\ store' = [store EXCEPT !.rows = @ \cup {clock'}]
       \/ BackupFails
    /\ UNCHANGED <<disk, version, stage, restoreVars, historyVars>>

Sell ==
    /\ Open
    /\ store.sales < MaxSales
    /\ store' = [store EXCEPT !.sales = @ + 1]
    /\ rung' = IF stage = "copying" THEN rung + 1 ELSE rung
    /\ UNCHANGED <<folderVars, disk, version, stage, restoreVars, swap>>

(* chooseImage, fetchRemoteImage; removeImageIfUnreferenced and unlink.    *)
AddImage(i) ==
    /\ Open
    /\ i \notin store.images
    /\ store' = [store EXCEPT !.images = @ \cup {i}]
    /\ disk' = disk \cup {i}
    /\ UNCHANGED <<folderVars, version, stage, restoreVars, historyVars>>

DiscardImage(i) ==
    /\ Open
    /\ i \in store.images
    /\ store' = [store EXCEPT !.images = @ \ {i}]
    /\ disk' = disk \ {i}
    /\ UNCHANGED <<folderVars, version, stage, restoreVars, historyVars>>

LoseImage(i) ==
    /\ i \in disk
    /\ disk' = disk \ {i}
    /\ UNCHANGED <<store, folderVars, version, stage, restoreVars, historyVars>>

(* -------------------------------- Restoring ----------------------------- *)

(* listBackups: what the database remembers and the folder still has.      *)
Available == store.rows \cap DOMAIN files

(* Fault: the database is swapped out although no safety copy was made.    *)
Unguarded(made) == TRUE

Guarded(made) == made

(* backups:restore, up to the copying of the file.                         *)
BeginRestore(f) ==
    /\ stage = "open"
    /\ f \in Available
    /\ \E made \in BOOLEAN :
         /\ IF made
            THEN BackUp(store, "prerestore") /\ store' = [store EXCEPT !.rows = @ \cup {clock'}]
            ELSE BackupFails
         /\ stage' = IF Guarded(made) THEN "copying" ELSE "open"
         /\ chosen' = IF Guarded(made) THEN [file |-> f, safety |-> clock'] ELSE None
    /\ rung' = 0
    /\ UNCHANGED <<disk, version, copy, swap>>

(* copyFile; the safety copy may have rotated the chosen file out.         *)
FileCopied ==
    /\ stage = "copying"
    /\ chosen.file \in DOMAIN files
    /\ copy' = files[chosen.file].holds
    /\ stage' = "closed"
    /\ UNCHANGED <<store, folderVars, disk, version, chosen, historyVars>>

CopyFails ==
    /\ stage = "copying"
    /\ stage' = "open"
    /\ chosen' = None
    /\ UNCHANGED <<store, folderVars, disk, version, copy, historyVars>>

(* restoreImagesFromVault.                                                 *)
BroughtBack(images) == disk \cup (images \cap vault)

(* The copy takes the database's name.                                     *)
Swapped ==
    /\ stage = "closed"
    /\ store' = copy
    /\ disk' = BroughtBack(copy.images)
    /\ swap' = [was |-> store.sales, rung |-> rung, safety |-> chosen.safety]
    /\ stage' = "opening"
    /\ chosen' = None /\ copy' = None
    /\ rung' = 0
    /\ UNCHANGED <<folderVars, version>>

SwapFails ==
    /\ stage = "closed"
    /\ stage' = "opening"
    /\ chosen' = None /\ copy' = None
    /\ UNCHANGED <<store, folderVars, disk, version, historyVars>>

(* The constructor: an older database is backed up before it is migrated,  *)
(* and not opened when that fails.                                         *)
OpenDatabase ==
    /\ stage = "opening"
    /\ IF store.schema < version
       THEN /\ BackUp(store, "premigration")
            /\ store' = [store EXCEPT !.schema = version, !.rows = @ \cup {clock'}]
       ELSE UNCHANGED <<store, folderVars>>
    /\ stage' = "open"
    /\ UNCHANGED <<disk, version, restoreVars, historyVars>>

(* The process dies; the application is updated while it is closed.        *)
Crash ==
    /\ stage' = "opening"
    /\ chosen' = None /\ copy' = None
    /\ version' \in {version, Latest}
    /\ UNCHANGED <<store, folderVars, disk, historyVars>>

Init ==
    /\ version \in {Latest - 1, Latest}
    /\ store = [sales |-> 0, images |-> {}, rows |-> {}, schema |-> version]
    /\ files = <<>>
    /\ vault = {} /\ disk = {}
    /\ stage = "open"
    /\ chosen = None /\ copy = None
    /\ clock = 0
    /\ swap = None
    /\ rung = 0

Next ==
    \/ \E kind \in {"scheduled", "manual"} : MakeBackup(kind)
    \/ Sell
    \/ \E i \in Images : AddImage(i) \/ DiscardImage(i) \/ LoseImage(i)
    \/ \E f \in DOMAIN files : BeginRestore(f)
    \/ FileCopied \/ CopyFails \/ Swapped \/ SwapFails
    \/ OpenDatabase \/ Crash

Spec == Init /\ [][Next]_vars

-----------------------------------------------------------------------------
TypeOK ==
    /\ store.rows \subseteq 1..clock
    /\ DOMAIN files \subseteq 1..clock
    /\ stage \in {"open", "copying", "closed", "opening"}
    /\ \A kind \in Kinds :
         Cardinality({f \in DOMAIN files : files[f].kind = kind}) <= Keep[kind]

(* A backup that is kept can be restored with the images it was made with, *)
(* whatever was discarded, lost or rotated out since; and until another    *)
(* restore takes its place, the safety copy of the last restore holds      *)
(* every sale of the database that was swapped out, but the ones rung up   *)
(* while the chosen file was copied (createBackup,                         *)
(* garbageCollectImageVault, backups:restore).                             *)
BackupsRestore ==
    /\ \A f \in DOMAIN files : files[f].kept \subseteq vault
    /\ swap # None =>
         \/ swap.safety \in DOMAIN files /\ files[swap.safety].kind = "prerestore"
            /\ files[swap.safety].holds.sales + swap.rung = swap.was
         \/ \E f \in DOMAIN files : f > swap.safety /\ files[f].kind = "prerestore"
=============================================================================
