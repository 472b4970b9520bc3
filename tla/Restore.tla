------------------------------- MODULE Restore -------------------------------
(***************************************************************************)
(* `restore apply` of backup.rs over the files of the controller's           *)
(* directory: the database and its WAL and SHM sidecars, the staged copy,    *)
(* the files moved aside, the lock file and the managed backups.  Every      *)
(* rename and removal is a step, any step may fail, and the process may be   *)
(* killed between two of them.  Two restores may be started at once: both    *)
(* make their plan before either takes the lock.  As the runbook demands,    *)
(* no other controller process has the database open.                        *)
(***************************************************************************)
EXTENDS Integers, Sequences, FiniteSets

CONSTANTS Appliers, ManagedBackups, LiveContent, NoEntry

ASSUME RestoreAssumption == NoEntry \notin Appliers

\* `abandoned` has the databases killed restores left under their rollback
\* names; `original` is what the target path first held, for the properties.
VARIABLES target, aside, stage, lockFile, prebackups, applier, abandoned, original

restoreVars == <<target, aside, stage, lockFile, prebackups, applier, abandoned, original>>

\* The files that move together.
PartNames == {"db", "wal", "shm"}

NoFiles == [p \in PartNames |-> NoEntry]

Contents == ManagedBackups \cup {LiveContent, NoEntry}

\* The steps of putting back, a removal and a rename for each file, and of
\* removing what was moved aside.
UndoStep == [db |-> "undo_db", wal |-> "undo_wal", shm |-> "undo_shm"]
BackStep == [db |-> "back_db", wal |-> "back_wal", shm |-> "back_shm"]
DropStep == [db |-> "drop_db", wal |-> "drop_wal", shm |-> "drop_shm"]

RestoreSteps ==
  {"ready", "planned", "prebackup", "stage", "db", "wal", "shm", "install", "check",
   "undo_db", "back_db", "undo_wal", "back_wal", "undo_shm", "back_shm",
   "drop_db", "drop_wal", "drop_shm", "tidy", "unlock"}

\* "undone" is the error that says "original state restored".
RestoreOutcomes == {"none", "refused", "failed", "undone", "stuck", "done", "killed"}

\* `had` is history: the database at the path when the renames began.
ApplierRow == [at : RestoreSteps, manifest : ManagedBackups \cup {NoEntry}, existed : BOOLEAN,
               had : Contents, outcome : RestoreOutcomes]

RestoreReady == [at |-> "ready", manifest |-> NoEntry, existed |-> FALSE, had |-> NoEntry,
                 outcome |-> "none"]

Sidecars == {"wal", "shm"}

\* A database that was not closed cleanly leaves its sidecars.
RestoreInit ==
  /\ target \in {NoFiles} \cup {[p \in PartNames |-> IF p \in {"db"} \cup left
                                                     THEN LiveContent ELSE NoEntry] :
                                left \in SUBSET Sidecars}
  /\ aside = [a \in Appliers |-> NoFiles]
  /\ stage = [a \in Appliers |-> NoEntry]
  /\ lockFile = NoEntry
  /\ prebackups = {}
  /\ applier = [a \in Appliers |-> RestoreReady]
  /\ abandoned = {}
  /\ original = target["db"]

At(a, where) == applier[a].at = where
Goes(a, where) == applier' = [applier EXCEPT ![a].at = where]

-----------------------------------------------------------------------------
\* plan_restore: the manifest passes verify_backup, and the command notes
\* whether there is a database to replace.
RestorePlans(a, m) ==
  /\ At(a, "ready") /\ applier[a].outcome = "none"
  /\ applier' = [applier EXCEPT ![a] =
       [at |-> "planned", manifest |-> m, existed |-> target["db"] # NoEntry,
        had |-> NoEntry, outcome |-> "none"]]
  /\ UNCHANGED <<target, aside, stage, lockFile, prebackups>>

\* verify_backup: checksum, integrity, schema or signature of the backup does
\* not hold, and the command ends before it has touched a file.
RestoreRefused(a) ==
  /\ At(a, "ready") /\ applier[a].outcome = "none"
  /\ applier' = [applier EXCEPT ![a].outcome = "refused"]
  /\ UNCHANGED <<target, aside, stage, lockFile, prebackups>>

\* The lock is a file that must not exist yet.
RestoreLocks(a) ==
  /\ At(a, "planned")
  /\ IF lockFile = NoEntry
     THEN lockFile' = a /\ Goes(a, "prebackup")
     ELSE /\ applier' = [applier EXCEPT ![a].at = "ready", ![a].outcome = "refused"]
          /\ UNCHANGED lockFile
  /\ UNCHANGED <<target, aside, stage, prebackups>>

\* create_backup of the database the plan saw; what the database holds, its
\* WAL included, is copied online.
Prebackup(a) ==
  prebackups' = IF applier[a].existed THEN prebackups \cup {target["db"]} ELSE prebackups

\* The closure of apply_restore returns; what is left is to tidy up.
RestoreEnds(a, outcome) ==
  applier' = [applier EXCEPT ![a].at = "tidy", ![a].outcome = outcome]

\* The end of apply_restore: the staged copy and then the lock are removed;
\* that a removal fails is ignored.
RestoreTidies(a) ==
  /\ At(a, "tidy")
  /\ stage' \in {stage, [stage EXCEPT ![a] = NoEntry]}
  /\ Goes(a, "unlock")
  /\ UNCHANGED <<target, aside, lockFile, prebackups>>

RestoreUnlocks(a) ==
  /\ At(a, "unlock")
  /\ lockFile' \in {lockFile, NoEntry}
  /\ Goes(a, "ready")
  /\ UNCHANGED <<target, aside, stage, prebackups>>

\* create_backup needs the database it was told of.
RestorePrebackups(a) ==
  /\ At(a, "prebackup")
  /\ \/ /\ applier[a].existed => target["db"] # NoEntry
        /\ Prebackup(a) /\ Goes(a, "stage")
     \/ RestoreEnds(a, "failed") /\ UNCHANGED prebackups
  /\ UNCHANGED <<target, aside, stage, lockFile>>

\* copy_private_file, append_restore_audit and the checks of the staged copy.
RestoreStages(a) ==
  /\ At(a, "stage")
  /\ \/ /\ stage' = [stage EXCEPT ![a] = applier[a].manifest]
        /\ applier' = [applier EXCEPT ![a].at = "db", ![a].had = target["db"]]
     \/ RestoreEnds(a, "failed") /\ UNCHANGED stage
  /\ UNCHANGED <<target, aside, lockFile, prebackups>>

\* Fault: the staged copy is renamed without moving the sidecars aside.
SidecarsStay(p) == "install"

\* The order of the renames: the database, its sidecars, then the staged copy.
StepAfterMove(p) == IF p = "db" THEN "wal" ELSE IF p = "wal" THEN "shm" ELSE "install"

\* One rename to the rollback path, of what is there (the database only if
\* the plan saw one).
RestoreMovesAside(a) ==
  \E p \in PartNames :
    /\ At(a, p)
    /\ \/ /\ LET moves == target[p] # NoEntry /\ (p = "db" => applier[a].existed) IN
             /\ target' = IF moves THEN [target EXCEPT ![p] = NoEntry] ELSE target
             /\ aside' = IF moves THEN [aside EXCEPT ![a][p] = target[p]] ELSE aside
          /\ p = "db" /\ applier[a].existed => target["db"] # NoEntry
          /\ Goes(a, StepAfterMove(p))
       \/ Goes(a, "undo_db") /\ UNCHANGED <<target, aside>>
    /\ UNCHANGED <<stage, lockFile, prebackups>>

\* The rename of the staged copy onto the database path.
RestoreInstalls(a) ==
  /\ At(a, "install")
  /\ \/ /\ target' = [target EXCEPT !["db"] = stage[a]]
        /\ stage' = [stage EXCEPT ![a] = NoEntry]
        /\ Goes(a, "check")
     \/ Goes(a, "undo_db") /\ UNCHANGED <<target, stage>>
  /\ UNCHANGED <<aside, lockFile, prebackups>>

\* The synced directory, the integrity and the schema of what is installed.
RestoreChecks(a) ==
  /\ At(a, "check")
  /\ Goes(a, "drop_db") \/ Goes(a, "undo_db")
  /\ UNCHANGED <<target, aside, stage, lockFile, prebackups>>

\* The next file to put back, or the end: the directory is synced, or not.
UndoneWith(a, p) ==
  IF p = "db" THEN Goes(a, "undo_wal")
  ELSE IF p = "wal" THEN Goes(a, "undo_shm")
  ELSE RestoreEnds(a, "undone") \/ RestoreEnds(a, "stuck")

\* restore_original_files, once for each file: what is at the path is removed,
\* for a sidecar only when one was moved aside.  An error ends the command.
RestoreUndoes(a) ==
  \E p \in PartNames :
    /\ At(a, UndoStep[p])
    /\ \/ /\ p = "db" \/ aside[a][p] # NoEntry
          /\ target' = [target EXCEPT ![p] = NoEntry]
          /\ Goes(a, BackStep[p])
       \/ /\ p # "db" /\ aside[a][p] = NoEntry
          /\ UndoneWith(a, p)
          /\ UNCHANGED target
       \/ RestoreEnds(a, "stuck") /\ UNCHANGED target
    /\ UNCHANGED <<aside, stage, lockFile, prebackups>>

\* Then what was moved aside, if anything, comes back.
RestorePutsBack(a) ==
  \E p \in PartNames :
    /\ At(a, BackStep[p])
    /\ \/ /\ target' = [target EXCEPT ![p] = aside[a][p]]
          /\ aside' = [aside EXCEPT ![a][p] = NoEntry]
          /\ UndoneWith(a, p)
       \/ RestoreEnds(a, "stuck") /\ UNCHANGED <<target, aside>>
    /\ UNCHANGED <<stage, lockFile, prebackups>>

\* What was moved aside is removed; only for a sidecar does a failure count,
\* and at last that of syncing the directory.
RestoreDrops(a) ==
  \E p \in PartNames :
    LET next == IF p = "db" THEN "drop_wal" ELSE "drop_shm" IN
    /\ At(a, DropStep[p])
    /\ \/ /\ aside' = [aside EXCEPT ![a][p] = NoEntry]
          /\ IF p = "shm" THEN RestoreEnds(a, "done") \/ RestoreEnds(a, "failed") ELSE Goes(a, next)
       \/ p = "db" /\ Goes(a, next) /\ UNCHANGED aside
       \/ p # "db" /\ RestoreEnds(a, "failed") /\ UNCHANGED aside
    /\ UNCHANGED <<target, stage, lockFile, prebackups>>

\* A killed process leaves its lock, its staged copy and what it moved aside.
RestoreKilled(a) ==
  /\ ~At(a, "ready")
  /\ applier' = [applier EXCEPT ![a].at = "ready", ![a].outcome = "killed"]
  /\ UNCHANGED <<target, aside, stage, lockFile, prebackups>>

\* The operator removes the lock a killed restore left, and starts again: the
\* file names of the new restore are new.
RestoreRetried(a) ==
  /\ At(a, "ready") /\ applier[a].outcome = "killed"
  /\ lockFile' = IF lockFile = a THEN NoEntry ELSE lockFile
  /\ applier' = [applier EXCEPT ![a] = RestoreReady]
  /\ stage' = [stage EXCEPT ![a] = NoEntry]
  /\ aside' = [aside EXCEPT ![a] = NoFiles]
  /\ abandoned' = abandoned \cup {aside[a]["db"]}
  /\ UNCHANGED <<target, prebackups>>

RestoreNext ==
  /\ \E a \in Appliers :
       \/ RestoreRetried(a)
       \/ /\ \/ \E m \in ManagedBackups : RestorePlans(a, m)
             \/ RestoreRefused(a) \/ RestoreLocks(a) \/ RestorePrebackups(a) \/ RestoreStages(a)
             \/ RestoreMovesAside(a) \/ RestoreInstalls(a) \/ RestoreChecks(a)
             \/ RestoreUndoes(a) \/ RestorePutsBack(a) \/ RestoreDrops(a)
             \/ RestoreTidies(a) \/ RestoreUnlocks(a) \/ RestoreKilled(a)
          /\ UNCHANGED abandoned
  /\ UNCHANGED original

RestoreSpec == RestoreInit /\ [][RestoreNext]_restoreVars

-----------------------------------------------------------------------------
RestoreTypeOK ==
  /\ target \in [PartNames -> Contents]
  /\ aside \in [Appliers -> [PartNames -> Contents]]
  /\ stage \in [Appliers -> Contents]
  /\ lockFile \in Appliers \cup {NoEntry}
  /\ prebackups \in SUBSET Contents
  /\ applier \in [Appliers -> ApplierRow]
  /\ abandoned \in SUBSET Contents
  /\ original \in Contents

\* Wherever restores stop, by an error or a kill, and however they overlap or
\* are started again: a database at the target path is never beside a WAL or SHM
\* file of another database, which SQLite would take for its own; and what the
\* path first held is never gone, it is there, moved aside, or in a managed
\* backup made before the replacement.  (It need not be back at the path: see
\* UndoneIsRestored.)
RestoreLosesNothing ==
  /\ \A p \in Sidecars :
       target["db"] # NoEntry /\ target[p] # NoEntry => target[p] = target["db"]
  /\ original # NoEntry =>
       original \in {target["db"]} \cup prebackups \cup abandoned
                      \cup {aside[a]["db"] : a \in Appliers}

\* A restore that ends with "original state restored" has the database at the
\* path that was there before its renames.  (a6-backup-restore-inventory.md: any
\* move failure "restores the prior database".)  The code does not keep this:
\* when the first rename fails, restore_original_files removes the database that
\* was never moved.
UndoneIsRestored ==
  \A a \in Appliers :
    At(a, "tidy") /\ applier[a].outcome = "undone" => target["db"] = applier[a].had

\* Two files that are both there belong to one database.
SameDatabase(x, y) == x # NoEntry /\ y # NoEntry => x = y

\* A restore past its plan holds the lock file.
LockHeld == \A a \in Appliers : applier[a].at \notin {"ready", "planned"} => lockFile = a

\* What the path first held is in a managed backup; or it is still there, every
\* restore under way saw it, and none is past its own backup.
OriginalKept ==
  original # NoEntry =>
    \/ original \in prebackups
    \/ /\ target["db"] = original
       /\ \A a \in Appliers :
            /\ applier[a].at \in {"ready", "planned", "prebackup", "tidy", "unlock"}
            /\ applier[a].at # "ready" => applier[a].existed

\* What a restore has moved aside, and what it has yet to move, is of one
\* database, so that undoing it at any step puts matching files back; and no
\* sidecar is left when the staged copy comes.
MovedTogether(a) ==
  LET at == applier[a].at IN
  /\ at \in {"planned", "prebackup", "stage", "db"} => aside[a] = NoFiles
  /\ at = "ready" /\ applier[a].outcome = "none" => aside[a] = NoFiles
  /\ at \in {"tidy", "unlock"} => applier[a].outcome # "none"
  /\ at \in {"wal", "shm", "install", "check", "undo_db", "back_db"} =>
       \A p \in Sidecars : /\ SameDatabase(aside[a]["db"], aside[a][p])
                           /\ SameDatabase(aside[a]["db"], target[p])
  /\ at = "back_db" => target["db"] = NoEntry
  /\ at \in {"undo_wal", "back_wal", "undo_shm", "back_shm"} =>
       \A p \in Sidecars : SameDatabase(target["db"], aside[a][p])
  /\ at \in {"shm", "install", "check"} => target["wal"] = NoEntry
  /\ at \in {"install", "check"} => target["shm"] = NoEntry

FilesTogether ==
  /\ \A p \in Sidecars : SameDatabase(target["db"], target[p])
  /\ \A a \in Appliers : MovedTogether(a)

\* The inductive invariant of `restore apply`.
RestoreInv == LockHeld /\ OriginalKept /\ FilesTogether
=============================================================================
