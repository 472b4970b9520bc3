------------------------------ MODULE Migrations ------------------------------
(***************************************************************************)
(* Opening the controller database: Store::open and migrate_to_current.    *)
(* A process reads the schema version OUTSIDE any transaction, copies the  *)
(* database to a private backup, and only then applies every migration     *)
(* above the version it read, in one transaction.  Between the steps any   *)
(* other process may open, upgrade and use the same database, and a        *)
(* process may be killed.                                                  *)
(*                                                                         *)
(* A database is its recorded versions, its tables, and for each versioned *)
(* JSON column the form of its rows.  A migration is an operator on        *)
(* databases; one that fails clears "ok", and the transaction rolls back.  *)
(***************************************************************************)
EXTENDS Integers, FiniteSets

CONSTANTS Openers,          \* processes that open the database
          OldDatabases,     \* versions the database may have at the start
          MaxOpens          \* openings of one process

Current == 28

Columns == {"selector", "snapshot", "observation", "run", "bundle", "alert",
            "host", "metadata", "attempt", "audit", "rollup"}

\* A converted column is "none" (its table is missing or empty), "legacy" (rows
\* of the form written before its migration), "v1" (rows of the closed form) or
\* "bad" (rows no conversion accepts).

VARIABLES file,      \* whether the database file exists
          db,        \* the committed database
          opener,    \* each process: where it is and what it has read
          copies,    \* backup files: the database in them, and if complete
          upgrades   \* history: databases that a committed upgrade replaced

migrateVars == <<file, db, opener, copies, upgrades>>

Blank == [ok |-> TRUE, versions |-> {}, tables |-> {}, strict |-> FALSE,
          form |-> [c \in Columns |-> "none"]]

Broken(d) == [d EXCEPT !.ok = FALSE]

-----------------------------------------------------------------------------
(* The statements migrations are made of.                                  *)

\* CREATE TABLE IF NOT EXISTS
Ensures(d, tables) == [d EXCEPT !.tables = @ \cup tables]

\* CREATE TABLE
Creates(d, tables) ==
    IF tables \cap d.tables # {} THEN Broken(d) ELSE Ensures(d, tables)

\* Every row of a column read, closed v1 rows kept, exact legacy rows
\* rewritten as v1, anything else refused.
Converts(d, column) ==
    CASE d.form[column] = "bad"    -> Broken(d)
      [] d.form[column] = "legacy" -> [d EXCEPT !.form[column] = "v1"]
      [] OTHER                     -> d

\* A detail column wrapped from the row's relational fields; a row that is
\* wrapped already has a key the envelope does not know.
Wraps(d, column) ==
    IF d.form[column] = "v1" THEN Broken(d) ELSE Converts(d, column)

\* read_schema_version
Version(d) == CHOOSE v \in {0} \cup d.versions : \A w \in d.versions : w <= v

-----------------------------------------------------------------------------
(* The migrations.                                                         *)

apply_0001(d) == Ensures(d, {"schema_migrations", "nodes", "controller_audit_log"})

apply_0002(d) == Ensures(d, {"enrollment_tokens", "join_requests"})

apply_0003(d) == Ensures(d, {"endpoint_trust"})

Observability == {"observability_jobs", "observability_runs",
                  "probe_observations", "health_snapshots", "alert_events"}

apply_0004(d) == Ensures(d, Observability)

\* Tables rebuilt under constraints old rows may violate.
apply_0005(d) ==
    CASE d.strict                           -> d
      [] ~(Observability \subseteq d.tables) -> Broken(d)
      [] \E c \in {"observation", "run", "snapshot"} : d.form[c] = "bad" -> Broken(d)
      [] OTHER                              -> [d EXCEPT !.strict = TRUE]

apply_0006(d) == Ensures(d, {"retention_policies"})

apply_0007(d) == Ensures(d, {"health_policy"})

apply_0008(d) == Ensures(d, {"alert_hooks", "alert_delivery_attempts"})

apply_0009(d) == Converts(d, "selector")

apply_0010(d) == Converts(d, "snapshot")

apply_0011(d) == Converts(d, "observation")

apply_0012(d) == Converts(d, "run")

apply_0013(d) == Converts(d, "bundle")

apply_0014(d) == Converts(d, "alert")

apply_0015(d) == Converts(d, "host")

apply_0016(d) == Converts(d, "metadata")

\* Detail computed anew from the relational columns, whatever it was.
apply_0017(d) == Converts(d, "attempt")

apply_0018(d) == Wraps(d, "audit")

apply_0019(d) == Creates(d, {"scheduler_job_claims"})

apply_0020(d) == Creates(d, {"scheduler_maintenance"})

apply_0021(d) == Creates(d, {"health_evaluation_runs"})

apply_0022(d) == Creates(d, {"alert_delivery_queue"})

apply_0023(d) == Creates(d, {"health_history"})

apply_0024(d) == Creates(d, {"health_rollups"})

\* DROP TABLE IF EXISTS, then CREATE: the derived rows are lost.
apply_0025(d) == [Ensures(d, {"health_rollups"}) EXCEPT !.form["rollup"] = "none"]

apply_0026(d) == Creates(d, {"node_metadata", "node_maintenance_windows"})

apply_0027(d) == Creates(d, {"node_capability_snapshots"})

Changes == {"change_requests", "change_approvals", "write_operation_attempts",
            "write_operation_audit", "signed_bundles"}

\* Fault: the tables of the last migration created only if missing.
apply_0028_if_missing(d) == Ensures(d, Changes)

apply_0028(d) == Creates(d, Changes)

Apply(v, d) ==
    CASE v = 1  -> apply_0001(d) [] v = 2  -> apply_0002(d) [] v = 3  -> apply_0003(d)
      [] v = 4  -> apply_0004(d) [] v = 5  -> apply_0005(d) [] v = 6  -> apply_0006(d)
      [] v = 7  -> apply_0007(d) [] v = 8  -> apply_0008(d) [] v = 9  -> apply_0009(d)
      [] v = 10 -> apply_0010(d) [] v = 11 -> apply_0011(d) [] v = 12 -> apply_0012(d)
      [] v = 13 -> apply_0013(d) [] v = 14 -> apply_0014(d) [] v = 15 -> apply_0015(d)
      [] v = 16 -> apply_0016(d) [] v = 17 -> apply_0017(d) [] v = 18 -> apply_0018(d)
      [] v = 19 -> apply_0019(d) [] v = 20 -> apply_0020(d) [] v = 21 -> apply_0021(d)
      [] v = 22 -> apply_0022(d) [] v = 23 -> apply_0023(d) [] v = 24 -> apply_0024(d)
      [] v = 25 -> apply_0025(d) [] v = 26 -> apply_0026(d) [] v = 27 -> apply_0027(d)
      [] v = 28 -> apply_0028(d)

\* The database after the migrations from + 1 .. to, each recorded with
\* INSERT OR IGNORE; the first failure decides.
Migrated(d, from, to) ==
    LET up[v \in from..to] ==
            IF v = from THEN d
            ELSE LET before == up[v - 1]
                     after  == Apply(v, before)
                 IN  IF before.ok THEN [after EXCEPT !.versions = @ \cup {v}]
                     ELSE before
    IN  up[to]

-----------------------------------------------------------------------------
(* Databases a process may find.                                           *)

TableOf == [selector |-> "observability_jobs", snapshot |-> "health_snapshots",
            observation |-> "probe_observations", run |-> "observability_runs",
            bundle |-> "endpoint_trust", alert |-> "alert_events",
            host |-> "alert_hooks", metadata |-> "enrollment_tokens",
            attempt |-> "alert_delivery_attempts", audit |-> "controller_audit_log",
            rollup |-> "health_rollups"]

ConvertedBy == [selector |-> 9, snapshot |-> 10, observation |-> 11, run |-> 12,
                bundle |-> 13, alert |-> 14, host |-> 15, metadata |-> 16,
                attempt |-> 17, audit |-> 18, rollup |-> 25]

\* A database left by a binary of schema v, its columns in the form that
\* binary writes; bad holds the columns with a row no conversion accepts.
LeftBy(v, bad) ==
    LET d == IF v <= Current THEN Migrated(Blank, 0, v)
             ELSE [Migrated(Blank, 0, Current) EXCEPT !.versions = @ \cup {v}]
    IN  [d EXCEPT !.form = [c \in Columns |->
            CASE TableOf[c] \notin d.tables -> "none"
              [] v >= ConvertedBy[c]        -> "v1"
              [] c \in bad                  -> "bad"
              [] OTHER                      -> "legacy"]]

\* A database of the time before schema_migrations.
Unversioned == [Blank EXCEPT !.tables = {"nodes", "controller_audit_log"},
                             !.form["audit"] = "legacy"]

\* Whether d can be upgraded at all.
Convertible(d) == Migrated(d, Version(d), Current).ok

Closed == [at |-> "closed", seen |-> 0, created |-> FALSE, copy |-> Blank, opens |-> 0]

MigrateInit ==
    /\ \/ file = FALSE /\ db = Blank
       \/ file = TRUE /\ db = Unversioned
       \/ /\ file = TRUE
          /\ \E v \in OldDatabases, bad \in {{}, {"run"}, {"audit"}} : db = LeftBy(v, bad)
    /\ opener = [o \in Openers |-> Closed]
    /\ copies = {}
    /\ upgrades = {}

-----------------------------------------------------------------------------

Moves(o, at) == opener' = [opener EXCEPT ![o].at = at]

\* An error or a kill: the process may open again.
GivesUp(o) == opener' = [opener EXCEPT ![o] = [Closed EXCEPT !.opens = opener[o].opens]]

\* Store::open: the file created private and empty when it is missing.
Opens(o) ==
    /\ opener[o].at = "closed" /\ opener[o].opens < MaxOpens
    /\ opener' = [opener EXCEPT ![o].at = "version", ![o].created = ~file,
                                ![o].opens = @ + 1]
    /\ file' = TRUE
    /\ UNCHANGED <<db, copies, upgrades>>

\* migrate_to_current: the version is read in a transaction of its own.
ReadsVersion(o) ==
    /\ opener[o].at = "version"
    /\ LET v == Version(db)
       IN  IF v > Current THEN GivesUp(o)
           ELSE opener' = [opener EXCEPT ![o].seen = v,
                    ![o].at = IF v = Current THEN "open" ELSE "decide"]
    /\ UNCHANGED <<file, db, copies, upgrades>>

\* should_backup_before_migrate
ShouldBackup(o) ==
    \/ opener[o].seen > 0
    \/ ~opener[o].created /\ db.tables # {}

DecidesBackup(o) ==
    /\ opener[o].at = "decide"
    /\ Moves(o, IF ShouldBackup(o) THEN "copy" ELSE "apply")
    /\ UNCHANGED <<file, db, copies, upgrades>>

\* run_sqlite_backup: a consistent copy; the backup restarts when another
\* connection writes, so what is copied is the database of the last step.
CopiesDatabase(o) ==
    /\ opener[o].at = "copy"
    /\ opener' = [opener EXCEPT ![o].at = "checksum", ![o].copy = db]
    /\ copies' = copies \cup {[of |-> db, complete |-> FALSE]}
    /\ UNCHANGED <<file, db, upgrades>>

\* write_backup_checksum_file and validate_backup_outputs
WritesChecksum(o) ==
    /\ opener[o].at = "checksum"
    /\ Moves(o, "apply")
    /\ copies' = copies \cup {[of |-> opener[o].copy, complete |-> TRUE]}
    /\ UNCHANGED <<file, db, upgrades>>

\* The copy cannot be made: name taken, busy too long, disk full.  The files
\* of this attempt are removed and the open fails.
BackupFails(o) ==
    /\ opener[o].at \in {"copy", "checksum"}
    /\ GivesUp(o)
    /\ UNCHANGED <<file, db, copies, upgrades>>

\* apply_pending_migrations: everything above the version read earlier, on
\* the database as it is now.
AppliesMigrations(o) ==
    /\ opener[o].at = "apply"
    /\ LET next == Migrated(db, opener[o].seen, Current)
       IN  IF next.ok
           THEN /\ db' = next
                /\ upgrades' = upgrades \cup {db}
                /\ Moves(o, "open")
           ELSE /\ GivesUp(o)
                /\ UNCHANGED <<db, upgrades>>
    /\ UNCHANGED <<file, copies>>

\* The transaction loses its lock, fails an integrity check or dies with the
\* process: nothing of it is left.
ApplyRollsBack(o) ==
    /\ opener[o].at = "apply"
    /\ GivesUp(o)
    /\ UNCHANGED <<file, db, copies, upgrades>>

\* An open store writes rows of the current form.
WritesRows(o) ==
    /\ opener[o].at = "open"
    /\ \E c \in {"run", "audit", "rollup"} :
          db.form[c] = "none" /\ db' = [db EXCEPT !.form[c] = "v1"]
    /\ UNCHANGED <<file, opener, copies, upgrades>>

\* The process ends or is killed; an unfinished backup file stays.
Closes(o) ==
    /\ opener[o].at # "closed"
    /\ GivesUp(o)
    /\ UNCHANGED <<file, db, copies, upgrades>>

MigrateNext ==
    \E o \in Openers :
       \/ Opens(o) \/ ReadsVersion(o) \/ DecidesBackup(o)
       \/ CopiesDatabase(o) \/ WritesChecksum(o) \/ BackupFails(o)
       \/ AppliesMigrations(o) \/ ApplyRollsBack(o) \/ WritesRows(o) \/ Closes(o)

MigrateSpec == MigrateInit /\ [][MigrateNext]_migrateVars

-----------------------------------------------------------------------------
(* Properties.                                                             *)

\* However many processes upgrade the database together from versions they
\* read earlier: at most one upgrade commits, the result is exactly the current
\* schema with every row in its closed form (apply_pending_migrations trusts a
\* version read before its transaction, and must not apply a migration to a
\* database that has it), and a complete backup holds exactly the database that
\* the upgrade replaced, unless that had no tables.
UpgradedOnce ==
    /\ Cardinality(upgrades) <= 1
    /\ \A d \in upgrades :
          /\ Version(d) < Current /\ Convertible(d)
          /\ d.tables # {} => [of |-> d, complete |-> TRUE] \in copies
    /\ \A o \in Openers : opener[o].at = "open" =>
          /\ db.tables = Migrated(Blank, 0, Current).tables
          /\ db.versions = 1..Current
          /\ \A c \in Columns : db.form[c] \in {"none", "v1"}

=============================================================================
