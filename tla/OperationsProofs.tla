-------------------------- MODULE OperationsProofs --------------------------
(***************************************************************************)
(* Proofs about the commands an operator runs on a controller: `restore     *)
(* apply` (Restore), for any number of restores and backups, the `change`   *)
(* commands (ControlledWrites), for any number of overlapping commands,     *)
(* requests and principals, the `trust policy` commands (TrustPolicy), for  *)
(* any documents, registries, reviewers and recorders, and `retention       *)
(* apply` (Retention), for any scopes, policies, limits and batch sizes.    *)
(***************************************************************************)
EXTENDS Restore, ControlledWrites, TrustPolicy, Retention, FiniteSetTheorems, TLAPS

-----------------------------------------------------------------------------
(* Restore.                                                                 *)

\* A restore that goes to another step, or ends with an outcome, keeps a
\* record of the right type.
LEMMA ApplierRows ==
  ASSUME applier \in [Appliers -> ApplierRow], NEW a \in Appliers
  PROVE  /\ \A where \in RestoreSteps : Goes(a, where) => applier' \in [Appliers -> ApplierRow]
         /\ \A outcome \in RestoreOutcomes :
              /\ RestoreEnds(a, outcome) => applier' \in [Appliers -> ApplierRow]
              /\ applier' = [applier EXCEPT ![a].at = "ready", ![a].outcome = outcome]
                   => applier' \in [Appliers -> ApplierRow]
<1>1. ASSUME NEW where \in RestoreSteps, Goes(a, where) PROVE applier' \in [Appliers -> ApplierRow]
  <2>1. [applier[a] EXCEPT !.at = where] \in ApplierRow
    BY Zenon DEF ApplierRow
  <2>2. applier' = [applier EXCEPT ![a] = [applier[a] EXCEPT !.at = where]]
    BY <1>1, Zenon DEF Goes
  <2>3. QED BY <2>1, <2>2, Zenon
<1>2. ASSUME NEW outcome \in RestoreOutcomes, NEW where \in {"ready", "tidy"},
             applier' = [applier EXCEPT ![a].at = where, ![a].outcome = outcome]
      PROVE  applier' \in [Appliers -> ApplierRow]
  <2>1. [applier[a] EXCEPT !.at = where, !.outcome = outcome] \in ApplierRow
    BY Zenon DEF ApplierRow, RestoreSteps
  <2>2. applier' = [applier EXCEPT ![a] = [applier[a] EXCEPT !.at = where, !.outcome = outcome]]
    BY <1>2, Zenon
  <2>3. QED BY <2>1, <2>2, Zenon
<1>3. QED BY <1>1, <1>2, Zenon DEF RestoreEnds

\* One file moved aside, or back, leaves a set of files of the right type.
LEMMA AsideRows ==
  ASSUME aside \in [Appliers -> [PartNames -> Contents]], NEW a \in Appliers,
         NEW p \in PartNames, NEW x \in Contents, aside' = [aside EXCEPT ![a][p] = x]
  PROVE  aside' \in [Appliers -> [PartNames -> Contents]]
<1>1. [aside[a] EXCEPT ![p] = x] \in [PartNames -> Contents]
  BY Zenon
<1>2. aside' = [aside EXCEPT ![a] = [aside[a] EXCEPT ![p] = x]]
  BY Zenon
<1>3. QED BY <1>1, <1>2, Zenon

\* Every step of `restore apply` writes values of the types its files and its
\* progress have.
LEMMA RestoreTypeStep ==
  RestoreTypeOK /\ [RestoreNext]_restoreVars => RestoreTypeOK'
<1> SUFFICES ASSUME RestoreTypeOK, [RestoreNext]_restoreVars PROVE RestoreTypeOK'
  BY Zenon
<1> USE DEF RestoreTypeOK
<1>1. CASE UNCHANGED restoreVars
  BY <1>1, Zenon DEF restoreVars
<1>2. ASSUME NEW a \in Appliers, RestoreRetried(a), UNCHANGED original PROVE RestoreTypeOK'
  <2>1. RestoreReady \in ApplierRow
    BY Zenon DEF RestoreReady, ApplierRow, RestoreSteps, RestoreOutcomes, Contents
  <2>2. NoFiles \in [PartNames -> Contents] /\ NoEntry \in Contents
    BY Zenon DEF NoFiles, Contents
  <2>3. aside[a]["db"] \in Contents
    BY Zenon DEF PartNames
  <2>4. QED BY <1>2, <2>1, <2>2, <2>3, Zenon DEF RestoreRetried
<1>3. ASSUME NEW a \in Appliers, NEW m \in ManagedBackups, RestorePlans(a, m),
             UNCHANGED <<abandoned, original>>
      PROVE  RestoreTypeOK'
  <2>1. [at |-> "planned", manifest |-> m, existed |-> target["db"] # NoEntry,
         had |-> NoEntry, outcome |-> "none"] \in ApplierRow
    BY Zenon DEF ApplierRow, RestoreSteps, RestoreOutcomes, Contents
  <2>2. QED BY <1>3, <2>1, Zenon DEF RestorePlans
<1>4. ASSUME NEW a \in Appliers, UNCHANGED <<abandoned, original>>,
             \/ RestoreRefused(a) \/ RestoreLocks(a) \/ RestoreKilled(a) \/ RestoreChecks(a)
      PROVE  RestoreTypeOK'
  <2>1. {"ready", "prebackup", "drop_db", "undo_db"} \subseteq RestoreSteps
    BY Zenon DEF RestoreSteps
  <2>2. applier' \in [Appliers -> ApplierRow]
    <3>1. CASE RestoreRefused(a)
      <4>1. [applier[a] EXCEPT !.outcome = "refused"] \in ApplierRow
        BY Zenon DEF ApplierRow, RestoreOutcomes
      <4>2. applier' = [applier EXCEPT ![a] = [applier[a] EXCEPT !.outcome = "refused"]]
        BY <3>1, Zenon DEF RestoreRefused
      <4>3. QED BY <4>1, <4>2, Zenon
    <3>2. CASE RestoreLocks(a) \/ RestoreKilled(a) \/ RestoreChecks(a)
      BY <3>2, <2>1, ApplierRows, Zenon DEF RestoreLocks, RestoreKilled, RestoreChecks, RestoreOutcomes
    <3>3. QED BY <1>4, <3>1, <3>2, Zenon
  <2>3. QED BY <1>4, <2>2, Zenon DEF RestoreRefused, RestoreLocks, RestoreKilled, RestoreChecks
<1>5. ASSUME NEW a \in Appliers, UNCHANGED <<abandoned, original>>,
             \/ RestorePrebackups(a) \/ RestoreStages(a) \/ RestoreInstalls(a)
             \/ RestoreTidies(a) \/ RestoreUnlocks(a)
      PROVE  RestoreTypeOK'
  <2>1. {"ready", "stage", "db", "check", "undo_db", "unlock"} \subseteq RestoreSteps
    BY Zenon DEF RestoreSteps
  <2>2. /\ NoEntry \in Contents /\ applier[a].manifest \in Contents
        /\ target["db"] \in Contents /\ "db" \in PartNames
    BY Zenon DEF Contents, ApplierRow, PartNames
  <2>3. applier' = [applier EXCEPT ![a].at = "db", ![a].had = target["db"]]
          => applier' \in [Appliers -> ApplierRow]
    <3> SUFFICES ASSUME applier' = [applier EXCEPT ![a].at = "db", ![a].had = target["db"]]
                 PROVE  applier' \in [Appliers -> ApplierRow]
      BY Zenon
    <3>1. [applier[a] EXCEPT !.at = "db", !.had = target["db"]] \in ApplierRow
      BY <2>1, <2>2, Zenon DEF ApplierRow
    <3>2. applier' = [applier EXCEPT ![a] = [applier[a] EXCEPT !.at = "db", !.had = target["db"]]]
      BY Zenon
    <3> QED BY <3>1, <3>2, Zenon
  <2>4. applier' \in [Appliers -> ApplierRow]
    BY <1>5, <2>1, <2>3, ApplierRows, Zenon
       DEF RestorePrebackups, RestoreStages, RestoreInstalls, RestoreTidies, RestoreUnlocks,
           RestoreOutcomes
  <2>5. QED BY <1>5, <2>2, <2>4, Zenon
               DEF RestorePrebackups, RestoreStages, RestoreInstalls, RestoreTidies, RestoreUnlocks,
                   Prebackup
<1>6. ASSUME NEW a \in Appliers, UNCHANGED <<abandoned, original>>, RestoreMovesAside(a)
      PROVE  RestoreTypeOK'
  <2>1. {"wal", "shm", "install", "undo_db"} \subseteq RestoreSteps
    BY Zenon DEF RestoreSteps
  <2>2. applier' \in [Appliers -> ApplierRow]
    BY <1>6, <2>1, ApplierRows, Zenon DEF RestoreMovesAside, StepAfterMove
  <2>3. NoEntry \in Contents
    BY Zenon DEF Contents
  <2>4. PICK p \in PartNames :
          /\ \/ UNCHANGED <<target, aside>>
             \/ /\ target' = [target EXCEPT ![p] = NoEntry]
                /\ aside' = [aside EXCEPT ![a][p] = target[p]]
          /\ UNCHANGED <<stage, lockFile, prebackups>>
    BY <1>6, Zenon DEF RestoreMovesAside
  <2>5. aside' \in [Appliers -> [PartNames -> Contents]]
    <3>1. target[p] \in Contents /\ aside \in [Appliers -> [PartNames -> Contents]]
      BY Zenon
    <3>2. QED BY <2>3, <2>4, <3>1, AsideRows, Zenon
  <2>6. QED BY <1>6, <2>2, <2>3, <2>4, <2>5
<1>7. ASSUME NEW a \in Appliers, UNCHANGED <<abandoned, original>>,
             RestoreUndoes(a) \/ RestorePutsBack(a) \/ RestoreDrops(a)
      PROVE  RestoreTypeOK'
  <2>1. {"undo_wal", "undo_shm", "back_db", "back_wal", "back_shm", "drop_wal", "drop_shm"}
          \subseteq RestoreSteps
    BY Zenon DEF RestoreSteps
  <2>2. \A p \in PartNames : BackStep[p] \in RestoreSteps
    BY <2>1 DEF PartNames, BackStep
  <2>3. applier' \in [Appliers -> ApplierRow]
    BY <1>7, <2>1, <2>2, ApplierRows, Zenon
       DEF RestoreUndoes, RestorePutsBack, RestoreDrops, UndoneWith, RestoreOutcomes
  <2>4. NoEntry \in Contents
    BY DEF Contents
  <2>5. PICK p \in PartNames :
          /\ \/ target' = target \/ target' = [target EXCEPT ![p] = NoEntry]
             \/ target' = [target EXCEPT ![p] = aside[a][p]]
          /\ aside' = aside \/ aside' = [aside EXCEPT ![a][p] = NoEntry]
          /\ UNCHANGED <<stage, lockFile, prebackups>>
    BY <1>7, Zenon DEF RestoreUndoes, RestorePutsBack, RestoreDrops
  <2>6. aside' \in [Appliers -> [PartNames -> Contents]]
    <3>1. target[p] \in Contents /\ aside \in [Appliers -> [PartNames -> Contents]]
      OBVIOUS
    <3>2. QED BY <2>4, <2>5, <3>1, AsideRows, Zenon
  <2>7. aside[a][p] \in Contents /\ target \in [PartNames -> Contents]
    BY Zenon
  <2>8. target' \in [PartNames -> Contents]
    BY <2>4, <2>5, <2>7, Zenon
  <2>9. QED BY <1>7, <2>3, <2>5, <2>6, <2>8, Zenon
<1>8. QED BY <1>1, <1>2, <1>3, <1>4, <1>5, <1>6, <1>7, Zenon DEF RestoreNext

\* A restore that has not taken the lock touches no file, and one that has
\* excludes the others: the lock file is created exclusively and removed by its
\* holder, or for a killed holder by the operator.
LEMMA LockStep ==
  RestoreTypeOK /\ LockHeld /\ [RestoreNext]_restoreVars => LockHeld'
<1> SUFFICES ASSUME RestoreTypeOK, LockHeld, [RestoreNext]_restoreVars PROVE LockHeld'
  BY Zenon
<1> USE RestoreAssumption DEF LockHeld
<1>1. CASE UNCHANGED restoreVars
  BY <1>1, Zenon DEF restoreVars
<1>2. ASSUME NEW a \in Appliers,
             \/ RestoreRetried(a) \/ \E m \in ManagedBackups : RestorePlans(a, m)
             \/ RestoreRefused(a) \/ RestoreLocks(a) \/ RestoreKilled(a) \/ RestoreChecks(a)
      PROVE  LockHeld'
  <2>1. CASE RestoreRetried(a) \/ \E m \in ManagedBackups : RestorePlans(a, m)
    <3>1. \E row : applier' = [applier EXCEPT ![a] = row] /\ row.at \in {"ready", "planned"}
      BY <2>1, Zenon DEF RestoreRetried, RestorePlans, RestoreReady
    <3>2. lockFile' = lockFile \/ lockFile = a
      BY <2>1, Zenon DEF RestoreRetried, RestorePlans
    <3>3. applier'[a].at \in {"ready", "planned"} /\ \A b \in Appliers \ {a} : applier'[b] = applier[b]
      BY <3>1, Zenon DEF RestoreTypeOK
    <3> QED BY <3>2, <3>3, Zenon
  <2>2. CASE RestoreRefused(a) \/ RestoreKilled(a)
    BY <2>2 DEF RestoreTypeOK, RestoreRefused, RestoreKilled, At, ApplierRow
  <2>3. CASE RestoreLocks(a)
    <3>1. CASE lockFile = NoEntry
      <4>1. \A b \in Appliers : applier[b].at \in {"ready", "planned"}
        BY <3>1, Zenon
      <4>2. lockFile' = a /\ applier' = [applier EXCEPT ![a].at = "prebackup"]
        BY <2>3, <3>1, Zenon DEF RestoreLocks, Goes
      <4>3. \A b \in Appliers \ {a} : applier'[b] = applier[b]
        BY <4>2, Zenon DEF RestoreTypeOK
      <4>4. QED BY <4>1, <4>2, <4>3, Zenon
    <3>2. CASE lockFile # NoEntry
      BY <2>3, <3>2 DEF RestoreTypeOK, RestoreLocks, ApplierRow
    <3>3. QED BY <3>1, <3>2, Zenon
  <2>4. CASE RestoreChecks(a)
    BY <2>4, Zenon DEF RestoreTypeOK, RestoreChecks, At, Goes, ApplierRow
  <2>5. QED BY <1>2, <2>1, <2>2, <2>3, <2>4, Zenon
<1>3. ASSUME NEW a \in Appliers,
             \/ RestorePrebackups(a) \/ RestoreStages(a) \/ RestoreInstalls(a)
             \/ RestoreTidies(a) \/ RestoreUnlocks(a)
      PROVE  LockHeld'
  <2>1. CASE RestorePrebackups(a) \/ RestoreStages(a) \/ RestoreInstalls(a)
    BY <2>1 DEF RestoreTypeOK, RestorePrebackups, RestoreStages, RestoreInstalls, RestoreEnds,
                At, Goes, ApplierRow
  <2>2. CASE RestoreTidies(a)
    BY <2>2 DEF RestoreTypeOK, RestoreTidies, At, Goes, ApplierRow
  <2>3. CASE RestoreUnlocks(a)
    <3>1. \A b \in Appliers \ {a} : applier[b].at \in {"ready", "planned"}
      BY <2>3, Zenon DEF RestoreUnlocks, At
    <3>2. applier' = [applier EXCEPT ![a].at = "ready"]
      BY <2>3, Zenon DEF RestoreUnlocks, Goes
    <3>3. \A b \in Appliers : applier'[b].at \in {"ready", "planned"}
      BY <3>1, <3>2 DEF RestoreTypeOK, ApplierRow
    <3> QED BY <3>3, Zenon
  <2> QED BY <1>3, <2>1, <2>2, <2>3, Zenon
<1>4. ASSUME NEW a \in Appliers, RestoreMovesAside(a) PROVE LockHeld'
  BY <1>4, Zenon DEF RestoreTypeOK, RestoreMovesAside, At, Goes, ApplierRow, PartNames
<1>5. ASSUME NEW a \in Appliers, RestoreUndoes(a) \/ RestorePutsBack(a) \/ RestoreDrops(a)
      PROVE  LockHeld'
  <2>1. applier[a].at \notin {"ready", "planned"}
    BY <1>5 DEF RestoreUndoes, RestorePutsBack, RestoreDrops, At, PartNames, UndoStep, BackStep,
                DropStep
  <2>2. /\ UNCHANGED lockFile
        /\ (\E where : Goes(a, where)) \/ (\E outcome : RestoreEnds(a, outcome))
    BY <1>5, Zenon DEF RestoreUndoes, RestorePutsBack, RestoreDrops, UndoneWith
  <2> QED
    BY <2>1, <2>2, SMTT(20) DEF RestoreTypeOK, Goes, RestoreEnds, ApplierRow
<1>6. QED BY <1>1, <1>2, <1>3, <1>4, <1>5, Zenon DEF RestoreNext

\* The first restore to touch the original database saw it in its plan, and so
\* backed it up first: create_backup comes before the first rename.
LEMMA OriginalStep ==
  RestoreTypeOK /\ OriginalKept /\ [RestoreNext]_restoreVars => OriginalKept'
<1> SUFFICES ASSUME RestoreTypeOK, OriginalKept, [RestoreNext]_restoreVars,
                    original # NoEntry, original \notin prebackups
             PROVE  OriginalKept'
  BY DEF OriginalKept, RestoreNext, RestoreRetried, RestorePlans, RestoreRefused, RestoreLocks,
         RestoreKilled, RestoreChecks, RestorePrebackups, Prebackup, RestoreStages,
         RestoreInstalls, RestoreMovesAside, RestoreUndoes, RestorePutsBack, RestoreDrops,
         RestoreTidies, RestoreUnlocks, restoreVars
<1> DEFINE Before == {"ready", "planned", "prebackup", "tidy", "unlock"}
<1>1. /\ target["db"] = original
      /\ \A a \in Appliers : /\ applier[a].at \in Before
                             /\ applier[a].at # "ready" => applier[a].existed
  BY Zenon DEF OriginalKept
<1>2. CASE UNCHANGED restoreVars
  BY <1>1, <1>2, Zenon DEF restoreVars, OriginalKept
<1>3. ASSUME NEW a \in Appliers, UNCHANGED original,
             \/ RestoreRetried(a) \/ \E m \in ManagedBackups : RestorePlans(a, m)
             \/ RestoreRefused(a) \/ RestoreLocks(a) \/ RestoreKilled(a)
             \/ RestoreTidies(a) \/ RestoreUnlocks(a)
      PROVE  OriginalKept'
  <2> SUFFICES ASSUME NEW b \in Appliers
               PROVE  /\ applier'[b].at \in Before
                      /\ applier'[b].at # "ready" => applier'[b].existed
    BY <1>1, <1>3, Zenon DEF RestoreRetried, RestorePlans, RestoreRefused, RestoreLocks, RestoreKilled,
                      RestoreTidies, RestoreUnlocks, OriginalKept
  <2>1. CASE RestoreRetried(a)
    BY <1>1, <2>1, Zenon DEF RestoreTypeOK, RestoreRetried, RestoreReady
  <2>2. ASSUME NEW m \in ManagedBackups, RestorePlans(a, m)
        PROVE  /\ applier'[b].at \in Before
               /\ applier'[b].at # "ready" => applier'[b].existed
    <3>1. (target["db"] # NoEntry) = TRUE
      BY <1>1, Zenon
    <3>2. applier' = [applier EXCEPT ![a] =
                        [at |-> "planned", manifest |-> m, existed |-> TRUE, had |-> NoEntry,
                         outcome |-> "none"]]
      BY <2>2, <3>1, Zenon DEF RestorePlans
    <3>3. QED BY <1>1, <3>2, Zenon DEF RestoreTypeOK
  <2>3. CASE RestoreRefused(a)
    BY <1>1, <2>3 DEF RestoreTypeOK, RestoreRefused, ApplierRow
  <2>4. CASE RestoreKilled(a)
    BY <1>1, <2>4 DEF RestoreTypeOK, RestoreKilled, ApplierRow
  <2>5. CASE RestoreLocks(a)
    BY <1>1, <2>5 DEF RestoreTypeOK, RestoreLocks, At, Goes, ApplierRow
  <2>6. CASE RestoreTidies(a) \/ RestoreUnlocks(a)
    BY <1>1, <2>6 DEF RestoreTypeOK, RestoreTidies, RestoreUnlocks, At, Goes, ApplierRow
  <2>7. QED BY <1>3, <2>1, <2>2, <2>3, <2>4, <2>5, <2>6, Zenon
<1>4. ASSUME NEW a \in Appliers, UNCHANGED original, RestorePrebackups(a) PROVE OriginalKept'
  <2>1. applier[a].existed
    BY <1>1, <1>4, Zenon DEF RestorePrebackups, At
  <2>2. CASE Prebackup(a)
    BY <1>1, <1>4, <2>1, <2>2, Zenon DEF Prebackup, OriginalKept
  <2>3. CASE RestoreEnds(a, "failed") /\ UNCHANGED <<prebackups, target>>
    BY <1>1, <1>4, <2>1, <2>3 DEF RestoreTypeOK, RestoreEnds, ApplierRow, OriginalKept
  <2>4. QED BY <1>4, <2>2, <2>3, Zenon DEF RestorePrebackups
<1>5. ASSUME NEW a \in Appliers,
             \/ RestoreStages(a) \/ RestoreMovesAside(a) \/ RestoreInstalls(a)
             \/ RestoreChecks(a) \/ RestoreUndoes(a) \/ RestorePutsBack(a) \/ RestoreDrops(a)
      PROVE  FALSE
  BY <1>1, <1>5 DEF RestoreStages, RestoreMovesAside, RestoreInstalls, RestoreChecks,
                    RestoreUndoes, RestorePutsBack, RestoreDrops, At, PartNames, UndoStep,
                    BackStep, DropStep
<1>6. QED BY <1>2, <1>3, <1>4, <1>5, Zenon DEF RestoreNext

\* A step of one restore leaves what another has moved aside matching: where it
\* writes the target files it holds the lock, and the others have moved nothing.
LEMMA OthersTogether ==
  ASSUME LockHeld, NEW a \in Appliers, NEW b \in Appliers \ {a},
         aside'[b] = aside[b], applier'[b] = applier[b], MovedTogether(b),
         target' = target \/ applier[a].at \notin {"ready", "planned"}
  PROVE  MovedTogether(b)'
<1>1. CASE target' = target
  BY <1>1 DEF MovedTogether, SameDatabase
<1>2. CASE applier[a].at \notin {"ready", "planned"}
  <2>1. applier'[b].at \in {"ready", "planned"}
    BY <1>2, Zenon DEF LockHeld
  <2>2. QED BY <2>1, Zenon DEF MovedTogether
<1>3. QED BY <1>1, <1>2, Zenon

\* Moving files aside in the order database, WAL, SHM, installing the staged copy
\* only then, and putting files back in the same order never leaves the database
\* of one origin beside the sidecar of another, whichever step fails.
LEMMA FilesStep ==
  RestoreTypeOK /\ LockHeld /\ FilesTogether /\ [RestoreNext]_restoreVars => FilesTogether'
<1> SUFFICES ASSUME RestoreTypeOK, LockHeld, FilesTogether, [RestoreNext]_restoreVars
             PROVE  FilesTogether'
  BY Zenon
<1>1. CASE UNCHANGED restoreVars
  BY <1>1, Zenon DEF restoreVars, FilesTogether, MovedTogether, SameDatabase
<1> SUFFICES ASSUME NEW a \in Appliers,
                    \/ RestoreRetried(a) \/ \E m \in ManagedBackups : RestorePlans(a, m)
                    \/ RestoreRefused(a) \/ RestoreLocks(a) \/ RestorePrebackups(a)
                    \/ RestoreStages(a) \/ RestoreMovesAside(a) \/ RestoreInstalls(a)
                    \/ RestoreChecks(a) \/ RestoreUndoes(a) \/ RestorePutsBack(a)
                    \/ RestoreDrops(a) \/ RestoreTidies(a) \/ RestoreUnlocks(a)
                    \/ RestoreKilled(a)
             PROVE  FilesTogether'
  BY <1>1, Zenon DEF RestoreNext
<1>2. MovedTogether(a) /\ \A p \in Sidecars : SameDatabase(target["db"], target[p])
  BY Zenon DEF FilesTogether
<1>3. \A b \in Appliers \ {a} :
        aside'[b] = aside[b] /\ applier'[b] = applier[b] => MovedTogether(b)
  BY Zenon DEF FilesTogether
<1>4. \A b \in Appliers \ {a} :
        /\ aside'[b] = aside[b] /\ applier'[b] = applier[b]
        /\ target' = target \/ applier[a].at \notin {"ready", "planned"}
        => MovedTogether(b)'
  BY <1>3, OthersTogether, Zenon
<1>5. ASSUME \A p \in Sidecars : SameDatabase(target'["db"], target'[p]), MovedTogether(a)',
             \A b \in Appliers \ {a} : aside'[b] = aside[b] /\ applier'[b] = applier[b],
             target' = target \/ applier[a].at \notin {"ready", "planned"}
      PROVE  FilesTogether'
  BY <1>4, <1>5, Zenon DEF FilesTogether, SameDatabase
<1>6. CASE RestoreRetried(a)
  BY <1>2, <1>5, <1>6, Zenon DEF RestoreTypeOK, RestoreRetried, RestoreReady, MovedTogether
<1>7. CASE \E m \in ManagedBackups : RestorePlans(a, m)
  BY <1>2, <1>5, <1>7 DEF RestoreTypeOK, RestorePlans, At, MovedTogether
<1>8. CASE RestoreRefused(a) \/ RestoreKilled(a)
  BY <1>2, <1>5, <1>8 DEF RestoreTypeOK, ApplierRow, RestoreRefused, RestoreKilled, At, MovedTogether
<1>9. CASE RestoreLocks(a)
  BY <1>2, <1>5, <1>9 DEF RestoreTypeOK, ApplierRow, RestoreLocks, At, Goes, MovedTogether
<1>10. CASE RestorePrebackups(a) \/ RestoreStages(a)
  BY <1>2, <1>5, <1>10 DEF RestoreTypeOK, ApplierRow, RestorePrebackups, RestoreStages,
                           RestoreEnds, At, Goes, MovedTogether
<1>11. CASE RestoreInstalls(a)
  BY <1>2, <1>5, <1>11 DEF RestoreTypeOK, ApplierRow, RestoreInstalls, At, Goes, MovedTogether,
                           Sidecars, PartNames, SameDatabase
<1>12. CASE RestoreChecks(a)
  BY <1>2, <1>5, <1>12 DEF RestoreTypeOK, ApplierRow, RestoreChecks, At, Goes, MovedTogether
<1>13. CASE RestoreMovesAside(a)
  BY <1>2, <1>5, <1>13 DEF RestoreTypeOK, ApplierRow, RestoreMovesAside, StepAfterMove, At, Goes,
                           MovedTogether, Sidecars, PartNames, SameDatabase, NoFiles
<1>14. CASE RestoreUndoes(a)
  BY <1>2, <1>5, <1>14 DEF RestoreTypeOK, ApplierRow, RestoreUndoes, UndoneWith, RestoreEnds, At,
                           Goes, UndoStep, BackStep, MovedTogether, Sidecars, PartNames, SameDatabase
<1>15. CASE RestorePutsBack(a)
  BY <1>2, <1>5, <1>15 DEF RestoreTypeOK, ApplierRow, RestorePutsBack, UndoneWith, RestoreEnds, At,
                           Goes, BackStep, MovedTogether, Sidecars, PartNames, SameDatabase
<1>16. CASE RestoreDrops(a)
  BY <1>2, <1>5, <1>16 DEF RestoreTypeOK, ApplierRow, RestoreDrops, RestoreEnds, At, Goes,
                           DropStep, MovedTogether, PartNames
<1>17. CASE RestoreTidies(a) \/ RestoreUnlocks(a)
  BY <1>2, <1>5, <1>17 DEF RestoreTypeOK, ApplierRow, RestoreTidies, RestoreUnlocks, At, Goes,
                           MovedTogether
<1>18. QED BY <1>6, <1>7, <1>8, <1>9, <1>10, <1>11, <1>12, <1>13, <1>14, <1>15, <1>16, <1>17, Zenon

\* In every behaviour of `restore apply`: past its plan a restore holds the lock,
\* the original database is backed up before it is touched, and the files moved
\* aside match the files left.
THEOREM RestoreInvariant == RestoreSpec => [](RestoreTypeOK /\ RestoreInv)
<1>1. RestoreInit => RestoreTypeOK /\ RestoreInv
  <2> SUFFICES ASSUME RestoreInit PROVE RestoreTypeOK /\ RestoreInv
    BY Zenon
  <2>1. NoFiles \in [PartNames -> Contents] /\ {NoEntry, LiveContent} \subseteq Contents
    BY Zenon DEF NoFiles, Contents
  <2>2. target \in [PartNames -> Contents] /\ target["db"] \in Contents
    BY <2>1, Zenon DEF RestoreInit, PartNames
  <2>3. RestoreReady \in ApplierRow
    BY Zenon DEF RestoreReady, ApplierRow, RestoreSteps, RestoreOutcomes, Contents
  <2>4. RestoreTypeOK
    BY <2>1, <2>2, <2>3, Zenon DEF RestoreInit, RestoreTypeOK
  <2>5. \A p \in Sidecars : SameDatabase(target["db"], target[p])
    BY Zenon DEF RestoreInit, SameDatabase, Sidecars, PartNames, NoFiles
  <2>6. \A a \in Appliers : applier[a].at = "ready" /\ aside[a] = NoFiles
    BY Zenon DEF RestoreInit, RestoreReady
  <2>7. QED BY <2>4, <2>5, <2>6, Zenon
               DEF RestoreInit, RestoreInv, LockHeld, OriginalKept, FilesTogether, MovedTogether
<1>2. RestoreTypeOK /\ RestoreInv /\ [RestoreNext]_restoreVars => (RestoreTypeOK /\ RestoreInv)'
  BY RestoreTypeStep, LockStep, OriginalStep, FilesStep, Zenon DEF RestoreInv
<1>3. QED BY <1>1, <1>2, PTL DEF RestoreSpec

\* However many restores overlap, fail, are killed and are started again, and
\* from whatever backups: the database at the target path is never beside a
\* sidecar of another database, and what the path first held is there, moved
\* aside or in a managed backup.
THEOREM RestoresLoseNothing == RestoreSpec => []RestoreLosesNothing
<1>1. RestoreInv => RestoreLosesNothing
  BY Zenon DEF RestoreInv, OriginalKept, FilesTogether, SameDatabase, RestoreLosesNothing
<1>2. QED BY <1>1, RestoreInvariant, PTL

-----------------------------------------------------------------------------
(* Controlled writes.                                                       *)

\* insert_record_audit adds one row after the others.
LEMMA TrailGrows ==
  ASSUME trail \in Seq(AuditRow), NEW row \in AuditRow, trail' = Append(trail, row)
  PROVE  /\ Len(trail) \in Nat /\ DOMAIN trail = 1 .. Len(trail)
         /\ trail' \in Seq(AuditRow)
         /\ DOMAIN trail' = 1 .. (Len(trail) + 1)
         /\ \A k \in DOMAIN trail : trail'[k] = trail[k]
         /\ trail'[Len(trail) + 1] = row
OBVIOUS

\* A request that is stored has a state, and NoChange is no row.
LEMMA StoredRows ==
  ASSUME ChangeTypeOK, NEW id \in ChangeIds
  PROVE  Exists(id) <=> changes[id] \in ChangeRow
BY DEF ChangeTypeOK, Exists, NoChange, ChangeRow, StoredStates

\* A command that starts, goes on to its second transaction or ends keeps a
\* record of the right type.
LEMMA CommandRows ==
  ASSUME ChangeTypeOK, NEW c \in ChangeCommands
  PROVE  /\ Finished(c) => command' \in [ChangeCommands ->
              CreateCommand \cup DryRunCommand \cup DecisionCommand \cup CancelCommand \cup {NoCommand}]
         /\ command[c] # NoCommand /\ command[c].stage = "expiry"
              /\ command' = [command EXCEPT ![c].stage = "write"]
              => command' \in [ChangeCommands ->
              CreateCommand \cup DryRunCommand \cup DecisionCommand \cup CancelCommand \cup {NoCommand}]
<1> DEFINE Commands ==
      CreateCommand \cup DryRunCommand \cup DecisionCommand \cup CancelCommand \cup {NoCommand}
<1>1. command \in [ChangeCommands -> Commands]
  BY Zenon DEF ChangeTypeOK
<1>2. NoCommand \in Commands
  BY Zenon
<1>3. ASSUME command[c] # NoCommand PROVE [command[c] EXCEPT !.stage = "write"] \in Commands
  <2>1. CASE command[c] \in CreateCommand
    BY <2>1, Zenon DEF CreateCommand
  <2>2. CASE command[c] \in DryRunCommand
    BY <2>2, Zenon DEF DryRunCommand
  <2>3. CASE command[c] \in DecisionCommand
    BY <2>3, Zenon DEF DecisionCommand
  <2>4. CASE command[c] \in CancelCommand
    BY <2>4, Zenon DEF CancelCommand
  <2>5. QED BY <1>1, <1>3, <2>1, <2>2, <2>3, <2>4, Zenon
<1> HIDE DEF Commands
<1>4. Finished(c) => command' \in [ChangeCommands -> Commands]
  BY <1>1, <1>2, Zenon DEF Finished
<1>5. ASSUME command[c] # NoCommand, command' = [command EXCEPT ![c].stage = "write"]
      PROVE  command' \in [ChangeCommands -> Commands]
  <2>1. command' = [command EXCEPT ![c] = [command[c] EXCEPT !.stage = "write"]]
    BY <1>5, Zenon
  <2>2. QED BY <1>1, <1>3, <1>5, <2>1, Zenon
<1>6. QED BY <1>4, <1>5, Zenon DEF Commands

\* A transition of a stored request writes a stored request with the same
\* actor and expiry, and leaves the others.
LEMMA TransitionRows ==
  ASSUME ChangeTypeOK, NEW id \in ChangeIds, NEW to \in StoredStates, Exists(id),
         Transition(id, to)
  PROVE  /\ changes' \in [ChangeIds -> ChangeRow \cup {NoChange}]
         /\ changes'[id] \in ChangeRow /\ changes'[id].state = to
         /\ changes'[id].actor = changes[id].actor /\ changes'[id].expires = changes[id].expires
         /\ \A other \in ChangeIds \ {id} : changes'[other] = changes[other]
<1>1. changes[id] \in ChangeRow
  BY StoredRows, Zenon
<1>2. /\ [changes[id] EXCEPT !.state = to] \in ChangeRow
      /\ [changes[id] EXCEPT !.state = to].state = to
      /\ [changes[id] EXCEPT !.state = to].actor = changes[id].actor
      /\ [changes[id] EXCEPT !.state = to].expires = changes[id].expires
  BY <1>1, Zenon DEF ChangeRow
<1>3. changes' = [changes EXCEPT ![id] = [changes[id] EXCEPT !.state = to]]
  BY Zenon DEF Transition
<1>4. changes \in [ChangeIds -> ChangeRow \cup {NoChange}]
  BY Zenon DEF ChangeTypeOK
<1>5. changes'[id] = [changes[id] EXCEPT !.state = to]
  BY <1>3, <1>4, Zenon
<1>6. /\ changes' \in [ChangeIds -> ChangeRow \cup {NoChange}]
      /\ \A other \in ChangeIds \ {id} : changes'[other] = changes[other]
  BY <1>2, <1>3, <1>4, Zenon
<1>7. QED BY <1>2, <1>5, <1>6, Zenon

\* The argument of every transaction that writes: the row it appends goes on
\* from the state it read, which was open, and an approval it records is earned.
LEMMA WriteKeepsTrail ==
  ASSUME ChangeTypeOK, ApprovalsEarned, NEW id \in ChangeIds, NEW row \in AuditRow,
         row.id = id, trail' = Append(trail, row), approvals \subseteq approvals',
         changes'[id] \in ChangeRow, changes'[id].state = row.to,
         \A other \in ChangeIds \ {id} : changes'[other] = changes[other],
         IF Exists(id)
         THEN /\ row.from = changes[id].state
              /\ changes[id].state \notin {"rejected", "cancelled", "expired"}
              /\ changes'[id].actor = changes[id].actor
              /\ changes'[id].expires = changes[id].expires
         ELSE row.from = "none",
         row.to = "approved" =>
           /\ row.from = "dry_run_succeeded"
           /\ row.actor # changes'[id].actor
           /\ row.at < changes'[id].expires
           /\ \E a \in approvals' : /\ a.approval = row.approval /\ a.id = id
                                    /\ a.by = row.actor /\ a.decision = "approved"
  PROVE  ApprovalsEarned'
<1>0. PICK n \in Nat : n = Len(trail) + 1
  BY TrailGrows DEF ChangeTypeOK
<1>1. /\ Len(trail) \in Nat /\ DOMAIN trail = 1 .. Len(trail)
      /\ DOMAIN trail' = 1 .. n
      /\ \A k \in DOMAIN trail : trail'[k] = trail[k]
      /\ trail'[n] = row
  BY <1>0, TrailGrows, Zenon DEF ChangeTypeOK
<1>2. n \in Nat /\ n \notin DOMAIN trail /\ DOMAIN trail' = DOMAIN trail \cup {n}
  BY <1>0, <1>1
<1>3. \A k \in DOMAIN trail : k \in Nat /\ k < n
  BY <1>0, <1>1
<1>4. Exists(id)'
  BY DEF Exists, NoChange, ChangeRow, StoredStates
<1>5. \A other \in ChangeIds \ {id} : Exists(other)' <=> Exists(other)
  BY Zenon DEF Exists
<1>6. LastRow(id, n)' /\ trail'[n].to = changes'[id].state
  <2>1. \A i \in DOMAIN trail' : ~(n < i)
    BY <1>2, <1>3
  <2>2. QED BY <1>1, <2>1, Zenon DEF LastRow
<1>7. \A other \in ChangeIds \ {id} :
        IF Exists(other)'
        THEN \E k \in DOMAIN trail' : LastRow(other, k)' /\ trail'[k].to = changes'[other].state
        ELSE \A k \in DOMAIN trail' : trail'[k].id # other
  <2> SUFFICES ASSUME NEW other \in ChangeIds \ {id}
               PROVE  IF Exists(other)'
                      THEN \E k \in DOMAIN trail' :
                             LastRow(other, k)' /\ trail'[k].to = changes'[other].state
                      ELSE \A k \in DOMAIN trail' : trail'[k].id # other
    BY Zenon
  <2>1. CASE Exists(other)
    <3>1. PICK k \in DOMAIN trail : LastRow(other, k) /\ trail[k].to = changes[other].state
      BY <2>1, Zenon DEF ApprovalsEarned
    <3>2. LastRow(other, k)'
      BY <1>1, <1>2, <3>1 DEF LastRow
    <3>3. trail'[k].to = changes'[other].state
      BY <1>1, <3>1, Zenon
    <3>4. QED BY <1>2, <1>5, <2>1, <3>2, <3>3, Zenon
  <2>2. CASE ~Exists(other)
    <3>1. \A k \in DOMAIN trail : trail[k].id # other
      BY <2>2, Zenon DEF ApprovalsEarned
    <3>2. QED BY <1>1, <1>2, <1>5, <2>2, <3>1
  <2>3. QED BY <2>1, <2>2, Zenon
<1>8. RowFollows(n)'
  <2>1. CASE Exists(id)
    <3>1. PICK j \in DOMAIN trail : LastRow(id, j) /\ trail[j].to = changes[id].state
      BY <2>1, Zenon DEF ApprovalsEarned
    <3>2. \A i \in DOMAIN trail' : j < i /\ i < n => i \in DOMAIN trail
      BY <1>2
    <3>3. Precedes(j, n)'
      BY <1>1, <1>3, <3>1, <3>2 DEF Precedes, LastRow
    <3>4. QED BY <1>1, <1>2, <2>1, <3>1, <3>3 DEF RowFollows
  <2>2. CASE ~Exists(id)
    <3>1. \A k \in DOMAIN trail : trail[k].id # id
      BY <2>2, Zenon DEF ApprovalsEarned
    <3>2. \A k \in DOMAIN trail' : k < n => k \in DOMAIN trail
      BY <1>2
    <3>3. QED BY <1>1, <2>2, <3>1, <3>2, Zenon DEF RowFollows
  <2>3. QED BY <2>1, <2>2, Zenon
<1>9. RowEarned(n)'
  BY <1>1 DEF RowEarned
<1>10. ASSUME NEW k \in DOMAIN trail PROVE RowFollows(k)' /\ RowEarned(k)'
  <2>1. RowFollows(k) /\ RowEarned(k)
    BY Zenon DEF ApprovalsEarned
  <2>2. \A j \in DOMAIN trail' : j < k => j \in DOMAIN trail
    BY <1>2, <1>3
  <2>3. ASSUME NEW j \in DOMAIN trail, Precedes(j, k) PROVE Precedes(j, k)'
    BY <1>1, <2>2, <2>3 DEF Precedes
  <2>4. RowFollows(k)'
    BY <1>1, <1>2, <2>1, <2>2, <2>3 DEF RowFollows
  <2>5. trail[k].id \in ChangeIds /\ Exists(trail[k].id)
    <3>1. trail[k] \in AuditRow
      BY DEF ChangeTypeOK
    <3>2. trail[k].id \in ChangeIds
      BY <3>1, Zenon DEF AuditRow
    <3>3. QED BY <3>2, Zenon DEF ApprovalsEarned
  <2>6. /\ changes'[trail[k].id].actor = changes[trail[k].id].actor
        /\ changes'[trail[k].id].expires = changes[trail[k].id].expires
    BY <2>5, Zenon
  <2>7. RowEarned(k)'
    BY <1>1, <2>1, <2>6 DEF RowEarned
  <2>8. QED BY <2>4, <2>7, Zenon
<1>11. QED BY <1>2, <1>4, <1>6, <1>7, <1>8, <1>9, <1>10 DEF ApprovalsEarned

\* A command that has started: its fields, and the request it is about.
LEMMA CommandFields ==
  ASSUME ChangeTypeOK, NEW c \in ChangeCommands, command[c].verb # "none"
  PROVE  /\ command[c] # NoCommand
         /\ command[c].id \in ChangeIds /\ command[c].who \in Principals
         /\ command[c].now \in Nat /\ command[c].stage \in {"expiry", "write"}
         /\ command[c].verb = "create" => command[c] \in CreateCommand
         /\ command[c].verb = "dry_run" => command[c] \in DryRunCommand
         /\ command[c].verb \in {"approve", "reject"} => command[c] \in DecisionCommand
         /\ command[c].verb = "cancel" => command[c] \in CancelCommand
<1>1. command[c] \in CreateCommand \cup DryRunCommand \cup DecisionCommand \cup CancelCommand
                      \cup {NoCommand}
  BY Zenon DEF ChangeTypeOK
<1>2. command[c] # NoCommand
  BY DEF NoCommand
<1>3. QED BY <1>1, <1>2, Zenon DEF CreateCommand, DryRunCommand, DecisionCommand, CancelCommand

\* Committed: one transaction moved request id to a stored state and appended
\* the audit row of that move.
Committed(id, row) ==
  /\ id \in ChangeIds /\ row \in AuditRow /\ row.id = id
  /\ trail' = Append(trail, row)
  /\ changes' \in [ChangeIds -> ChangeRow \cup {NoChange}]
  /\ changes'[id] \in ChangeRow /\ changes'[id].state = row.to
  /\ \A other \in ChangeIds \ {id} : changes'[other] = changes[other]
  /\ IF Exists(id)
     THEN /\ row.from = changes[id].state
          /\ changes[id].state \notin {"rejected", "cancelled", "expired"}
          /\ changes'[id].actor = changes[id].actor
          /\ changes'[id].expires = changes[id].expires
     ELSE row.from = "none"

\* Every audited transition of a stored, open request commits.
LEMMA TransitionCommits ==
  ASSUME ChangeTypeOK, NEW id \in ChangeIds, NEW to \in StoredStates, Exists(id),
         NEW actor \in Principals \cup {SystemExpiry}, NEW approval \in ApprovalIds \cup {"none"},
         NEW now \in Nat, changes[id].state \notin {"rejected", "cancelled", "expired"},
         Transition(id, to), Audit(id, changes[id].state, to, actor, approval, now)
  PROVE  \E row \in AuditRow :
           /\ Committed(id, row)
           /\ row = [id |-> id, from |-> changes[id].state, to |-> to, actor |-> actor,
                     approval |-> approval, at |-> now]
<1> DEFINE row == [id |-> id, from |-> changes[id].state, to |-> to, actor |-> actor,
                   approval |-> approval, at |-> now]
<1>1. changes[id].state \in StoredStates
  BY StoredRows, Zenon DEF ChangeRow
<1>2. row \in AuditRow
  BY <1>1, Zenon DEF AuditRow
<1>3. trail' = Append(trail, row)
  BY Zenon DEF Audit
<1>4. row.id = id /\ row.to = to /\ row.from = changes[id].state
  BY Zenon
<1> HIDE DEF row
<1>5. Committed(id, row)
  BY <1>2, <1>3, <1>4, TransitionRows, Zenon DEF Committed
<1>6. QED BY <1>2, <1>5, Zenon DEF row

\* What a step may do to the requests and their trail: nothing, or one commit,
\* which approves only what was earned.
WritesAtMostOnce ==
  /\ approvals \subseteq approvals'
  /\ \/ UNCHANGED <<changes, trail>>
     \/ \E id \in ChangeIds, row \in AuditRow :
          /\ Committed(id, row)
          /\ row.to = "approved" =>
               /\ row.from = "dry_run_succeeded"
               /\ row.actor # changes'[id].actor
               /\ row.at < changes'[id].expires
               /\ \E a \in approvals' : /\ a.approval = row.approval /\ a.id = id
                                        /\ a.by = row.actor /\ a.decision = "approved"

\* persist_expiry_if_needed closes an overdue request at most.
LEMMA ExpiryWrites ==
  ASSUME ChangeTypeOK, NEW c \in ChangeCommands, PersistExpiryIfNeeded(c)
  PROVE  WritesAtMostOnce
<1> DEFINE cmd == command[c]
<1>1. cmd.verb # "none" /\ UNCHANGED approvals
  BY Zenon DEF PersistExpiryIfNeeded
<1>2. cmd.id \in ChangeIds /\ cmd.now \in Nat
  BY <1>1, CommandFields, Zenon
<1>3. CASE UNCHANGED <<changes, trail>>
  BY <1>1, <1>3, Zenon DEF WritesAtMostOnce
<1>4. CASE /\ Exists(cmd.id) /\ changes[cmd.id].state \notin Terminal
           /\ Transition(cmd.id, "expired")
           /\ Audit(cmd.id, changes[cmd.id].state, "expired", SystemExpiry, "none", cmd.now)
  <2>1. PICK id \in ChangeIds : id = cmd.id
    BY <1>2, Zenon
  <2>2. changes[id].state \notin {"rejected", "cancelled", "expired"}
    BY <1>4, <2>1, Zenon DEF Terminal
  <2>3. "expired" \in StoredStates
    BY Zenon DEF StoredStates
  <2>4. \E row \in AuditRow : Committed(id, row) /\ row.to = "expired"
    BY <1>2, <1>4, <2>1, <2>2, <2>3, TransitionCommits
  <2>5. QED BY <1>1, <2>4, Zenon DEF WritesAtMostOnce
<1>5. QED BY <1>3, <1>4, Zenon DEF PersistExpiryIfNeeded

\* create_change_request stores a draft of an identifier that was free.
LEMMA CreateWrites ==
  ASSUME ChangeTypeOK, RequestsKnown, NEW c \in ChangeCommands, CreateChangeRequest(c)
  PROVE  WritesAtMostOnce
<1> DEFINE cmd == command[c]
<1>1. cmd.verb = "create" /\ UNCHANGED approvals
  BY Zenon DEF CreateChangeRequest
<1>2. cmd \in CreateCommand
  BY <1>1, CommandFields, Zenon
<1>3. CASE UNCHANGED <<changes, trail>>
  BY <1>1, <1>3, Zenon DEF WritesAtMostOnce
<1>4. CASE /\ CreateAccepted(cmd.intent, cmd.who, cmd.now)
           /\ changes' = [changes EXCEPT ![cmd.id] =
                [state |-> "draft", actor |-> cmd.who, nonce |-> cmd.intent.nonce,
                 expires |-> cmd.intent.expires]]
           /\ Audit(cmd.id, "none", "draft", cmd.who, "none", cmd.now)
  <2>1. PICK id \in ChangeIds : id = cmd.id
    BY <1>2, Zenon DEF CreateCommand
  <2> DEFINE new == [state |-> "draft", actor |-> cmd.who, nonce |-> cmd.intent.nonce,
                     expires |-> cmd.intent.expires]
             row == [id |-> id, from |-> "none", to |-> "draft", actor |-> cmd.who,
                     approval |-> "none", at |-> cmd.now]
  <2>2. new \in ChangeRow /\ new.state = "draft"
    BY <1>2, Zenon DEF CreateCommand, Intents, ChangeRow, StoredStates
  <2>3. row \in AuditRow /\ row.id = id /\ row.from = "none" /\ row.to = "draft"
    BY <1>2, Zenon DEF CreateCommand, AuditRow, StoredStates
  <2>4. trail' = Append(trail, row)
    BY <1>4, <2>1, Zenon DEF Audit
  <2>5. changes' = [changes EXCEPT ![id] = new]
    BY <1>4, <2>1, Zenon
  <2> HIDE DEF new, row
  <2>6. /\ changes' \in [ChangeIds -> ChangeRow \cup {NoChange}] /\ changes'[id] = new
        /\ \A other \in ChangeIds \ {id} : changes'[other] = changes[other]
    BY <2>2, <2>5, Zenon DEF ChangeTypeOK
  <2>7. ~Exists(id)
    <3>1. cmd.intent.id = cmd.id
      BY <1>1, Zenon DEF RequestsKnown
    <3>2. QED BY <1>4, <2>1, <3>1, Zenon DEF CreateAccepted
  <2>8. Committed(id, row)
    BY <2>2, <2>3, <2>4, <2>6, <2>7, Zenon DEF Committed
  <2>9. QED BY <1>1, <2>3, <2>8, Zenon DEF WritesAtMostOnce
<1>5. QED BY <1>3, <1>4, Zenon DEF CreateChangeRequest

\* record_change_dry_run moves a draft, or a change whose dry-run failed.
LEMMA DryRunWrites ==
  ASSUME ChangeTypeOK, RequestsKnown, NEW c \in ChangeCommands, RecordChangeDryRun(c)
  PROVE  WritesAtMostOnce
<1> DEFINE cmd == command[c]
           to == IF cmd.allowed THEN "dry_run_succeeded" ELSE "dry_run_failed"
<1>1. cmd.verb = "dry_run" /\ cmd.stage = "write" /\ UNCHANGED approvals
  BY Zenon DEF RecordChangeDryRun
<1>2. cmd.id \in ChangeIds /\ cmd.now \in Nat /\ cmd.who \in Principals /\ Exists(cmd.id)
  BY <1>1, CommandFields, Zenon DEF RequestsKnown
<1>3. CASE UNCHANGED <<changes, trail>>
  BY <1>1, <1>3, Zenon DEF WritesAtMostOnce
<1>4. CASE /\ changes[cmd.id].state \in {"draft", "dry_run_failed"}
           /\ Transition(cmd.id, to)
           /\ Audit(cmd.id, changes[cmd.id].state, to, cmd.who, "none", cmd.now)
  <2>1. PICK id \in ChangeIds : id = cmd.id
    BY <1>2, Zenon
  <2>2. changes[id].state \notin {"rejected", "cancelled", "expired"}
    BY <1>4, <2>1, Zenon
  <2>3. to \in StoredStates /\ to # "approved"
    BY Zenon DEF StoredStates
  <2> HIDE DEF to
  <2>4. \E row \in AuditRow : Committed(id, row) /\ row.to = to
    <3>1. /\ Transition(id, to)
          /\ Audit(id, changes[id].state, to, cmd.who, "none", cmd.now)
          /\ Exists(id)
      BY <1>2, <1>4, <2>1, Zenon
    <3>2. PICK who \in Principals \cup {SystemExpiry} : who = cmd.who
      BY <1>2, Zenon
    <3>3. PICK now \in Nat : now = cmd.now
      BY <1>2, Zenon
    <3>4. Audit(id, changes[id].state, to, who, "none", now)
      BY <3>1, <3>2, <3>3, Zenon
    <3> HIDE DEF cmd
    <3>5. PICK none \in ApprovalIds \cup {"none"} : none = "none"
      BY Zenon
    <3>6. PICK row \in AuditRow :
            /\ Committed(id, row)
            /\ row = [id |-> id, from |-> changes[id].state, to |-> to, actor |-> who,
                      approval |-> none, at |-> now]
      BY <2>2, <2>3, <3>1, <3>4, <3>5, TransitionCommits, Zenon
    <3>7. row.to = to
      BY <3>6
    <3>8. QED BY <3>6, <3>7, Zenon
  <2>5. QED BY <1>1, <2>3, <2>4, Zenon DEF WritesAtMostOnce
<1>5. QED BY <1>3, <1>4, Zenon DEF RecordChangeDryRun

\* cancel_change moves an open request.
LEMMA CancelWrites ==
  ASSUME ChangeTypeOK, RequestsKnown, NEW c \in ChangeCommands, CancelChange(c)
  PROVE  WritesAtMostOnce
<1> DEFINE cmd == command[c]
<1>1. cmd.verb = "cancel" /\ cmd.stage = "write" /\ UNCHANGED approvals
  BY Zenon DEF CancelChange
<1>2. cmd.id \in ChangeIds /\ cmd.now \in Nat /\ cmd.who \in Principals /\ Exists(cmd.id)
  BY <1>1, CommandFields, Zenon DEF RequestsKnown
<1>3. CASE UNCHANGED <<changes, trail>>
  BY <1>1, <1>3, Zenon DEF WritesAtMostOnce
<1>4. CASE /\ Cancellable(changes[cmd.id].state)
           /\ Transition(cmd.id, "cancelled")
           /\ Audit(cmd.id, changes[cmd.id].state, "cancelled", cmd.who, "none", cmd.now)
  <2>1. PICK id \in ChangeIds : id = cmd.id
    BY <1>2
  <2>2. changes[id].state \notin {"rejected", "cancelled", "expired"}
    BY <1>4, <2>1, Zenon DEF Cancellable
  <2>3. "cancelled" \in StoredStates
    BY Zenon DEF StoredStates
  <2>4. \E row \in AuditRow : Committed(id, row) /\ row.to = "cancelled"
    BY <1>2, <1>4, <2>1, <2>2, <2>3, TransitionCommits
  <2>5. QED BY <1>1, <2>4, Zenon DEF WritesAtMostOnce
<1>5. QED BY <1>3, <1>4, Zenon DEF CancelChange

\* approve_change and reject_change decide a change whose dry-run succeeded, by
\* another principal than its actor, before its expiry, and record the approval.
LEMMA DecisionWrites ==
  ASSUME ChangeTypeOK, RequestsKnown, NEW c \in ChangeCommands, DecideChange(c)
  PROVE  WritesAtMostOnce /\ approvals' \in SUBSET ApprovalRow
<1> DEFINE cmd == command[c]
           to == IF cmd.verb = "approve" THEN "approved" ELSE "rejected"
           decision == [approval |-> cmd.approval, id |-> cmd.id, by |-> cmd.who, decision |-> to]
<1>1. cmd.verb \in {"approve", "reject"} /\ cmd.stage = "write"
  BY Zenon DEF DecideChange
<1>2. cmd \in DecisionCommand /\ Exists(cmd.id)
  BY <1>1, CommandFields, Zenon DEF RequestsKnown
<1>3. /\ cmd.id \in ChangeIds /\ cmd.now \in Nat /\ cmd.who \in Principals
      /\ cmd.approval \in ApprovalIds
  BY <1>2, Zenon DEF DecisionCommand
<1>4. CASE UNCHANGED <<changes, approvals, trail>>
  BY <1>4, Zenon DEF WritesAtMostOnce, ChangeTypeOK
<1>5. CASE /\ ~Overdue(cmd.id, cmd.now) /\ changes[cmd.id].actor # cmd.who
           /\ AwaitsApproval(changes[cmd.id].state)
           /\ approvals' = approvals \cup {decision}
           /\ Transition(cmd.id, to)
           /\ Audit(cmd.id, changes[cmd.id].state, to, cmd.who, cmd.approval, cmd.now)
  <2>1. PICK id \in ChangeIds : id = cmd.id
    BY <1>3, Zenon
  <2>2. changes[id] \in ChangeRow
    BY <1>2, <2>1, StoredRows
  <2>3. changes[id].state = "dry_run_succeeded"
    BY <1>5, <2>1, <2>2, Zenon DEF AwaitsApproval, ChangeRow, StoredStates
  <2>4. cmd.now < changes[id].expires
    <3>1. changes[id].expires \in Nat
      BY <2>2, ChangeAssumption, Zenon DEF ChangeRow
    <3>2. QED BY <1>3, <1>5, <2>1, <3>1 DEF Overdue
  <2>5. to \in StoredStates /\ to \in {"approved", "rejected"}
    BY Zenon DEF StoredStates
  <2>6. decision \in ApprovalRow
    BY <1>3, <2>5, Zenon DEF ApprovalRow
  <2>7. /\ decision.approval = cmd.approval /\ decision.id = id
        /\ decision.by = cmd.who /\ decision.decision = to
    BY <2>1, Zenon
  <2> HIDE DEF to, decision
  <2>8. PICK row \in AuditRow :
          /\ Committed(id, row)
          /\ row = [id |-> id, from |-> changes[id].state, to |-> to, actor |-> cmd.who,
                    approval |-> cmd.approval, at |-> cmd.now]
    <3>1. \E row \in AuditRow :
            /\ Committed(id, row)
            /\ row = [id |-> id, from |-> changes[id].state, to |-> to, actor |-> cmd.who,
                      approval |-> cmd.approval, at |-> cmd.now]
      BY <1>2, <1>3, <1>5, <2>1, <2>3, <2>5, TransitionCommits
    <3>2. QED BY <3>1, Zenon
  <2>9. /\ changes'[id].actor = changes[id].actor /\ changes'[id].expires = changes[id].expires
    BY <1>2, <2>1, <2>8, Zenon DEF Committed
  <2>10. decision \in approvals' /\ approvals \subseteq approvals'
    BY <1>5, Zenon
  <2>11. /\ row.from = "dry_run_succeeded" /\ row.actor # changes'[id].actor
         /\ row.at < changes'[id].expires
    BY <1>5, <2>1, <2>3, <2>4, <2>8, <2>9
  <2>12. row.to = "approved" =>
           \E a \in approvals' : /\ a.approval = row.approval /\ a.id = id
                                /\ a.by = row.actor /\ a.decision = "approved"
    BY <2>7, <2>8, <2>10, Zenon
  <2>13. WritesAtMostOnce
    BY <2>8, <2>10, <2>11, <2>12, Zenon DEF WritesAtMostOnce
  <2>14. QED BY <1>5, <2>6, <2>13, Zenon DEF ChangeTypeOK
<1>6. QED BY <1>4, <1>5, Zenon DEF DecideChange

\* A step that writes at most once keeps the types, keeps every stored request,
\* and keeps the trail a true account.
LEMMA WritesKeep ==
  ASSUME ChangeTypeOK, WritesAtMostOnce
  PROVE  /\ changes' \in [ChangeIds -> ChangeRow \cup {NoChange}]
         /\ trail' \in Seq(AuditRow)
         /\ \A id \in ChangeIds : Exists(id) => Exists(id)'
         /\ ApprovalsEarned => ApprovalsEarned'
<1>1. CASE UNCHANGED <<changes, trail>>
  <2>1. \A k : RowFollows(k)' <=> RowFollows(k)
    BY <1>1, Zenon DEF RowFollows, Precedes
  <2>2. \A k : RowEarned(k) => RowEarned(k)'
    BY <1>1, Zenon DEF WritesAtMostOnce, RowEarned
  <2>3. \A id, k : LastRow(id, k)' <=> LastRow(id, k)
    BY <1>1, Zenon DEF LastRow
  <2>4. \A id : Exists(id)' <=> Exists(id)
    BY <1>1 DEF Exists
  <2>5. ApprovalsEarned => ApprovalsEarned'
    BY <1>1, <2>1, <2>2, <2>3, <2>4, Zenon DEF ApprovalsEarned
  <2>6. QED BY <1>1, <2>4, <2>5, Zenon DEF ChangeTypeOK
<1>2. ASSUME NEW id \in ChangeIds, NEW row \in AuditRow, Committed(id, row),
             row.to = "approved" =>
               /\ row.from = "dry_run_succeeded"
               /\ row.actor # changes'[id].actor
               /\ row.at < changes'[id].expires
               /\ \E a \in approvals' : /\ a.approval = row.approval /\ a.id = id
                                        /\ a.by = row.actor /\ a.decision = "approved"
      PROVE  /\ changes' \in [ChangeIds -> ChangeRow \cup {NoChange}]
             /\ trail' \in Seq(AuditRow)
             /\ \A other \in ChangeIds : Exists(other) => Exists(other)'
             /\ ApprovalsEarned => ApprovalsEarned'
  <2>1. ApprovalsEarned => ApprovalsEarned'
    BY <1>2, WriteKeepsTrail, Zenon DEF Committed, WritesAtMostOnce
  <2>2. trail' \in Seq(AuditRow)
    BY <1>2, TrailGrows, Zenon DEF Committed, ChangeTypeOK
  <2>3. Exists(id)'
    BY <1>2 DEF Committed, Exists, NoChange, ChangeRow, StoredStates
  <2>4. \A other \in ChangeIds \ {id} : Exists(other) => Exists(other)'
    BY <1>2, Zenon DEF Committed, Exists
  <2>5. QED BY <1>2, <2>1, <2>2, <2>3, <2>4, Zenon DEF Committed
<1>3. QED BY <1>1, <1>2, Zenon DEF WritesAtMostOnce

\* A command that starts has a record of the right type, and is about the
\* request of its intent or has not passed persist_expiry_if_needed.
LEMMA StartedCommands ==
  ASSUME ChangeTypeOK, RequestsKnown, NEW c \in ChangeCommands, NEW who \in Principals,
         CommandStarts(c, who)
  PROVE  ChangeTypeOK' /\ RequestsKnown'
<1> DEFINE Commands ==
      CreateCommand \cup DryRunCommand \cup DecisionCommand \cup CancelCommand \cup {NoCommand}
<1>1. PICK new \in Commands :
        /\ command' = [command EXCEPT ![c] = new]
        /\ new.verb = "create" => new.id = new.intent.id
        /\ new.verb # "create" => new.stage = "expiry"
  <2>1. chgClock \in Nat
    BY Zenon DEF ChangeTypeOK
  <2>2. CASE CreateStarts(c, who)
    <3>1. PICK i \in Intents :
            command' = [command EXCEPT ![c] =
              [verb |-> "create", who |-> who, id |-> i.id, intent |-> i, now |-> chgClock,
               stage |-> "write"]]
      BY <2>2, Zenon DEF CreateStarts
    <3> DEFINE new == [verb |-> "create", who |-> who, id |-> i.id, intent |-> i, now |-> chgClock,
                      stage |-> "write"]
    <3>2. new \in CreateCommand /\ new.verb = "create" /\ new.id = new.intent.id
      BY <2>1, Zenon DEF CreateCommand, Intents
    <3> HIDE DEF new
    <3>3. new \in Commands
      BY <3>2, Zenon
    <3>4. QED BY <3>1, <3>2, <3>3, Zenon DEF new
  <2>3. CASE DryRunStarts(c, who)
    <3>1. PICK id \in ChangeIds, allowed \in BOOLEAN :
            command' = [command EXCEPT ![c] =
              [verb |-> "dry_run", who |-> who, id |-> id, allowed |-> allowed, now |-> chgClock,
               stage |-> "expiry"]]
      BY <2>3, Zenon DEF DryRunStarts
    <3> DEFINE new == [verb |-> "dry_run", who |-> who, id |-> id, allowed |-> allowed, now |-> chgClock,
                      stage |-> "expiry"]
    <3>2. new \in DryRunCommand /\ new.verb # "create" /\ new.stage = "expiry"
      BY <2>1, Zenon DEF DryRunCommand
    <3> HIDE DEF new
    <3>3. new \in Commands
      BY <3>2, Zenon
    <3>4. QED BY <3>1, <3>2, <3>3, Zenon DEF new
  <2>4. CASE DecisionStarts(c, who)
    <3>1. PICK id \in ChangeIds, a \in ApprovalIds, verb \in {"approve", "reject"} :
            command' = [command EXCEPT ![c] =
              [verb |-> verb, who |-> who, id |-> id, approval |-> a, now |-> chgClock,
               stage |-> "expiry"]]
      BY <2>4, Zenon DEF DecisionStarts
    <3> DEFINE new == [verb |-> verb, who |-> who, id |-> id, approval |-> a, now |-> chgClock,
                      stage |-> "expiry"]
    <3>2. new \in DecisionCommand /\ new.verb # "create" /\ new.stage = "expiry"
      BY <2>1, Zenon DEF DecisionCommand
    <3> HIDE DEF new
    <3>3. new \in Commands
      BY <3>2, Zenon
    <3>4. QED BY <3>1, <3>2, <3>3, Zenon DEF new
  <2>5. CASE CancelStarts(c, who)
    <3>1. PICK id \in ChangeIds :
            command' = [command EXCEPT ![c] =
              [verb |-> "cancel", who |-> who, id |-> id, now |-> chgClock, stage |-> "expiry"]]
      BY <2>5, Zenon DEF CancelStarts
    <3> DEFINE new == [verb |-> "cancel", who |-> who, id |-> id, now |-> chgClock, stage |-> "expiry"]
    <3>2. new \in CancelCommand /\ new.verb # "create" /\ new.stage = "expiry"
      BY <2>1, Zenon DEF CancelCommand
    <3> HIDE DEF new
    <3>3. new \in Commands
      BY <3>2, Zenon
    <3>4. QED BY <3>1, <3>2, <3>3, Zenon DEF new
  <2>6. QED BY <2>2, <2>3, <2>4, <2>5, Zenon DEF CommandStarts
<1>2. UNCHANGED <<chgClock, changes, approvals, attempts, trail>>
  BY Zenon DEF CommandStarts
<1> HIDE DEF Commands
<1>3. command \in [ChangeCommands -> Commands]
  BY Zenon DEF ChangeTypeOK, Commands
<1>4. command' \in [ChangeCommands -> Commands]
  BY <1>1, <1>3, Zenon
<1>5. ChangeTypeOK'
  BY <1>2, <1>4, Zenon DEF ChangeTypeOK, Commands
<1>6. RequestsKnown'
  BY <1>1, <1>2, <1>3, Zenon DEF RequestsKnown, Exists
<1>7. QED BY <1>5, <1>6, Zenon

\* A command that ends, or passes persist_expiry_if_needed on a request that
\* exists, leaves the commands about requests they know.
LEMMA KnownStep ==
  ASSUME ChangeTypeOK, RequestsKnown, NEW c \in ChangeCommands,
         \A id \in ChangeIds : Exists(id) => Exists(id)',
         \/ Finished(c)
         \/ /\ Exists(command[c].id)
            /\ command[c].verb # "none" /\ command[c].stage = "expiry"
            /\ command' = [command EXCEPT ![c].stage = "write"]
  PROVE  RequestsKnown'
<1>1. \A b \in ChangeCommands :
        command[b].verb \in {"dry_run", "approve", "reject", "cancel"} => command[b].id \in ChangeIds
  BY CommandFields, Zenon
<1>2. \A b \in ChangeCommands \ {c} : command'[b] = command[b]
  BY Zenon DEF ChangeTypeOK, Finished
<1>3. CASE Finished(c)
  <2>1. command'[c] = NoCommand
    BY <1>3, Zenon DEF ChangeTypeOK, Finished
  <2>2. QED BY <1>1, <1>2, <2>1 DEF RequestsKnown, NoCommand
<1>4. CASE /\ Exists(command[c].id)
           /\ command[c].verb # "none" /\ command[c].stage = "expiry"
           /\ command' = [command EXCEPT ![c].stage = "write"]
  <2>1. command'[c] = [command[c] EXCEPT !.stage = "write"]
    BY <1>4, Zenon DEF ChangeTypeOK
  <2>2. command[c].id \in ChangeIds /\ command[c] # NoCommand
    BY <1>4, CommandFields, Zenon
  <2>3. /\ command'[c].verb = command[c].verb /\ command'[c].id = command[c].id
        /\ command[c].verb # "create"
    <3>1. CASE command[c] \in CreateCommand
      BY <1>4, <3>1, Zenon DEF CreateCommand
    <3>2. CASE command[c] \in DryRunCommand
      BY <2>1, <3>2, Zenon DEF DryRunCommand
    <3>3. CASE command[c] \in DecisionCommand
      BY <2>1, <3>3, Zenon DEF DecisionCommand
    <3>4. CASE command[c] \in CancelCommand
      BY <2>1, <3>4, Zenon DEF CancelCommand
    <3>5. QED BY <2>2, <3>1, <3>2, <3>3, <3>4, Zenon DEF ChangeTypeOK
  <2>4. QED BY <1>1, <1>2, <1>4, <2>2, <2>3 DEF RequestsKnown
<1>5. QED BY <1>3, <1>4, Zenon

\* Every step of a command, a kill and a tick keep the invariant.
LEMMA ChangeStep ==
  ChangeTypeOK /\ ChangeInv /\ [ChangeNext]_changeVars => (ChangeTypeOK /\ ChangeInv)'
<1> SUFFICES ASSUME ChangeTypeOK, ChangeInv, [ChangeNext]_changeVars
             PROVE  (ChangeTypeOK /\ ChangeInv)'
  BY Zenon
<1>1. RequestsKnown /\ ApprovalsEarned
  BY Zenon DEF ChangeInv
<1>2. CASE UNCHANGED <<changes, approvals, attempts, trail, command>> /\ chgClock' \in Nat
  <2>1. WritesAtMostOnce
    BY <1>2, Zenon DEF WritesAtMostOnce
  <2>2. QED BY <1>1, <1>2, <2>1, WritesKeep, Zenon DEF ChangeTypeOK, ChangeInv, RequestsKnown, Exists
<1>3. ASSUME NEW c \in ChangeCommands, NEW who \in Principals, CommandStarts(c, who)
      PROVE  (ChangeTypeOK /\ ChangeInv)'
  <2>1. WritesAtMostOnce
    BY <1>3, Zenon DEF CommandStarts, WritesAtMostOnce
  <2>2. QED BY <1>1, <1>3, <2>1, StartedCommands, WritesKeep, Zenon DEF ChangeInv
<1>4. ASSUME NEW c \in ChangeCommands,
             \/ PersistExpiryIfNeeded(c) \/ CreateChangeRequest(c) \/ RecordChangeDryRun(c)
             \/ DecideChange(c) \/ CancelChange(c) \/ CommandKilled(c)
      PROVE  (ChangeTypeOK /\ ChangeInv)'
  <2>1. WritesAtMostOnce
    <3>1. CommandKilled(c) => WritesAtMostOnce
      BY Zenon DEF CommandKilled, WritesAtMostOnce
    <3>2. QED BY <1>1, <1>4, <3>1, ExpiryWrites, CreateWrites, DryRunWrites, DecisionWrites,
                 CancelWrites, Zenon
  <2>2. /\ changes' \in [ChangeIds -> ChangeRow \cup {NoChange}] /\ trail' \in Seq(AuditRow)
        /\ \A id \in ChangeIds : Exists(id) => Exists(id)'
        /\ ApprovalsEarned'
    BY <1>1, <2>1, WritesKeep
  <2>3. \/ Finished(c)
        \/ /\ Exists(command[c].id)
           /\ command[c].verb # "none" /\ command[c].stage = "expiry"
           /\ command' = [command EXCEPT ![c].stage = "write"]
    BY <1>4, Zenon DEF PersistExpiryIfNeeded, CreateChangeRequest, RecordChangeDryRun, DecideChange,
                CancelChange, CommandKilled
  <2>4. RequestsKnown'
    BY <1>1, <2>2, <2>3, KnownStep, Zenon
  <2>5. command' \in [ChangeCommands ->
          CreateCommand \cup DryRunCommand \cup DecisionCommand \cup CancelCommand \cup {NoCommand}]
    BY <2>3, CommandRows, CommandFields
  <2>6. approvals' \in SUBSET ApprovalRow
    <3>1. CASE DecideChange(c)
      BY <1>1, <3>1, DecisionWrites, Zenon
    <3>2. CASE ~DecideChange(c)
      BY <1>4, <3>2, Zenon DEF ChangeTypeOK, PersistExpiryIfNeeded, CreateChangeRequest,
                        RecordChangeDryRun, CancelChange, CommandKilled
    <3>3. QED BY <3>1, <3>2, Zenon
  <2>7. attempts' \in SUBSET AttemptRow /\ IsFiniteSet(attempts') /\ chgClock' \in Nat
    <3>1. attempts \in SUBSET AttemptRow /\ IsFiniteSet(attempts) /\ chgClock \in Nat
      BY Zenon DEF ChangeTypeOK
    <3>2. CASE RecordChangeDryRun(c)
      <4> DEFINE attempt == [id |-> command[c].id, nth |-> Cardinality(attempts) + 1,
                             ok |-> command[c].allowed]
      <4>1. command[c] \in DryRunCommand
        BY <3>2, CommandFields, Zenon DEF RecordChangeDryRun
      <4>2. Cardinality(attempts) \in Nat
        BY <3>1, FS_CardinalityType, Zenon
      <4>3. attempt \in AttemptRow
        BY <4>1, <4>2 DEF DryRunCommand, AttemptRow
      <4>4. IsFiniteSet(attempts \cup {attempt})
        BY <3>1, FS_AddElement, Zenon
      <4>5. (attempts' = attempts \/ attempts' = attempts \cup {attempt}) /\ chgClock' = chgClock
        BY <3>2, Zenon DEF RecordChangeDryRun
      <4> HIDE DEF attempt
      <4>6. QED BY <3>1, <4>3, <4>4, <4>5
    <3>3. CASE ~RecordChangeDryRun(c)
      BY <1>4, <3>1, <3>3, Zenon DEF PersistExpiryIfNeeded, CreateChangeRequest, DecideChange,
                              CancelChange, CommandKilled
    <3>4. QED BY <3>2, <3>3, Zenon
  <2>8. QED BY <2>2, <2>4, <2>5, <2>6, <2>7 DEF ChangeTypeOK, ChangeInv
<1>5. CASE ChangeClockTicks
  BY <1>2, <1>5 DEF ChangeClockTicks, ChangeTypeOK
<1>6. CASE UNCHANGED changeVars
  BY <1>2, <1>6, Zenon DEF changeVars, ChangeTypeOK
<1>7. QED BY <1>3, <1>4, <1>5, <1>6, Zenon DEF ChangeNext

\* In every behaviour of the change commands the trail is a true account and a
\* command past its expiry check is about a stored request.
THEOREM ChangeInvariant == ChangeSpec => [](ChangeTypeOK /\ ChangeInv)
<1>1. ChangeInit => ChangeTypeOK /\ ChangeInv
  <2> SUFFICES ASSUME ChangeInit PROVE ChangeTypeOK /\ ChangeInv
    OBVIOUS
  <2>1. ChangeTypeOK
    BY FS_EmptySet DEF ChangeInit, ChangeTypeOK
  <2>2. RequestsKnown
    BY Zenon DEF ChangeInit, RequestsKnown, NoCommand
  <2>3. DOMAIN trail = {}
    BY DEF ChangeInit
  <2>4. ApprovalsEarned
    BY <2>3, Zenon DEF ChangeInit, ApprovalsEarned, Exists
  <2>5. QED BY <2>1, <2>2, <2>4, Zenon DEF ChangeInv
<1>2. QED BY <1>1, ChangeStep, PTL DEF ChangeSpec

\* Whatever commands overlap, are late or are killed: the audit rows of every
\* request form one chain from its creation to its stored state, every approval
\* follows a dry-run that succeeded, is another principal's, is on record and was
\* made before the expiry, and nothing follows the end of a request.
THEOREM ApprovalsAreEarned == ChangeSpec => []ApprovalsEarned
<1>1. ChangeInv => ApprovalsEarned
  BY Zenon DEF ChangeInv
<1>2. QED BY <1>1, ChangeInvariant, PTL

-----------------------------------------------------------------------------
(* TrustPolicy: the diff.                                                   *)

\* compare_field finds nothing exactly when the policy leaves the field out or
\* the stored value is the desired one.
LEMMA FieldDiffExact ==
  ASSUME NEW code, NEW id, NEW n, NEW field, NEW desired, NEW current
  PROVE  FieldDiff(code, id, n, field, desired, current) = {}
           <=> desired = "unset" \/ desired = current
BY Zenon DEF FieldDiff

\* add_set_diffs finds nothing exactly when the two sets are equal.
LEMMA SetDiffsExact ==
  ASSUME NEW id, NEW n, NEW field, NEW desired, NEW current
  PROVE  SetDiffs(id, n, field, desired, current) = {} <=> desired = current
<1>1. ASSUME SetDiffs(id, n, field, desired, current) = {} PROVE desired = current
  <2>1. \A v \in desired \ current :
          Diff("MISSING", id, n.endpoint, field, v, "absent")
            \in SetDiffs(id, n, field, desired, current)
    BY Zenon DEF SetDiffs
  <2>2. \A v \in current \ desired :
          Diff("UNEXPECTED", id, n.endpoint, field, "absent", v)
            \in SetDiffs(id, n, field, desired, current)
    BY Zenon DEF SetDiffs
  <2>3. desired \ current = {} /\ current \ desired = {}
    BY <1>1, <2>1, <2>2, Zenon
  <2>4. QED BY <2>3, Zenon
<1>2. ASSUME desired = current PROVE SetDiffs(id, n, field, desired, current) = {}
  BY <1>2, Zenon DEF SetDiffs
<1>3. QED BY <1>1, <1>2, Zenon

\* What compute_policy_diff finds is empty exactly when each of its four
\* passes over the policy and the registry finds nothing.
LEMMA PolicyDiffPasses ==
  ASSUME NEW doc, NEW reg
  PROVE  PolicyDiff(doc, reg) = {} <=>
           /\ DOMAIN reg.nodes = DOMAIN doc.nodes
           /\ DOMAIN reg.endpoints = {doc.nodes[id].endpoint : id \in DOMAIN doc.nodes}
           /\ \A id \in DOMAIN doc.nodes :
                /\ NodeDiffs(id, doc.nodes[id], reg.nodes[id]) = {}
                /\ EndpointDiffs(id, doc.nodes[id], reg.endpoints[doc.nodes[id].endpoint]) = {}
                /\ AllowlistDiffs(doc, id, reg.endpoints[doc.nodes[id].endpoint]) = {}
<1> DEFINE ids == DOMAIN doc.nodes
           known == DOMAIN reg.endpoints
           ep(id) == doc.nodes[id].endpoint
           nodePass(id) ==
             IF id \in DOMAIN reg.nodes THEN NodeDiffs(id, doc.nodes[id], reg.nodes[id])
             ELSE {Diff("NODE_MISSING", id, ep(id), "none", "present", "absent")}
           endpointPass(id) ==
             IF ep(id) \in known
             THEN EndpointDiffs(id, doc.nodes[id], reg.endpoints[ep(id)])
                  \cup AllowlistDiffs(doc, id, reg.endpoints[ep(id)])
             ELSE {Diff("ENDPOINT_MISSING", id, ep(id), "lifecycle", doc.nodes[id].lifecycle, "absent")}
           nodeDiffs == UNION {nodePass(id) : id \in ids}
           endpointDiffs == UNION {endpointPass(id) : id \in ids}
           extraNodes ==
             {Diff("NODE_EXTRA", id, reg.nodes[id].endpoint, "none", "absent", "present") :
               id \in DOMAIN reg.nodes \ ids}
           extraEndpoints ==
             {Diff("ENDPOINT_EXTRA", "none", e, "none", "absent", reg.endpoints[e].status) :
               e \in known \ {ep(id) : id \in ids}}
<1>1. PolicyDiff(doc, reg) = nodeDiffs \cup endpointDiffs \cup extraNodes \cup extraEndpoints
  BY Zenon DEF PolicyDiff
<1>2. nodeDiffs = {} <=> \A id \in ids : nodePass(id) = {}
  <2> HIDE DEF nodePass, ids
  <2>1. QED BY Zenon
<1>3. endpointDiffs = {} <=> \A id \in ids : endpointPass(id) = {}
  <2> HIDE DEF endpointPass, ids
  <2>1. QED BY Zenon
<1>4. extraNodes = {} <=> DOMAIN reg.nodes \subseteq ids
  <2>1. \A id \in DOMAIN reg.nodes \ ids :
          Diff("NODE_EXTRA", id, reg.nodes[id].endpoint, "none", "absent", "present") \in extraNodes
    BY Zenon
  <2>2. QED BY <2>1, Zenon
<1>5. extraEndpoints = {} <=> known \subseteq {ep(id) : id \in ids}
  <2>1. \A e \in known \ {ep(id) : id \in ids} :
          Diff("ENDPOINT_EXTRA", "none", e, "none", "absent", reg.endpoints[e].status)
            \in extraEndpoints
    BY Zenon
  <2>2. QED BY <2>1, Zenon
<1>6. ASSUME NEW id \in ids
      PROVE  nodePass(id) = {} <=>
               id \in DOMAIN reg.nodes /\ NodeDiffs(id, doc.nodes[id], reg.nodes[id]) = {}
  BY Zenon
<1>7. ASSUME NEW id \in ids
      PROVE  endpointPass(id) = {} <=>
               /\ ep(id) \in known
               /\ EndpointDiffs(id, doc.nodes[id], reg.endpoints[ep(id)]) = {}
               /\ AllowlistDiffs(doc, id, reg.endpoints[ep(id)]) = {}
  <2>1. CASE ep(id) \in known
    BY <2>1, Zenon
  <2>2. CASE ep(id) \notin known
    BY <2>2, Zenon
  <2>3. QED BY <2>1, <2>2, Zenon
<1>8. PolicyDiff(doc, reg) = {} <=>
        /\ \A id \in ids : nodePass(id) = {}
        /\ \A id \in ids : endpointPass(id) = {}
        /\ DOMAIN reg.nodes \subseteq ids
        /\ known \subseteq {ep(id) : id \in ids}
  <2> HIDE DEF nodePass, endpointPass, nodeDiffs, endpointDiffs, extraNodes, extraEndpoints
  <2>1. PolicyDiff(doc, reg) = {} <=>
          nodeDiffs = {} /\ endpointDiffs = {} /\ extraNodes = {} /\ extraEndpoints = {}
    BY <1>1
  <2>2. QED BY <1>2, <1>3, <1>4, <1>5, <2>1, Zenon
<1>9. QED
  <2> HIDE DEF nodePass, endpointPass
  <2>1. (\A id \in ids : ep(id) \in known) <=> {ep(id) : id \in ids} \subseteq known
    BY Zenon
  <2>2. QED BY <1>6, <1>7, <1>8, <2>1, Zenon

\* The allowlists of a bundle are the expected ones exactly when the bundle
\* follows the policy entry by entry.
LEMMA AllowlistsExact ==
  ASSUME NEW doc, ValidPolicy(doc), NEW id \in DOMAIN doc.nodes, NEW bundle,
         \A pair \in bundle.probes : pair = <<pair[1], pair[2]>>
  PROVE  BundleFollows(doc, id, bundle) <=>
           /\ ExpectedControllers(doc, doc.nodes[id]) = bundle.controllers
           /\ ExpectedPeers(doc, id) = bundle.peers
           /\ ExpectedProbes(doc, id) = bundle.probes
<1> DEFINE ep(i) == doc.nodes[i].endpoint
           up == doc.nodes[id].lifecycle = "active" /\ doc.nodes[id].enabled # "no"
           all == {ep(j) : j \in DOMAIN doc.nodes}
<1>1. up <=> Operational(doc.nodes[id])
  BY Zenon DEF Operational, On
<1>2. ExpectedControllers(doc, doc.nodes[id]) = bundle.controllers <=>
        \A e \in doc.controllers \cup bundle.controllers :
          e \in bundle.controllers <=> up /\ e \in doc.controllers
  <2> HIDE DEF up
  <2>1. ExpectedControllers(doc, doc.nodes[id]) = {e \in doc.controllers : up}
    BY <1>1, Zenon DEF ExpectedControllers
  <2>2. QED BY <2>1
<1>3. \A p \in doc.peers : /\ p[1] \in DOMAIN doc.nodes /\ p[2] \in DOMAIN doc.nodes
                          /\ Operational(doc.nodes[p[1]])
  BY Zenon DEF ValidPolicy
<1>4. ExpectedPeers(doc, id) = bundle.peers <=>
        \A e \in all \cup bundle.peers :
          e \in bundle.peers <=> \E p \in doc.peers : p[1] = id /\ ep(p[2]) = e
  <2>1. ASSUME NEW e
        PROVE  e \in ExpectedPeers(doc, id) <=> \E p \in doc.peers : p[1] = id /\ ep(p[2]) = e
    BY <1>3, Zenon DEF ExpectedPeers
  <2>2. ExpectedPeers(doc, id) \subseteq all
    BY <1>3, <2>1
  <2>3. QED BY <2>1, <2>2, Zenon
<1>5. \A p \in doc.probes : p.pair \in doc.peers
  BY Zenon DEF ValidPolicy
<1>6. ASSUME NEW pair
      PROVE  pair \in ExpectedProbes(doc, id) <=>
               \E c \in doc.controllers, p \in doc.probes :
                 p.pair[1] = id /\ p.enabled # "no" /\ pair = <<c, ep(p.pair[2])>>
  BY <1>3, <1>5 DEF ExpectedProbes, On
<1>7. ASSUME NEW c, NEW e
      PROVE  <<c, e>> \in ExpectedProbes(doc, id) <=>
               /\ c \in doc.controllers
               /\ \E p \in doc.probes : p.pair[1] = id /\ ep(p.pair[2]) = e /\ p.enabled # "no"
  <2>1. \A d, f : <<c, e>> = <<d, f>> <=> c = d /\ e = f
    OBVIOUS
  <2>2. QED BY <1>6, <2>1, Zenon
<1>8. \A pair \in ExpectedProbes(doc, id) : pair = <<pair[1], pair[2]>> /\ pair[2] \in all
  <2>1. \A c, e : <<c, e>>[1] = c /\ <<c, e>>[2] = e
    OBVIOUS
  <2>2. QED BY <1>3, <1>5, <1>6, <2>1
<1>9. ExpectedProbes(doc, id) = bundle.probes <=>
        /\ \A pair \in bundle.probes : pair[1] \in doc.controllers
        /\ \A c \in doc.controllers, e \in all \cup {pair[2] : pair \in bundle.probes} :
             <<c, e>> \in bundle.probes <=>
               \E p \in doc.probes : p.pair[1] = id /\ ep(p.pair[2]) = e /\ p.enabled # "no"
  <2> HIDE DEF all, ep
  <2>1. ASSUME ExpectedProbes(doc, id) = bundle.probes
        PROVE  /\ \A pair \in bundle.probes : pair[1] \in doc.controllers
               /\ \A c \in doc.controllers, e \in all \cup {pair[2] : pair \in bundle.probes} :
                    <<c, e>> \in bundle.probes <=>
                      \E p \in doc.probes : p.pair[1] = id /\ ep(p.pair[2]) = e /\ p.enabled # "no"
    <3>1. ASSUME NEW pair \in bundle.probes PROVE pair[1] \in doc.controllers
      <4>1. <<pair[1], pair[2]>> \in ExpectedProbes(doc, id)
        BY <2>1, Zenon
      <4>2. QED BY <1>7, <4>1, Zenon
    <3>2. QED BY <1>7, <2>1, <3>1
  <2>2. ASSUME \A pair \in bundle.probes : pair[1] \in doc.controllers,
               \A c \in doc.controllers, e \in all \cup {pair[2] : pair \in bundle.probes} :
                 <<c, e>> \in bundle.probes <=>
                   \E p \in doc.probes : p.pair[1] = id /\ ep(p.pair[2]) = e /\ p.enabled # "no"
        PROVE  ExpectedProbes(doc, id) = bundle.probes
    <3>1. ASSUME NEW pair \in bundle.probes PROVE pair \in ExpectedProbes(doc, id)
      <4>1. <<pair[1], pair[2]>> \in bundle.probes
        BY Zenon
      <4>2. <<pair[1], pair[2]>> \in ExpectedProbes(doc, id)
        BY <1>7, <2>2, <4>1, Zenon
      <4>3. QED BY <4>2, Zenon
    <3>2. ASSUME NEW pair \in ExpectedProbes(doc, id) PROVE pair \in bundle.probes
      <4>1. pair = <<pair[1], pair[2]>> /\ pair[2] \in all
        BY <1>8, Zenon
      <4>2. <<pair[1], pair[2]>> \in ExpectedProbes(doc, id)
        BY <4>1, Zenon
      <4>3. <<pair[1], pair[2]>> \in bundle.probes
        BY <1>7, <2>2, <4>1, <4>2, Zenon
      <4>4. QED BY <4>1, <4>3, Zenon
    <3>3. QED BY <3>1, <3>2, Zenon
  <2>3. QED BY <2>1, <2>2, Zenon
<1>10. QED BY <1>2, <1>4, <1>9, Zenon DEF BundleFollows

\* compute_policy_diff against any stored registry: it finds nothing exactly
\* when the registry follows the policy.
LEMMA DiffExactFor ==
  ASSUME NEW doc \in PolicyDocs, NEW reg \in PolicyRegistries, ValidPolicy(doc)
  PROVE  PolicyDiff(doc, reg) = {} <=> FollowsPolicy(doc, reg)
<1> DEFINE ep(i) == doc.nodes[i].endpoint
           sameNodes == /\ DOMAIN reg.nodes = DOMAIN doc.nodes
                        /\ DOMAIN reg.endpoints = {ep(i) : i \in DOMAIN doc.nodes}
           fields(id) ==
             /\ reg.nodes[id].endpoint = ep(id)
             /\ doc.nodes[id].enabled # "unset" => reg.nodes[id].enabled = doc.nodes[id].enabled
             /\ doc.nodes[id].labels # "unset" => reg.nodes[id].labels = doc.nodes[id].labels
             /\ reg.endpoints[ep(id)].status = doc.nodes[id].lifecycle
<1>1. FollowsPolicy(doc, reg) <=>
        sameNodes /\ \A id \in DOMAIN doc.nodes : fields(id) /\ BundleFollows(doc, id, reg.endpoints[ep(id)])
  BY Zenon DEF FollowsPolicy
<1>2. \A A, B, C : A \cup B \cup C = {} <=> A = {} /\ B = {} /\ C = {}
  OBVIOUS
<1>3. ASSUME NEW id \in DOMAIN doc.nodes
      PROVE  fields(id) <=> /\ NodeDiffs(id, doc.nodes[id], reg.nodes[id]) = {}
                            /\ EndpointDiffs(id, doc.nodes[id], reg.endpoints[ep(id)]) = {}
  <2>1. doc.nodes[id].endpoint # "unset" /\ doc.nodes[id].lifecycle # "unset"
    BY PolicyShapes, Zenon
  <2>2. NodeDiffs(id, doc.nodes[id], reg.nodes[id]) = {} <=>
          /\ reg.nodes[id].endpoint = ep(id)
          /\ doc.nodes[id].enabled # "unset" => reg.nodes[id].enabled = doc.nodes[id].enabled
          /\ doc.nodes[id].labels # "unset" => reg.nodes[id].labels = doc.nodes[id].labels
    BY <1>2, <2>1, FieldDiffExact DEF NodeDiffs
  <2>3. EndpointDiffs(id, doc.nodes[id], reg.endpoints[ep(id)]) = {} <=>
          reg.endpoints[ep(id)].status = doc.nodes[id].lifecycle
    BY <2>1, FieldDiffExact DEF EndpointDiffs
  <2>4. QED BY <2>2, <2>3, Zenon
<1>4. ASSUME sameNodes, NEW id \in DOMAIN doc.nodes
      PROVE  BundleFollows(doc, id, reg.endpoints[ep(id)]) <=> AllowlistDiffs(doc, id, reg.endpoints[ep(id)]) = {}
  <2> DEFINE b == reg.endpoints[ep(id)]
             diffs(field, desired, current) == SetDiffs(id, doc.nodes[id], field, desired, current)
             exact == /\ ExpectedControllers(doc, doc.nodes[id]) = b.controllers
                      /\ ExpectedPeers(doc, id) = b.peers
                      /\ ExpectedProbes(doc, id) = b.probes
  <2>1. \A pair \in b.probes : pair = <<pair[1], pair[2]>>
    BY <1>4, PolicyShapes, Zenon
  <2> HIDE DEF b
  <2>2. BundleFollows(doc, id, b) <=> exact
    BY <2>1, AllowlistsExact, Zenon
  <2>3. AllowlistDiffs(doc, id, b) =
          diffs("trusted_controllers", ExpectedControllers(doc, doc.nodes[id]), b.controllers)
          \cup diffs("trusted_peers", ExpectedPeers(doc, id), b.peers)
          \cup diffs("authorized_path_probes", ExpectedProbes(doc, id), b.probes)
    BY Zenon DEF AllowlistDiffs
  <2>4. \A field, desired, current : diffs(field, desired, current) = {} <=> desired = current
    BY SetDiffsExact, Zenon
  <2> HIDE DEF diffs
  <2>5. AllowlistDiffs(doc, id, b) = {} <=> exact
    BY <2>3, <2>4
  <2> HIDE DEF exact
  <2>6. QED BY <2>2, <2>5 DEF b
<1>5. PolicyDiff(doc, reg) = {} <=>
        sameNodes /\ \A id \in DOMAIN doc.nodes :
          /\ NodeDiffs(id, doc.nodes[id], reg.nodes[id]) = {}
          /\ EndpointDiffs(id, doc.nodes[id], reg.endpoints[ep(id)]) = {}
          /\ AllowlistDiffs(doc, id, reg.endpoints[ep(id)]) = {}
  BY PolicyDiffPasses, Zenon
<1> HIDE DEF fields, sameNodes
<1>6. QED BY <1>1, <1>3, <1>4, <1>5, Zenon

-----------------------------------------------------------------------------
(* TrustPolicy: the history.                                                *)

\* A plan that run_trust_policy_plan did not truncate shows every change.
LEMMA PlanComplete ==
  ASSUME NEW plan \in Plans, ~plan.truncated
  PROVE  Cardinality(plan.changes) = plan.total
<1>1. PICK doc \in PolicyDocs, reg \in PolicyRegistries : plan = PlanOf(doc, reg)
  BY DEF Plans
<1>2. QED BY <1>1, Zenon DEF PlanOf

\* What validate_approval accepts, the history may vouch for.
LEMMA ValidEntry ==
  ASSUME NEW e \in HistoryEntry, EntryValid(e), e.approval # NoFile
  PROVE  /\ e.approval.plan = e.plan
         /\ Cardinality(e.plan.changes) = e.plan.total
         /\ ReviewerKeyring[e.approval.key] = e.approval.by
<1>1. ApprovalValid(e.approval, e.plan)
  BY Zenon DEF EntryValid
<1>2. e.plan \in Plans
  BY Zenon DEF HistoryEntry
<1>3. QED BY <1>1, <1>2, PlanComplete, Zenon DEF ApprovalValid, TrustedReviewer

\* The commands of the review chain write files of the right shape.
LEMMA ReviewTypes ==
  ASSUME PolicyTypeOK,
         \/ \E doc \in PolicyDocs : DocumentEdited(doc)
         \/ \E reg \in PolicyRegistries : RegistryChanged(reg)
         \/ ArtifactRemoved \/ PolicySign \/ PolicyPlan
         \/ \E who \in Reviewers, key \in ReviewKeys : PolicyApprove(who, key)
  PROVE  PolicyTypeOK' /\ UNCHANGED <<history, historyLock, recorder, records>>
<1>1. ASSUME NEW doc \in PolicyDocs, DocumentEdited(doc)
      PROVE  PolicyTypeOK' /\ UNCHANGED <<history, historyLock, recorder, records>>
  BY <1>1, Zenon DEF DocumentEdited, PolicyTypeOK
<1>2. ASSUME NEW reg \in PolicyRegistries, RegistryChanged(reg)
      PROVE  PolicyTypeOK' /\ UNCHANGED <<history, historyLock, recorder, records>>
  BY <1>2, Zenon DEF RegistryChanged, PolicyTypeOK
<1>3. CASE ArtifactRemoved
  BY <1>3, Zenon DEF ArtifactRemoved, PolicyTypeOK
<1>4. CASE PolicySign
  BY <1>4, Zenon DEF PolicySign, PolicyTypeOK
<1>5. CASE PolicyPlan
  <2>1. PlanOf(document, registry) \in Plans
    BY DEF PolicyTypeOK, Plans
  <2>2. QED BY <1>5, <2>1, Zenon DEF PolicyPlan, PolicyTypeOK
<1>6. ASSUME NEW who \in Reviewers, NEW key \in ReviewKeys, PolicyApprove(who, key)
      PROVE  PolicyTypeOK' /\ UNCHANGED <<history, historyLock, recorder, records>>
  <2>1. planFile \in Plans
    BY <1>6, Zenon DEF PolicyApprove, PolicyTypeOK
  <2>2. [plan |-> planFile, revision |-> planFile.revision, by |-> who, key |-> key] \in Approval
    BY <2>1 DEF Approval
  <2>3. QED BY <1>6, <2>2, Zenon DEF PolicyApprove, PolicyTypeOK
<1>7. QED BY <1>1, <1>2, <1>3, <1>4, <1>5, <1>6, Zenon

\* A recorder at work holds an entry.
LEMMA RecorderEntry ==
  ASSUME PolicyTypeOK, NEW r \in Recorders, recorder[r].at # "idle"
  PROVE  /\ recorder[r] \in [at : {"validated", "locked", "append"}, entry : HistoryEntry]
         /\ recorder[r] # Resting /\ recorder[r].entry \in HistoryEntry
<1>1. Resting.at = "idle"
  BY DEF Resting
<1>2. recorder[r] # Resting
  BY <1>1, Zenon
<1>3. QED BY <1>2, Zenon DEF PolicyTypeOK

\* Every step keeps the types and the invariant: only the recorder that holds
\* the lock moves past it, what it read of the history stays as it was until
\* it appends, and what it appends was validated.
LEMMA PolicyStep ==
  ASSUME PolicyTypeOK, PolicyInv, [PolicyNext]_policyVars
  PROVE  (PolicyTypeOK /\ PolicyInv)'
<1> USE PolicyAssumption
<1>1. Resting.at = "idle"
  BY DEF Resting
<1>2. ASSUME UNCHANGED <<history, historyLock, recorder>> PROVE PolicyInv'
  BY <1>2, Zenon DEF PolicyInv, RecordersExclude, HistoryReads, EntryValid, HistoryVouches,
                     ApprovalValid, TrustedReviewer
<1>3. ASSUME NEW r \in Recorders, NEW with \in BOOLEAN, RecordStarts(r, with)
      PROVE  (PolicyTypeOK /\ PolicyInv)'
  <2> DEFINE entry == [revision |-> planFile.revision, plan |-> planFile, whole |-> TRUE,
                       approval |-> IF with THEN approvalFile ELSE NoFile]
             new == [at |-> "validated", entry |-> entry]
  <2>1. planFile \in Plans /\ (with => approvalFile \in Approval /\ ApprovalValid(approvalFile, planFile))
    BY <1>3, Zenon DEF RecordStarts, PolicyTypeOK
  <2>2. entry \in HistoryEntry /\ EntryValid(entry)
    <3>1. entry \in HistoryEntry
      BY <2>1 DEF HistoryEntry
    <3>2. EntryValid(entry)
      BY <2>1, Zenon DEF EntryValid
    <3>3. QED BY <3>1, <3>2, Zenon
  <2>3. /\ recorder' = [recorder EXCEPT ![r] = new] /\ recorder \in [Recorders -> {Resting} \cup
             [at : {"validated", "locked", "append"}, entry : HistoryEntry]]
        /\ UNCHANGED <<document, signature, registry, planFile, approvalFile, history, historyLock>>
        /\ records' = records + 1
    BY <1>3, Zenon DEF RecordStarts, PolicyTypeOK
  <2>4. new \in [at : {"validated", "locked", "append"}, entry : HistoryEntry] /\ new.at = "validated"
          /\ new.entry = entry
    BY <2>2
  <2> HIDE DEF new, entry
  <2>5. recorder'[r] = new /\ \A q \in Recorders : q # r => recorder'[q] = recorder[q]
    BY <2>3, Zenon
  <2>6. PolicyTypeOK'
    <3>1. records' \in Nat
      BY <2>3 DEF PolicyTypeOK
    <3>2. QED BY <2>3, <2>4, <3>1, Zenon DEF PolicyTypeOK
  <2>7. RecordersExclude'
    BY <2>3, <2>4, <2>5, Zenon DEF PolicyInv, RecordersExclude, HistoryReads
  <2>8. \A q \in Recorders : recorder'[q] # Resting => EntryValid(recorder'[q].entry)
    BY <2>2, <2>4, <2>5, Zenon DEF PolicyInv
  <2>9. QED BY <2>3, <2>6, <2>7, <2>8, Zenon DEF PolicyInv, EntryValid, HistoryVouches,
                                               ApprovalValid, TrustedReviewer
<1>4. ASSUME NEW r \in Recorders, NEW where \in {"locked", "append"}, recorder[r].at # "idle",
             RecorderAt(r, where),
             UNCHANGED <<document, signature, registry, planFile, approvalFile, history, records>>
      PROVE  /\ recorder'[r] = [recorder[r] EXCEPT !.at = where]
             /\ recorder'[r].at = where /\ recorder'[r].entry = recorder[r].entry
             /\ \A q \in Recorders : q # r => recorder'[q] = recorder[q]
             /\ historyLock' \in Recorders \cup {NoFile} => PolicyTypeOK'
             /\ \A q \in Recorders : recorder'[q] # Resting => EntryValid(recorder'[q].entry)
  <2>1. recorder[r] \in [at : {"validated", "locked", "append"}, entry : HistoryEntry]
          /\ recorder[r] # Resting
    BY <1>4, RecorderEntry, Zenon
  <2>2. recorder' = [recorder EXCEPT ![r] = [recorder[r] EXCEPT !.at = where]]
    BY <1>4, Zenon DEF RecorderAt
  <2>3. [recorder[r] EXCEPT !.at = where] \in [at : {"validated", "locked", "append"}, entry : HistoryEntry]
    BY <2>1, Zenon
  <2>4. [recorder[r] EXCEPT !.at = where].at = where
          /\ [recorder[r] EXCEPT !.at = where].entry = recorder[r].entry
    BY <2>1
  <2>5. recorder'[r] = [recorder[r] EXCEPT !.at = where]
          /\ \A q \in Recorders : q # r => recorder'[q] = recorder[q]
    BY <2>2, Zenon DEF PolicyTypeOK
  <2>6. historyLock' \in Recorders \cup {NoFile} => PolicyTypeOK'
    BY <1>4, <2>2, <2>3, Zenon DEF PolicyTypeOK
  <2>7. \A q \in Recorders : recorder'[q] # Resting => EntryValid(recorder'[q].entry)
    BY <2>1, <2>4, <2>5, Zenon DEF PolicyInv
  <2>8. QED BY <2>4, <2>5, <2>6, <2>7, Zenon
<1>5. ASSUME NEW r \in Recorders, RecordLocks(r) PROVE (PolicyTypeOK /\ PolicyInv)'
  <2>1. /\ recorder[r].at # "idle" /\ RecorderAt(r, "locked") /\ historyLock = NoFile /\ historyLock' = r
        /\ UNCHANGED <<document, signature, registry, planFile, approvalFile, history, records>>
    BY <1>5, Zenon DEF RecordLocks
  <2>2. /\ recorder'[r].at = "locked" /\ \A q \in Recorders : q # r => recorder'[q] = recorder[q]
        /\ PolicyTypeOK'
        /\ \A q \in Recorders : recorder'[q] # Resting => EntryValid(recorder'[q].entry)
    BY <1>4, <2>1, Zenon
  <2>3. RecordersExclude'
    BY <2>1, <2>2, Zenon DEF PolicyInv, RecordersExclude, HistoryReads
  <2>4. QED BY <2>1, <2>2, <2>3, Zenon DEF PolicyInv, EntryValid, HistoryVouches,
                                         ApprovalValid, TrustedReviewer
<1>6. ASSUME NEW r \in Recorders, recorder[r].at # "idle",
             recorder' = [recorder EXCEPT ![r] = Resting],
             \/ historyLock' = NoFile /\ historyLock = r
             \/ historyLock' = IF historyLock = r THEN NoFile ELSE historyLock
      PROVE  /\ recorder' \in [Recorders -> {Resting} \cup
                   [at : {"validated", "locked", "append"}, entry : HistoryEntry]]
             /\ historyLock' \in Recorders \cup {NoFile}
             /\ recorder'[r].at = "idle" /\ \A q \in Recorders : q # r => recorder'[q] = recorder[q]
             /\ \A q \in Recorders : recorder'[q].at \in {"locked", "append"} =>
                  q # r /\ historyLock' = q /\ historyLock = q
             /\ \A q \in Recorders : recorder'[q] # Resting => EntryValid(recorder'[q].entry)
  <2>1. /\ recorder' \in [Recorders -> {Resting} \cup
             [at : {"validated", "locked", "append"}, entry : HistoryEntry]]
        /\ historyLock' \in Recorders \cup {NoFile}
    BY <1>6, Zenon DEF PolicyTypeOK
  <2>2. recorder'[r] = Resting /\ \A q \in Recorders : q # r => recorder'[q] = recorder[q]
    BY <1>6, Zenon DEF PolicyTypeOK
  <2>3. \A q \in Recorders : recorder'[q].at \in {"locked", "append"} => q # r /\ historyLock = q
    BY <1>1, <2>2, Zenon DEF PolicyInv, RecordersExclude
  <2>4. \A q \in Recorders : q # r /\ historyLock = q => historyLock' = q
    BY <1>6, Zenon
  <2>5. \A q \in Recorders : recorder'[q] # Resting => EntryValid(recorder'[q].entry)
    BY <2>2, Zenon DEF PolicyInv
  <2>6. QED BY <1>1, <2>1, <2>2, <2>3, <2>4, <2>5, Zenon
<1>7. ASSUME NEW r \in Recorders, RecordReads(r) PROVE (PolicyTypeOK /\ PolicyInv)'
  <2>1. /\ recorder[r].at = "locked" /\ historyLock = r
        /\ UNCHANGED <<document, signature, registry, planFile, approvalFile, history, records>>
    BY <1>7, Zenon DEF RecordReads, PolicyInv, RecordersExclude
  <2>2. CASE /\ HistoryReads
             /\ \A k \in DOMAIN history : history[k].revision # recorder[r].entry.revision
             /\ Len(history) < MaxHistoryEntries
    <3>1. RecorderAt(r, "append") /\ historyLock' = historyLock
      BY <1>7, <2>2, Zenon DEF RecordReads
    <3>2. historyLock' \in Recorders \cup {NoFile}
      BY <3>1, Zenon DEF PolicyTypeOK
    <3>3. /\ recorder'[r].at = "append" /\ recorder'[r].entry = recorder[r].entry
          /\ \A q \in Recorders : q # r => recorder'[q] = recorder[q]
          /\ PolicyTypeOK'
          /\ \A q \in Recorders : recorder'[q] # Resting => EntryValid(recorder'[q].entry)
      BY <1>4, <2>1, <3>1, <3>2, Zenon
    <3>4. RecordersExclude'
      BY <2>1, <2>2, <3>1, <3>3, Zenon DEF PolicyInv, RecordersExclude, HistoryReads
    <3>5. QED BY <2>1, <3>3, <3>4, Zenon DEF PolicyInv, EntryValid, HistoryVouches,
                                           ApprovalValid, TrustedReviewer
  <2>3. CASE ~(/\ HistoryReads
               /\ \A k \in DOMAIN history : history[k].revision # recorder[r].entry.revision
               /\ Len(history) < MaxHistoryEntries)
    <3>1. Released(r)
      BY <1>7, <2>3, Zenon DEF RecordReads
    <3>2. /\ recorder' \in [Recorders -> {Resting} \cup
               [at : {"validated", "locked", "append"}, entry : HistoryEntry]]
          /\ historyLock' \in Recorders \cup {NoFile}
          /\ \A q \in Recorders : q # r => recorder'[q] = recorder[q]
          /\ \A q \in Recorders : recorder'[q].at \in {"locked", "append"} =>
               q # r /\ historyLock' = q
          /\ \A q \in Recorders : recorder'[q] # Resting => EntryValid(recorder'[q].entry)
      BY <1>6, <2>1, <3>1, Zenon DEF Released
    <3>3. PolicyTypeOK'
      BY <2>1, <3>2, Zenon DEF PolicyTypeOK
    <3>4. RecordersExclude'
      BY <2>1, <3>2, Zenon DEF PolicyInv, RecordersExclude, HistoryReads
    <3>5. QED BY <2>1, <3>2, <3>3, <3>4, Zenon DEF PolicyInv, EntryValid, HistoryVouches,
                                                  ApprovalValid, TrustedReviewer
  <2>4. QED BY <2>2, <2>3, Zenon
<1>8. ASSUME NEW r \in Recorders, NEW e, recorder[r].at = "append",
             e \in {recorder[r].entry, [recorder[r].entry EXCEPT !.whole = FALSE]},
             history' = Append(history, e),
             recorder' = [recorder EXCEPT ![r] = Resting],
             historyLock' = NoFile,
             UNCHANGED <<document, signature, registry, planFile, approvalFile, records>>
      PROVE  (PolicyTypeOK /\ PolicyInv)'
  <2>1. /\ recorder[r].entry \in HistoryEntry /\ EntryValid(recorder[r].entry)
        /\ historyLock = r /\ recorder[r].at # "idle"
        /\ HistoryReads /\ \A k \in DOMAIN history : history[k].revision # recorder[r].entry.revision
    BY <1>8, RecorderEntry, Zenon DEF PolicyInv, RecordersExclude
  <2>2. /\ recorder' \in [Recorders -> {Resting} \cup
             [at : {"validated", "locked", "append"}, entry : HistoryEntry]]
        /\ historyLock' \in Recorders \cup {NoFile}
        /\ \A q \in Recorders : recorder'[q].at \in {"locked", "append"} => q # r /\ historyLock = q
        /\ \A q \in Recorders : recorder'[q] # Resting => EntryValid(recorder'[q].entry)
    BY <1>6, <1>8, <2>1, Zenon
  <2>3. /\ e \in HistoryEntry /\ e.revision = recorder[r].entry.revision
        /\ e.plan = recorder[r].entry.plan /\ e.approval = recorder[r].entry.approval
    BY <1>8, <2>1 DEF HistoryEntry
  <2>4. EntryValid(e)
    BY <2>1, <2>3, Zenon DEF EntryValid
  <2>5. /\ history' \in Seq(HistoryEntry) /\ DOMAIN history' = DOMAIN history \cup {Len(history) + 1}
        /\ history'[Len(history) + 1] = e /\ Len(history) + 1 \notin DOMAIN history
        /\ \A k \in DOMAIN history : history'[k] = history[k] /\ history[k] \in HistoryEntry
    BY <1>8, <2>3 DEF PolicyTypeOK
  <2>6. PolicyTypeOK'
    BY <1>8, <2>2, <2>5, Zenon DEF PolicyTypeOK
  <2>7. RecordersExclude'
    BY <2>1, <2>2, Zenon DEF RecordersExclude
  <2>8. \A k \in DOMAIN history' : EntryValid(history'[k])
    BY <2>4, <2>5, Zenon DEF PolicyInv
  <2>9. HistoryVouches'
    <3>1. ASSUME NEW j \in DOMAIN history', NEW k \in DOMAIN history', history'[j].whole,
                 history'[k].whole, history'[j].revision = history'[k].revision
          PROVE  j = k
      <4>1. CASE j \in DOMAIN history /\ k \in DOMAIN history
        <5>1. history'[j] = history[j] /\ history'[k] = history[k]
          BY <2>5, <4>1, Zenon
        <5>2. history[j].whole /\ history[k].whole /\ history[j].revision = history[k].revision
          BY <3>1, <5>1, Zenon
        <5>3. QED BY <4>1, <5>2, Zenon DEF PolicyInv, HistoryVouches
      <4>2. \A i \in DOMAIN history : history'[i].revision # e.revision
        BY <2>1, <2>3, <2>5, Zenon
      <4>3. CASE ~(j \in DOMAIN history /\ k \in DOMAIN history)
        BY <2>5, <3>1, <4>2, <4>3, Zenon
      <4>4. QED BY <4>1, <4>3, Zenon
    <3>2. ASSUME NEW k \in DOMAIN history', history'[k].approval # NoFile
          PROVE  /\ history'[k].approval.plan = history'[k].plan
                 /\ Cardinality(history'[k].plan.changes) = history'[k].plan.total
                 /\ ReviewerKeyring[history'[k].approval.key] = history'[k].approval.by
      <4>1. history'[k] \in HistoryEntry /\ EntryValid(history'[k])
        BY <2>3, <2>5, <2>8, Zenon
      <4>2. QED BY <3>2, <4>1, ValidEntry, Zenon
    <3>3. QED BY <3>1, <3>2, Zenon DEF HistoryVouches
  <2>10. QED BY <2>2, <2>6, <2>7, <2>8, <2>9, Zenon DEF PolicyInv, EntryValid, ApprovalValid, TrustedReviewer
<1>9. ASSUME NEW r \in Recorders, RecordAppends(r) PROVE (PolicyTypeOK /\ PolicyInv)'
  <2>1. /\ recorder[r].at = "append" /\ history' = Append(history, recorder[r].entry)
        /\ recorder' = [recorder EXCEPT ![r] = Resting] /\ historyLock' = NoFile
        /\ UNCHANGED <<document, signature, registry, planFile, approvalFile, records>>
    BY <1>9, Zenon DEF RecordAppends, Released
  <2>2. QED BY <1>8, <2>1, Zenon
<1>10. ASSUME NEW r \in Recorders, RecordKilled(r) PROVE (PolicyTypeOK /\ PolicyInv)'
  <2>1. /\ recorder[r].at # "idle" /\ recorder' = [recorder EXCEPT ![r] = Resting]
        /\ historyLock' = IF historyLock = r THEN NoFile ELSE historyLock
        /\ UNCHANGED <<document, signature, registry, planFile, approvalFile, records>>
    BY <1>10, Zenon DEF RecordKilled
  <2>2. CASE history' = history
    <3>1. /\ recorder' \in [Recorders -> {Resting} \cup
               [at : {"validated", "locked", "append"}, entry : HistoryEntry]]
          /\ historyLock' \in Recorders \cup {NoFile}
          /\ \A q \in Recorders : q # r => recorder'[q] = recorder[q]
          /\ \A q \in Recorders : recorder'[q].at \in {"locked", "append"} =>
               q # r /\ historyLock' = q
          /\ \A q \in Recorders : recorder'[q] # Resting => EntryValid(recorder'[q].entry)
      BY <1>6, <2>1, Zenon
    <3>2. PolicyTypeOK'
      BY <2>1, <2>2, <3>1, Zenon DEF PolicyTypeOK
    <3>3. RecordersExclude'
      BY <2>2, <3>1, Zenon DEF PolicyInv, RecordersExclude, HistoryReads
    <3>4. QED BY <2>2, <3>1, <3>2, <3>3, Zenon DEF PolicyInv, EntryValid, HistoryVouches,
                                                  ApprovalValid, TrustedReviewer
  <2>3. CASE recorder[r].at = "append"
               /\ history' = Append(history, [recorder[r].entry EXCEPT !.whole = FALSE])
    <3>1. historyLock' = NoFile
      BY <2>1, <2>3, Zenon DEF PolicyInv, RecordersExclude
    <3>2. QED BY <1>8, <2>1, <2>3, <3>1, Zenon
  <2>4. QED BY <1>10, <2>2, <2>3, Zenon DEF RecordKilled
<1>11. CASE UNCHANGED policyVars
  <2>1. UNCHANGED <<document, signature, registry, planFile, approvalFile, history, historyLock,
                    recorder, records>>
    BY <1>11, Zenon DEF policyVars
  <2>2. QED BY <1>2, <2>1, Zenon DEF PolicyTypeOK
<1>12. CASE \/ \E doc \in PolicyDocs : DocumentEdited(doc)
            \/ \E reg \in PolicyRegistries : RegistryChanged(reg)
            \/ ArtifactRemoved \/ PolicySign \/ PolicyPlan
            \/ \E who \in Reviewers, key \in ReviewKeys : PolicyApprove(who, key)
  BY <1>2, <1>12, ReviewTypes, Zenon
<1>13. QED BY <1>3, <1>5, <1>7, <1>9, <1>10, <1>11, <1>12, Zenon DEF PolicyNext

\* In every behaviour of the review commands the files have their shape, the
\* recorders exclude each other and the history vouches for its entries.
THEOREM PolicyInvariant == PolicySpec => [](PolicyTypeOK /\ PolicyInv)
<1>1. PolicyInit => PolicyTypeOK /\ PolicyInv
  <2> SUFFICES ASSUME PolicyInit PROVE PolicyTypeOK /\ PolicyInv
    OBVIOUS
  <2>1. DOMAIN history = {} /\ history \in Seq(HistoryEntry) /\ records \in Nat
    BY DEF PolicyInit
  <2>2. PolicyTypeOK
    BY <2>1, Zenon DEF PolicyInit, PolicyTypeOK
  <2>3. \A r \in Recorders : recorder[r] = Resting /\ recorder[r].at = "idle"
    BY DEF PolicyInit, Resting
  <2>4. PolicyInv
    BY <2>1, <2>3, Zenon DEF PolicyInv, RecordersExclude, HistoryVouches
  <2>5. QED BY <2>2, <2>4, Zenon
<1>2. QED BY <1>1, PolicyStep, PTL DEF PolicySpec

\* Whatever is edited, replaced or interrupted between the commands of the
\* review: the history has at most one entry for a revision, and an approved
\* entry was approved, by the reviewer its key is bound to, as the plan it
\* records with every change shown.
THEOREM HistoryIsVouchedFor == PolicySpec => []HistoryVouches
<1>1. PolicyInv => HistoryVouches
  BY Zenon DEF PolicyInv
<1>2. QED BY <1>1, PolicyInvariant, PTL

\* compute_policy_diff of any valid document and any registry is empty exactly
\* when the registry follows the document.
THEOREM DiffIsExact == PolicySpec => []DiffExact
<1>1. PolicyTypeOK => DiffExact
  BY DiffExactFor, Zenon DEF PolicyTypeOK, DiffExact
<1>2. QED BY <1>1, PolicyInvariant, PTL

-----------------------------------------------------------------------------
(* Retention.                                                               *)

\* ORDER BY timestamp, rowid is a total order of the rows of a table.
LEMMA RowsOrdered ==
  ASSUME NEW a \in RetentionRow, NEW b \in RetentionRow, NEW c \in RetentionRow
  PROVE  /\ ~OlderRow(a, a) /\ ~(OlderRow(a, b) /\ OlderRow(b, a))
         /\ OlderRow(a, b) /\ OlderRow(b, c) => OlderRow(a, c)
         /\ a.id # b.id => OlderRow(a, b) \/ OlderRow(b, a)
         /\ OlderRow(a, b) => a.at <= b.at
BY DEF RetentionRow, OlderRow

\* The rows of a set that the order puts before a row.
OlderIn(S, r) == {x \in S : OlderRow(x, r)}

\* The older of two rows has fewer rows before it.
LEMMA OlderHasFewer ==
  ASSUME NEW S \in SUBSET RetentionRow, IsFiniteSet(S), NEW r \in S, NEW x \in S, OlderRow(x, r)
  PROVE  Cardinality(OlderIn(S, x)) < Cardinality(OlderIn(S, r))
<1>1. PICK A : A = OlderIn(S, x)
  BY Zenon
<1>2. PICK B : B = OlderIn(S, r)
  BY Zenon
<1>3. A \in SUBSET B
  <2>1. ASSUME NEW y \in A PROVE y \in B
    <3>1. y \in S /\ OlderRow(y, x) /\ y \in RetentionRow /\ x \in RetentionRow /\ r \in RetentionRow
      BY <1>1, Zenon DEF OlderIn
    <3>2. OlderRow(y, r)
      BY <3>1, RowsOrdered, Zenon
    <3> QED
      BY <1>2, <3>1, <3>2, Zenon DEF OlderIn
  <2> QED
    BY <2>1, Zenon
<1>4. A # B
  <2>1. x \in B /\ x \notin A
    BY <1>1, <1>2, RowsOrdered, Zenon DEF OlderIn
  <2> QED
    BY <2>1, Zenon
<1>5. B \in SUBSET S
  BY <1>2, Zenon DEF OlderIn
<1>6. IsFiniteSet(B) /\ IsFiniteSet(A)
  BY <1>3, <1>5, FS_Subset, Zenon
<1>7. Cardinality(A) <= Cardinality(B) /\ Cardinality(B) # Cardinality(A)
  BY <1>3, <1>4, <1>6, FS_Subset, Zenon
<1>8. Cardinality(A) \in Nat /\ Cardinality(B) \in Nat
  BY <1>6, FS_CardinalityType, Zenon
<1> QED
  BY <1>1, <1>2, <1>7, <1>8

\* A row has fewer rows before it than the set has.
LEMMA OlderCounted ==
  ASSUME NEW S \in SUBSET RetentionRow, IsFiniteSet(S), NEW r \in S
  PROVE  Cardinality(OlderIn(S, r)) \in 0..(Cardinality(S) - 1)
<1>1. PICK B : B = OlderIn(S, r)
  BY Zenon
<1>2. B \in SUBSET S /\ B # S
  <2>1. r \notin B
    BY <1>1, RowsOrdered, Zenon DEF OlderIn
  <2> QED
    BY <1>1, <2>1, Zenon DEF OlderIn
<1>3. IsFiniteSet(B) /\ Cardinality(B) <= Cardinality(S) /\ Cardinality(S) # Cardinality(B)
  BY <1>2, FS_Subset, Zenon
<1>4. Cardinality(B) \in Nat /\ Cardinality(S) \in Nat
  BY <1>3, FS_CardinalityType, Zenon
<1> QED
  BY <1>1, <1>3, <1>4

\* No two rows have the same number of rows before them.
LEMMA OlderDiffers ==
  ASSUME NEW S \in SUBSET RetentionRow, IsFiniteSet(S), DistinctIds(S), NEW r \in S, NEW x \in S,
         Cardinality(OlderIn(S, r)) = Cardinality(OlderIn(S, x))
  PROVE  r = x
<1>1. Cardinality(OlderIn(S, r)) \in Int /\ Cardinality(OlderIn(S, x)) \in Int
  <2>1. /\ Cardinality(OlderIn(S, r)) \in 0..(Cardinality(S) - 1)
        /\ Cardinality(OlderIn(S, x)) \in 0..(Cardinality(S) - 1)
    BY OlderCounted, Zenon
  <2> QED
    BY <2>1
<1>2. ~OlderRow(r, x) /\ ~OlderRow(x, r)
  <2>1. /\ OlderRow(r, x) => Cardinality(OlderIn(S, r)) < Cardinality(OlderIn(S, x))
        /\ OlderRow(x, r) => Cardinality(OlderIn(S, x)) < Cardinality(OlderIn(S, r))
    BY OlderHasFewer, Zenon
  <2> QED
    BY <1>1, <2>1
<1>3. r \in RetentionRow /\ x \in RetentionRow
  BY Zenon
<1>4. r.id = x.id
  BY <1>2, <1>3, RowsOrdered, Zenon
<1> QED
  BY <1>4, Zenon DEF DistinctIds

\* The numbers below n are n.
LEMMA InitialSegment ==
  ASSUME NEW n \in Nat
  PROVE  IsFiniteSet(0..(n - 1)) /\ Cardinality(0..(n - 1)) = n
<1>1. 0 \in Int /\ n - 1 \in Int
  OBVIOUS
<1>2. IsFiniteSet(0..(n - 1)) /\ Cardinality(0..(n - 1)) = IF 0 > n - 1 THEN 0 ELSE (n - 1) - 0 + 1
  BY <1>1, FS_Interval, Zenon
<1> QED
  BY <1>2

\* What ORDER BY ... LIMIT k selects: no more than k rows, and one at least when
\* there is any.
LEMMA OldestRows ==
  ASSUME NEW S \in SUBSET RetentionRow, IsFiniteSet(S), DistinctIds(S), NEW k \in Nat,
         NEW b, b = {r \in S : Cardinality(OlderIn(S, r)) < k}
  PROVE  /\ IsFiniteSet(b) /\ Cardinality(b) <= k
         /\ k > 0 /\ S # {} => b # {}
<1>1. b \in SUBSET S /\ IsFiniteSet(b)
  <2>1. b \in SUBSET S
    BY Zenon
  <2> QED
    BY <2>1, FS_Subset, Zenon
<1>2. PICK g : g = [r \in b |-> Cardinality(OlderIn(S, r))]
  BY Zenon
<1>3. g \in Injection(b, 0..(k - 1))
  <2>1. ASSUME NEW r \in b PROVE g[r] \in 0..(k - 1)
    <3>1. Cardinality(OlderIn(S, r)) \in 0..(Cardinality(S) - 1) /\ Cardinality(OlderIn(S, r)) < k
      BY OlderCounted, Zenon
    <3>2. g[r] = Cardinality(OlderIn(S, r))
      BY <1>2, Zenon
    <3> QED
      BY <3>1, <3>2
  <2>2. ASSUME NEW r \in b, NEW x \in b, g[r] = g[x] PROVE r = x
    <3>1. r \in S /\ x \in S /\ Cardinality(OlderIn(S, r)) = Cardinality(OlderIn(S, x))
      BY <1>2, <2>2, Zenon
    <3> QED
      BY <3>1, OlderDiffers, Zenon
  <2>3. g \in [b -> 0..(k - 1)]
    BY <1>2, <2>1
  <2> QED
    BY <2>2, <2>3, Zenon DEF Injection, IsInjective
<1>4. Cardinality(b) <= k
  <2>1. IsFiniteSet(0..(k - 1)) /\ Cardinality(0..(k - 1)) = k
    BY InitialSegment, Zenon
  <2>2. Cardinality(b) <= Cardinality(0..(k - 1))
    BY <1>3, <2>1, FS_Injection, Zenon
  <2> QED
    BY <2>1, <2>2, Zenon
<1>5. ASSUME k > 0, S # {} PROVE b # {}
  <2>1. PICK f : f = [r \in S |-> Cardinality(OlderIn(S, r))]
    BY Zenon
  <2>2. PICK n : n = Cardinality(S)
    BY Zenon
  <2>3. n \in Nat /\ n # 0
    BY <1>5, <2>2, FS_CardinalityType, FS_EmptySet, Zenon
  <2>4. \A r \in S : f[r] \in 0..(n - 1)
    BY <2>1, <2>2, OlderCounted, Zenon
  <2>5. f \in Injection(S, 0..(n - 1))
    <3>1. \A r, x \in S : f[r] = f[x] => r = x
      BY <2>1, OlderDiffers, Zenon
    <3>2. f \in [S -> 0..(n - 1)]
      BY <2>1, <2>4
    <3> QED
      BY <3>1, <3>2, Zenon DEF Injection, IsInjective
  <2>6. f \in Surjection(S, 0..(n - 1))
    <3>1. IsFiniteSet(0..(n - 1)) /\ Cardinality(0..(n - 1)) = n
      BY <2>3, InitialSegment, Zenon
    <3> QED
      BY <2>2, <2>5, <3>1, FS_Injection, Zenon
  <2>7. 0 \in 0..(n - 1)
    BY <2>3
  <2>8. PICK r \in S : f[r] = 0
    BY <2>6, <2>7, Zenon DEF Surjection
  <2>9. Cardinality(OlderIn(S, r)) < k
    BY <1>5, <2>1, <2>8
  <2> QED
    BY <2>9, Zenon
<1> QED
  BY <1>1, <1>4, <1>5, Zenon

\* Both reasons to give a row up, its age and the newer rows beyond max_rows,
\* hold for every row older than it.
LEMMA CandidatesOldest ==
  ASSUME NEW rows \in SUBSET RetentionRow, IsFiniteSet(rows), NEW cutoff \in Int, NEW max \in OrNoLimit,
         NEW b \in Candidates(rows, cutoff, max), NEW x \in rows, OlderRow(x, b)
  PROVE  x \in Candidates(rows, cutoff, max)
<1>1. b \in rows /\ b \in RetentionRow /\ x \in RetentionRow
  BY Zenon DEF Candidates, BeyondNewest
<1>2. CASE cutoff # NoLimit /\ b.at < cutoff
  <2>1. x.at <= b.at /\ x.at \in Nat /\ b.at \in Nat
    BY <1>1, RowsOrdered DEF RetentionRow
  <2>2. x.at < cutoff
    BY <1>2, <2>1
  <2> QED
    BY <1>2, <2>2, Zenon DEF Candidates
<1>3. CASE max # NoLimit /\ Cardinality({y \in rows : OlderRow(b, y)}) >= max
  <2>1. PICK A : A = {y \in rows : OlderRow(b, y)}
    BY Zenon
  <2>2. PICK B : B = {y \in rows : OlderRow(x, y)}
    BY Zenon
  <2>3. A \in SUBSET B /\ B \in SUBSET rows
    <3>1. ASSUME NEW y \in A PROVE y \in B
      <4>1. y \in rows /\ y \in RetentionRow /\ OlderRow(b, y)
        BY <2>1, Zenon
      <4>2. OlderRow(x, y)
        BY <1>1, <4>1, RowsOrdered, Zenon
      <4> QED
        BY <2>2, <4>1, <4>2, Zenon
    <3> QED
      BY <2>2, <3>1, Zenon
  <2>4. IsFiniteSet(B) /\ IsFiniteSet(A)
    BY <2>3, FS_Subset, Zenon
  <2>5. Cardinality(A) <= Cardinality(B)
    BY <2>3, <2>4, FS_Subset, Zenon
  <2>6. Cardinality(A) \in Nat /\ Cardinality(B) \in Nat
    BY <2>4, FS_CardinalityType, Zenon
  <2>7. Cardinality(B) >= max
    <3>1. max \in Int
      BY DEF OrNoLimit, NoLimit
    <3> QED
      BY <1>3, <2>1, <2>5, <2>6, <3>1
  <2> QED
    BY <1>3, <2>2, <2>7, Zenon DEF Candidates, BeyondNewest
<1> QED
  BY <1>2, <1>3, Zenon DEF Candidates, BeyondNewest

\* prune_retention_target_batch selects again after each batch: having deleted
\* the oldest candidates it finds exactly the others, none more and none less.
LEMMA BatchLeaves ==
  ASSUME NEW rows \in SUBSET RetentionRow, IsFiniteSet(rows), DistinctIds(rows),
         NEW cutoff \in Int, NEW max \in OrNoLimit, NEW size \in Nat,
         NEW batch, batch = Batch(rows, cutoff, max, size)
  PROVE  Candidates(rows \ batch, cutoff, max) = Candidates(rows, cutoff, max) \ batch
<1>1. PICK cand : cand = Candidates(rows, cutoff, max)
  BY Zenon
<1>2. cand \in SUBSET rows /\ batch \in SUBSET cand
  BY <1>1, Zenon DEF Candidates, BeyondNewest, Batch
<1>3. IsFiniteSet(cand) /\ cand \in SUBSET RetentionRow
  BY <1>2, FS_Subset, Zenon
<1>4. ASSUME NEW r \in rows \ batch, NEW b \in batch PROVE ~OlderRow(r, b)
  <2>1. SUFFICES ASSUME OlderRow(r, b) PROVE r \in batch
    BY <1>4, Zenon
  <2>2. r \in cand /\ b \in cand
    BY <1>1, <1>2, <2>1, CandidatesOldest, Zenon
  <2>3. Cardinality(OlderIn(cand, r)) < Cardinality(OlderIn(cand, b))
    BY <1>3, <2>1, <2>2, OlderHasFewer, Zenon
  <2>4. Cardinality(OlderIn(cand, b)) < size
    BY <1>1, Zenon DEF Batch, OlderIn
  <2>5. /\ Cardinality(OlderIn(cand, r)) \in 0..(Cardinality(cand) - 1)
        /\ Cardinality(OlderIn(cand, b)) \in 0..(Cardinality(cand) - 1)
    BY <1>3, <2>2, OlderCounted, Zenon
  <2>6. Cardinality(OlderIn(cand, r)) < size
    BY <2>3, <2>4, <2>5
  <2> QED
    BY <1>1, <2>2, <2>6, Zenon DEF Batch, OlderIn
<1>5. ASSUME NEW r \in rows \ batch
      PROVE  {x \in rows : OlderRow(r, x)} = {x \in rows \ batch : OlderRow(r, x)}
  BY <1>4, Zenon
<1>6. BeyondNewest(rows \ batch, max) = BeyondNewest(rows, max) \ batch
  <2>1. CASE max = NoLimit
    BY <2>1, Zenon DEF BeyondNewest
  <2>2. CASE max # NoLimit
    <3>1. ASSUME NEW r
          PROVE  r \in BeyondNewest(rows \ batch, max) <=> r \in BeyondNewest(rows, max) \ batch
      <4>1. CASE r \in rows \ batch
        BY <1>5, <2>2, <4>1, Zenon DEF BeyondNewest
      <4>2. CASE r \notin rows \ batch
        BY <2>2, <4>2, Zenon DEF BeyondNewest
      <4> QED
        BY <4>1, <4>2, Zenon
    <3> QED
      BY <3>1, Zenon
  <2> QED
    BY <2>1, <2>2, Zenon
<1> QED
  BY <1>6, Zenon DEF Candidates

\* A batch deletes candidates only, no more than it was asked for, and none only
\* when there is no candidate.
LEMMA BatchDeletes ==
  ASSUME NEW rows \in SUBSET RetentionRow, IsFiniteSet(rows), DistinctIds(rows),
         NEW cutoff, NEW max, NEW size \in Nat,
         NEW batch, batch = Batch(rows, cutoff, max, size)
  PROVE  /\ batch \subseteq Candidates(rows, cutoff, max) /\ Candidates(rows, cutoff, max) \subseteq rows
         /\ IsFiniteSet(batch) /\ Cardinality(batch) <= size
         /\ size > 0 /\ batch = {} => Candidates(rows, cutoff, max) = {}
<1>1. PICK cand : cand = Candidates(rows, cutoff, max)
  BY Zenon
<1>2. cand \in SUBSET rows
  BY <1>1, Zenon DEF Candidates, BeyondNewest
<1>3. cand \in SUBSET RetentionRow /\ IsFiniteSet(cand) /\ DistinctIds(cand)
  BY <1>2, FS_Subset, Zenon DEF DistinctIds
<1>4. batch = {r \in cand : Cardinality(OlderIn(cand, r)) < size}
  BY <1>1, Zenon DEF Batch, OlderIn
<1>5. IsFiniteSet(batch) /\ Cardinality(batch) <= size /\ (size > 0 /\ cand # {} => batch # {})
  BY <1>3, <1>4, OldestRows, Zenon
<1> QED
  BY <1>1, <1>2, <1>4, <1>5, Zenon

\* As many identifiers go as rows.
LEMMA IdsCounted ==
  ASSUME NEW D, IsFiniteSet(D), DistinctIds(D)
  PROVE  Cardinality({r.id : r \in D}) = Cardinality(D) /\ IsFiniteSet({r.id : r \in D})
<1>1. PICK ids : ids = {r.id : r \in D}
  BY Zenon
<1>2. PICK f : f = [r \in D |-> r.id]
  BY Zenon
<1>3. f \in [D -> ids] /\ (\A r \in D : f[r] = r.id)
  BY <1>1, <1>2
<1>4. f \in Injection(D, ids)
  BY <1>3, Zenon DEF DistinctIds, Injection, IsInjective
<1>5. f \in Surjection(D, ids)
  <2>1. \A i \in ids : \E r \in D : f[r] = i
    BY <1>1, <1>3, Zenon
  <2> QED
    BY <1>3, <2>1, Zenon DEF Surjection
<1>6. IsFiniteSet(ids) /\ Cardinality(ids) <= Cardinality(D)
  BY <1>5, FS_Surjection, Zenon
<1>7. Cardinality(D) <= Cardinality(ids)
  BY <1>4, <1>6, FS_Injection, Zenon
<1>8. Cardinality(D) \in Nat /\ Cardinality(ids) \in Nat
  BY <1>6, FS_CardinalityType, Zenon
<1> QED
  BY <1>1, <1>6, <1>7, <1>8

\* The table a command is at.
LEMMA ScopeAtHand ==
  ASSUME NEW a, ApplyUnderWay(a)
  PROVE  /\ Head(a.scopes) \in Scopes
         /\ Len(a.scopes) # 1 => Tail(a.scopes) \in Seq(Scopes) /\ Tail(a.scopes) # <<>>
<1>1. a.scopes \in Seq(Scopes) /\ a.scopes # <<>>
  BY Zenon DEF ApplyUnderWay
<1>2. Head(a.scopes) \in Scopes /\ Tail(a.scopes) \in Seq(Scopes) /\ Len(Tail(a.scopes)) = Len(a.scopes) - 1
  BY <1>1
<1>3. Len(a.scopes) \in Nat
  BY <1>1
<1>4. Len(a.scopes) # 1 => Len(Tail(a.scopes)) # 0
  BY <1>2, <1>3
<1>5. Len(<<>>) = 0
  OBVIOUS
<1> QED
  BY <1>2, <1>4, <1>5, Zenon

\* When a table is done the command goes on to the next or ends.
LEMMA ScopeDoneMoves ==
  ASSUME ApplyUnderWay(applying), ScopeDone
  PROVE  (applying' = NoApply \/ ApplyUnderWay(applying')) /\ ~Locked'
<1>1. CASE applying' = NoApply
  <2>1. applying'.step # "prune"
    BY <1>1 DEF NoApply
  <2> QED
    BY <1>1, <2>1, Zenon DEF Locked
<1>2. CASE applying' = [applying EXCEPT !.step = "policy", !.scopes = Tail(@), !.tx = NoTransaction]
           /\ Len(applying.scopes) # 1
  <2>1. PICK a : a = applying
    BY Zenon
  <2>2. PICK b : b = applying'
    BY Zenon
  <2>3. DOMAIN a = {"step", "op", "actor", "scopes", "cutoff", "limit", "policy", "tx"}
    BY <2>1, Zenon DEF ApplyUnderWay
  <2>4. /\ b.step = "policy" /\ b.op = a.op /\ b.scopes = Tail(a.scopes) /\ b.cutoff = a.cutoff
        /\ b.limit = a.limit /\ b.policy = a.policy /\ b.tx = NoTransaction /\ DOMAIN b = DOMAIN a
    BY <1>2, <2>1, <2>2, <2>3
  <2>5. DOMAIN NoTransaction = {"rows", "cutoff", "planned", "deleted"}
    BY DEF NoTransaction
  <2>6. Tail(a.scopes) \in Seq(Scopes) /\ Tail(a.scopes) # <<>>
    BY <1>2, <2>1, ScopeAtHand, Zenon
  <2>7. ApplyUnderWay(b)
    BY <2>1, <2>3, <2>4, <2>5, <2>6, Zenon DEF ApplyUnderWay
  <2>8. b.step # "prune"
    BY <2>4
  <2> QED
    BY <2>2, <2>7, <2>8, Zenon DEF Locked
<1> QED
  BY <1>1, <1>2, Zenon DEF ScopeDone

\* A step that touches no table and no event.
LEMMA NothingDeleted ==
  ASSUME RetentionInv, UNCHANGED <<retRows, retAudit, retGone>>, retClock' \in Nat,
         retPolicy' \in [Scopes -> RetentionPolicy],
         applying' = NoApply \/ ApplyUnderWay(applying'), (Locked => PruneOnCourse(applying))'
  PROVE  RetentionInv'
<1>1. RetentionTypeOK'
  BY Zenon DEF RetentionInv, RetentionTypeOK
<1>2. InsertedInOrder'
  BY Zenon DEF RetentionInv, InsertedInOrder, Inserted
<1>3. DeletedAsReported'
  BY DEF RetentionInv, DeletedAsReported
<1> QED
  BY <1>1, <1>2, <1>3, Zenon DEF RetentionInv

\* `retention apply` begins.
LEMMA ApplyBeginsKeeps ==
  ASSUME RetentionInv, NEW op \in RetentionOps, NEW actor, NEW cutoff \in RetentionCutoffs,
         NEW limit \in RetentionLimits, NEW scopes \in {RetentionScopes} \cup {<<s>> : s \in Scopes},
         ApplyBegins(op, actor, scopes, cutoff, limit)
  PROVE  RetentionInv'
<1>1. PICK b : b = applying'
  BY Zenon
<1>2. b = [step |-> "policy", op |-> op, actor |-> actor, scopes |-> scopes,
           cutoff |-> cutoff, limit |-> limit, policy |-> [age |-> NoLimit, rows |-> NoLimit],
           tx |-> NoTransaction]
  BY <1>1, Zenon DEF ApplyBegins
<1>3. /\ b.step = "policy" /\ b.op = op /\ b.scopes = scopes /\ b.cutoff = cutoff /\ b.limit = limit
      /\ b.policy = [age |-> NoLimit, rows |-> NoLimit] /\ b.tx = NoTransaction
      /\ DOMAIN b = {"step", "op", "actor", "scopes", "cutoff", "limit", "policy", "tx"}
  BY <1>2
<1>4. [age |-> NoLimit, rows |-> NoLimit] \in RetentionPolicy
  BY DEF RetentionPolicy, OrNoLimit, NoLimit
<1>5. DOMAIN NoTransaction = {"rows", "cutoff", "planned", "deleted"}
  BY DEF NoTransaction
<1>6. scopes \in Seq(Scopes) /\ scopes # <<>>
  <2>1. RetentionScopes \in Seq(Scopes) /\ RetentionScopes # <<>>
    BY RetentionAssumption DEF Scopes
  <2>2. \A s \in Scopes : <<s>> \in Seq(Scopes) /\ <<s>> # <<>>
    OBVIOUS
  <2> QED
    BY <2>1, <2>2, Zenon
<1>7. cutoff \in OrNoLimit /\ limit \in OrNoLimit
  BY RetentionAssumption, Zenon
<1>8. ApplyUnderWay(b)
  BY <1>3, <1>4, <1>5, <1>6, <1>7, Zenon DEF ApplyUnderWay
<1>9. ~Locked'
  BY <1>1, <1>3 DEF Locked
<1> QED
  BY <1>1, <1>8, <1>9, NothingDeleted, Zenon DEF ApplyBegins, RetentionInv, RetentionTypeOK

\* effective_retention_policy is read before the transaction.
LEMMA ReadsRetentionPolicyKeeps ==
  ASSUME RetentionInv, ReadsRetentionPolicy
  PROVE  RetentionInv'
<1>1. PICK a : a = applying
  BY Zenon
<1>2. PICK b : b = applying'
  BY Zenon
<1>3. ApplyUnderWay(a)
  <2>1. applying # NoApply
    BY DEF ReadsRetentionPolicy, NoApply
  <2> QED
    BY <1>1, <2>1, Zenon DEF RetentionInv, RetentionTypeOK
<1>4. PICK p : p = retPolicy[Head(a.scopes)]
  BY Zenon
<1>5. p \in RetentionPolicy
  <2>1. Head(a.scopes) \in Scopes
    BY <1>3, ScopeAtHand, Zenon
  <2>2. retPolicy \in [Scopes -> RetentionPolicy]
    BY Zenon DEF RetentionInv, RetentionTypeOK
  <2> QED
    BY <1>4, <2>1, <2>2, Zenon
<1>6. b = [a EXCEPT !.step = "apply", !.policy = p]
  BY <1>1, <1>2, <1>4, Zenon DEF ReadsRetentionPolicy
<1>7. DOMAIN a = {"step", "op", "actor", "scopes", "cutoff", "limit", "policy", "tx"}
  BY <1>3, Zenon DEF ApplyUnderWay
<1>8. /\ b.step = "apply" /\ b.op = a.op /\ b.scopes = a.scopes /\ b.cutoff = a.cutoff
      /\ b.limit = a.limit /\ b.policy = p /\ b.tx = a.tx /\ DOMAIN b = DOMAIN a
  BY <1>6, <1>7
<1>9. ApplyUnderWay(b)
  BY <1>3, <1>5, <1>8, Zenon DEF ApplyUnderWay
<1>10. ~Locked'
  BY <1>2, <1>8 DEF Locked
<1> QED
  BY <1>2, <1>9, <1>10, NothingDeleted, Zenon DEF ReadsRetentionPolicy, RetentionInv, RetentionTypeOK

\* apply_retention opens its transaction: it ends when the operation has an
\* event, and otherwise plans no more rows than there are candidates.
LEMMA PlansRetentionKeeps ==
  ASSUME RetentionInv, PlansRetention
  PROVE  RetentionInv'
<1>1. PICK a : a = applying
  BY Zenon
<1>2. PICK b : b = applying'
  BY Zenon
<1>3. ApplyUnderWay(a)
  <2>1. applying # NoApply
    BY DEF PlansRetention, NoApply
  <2> QED
    BY <1>1, <2>1, Zenon DEF RetentionInv, RetentionTypeOK
<1>4. PICK scope \in Scopes : scope = Head(a.scopes)
  BY <1>3, ScopeAtHand, Zenon
<1>5. CASE EarlierEvents(a.op, scope) # {}
  <2>1. ScopeDone \/ applying' = NoApply
    BY <1>1, <1>4, <1>5, Zenon DEF PlansRetention
  <2>2. (applying' = NoApply \/ ApplyUnderWay(applying')) /\ ~Locked'
    <3>1. applying' = NoApply => ~Locked'
      BY DEF Locked, NoApply
    <3> QED
      BY <1>1, <1>3, <2>1, <3>1, ScopeDoneMoves, Zenon
  <2> QED
    BY <2>2, NothingDeleted, Zenon DEF PlansRetention, RetentionInv, RetentionTypeOK
<1>6. CASE EarlierEvents(a.op, scope) = {}
  <2>1. PICK cutoff : cutoff = IF a.cutoff # NoLimit THEN a.cutoff
                               ELSE IF a.policy.age # NoLimit THEN retClock - a.policy.age ELSE NoLimit
    BY Zenon
  <2>2. PICK rows : rows = retRows[scope]
    BY Zenon
  <2>3. PICK matched : matched = Cardinality(Candidates(rows, cutoff, a.policy.rows))
    BY Zenon
  <2>4. PICK planned : planned = IF a.limit = NoLimit THEN matched ELSE Least(matched, a.limit)
    BY Zenon
  <2>5. PICK tx : tx = [rows |-> rows, cutoff |-> cutoff, planned |-> planned, deleted |-> 0]
    BY Zenon
  <2>6. b = [a EXCEPT !.step = "prune", !.tx = tx]
    BY <1>1, <1>2, <1>4, <1>6, <2>1, <2>2, <2>3, <2>4, <2>5, Zenon DEF PlansRetention
  <2>7. DOMAIN a = {"step", "op", "actor", "scopes", "cutoff", "limit", "policy", "tx"}
    BY <1>3, Zenon DEF ApplyUnderWay
  <2>8. /\ b.step = "prune" /\ b.op = a.op /\ b.scopes = a.scopes /\ b.cutoff = a.cutoff
        /\ b.limit = a.limit /\ b.policy = a.policy /\ b.tx = tx /\ DOMAIN b = DOMAIN a
    BY <2>6, <2>7, Zenon
  <2>9. /\ tx.rows = rows /\ tx.cutoff = cutoff /\ tx.planned = planned /\ tx.deleted = 0
        /\ DOMAIN tx = {"rows", "cutoff", "planned", "deleted"}
    BY <2>5, Zenon
  <2>10. ApplyUnderWay(b)
    <3>1. b.step \in {"policy", "apply", "prune"}
      BY <2>8, Zenon
    <3> QED
      BY <1>3, <2>8, <2>9, <3>1, Zenon DEF ApplyUnderWay
  <2>11. cutoff \in Int
    <3>1. a.cutoff \in Int /\ a.policy.age \in Int /\ retClock \in Int
      <4>1. a.cutoff \in OrNoLimit /\ a.policy \in RetentionPolicy /\ retClock \in Nat
        BY <1>3, Zenon DEF ApplyUnderWay, RetentionInv, RetentionTypeOK
      <4> QED
        BY <4>1 DEF RetentionPolicy, OrNoLimit, NoLimit
    <3> QED
      BY <2>1, <3>1 DEF NoLimit
  <2>12. IsFiniteSet(rows)
    BY <2>2, Zenon DEF RetentionInv, RetentionTypeOK
  <2>13. matched \in Nat
    <3>1. Candidates(rows, cutoff, a.policy.rows) \in SUBSET rows
      BY Zenon DEF Candidates, BeyondNewest
    <3> QED
      BY <2>3, <2>12, <3>1, FS_Subset, FS_CardinalityType, Zenon
  <2>14. planned \in Nat /\ planned <= matched /\ (a.limit # NoLimit => planned <= a.limit)
    <3>1. a.limit \in OrNoLimit
      BY <1>3, Zenon DEF ApplyUnderWay
    <3> QED
      BY <2>4, <2>13, <3>1 DEF Least, OrNoLimit
  <2>15. Cardinality(rows \ rows) = 0
    <3>1. rows \ rows = {}
      BY Zenon
    <3> QED
      BY <3>1, FS_EmptySet, Zenon
  <2>16. 0 \in Nat /\ 0 <= planned /\ planned - 0 <= matched
    BY <2>13, <2>14
  <2>17. EarlierEvents(a.op, scope)' = {}
    BY <1>6, Zenon DEF EarlierEvents, PlansRetention
  <2>18. rows = retRows'[scope]
    BY <2>2, Zenon DEF PlansRetention
  <2>19. PruneOnCourse(applying)'
    BY <1>2, <1>4, <2>3, <2>8, <2>9, <2>11, <2>14, <2>15, <2>16, <2>17, <2>18, Zenon
       DEF PruneOnCourse, EarlierEvents
  <2> QED
    BY <1>2, <2>10, <2>19, NothingDeleted, Zenon DEF PlansRetention, RetentionInv, RetentionTypeOK
<1> QED
  BY <1>5, <1>6, Zenon

\* What holds of the table while the transaction is open.
LEMMA InTransaction ==
  ASSUME RetentionInv, Locked
  PROVE  /\ ApplyUnderWay(applying) /\ PruneOnCourse(applying)
         /\ applying.tx.rows \in SUBSET RetentionRow /\ IsFiniteSet(applying.tx.rows)
         /\ DistinctIds(applying.tx.rows) /\ IsFiniteSet(retRows[Head(applying.scopes)])
         /\ DistinctIds(retRows[Head(applying.scopes)])
         /\ applying.policy.rows \in OrNoLimit
<1>1. ApplyUnderWay(applying)
  <2>1. applying # NoApply
    BY DEF Locked, NoApply
  <2> QED
    BY <2>1, Zenon DEF RetentionInv, RetentionTypeOK
<1>2. PruneOnCourse(applying)
  BY Zenon DEF RetentionInv
<1>3. PICK scope \in Scopes : scope = Head(applying.scopes)
  BY <1>1, ScopeAtHand, Zenon
<1>4. retRows[scope] \in SUBSET RetentionRow /\ IsFiniteSet(retRows[scope]) /\ DistinctIds(retRows[scope])
  <2>1. retRows \in [Scopes -> SUBSET RetentionRow]
    BY Zenon DEF RetentionInv, RetentionTypeOK
  <2> QED
    BY <2>1, Zenon DEF RetentionInv, RetentionTypeOK
<1>5. PICK rows : rows = applying.tx.rows
  BY Zenon
<1>6. rows \in SUBSET retRows[scope]
  BY <1>2, <1>3, <1>5, Zenon DEF PruneOnCourse
<1>7. rows \in SUBSET RetentionRow /\ IsFiniteSet(rows) /\ DistinctIds(rows)
  BY <1>4, <1>6, FS_Subset, Zenon DEF DistinctIds
<1>8. applying.policy.rows \in OrNoLimit
  <2>1. applying.policy \in RetentionPolicy
    BY <1>1, Zenon DEF ApplyUnderWay
  <2> QED
    BY <2>1 DEF RetentionPolicy
<1> QED
  BY <1>1, <1>2, <1>3, <1>4, <1>5, <1>7, <1>8, Zenon

\* A batch: what is still planned stays within what the next one can find, and
\* the count is the number of rows gone.
LEMMA PrunesBatchKeeps ==
  ASSUME RetentionInv, PrunesBatch
  PROVE  RetentionInv'
<1>1. PICK a : a = applying
  BY Zenon
<1>2. PICK b : b = applying'
  BY Zenon
<1>3. Locked /\ a.step = "prune"
  BY <1>1, Zenon DEF PrunesBatch, Locked
<1>4. /\ ApplyUnderWay(a) /\ PruneOnCourse(a) /\ a.tx.rows \in SUBSET RetentionRow
      /\ IsFiniteSet(a.tx.rows) /\ DistinctIds(a.tx.rows) /\ IsFiniteSet(retRows[Head(a.scopes)])
      /\ a.policy.rows \in OrNoLimit
  BY <1>1, <1>3, InTransaction, Zenon
<1>5. PICK rows : rows = a.tx.rows
  BY Zenon
<1>6. PICK cutoff \in Int : cutoff = a.tx.cutoff
  BY <1>4, Zenon DEF PruneOnCourse
<1>7. PICK max \in OrNoLimit : max = a.policy.rows
  BY <1>4, Zenon
<1>8. PICK planned \in Nat : planned = a.tx.planned
  BY <1>4, Zenon DEF PruneOnCourse
<1>9. PICK deleted \in Nat : deleted = a.tx.deleted
  BY <1>4, Zenon DEF PruneOnCourse
<1>10. PICK size : size = Least(planned - deleted, RetentionBatch)
  BY Zenon
<1>11. deleted < planned
  BY <1>1, <1>8, <1>9, Zenon DEF PrunesBatch
<1>12. size \in Nat /\ size <= planned - deleted
  BY <1>10, <1>11, RetentionAssumption DEF Least
<1>13. PICK batch : batch = Batch(rows, cutoff, max, size)
  BY Zenon
<1>14. PICK cand : cand = Candidates(rows, cutoff, max)
  BY Zenon
<1>15. batch \subseteq cand /\ cand \subseteq rows /\ IsFiniteSet(batch) /\ Cardinality(batch) <= size
  BY <1>4, <1>5, <1>12, <1>13, <1>14, BatchDeletes, Zenon
<1>16. Candidates(rows \ batch, cutoff, max) = cand \ batch
  <2>1. rows \in SUBSET RetentionRow /\ IsFiniteSet(rows) /\ DistinctIds(rows) /\ size \in Nat
    BY <1>4, <1>5, <1>12, Zenon
  <2>2. Candidates(rows \ batch, cutoff, max) = Candidates(rows, cutoff, max) \ batch
    BY <1>13, <2>1, BatchLeaves
  <2> QED
    BY <1>14, <2>2, Zenon
<1>17. PICK n : n = Cardinality(batch)
  BY Zenon
<1>18. n \in Nat /\ n <= size
  BY <1>15, <1>17, FS_CardinalityType, Zenon
<1>19. b = [a EXCEPT !.tx.rows = @ \ batch, !.tx.deleted = @ + n]
  BY <1>1, <1>2, <1>5, <1>6, <1>7, <1>8, <1>9, <1>10, <1>13, <1>17, Zenon DEF PrunesBatch, NextBatch
<1>20. /\ DOMAIN a = {"step", "op", "actor", "scopes", "cutoff", "limit", "policy", "tx"}
       /\ DOMAIN a.tx = {"rows", "cutoff", "planned", "deleted"}
  BY <1>4, Zenon DEF ApplyUnderWay
<1>21. /\ b.step = "prune" /\ b.op = a.op /\ b.scopes = a.scopes /\ b.cutoff = a.cutoff
       /\ b.limit = a.limit /\ b.policy = a.policy /\ DOMAIN b = DOMAIN a
  BY <1>3, <1>19, <1>20
<1>22. /\ b.tx.rows = rows \ batch /\ b.tx.cutoff = cutoff /\ b.tx.planned = planned
       /\ b.tx.deleted = deleted + n /\ DOMAIN b.tx = DOMAIN a.tx
  BY <1>5, <1>6, <1>8, <1>9, <1>19, <1>20
<1>23. ApplyUnderWay(b)
  BY <1>3, <1>4, <1>20, <1>21, <1>22, Zenon DEF ApplyUnderWay
<1>24. PICK table : table = retRows[Head(a.scopes)]
  BY Zenon
<1>25. PICK gone : gone = table \ rows
  BY Zenon
<1>26. rows \subseteq table /\ deleted = Cardinality(gone) /\ planned - deleted <= Cardinality(cand)
  BY <1>4, <1>5, <1>6, <1>7, <1>8, <1>9, <1>14, <1>24, <1>25, Zenon DEF PruneOnCourse
<1>27. Cardinality(table \ (rows \ batch)) = deleted + n
  <2>1. table \ (rows \ batch) = gone \cup batch /\ gone \cap batch = {}
    BY <1>15, <1>25, <1>26, Zenon
  <2>2. IsFiniteSet(gone)
    <3>1. gone \in SUBSET table /\ IsFiniteSet(table)
      BY <1>4, <1>24, <1>25, Zenon
    <3> QED
      BY <3>1, FS_Subset, Zenon
  <2>3. Cardinality(gone \cup batch) = Cardinality(gone) + Cardinality(batch) - Cardinality(gone \cap batch)
    BY <1>15, <2>2, FS_Union, Zenon
  <2>4. Cardinality(gone \cap batch) = 0
    BY <2>1, FS_EmptySet, Zenon
  <2>5. Cardinality(gone \cup batch) = deleted + n - 0
    BY <1>17, <1>26, <2>3, <2>4, Zenon
  <2> QED
    BY <1>18, <2>1, <2>5
<1>28. planned - (deleted + n) <= Cardinality(cand \ batch)
  <2>1. IsFiniteSet(cand)
    <3>1. cand \in SUBSET rows
      BY <1>15, Zenon
    <3> QED
      BY <1>4, <1>5, <3>1, FS_Subset, Zenon
  <2>2. cand \cap batch = batch
    BY <1>15, Zenon
  <2>3. Cardinality(cand \ batch) = Cardinality(cand) - Cardinality(cand \cap batch)
    BY <2>1, FS_Difference, Zenon
  <2>4. Cardinality(cand \ batch) = Cardinality(cand) - n
    BY <1>17, <2>2, <2>3, Zenon
  <2>5. Cardinality(cand) \in Nat
    BY <2>1, FS_CardinalityType, Zenon
  <2> QED
    BY <1>18, <1>26, <2>4, <2>5
<1>29. deleted + n \in Nat /\ deleted + n <= planned
  BY <1>12, <1>18
<1>30. UNCHANGED <<retClock, retRows, retPolicy, retAudit, retGone, retApplies>>
  BY Zenon DEF PrunesBatch
<1>31. EarlierEvents(a.op, Head(a.scopes))' = {}
  BY <1>4, <1>30, Zenon DEF PruneOnCourse, EarlierEvents
<1>32. table = retRows'[Head(a.scopes)] /\ rows \ batch \subseteq table
  BY <1>24, <1>26, <1>30, Zenon
<1>33. a.limit # NoLimit => planned <= a.limit
  BY <1>4, <1>8, Zenon DEF PruneOnCourse
<1>34. PruneOnCourse(applying)'
  BY <1>2, <1>7, <1>16, <1>21, <1>22, <1>27, <1>28, <1>29, <1>31, <1>32, <1>33, Zenon
     DEF PruneOnCourse, EarlierEvents
<1> QED
  BY <1>2, <1>23, <1>30, <1>34, NothingDeleted, Zenon DEF RetentionInv, RetentionTypeOK

\* At the commit the loop has deleted what was planned: it did not break off.
LEMMA PlannedIsDeleted ==
  ASSUME RetentionInv, CommitsRetention
  PROVE  applying.tx.deleted = applying.tx.planned
<1>1. PICK a : a = applying
  BY Zenon
<1>2. Locked
  BY Zenon DEF CommitsRetention
<1>3. /\ PruneOnCourse(a) /\ a.tx.rows \in SUBSET RetentionRow
      /\ IsFiniteSet(a.tx.rows) /\ DistinctIds(a.tx.rows)
  BY <1>1, <1>2, InTransaction, Zenon
<1>4. PICK planned \in Nat : planned = a.tx.planned
  BY <1>3, Zenon DEF PruneOnCourse
<1>5. PICK deleted \in Nat : deleted = a.tx.deleted
  BY <1>3, Zenon DEF PruneOnCourse
<1>6. deleted <= planned
  BY <1>3, <1>4, <1>5, Zenon DEF PruneOnCourse
<1>7. CASE deleted >= planned
  BY <1>1, <1>4, <1>5, <1>6, <1>7
<1>8. CASE NextBatch(a) = {} /\ deleted < planned
  <2>1. PICK size : size = Least(planned - deleted, RetentionBatch)
    BY Zenon
  <2>2. size \in Nat /\ size > 0
    BY <1>8, <2>1, RetentionAssumption DEF Least
  <2>3. Batch(a.tx.rows, a.tx.cutoff, a.policy.rows, size) = {}
    BY <1>4, <1>5, <1>8, <2>1, Zenon DEF NextBatch
  <2>4. Candidates(a.tx.rows, a.tx.cutoff, a.policy.rows) = {}
    BY <1>3, <2>2, <2>3, BatchDeletes, Zenon
  <2>5. planned - deleted <= 0
    BY <1>3, <1>4, <1>5, <2>4, FS_EmptySet, Zenon DEF PruneOnCourse
  <2> QED
    BY <1>8, <2>5
<1>9. deleted >= planned \/ NextBatch(a) = {}
  BY <1>1, <1>4, <1>5, Zenon DEF CommitsRetention
<1>10. deleted >= planned \/ deleted < planned
  OBVIOUS
<1> QED
  BY <1>7, <1>8, <1>9, <1>10, Zenon

\* The commit: the only event of the operation for the scope says what has gone.
LEMMA CommitsRetentionReports ==
  ASSUME RetentionInv, CommitsRetention
  PROVE  DeletedAsReported'
<1>1. PICK a : a = applying
  BY Zenon
<1>2. PICK scope : scope = Head(a.scopes)
  BY Zenon
<1>3. Locked
  BY Zenon DEF CommitsRetention
<1>4. /\ ApplyUnderWay(a) /\ PruneOnCourse(a) /\ IsFiniteSet(retRows[scope]) /\ DistinctIds(retRows[scope])
  BY <1>1, <1>2, <1>3, InTransaction, Zenon
<1>5. scope \in Scopes /\ a.op \in RetentionOps
  BY <1>2, <1>4, ScopeAtHand, Zenon DEF ApplyUnderWay
<1>6. PICK event : event = [op |-> a.op, scope |-> scope, actor |-> a.actor, input |-> ApplyInput(a),
                            result |-> [planned |-> a.tx.planned, deleted |-> a.tx.deleted]]
  BY Zenon
<1>7. retAudit' = retAudit \cup {event}
  BY <1>1, <1>2, <1>6, Zenon DEF CommitsRetention
<1>8. /\ event.op = a.op /\ event.scope = scope /\ event.input.limit = a.limit
      /\ event.result.planned = a.tx.planned /\ event.result.deleted = a.tx.deleted
  BY <1>6 DEF ApplyInput
<1>9. PICK gone : gone = retRows[scope] \ a.tx.rows
  BY Zenon
<1>10. PICK ids : ids = {r.id : r \in gone}
  BY Zenon
<1>11. Cardinality(ids) = a.tx.deleted
  <2>1. gone \in SUBSET retRows[scope]
    BY <1>9, Zenon
  <2>2. IsFiniteSet(gone) /\ DistinctIds(gone)
    BY <1>4, <2>1, FS_Subset, Zenon DEF DistinctIds
  <2>3. Cardinality(ids) = Cardinality(gone)
    BY <1>10, <2>2, IdsCounted, Zenon
  <2> QED
    BY <1>2, <1>4, <1>9, <2>3, Zenon DEF PruneOnCourse
<1>12. a.tx.deleted = a.tx.planned
  BY <1>1, PlannedIsDeleted, Zenon
<1>13. a.limit # NoLimit => a.tx.deleted <= a.limit
  BY <1>4, <1>12, Zenon DEF PruneOnCourse
<1>14. retGone' = [retGone EXCEPT ![<<a.op, scope>>] = @ \cup ids]
  BY <1>1, <1>2, <1>9, <1>10, Zenon DEF CommitsRetention
<1>15. retGone \in [RetentionOps \X Scopes -> SUBSET Nat]
  BY Zenon DEF RetentionInv, RetentionTypeOK
<1>16. EarlierEvents(a.op, scope) = {}
  BY <1>2, <1>4, Zenon DEF PruneOnCourse
<1>17. retGone[<<a.op, scope>>] = {}
  BY <1>5, <1>16, Zenon DEF RetentionInv, DeletedAsReported, EarlierEvents
<1>18. SUFFICES ASSUME NEW op \in RetentionOps, NEW s \in Scopes,
                       NEW events, events = {e \in retAudit' : e.op = op /\ e.scope = s}
                PROVE  /\ Cardinality(events) <= 1
                       /\ events = {} => retGone'[<<op, s>>] = {}
                       /\ \A e \in events :
                            /\ Cardinality(retGone'[<<op, s>>]) = e.result.deleted
                            /\ e.result.deleted = e.result.planned
                            /\ e.input.limit # NoLimit => e.result.deleted <= e.input.limit
  BY DEF DeletedAsReported
<1>19. CASE op = a.op /\ s = scope
  <2>1. events = {event}
    BY <1>7, <1>8, <1>16, <1>18, <1>19, Zenon DEF EarlierEvents
  <2>2. Cardinality(events) = 1
    BY <2>1, FS_Singleton, Zenon
  <2>3. Cardinality(events) <= 1
    BY <2>2
  <2>4. retGone'[<<op, s>>] = ids
    <3>1. retGone'[<<op, s>>] = retGone[<<op, s>>] \cup ids
      BY <1>5, <1>14, <1>15, <1>19
    <3> QED
      BY <1>17, <1>19, <3>1, Zenon
  <2> QED
    BY <1>8, <1>11, <1>12, <1>13, <2>1, <2>3, <2>4, Zenon
<1>20. CASE ~(op = a.op /\ s = scope)
  <2>1. events = {e \in retAudit : e.op = op /\ e.scope = s}
    BY <1>7, <1>8, <1>18, <1>20, Zenon
  <2>2. retGone'[<<op, s>>] = retGone[<<op, s>>]
    BY <1>5, <1>14, <1>15, <1>20
  <2>3. /\ Cardinality(events) <= 1
        /\ events = {} => retGone[<<op, s>>] = {}
        /\ \A e \in events :
             /\ Cardinality(retGone[<<op, s>>]) = e.result.deleted
             /\ e.result.deleted = e.result.planned
             /\ e.input.limit # NoLimit => e.result.deleted <= e.input.limit
    BY <2>1 DEF RetentionInv, DeletedAsReported
  <2> QED
    BY <2>2, <2>3, Zenon
<1> QED
  BY <1>19, <1>20, Zenon

\* The commit: what is in a table or has gone from it is what was.
LEMMA CommitsRetentionKeepsIds ==
  ASSUME RetentionInv, CommitsRetention
  PROVE  RetentionTypeOK' /\ InsertedInOrder'
<1>1. PICK a : a = applying
  BY Zenon
<1>2. PICK scope : scope = Head(a.scopes)
  BY Zenon
<1>3. Locked
  BY Zenon DEF CommitsRetention
<1>4. /\ ApplyUnderWay(a) /\ PruneOnCourse(a) /\ a.tx.rows \in SUBSET RetentionRow
      /\ IsFiniteSet(a.tx.rows) /\ DistinctIds(a.tx.rows)
  BY <1>1, <1>2, <1>3, InTransaction, Zenon
<1>5. scope \in Scopes /\ a.op \in RetentionOps
  BY <1>2, <1>4, ScopeAtHand, Zenon DEF ApplyUnderWay
<1>6. PICK rows : rows = a.tx.rows
  BY Zenon
<1>7. PICK ids : ids = {r.id : r \in retRows[scope] \ rows}
  BY Zenon
<1>8. /\ retRows \in [Scopes -> SUBSET RetentionRow]
      /\ retGone \in [RetentionOps \X Scopes -> SUBSET Nat]
  BY Zenon DEF RetentionInv, RetentionTypeOK
<1>9. /\ retRows' = [retRows EXCEPT ![scope] = rows]
      /\ retGone' = [retGone EXCEPT ![<<a.op, scope>>] = @ \cup ids]
  BY <1>1, <1>2, <1>6, <1>7, Zenon DEF CommitsRetention
<1>10. ids \in SUBSET Nat
  <2>1. retRows[scope] \in SUBSET RetentionRow
    BY <1>5, <1>8, Zenon
  <2> QED
    BY <1>7, <2>1 DEF RetentionRow
<1>11. \A s \in Scopes : retRows'[s] = IF s = scope THEN rows ELSE retRows[s]
  BY <1>8, <1>9, Zenon
<1>12. \A op \in RetentionOps, s \in Scopes :
         retGone'[<<op, s>>] = IF op = a.op /\ s = scope THEN retGone[<<op, s>>] \cup ids ELSE retGone[<<op, s>>]
  BY <1>5, <1>8, <1>9
<1>13. RetentionTypeOK'
  <2>1. retRows' \in [Scopes -> SUBSET RetentionRow]
    BY <1>4, <1>6, <1>8, <1>9
  <2>2. \A s \in Scopes : IsFiniteSet(retRows'[s]) /\ DistinctIds(retRows'[s])
    <3>1. \A s \in Scopes : IsFiniteSet(retRows[s]) /\ DistinctIds(retRows[s])
      BY Zenon DEF RetentionInv, RetentionTypeOK
    <3> QED
      BY <1>4, <1>6, <1>11, <3>1, Zenon
  <2>3. retGone' \in [RetentionOps \X Scopes -> SUBSET Nat]
    <3>1. retGone[<<a.op, scope>>] \cup ids \in SUBSET Nat
      <4>1. <<a.op, scope>> \in RetentionOps \X Scopes
        BY <1>5, Zenon
      <4> QED
        BY <1>8, <1>10, <4>1, Zenon
    <3> QED
      BY <1>8, <1>9, <3>1
  <2>4. applying' = NoApply \/ ApplyUnderWay(applying')
    BY <1>1, <1>4, ScopeDoneMoves, Zenon DEF CommitsRetention
  <2>5. retClock' \in Nat /\ retPolicy' \in [Scopes -> RetentionPolicy]
    BY Zenon DEF CommitsRetention, RetentionInv, RetentionTypeOK
  <2> QED
    BY <2>1, <2>2, <2>3, <2>4, <2>5, Zenon DEF RetentionTypeOK, DistinctIds
<1>14. ASSUME NEW s \in Scopes PROVE Inserted(s)' = Inserted(s)
  <2>1. CASE s # scope
    <3>1. retRows'[s] = retRows[s] /\ (\A op \in RetentionOps : retGone'[<<op, s>>] = retGone[<<op, s>>])
      BY <1>11, <1>12, <2>1, Zenon
    <3> QED
      BY <3>1, Zenon DEF Inserted
  <2>2. CASE s = scope
    <3>1. rows \subseteq retRows[s] /\ retRows'[s] = rows
      BY <1>2, <1>4, <1>6, <1>11, <2>2, Zenon DEF PruneOnCourse
    <3>2. /\ retGone'[<<a.op, s>>] = retGone[<<a.op, s>>] \cup ids
          /\ \A op \in RetentionOps : op # a.op => retGone'[<<op, s>>] = retGone[<<op, s>>]
      BY <1>5, <1>12, <2>2, Zenon
    <3>3. ASSUME NEW i PROVE i \in Inserted(s)' => i \in Inserted(s)
      <4>1. CASE i \in {r.id : r \in rows}
        BY <3>1, <4>1, Zenon DEF Inserted
      <4>2. CASE i \in ids
        BY <1>7, <2>2, <4>2, Zenon DEF Inserted
      <4>3. CASE \E op \in RetentionOps : i \in retGone[<<op, s>>]
        BY <4>3, Zenon DEF Inserted
      <4>4. i \in Inserted(s)' => \/ i \in {r.id : r \in rows} \/ i \in ids
                                  \/ \E op \in RetentionOps : i \in retGone[<<op, s>>]
        BY <3>1, <3>2, Zenon DEF Inserted
      <4> QED
        BY <4>1, <4>2, <4>3, <4>4, Zenon
    <3>4. ASSUME NEW i PROVE i \in Inserted(s) => i \in Inserted(s)'
      <4>1. CASE \E r \in rows : i = r.id
        BY <3>1, <4>1, Zenon DEF Inserted
      <4>2. CASE i \in ids
        <5>1. i \in retGone'[<<a.op, s>>]
          BY <3>2, <4>2, Zenon
        <5> QED
          BY <1>5, <5>1, Zenon DEF Inserted
      <4>3. ASSUME NEW op \in RetentionOps, i \in retGone[<<op, s>>] PROVE i \in Inserted(s)'
        <5>1. i \in retGone'[<<op, s>>]
          BY <3>2, <4>3, Zenon
        <5> QED
          BY <5>1, Zenon DEF Inserted
      <4>4. i \in Inserted(s) => \/ \E r \in rows : i = r.id
                                 \/ i \in ids
                                 \/ \E op \in RetentionOps : i \in retGone[<<op, s>>]
        BY <1>7, <2>2, Zenon DEF Inserted
      <4> QED
        BY <4>1, <4>2, <4>3, <4>4, Zenon
    <3> QED
      BY <3>3, <3>4, Zenon
  <2> QED
    BY <2>1, <2>2, Zenon
<1>15. InsertedInOrder'
  <2>1. ASSUME NEW s \in Scopes
        PROVE  IsFiniteSet(Inserted(s)') /\ Inserted(s)' = 0..(Cardinality(Inserted(s)') - 1)
    BY <1>14, Zenon DEF RetentionInv, InsertedInOrder
  <2> QED
    BY <2>1, Zenon DEF InsertedInOrder
<1> QED
  BY <1>13, <1>15, Zenon

\* The commit.
LEMMA CommitsRetentionKeeps ==
  ASSUME RetentionInv, CommitsRetention
  PROVE  RetentionInv'
<1>1. ~Locked'
  <2>1. Locked /\ ScopeDone
    BY Zenon DEF CommitsRetention
  <2> QED
    BY <2>1, InTransaction, ScopeDoneMoves, Zenon
<1> QED
  BY <1>1, CommitsRetentionReports, CommitsRetentionKeepsIds, Zenon DEF RetentionInv

\* A row is inserted: under an identifier that no row of the table had.
LEMMA RowInsertedKeeps ==
  ASSUME RetentionInv, NEW scope \in Scopes, RowInserted(scope)
  PROVE  RetentionInv'
<1>1. PICK n : n = Cardinality(Inserted(scope))
  BY Zenon
<1>2. IsFiniteSet(Inserted(scope)) /\ Inserted(scope) = 0..(n - 1) /\ n \in Nat
  BY <1>1, FS_CardinalityType, Zenon DEF RetentionInv, InsertedInOrder
<1>3. PICK row : row = [id |-> n, at |-> retClock]
  BY Zenon
<1>4. row.id = n /\ row \in RetentionRow
  <2>1. retClock \in Nat
    BY Zenon DEF RetentionInv, RetentionTypeOK
  <2> QED
    BY <1>2, <1>3, <2>1 DEF RetentionRow
<1>5. retRows \in [Scopes -> SUBSET RetentionRow]
  BY Zenon DEF RetentionInv, RetentionTypeOK
<1>6. retRows' = [retRows EXCEPT ![scope] = @ \cup {row}]
  BY <1>1, <1>3, Zenon DEF RowInserted
<1>7. \A s \in Scopes : retRows'[s] = IF s = scope THEN retRows[s] \cup {row} ELSE retRows[s]
  BY <1>5, <1>6, Zenon
<1>8. n \notin Inserted(scope)
  BY <1>2
<1>9. \A r \in retRows[scope] : r.id # n
  BY <1>8, Zenon DEF Inserted
<1>10. RetentionTypeOK'
  <2>1. retRows' \in [Scopes -> SUBSET RetentionRow]
    BY <1>4, <1>5, <1>6
  <2>2. ASSUME NEW s \in Scopes PROVE IsFiniteSet(retRows'[s]) /\ DistinctIds(retRows'[s])
    <3>1. IsFiniteSet(retRows[s]) /\ DistinctIds(retRows[s])
      BY Zenon DEF RetentionInv, RetentionTypeOK
    <3>2. CASE s = scope
      <4>1. IsFiniteSet(retRows[s] \cup {row})
        BY <3>1, FS_AddElement, Zenon
      <4>2. DistinctIds(retRows[s] \cup {row})
        BY <1>4, <1>9, <3>1, <3>2, Zenon DEF DistinctIds
      <4> QED
        BY <1>7, <3>2, <4>1, <4>2, Zenon
    <3> QED
      BY <1>7, <3>1, <3>2, Zenon
  <2> QED
    BY <2>1, <2>2, Zenon DEF RetentionInv, RetentionTypeOK, DistinctIds, RowInserted
<1>11. ASSUME NEW s \in Scopes
       PROVE  IsFiniteSet(Inserted(s)') /\ Inserted(s)' = 0..(Cardinality(Inserted(s)') - 1)
  <2>1. retGone' = retGone
    BY Zenon DEF RowInserted
  <2>2. CASE s # scope
    <3>1. Inserted(s)' = Inserted(s)
      <4>1. retRows'[s] = retRows[s]
        BY <1>7, <2>2, Zenon
      <4> QED
        BY <2>1, <4>1, Zenon DEF Inserted
    <3> QED
      BY <3>1, Zenon DEF RetentionInv, InsertedInOrder
  <2>3. CASE s = scope
    <3>1. retRows'[s] = retRows[s] \cup {row}
      BY <1>7, <2>3, Zenon
    <3>2. Inserted(s)' = Inserted(s) \cup {n}
      <4>1. {r.id : r \in retRows[s] \cup {row}} = {r.id : r \in retRows[s]} \cup {n}
        BY <1>4, Zenon
      <4>2. PICK u : u = UNION {retGone[<<op, s>>] : op \in RetentionOps}
        BY Zenon
      <4>3. Inserted(s)' = {r.id : r \in retRows[s] \cup {row}} \cup u
        BY <2>1, <3>1, <4>2, Zenon DEF Inserted
      <4>4. Inserted(s) = {r.id : r \in retRows[s]} \cup u
        BY <4>2, Zenon DEF Inserted
      <4> QED
        BY <4>1, <4>3, <4>4, Zenon
    <3>3. Inserted(s)' = 0..n
      BY <1>2, <2>3, <3>2
    <3>4. n + 1 \in Nat /\ (n + 1) - 1 = n
      BY <1>2
    <3>5. IsFiniteSet(0..((n + 1) - 1)) /\ Cardinality(0..((n + 1) - 1)) = n + 1
      BY <3>4, InitialSegment, Zenon
    <3>6. IsFiniteSet(Inserted(s)') /\ Cardinality(Inserted(s)') = n + 1
      BY <3>3, <3>4, <3>5, Zenon
    <3> QED
      BY <3>3, <3>4, <3>6, Zenon
  <2> QED
    BY <2>2, <2>3, Zenon
<1>12. InsertedInOrder'
  BY <1>11, Zenon DEF InsertedInOrder
<1>13. DeletedAsReported'
  <2>1. retAudit' = retAudit /\ retGone' = retGone
    BY Zenon DEF RowInserted
  <2> QED
    BY <2>1 DEF RetentionInv, DeletedAsReported
<1>14. ~Locked'
  BY Zenon DEF RowInserted, Locked
<1> QED
  BY <1>10, <1>12, <1>13, <1>14, Zenon DEF RetentionInv

\* No row is there and none has gone.
LEMMA RetentionStarts == RetentionInit => RetentionInv
<1> SUFFICES ASSUME RetentionInit PROVE RetentionInv
  BY Zenon
<1>1. RetentionTypeOK
  <2>1. retRows \in [Scopes -> SUBSET RetentionRow] /\ (\A s \in Scopes : retRows[s] = {})
    BY DEF RetentionInit
  <2>2. IsFiniteSet({}) /\ DistinctIds({})
    BY FS_EmptySet, Zenon DEF DistinctIds
  <2>3. retPolicy \in [Scopes -> RetentionPolicy]
    BY RetentionAssumption DEF RetentionInit, RetentionPolicy
  <2>4. retGone \in [RetentionOps \X Scopes -> SUBSET Nat] /\ retClock \in Nat
    BY DEF RetentionInit
  <2> QED
    BY <2>1, <2>2, <2>3, <2>4, Zenon DEF RetentionInit, RetentionTypeOK
<1>2. InsertedInOrder
  <2>1. ASSUME NEW s \in Scopes PROVE Inserted(s) = {}
    BY DEF Inserted, RetentionInit
  <2>2. IsFiniteSet({}) /\ Cardinality({}) = 0
    BY FS_EmptySet, Zenon
  <2>3. {} = 0..(0 - 1)
    OBVIOUS
  <2> QED
    BY <2>1, <2>2, <2>3, Zenon DEF InsertedInOrder
<1>3. ~Locked
  BY DEF RetentionInit, Locked, NoApply
<1>4. DeletedAsReported
  <2>1. \A op \in RetentionOps, s \in Scopes : retGone[<<op, s>>] = {}
    BY DEF RetentionInit
  <2>2. \A op \in RetentionOps, s \in Scopes : {e \in retAudit : e.op = op /\ e.scope = s} = {}
    BY Zenon DEF RetentionInit
  <2>3. Cardinality({}) <= 1
    BY FS_EmptySet
  <2> QED
    BY <2>1, <2>2, <2>3, Zenon DEF DeletedAsReported
<1> QED
  BY <1>1, <1>2, <1>3, <1>4, Zenon DEF RetentionInv

\* Every step of the commands, of the rest of the controller and of the clock.
LEMMA RetentionStep == RetentionInv /\ [RetentionNext]_retentionVars => RetentionInv'
<1> SUFFICES ASSUME RetentionInv, [RetentionNext]_retentionVars PROVE RetentionInv'
  BY Zenon
<1>1. ASSUME NEW s \in Scopes, NEW policy \in RetentionPolicies, SetRetentionPolicy(s, policy)
      PROVE  RetentionInv'
  <2>1. retPolicy' \in [Scopes -> RetentionPolicy]
    <3>1. retPolicy \in [Scopes -> RetentionPolicy] /\ retPolicy' = [retPolicy EXCEPT ![s] = policy]
      BY <1>1, Zenon DEF RetentionInv, RetentionTypeOK, SetRetentionPolicy
    <3>2. policy \in RetentionPolicy
      BY RetentionAssumption, Zenon DEF RetentionPolicy
    <3> QED
      BY <3>1, <3>2
  <2>2. ~Locked'
    BY <1>1, Zenon DEF SetRetentionPolicy, Locked
  <2> QED
    BY <1>1, <2>1, <2>2, NothingDeleted, Zenon DEF SetRetentionPolicy, RetentionInv, RetentionTypeOK
<1>2. ASSUME NEW op \in RetentionOps, NEW actor \in RetentionActors, NEW cutoff \in RetentionCutoffs,
             NEW limit \in RetentionLimits, NEW scopes \in {RetentionScopes} \cup {<<s>> : s \in Scopes},
             ApplyBegins(op, actor, scopes, cutoff, limit)
      PROVE  RetentionInv'
  BY <1>2, ApplyBeginsKeeps, Zenon
<1>3. CASE ApplyDies
  <2>1. ~Locked'
    BY <1>3 DEF ApplyDies, Locked, NoApply
  <2> QED
    BY <1>3, <2>1, NothingDeleted, Zenon DEF ApplyDies, RetentionInv, RetentionTypeOK
<1>4. CASE RetentionTick
  <2>1. retClock' \in Nat
    BY <1>4 DEF RetentionTick, RetentionInv, RetentionTypeOK
  <2>2. UNCHANGED <<retRows, retPolicy, retAudit, retGone, applying, retApplies>>
    BY <1>4, Zenon DEF RetentionTick
  <2>3. (Locked => PruneOnCourse(applying))'
    BY <2>2, Zenon DEF RetentionInv, Locked, PruneOnCourse, EarlierEvents
  <2> QED
    BY <2>1, <2>2, <2>3, NothingDeleted, Zenon DEF RetentionInv, RetentionTypeOK
<1>5. CASE UNCHANGED retentionVars
  <2>1. UNCHANGED <<retClock, retRows, retPolicy, retAudit, retGone, applying, retApplies>>
    BY <1>5, Zenon DEF retentionVars
  <2>2. (Locked => PruneOnCourse(applying))'
    BY <2>1, Zenon DEF RetentionInv, Locked, PruneOnCourse, EarlierEvents
  <2> QED
    BY <2>1, <2>2, NothingDeleted, Zenon DEF RetentionInv, RetentionTypeOK
<1> QED
  BY <1>1, <1>2, <1>3, <1>4, <1>5, ReadsRetentionPolicyKeeps, PlansRetentionKeeps, PrunesBatchKeeps,
     CommitsRetentionKeeps, RowInsertedKeeps, Zenon DEF RetentionNext

\* The inductive invariant: identifiers are never used twice, and an open
\* transaction counts right and still finds what it planned.
THEOREM RetentionInvariant == RetentionSpec => []RetentionInv
BY RetentionStarts, RetentionStep, PTL DEF RetentionSpec

\* For any scopes, policies, limits and batch sizes, and however often `retention
\* apply` is killed and repeated: each scope of an operation loses exactly what
\* its one event reports, which is what was planned and within the limit.
THEOREM DeletedIsAsReported == RetentionSpec => []DeletedAsReported
<1>1. RetentionInv => DeletedAsReported
  BY Zenon DEF RetentionInv
<1> QED
  BY <1>1, RetentionInvariant, PTL
=============================================================================
