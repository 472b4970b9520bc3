----------------------------- MODULE StoreProofs -----------------------------
(***************************************************************************)
(* Proofs about what the controller's stores keep: the Postgres snapshot   *)
(* backend, for any controllers, sessions and imports; the health          *)
(* evaluations, for any nodes, evaluators and policies; and the alerts and *)
(* deliveries of the native store, for any sessions, alerts and hooks; any *)
(* bounds.                                                                 *)
(*                                                                         *)
(* NoWriteLost says nothing about transactions that are still open, so it  *)
(* is not inductive.  The induction goes through SnapshotInv: what the     *)
(* locks of an open transaction keep true until it ends.  The samples of a *)
(* health evaluation are exact only because a running evaluation has none, *)
(* and no sample is without a run: HealthInv.                              *)
(*                                                                         *)
(* NativeDeliveriesKept is about steps, and a commit uses what earlier     *)
(* statements of the transaction found.  NativeDeliveryInv says what a     *)
(* transaction may rely on at each of its statements, given its locks; a   *)
(* step of one session leaves that to every other (Spares), because a lock *)
(* it would need is not granted (Exclusive, Blocked).                      *)
(***************************************************************************)
EXTENDS SnapshotBackend, HealthRuns, NativeDelivery, FiniteSetTheorems, TLAPS

\* A log of n writes is 1..n, and the write appended by the callback extends
\* it by one.
LEMMA LogExtends ==
    ASSUME NEW n \in Nat
    PROVE  /\ Cardinality(1..n) = n
           /\ 1..n \cup {Cardinality(1..n) + 1} = 1..(n + 1)
  <1>1. Cardinality(1..n) = n
    <2>1. 1 \in Int /\ n \in Int
      OBVIOUS
    <2>2. Cardinality(1..n) = IF 1 > n THEN 0 ELSE n - 1 + 1
      BY <2>1, FS_Interval, Zenon
    <2> QED
      BY <2>2
  <1>2. 1..n \cup {n + 1} = 1..(n + 1)
    OBVIOUS
  <1> QED
    BY <1>1, <1>2, Zenon

\* A log below the bound stays a log when the callback's write is appended.
LEMMA LogTyped ==
    ASSUME NEW w \in WriteLogs, Cardinality(w) < MaxWrites
    PROVE  w \cup {Cardinality(w) + 1} \in WriteLogs
  <1>1. PICK n \in 0..MaxWrites : w = 1..n
    BY Zenon DEF WriteLogs
  <1>2. n \in Nat /\ MaxWrites \in Nat
    BY BackendConstants
  <1>3. Cardinality(w) = n /\ w \cup {Cardinality(w) + 1} = 1..(n + 1)
    BY <1>1, <1>2, LogExtends, Zenon
  <1>4. n + 1 \in 0..MaxWrites
    BY <1>2, <1>3
  <1> QED
    BY <1>3, <1>4, Zenon DEF WriteLogs

\* The idle session is a well-formed transaction record.
LEMMA QuietTyped ==
    /\ Quiet \in Transaction
    /\ Quiet.at = "idle" /\ Quiet.kind = "none"
    /\ [source |-> "empty", writes |-> {}] \in Image
  <1>1. {} \in WriteLogs
    <2>1. 0 \in 0..MaxWrites /\ 1..0 = {}
      BY BackendConstants
    <2> QED
      BY <2>1, Zenon DEF WriteLogs
  <1>2. [source |-> "empty", writes |-> {}] \in Image
    BY <1>1, Zenon DEF Image, Origins
  <1> QED
    BY <1>2, Zenon DEF Quiet, Transaction

\* The fields of a session's transaction.
LEMMA SessionTyped ==
    ASSUME SnapshotTypeOK, NEW s \in Sessions
    PROVE  /\ session[s] \in Transaction
           /\ session[s].kind \in {"none", "write"} \cup Sources
           /\ session[s].image \in Image
           /\ session[s].lease \in Lease \cup {[owner |-> NoOwner, token |-> 0]}
           /\ session[s].lease.token \in Nat
  <1>1. session[s] \in Transaction
    BY Zenon DEF SnapshotTypeOK
  <1>2. /\ session[s].kind \in {"none", "write"} \cup Sources
        /\ session[s].image \in Image
        /\ session[s].lease \in Lease \cup {[owner |-> NoOwner, token |-> 0]}
    BY <1>1, Zenon DEF Transaction
  <1>3. session[s].lease.token \in Nat
    BY <1>2 DEF Lease
  <1> QED
    BY <1>1, <1>2, <1>3, Zenon

\* What a transaction makes of the stored image is an image.
LEMMA MaterializedTyped ==
    ASSUME SnapshotTypeOK, NEW s \in Sessions, session[s].kind # "none",
           session[s].kind = "write" => Cardinality(stateRow.writes) < MaxWrites
    PROVE  Materialized(s) \in Image
  <1>1. stateRow.source \in Origins /\ stateRow.writes \in WriteLogs
    BY Zenon DEF SnapshotTypeOK
  <1>2. CASE session[s].kind = "write"
    <2>1. stateRow.writes \cup {Cardinality(stateRow.writes) + 1} \in WriteLogs
      BY <1>1, <1>2, LogTyped, Zenon
    <2> QED
      BY <1>1, <1>2, <2>1, Zenon DEF Materialized, Image
  <1>3. CASE session[s].kind # "write"
    <2>1. session[s].kind \in Origins
      BY <1>3, SessionTyped, Zenon DEF Origins
    <2>2. [source |-> "empty", writes |-> {}] \in Image
      BY QuietTyped, Zenon
    <2>3. {} \in WriteLogs
      BY <2>2, Zenon DEF Image
    <2> QED
      BY <1>3, <2>1, <2>3, Zenon DEF Materialized, Image
  <1> QED
    BY <1>2, <1>3, Zenon

-----------------------------------------------------------------------------
\* A step of session s that replaces its record and touches nothing else of
\* the sessions.
Rewrites(s, rec) == rec \in Transaction /\ session' = [session EXCEPT ![s] = rec]

\* Reading one session after such a step.
LEMMA SessionRead ==
    ASSUME SnapshotTypeOK, NEW s \in Sessions, NEW rec, Rewrites(s, rec)
    PROVE  /\ session' \in [Sessions -> Transaction]
           /\ session'[s] = rec
           /\ \A t \in Sessions \ {s} : session'[t] = session[t]
  BY Zenon DEF SnapshotTypeOK, Rewrites

\* Moving on inside a transaction changes its stage only.
LEMMA MovedTyped ==
    ASSUME SnapshotTypeOK, NEW s \in Sessions, 
           NEW at \in {"begun", "fenced", "loaded", "uploaded", "rechecked"}, Moved(s, at)
    PROVE  /\ Rewrites(s, [session[s] EXCEPT !.at = at])
           /\ session'[s].at = at
           /\ session'[s].kind = session[s].kind
           /\ session'[s].lease = session[s].lease
           /\ session'[s].image = session[s].image
  <1>1. session[s] \in Transaction
    BY SessionTyped, Zenon
  <1>2. [session[s] EXCEPT !.at = at] \in Transaction
    BY <1>1, Zenon DEF Transaction
  <1>3. session' = [session EXCEPT ![s] = [session[s] EXCEPT !.at = at]]
    BY Zenon DEF Moved
  <1>4. session'[s] = [session[s] EXCEPT !.at = at]
    BY <1>2, <1>3, SessionRead, Zenon DEF Rewrites
  <1> QED
    BY <1>1, <1>2, <1>3, <1>4, Zenon DEF Rewrites, Transaction

-----------------------------------------------------------------------------
(* What each step does to the sessions, the lease and the state row.        *)

\* Time and a call of acquire_lease that is not decided, or is refused, leave
\* all of it alone.
Idles == UNCHANGED <<leaseRow, granted, stateRow, session, expected>>

\* acquire_lease wrote the row, which no transaction had locked.
Grants(o) ==
    /\ LeaseUnlocked
    /\ leaseRow'.owner = o
    /\ \/ leaseRow'.token = leaseRow.token + 1
       \/ leaseRow'.token = leaseRow.token /\ leaseRow.owner = o
    /\ granted' = granted \cup {[owner |-> o, token |-> leaseRow'.token]}
    /\ UNCHANGED <<stateRow, session, expected>>

\* A transaction moved without committing: it holds the fence afterwards only
\* if it did or just checked it, and a copy only if it did or just loaded it.
Proceeds(s) ==
    /\ \A t \in Sessions \ {s} : session'[t] = session[t]
    /\ session'[s].at # "idle" => session'[s].kind # "none"
    /\ Fencing(s)' =>
         /\ session'[s].lease = session[s].lease
         /\ Fencing(s) \/ Names(session[s].lease)
    /\ HoldsState(s)' =>
         /\ session'[s].kind = session[s].kind
         /\ \/ HoldsState(s) /\ session'[s].image = session[s].image
            \/ StateLockable(s) /\ session'[s].image = Materialized(s)
    /\ UNCHANGED <<leaseRow, granted, stateRow, expected>>

\* A transaction committed.
SessionCommits(s) ==
    /\ \A t \in Sessions \ {s} : session'[t] = session[t]
    /\ session'[s] = Quiet
    /\ Fencing(s) /\ HoldsState(s)
    /\ stateRow'.source = session[s].image.source
    /\ stateRow'.writes = session[s].image.writes
    /\ expected' = IF ~Newest(session[s].lease) THEN expected
                   ELSE IF session[s].kind # "write" THEN session[s].image
                   ELSE [expected EXCEPT !.writes = @ \cup {Cardinality(expected.writes) + 1}]
    /\ UNCHANGED <<leaseRow, granted>>

Effect ==
    \/ Idles
    \/ \E o \in Owners : Grants(o)
    \/ \E s \in Sessions : Proceeds(s) \/ SessionCommits(s)

\* The part of the type invariant that a step of a session can change.
LEMMA SessionStepTyped ==
    ASSUME SnapshotTypeOK, NEW s \in Sessions, NEW rec, Rewrites(s, rec),
           UNCHANGED <<leaseNow, leaseRow, asking, granted, stateRow, expected>>
    PROVE  SnapshotTypeOK'
  BY SessionRead, Zenon DEF SnapshotTypeOK

\* acquire_lease has one of the two effects on the lease, and is well typed.
LEMMA AcquireEffect ==
    ASSUME SnapshotTypeOK, NEW o \in Owners, AcquireLease(o)
    PROVE  SnapshotTypeOK' /\ (Idles \/ Grants(o))
  <1> DEFINE now == asking[o]
             own == leaseRow.owner = o
             kept == own /\ leaseRow.until > now
             token == leaseRow.token + IF kept THEN 0 ELSE 1
             takes == leaseRow.token = 0 \/ leaseRow.until <= now \/ own
  <1>0. /\ now \in 0..MaxLeaseClock
        /\ leaseRow.token \in Nat /\ LeaseTtl \in Nat /\ MaxLeaseClock \in Nat
        /\ asking' \in [Owners -> -1..MaxLeaseClock]
    BY BackendConstants DEF SnapshotTypeOK, AcquireLease
  <1>1. CASE ~takes
    BY <1>0, <1>1, Zenon DEF AcquireLease, Idles, SnapshotTypeOK
  <1>2. CASE takes
    <2>1. /\ leaseRow' = [owner |-> o, until |-> now + LeaseTtl, token |-> token]
          /\ granted' = granted \cup {[owner |-> o, token |-> leaseRow'.token]}
          /\ LeaseUnlocked
          /\ UNCHANGED <<leaseNow, stateRow, session, expected>>
      BY <1>2, Zenon DEF AcquireLease
    <2>2. token \in Nat /\ now + LeaseTtl \in Nat
      BY <1>0
    <2>3. /\ leaseRow'.owner = o /\ leaseRow'.token = token
          /\ leaseRow' \in [owner : Owners \cup {NoOwner}, token : Nat, until : Nat]
      BY <2>1, <2>2, Zenon
    <2>4. token # 0
      <3>1. CASE kept
        BY <1>0, <3>1, BackendConstants DEF SnapshotTypeOK
      <3>2. CASE ~kept
        BY <1>0, <3>2
      <3> QED
        BY <3>1, <3>2, Zenon
    <2>5. [owner |-> o, token |-> token] \in Lease
      BY <2>2, <2>4, Zenon DEF Lease
    <2>6. granted' \subseteq Lease
      BY <2>1, <2>3, <2>5, Zenon DEF SnapshotTypeOK
    <2>7. SnapshotTypeOK'
      BY <1>0, <2>1, <2>3, <2>4, <2>6, BackendConstants, Zenon DEF SnapshotTypeOK
    <2>8. Grants(o)
      BY <1>0, <2>1, <2>3 DEF Grants
    <2> QED
      BY <2>7, <2>8, Zenon
  <1> QED
    BY <1>1, <1>2, Zenon

\* Every statement of a transaction has one of the two effects on the
\* sessions and the state row, and is well typed.
LEMMA TransactionEffect ==
    ASSUME SnapshotTypeOK, SnapshotInv, NEW s \in Sessions,
           \/ BeginsTransaction(s) \/ LocksFence(s) \/ LoadsState(s)
           \/ UploadsState(s) \/ RechecksFence(s) \/ CommitsState(s) \/ BackendRollsBack(s)
    PROVE  SnapshotTypeOK' /\ (Proceeds(s) \/ SessionCommits(s))
  <1>0. session[s].at # "idle" => session[s].kind # "none"
    BY Zenon DEF SnapshotInv, CopiesCurrent
  <1>1. CASE BeginsTransaction(s)
    <2>1. PICK lease \in granted, kind \in {"write"} \cup Sources :
             session' = [session EXCEPT ![s] = [Quiet EXCEPT !.at = "begun",
                                          !.kind = kind, !.lease = lease]]
      BY <1>1, Zenon DEF BeginsTransaction
    <2> DEFINE rec == [Quiet EXCEPT !.at = "begun", !.kind = kind, !.lease = lease]
    <2>2. Quiet \in Transaction /\ lease \in Lease
      BY QuietTyped, Zenon DEF SnapshotTypeOK
    <2>3. rec \in Transaction /\ rec.at = "begun" /\ rec.kind = kind
      BY <2>2, Zenon DEF Transaction
    <2>4. Rewrites(s, rec)
      BY <2>1, <2>3, Zenon DEF Rewrites
    <2>5. session'[s] = rec /\ \A t \in Sessions \ {s} : session'[t] = session[t]
      BY <2>4, SessionRead, Zenon
    <2>6. kind # "none"
      BY BackendConstants, Zenon
    <2>7. UNCHANGED <<leaseNow, leaseRow, asking, granted, stateRow, expected>>
      BY <1>1, Zenon DEF BeginsTransaction
    <2>8. SnapshotTypeOK'
      BY <2>4, <2>7, SessionStepTyped, Zenon
    <2>9. Proceeds(s)
      BY <2>3, <2>5, <2>6, <2>7, Zenon DEF Proceeds, Fencing, HoldsState
    <2> QED
      BY <2>8, <2>9, Zenon
  <1>2. CASE LocksFence(s)
    <2>1. Moved(s, "fenced") /\ session[s].at = "begun" /\ Names(session[s].lease)
          /\ UNCHANGED <<leaseNow, leaseRow, asking, granted, stateRow, expected>>
      BY <1>2, Zenon DEF LocksFence
    <2>2. /\ Rewrites(s, [session[s] EXCEPT !.at = "fenced"])
          /\ session'[s].at = "fenced"
          /\ session'[s].kind = session[s].kind
          /\ session'[s].lease = session[s].lease
      BY <2>1, MovedTyped, Zenon
    <2>3. \A t \in Sessions \ {s} : session'[t] = session[t]
      BY <2>2, SessionRead, Zenon
    <2>4. SnapshotTypeOK'
      BY <2>1, <2>2, SessionStepTyped, Zenon
    <2>5. Proceeds(s)
      BY <1>0, <2>1, <2>2, <2>3, Zenon DEF Proceeds, Fencing, HoldsState
    <2> QED
      BY <2>4, <2>5, Zenon
  <1>3. CASE LoadsState(s)
    <2> DEFINE rec == [session[s] EXCEPT !.at = "loaded", !.image = Materialized(s)]
    <2>1. /\ session[s].at = "fenced" /\ StateLockable(s)
          /\ session[s].kind = "write" => Cardinality(stateRow.writes) < MaxWrites
          /\ session' = [session EXCEPT ![s] = rec]
          /\ UNCHANGED <<leaseNow, leaseRow, asking, granted, stateRow, expected>>
      BY <1>3, Zenon DEF LoadsState
    <2>2. Materialized(s) \in Image /\ session[s] \in Transaction
      BY <1>0, <2>1, MaterializedTyped, SessionTyped, Zenon
    <2>3. rec \in Transaction
      BY <2>2, Zenon DEF Transaction
    <2>4. /\ rec.at = "loaded" /\ rec.image = Materialized(s)
          /\ rec.kind = session[s].kind /\ rec.lease = session[s].lease
      BY <2>2, Zenon DEF Transaction
    <2>5. Rewrites(s, rec)
      BY <2>1, <2>3, Zenon DEF Rewrites
    <2>6. session'[s] = rec /\ \A t \in Sessions \ {s} : session'[t] = session[t]
      BY <2>5, SessionRead, Zenon
    <2>7. SnapshotTypeOK'
      BY <2>1, <2>5, SessionStepTyped, Zenon
    <2> HIDE DEF rec
    <2>8. Proceeds(s)
      BY <1>0, <2>1, <2>4, <2>6, Zenon DEF Proceeds, Fencing, HoldsState
    <2> QED
      BY <2>7, <2>8
  <1>4. CASE UploadsState(s)
    <2>1. Moved(s, "uploaded") /\ session[s].at = "loaded"
          /\ UNCHANGED <<leaseNow, leaseRow, asking, granted, stateRow, expected>>
      BY <1>4, Zenon DEF UploadsState
    <2>2. /\ Rewrites(s, [session[s] EXCEPT !.at = "uploaded"])
          /\ session'[s].at = "uploaded"
          /\ session'[s].kind = session[s].kind
          /\ session'[s].lease = session[s].lease
          /\ session'[s].image = session[s].image
      BY <2>1, MovedTyped, Zenon
    <2>3. \A t \in Sessions \ {s} : session'[t] = session[t]
      BY <2>2, SessionRead, Zenon
    <2>4. SnapshotTypeOK'
      BY <2>1, <2>2, SessionStepTyped, Zenon
    <2>5. Proceeds(s)
      BY <1>0, <2>1, <2>2, <2>3, Zenon DEF Proceeds, Fencing, HoldsState
    <2> QED
      BY <2>4, <2>5
  <1>5. CASE RechecksFence(s)
    <2>1. Moved(s, "rechecked") /\ session[s].at = "uploaded"
          /\ UNCHANGED <<leaseNow, leaseRow, asking, granted, stateRow, expected>>
      BY <1>5, Zenon DEF RechecksFence
    <2>2. /\ Rewrites(s, [session[s] EXCEPT !.at = "rechecked"])
          /\ session'[s].at = "rechecked"
          /\ session'[s].kind = session[s].kind
          /\ session'[s].lease = session[s].lease
          /\ session'[s].image = session[s].image
      BY <2>1, MovedTyped, Zenon
    <2>3. \A t \in Sessions \ {s} : session'[t] = session[t]
      BY <2>2, SessionRead, Zenon
    <2>4. SnapshotTypeOK'
      BY <2>1, <2>2, SessionStepTyped, Zenon
    <2>5. Proceeds(s)
      BY <1>0, <2>1, <2>2, <2>3, Zenon DEF Proceeds, Fencing, HoldsState
    <2> QED
      BY <2>4, <2>5
  <1>6. CASE BackendRollsBack(s)
    <2>1. /\ session' = [session EXCEPT ![s] = Quiet]
          /\ UNCHANGED <<leaseNow, leaseRow, asking, granted, stateRow, expected>>
      BY <1>6, Zenon DEF BackendRollsBack
    <2>2. Rewrites(s, Quiet)
      BY <2>1, QuietTyped, Zenon DEF Rewrites
    <2>3. session'[s] = Quiet /\ \A t \in Sessions \ {s} : session'[t] = session[t]
      BY <2>2, SessionRead, Zenon
    <2>4. SnapshotTypeOK'
      BY <2>1, <2>2, SessionStepTyped, Zenon
    <2>5. Proceeds(s)
      BY <2>1, <2>3, QuietTyped, Zenon DEF Proceeds, Fencing, HoldsState
    <2> QED
      BY <2>4, <2>5
  <1>7. CASE CommitsState(s)
    <2> DEFINE image == session[s].image
               same == image.source = stateRow.source /\ image.writes = stateRow.writes
    <2>1. /\ session[s].at = "rechecked"
          /\ stateRow' = IF session[s].kind # "write" /\ same THEN stateRow
                         ELSE [source |-> image.source, writes |-> image.writes,
                               revision |-> stateRow.revision + 1]
          /\ expected' = IF ~Newest(session[s].lease) THEN expected
                         ELSE IF session[s].kind # "write" THEN image
                         ELSE [expected EXCEPT !.writes =
                                 @ \cup {Cardinality(expected.writes) + 1}]
          /\ session' = [session EXCEPT ![s] = Quiet]
          /\ UNCHANGED <<leaseNow, leaseRow, asking, granted>>
      BY <1>7, Zenon DEF CommitsState
    <2>2. Rewrites(s, Quiet)
      BY <2>1, QuietTyped, Zenon DEF Rewrites
    <2>3. /\ session' \in [Sessions -> Transaction]
          /\ session'[s] = Quiet /\ \A t \in Sessions \ {s} : session'[t] = session[t]
      BY <2>2, SessionRead, Zenon
    <2>4. Fencing(s) /\ HoldsState(s)
      BY <2>1, Zenon DEF Fencing, HoldsState
    <2>5. image \in Image
      BY SessionTyped, Zenon
    <2>6. image.source \in Origins /\ image.writes \in WriteLogs
      BY <2>5, Zenon DEF Image
    <2>7. /\ stateRow' \in [source : Origins, writes : WriteLogs, revision : Nat]
          /\ stateRow'.source = image.source /\ stateRow'.writes = image.writes
      BY <2>1, <2>6 DEF SnapshotTypeOK
    <2>8. expected' \in Image
      <3>1. CASE Newest(session[s].lease) /\ session[s].kind = "write"
        <4>1. image = Materialized(s)
          BY <2>4, Zenon DEF SnapshotInv, CopiesCurrent
        <4>2. image.writes = stateRow.writes \cup {Cardinality(stateRow.writes) + 1}
          BY <3>1, <4>1 DEF Materialized
        <4>3. stateRow.writes = expected.writes
          BY Zenon DEF SnapshotInv, NoWriteLost
        <4>4. expected' = [expected EXCEPT !.writes = image.writes]
          BY <2>1, <3>1, <4>2, <4>3, Zenon
        <4> QED
          BY <2>6, <4>4, Zenon DEF Image, SnapshotTypeOK
      <3>2. CASE ~(Newest(session[s].lease) /\ session[s].kind = "write")
        BY <2>1, <2>5, <3>2, Zenon DEF SnapshotTypeOK
      <3> QED
        BY <3>1, <3>2, Zenon
    <2>9. SnapshotTypeOK'
      BY <2>1, <2>3, <2>7, <2>8, Zenon DEF SnapshotTypeOK
    <2>10. SessionCommits(s)
      BY <2>1, <2>3, <2>4, <2>7, Zenon DEF SessionCommits
    <2> QED
      BY <2>9, <2>10, Zenon
  <1> QED
    BY <1>1, <1>2, <1>3, <1>4, <1>5, <1>6, <1>7, Zenon

\* Every step of the backend is well typed and has one of the effects.
LEMMA StepEffect ==
    ASSUME SnapshotTypeOK, SnapshotInv, BackendNext
    PROVE  SnapshotTypeOK' /\ Effect
  <1>1. CASE LeaseTimePasses
    <2>1. leaseNow' \in 0..MaxLeaseClock
      BY <1>1, BackendConstants DEF LeaseTimePasses, SnapshotTypeOK
    <2> QED
      BY <1>1, <2>1, Zenon DEF LeaseTimePasses, SnapshotTypeOK, Effect, Idles
  <1>2. ASSUME NEW o \in Owners, AcquireBegins(o)
        PROVE  SnapshotTypeOK' /\ Effect
    <2>1. asking' \in [Owners -> -1..MaxLeaseClock]
      BY <1>2, BackendConstants DEF AcquireBegins, SnapshotTypeOK
    <2> QED
      BY <1>2, <2>1, Zenon DEF AcquireBegins, SnapshotTypeOK, Effect, Idles
  <1>3. ASSUME NEW o \in Owners, AcquireLease(o)
        PROVE  SnapshotTypeOK' /\ Effect
    BY <1>3, AcquireEffect, Zenon DEF Effect
  <1>4. ASSUME NEW s \in Sessions,
               \/ BeginsTransaction(s) \/ LocksFence(s) \/ LoadsState(s)
               \/ UploadsState(s) \/ RechecksFence(s) \/ CommitsState(s) \/ BackendRollsBack(s)
        PROVE  SnapshotTypeOK' /\ Effect
    BY <1>4, TransactionEffect, Zenon DEF Effect
  <1> QED
    BY <1>1, <1>2, <1>3, <1>4, Zenon DEF BackendNext

-----------------------------------------------------------------------------
(* The effects preserve the invariant.                                      *)

\* Epochs: a grant continues the owner's epoch or opens the next one.
LEMMA EpochsKept ==
    ASSUME SnapshotTypeOK, SnapshotTypeOK', EpochsOwned, Effect
    PROVE  EpochsOwned'
  <1>1. CASE UNCHANGED <<leaseRow, granted>>
    BY <1>1, Zenon DEF EpochsOwned
  <1>2. ASSUME NEW o \in Owners, Grants(o)
        PROVE  EpochsOwned'
    <2> DEFINE new == [owner |-> o, token |-> leaseRow'.token]
    <2>1. /\ leaseRow.token \in Nat /\ leaseRow'.token \in Nat
          /\ \A l \in granted : l.token \in Nat
      BY Zenon DEF SnapshotTypeOK, Lease
    <2>2. /\ granted' = granted \cup {new} /\ new.owner = o /\ new.token = leaseRow'.token
          /\ leaseRow'.owner = o
          /\ \/ leaseRow'.token = leaseRow.token + 1
             \/ leaseRow'.token = leaseRow.token /\ leaseRow.owner = o
      BY <1>2, Zenon DEF Grants
    <2> HIDE DEF new
    <2>3. \A l \in granted : l.token <= leaseRow'.token /\ (l.token = leaseRow'.token => l.owner = o)
      BY <2>1, <2>2 DEF EpochsOwned
    <2>4. \A l \in granted' : l.token <= leaseRow'.token /\ (l.token = leaseRow'.token => l.owner = o)
      BY <2>1, <2>2, <2>3
    <2>5. \A l, m \in granted' : l.token = m.token => l.owner = m.owner
      BY <2>2, <2>3 DEF EpochsOwned
    <2> QED
      BY <2>2, <2>4, <2>5, Zenon DEF EpochsOwned
  <1> QED
    BY <1>1, <1>2, Zenon DEF Effect, Idles, Proceeds, SessionCommits

\* Fences: the row changes only when nobody has it locked, and a transaction
\* is fenced only after it found its lease in the row.
LEMMA FencesKept ==
    ASSUME SnapshotTypeOK, SnapshotTypeOK', FencesCurrent, Effect
    PROVE  FencesCurrent'
  <1>1. CASE Idles
    BY <1>1, Zenon DEF Idles, FencesCurrent, Fencing, Names
  <1>2. ASSUME NEW o \in Owners, Grants(o)
        PROVE  FencesCurrent'
    BY <1>2, Zenon DEF Grants, LeaseUnlocked, FencesCurrent, Fencing
  <1>3. ASSUME NEW s \in Sessions, Proceeds(s)
        PROVE  FencesCurrent'
    <2>1. UNCHANGED leaseRow
      BY <1>3, Zenon DEF Proceeds
    <2>2. ASSUME NEW t \in Sessions \ {s}, Fencing(t)'
          PROVE  Names(session[t].lease)'
      BY <1>3, <2>1, <2>2, Zenon DEF Proceeds, FencesCurrent, Fencing, Names
    <2>3. ASSUME Fencing(s)'
          PROVE  Names(session[s].lease)'
      <3>1. session'[s].lease = session[s].lease /\ Names(session[s].lease)
        BY <1>3, <2>3, Zenon DEF Proceeds, FencesCurrent
      <3> QED
        BY <2>1, <3>1, Zenon DEF Names
    <2> QED
      BY <2>2, <2>3, Zenon DEF FencesCurrent
  <1>4. ASSUME NEW s \in Sessions, SessionCommits(s)
        PROVE  FencesCurrent'
    <2>1. UNCHANGED leaseRow /\ ~Fencing(s)'
      BY <1>4, QuietTyped, Zenon DEF SessionCommits, Fencing
    <2>2. \A t \in Sessions \ {s} : session'[t] = session[t]
      BY <1>4, Zenon DEF SessionCommits
    <2> QED
      BY <2>1, <2>2, Zenon DEF FencesCurrent, Fencing, Names
  <1> QED
    BY <1>1, <1>2, <1>3, <1>4, Zenon DEF Effect

\* Copies: the state row changes only when the one transaction that holds a
\* copy of it commits.
LEMMA CopiesKept ==
    ASSUME SnapshotTypeOK, SnapshotTypeOK', CopiesCurrent, Effect
    PROVE  CopiesCurrent'
  <1>1. CASE UNCHANGED <<stateRow, session>>
    BY <1>1, Zenon DEF CopiesCurrent, HoldsState, Materialized
  <1>2. ASSUME NEW s \in Sessions, Proceeds(s)
        PROVE  CopiesCurrent'
    <2>1. UNCHANGED stateRow /\ \A t \in Sessions \ {s} : session'[t] = session[t]
      BY <1>2, Zenon DEF Proceeds
    <2>2. \A t \in Sessions \ {s} : HoldsState(t)' = HoldsState(t)
      BY <2>1, Zenon DEF HoldsState
    <2>3. \A t \in Sessions : session'[t].at # "idle" => session'[t].kind # "none"
      BY <1>2, <2>1, Zenon DEF Proceeds, CopiesCurrent
    <2>4. HoldsState(s)' => \A t \in Sessions \ {s} : ~HoldsState(t)
      BY <1>2, Zenon DEF Proceeds, StateLockable, CopiesCurrent
    <2>5. \A t, u \in Sessions : HoldsState(t)' /\ HoldsState(u)' => t = u
      BY <2>2, <2>4, Zenon DEF CopiesCurrent
    <2>6. ASSUME NEW t \in Sessions \ {s}, HoldsState(t)'
          PROVE  session'[t].image = Materialized(t)'
      BY <2>1, <2>2, <2>6, Zenon DEF CopiesCurrent, Materialized
    <2>7. ASSUME HoldsState(s)'
          PROVE  session'[s].image = Materialized(s)'
      <3>1. session'[s].kind = session[s].kind /\ session'[s].image = Materialized(s)
        BY <1>2, <2>7, Zenon DEF Proceeds, CopiesCurrent
      <3> QED
        BY <2>1, <3>1, Zenon DEF Materialized
    <2> QED
      BY <2>3, <2>5, <2>6, <2>7, Zenon DEF CopiesCurrent
  <1>3. ASSUME NEW s \in Sessions, SessionCommits(s)
        PROVE  CopiesCurrent'
    <2>1. /\ session'[s].at = "idle" /\ HoldsState(s)
          /\ \A t \in Sessions \ {s} : session'[t] = session[t]
      BY <1>3, QuietTyped, Zenon DEF SessionCommits
    <2>2. \A t \in Sessions : ~HoldsState(t)'
      BY <2>1, Zenon DEF HoldsState, CopiesCurrent
    <2> QED
      BY <2>1, <2>2, Zenon DEF CopiesCurrent
  <1> QED
    BY <1>1, <1>2, <1>3, Zenon DEF Effect, Idles, Grants

\* The image: a commit is of the newest lease and of a current copy.
LEMMA ImageKept ==
    ASSUME SnapshotTypeOK, SnapshotInv, Effect
    PROVE  NoWriteLost'
  <1>1. CASE UNCHANGED <<stateRow, expected>>
    BY <1>1, Zenon DEF SnapshotInv, NoWriteLost
  <1>2. ASSUME NEW s \in Sessions, SessionCommits(s)
        PROVE  NoWriteLost'
    <2> DEFINE image == session[s].image
    <2>1. Newest(session[s].lease)
      <3>1. Names(session[s].lease)
        BY <1>2, Zenon DEF SessionCommits, SnapshotInv, FencesCurrent
      <3> QED
        BY <3>1, Zenon DEF Names, Newest, SnapshotInv, EpochsOwned
    <2>2. /\ stateRow'.source = image.source /\ stateRow'.writes = image.writes
          /\ image = Materialized(s)
      BY <1>2, Zenon DEF SessionCommits, SnapshotInv, CopiesCurrent
    <2>3. CASE session[s].kind # "write"
      BY <1>2, <2>1, <2>2, <2>3, Zenon DEF SessionCommits, NoWriteLost
    <2>4. CASE session[s].kind = "write"
      <3>1. /\ image.source = stateRow.source
            /\ image.writes = stateRow.writes \cup {Cardinality(stateRow.writes) + 1}
        BY <2>2, <2>4 DEF Materialized
      <3>2. stateRow.source = expected.source /\ stateRow.writes = expected.writes
        BY Zenon DEF SnapshotInv, NoWriteLost
      <3>3. expected' = [expected EXCEPT !.writes = @ \cup {Cardinality(expected.writes) + 1}]
        BY <1>2, <2>1, <2>4, Zenon DEF SessionCommits
      <3>4. expected \in Image
        BY Zenon DEF SnapshotTypeOK
      <3>5. expected'.source = expected.source /\ expected'.writes = image.writes
        BY <3>1, <3>2, <3>3, <3>4, Zenon DEF Image
      <3> QED
        BY <2>2, <3>1, <3>2, <3>5, Zenon DEF NoWriteLost
    <2> QED
      BY <2>3, <2>4, Zenon
  <1> QED
    BY <1>1, <1>2, Zenon DEF Effect, Idles, Grants, Proceeds

\* The invariant holds of the migrated, empty database.
LEMMA InitSnapshot ==
    ASSUME BackendInit
    PROVE  SnapshotTypeOK /\ SnapshotInv
  <1>1. \A s \in Sessions : session[s] = Quiet
    BY Zenon DEF BackendInit
  <1>2. [source |-> "empty", writes |-> {}] \in Image /\ Quiet \in Transaction /\ Quiet.at = "idle"
    BY QuietTyped, Zenon
  <1>3. stateRow \in [source : Origins, writes : WriteLogs, revision : Nat]
    BY <1>2, Zenon DEF BackendInit, Image
  <1>4. SnapshotTypeOK
    BY <1>2, <1>3, BackendConstants DEF BackendInit, SnapshotTypeOK
  <1>5. SnapshotInv
    BY <1>1, <1>2, Zenon DEF BackendInit, SnapshotInv, EpochsOwned, FencesCurrent, CopiesCurrent,
                      NoWriteLost, Fencing, HoldsState
  <1> QED
    BY <1>4, <1>5, Zenon

\* Every step preserves it.
LEMMA StepSnapshot ==
    ASSUME SnapshotTypeOK, SnapshotInv, [BackendNext]_backendVars
    PROVE  (SnapshotTypeOK /\ SnapshotInv)'
  <1>1. CASE BackendNext
    <2>1. SnapshotTypeOK' /\ Effect
      BY <1>1, StepEffect, Zenon
    <2> QED
      BY <2>1, EpochsKept, FencesKept, CopiesKept, ImageKept, Zenon DEF SnapshotInv
  <1>2. CASE UNCHANGED backendVars
    BY <1>2, Zenon DEF backendVars, SnapshotTypeOK, SnapshotInv, EpochsOwned, FencesCurrent,
                CopiesCurrent, NoWriteLost, Fencing, HoldsState, Names, Materialized
  <1> QED
    BY <1>1, <1>2, Zenon

-----------------------------------------------------------------------------
(* The results.                                                             *)

\* The types of the backend's state, and what the locks of the open
\* transactions keep true: epochs have one owner, a fenced transaction has
\* the newest lease, and a loaded copy is current.
THEOREM SnapshotInvariant == BackendSpec => [](SnapshotTypeOK /\ SnapshotInv)
  <1>1. BackendInit => SnapshotTypeOK /\ SnapshotInv
    BY InitSnapshot, Zenon
  <1>2. SnapshotTypeOK /\ SnapshotInv /\ [BackendNext]_backendVars
          => (SnapshotTypeOK /\ SnapshotInv)'
    BY StepSnapshot, Zenon
  <1> QED
    BY <1>1, <1>2, PTL DEF BackendSpec

\* with_write and import_sqlite: the stored image is what the commits of the
\* newest lease made of it, whatever the order of statements, renewals,
\* expiries and takeovers.
THEOREM NoCommitLost == BackendSpec => []NoWriteLost
  <1>1. SnapshotInv => NoWriteLost
    BY Zenon DEF SnapshotInv
  <1> QED
    BY <1>1, SnapshotInvariant, PTL

\* acquire_lease: two controllers are never granted the same fencing token.
THEOREM EpochsHaveOneOwner == BackendSpec => []EpochsOwned
  <1>1. SnapshotInv => EpochsOwned
    BY Zenon DEF SnapshotInv
  <1> QED
    BY <1>1, SnapshotInvariant, PTL

----------------------------------------------------------------------------
(* Health evaluations.                                                     *)

\* insert_health_history_tx: the samples written for a set of nodes are one per
\* node.
LEMMA OneSamplePerNode ==
    ASSUME NEW rows, IsFiniteSet(DOMAIN rows), NEW id
    PROVE  /\ {h.node : h \in Samples(id, rows)} = DOMAIN rows
           /\ Cardinality(Samples(id, rows)) = Cardinality(DOMAIN rows)
  <1> DEFINE Sample(n) == [id |-> id, node |-> n, at |-> rows[n].at, status |-> rows[n].status]
             S == {Sample(n) : n \in DOMAIN rows}
             f == [n \in DOMAIN rows |-> Sample(n)]
  <1>1. \A n : Sample(n).node = n
    BY Zenon
  <1>2. {h.node : h \in S} = DOMAIN rows
    BY <1>1, Zenon
  <1> HIDE DEF Sample
  <1>3. f \in Bijection(DOMAIN rows, S)
    <2>1. f \in [DOMAIN rows -> S] /\ \A n \in DOMAIN rows : f[n] = Sample(n)
      BY Zenon
    <2>2. \A m, n \in DOMAIN rows : f[m] = f[n] => m = n
      BY <1>1, <2>1
    <2>3. \A s \in S : \E n \in DOMAIN rows : f[n] = s
      BY <2>1, Zenon
    <2> HIDE DEF f, S
    <2> QED
      BY <2>1, <2>2, <2>3, Zenon DEF Bijection, Injection, Surjection, IsInjective
  <1>4. ExistsBijection(DOMAIN rows, S)
    BY <1>3, Zenon DEF ExistsBijection
  <1>5. Cardinality(S) = Cardinality(DOMAIN rows)
    BY <1>4, FS_Bijection, Zenon
  <1> QED
    BY <1>2, <1>5, Zenon DEF Sample, Samples

\* An evaluation under way is no idle one.
LEMMA UnderWay ==
    ASSUME HealthTypeOK, NEW p \in Evaluators
    PROVE  /\ EvaluationOK(eval[p])
           /\ eval[p].step # "idle" => eval[p] # NoEval
  BY DEF HealthTypeOK, EvaluationOK, NoEval

\* A change of one evaluation that keeps it well formed keeps them all so.
LEMMA EvaluationsKept ==
    ASSUME HealthTypeOK, NEW p \in Evaluators, NEW e, EvaluationOK(e),
           eval' = [eval EXCEPT ![p] = e]
    PROVE  /\ DOMAIN eval' = Evaluators
           /\ \A q \in Evaluators : EvaluationOK(eval'[q])
  <1>1. DOMAIN eval' = Evaluators
    BY Zenon DEF HealthTypeOK
  <1>2. ASSUME NEW q \in Evaluators PROVE EvaluationOK(eval'[q])
    <2>1. EvaluationOK(eval[q])
      BY UnderWay, Zenon
    <2>2. eval'[q] = IF q = p THEN e ELSE eval[q]
      BY Zenon DEF HealthTypeOK
    <2> QED
      BY <2>1, <2>2, Zenon
  <1> QED
    BY <1>1, <1>2, Zenon

\* The steps of an evaluation keep the evaluations well formed.
LEMMA EvaluationsStep ==
    ASSUME HealthTypeOK, NEW p \in Evaluators, EvaluatorStep(p)
    PROVE  /\ DOMAIN eval' = Evaluators
           /\ \A q \in Evaluators : EvaluationOK(eval'[q])
  <1>0. EvaluationOK(eval[p]) /\ (eval[p].step # "idle" => eval[p] # NoEval)
    BY UnderWay, Zenon
  <1>1. \E e : EvaluationOK(e) /\ eval' = [eval EXCEPT ![p] = e]
    <2>1. ASSUME NEW at, NEW k, NEW s, NEW o PROVE EvaluationOK(Evaluation(k, s, at, o))
      BY DEF EvaluationOK, Evaluation
    <2>2. ASSUME NEW at, NEW k, NEW s, NEW o, NEW m
          PROVE EvaluationOK([Evaluation(k, s, at, o) EXCEPT !.serial = m])
      BY DEF EvaluationOK, Evaluation
    <2>3. EvaluationOK(NoEval)
      BY Zenon DEF EvaluationOK
    <2>4. ASSUME NEW s, eval[p] # NoEval PROVE EvaluationOK([eval[p] EXCEPT !.step = s])
      BY <1>0, <2>4, Zenon DEF EvaluationOK
    <2>5. ASSUME NEW s, Goes(p, s), eval[p] # NoEval PROVE <1>1
      <3>1. eval' = [eval EXCEPT ![p] = [eval[p] EXCEPT !.step = s]]
        BY <2>5, Zenon DEF Goes
      <3> QED
        BY <3>1, <2>4, <2>5, Zenon
    <2>6. ASSUME Stops(p) PROVE <1>1
      BY <2>3, <2>6, Zenon DEF Stops
    <2>7. CASE EvaluatorBegins(p)
      BY <2>1, <2>7, Zenon DEF EvaluatorBegins
    <2>8. CASE \E only \in SUBSET HealthNodes : InteractiveBegins(p, only)
      BY <2>2, <2>8, Zenon DEF InteractiveBegins
    <2>9. CASE Recovers(p)
      BY <2>5, <2>9, <1>0, Zenon DEF Recovers, At
    <2>10. CASE ListsNodes(p)
      <3> DEFINE e == [eval[p] EXCEPT !.step = "compute", !.policy = hPolicy,
                         !.listed = [n \in Registered \cap eval[p].only |-> fleet[n]]]
      <3>1. eval' = [eval EXCEPT ![p] = e]
        BY <2>10, Zenon DEF ListsNodes
      <3>2. EvaluationOK(e)
        BY <2>10, <1>0, Zenon DEF EvaluationOK, ListsNodes, At, Registered
      <3> QED
        BY <3>1, <3>2, Zenon
    <2>11. CASE \E n \in HealthNodes : ComputesNode(p, n)
      <3> PICK n \in HealthNodes : ComputesNode(p, n)
        BY <2>11, Zenon
      <3> DEFINE rows == [i \in DOMAIN eval[p].rows \cup {n} |->
                   IF i = n THEN Snapshot(eval[p].listed[n], n, eval[p].at, eval[p].policy)
                   ELSE eval[p].rows[i]]
      <3>1. eval' = [eval EXCEPT ![p] = [eval[p] EXCEPT !.rows = rows]]
        BY Zenon DEF ComputesNode
      <3>2. eval[p] # NoEval
        BY <1>0, Zenon DEF ComputesNode, At
      <3>3. DOMAIN rows \subseteq HealthNodes
        BY <1>0, <3>2, Zenon DEF EvaluationOK
      <3> HIDE DEF rows
      <3>4. EvaluationOK([eval[p] EXCEPT !.rows = rows])
        BY <1>0, <3>2, <3>3, Zenon DEF EvaluationOK
      <3> QED
        BY <3>1, <3>4, Zenon
    <2>12. CASE ComputeFails(p)
      <3>1. CASE eval[p].kind = "evaluator"
        <4>1. eval' = [eval EXCEPT ![p] = [eval[p] EXCEPT !.step = "start", !.invalid = TRUE]]
          BY <2>12, <3>1, Zenon DEF ComputeFails
        <4>2. EvaluationOK([eval[p] EXCEPT !.step = "start", !.invalid = TRUE])
          BY <2>12, <1>0, Zenon DEF EvaluationOK, ComputeFails, At
        <4> QED
          BY <4>1, <4>2, Zenon
      <3>2. CASE eval[p].kind # "evaluator"
        BY <2>12, <3>2, <2>6, Zenon DEF ComputeFails
      <3> QED
        BY <3>1, <3>2, Zenon
    <2>13. CASE WritesSnapshots(p)
      BY <2>6, <2>13, Zenon DEF WritesSnapshots
    <2>14. CASE StartsRun(p)
      <3>1. eval[p] # NoEval
        BY <2>14, <1>0, Zenon DEF StartsRun, At
      <3> QED
        BY <2>5, <2>6, <2>14, <3>1, Zenon DEF StartsRun
    <2>15. CASE LooksAtRun(p)
      <3>1. eval[p] # NoEval
        BY <2>15, <1>0, Zenon DEF LooksAtRun, At
      <3> QED
        BY <2>5, <2>6, <2>15, <3>1, Zenon DEF LooksAtRun
    <2>16. CASE FinishesRun(p)
      BY <2>6, <2>16, Zenon DEF FinishesRun
    <2>17. CASE EvaluationDies(p)
      BY <2>6, <2>17, Zenon DEF EvaluationDies
    <2> QED
      BY <2>7, <2>8, <2>9, <2>10, <2>11, <2>12, <2>13, <2>14, <2>15, <2>16, <2>17, Zenon
         DEF EvaluatorStep
  <1> QED
    BY <1>1, EvaluationsKept, Zenon

\* What has to hold of the records after a step.
RecordsOK == (\A id \in DOMAIN hRuns : RunOK(id)) /\ HealthInv

\* A step that writes neither runs nor samples keeps what is recorded.
LEMMA RecordsKept ==
    ASSUME HealthTypeOK, HealthInv, UNCHANGED <<hRuns, healthHistory>>
    PROVE  RecordsOK' /\ SampleStep
  <1>1. \A id : SamplesOf(id)' = SamplesOf(id)
    BY Zenon DEF SamplesOf
  <1>2. \A id : Sampled(id)' <=> Sampled(id)
    BY <1>1, Zenon DEF Sampled
  <1>3. \A id : RunOK(id)' <=> RunOK(id)
    BY Zenon DEF RunOK
  <1> QED
    BY <1>1, <1>2, <1>3, Zenon DEF RecordsOK, HealthInv, HealthTypeOK, SampleStep

\* write_health_evaluation_recovery: a run that is failed has no sample.
LEMMA RecoverRecords ==
    ASSUME HealthTypeOK, HealthInv, NEW now, RecoverRuns(now), healthHistory' = healthHistory
    PROVE  RecordsOK' /\ SampleStep
  <1> PICK batch \in SUBSET Abandoned(now) :
         hRuns' = [id \in DOMAIN hRuns |->
                     IF id \in batch
                     THEN [hRuns[id] EXCEPT !.status = "failed", !.finished = now]
                     ELSE hRuns[id]]
    BY Zenon DEF RecoverRuns
  <1>1. DOMAIN hRuns' = DOMAIN hRuns /\ \A id : SamplesOf(id)' = SamplesOf(id)
    BY Zenon DEF SamplesOf
  <1>2. ASSUME NEW id \in DOMAIN hRuns, id \in batch
        PROVE  /\ hRuns[id].status = "running"
               /\ DOMAIN hRuns'[id] = DOMAIN hRuns[id] /\ hRuns'[id].status = "failed"
    BY <1>2, Zenon DEF Abandoned, HealthTypeOK, RunOK
  <1>3. ASSUME NEW id \in DOMAIN hRuns, id \notin batch PROVE hRuns'[id] = hRuns[id]
    BY <1>3, Zenon
  <1>4. ASSUME NEW id \in DOMAIN hRuns PROVE RunOK(id)' /\ Sampled(id)'
    <2>1. RunOK(id) /\ Sampled(id)
      BY Zenon DEF HealthTypeOK, HealthInv
    <2>2. CASE id \in batch
      BY <2>1, <2>2, <1>1, <1>2, Zenon DEF RunOK, Sampled
    <2>3. CASE id \notin batch
      BY <2>1, <2>3, <1>1, <1>3, Zenon DEF RunOK, Sampled
    <2> QED
      BY <2>2, <2>3, Zenon
  <1>5. HealthInv'
    BY <1>1, <1>4, Zenon DEF HealthInv
  <1>6. SampleStep
    BY <1>1, <1>2, <1>3, <1>4, Zenon DEF SampleStep
  <1> QED
    BY <1>1, <1>4, <1>5, <1>6, Zenon DEF RecordsOK

\* write_health_snapshots: a fresh identifier is none of a run.
LEMMA InteractiveRecords ==
    ASSUME HealthTypeOK, HealthInv, NEW serial, NEW rows, hRuns' = hRuns,
           StoreSnapshots([serial |-> serial], rows)
    PROVE  RecordsOK' /\ SampleStep
  <1> DEFINE New == Samples([serial |-> serial], rows)
  <1>1. healthHistory' = healthHistory \cup New
    BY Zenon DEF StoreSnapshots
  <1>2. \A h \in New : h.id = [serial |-> serial]
    BY DEF Samples
  <1> HIDE DEF New
  <1>3. DOMAIN [serial |-> serial] = {"serial"}
    BY Zenon
  <1>4. ASSUME NEW id \in DOMAIN hRuns PROVE SamplesOf(id)' = SamplesOf(id)
    <2>1. id # [serial |-> serial]
      <3>1. DOMAIN id # {"serial"}
        BY Zenon DEF HealthTypeOK, RunOK
      <3> QED
        BY <3>1, <1>3, Zenon
    <2> QED
      BY <2>1, <1>1, <1>2, Zenon DEF SamplesOf
  <1>5. \A id \in DOMAIN hRuns : RunOK(id)' /\ Sampled(id)'
    BY <1>4, Zenon DEF HealthTypeOK, HealthInv, RunOK, Sampled
  <1>6. \A h \in healthHistory' : h.id \in DOMAIN hRuns \/ DOMAIN h.id = {"serial"}
    BY <1>1, <1>2, <1>3, Zenon DEF HealthInv
  <1>7. RecordsOK'
    BY <1>5, <1>6, Zenon DEF RecordsOK, HealthInv
  <1>8. SampleStep
    BY <1>4, <1>5, Zenon DEF SampleStep
  <1> QED
    BY <1>7, <1>8, Zenon

\* write_health_evaluation_start: a new run has no sample yet.
LEMMA StartRecords ==
    ASSUME HealthTypeOK, HealthInv, NEW p \in Evaluators, StartsRun(p)
    PROVE  RecordsOK' /\ SampleStep
  <1> PICK id : id = EvaluationId(eval[p])
    BY Zenon
  <1>0. healthHistory' = healthHistory
    BY Zenon DEF StartsRun
  <1>1. CASE id \in DOMAIN hRuns
    <2>1. hRuns' = hRuns
      BY <1>1, Zenon DEF StartsRun
    <2> QED
      BY <2>1, <1>0, RecordsKept, Zenon
  <1>2. CASE id \notin DOMAIN hRuns
    <2>1. hRuns' = PutRun(id, Run(p))
      BY <1>2, Zenon DEF StartsRun
    <2>2. DOMAIN id = {"policy", "invalid", "watermark"}
      BY Zenon DEF EvaluationId
    <2>3. /\ DOMAIN Run(p) = {"status", "started", "finished", "actor"}
          /\ Run(p).status = "running"
      BY Zenon DEF Run
    <2>4. DOMAIN hRuns' = DOMAIN hRuns \cup {id}
      BY <2>1, Zenon DEF PutRun
    <2>5. hRuns'[id] = Run(p) /\ \A i \in DOMAIN hRuns : hRuns'[i] = hRuns[i]
      BY <2>1, <1>2, Zenon DEF PutRun
    <2>6. \A i : SamplesOf(i)' = SamplesOf(i)
      BY <1>0, Zenon DEF SamplesOf
    <2>7. SamplesOf(id) = {}
      BY <1>2, <2>2, Zenon DEF SamplesOf, HealthInv
    <2>8. RunOK(id)' /\ Sampled(id)'
      BY <2>2, <2>3, <2>5, <2>6, <2>7, Zenon DEF RunOK, Sampled
    <2>9. \A i \in DOMAIN hRuns : RunOK(i)' /\ Sampled(i)'
      BY <2>5, <2>6, Zenon DEF HealthTypeOK, HealthInv, RunOK, Sampled
    <2>10. \A i \in DOMAIN hRuns' : RunOK(i)' /\ Sampled(i)'
      BY <2>4, <2>8, <2>9, Zenon
    <2>11. \A h \in healthHistory' : h.id \in DOMAIN hRuns' \/ DOMAIN h.id = {"serial"}
      BY <1>0, <2>4, Zenon DEF HealthInv
    <2>12. RecordsOK'
      BY <2>10, <2>11, Zenon DEF RecordsOK, HealthInv
    <2>13. SampleStep
      BY <2>5, <2>6, <2>10, Zenon DEF SampleStep
    <2> QED
      BY <2>12, <2>13, Zenon
  <1> QED
    BY <1>1, <1>2, Zenon

\* write_health_evaluation_finish: a running run has no sample, and gets one per
\* node; write_health_evaluation_failure gives it none.
LEMMA FinishRecords ==
    ASSUME HealthTypeOK, HealthInv, NEW p \in Evaluators, FinishesRun(p)
    PROVE  RecordsOK' /\ SampleStep
  <1> DEFINE e == eval[p]
  <1> PICK id : id = EvaluationId(e)
    BY Zenon
  <1>1. CASE ~Finishable(id, e.now)
    BY <1>1, RecordsKept, Zenon DEF FinishesRun
  <1>2. CASE Finishable(id, e.now)
    <2>0. eval[p].step # "idle" /\ EvaluationOK(e) /\ e # NoEval
      BY UnderWay, Zenon DEF FinishesRun, At
    <2>1. id \in DOMAIN hRuns /\ hRuns[id].status = "running"
      BY <1>2, Zenon DEF Finishable, Unfinished
    <2>2. SamplesOf(id) = {}
      BY <2>1, Zenon DEF HealthInv, Sampled
    <2>3. \E status \in {"failed", "completed"} :
            /\ EndRun(id, status, e.now)
            /\ status = "failed" => healthHistory' = healthHistory
            /\ status = "completed" => ~e.invalid /\ StoreSnapshots(id, e.rows)
      <3>1. CASE e.invalid
        BY <3>1, <1>2, Zenon DEF FinishesRun
      <3>2. CASE ~e.invalid
        BY <3>2, <1>2, Zenon DEF FinishesRun
      <3> QED
        BY <3>1, <3>2, Zenon
    <2>4. ~e.invalid => id.watermark.nodes = e.rows
      BY Zenon DEF EvaluationId
    <2>5. IsFiniteSet(DOMAIN e.rows)
      BY <2>0, HealthAssumption, FS_Subset, Zenon DEF EvaluationOK
    <2> HIDE DEF e
    <2> PICK status \in {"failed", "completed"} :
            /\ EndRun(id, status, e.now)
            /\ status = "failed" => healthHistory' = healthHistory
            /\ status = "completed" => ~e.invalid /\ StoreSnapshots(id, e.rows)
      BY <2>3, Zenon
    <2> DEFINE New == Samples(id, e.rows)
    <2>6. /\ {h.node : h \in New} = DOMAIN e.rows /\ Cardinality(New) = Cardinality(DOMAIN e.rows)
          /\ \A h \in New : h.id = id
      <3>1. \A h \in New : h.id = id
        BY DEF Samples
      <3> QED
        BY <3>1, <2>5, OneSamplePerNode, Zenon
    <2>7. status = "completed" => healthHistory' = healthHistory \cup New
      BY Zenon DEF StoreSnapshots
    <2> HIDE DEF New
    <2>8. /\ DOMAIN hRuns' = DOMAIN hRuns
          /\ \A i \in DOMAIN hRuns : i # id => hRuns'[i] = hRuns[i]
          /\ DOMAIN hRuns'[id] = DOMAIN hRuns[id] /\ hRuns'[id].status = status
      <3>1. hRuns' = [hRuns EXCEPT ![id] = [hRuns[id] EXCEPT !.status = status,
                                                             !.finished = e.now]]
        BY Zenon DEF EndRun
      <3>2. "status" \in DOMAIN hRuns[id]
        BY <2>1, Zenon DEF HealthTypeOK, RunOK
      <3> QED
        BY <3>1, <3>2, <2>1, Zenon
    <2>9. \A i \in DOMAIN hRuns : i # id => SamplesOf(i)' = SamplesOf(i)
      BY <2>6, <2>7, Zenon DEF SamplesOf
    <2>10. SamplesOf(id)' = IF status = "completed" THEN New ELSE {}
      BY <2>2, <2>6, <2>7, Zenon DEF SamplesOf
    <2>11. RunOK(id)' /\ Sampled(id)'
      <3>1. RunOK(id)'
        BY <2>1, <2>8, Zenon DEF RunOK, HealthTypeOK
      <3>2. Sampled(id)'
        BY <2>4, <2>6, <2>8, <2>10, Zenon DEF Sampled
      <3> QED
        BY <3>1, <3>2, Zenon
    <2>12. \A i \in DOMAIN hRuns : RunOK(i)' /\ Sampled(i)'
      <3> TAKE i \in DOMAIN hRuns
      <3>1. CASE i = id
        BY <3>1, <2>11, Zenon
      <3>2. CASE i # id
        BY <3>2, <2>8, <2>9, Zenon DEF RunOK, Sampled, HealthTypeOK, HealthInv
      <3> QED
        BY <3>1, <3>2, Zenon
    <2>13. \A h \in healthHistory' : h.id \in DOMAIN hRuns \/ DOMAIN h.id = {"serial"}
      BY <2>1, <2>6, <2>7, Zenon DEF HealthInv
    <2>14. RecordsOK'
      BY <2>8, <2>12, <2>13, Zenon DEF RecordsOK, HealthInv
    <2>15. SampleStep
      BY <2>1, <2>8, <2>9, <2>12, Zenon DEF SampleStep
    <2> QED
      BY <2>14, <2>15, Zenon
  <1> QED
    BY <1>1, <1>2, Zenon

\* Every step keeps the runs, their samples and the evaluations well formed.
LEMMA HealthStep ==
    ASSUME HealthTypeOK, HealthInv, [HealthNext]_healthVars
    PROVE  HealthTypeOK' /\ HealthInv' /\ SampleStep
  <1>1. RecordsOK' /\ SampleStep
    <2>1. ASSUME NEW p \in Evaluators, EvaluatorStep(p) PROVE RecordsOK' /\ SampleStep
      <3>1. CASE Recovers(p)
        BY <3>1, RecoverRecords, Zenon DEF Recovers
      <3>2. CASE WritesSnapshots(p)
        BY <3>2, InteractiveRecords, Zenon DEF WritesSnapshots
      <3>3. CASE StartsRun(p)
        BY <3>3, StartRecords, Zenon
      <3>4. CASE FinishesRun(p)
        BY <3>4, FinishRecords, Zenon
      <3>5. CASE \/ EvaluatorBegins(p) \/ ListsNodes(p) \/ ComputeFails(p) \/ LooksAtRun(p)
                 \/ EvaluationDies(p)
                 \/ \E only \in SUBSET HealthNodes : InteractiveBegins(p, only)
                 \/ \E n \in HealthNodes : ComputesNode(p, n)
        <4>1. UNCHANGED <<hRuns, healthHistory>>
          BY <3>5, Zenon DEF EvaluatorBegins, ListsNodes, ComputeFails, LooksAtRun,
             EvaluationDies, InteractiveBegins, ComputesNode, OnlyEval
        <4> QED
          BY <4>1, RecordsKept, Zenon
      <3> QED
        BY <2>1, <3>1, <3>2, <3>3, <3>4, <3>5, Zenon DEF EvaluatorStep
    <2>2. CASE \/ \E policy \in HealthPolicies : SetHealthPolicy(policy)
               \/ \E n \in HealthNodes, row \in FleetRows : FleetChanges(n, row)
               \/ \E n \in HealthNodes, k \in ObservationKinds : ObservationStored(n, k[1], k[2])
               \/ HealthTick \/ UNCHANGED healthVars
      <3>1. UNCHANGED <<hRuns, healthHistory>>
        BY <2>2, Zenon DEF SetHealthPolicy, FleetChanges, ObservationStored, HealthTick, healthVars
      <3> QED
        BY <3>1, RecordsKept, Zenon
    <2> QED
      BY <2>1, <2>2, Zenon DEF HealthNext
  <1>2. DOMAIN eval' = Evaluators /\ \A q \in Evaluators : EvaluationOK(eval'[q])
    <2>1. CASE \E p \in Evaluators : EvaluatorStep(p)
      BY <2>1, EvaluationsStep, Zenon
    <2>2. CASE \/ \E policy \in HealthPolicies : SetHealthPolicy(policy)
               \/ \E n \in HealthNodes, row \in FleetRows : FleetChanges(n, row)
               \/ \E n \in HealthNodes, k \in ObservationKinds : ObservationStored(n, k[1], k[2])
               \/ HealthTick \/ UNCHANGED healthVars
      <3>1. eval' = eval
        BY <2>2, Zenon DEF SetHealthPolicy, FleetChanges, ObservationStored, HealthTick, healthVars
      <3> QED
        BY <3>1, Zenon DEF HealthTypeOK
    <2> QED
      BY <2>1, <2>2, Zenon DEF HealthNext
  <1> QED
    BY <1>1, <1>2, Zenon DEF RecordsOK, HealthTypeOK

\* The inductive invariant of the evaluations: a run has samples exactly when it
\* completed, and no sample is without a run.
THEOREM HealthInvariant == HealthSpec => [](HealthTypeOK /\ HealthInv)
  <1>1. HealthInit => HealthTypeOK /\ HealthInv
    <2> SUFFICES ASSUME HealthInit PROVE HealthTypeOK /\ HealthInv
      OBVIOUS
    <2>1. DOMAIN hRuns = {} /\ healthHistory = {}
      BY DEF HealthInit
    <2>2. DOMAIN eval = Evaluators /\ \A p \in Evaluators : eval[p] = NoEval
      BY Zenon DEF HealthInit
    <2> QED
      BY <2>1, <2>2, Zenon DEF HealthTypeOK, HealthInv, EvaluationOK
  <1>2. HealthTypeOK /\ HealthInv /\ [HealthNext]_healthVars => (HealthTypeOK /\ HealthInv)'
    BY HealthStep, Zenon
  <1> QED
    BY <1>1, <1>2, PTL DEF HealthSpec

\* write_health_evaluation_finish, the recovery and the interactive commands: a
\* run that completes leaves one sample per node it listed, any other leaves
\* none, and what ended is never changed.
THEOREM CompletedRunsAreSampled == HealthSpec => SamplesOfCompletedRuns
  <1>1. HealthTypeOK /\ HealthInv /\ [HealthNext]_healthVars => SampleStep
    BY HealthStep, Zenon
  <1> QED
    BY <1>1, HealthInvariant, PTL DEF HealthSpec, SamplesOfCompletedRuns

-----------------------------------------------------------------------------
(* Alerts and their delivery on the native store.                          *)

----------------------------------------------------------------------------
(* Alerts and deliveries of the native store.                              *)

\* The pairs of lock modes the proofs meet.
LEMMA ConflictingModes ==
  /\ {"update", "update"} \in Conflicting
  /\ {"update", "share"} \in Conflicting /\ {"share", "update"} \in Conflicting
  /\ {"update", "no_key_update"} \in Conflicting /\ {"no_key_update", "update"} \in Conflicting
  /\ {"row_exclusive", "share_row_exclusive"} \in Conflicting
  /\ {"share_row_exclusive", "row_exclusive"} \in Conflicting
BY Zenon DEF Conflicting

\* Two sessions do not have conflicting locks on an object.
LEMMA Exclusive ==
  ASSUME LocksCompatible, NEW s \in DeliverySessions, NEW o \in DeliverySessions, s # o,
         NEW object, NEW m1, NEW m2, {m2, m1} \in Conflicting,
         <<object, m1>> \in deliveryTx[s].held, <<object, m2>> \in deliveryTx[o].held
  PROVE  FALSE
<1>1. <<object, m1>>[1] = object /\ <<object, m1>>[2] = m1
  BY Zenon
<1>2. <<object, m2>>[1] = object /\ <<object, m2>>[2] = m2
  BY Zenon
<1> QED
  BY <1>1, <1>2, Zenon DEF LocksCompatible

\* A session is not granted a lock that conflicts with one another session has.
LEMMA Blocked ==
  ASSUME NEW s \in DeliverySessions, NEW o \in DeliverySessions, s # o, NEW locks,
         Grantable(s, locks), NEW object, NEW m1, NEW m2, {m2, m1} \in Conflicting,
         <<object, m1>> \in locks, <<object, m2>> \in deliveryTx[o].held
  PROVE  FALSE
<1>1. <<object, m1>>[1] = object /\ <<object, m1>>[2] = m1
  BY Zenon
<1>2. <<object, m2>>[1] = object /\ <<object, m2>>[2] = m2
  BY Zenon
<1> QED
  BY <1>1, <1>2, Zenon DEF Grantable

\* One transaction of several is replaced.
LEMMA TxReplaced ==
  ASSUME DOMAIN deliveryTx = DeliverySessions, NEW s \in DeliverySessions, NEW y,
         deliveryTx' = [deliveryTx EXCEPT ![s] = y]
  PROVE  /\ DOMAIN deliveryTx' = DeliverySessions /\ deliveryTx'[s] = y
         /\ \A o \in DeliverySessions : o # s => deliveryTx'[o] = deliveryTx[o]
BY Zenon

\* Locks that were granted are compatible with those of the other sessions.
LEMMA GrantedCompatible ==
  ASSUME LocksCompatible, DOMAIN deliveryTx = DeliverySessions, NEW s \in DeliverySessions,
         NEW locks, Grantable(s, locks), NEW y, y.held \subseteq deliveryTx[s].held \cup locks,
         deliveryTx' = [deliveryTx EXCEPT ![s] = y]
  PROVE  LocksCompatible'
<1>1. /\ deliveryTx'[s] = y
      /\ \A o \in DeliverySessions : o # s => deliveryTx'[o] = deliveryTx[o]
  BY TxReplaced, Zenon
<1>2. ASSUME NEW o \in DeliverySessions, o # s, NEW h \in deliveryTx[o].held, NEW l \in y.held,
             h[1] = l[1]
      PROVE  {h[2], l[2]} \notin Conflicting
  <2>1. CASE l \in deliveryTx[s].held
    BY <1>2, <2>1, Zenon DEF LocksCompatible
  <2>2. CASE l \in locks
    BY <1>2, <2>2, Zenon DEF Grantable
  <2> QED
    BY <1>2, <2>1, <2>2, Zenon
<1>3. SUFFICES ASSUME NEW a \in DeliverySessions, NEW b \in DeliverySessions, a # b,
                      NEW h \in deliveryTx'[b].held, NEW l \in deliveryTx'[a].held, h[1] = l[1]
               PROVE  {h[2], l[2]} \notin Conflicting
  BY Zenon DEF LocksCompatible
<1>4. CASE a = s
  <2>1. h \in deliveryTx[b].held /\ l \in y.held
    BY <1>1, <1>3, <1>4, Zenon
  <2> QED
    BY <1>2, <1>3, <1>4, <2>1, Zenon
<1>5. CASE b = s
  <2>1. l \in deliveryTx[a].held /\ h \in y.held /\ l[1] = h[1]
    BY <1>1, <1>3, <1>5, Zenon
  <2>2. {l[2], h[2]} \notin Conflicting
    BY <1>2, <1>3, <1>5, <2>1, Zenon
  <2>3. {l[2], h[2]} = {h[2], l[2]}
    BY Zenon
  <2> QED
    BY <2>2, <2>3, Zenon
<1>6. CASE a # s /\ b # s
  <2>1. h \in deliveryTx[b].held /\ l \in deliveryTx[a].held
    BY <1>1, <1>3, <1>6, Zenon
  <2> QED
    BY <1>3, <2>1, Zenon DEF LocksCompatible
<1> QED
  BY <1>4, <1>5, <1>6, Zenon

\* What a step of another session, or of the clock, leaves to a transaction.
Spares(x) ==
  /\ x.op = "write" => x.arg \in prepared'
  /\ \A k \in AlertKeys : AlertLock(k, "update") \in x.held =>
       alertRow'[k] = alertRow[k] /\ \A d \in DOMAIN delivery' : d \in DOMAIN delivery \/ d.key # k
  /\ \A k \in AlertKeys : AlertLock(k, "no_key_update") \in x.held /\ alertRow[k] # NoRow =>
       alertRow'[k] # NoRow /\ alertRow'[k].id = alertRow[k].id
  /\ x.op = "enqueue" => x.arg \notin DOMAIN delivery'
  /\ x.op = "claim" => \A d \in x.todo :
       d \in DOMAIN delivery' /\ delivery'[d].status = "claimed" /\ delivery'[d].late
  /\ TableLock("queue", "share_row_exclusive") \in x.held =>
       \A d \in DOMAIN delivery' : d \in DOMAIN delivery /\ delivery'[d].status = delivery[d].status

\* The queue is locked before retention looks at it.
LEMMA PruneLocksQueue ==
  ASSUME NEW x, PruneHolds(x), x.op = "prune", x.at = Len(PruneTables) + 1
  PROVE  TableLock("queue", "share_row_exclusive") \in x.held
<1>1. Len(PruneTables) = 3 /\ PruneTables[2] = "queue"
  BY Zenon DEF PruneTables
<1> QED
  BY <1>1 DEF PruneHolds

\* A transaction that is spared can rely on what it could rely on before.
LEMMA SparedHolds ==
  ASSUME NativeDeliveryTypeOK, NEW x, TransactionHolds(x), Spares(x)
  PROVE  TransactionHolds(x)'
<1>1. WriteHolds(x)'
  <2> SUFFICES ASSUME x.op = "write" PROVE WriteHolds(x)'
    BY Zenon DEF WriteHolds
  <2>1. WriteHolds(x) /\ x.arg \in prepared /\ PreparedOK(x.arg)
    BY Zenon DEF TransactionHolds, WriteHolds, NativeDeliveryTypeOK
  <2>2. \A k \in DOMAIN x.arg.before : k \in AlertKeys
    BY <2>1, Zenon DEF PreparedOK
  <2>3. \A k \in DOMAIN x.arg.before : AlertLock(k, "update") \in x.held =>
          alertRow'[k] = alertRow[k] /\ (Referenced(k)' => Referenced(k))
    BY <2>2, Zenon DEF Spares, Referenced
  <2> QED
    BY <2>1, <2>3, Zenon DEF WriteHolds, Spares
<1>2. EnqueueHolds(x)'
  BY Zenon DEF TransactionHolds, EnqueueHolds, Spares
<1>3. ClaimHolds(x)'
  BY Zenon DEF TransactionHolds, ClaimHolds, Spares
<1>4. OutcomeHolds(x)'
  <2> SUFFICES ASSUME x.op = "outcome" PROVE OutcomeHolds(x)'
    BY Zenon DEF OutcomeHolds
  <2>1. OutcomeHolds(x) /\ x.arg.claim.delivery.key \in AlertKeys
    BY Zenon DEF TransactionHolds, OutcomeHolds, DeliveryClaim, DeliveryKey
  <2> QED
    BY <2>1, Zenon DEF OutcomeHolds, Spares
<1>5. PruneHolds(x)'
  BY PruneLocksQueue, Zenon DEF TransactionHolds, PruneHolds, Spares
<1> QED
  BY <1>1, <1>2, <1>3, <1>4, <1>5, Zenon DEF TransactionHolds

\* A step that leaves the tables alone spares every transaction.
LEMMA QuietSpares ==
  ASSUME NEW x, TransactionHolds(x), alertRow' = alertRow, delivery' = delivery,
         prepared \subseteq prepared'
  PROVE  Spares(x)
BY Zenon DEF Spares, TransactionHolds, WriteHolds, EnqueueHolds, ClaimHolds

\* The tables of the native store.
Tables == <<alertRow, hooksOn, delivery, outcomes, claims, prepared, writes>>

\* The fields of a transaction.
LEMMA OpenFields ==
  /\ DOMAIN Open = {"op", "at", "held", "arg", "todo", "found"}
  /\ Open.op = "none" /\ Open.at = 1 /\ Open.held = {} /\ Open.arg = NoRow
  /\ Open.todo = {} /\ Open.found = NoRow
BY Zenon DEF Open

\* A closed transaction relies on nothing.
LEMMA OpenHolds == TransactionHolds(Open) /\ TransactionHolds(Open)'
<1>1. Open.op = "none"
  BY OpenFields, Zenon
<1>2. Open.op \notin {"write", "enqueue", "claim", "outcome", "prune"}
  BY <1>1, Zenon
<1> QED
  BY <1>2, Zenon DEF TransactionHolds, WriteHolds, EnqueueHolds, ClaimHolds, OutcomeHolds, PruneHolds

\* A step that leaves alerts, deliveries and attempts alone, and takes no write
\* back, is one the property allows.
LEMMA QuietStep ==
  ASSUME alertRow' = alertRow, delivery' = delivery, prepared \subseteq prepared', NativeDeliveryTypeOK
  PROVE  DeliveriesKeptStep
  BY Zenon DEF DeliveriesKeptStep

\* The invariant after a step of one session, from what the step does to the
\* tables, to the session and to the others.
LEMMA Assembled ==
  ASSUME NativeDeliveryInv, NEW s \in DeliverySessions, NEW y,
         deliveryTx' = [deliveryTx EXCEPT ![s] = y], TransactionHolds(y)',
         \A o \in DeliverySessions : o # s => Spares(deliveryTx[o]),
         NativeDeliveryTypeOK', NumbersApart', LocksCompatible',
         \A d \in DOMAIN delivery' : SettledByHistory(d)'
  PROVE  NativeDeliveryInv'
<1>1. NativeDeliveryTypeOK /\ DOMAIN deliveryTx = DeliverySessions
  BY Zenon DEF NativeDeliveryInv, NativeDeliveryTypeOK
<1>2. /\ deliveryTx'[s] = y
      /\ \A o \in DeliverySessions : o # s => deliveryTx'[o] = deliveryTx[o]
  BY <1>1, TxReplaced, Zenon
<1>3. ASSUME NEW o \in DeliverySessions PROVE TransactionHolds(deliveryTx[o])'
  <2>1. CASE o = s
    BY <1>2, <2>1, Zenon
  <2>2. CASE o # s
    <3>1. PICK x : x = deliveryTx[o]
      BY Zenon
    <3>2. TransactionHolds(x) /\ Spares(x) /\ deliveryTx'[o] = x
      BY <1>2, <2>2, <3>1, Zenon DEF NativeDeliveryInv
    <3>3. TransactionHolds(x)'
      BY <1>1, <3>2, SparedHolds, Zenon
    <3> QED
      BY <3>2, <3>3, Zenon
  <2> QED
    BY <2>1, <2>2, Zenon
<1> QED
  BY <1>3, Zenon DEF NativeDeliveryInv

\* A statement, a BEGIN or a ROLLBACK changes no table.
LEMMA SessionMoves ==
  ASSUME NativeDeliveryInv, NEW s \in DeliverySessions, NEW locks, Grantable(s, locks), NEW y,
         DOMAIN y = DOMAIN Open, y.held \subseteq deliveryTx[s].held \cup locks, TransactionHolds(y),
         deliveryTx' = [deliveryTx EXCEPT ![s] = y], UNCHANGED Tables
  PROVE  NativeDeliveryInv' /\ DeliveriesKeptStep
<1>1. /\ alertRow' = alertRow /\ hooksOn' = hooksOn /\ delivery' = delivery /\ outcomes' = outcomes
      /\ claims' = claims /\ prepared' = prepared /\ writes' = writes
  BY Zenon DEF Tables
<1>2. NativeDeliveryTypeOK /\ NumbersApart /\ LocksCompatible /\ DOMAIN deliveryTx = DeliverySessions
  BY Zenon DEF NativeDeliveryInv, NativeDeliveryTypeOK
<1>3. /\ DOMAIN deliveryTx' = DeliverySessions /\ deliveryTx'[s] = y
      /\ \A o \in DeliverySessions : o # s => deliveryTx'[o] = deliveryTx[o]
  BY <1>2, TxReplaced, Zenon
<1>4. NativeDeliveryTypeOK'
  BY <1>1, <1>2, <1>3, Zenon DEF NativeDeliveryTypeOK, PreparedOK
<1>5. NumbersApart'
  BY <1>1, <1>2, Zenon DEF NumbersApart
<1>6. LocksCompatible'
  BY <1>2, GrantedCompatible, Zenon
<1>7. \A o \in DeliverySessions : o # s => Spares(deliveryTx[o])
  BY <1>1, QuietSpares, Zenon DEF NativeDeliveryInv
<1>8. TransactionHolds(y)'
  <2>1. Spares(y)
    BY <1>1, QuietSpares, Zenon
  <2> QED
    BY <1>2, <2>1, SparedHolds, Zenon
<1>9. \A d \in DOMAIN delivery' : SettledByHistory(d)'
  BY <1>1, Zenon DEF NativeDeliveryInv, SettledByHistory
<1>10. NativeDeliveryInv'
  BY <1>4, <1>5, <1>6, <1>7, <1>8, <1>9, Assembled, Zenon
<1> QED
  BY <1>1, <1>2, <1>10, QuietStep, Zenon

\* A transaction of one kind relies on what that kind relies on.
LEMMA KindHolds ==
  ASSUME NEW x
  PROVE  /\ x.op = "write" /\ WriteHolds(x) => TransactionHolds(x)
         /\ x.op = "enqueue" /\ EnqueueHolds(x) => TransactionHolds(x)
         /\ x.op = "claim" /\ ClaimHolds(x) => TransactionHolds(x)
         /\ x.op = "outcome" /\ OutcomeHolds(x) => TransactionHolds(x)
         /\ x.op = "prune" /\ PruneHolds(x) => TransactionHolds(x)
BY Zenon DEF TransactionHolds, WriteHolds, EnqueueHolds, ClaimHolds, OutcomeHolds, PruneHolds

\* A session's transaction.
LEMMA SessionTx ==
  ASSUME NativeDeliveryInv, NEW s \in DeliverySessions, NEW x, x = deliveryTx[s]
  PROVE  TransactionHolds(x) /\ DOMAIN x = DOMAIN Open
BY Zenon DEF NativeDeliveryInv, NativeDeliveryTypeOK

----------------------------------------------------------------------------

\* An evaluation, a transition or a manual delivery begins.
LEMMA BeginsWriteKeeps ==
  ASSUME NativeDeliveryInv, NEW s \in DeliverySessions, NEW w \in prepared, BeginsWrite(s, w)
  PROVE  NativeDeliveryInv' /\ DeliveriesKeptStep
<1>0. PICK y : y = [Open EXCEPT !.op = "write", !.arg = w, !.todo = DOMAIN w.before,
                                !.held = {OperationLock("write", w.number)}]
  BY Zenon
<1>a. deliveryTx' = [deliveryTx EXCEPT ![s] = y]
  BY <1>0, Zenon DEF BeginsWrite, Begins
<1>1. /\ DOMAIN y = DOMAIN Open /\ y.held = {OperationLock("write", w.number)}
      /\ y.op = "write" /\ y.at = 1 /\ y.arg = w /\ y.todo = DOMAIN w.before
  BY <1>0, Zenon DEF Open
<1>2. y.at # 2
  BY <1>1
<1>3. WriteHolds(y)
  BY <1>1, <1>2, Zenon DEF WriteHolds
<1>4. TransactionHolds(y)
  BY <1>1, <1>3, KindHolds, Zenon
<1>5. Grantable(s, {OperationLock("write", w.number)}) /\ UNCHANGED Tables
  BY Zenon DEF BeginsWrite, Begins, Tables
<1> QED
  BY <1>1, <1>a, <1>4, <1>5, SessionMoves, Zenon

\* The row of an entry is locked and compared with the row the caller read.
LEMMA ReadsEntryKeeps ==
  ASSUME NativeDeliveryInv, NEW s \in DeliverySessions, NEW k \in AlertKeys, ReadsEntry(s, k)
  PROVE  NativeDeliveryInv' /\ DeliveriesKeptStep
<1>1. PICK x : x = deliveryTx[s]
  BY Zenon
<1>2. PICK locks : locks = IF alertRow[k] = NoRow THEN {} ELSE {AlertLock(k, "update")}
  BY Zenon
<1>3. PICK rec : rec = [x EXCEPT !.at = 2, !.found = k]
  BY Zenon
<1>4. /\ x.op = "write" /\ k \in x.todo /\ alertRow[k] = x.arg.before[k]
      /\ Statement(s, "write", 1, locks, rec)
  BY <1>1, <1>2, <1>3, Zenon DEF ReadsEntry
<1>5. TransactionHolds(x) /\ DOMAIN x = DOMAIN Open
  BY <1>1, SessionTx, Zenon
<1>6. /\ DOMAIN rec = DOMAIN Open /\ rec.at = 2 /\ rec.found = k
      /\ rec.op = x.op /\ rec.held = x.held /\ rec.arg = x.arg /\ rec.todo = x.todo
  BY <1>3, <1>5, OpenFields, Zenon
<1>7y. PICK y : y = [rec EXCEPT !.held = @ \cup locks]
  BY Zenon
<1>7. /\ DOMAIN y = DOMAIN Open /\ y.held = rec.held \cup locks
      /\ y.op = rec.op /\ y.at = rec.at /\ y.arg = rec.arg
      /\ y.todo = rec.todo /\ y.found = rec.found
  BY <1>6, <1>7y, OpenFields, Zenon
<1>z. deliveryTx' = [deliveryTx EXCEPT ![s] = y]
  BY <1>4, <1>6, <1>7y, Zenon DEF Statement
<1>8. WriteHolds(x)
  BY <1>5, Zenon DEF TransactionHolds
<1>9. x.arg.before[k] # NoRow => AlertLock(k, "update") \in y.held
  BY <1>2, <1>4, <1>7, Zenon
<1>10. WriteHolds(y)
  <2>1. /\ y.arg \in prepared /\ OperationLock("write", y.arg.number) \in y.held
        /\ y.todo \subseteq DOMAIN y.arg.before /\ y.found \in y.todo
    BY <1>4, <1>6, <1>7, <1>8, Zenon DEF WriteHolds
  <2>2. ASSUME NEW j \in DOMAIN y.arg.before, j \notin y.todo
        PROVE  /\ AlertLock(j, "update") \in y.held
               /\ y.arg.before[j] = NoRow => alertRow[j] = NoRow \/ ~Referenced(j)
    BY <1>4, <1>6, <1>7, <1>8, <2>2, Zenon DEF WriteHolds
  <2>3. ASSUME NEW j \in DOMAIN y.arg.before, y.arg.before[j] # NoRow, j \notin y.todo \/ j = k
        PROVE  AlertLock(j, "update") \in y.held /\ alertRow[j] = y.arg.before[j]
    BY <1>4, <1>6, <1>7, <1>8, <1>9, <2>3, Zenon DEF WriteHolds
  <2> QED
    BY <1>6, <1>7, <2>1, <2>2, <2>3, Zenon DEF WriteHolds
<1>11. TransactionHolds(y)
  BY <1>4, <1>6, <1>7, <1>10, KindHolds, Zenon
<1>12. Grantable(s, locks) /\ UNCHANGED Tables
  BY <1>4, Zenon DEF Statement, Tables
<1> QED
  BY <1>1, <1>6, <1>7, <1>z, <1>11, <1>12, SessionMoves, Zenon

\* A write that is to insert a row meets an alert of another identity, and goes
\* on only if nothing refers to it.
LEMMA UpsertMeets ==
  ASSUME NativeDeliveryInv, NEW x, x.op = "write", WriteHolds(x), x.at = 2,
         alertRow[x.found] # NoRow /\ alertRow[x.found].id # x.arg.after[x.found].id
           => ~Referenced(x.found),
         x.arg.before[x.found] = NoRow
  PROVE  alertRow[x.found] = NoRow \/ ~Referenced(x.found)
<1>1. x.arg \in prepared /\ x.found \in DOMAIN x.arg.before
  BY Zenon DEF WriteHolds
<1>2. PreparedOK(x.arg)
  BY <1>1, Zenon DEF NativeDeliveryInv, NativeDeliveryTypeOK
<1>3. x.arg.after[x.found].id = x.arg.number /\ x.found \in AlertKeys
  BY <1>1, <1>2, Zenon DEF PreparedOK
<1> QED
  BY <1>1, <1>3, Zenon DEF NativeDeliveryInv, NumbersApart

\* The upsert of an entry that is not the last.
LEMMA UpsertsEntryKeeps ==
  ASSUME NativeDeliveryInv, NEW s \in DeliverySessions, UpsertsEntry(s),
         deliveryTx[s].todo # {deliveryTx[s].found}
  PROVE  NativeDeliveryInv' /\ DeliveriesKeptStep
<1>1. PICK x : x = deliveryTx[s]
  BY Zenon
<1>2. PICK k : k = x.found
  BY Zenon
<1>3. PICK locks : locks = {Writing("alerts"), AlertLock(k, "update")}
  BY Zenon
<1>4. PICK rec : rec = [x EXCEPT !.at = 1, !.todo = @ \ {k}]
  BY Zenon
<1>5. /\ x.op = "write" /\ x.at = 2
      /\ alertRow[k] # NoRow /\ alertRow[k].id # x.arg.after[k].id => ~Referenced(k)
      /\ Statement(s, "write", 2, locks, rec)
  BY <1>1, <1>2, <1>3, <1>4, Zenon DEF UpsertsEntry
<1>6. TransactionHolds(x) /\ DOMAIN x = DOMAIN Open
  BY <1>1, SessionTx, Zenon
<1>7. /\ DOMAIN rec = DOMAIN Open /\ rec.at = 1 /\ rec.found = k
      /\ rec.op = x.op /\ rec.held = x.held /\ rec.arg = x.arg /\ rec.todo = x.todo \ {k}
  BY <1>2, <1>4, <1>6, OpenFields, Zenon
<1>8y. PICK y : y = [rec EXCEPT !.held = @ \cup locks]
  BY Zenon
<1>8. /\ DOMAIN y = DOMAIN Open /\ y.held = rec.held \cup locks
      /\ y.op = rec.op /\ y.at = rec.at /\ y.arg = rec.arg
      /\ y.todo = rec.todo /\ y.found = rec.found
  BY <1>7, <1>8y, OpenFields, Zenon
<1>z. deliveryTx' = [deliveryTx EXCEPT ![s] = y]
  BY <1>5, <1>7, <1>8y, Zenon DEF Statement
<1>9. WriteHolds(x)
  BY <1>6, Zenon DEF TransactionHolds
<1>10. AlertLock(k, "update") \in y.held /\ k \in x.todo /\ y.at # 2
  <2>1. y.at # 2
    BY <1>7, <1>8
  <2> QED
    BY <1>2, <1>3, <1>5, <1>8, <1>9, <2>1, Zenon DEF WriteHolds
<1>11. x.arg.before[k] = NoRow => alertRow[k] = NoRow \/ ~Referenced(k)
  BY <1>2, <1>5, <1>9, UpsertMeets, Zenon
<1>12. WriteHolds(y)
  <2>1. /\ y.arg \in prepared /\ OperationLock("write", y.arg.number) \in y.held
        /\ y.todo \subseteq DOMAIN y.arg.before
    BY <1>5, <1>7, <1>8, <1>9, Zenon DEF WriteHolds
  <2>2. ASSUME NEW j \in DOMAIN y.arg.before, j \notin y.todo
        PROVE  /\ AlertLock(j, "update") \in y.held
               /\ y.arg.before[j] = NoRow => alertRow[j] = NoRow \/ ~Referenced(j)
    <3>1. CASE j = k
      BY <1>7, <1>8, <1>10, <1>11, <3>1, Zenon
    <3>2. CASE j # k
      <4>1. j \notin x.todo /\ j \in DOMAIN x.arg.before
        BY <1>7, <1>8, <2>2, <3>2, Zenon
      <4> QED
        BY <1>5, <1>7, <1>8, <1>9, <4>1, Zenon DEF WriteHolds
    <3> QED
      BY <3>1, <3>2, Zenon
  <2>3. ASSUME NEW j \in DOMAIN y.arg.before, y.arg.before[j] # NoRow, j \notin y.todo
        PROVE  AlertLock(j, "update") \in y.held /\ alertRow[j] = y.arg.before[j]
    <3>1. j \in DOMAIN x.arg.before /\ x.arg.before[j] # NoRow /\ (j \notin x.todo \/ j = x.found)
      BY <1>2, <1>7, <1>8, <2>3, Zenon
    <3> QED
      BY <1>5, <1>7, <1>8, <1>9, <3>1, Zenon DEF WriteHolds
  <2> QED
    BY <1>10, <2>1, <2>2, <2>3, Zenon DEF WriteHolds
<1>13. TransactionHolds(y)
  BY <1>5, <1>7, <1>8, <1>12, KindHolds, Zenon
<1>14. Grantable(s, locks) /\ UNCHANGED Tables
  BY <1>5, Zenon DEF Statement, Tables
<1> QED
  BY <1>1, <1>7, <1>8, <1>z, <1>13, <1>14, SessionMoves, Zenon

\* A session that has, or is granted, a lock shuts out what conflicts with it.
LEMMA ShutsOut ==
  ASSUME LocksCompatible, NEW s \in DeliverySessions, NEW o \in DeliverySessions, s # o, NEW locks,
         Grantable(s, locks), NEW object, NEW m1, NEW m2, {m2, m1} \in Conflicting,
         <<object, m1>> \in deliveryTx[s].held \cup locks, <<object, m2>> \in deliveryTx[o].held
  PROVE  FALSE
<1>1. CASE <<object, m1>> \in locks
  BY <1>1, Blocked, Zenon
<1>2. CASE <<object, m1>> \in deliveryTx[s].held
  BY <1>2, Exclusive, Zenon
<1> QED
  BY <1>1, <1>2, Zenon

\* The invariant after a step that is no session's statement.
LEMMA StillAssembled ==
  ASSUME NativeDeliveryInv, deliveryTx' = deliveryTx,
         \A o \in DeliverySessions : Spares(deliveryTx[o]),
         NativeDeliveryTypeOK', NumbersApart', \A d \in DOMAIN delivery' : SettledByHistory(d)'
  PROVE  NativeDeliveryInv'
<1>1. NativeDeliveryTypeOK /\ LocksCompatible
  BY Zenon DEF NativeDeliveryInv
<1>2. LocksCompatible'
  BY <1>1, Zenon DEF LocksCompatible
<1>3. ASSUME NEW o \in DeliverySessions PROVE TransactionHolds(deliveryTx[o])'
  <2>1. PICK x : x = deliveryTx[o]
    BY Zenon
  <2>2. TransactionHolds(x) /\ Spares(x) /\ deliveryTx'[o] = x
    BY <2>1, Zenon DEF NativeDeliveryInv
  <2>3. TransactionHolds(x)'
    BY <1>1, <2>2, SparedHolds, Zenon
  <2> QED
    BY <2>2, <2>3, Zenon
<1> QED
  BY <1>2, <1>3, Zenon DEF NativeDeliveryInv

\* A transaction is rolled back.
LEMMA RollsBackKeeps ==
  ASSUME NativeDeliveryInv, NEW s \in DeliverySessions, DeliveryRollsBack(s)
  PROVE  NativeDeliveryInv' /\ DeliveriesKeptStep
<1>1. PICK y : y = Open
  BY Zenon
<1>2. y.held \subseteq deliveryTx[s].held \cup {} /\ DOMAIN y = DOMAIN Open /\ TransactionHolds(y)
  BY <1>1, OpenFields, OpenHolds, Zenon
<1>3. Grantable(s, {}) /\ deliveryTx' = [deliveryTx EXCEPT ![s] = y] /\ UNCHANGED Tables
  BY <1>1, Zenon DEF Grantable, DeliveryRollsBack, Tables
<1> QED
  BY <1>2, <1>3, SessionMoves, Zenon

\* The row of an alert.
LEMMA RowFields ==
  ASSUME NEW r \in NativeAlertRow
  PROVE  r.id \in Nat /\ r.seen \in Nat /\ r.sent \in Nat /\ r # NoRow
BY NativeDeliveryAssumption, Zenon DEF NativeAlertRow

\* The row a caller computes keeps the identity and the deliveries of the alert,
\* or is that of a new one.
LEMMA AfterRowOK ==
  ASSUME NativeDeliveryTypeOK, NEW kind \in {"evaluate", "lapsed", "silence", "resolve", "deliver"},
         NEW k \in AlertKeys, kind # "evaluate" => alertRow[k] # NoRow,
         NEW at \in CompletedAt(kind = "deliver"), NEW a, a = AfterRow(kind, k, at)
  PROVE  /\ a \in NativeAlertRow
         /\ alertRow[k] = NoRow => a.id = writes + 1
         /\ alertRow[k] # NoRow =>
              a.id = alertRow[k].id /\ (a.sent = alertRow[k].sent \/ (at # 0 /\ a.sent = at))
<1>1. writes \in Nat /\ (alertRow[k] # NoRow => alertRow[k] \in NativeAlertRow)
  BY Zenon DEF NativeDeliveryTypeOK
<1>2. CASE alertRow[k] = NoRow
  <2>1. a = [id |-> writes + 1, state |-> "open", seen |-> writes + 1, sent |-> 0]
    BY <1>2, Zenon DEF AfterRow, EvaluatedRow
  <2> QED
    BY <1>1, <1>2, <2>1 DEF NativeAlertRow
<1>3. CASE alertRow[k] # NoRow
  <2>1. PICK r : r = alertRow[k] /\ r \in NativeAlertRow
    BY <1>1, <1>3, Zenon
  <2>2. CASE kind \in {"evaluate", "lapsed"}
    <3>1. PICK lapsed \in BOOLEAN : a = EvaluatedRow(k, lapsed)
      BY <2>2, Zenon DEF AfterRow
    <3>2. PICK st : st = IF r.state = "silenced" /\ ~lapsed THEN r.state ELSE "open"
      BY Zenon
    <3>3. a = [r EXCEPT !.state = st, !.seen = writes + 1]
      BY <1>3, <2>1, <3>1, <3>2, Zenon DEF EvaluatedRow
    <3>4. st \in {"open", "silenced"}
      BY <3>2, Zenon
    <3>5. PICK b : b = [r EXCEPT !.state = st]
      BY Zenon
    <3>6. a = [b EXCEPT !.seen = writes + 1]
      BY <3>3, <3>5, Zenon
    <3>7. b \in NativeAlertRow /\ b.id = r.id /\ b.sent = r.sent
      BY <2>1, <3>4, <3>5, Zenon DEF NativeAlertRow
    <3> QED
      BY <1>1, <1>3, <2>1, <3>6, <3>7 DEF NativeAlertRow
  <2>3. CASE kind = "silence"
    <3>1. a = [r EXCEPT !.state = "silenced"]
      BY <2>1, <2>3, Zenon DEF AfterRow
    <3> QED
      BY <1>1, <1>3, <2>1, <3>1 DEF NativeAlertRow
  <2>4. CASE kind = "resolve"
    <3>1. a = [r EXCEPT !.state = "resolved", !.seen = writes + 1]
      BY <2>1, <2>4, Zenon DEF AfterRow
    <3>2. PICK b : b = [r EXCEPT !.state = "resolved"]
      BY Zenon
    <3>3. a = [b EXCEPT !.seen = writes + 1]
      BY <3>1, <3>2, Zenon
    <3>4. b \in NativeAlertRow /\ b.id = r.id /\ b.sent = r.sent
      BY <2>1, <3>2, Zenon DEF NativeAlertRow
    <3> QED
      BY <1>1, <1>3, <2>1, <3>3, <3>4 DEF NativeAlertRow
  <2>5. CASE kind = "deliver"
    <3>1. a = [r EXCEPT !.sent = at]
      BY <2>1, <2>5, Zenon DEF AfterRow
    <3>2. at \in Nat /\ at # 0
      BY <2>5, NativeDeliveryAssumption, Zenon DEF CompletedAt
    <3> QED
      BY <1>1, <1>3, <2>1, <3>1, <3>2 DEF NativeAlertRow
  <2> QED
    BY <2>2, <2>3, <2>4, <2>5, Zenon
<1> QED
  BY <1>2, <1>3, Zenon

\* A caller computes a write.
LEMMA ComputesWriteKeeps ==
  ASSUME NativeDeliveryInv, NEW kind \in {"evaluate", "lapsed", "silence", "resolve", "deliver"},
         NEW keys \in SUBSET AlertKeys, NEW at \in CompletedAt(kind = "deliver"),
         ComputesWrite(kind, keys, at)
  PROVE  NativeDeliveryInv' /\ DeliveriesKeptStep
<1>1. /\ alertRow' = alertRow /\ hooksOn' = hooksOn /\ delivery' = delivery /\ outcomes' = outcomes
      /\ claims' = claims /\ deliveryTx' = deliveryTx /\ writes' = writes + 1
      /\ kind # "evaluate" => \A k \in keys : alertRow[k] # NoRow
  BY Zenon DEF ComputesWrite
<1>2. NativeDeliveryTypeOK /\ NumbersApart
  BY Zenon DEF NativeDeliveryInv
<1>3. PICK before : before = [k \in keys |-> alertRow[k]]
  BY Zenon
<1>4. PICK after : after = [k \in keys |-> AfterRow(kind, k, at)]
  BY Zenon
<1>5. PICK new : new = [number |-> writes + 1, at |-> at, before |-> before, after |-> after]
  BY Zenon
<1>6. new.number = writes + 1 /\ new.at = at /\ new.before = before /\ new.after = after
  BY <1>5, Zenon
<1>7. prepared' = prepared \cup {new}
  BY <1>3, <1>4, <1>5, Zenon DEF ComputesWrite
<1>8. DOMAIN before = keys /\ DOMAIN after = keys /\ \A k \in keys : before[k] = alertRow[k]
  BY <1>3, <1>4, Zenon
<1>9. writes \in Nat /\ writes + 1 \in Nat
  BY <1>2 DEF NativeDeliveryTypeOK
<1>10. ASSUME NEW k \in keys
       PROVE  /\ after[k] \in NativeAlertRow
              /\ before[k] = NoRow => after[k].id = writes + 1
              /\ before[k] # NoRow => /\ before[k] \in NativeAlertRow
                                      /\ after[k].id = before[k].id
                                      /\ after[k].sent = before[k].sent \/ (at # 0 /\ after[k].sent = at)
  <2>1. k \in AlertKeys /\ (kind # "evaluate" => alertRow[k] # NoRow)
    BY <1>1, Zenon
  <2>2. PICK a : a = AfterRow(kind, k, at)
    BY Zenon
  <2>3. /\ a \in NativeAlertRow
        /\ alertRow[k] = NoRow => a.id = writes + 1
        /\ alertRow[k] # NoRow =>
             a.id = alertRow[k].id /\ (a.sent = alertRow[k].sent \/ (at # 0 /\ a.sent = at))
    BY <1>2, <2>1, <2>2, AfterRowOK
  <2>4. after[k] = a
    BY <1>4, <2>2, Zenon
  <2>5. alertRow[k] # NoRow => alertRow[k] \in NativeAlertRow
    BY <1>2, <2>1, Zenon DEF NativeDeliveryTypeOK
  <2> QED
    BY <1>8, <2>3, <2>4, <2>5, Zenon
<1>11. PreparedOK(new)
  <2>1. 0 \in Nat
    OBVIOUS
  <2>2. at \in Nat
    BY <2>1, NativeDeliveryAssumption, Zenon DEF CompletedAt
  <2> QED
    BY <1>6, <1>8, <1>9, <1>10, <2>2, Zenon DEF PreparedOK
<1>12. NativeDeliveryTypeOK'
  <2>1. \A w \in prepared' : PreparedOK(w)
    BY <1>2, <1>7, <1>11, Zenon DEF NativeDeliveryTypeOK
  <2>2. \A w \in prepared' : PreparedOK(w)'
    BY <2>1, Zenon DEF PreparedOK
  <2> QED
    BY <1>1, <1>2, <1>9, <2>2, Zenon DEF NativeDeliveryTypeOK
<1>13. NumbersApart'
  <2>1. /\ \A k \in AlertKeys : alertRow[k] # NoRow => alertRow[k].id \in Nat
        /\ \A v \in prepared : /\ v.number \in Nat
                               /\ \A k \in DOMAIN v.before : v.before[k] # NoRow => v.before[k].id \in Nat
    <3>1. \A k \in AlertKeys : alertRow[k] # NoRow => alertRow[k] \in NativeAlertRow
      BY <1>2, Zenon DEF NativeDeliveryTypeOK
    <3>2. \A v \in prepared : /\ v.number \in Nat
            /\ \A k \in DOMAIN v.before : v.before[k] # NoRow => v.before[k] \in NativeAlertRow
      BY <1>2, Zenon DEF NativeDeliveryTypeOK, PreparedOK
    <3> QED
      BY <3>1, <3>2, RowFields, Zenon
  <2>2. /\ \A k \in AlertKeys : alertRow[k] # NoRow => alertRow[k].id <= writes + 1 /\ alertRow[k].id # writes + 1
        /\ \A v \in prepared : v.number <= writes + 1 /\ v.number # writes + 1
        /\ \A v \in prepared : \A k \in DOMAIN v.before : v.before[k] # NoRow =>
             v.before[k].id <= writes + 1 /\ v.before[k].id # writes + 1
        /\ writes + 1 <= writes + 1
    BY <1>2, <1>9, <2>1 DEF NumbersApart
  <2>3. \A k \in AlertKeys : alertRow[k] # NoRow =>
          alertRow[k].id <= writes + 1 /\ \A w \in prepared' : alertRow[k].id # w.number
    BY <1>2, <1>6, <1>7, <2>2, Zenon DEF NumbersApart
  <2>4. \A v \in prepared' : v.number <= writes + 1
    BY <1>6, <1>7, <2>2, Zenon
  <2>5. \A v, w \in prepared' : v.number = w.number => v = w
    BY <1>2, <1>6, <1>7, <2>2, Zenon DEF NumbersApart
  <2>6. ASSUME NEW v \in prepared', NEW k \in DOMAIN v.before, v.before[k] # NoRow
        PROVE  v.before[k].id <= writes + 1 /\ \A w \in prepared' : v.before[k].id # w.number
    <3>1. CASE v = new
      <4>1. k \in AlertKeys /\ v.before[k] = alertRow[k]
        BY <1>6, <1>8, <3>1, Zenon
      <4> QED
        BY <2>3, <2>6, <4>1, Zenon
    <3>2. CASE v \in prepared
      BY <1>2, <1>6, <1>7, <2>2, <2>6, <3>2, Zenon DEF NumbersApart
    <3> QED
      BY <1>7, <3>1, <3>2, Zenon
  <2> QED
    BY <1>1, <2>3, <2>4, <2>5, <2>6, Zenon DEF NumbersApart
<1>14. prepared \subseteq prepared'
  BY <1>7, Zenon
<1>15. \A o \in DeliverySessions : Spares(deliveryTx[o])
  BY <1>1, <1>14, QuietSpares, Zenon DEF NativeDeliveryInv
<1>16. \A d \in DOMAIN delivery' : SettledByHistory(d)'
  BY <1>1, Zenon DEF NativeDeliveryInv, SettledByHistory
<1>17. NativeDeliveryInv'
  BY <1>1, <1>12, <1>13, <1>15, <1>16, StillAssembled, Zenon
<1> QED
  BY <1>1, <1>2, <1>14, <1>17, QuietStep, Zenon

\* A hook is switched on or off.
LEMMA TogglesHookKeeps ==
  ASSUME NativeDeliveryInv, NEW s \in DeliverySessions, NEW h \in Webhooks, TogglesHook(s, h)
  PROVE  NativeDeliveryInv' /\ DeliveriesKeptStep
<1>1. /\ alertRow' = alertRow /\ delivery' = delivery /\ outcomes' = outcomes
      /\ claims' = claims /\ deliveryTx' = deliveryTx /\ writes' = writes /\ prepared' = prepared
      /\ (hooksOn' = hooksOn \ {h} \/ hooksOn' = hooksOn \cup {h})
  BY Zenon DEF TogglesHook
<1>2. NativeDeliveryTypeOK /\ NumbersApart /\ hooksOn \subseteq Webhooks
  BY Zenon DEF NativeDeliveryInv, NativeDeliveryTypeOK
<1>3. hooksOn' \subseteq Webhooks
  BY <1>1, <1>2, Zenon
<1>4. NativeDeliveryTypeOK'
  BY <1>1, <1>2, <1>3, Zenon DEF NativeDeliveryTypeOK, PreparedOK
<1>5. NumbersApart'
  BY <1>1, <1>2, Zenon DEF NumbersApart
<1>6. \A o \in DeliverySessions : Spares(deliveryTx[o])
  BY <1>1, QuietSpares, Zenon DEF NativeDeliveryInv
<1>7. \A d \in DOMAIN delivery' : SettledByHistory(d)'
  BY <1>1, Zenon DEF NativeDeliveryInv, SettledByHistory
<1>8. NativeDeliveryInv'
  BY <1>1, <1>4, <1>5, <1>6, <1>7, StillAssembled, Zenon
<1> QED
  BY <1>1, <1>2, <1>8, QuietStep, Zenon

\* The last upsert of a write, and COMMIT.
LEMMA CommitsWriteKeeps ==
  ASSUME NativeDeliveryInv, NEW s \in DeliverySessions, UpsertsEntry(s),
         deliveryTx[s].todo = {deliveryTx[s].found}
  PROVE  NativeDeliveryInv' /\ DeliveriesKeptStep
<1>1. PICK x : x = deliveryTx[s]
  BY Zenon
<1>2. PICK j : j = x.found
  BY Zenon
<1>3. PICK w : w = x.arg
  BY Zenon
<1>4. PICK locks : locks = {Writing("alerts"), AlertLock(j, "update")}
  BY Zenon
<1>5. /\ x.op = "write" /\ x.at = 2 /\ x.todo = {j}
      /\ alertRow[j] # NoRow /\ alertRow[j].id # w.after[j].id => ~Referenced(j)
      /\ CommitsWrite(s, locks)
  BY <1>1, <1>2, <1>3, <1>4, Zenon DEF UpsertsEntry
<1>6. /\ Grantable(s, locks) /\ deliveryTx' = [deliveryTx EXCEPT ![s] = Open]
      /\ alertRow' = [k \in AlertKeys |-> IF k \in DOMAIN w.after THEN w.after[k] ELSE alertRow[k]]
      /\ prepared' = prepared \ {w} /\ hooksOn' = hooksOn /\ delivery' = delivery
      /\ outcomes' = outcomes /\ claims' = claims /\ writes' = writes
  BY <1>1, <1>3, <1>5, Zenon DEF CommitsWrite, Commits
<1>7. NativeDeliveryTypeOK /\ NumbersApart /\ LocksCompatible /\ DOMAIN deliveryTx = DeliverySessions
  BY Zenon DEF NativeDeliveryInv, NativeDeliveryTypeOK
<1>8. TransactionHolds(x)
  BY <1>1, SessionTx, Zenon
<1>9. WriteHolds(x)
  BY <1>8, Zenon DEF TransactionHolds
<1>10. w \in prepared /\ PreparedOK(w) /\ OperationLock("write", w.number) \in x.held
  BY <1>3, <1>5, <1>7, <1>9, Zenon DEF WriteHolds, NativeDeliveryTypeOK
<1>11. DOMAIN w.before = DOMAIN w.after /\ DOMAIN w.after \subseteq AlertKeys
  BY <1>10, Zenon DEF PreparedOK
<1>12. ASSUME NEW k \in DOMAIN w.after
       PROVE  /\ AlertLock(k, "update") \in deliveryTx[s].held \cup locks
              /\ w.before[k] # NoRow => alertRow[k] = w.before[k]
              /\ w.before[k] = NoRow => alertRow[k] = NoRow \/ ~Referenced(k)
  <2>1. CASE k = j
    <3>1. w.before[k] # NoRow => alertRow[k] = w.before[k]
      BY <1>2, <1>3, <1>5, <1>9, <1>11, <2>1, Zenon DEF WriteHolds
    <3>2. w.before[k] = NoRow => alertRow[k] = NoRow \/ ~Referenced(k)
      BY <1>2, <1>3, <1>5, <1>9, <2>1, UpsertMeets, Zenon
    <3> QED
      BY <1>4, <2>1, <3>1, <3>2, Zenon
  <2>2. CASE k # j
    <3>1. k \notin x.todo /\ k \in DOMAIN x.arg.before
      BY <1>3, <1>5, <1>11, <2>2, Zenon
    <3> QED
      BY <1>1, <1>3, <1>5, <1>9, <3>1, Zenon DEF WriteHolds
  <2> QED
    BY <2>1, <2>2, Zenon
<1>13. /\ \A k \in DOMAIN w.after : alertRow'[k] = w.after[k] /\ w.after[k] \in NativeAlertRow
       /\ \A k \in AlertKeys : k \notin DOMAIN w.after => alertRow'[k] = alertRow[k]
  BY <1>6, <1>10, <1>11, Zenon DEF PreparedOK
<1>14. \A k \in AlertKeys : alertRow[k] # NoRow => alertRow[k] \in NativeAlertRow
  BY <1>7, Zenon DEF NativeDeliveryTypeOK
<1>15. NativeDeliveryTypeOK'
  <2>1. alertRow' \in [AlertKeys -> NativeAlertRow \cup {NoRow}]
    BY <1>6, <1>13, <1>14, Zenon
  <2>2. DOMAIN deliveryTx' = DeliverySessions /\ \A o \in DeliverySessions : DOMAIN deliveryTx'[o] = DOMAIN Open
    BY <1>6, <1>7, TxReplaced, Zenon DEF NativeDeliveryTypeOK
  <2> QED
    BY <1>6, <1>7, <2>1, <2>2, Zenon DEF NativeDeliveryTypeOK, PreparedOK
<1>16. NumbersApart'
  <2>1. ASSUME NEW k \in AlertKeys, alertRow'[k] # NoRow
        PROVE  alertRow'[k].id <= writes /\ \A v \in prepared' : alertRow'[k].id # v.number
    <3>1. CASE k \notin DOMAIN w.after
      BY <1>6, <1>7, <1>13, <2>1, <3>1, Zenon DEF NumbersApart
    <3>2. CASE k \in DOMAIN w.after /\ w.before[k] = NoRow
      <4>1. alertRow'[k].id = w.number
        BY <1>10, <1>13, <3>2, Zenon DEF PreparedOK
      <4> QED
        BY <1>6, <1>7, <1>10, <4>1, Zenon DEF NumbersApart
    <3>3. CASE k \in DOMAIN w.after /\ w.before[k] # NoRow
      <4>1. alertRow'[k].id = w.before[k].id /\ k \in DOMAIN w.before
        BY <1>10, <1>11, <1>13, <3>3, Zenon DEF PreparedOK
      <4> QED
        BY <1>6, <1>7, <1>10, <3>3, <4>1, Zenon DEF NumbersApart
    <3> QED
      BY <3>1, <3>2, <3>3, Zenon
  <2>2. prepared' \subseteq prepared
    BY <1>6, Zenon
  <2>3. /\ \A v \in prepared' : v.number <= writes
        /\ \A v, u \in prepared' : v.number = u.number => v = u
        /\ \A v \in prepared' : \A k \in DOMAIN v.before : v.before[k] # NoRow =>
             v.before[k].id <= writes /\ \A u \in prepared' : v.before[k].id # u.number
    BY <1>7, <2>2, Zenon DEF NumbersApart
  <2> QED
    BY <1>6, <2>1, <2>3, Zenon DEF NumbersApart
<1>17. LocksCompatible'
  <2>1. Open.held \subseteq deliveryTx[s].held \cup locks
    BY OpenFields, Zenon
  <2>2. PICK y : y = Open
    BY Zenon
  <2> QED
    BY <1>6, <1>7, <2>1, <2>2, GrantedCompatible, OpenFields, Zenon
<1>18. ASSUME NEW o \in DeliverySessions, o # s, NEW k \in DOMAIN w.after
       PROVE  /\ AlertLock(k, "update") \notin deliveryTx[o].held
              /\ AlertLock(k, "no_key_update") \notin deliveryTx[o].held
  BY <1>6, <1>7, <1>12, <1>18, ShutsOut, ConflictingModes, Zenon DEF AlertLock
<1>19. ASSUME NEW o \in DeliverySessions, o # s PROVE Spares(deliveryTx[o])
  <2>1. PICK z : z = deliveryTx[o] /\ TransactionHolds(z)
    BY Zenon DEF NativeDeliveryInv
  <2>2. z.op = "write" => z.arg \in prepared'
    <3>1. ASSUME z.op = "write", z.arg = w PROVE FALSE
      <4>1. OperationLock("write", w.number) \in z.held
        BY <2>1, <3>1, Zenon DEF TransactionHolds, WriteHolds
      <4> QED
        BY <1>1, <1>7, <1>10, <1>19, <2>1, <4>1, Exclusive, ConflictingModes, Zenon DEF OperationLock
    <3> QED
      BY <1>6, <2>1, <3>1, Zenon DEF TransactionHolds, WriteHolds
  <2>3. \A k \in AlertKeys : AlertLock(k, "update") \in z.held => alertRow'[k] = alertRow[k]
    BY <1>13, <1>18, <1>19, <2>1, Zenon
  <2>4. \A k \in AlertKeys : AlertLock(k, "no_key_update") \in z.held => alertRow'[k] = alertRow[k]
    BY <1>13, <1>18, <1>19, <2>1, Zenon
  <2>5. Spares(z)
    BY <1>6, <2>1, <2>2, <2>3, <2>4, Zenon DEF Spares, TransactionHolds, EnqueueHolds, ClaimHolds
  <2> QED
    BY <2>1, <2>5, Zenon
<1>20. \A d \in DOMAIN delivery' : SettledByHistory(d)'
  BY <1>6, Zenon DEF NativeDeliveryInv, SettledByHistory
<1>21. NativeDeliveryInv'
  <2>1. PICK y : y = Open
    BY Zenon
  <2>2. TransactionHolds(y)'
    BY <2>1, OpenHolds, Zenon
  <2> QED
    BY <1>6, <1>15, <1>16, <1>17, <1>19, <1>20, <2>1, <2>2, Assembled, Zenon
<1>22. ASSUME NEW k \in AlertKeys, alertRow[k] # NoRow, alertRow'[k] # NoRow, alertRow'[k].id = alertRow[k].id
       PROVE  alertRow'[k].sent = alertRow[k].sent \/ SendRecorded(k)
  <2>1. CASE k \notin DOMAIN w.after
    BY <1>13, <2>1, Zenon
  <2>2. CASE k \in DOMAIN w.after /\ w.before[k] = NoRow
    <3>1. alertRow'[k].id = w.number
      BY <1>10, <1>13, <2>2, Zenon DEF PreparedOK
    <3> QED
      BY <1>7, <1>10, <1>22, <3>1, Zenon DEF NumbersApart
  <2>3. CASE k \in DOMAIN w.after /\ w.before[k] # NoRow
    <3>1. alertRow[k] = w.before[k] /\ alertRow'[k] = w.after[k] /\ w \in prepared \ prepared'
      BY <1>6, <1>10, <1>12, <1>13, <2>3, Zenon
    <3>2. w.after[k].sent = w.before[k].sent \/ (w.at # 0 /\ w.after[k].sent = w.at)
      BY <1>10, <2>3, Zenon DEF PreparedOK
    <3> QED
      BY <1>11, <2>3, <3>1, <3>2, Zenon DEF SendRecorded
  <2> QED
    BY <2>1, <2>2, <2>3, Zenon
<1>23. \A v \in prepared \ prepared' : \A k \in DOMAIN v.before :
         /\ v.before[k] # NoRow => alertRow[k] = v.before[k]
         /\ alertRow[k] # NoRow /\ Referenced(k) => alertRow[k] = v.before[k]
  <2>1. \A v \in prepared \ prepared' : v = w
    BY <1>6, Zenon
  <2> QED
    BY <1>11, <1>12, <2>1, Zenon
<1> QED
  BY <1>6, <1>21, <1>22, <1>23, Zenon DEF DeliveriesKeptStep

\* A pass puts a delivery of an open alert in the queue.
LEMMA BeginsEnqueueKeeps ==
  ASSUME NativeDeliveryInv, NEW s \in DeliverySessions, NEW k \in AlertKeys, NEW h \in Webhooks,
         BeginsEnqueue(s, k, h)
  PROVE  NativeDeliveryInv' /\ DeliveriesKeptStep
<1>1. PICK d : d = Listed(k, h)
  BY Zenon
<1>2. PICK locks : locks = {OperationLock("enqueue", d)}
  BY Zenon
<1>3. PICK y : y = [Open EXCEPT !.op = "enqueue", !.arg = d, !.todo = {}, !.held = locks]
  BY Zenon
<1>4. DOMAIN y = DOMAIN Open /\ y.held = locks /\ y.op = "enqueue" /\ y.at = 1 /\ y.arg = d
  BY <1>3, Zenon DEF Open
<1>5. /\ alertRow[k] # NoRow /\ d \notin DOMAIN delivery /\ Grantable(s, locks)
      /\ deliveryTx' = [deliveryTx EXCEPT ![s] = y] /\ UNCHANGED Tables
  BY <1>1, <1>2, <1>3, Zenon DEF BeginsEnqueue, Begins, Tables
<1>6. d \in DeliveryKey
  <2>1. alertRow[k] \in NativeAlertRow
    BY <1>5, Zenon DEF NativeDeliveryInv, NativeDeliveryTypeOK
  <2>2. alertRow[k].id \in Nat /\ alertRow[k].seen \in Nat
    BY <2>1, RowFields, Zenon
  <2> QED
    BY <1>1, <2>2, Zenon DEF Listed, DeliveryKey
<1>7. y.at # 3
  BY <1>4
<1>8. TransactionHolds(y)
  BY <1>2, <1>4, <1>5, <1>6, <1>7, KindHolds, Zenon DEF EnqueueHolds
<1> QED
  BY <1>4, <1>5, <1>8, SessionMoves, Zenon

\* The hook is shared.
LEMMA SharesHookKeeps ==
  ASSUME NativeDeliveryInv, NEW s \in DeliverySessions, SharesHook(s)
  PROVE  NativeDeliveryInv' /\ DeliveriesKeptStep
<1>1. PICK x : x = deliveryTx[s] /\ TransactionHolds(x) /\ DOMAIN x = DOMAIN Open
  BY SessionTx, Zenon
<1>2. PICK locks : locks = {HookLock(x.arg.hook, "share")}
  BY Zenon
<1>3. PICK y : y = [[x EXCEPT !.at = 2] EXCEPT !.held = @ \cup locks]
  BY Zenon
<1>4. /\ DOMAIN y = DOMAIN Open /\ y.held = x.held \cup locks /\ y.op = x.op /\ y.at = 2
      /\ y.arg = x.arg /\ y.todo = x.todo /\ y.found = x.found
  BY <1>1, <1>3, OpenFields, Zenon
<1>5. /\ x.op = "enqueue" /\ Grantable(s, locks)
      /\ deliveryTx' = [deliveryTx EXCEPT ![s] = y] /\ UNCHANGED Tables
  BY <1>1, <1>2, <1>3, Zenon DEF SharesHook, Statement, Tables
<1>6. y.at # 3
  BY <1>4
<1>7. EnqueueHolds(y)
  BY <1>1, <1>4, <1>5, <1>6, Zenon DEF TransactionHolds, EnqueueHolds
<1>8. TransactionHolds(y)
  BY <1>4, <1>5, <1>7, KindHolds, Zenon
<1> QED
  BY <1>1, <1>4, <1>5, <1>8, SessionMoves, Zenon

\* The alert is shared, if it is still open.
LEMMA SharesAlertKeeps ==
  ASSUME NativeDeliveryInv, NEW s \in DeliverySessions, SharesAlert(s)
  PROVE  NativeDeliveryInv' /\ DeliveriesKeptStep
<1>1. PICK x : x = deliveryTx[s] /\ TransactionHolds(x) /\ DOMAIN x = DOMAIN Open
  BY SessionTx, Zenon
<1>2. PICK locks : locks = {AlertLock(x.arg.key, "share")}
  BY Zenon
<1>3. PICK y : y = [[x EXCEPT !.at = 3] EXCEPT !.held = @ \cup locks]
  BY Zenon
<1>4. /\ DOMAIN y = DOMAIN Open /\ y.held = x.held \cup locks /\ y.op = x.op /\ y.at = 3
      /\ y.arg = x.arg /\ y.todo = x.todo /\ y.found = x.found
  BY <1>1, <1>3, OpenFields, Zenon
<1>5. /\ x.op = "enqueue" /\ Grantable(s, locks)
      /\ deliveryTx' = [deliveryTx EXCEPT ![s] = y] /\ UNCHANGED Tables
  BY <1>1, <1>2, <1>3, Zenon DEF SharesAlert, Statement, Tables
<1>6. EnqueueHolds(y)
  BY <1>1, <1>2, <1>4, <1>5, Zenon DEF TransactionHolds, EnqueueHolds
<1>7. TransactionHolds(y)
  BY <1>4, <1>5, <1>6, KindHolds, Zenon
<1> QED
  BY <1>1, <1>4, <1>5, <1>7, SessionMoves, Zenon

\* A delivery that has recorded attempts or none, and its row.
LEMMA DeliveryTyped ==
  ASSUME NativeDeliveryTypeOK, NEW d \in DOMAIN delivery
  PROVE  /\ d \in DeliveryKey /\ d.key \in AlertKeys
         /\ delivery[d] \in DeliveryState /\ outcomes[d] \in Seq(AttemptResults)
BY Zenon DEF NativeDeliveryTypeOK, DeliveryKey

\* The delivery is inserted, and the transaction ends.
LEMMA InsertsDeliveryKeeps ==
  ASSUME NativeDeliveryInv, NEW s \in DeliverySessions, InsertsDelivery(s)
  PROVE  NativeDeliveryInv' /\ DeliveriesKeptStep
<1>1. PICK x : x = deliveryTx[s] /\ TransactionHolds(x)
  BY SessionTx, Zenon
<1>2. PICK d : d = x.arg
  BY Zenon
<1>3. PICK locks : locks = {Writing("queue")}
  BY Zenon
<1>4. /\ x.op = "enqueue" /\ x.at = 3 /\ Grantable(s, locks)
      /\ deliveryTx' = [deliveryTx EXCEPT ![s] = Open]
      /\ delivery' = With(delivery, d, NewDelivery) /\ outcomes' = With(outcomes, d, <<>>)
      /\ alertRow' = alertRow /\ hooksOn' = hooksOn /\ claims' = claims /\ prepared' = prepared
      /\ writes' = writes
  BY <1>1, <1>2, <1>3, Zenon DEF InsertsDelivery, Commits
<1>5. NativeDeliveryTypeOK /\ NumbersApart /\ LocksCompatible /\ DOMAIN deliveryTx = DeliverySessions
  BY Zenon DEF NativeDeliveryInv, NativeDeliveryTypeOK
<1>6. /\ d \in DeliveryKey /\ d \notin DOMAIN delivery /\ OperationLock("enqueue", d) \in deliveryTx[s].held
      /\ AlertLock(d.key, "share") \in deliveryTx[s].held
  BY <1>1, <1>2, <1>4, Zenon DEF TransactionHolds, EnqueueHolds
<1>7. /\ DOMAIN delivery' = DOMAIN delivery \cup {d} /\ delivery'[d] = NewDelivery
      /\ \A e \in DOMAIN delivery : delivery'[e] = delivery[e]
  BY <1>4, <1>6, Zenon DEF With
<1>8. /\ DOMAIN outcomes' = DOMAIN outcomes \cup {d} /\ outcomes'[d] = <<>>
      /\ \A e \in DOMAIN delivery : outcomes'[e] = outcomes[e]
  BY <1>4, <1>5, <1>6, Zenon DEF With, NativeDeliveryTypeOK
<1>9. NativeDeliveryTypeOK'
  <2>1. DOMAIN deliveryTx' = DeliverySessions /\ \A o \in DeliverySessions : DOMAIN deliveryTx'[o] = DOMAIN Open
    BY <1>4, <1>5, TxReplaced, Zenon DEF NativeDeliveryTypeOK
  <2>2. NewDelivery \in DeliveryState /\ <<>> \in Seq(AttemptResults)
    BY DEF NewDelivery, DeliveryState
  <2>3. /\ DOMAIN delivery' \subseteq DeliveryKey /\ DOMAIN outcomes' = DOMAIN delivery'
        /\ \A e \in DOMAIN delivery' : delivery'[e] \in DeliveryState /\ outcomes'[e] \in Seq(AttemptResults)
    BY <1>5, <1>6, <1>7, <1>8, <2>2, Zenon DEF NativeDeliveryTypeOK
  <2> QED
    BY <1>4, <1>5, <2>1, <2>3, Zenon DEF NativeDeliveryTypeOK, PreparedOK
<1>10. NumbersApart'
  BY <1>4, <1>5, Zenon DEF NumbersApart
<1>11. LocksCompatible'
  <2>1. PICK y : y = Open
    BY Zenon
  <2>2. y.held \subseteq deliveryTx[s].held \cup locks
    BY <2>1, OpenFields, Zenon
  <2> QED
    BY <1>4, <1>5, <2>1, <2>2, GrantedCompatible, Zenon
<1>12. ASSUME NEW o \in DeliverySessions, o # s PROVE Spares(deliveryTx[o])
  <2>1. PICK z : z = deliveryTx[o] /\ TransactionHolds(z)
    BY Zenon DEF NativeDeliveryInv
  <2>2. \A k \in AlertKeys : AlertLock(k, "update") \in z.held => d.key # k
    BY <1>5, <1>6, <1>12, <2>1, Exclusive, ConflictingModes, Zenon DEF AlertLock
  <2>3. z.op = "enqueue" => z.arg # d
    <3>1. z.op = "enqueue" => OperationLock("enqueue", z.arg) \in z.held
      BY <2>1, Zenon DEF TransactionHolds, EnqueueHolds
    <3> QED
      BY <1>5, <1>6, <1>12, <2>1, <3>1, Exclusive, ConflictingModes, Zenon DEF OperationLock
  <2>4. TableLock("queue", "share_row_exclusive") \notin z.held
    <3>1. <<<<"table", "queue">>, "row_exclusive">> \in locks
      BY <1>3, Zenon DEF Writing, TableLock
    <3> QED
      BY <1>4, <1>12, <2>1, <3>1, Blocked, ConflictingModes, Zenon DEF TableLock
  <2>5. Spares(z)
    <3>1. z.op = "write" => z.arg \in prepared'
      BY <1>4, <2>1, Zenon DEF TransactionHolds, WriteHolds
    <3>2. z.op = "enqueue" => z.arg \notin DOMAIN delivery'
      BY <1>7, <2>1, <2>3, Zenon DEF TransactionHolds, EnqueueHolds
    <3>3. z.op = "claim" => \A e \in z.todo :
            e \in DOMAIN delivery' /\ delivery'[e].status = "claimed" /\ delivery'[e].late
      BY <1>7, <2>1, Zenon DEF TransactionHolds, ClaimHolds
    <3> QED
      BY <1>4, <1>7, <2>2, <2>4, <3>1, <3>2, <3>3, Zenon DEF Spares
  <2> QED
    BY <2>1, <2>5, Zenon
<1>13. \A e \in DOMAIN delivery' : SettledByHistory(e)'
  <2>1. ASSUME NEW e \in DOMAIN delivery PROVE SettledByHistory(e)'
    BY <1>7, <1>8, Zenon DEF NativeDeliveryInv, SettledByHistory
  <2>2. SettledByHistory(d)'
    BY <1>7, <1>8 DEF SettledByHistory, NewDelivery
  <2> QED
    BY <1>7, <2>1, <2>2, Zenon
<1>14. NativeDeliveryInv'
  <2>1. PICK y : y = Open
    BY Zenon
  <2>2. TransactionHolds(y)'
    BY <2>1, OpenHolds, Zenon
  <2> QED
    BY <1>4, <1>9, <1>10, <1>11, <1>12, <1>13, <2>1, <2>2, Assembled, Zenon
<1> QED
  BY <1>4, <1>7, <1>14, Zenon DEF DeliveriesKeptStep

\* The statuses of a delivery that is still to be sent.
Unsent == {"pending", "claimed", "retry"}

\* What an attempt makes of a delivery.
LEMMA OutcomeStatuses ==
  ASSUME NEW result, NEW number
  PROVE  /\ OutcomeStatus(result, number) \in {"succeeded", "retry", "dead_letter"}
         /\ OutcomeStatus(result, number) = "retry" => result = "retryable"
BY Zenon DEF OutcomeStatus

\* A delivery that is to be sent stays one that is to be sent.
LEMMA SettledMoves ==
  ASSUME NEW d, SettledByHistory(d), delivery'[d].count = delivery[d].count, outcomes'[d] = outcomes[d],
         delivery'[d].status = delivery[d].status
           \/ (delivery[d].status \in Unsent /\ delivery'[d].status \in Unsent)
  PROVE  SettledByHistory(d)'
<1>1. PICK n : n = Len(outcomes[d])
  BY Zenon
<1>2. PICK last : last = outcomes[d][n]
  BY Zenon
<1>3. /\ delivery[d].count = n /\ \A i \in 1..(n - 1) : outcomes[d][i] = "retryable"
      /\ IF n > 0 /\ OutcomeStatus(last, n) # "retry"
         THEN delivery[d].status = OutcomeStatus(last, n)
         ELSE delivery[d].status \in Unsent
  BY <1>1, <1>2, Zenon DEF SettledByHistory, Unsent
<1>4. IF n > 0 /\ OutcomeStatus(last, n) # "retry"
      THEN delivery'[d].status = OutcomeStatus(last, n)
      ELSE delivery'[d].status \in Unsent
  <2>1. CASE n > 0 /\ OutcomeStatus(last, n) # "retry"
    <3>1. OutcomeStatus(last, n) \in {"succeeded", "retry", "dead_letter"}
      BY OutcomeStatuses, Zenon
    <3>2. OutcomeStatus(last, n) \notin Unsent
      BY <2>1, <3>1, Zenon DEF Unsent
    <3> QED
      BY <1>3, <2>1, <3>2, Zenon
  <2>2. CASE ~(n > 0 /\ OutcomeStatus(last, n) # "retry")
    BY <1>3, <2>2, Zenon
  <2> QED
    BY <2>1, <2>2, Zenon
<1>5. Len(outcomes'[d]) = n /\ outcomes'[d][n] = last
  BY <1>1, <1>2, Zenon
<1> QED
  BY <1>3, <1>4, <1>5, Zenon DEF SettledByHistory, Unsent

\* Rows of the queue change, and nothing else but the claims and one transaction.
LEMMA QueueTyped ==
  ASSUME NativeDeliveryInv, DOMAIN delivery' = DOMAIN delivery, outcomes' = outcomes,
         \A d \in DOMAIN delivery :
           /\ delivery'[d] \in DeliveryState /\ delivery'[d].count = delivery[d].count
           /\ delivery'[d].status = delivery[d].status
                \/ (delivery[d].status \in Unsent /\ delivery'[d].status \in Unsent),
         alertRow' = alertRow, hooksOn' = hooksOn, prepared' = prepared, writes' = writes,
         claims' \subseteq DeliveryClaim, DOMAIN deliveryTx' = DeliverySessions,
         \A o \in DeliverySessions : DOMAIN deliveryTx'[o] = DOMAIN Open
  PROVE  /\ NativeDeliveryTypeOK' /\ NumbersApart' /\ DeliveriesKeptStep
         /\ \A d \in DOMAIN delivery' : SettledByHistory(d)'
<1>1. NativeDeliveryTypeOK /\ NumbersApart
  BY Zenon DEF NativeDeliveryInv
<1>2. NativeDeliveryTypeOK'
  <2>1. \A w \in prepared' : PreparedOK(w)'
    BY <1>1, Zenon DEF NativeDeliveryTypeOK, PreparedOK
  <2>2. /\ DOMAIN delivery' \subseteq DeliveryKey /\ DOMAIN outcomes' = DOMAIN delivery'
        /\ \A d \in DOMAIN delivery' : delivery'[d] \in DeliveryState /\ outcomes'[d] \in Seq(AttemptResults)
    BY <1>1, Zenon DEF NativeDeliveryTypeOK
  <2> QED
    BY <1>1, <2>1, <2>2, Zenon DEF NativeDeliveryTypeOK
<1>3. NumbersApart'
  BY <1>1, Zenon DEF NumbersApart
<1>4. ASSUME NEW d \in DOMAIN delivery' PROVE SettledByHistory(d)'
  BY <1>4, SettledMoves, Zenon DEF NativeDeliveryInv
<1>6. DeliveriesKeptStep
  BY Zenon DEF DeliveriesKeptStep
<1> QED
  BY <1>2, <1>3, <1>4, <1>6, Zenon

\* Rows of the queue change, but no lost claim, and no status while retention
\* has the queue.
LEMMA QueueSpares ==
  ASSUME NEW z, TransactionHolds(z), DOMAIN delivery' = DOMAIN delivery,
         alertRow' = alertRow, prepared' = prepared,
         z.op = "claim" => \A d \in z.todo : delivery'[d].status = "claimed" /\ delivery'[d].late,
         TableLock("queue", "share_row_exclusive") \in z.held
           => \A d \in DOMAIN delivery : delivery'[d].status = delivery[d].status
  PROVE  Spares(z)
BY Zenon DEF Spares, TransactionHolds, WriteHolds, EnqueueHolds, ClaimHolds

\* One row of the queue is rewritten.
LEMMA RowMoves ==
  ASSUME NativeDeliveryInv, NEW d \in DOMAIN delivery, NEW row \in DeliveryState,
         delivery' = [delivery EXCEPT ![d] = row], row.count = delivery[d].count,
         row.status = delivery[d].status \/ (delivery[d].status \in Unsent /\ row.status \in Unsent),
         delivery[d].status = "claimed" /\ delivery[d].late => row.status = "claimed" /\ row.late,
         row.status = delivery[d].status \/
           \A o \in DeliverySessions : TableLock("queue", "share_row_exclusive") \notin deliveryTx[o].held,
         outcomes' = outcomes, alertRow' = alertRow, hooksOn' = hooksOn, prepared' = prepared,
         writes' = writes, claims' \subseteq DeliveryClaim, deliveryTx' = deliveryTx
  PROVE  NativeDeliveryInv' /\ DeliveriesKeptStep
<1>1. /\ DOMAIN delivery' = DOMAIN delivery /\ delivery'[d] = row
      /\ \A e \in DOMAIN delivery : e # d => delivery'[e] = delivery[e]
  BY Zenon
<1>2. NativeDeliveryTypeOK
  BY Zenon DEF NativeDeliveryInv
<1>3. \A e \in DOMAIN delivery :
        /\ delivery'[e] \in DeliveryState /\ delivery'[e].count = delivery[e].count
        /\ delivery'[e].status = delivery[e].status
             \/ (delivery[e].status \in Unsent /\ delivery'[e].status \in Unsent)
  <2>1. ASSUME NEW e \in DOMAIN delivery
        PROVE  /\ delivery'[e] \in DeliveryState /\ delivery'[e].count = delivery[e].count
               /\ delivery'[e].status = delivery[e].status
                    \/ (delivery[e].status \in Unsent /\ delivery'[e].status \in Unsent)
    <3>1. CASE e = d
      BY <1>1, <3>1, Zenon
    <3>2. CASE e # d
      <4>1. delivery'[e] = delivery[e]
        BY <1>1, <3>2, Zenon
      <4>2. delivery[e] \in DeliveryState
        BY <1>2, DeliveryTyped, Zenon
      <4> QED
        BY <4>1, <4>2, Zenon
    <3> QED
      BY <3>1, <3>2, Zenon
  <2> QED
    BY <2>1, Zenon
<1>4. DOMAIN deliveryTx' = DeliverySessions /\ \A o \in DeliverySessions : DOMAIN deliveryTx'[o] = DOMAIN Open
  BY <1>2, Zenon DEF NativeDeliveryTypeOK
<1>5. /\ NativeDeliveryTypeOK' /\ NumbersApart' /\ DeliveriesKeptStep
      /\ \A e \in DOMAIN delivery' : SettledByHistory(e)'
  BY <1>1, <1>3, <1>4, QueueTyped, Zenon
<1>6. ASSUME NEW o \in DeliverySessions PROVE Spares(deliveryTx[o])
  <2>1. PICK z : z = deliveryTx[o] /\ TransactionHolds(z)
    BY Zenon DEF NativeDeliveryInv
  <2>2. z.op = "claim" => \A e \in z.todo : delivery'[e].status = "claimed" /\ delivery'[e].late
    BY <1>1, <2>1, Zenon DEF TransactionHolds, ClaimHolds
  <2>3. TableLock("queue", "share_row_exclusive") \in z.held
          => \A e \in DOMAIN delivery : delivery'[e].status = delivery[e].status
    BY <1>1, <2>1, Zenon
  <2> QED
    BY <1>1, <2>1, <2>2, <2>3, QueueSpares, Zenon
<1> QED
  BY <1>5, <1>6, StillAssembled, Zenon

\* One row of the queue is rewritten, and its status stays.
LEMMA RowStays ==
  ASSUME NativeDeliveryInv, NEW d \in DOMAIN delivery, NEW row \in DeliveryState,
         delivery' = [delivery EXCEPT ![d] = row], row.count = delivery[d].count,
         row.status = delivery[d].status, delivery[d].late => row.late,
         outcomes' = outcomes, alertRow' = alertRow, hooksOn' = hooksOn, prepared' = prepared,
         writes' = writes, claims' \subseteq DeliveryClaim, deliveryTx' = deliveryTx
  PROVE  NativeDeliveryInv' /\ DeliveriesKeptStep
<1>1. row.status = delivery[d].status \/ (delivery[d].status \in Unsent /\ row.status \in Unsent)
  BY Zenon
<1>2. row.status = delivery[d].status \/
        \A o \in DeliverySessions : TableLock("queue", "share_row_exclusive") \notin deliveryTx[o].held
  BY Zenon
<1>3. delivery[d].status = "claimed" /\ delivery[d].late => row.status = "claimed" /\ row.late
  BY Zenon
<1> QED
  BY <1>1, <1>2, <1>3, RowMoves, Zenon

\* A lease ends.
LEMMA LeaseEndsKeeps ==
  ASSUME NativeDeliveryInv, NEW d \in DOMAIN delivery, DeliveryLeaseEnds(d)
  PROVE  NativeDeliveryInv' /\ DeliveriesKeptStep
<1>1. PICK r : r = delivery[d] /\ r \in DeliveryState
  BY DeliveryTyped, Zenon DEF NativeDeliveryInv
<1>2. PICK row : row = [r EXCEPT !.late = TRUE]
  BY Zenon
<1>3. row \in DeliveryState /\ row.count = r.count /\ row.status = r.status /\ row.late
  BY <1>1, <1>2, Zenon DEF DeliveryState
<1>4. claims \subseteq DeliveryClaim
  BY Zenon DEF NativeDeliveryInv, NativeDeliveryTypeOK
<1>5. /\ delivery' = [delivery EXCEPT ![d] = row]
      /\ outcomes' = outcomes /\ alertRow' = alertRow /\ hooksOn' = hooksOn /\ prepared' = prepared
      /\ writes' = writes /\ claims' = claims /\ deliveryTx' = deliveryTx
  BY <1>1, <1>2, Zenon DEF DeliveryLeaseEnds
<1>6. row.count = delivery[d].count /\ row.status = delivery[d].status /\ (delivery[d].late => row.late)
  BY <1>1, <1>3, Zenon
<1>7. claims' \subseteq DeliveryClaim
  BY <1>4, <1>5, Zenon
<1> QED
  BY <1>3, <1>5, <1>6, <1>7, RowStays, Zenon

\* A retry comes due.
LEMMA ComesDueKeeps ==
  ASSUME NativeDeliveryInv, NEW d \in DOMAIN delivery, DeliveryComesDue(d)
  PROVE  NativeDeliveryInv' /\ DeliveriesKeptStep
<1>1. PICK r : r = delivery[d] /\ r \in DeliveryState
  BY DeliveryTyped, Zenon DEF NativeDeliveryInv
<1>2. PICK row : row = [r EXCEPT !.due = TRUE]
  BY Zenon
<1>3. row \in DeliveryState /\ row.count = r.count /\ row.status = r.status /\ row.late = r.late
  BY <1>1, <1>2, Zenon DEF DeliveryState
<1>4. claims \subseteq DeliveryClaim
  BY Zenon DEF NativeDeliveryInv, NativeDeliveryTypeOK
<1>5. /\ delivery' = [delivery EXCEPT ![d] = row]
      /\ outcomes' = outcomes /\ alertRow' = alertRow /\ hooksOn' = hooksOn /\ prepared' = prepared
      /\ writes' = writes /\ claims' = claims /\ deliveryTx' = deliveryTx
  BY <1>1, <1>2, Zenon DEF DeliveryComesDue
<1>6. row.count = delivery[d].count /\ row.status = delivery[d].status /\ (delivery[d].late => row.late)
  BY <1>1, <1>3, Zenon
<1>7. claims' \subseteq DeliveryClaim
  BY <1>4, <1>5, Zenon
<1> QED
  BY <1>3, <1>5, <1>6, <1>7, RowStays, Zenon

\* A session that may write to the queue shuts retention out.
LEMMA QueueWriter ==
  ASSUME NEW s \in DeliverySessions, NEW locks, Grantable(s, locks), Writing("queue") \in locks,
         NEW o \in DeliverySessions, o # s
  PROVE  TableLock("queue", "share_row_exclusive") \notin deliveryTx[o].held
BY Blocked, ConflictingModes, Zenon DEF Writing, TableLock

\* A claim is renewed.
LEMMA RenewsKeeps ==
  ASSUME NativeDeliveryInv, NEW s \in DeliverySessions, NEW c \in claims, RenewsDelivery(s, c)
  PROVE  NativeDeliveryInv' /\ DeliveriesKeptStep
<1>1. NativeDeliveryTypeOK /\ c \in DeliveryClaim
  BY Zenon DEF NativeDeliveryInv, NativeDeliveryTypeOK
<1>2. PICK d : d = c.delivery
  BY Zenon
<1>3. UpdatesClaimed(s, c, [delivery[d] EXCEPT !.lease = c.lease + 1]) /\ ClaimLive(c)
  BY <1>2, Zenon DEF RenewsDelivery, UpdatesClaimed
<1>4. d \in DOMAIN delivery /\ delivery[d].status = "claimed" /\ ~delivery[d].late
  BY <1>2, <1>3, Zenon DEF ClaimLive
<1>5. PICK r : r = delivery[d] /\ r \in DeliveryState
  BY <1>1, <1>4, DeliveryTyped, Zenon
<1>6. PICK row : row = [r EXCEPT !.lease = c.lease + 1]
  BY Zenon
<1>7. row \in DeliveryState /\ row.count = r.count /\ row.status = r.status
  BY <1>1, <1>5, <1>6 DEF DeliveryState, DeliveryClaim
<1>8. claims' \subseteq DeliveryClaim
  <2>1. PICK new : new = [c EXCEPT !.lease = @ + 1]
    BY Zenon
  <2>2. new \in DeliveryClaim
    BY <1>1, <2>1 DEF DeliveryClaim
  <2>3. claims' = claims \cup {new}
    BY <2>1, Zenon DEF RenewsDelivery
  <2> QED
    BY <1>1, <2>2, <2>3, Zenon DEF NativeDeliveryTypeOK
<1>9. /\ delivery' = [delivery EXCEPT ![d] = row]
      /\ outcomes' = outcomes /\ alertRow' = alertRow /\ hooksOn' = hooksOn /\ prepared' = prepared
      /\ writes' = writes /\ deliveryTx' = deliveryTx
  BY <1>2, <1>3, <1>5, <1>6, Zenon DEF UpdatesClaimed
<1>10. row.count = delivery[d].count /\ row.status = delivery[d].status /\ (delivery[d].late => row.late)
  BY <1>4, <1>5, <1>7, Zenon
<1> QED
  BY <1>4, <1>7, <1>8, <1>9, <1>10, RowStays, Zenon

\* A session outside a transaction has no locks.
LEMMA OutsideHolds ==
  ASSUME NEW s \in DeliverySessions, deliveryTx[s] = Open, NEW l
  PROVE  l \notin deliveryTx[s].held
BY OpenFields, Zenon

\* A claim is deferred.
LEMMA DefersKeeps ==
  ASSUME NativeDeliveryInv, NEW s \in DeliverySessions, NEW c \in claims, DefersDelivery(s, c)
  PROVE  NativeDeliveryInv' /\ DeliveriesKeptStep
<1>1. NativeDeliveryTypeOK /\ claims \subseteq DeliveryClaim
  BY Zenon DEF NativeDeliveryInv, NativeDeliveryTypeOK
<1>2. PICK d : d = c.delivery
  BY Zenon
<1>3. PICK locks : locks = {Writing("queue"), DeliveryLock(d)}
  BY Zenon
<1>4. PICK r : r = delivery[d]
  BY Zenon
<1>5. PICK row : row = [r EXCEPT !.status = "retry", !.due = FALSE]
  BY Zenon
<1>6. /\ deliveryTx[s] = Open /\ ClaimLive(c) /\ Grantable(s, locks)
      /\ delivery' = [delivery EXCEPT ![d] = row]
      /\ outcomes' = outcomes /\ alertRow' = alertRow /\ hooksOn' = hooksOn /\ prepared' = prepared
      /\ writes' = writes /\ claims' = claims /\ deliveryTx' = deliveryTx
  BY <1>2, <1>3, <1>4, <1>5, Zenon DEF DefersDelivery, UpdatesClaimed
<1>7. d \in DOMAIN delivery /\ delivery[d].status = "claimed" /\ ~delivery[d].late
  BY <1>2, <1>6, Zenon DEF ClaimLive
<1>8. r \in DeliveryState
  BY <1>1, <1>4, <1>7, DeliveryTyped, Zenon
<1>9. row \in DeliveryState /\ row.count = r.count /\ row.status = "retry"
  <2>1. PICK b : b = [r EXCEPT !.status = "retry"]
    BY Zenon
  <2>2. row = [b EXCEPT !.due = FALSE]
    BY <1>5, <2>1, Zenon
  <2>3. b \in DeliveryState /\ b.count = r.count /\ b.status = "retry"
    BY <1>8, <2>1, Zenon DEF DeliveryState
  <2> QED
    BY <2>2, <2>3, Zenon DEF DeliveryState
<1>10. \A o \in DeliverySessions : TableLock("queue", "share_row_exclusive") \notin deliveryTx[o].held
  BY <1>3, <1>6, QueueWriter, OutsideHolds, Zenon
<1>11. delivery[d].status \in Unsent /\ row.status \in Unsent
  BY <1>7, <1>9, Zenon DEF Unsent
<1> QED
  BY <1>1, <1>4, <1>6, <1>7, <1>9, <1>10, <1>11, RowMoves, Zenon

\* A pass looks for expired claims.
LEMMA BeginsClaimKeeps ==
  ASSUME NativeDeliveryInv, NEW s \in DeliverySessions, BeginsClaim(s)
  PROVE  NativeDeliveryInv' /\ DeliveriesKeptStep
<1>1. PICK lost : lost = Unlocked(s, {d \in DOMAIN delivery : delivery[d].status = "claimed" /\ delivery[d].late})
  BY Zenon
<1>2. PICK locks : locks = {DeliveryLock(d) : d \in lost} \cup {Writing("queue")}
  BY Zenon
<1>3. PICK y : y = [Open EXCEPT !.op = "claim", !.arg = NoRow, !.todo = lost, !.held = locks]
  BY Zenon
<1>4. DOMAIN y = DOMAIN Open /\ y.held = locks /\ y.op = "claim" /\ y.todo = lost
  BY <1>3, Zenon DEF Open
<1>5. /\ Grantable(s, locks) /\ deliveryTx' = [deliveryTx EXCEPT ![s] = y] /\ UNCHANGED Tables
  BY <1>1, <1>2, <1>3, Zenon DEF BeginsClaim, Begins, Tables
<1>6. \A d \in lost : d \in DOMAIN delivery /\ delivery[d].status = "claimed" /\ delivery[d].late
  BY <1>1, Zenon DEF Unlocked
<1>7. Writing("queue") \in locks /\ \A d \in lost : DeliveryLock(d) \in locks
  BY <1>2, Zenon
<1>8. TransactionHolds(y)
  BY <1>4, <1>6, <1>7, KindHolds, Zenon DEF ClaimHolds
<1> QED
  BY <1>4, <1>5, <1>8, SessionMoves, Zenon

\* The queue after the expired claims have been recovered: they wait again, and
\* the rest is as it was.
LEMMA Recovered ==
  ASSUME NativeDeliveryTypeOK, NEW s \in DeliverySessions, NEW q, q = AfterRecovery(s),
         NEW d \in DOMAIN delivery,
         d \in deliveryTx[s].todo => delivery[d].status = "claimed"
  PROVE  /\ q[d] \in DeliveryState /\ q[d].count = delivery[d].count
         /\ d \in deliveryTx[s].todo => q[d].status = "retry" /\ delivery[d].status = "claimed"
         /\ d \notin deliveryTx[s].todo => q[d] = delivery[d]
<1>1. PICK r : r = delivery[d] /\ r \in DeliveryState
  BY DeliveryTyped, Zenon
<1>2. CASE d \in deliveryTx[s].todo
  <2>1. q[d] = [r EXCEPT !.status = "retry", !.late = FALSE, !.due = TRUE]
    BY <1>1, <1>2, Zenon DEF AfterRecovery, RecoveredDelivery
  <2>2. PICK a : a = [r EXCEPT !.status = "retry"]
    BY Zenon
  <2>3. PICK b : b = [a EXCEPT !.late = FALSE]
    BY Zenon
  <2>4. q[d] = [b EXCEPT !.due = TRUE]
    BY <2>1, <2>2, <2>3, Zenon
  <2>5. a \in DeliveryState /\ a.status = "retry" /\ a.count = r.count
    BY <1>1, <2>2, Zenon DEF DeliveryState
  <2>6. b \in DeliveryState /\ b.status = "retry" /\ b.count = r.count
    BY <2>3, <2>5, Zenon DEF DeliveryState
  <2>7. q[d] \in DeliveryState /\ q[d].status = "retry" /\ q[d].count = r.count
    BY <2>4, <2>6, Zenon DEF DeliveryState
  <2> QED
    BY <1>1, <1>2, <2>7, Zenon
<1>3. CASE d \notin deliveryTx[s].todo
  <2>1. q[d] = r
    BY <1>1, <1>3, Zenon DEF AfterRecovery
  <2> QED
    BY <1>1, <1>3, <2>1, Zenon
<1> QED
  BY <1>2, <1>3, Zenon

\* A row that is claimed.
LEMMA ClaimedRow ==
  ASSUME NEW r \in DeliveryState, NEW row,
         row = [r EXCEPT !.status = "claimed", !.fence = @ + 1, !.lease = 0]
  PROVE  row \in DeliveryState /\ row.count = r.count /\ row.status = "claimed"
<1>1. PICK a : a = [r EXCEPT !.status = "claimed"]
  BY Zenon
<1>2. PICK b : b = [a EXCEPT !.fence = @ + 1]
  BY Zenon
<1>3. row = [b EXCEPT !.lease = 0]
  BY <1>1, <1>2, Zenon
<1>4. a \in DeliveryState /\ a.status = "claimed" /\ a.count = r.count
  BY <1>1, Zenon DEF DeliveryState
<1>5. b \in DeliveryState /\ b.status = "claimed" /\ b.count = r.count
  BY <1>2, <1>4 DEF DeliveryState
<1> QED
  BY <1>3, <1>5 DEF DeliveryState

\* What a claim does to the queue: of the rows whose claim expired all wait
\* again, and a row that waits, one of those or another, may be claimed.
LEMMA ClaimsQueue ==
  ASSUME NativeDeliveryInv, NEW s \in DeliverySessions, ClaimsDelivery(s)
  PROVE  /\ DOMAIN delivery' = DOMAIN delivery /\ claims' \subseteq DeliveryClaim
         /\ \A d \in DOMAIN delivery :
              /\ delivery'[d] \in DeliveryState /\ delivery'[d].count = delivery[d].count
              /\ \/ delivery'[d] = delivery[d]
                 \/ /\ delivery[d].status \in Unsent /\ delivery'[d].status \in Unsent
                    /\ d \in deliveryTx[s].todo \/ delivery[d].status # "claimed"
<1>1. PICK q : q = AfterRecovery(s)
  BY Zenon
<1>2. PICK due : due = Unlocked(s, {d \in DOMAIN q : Waiting(q[d])})
  BY Zenon
<1>3. NativeDeliveryTypeOK /\ claims \subseteq DeliveryClaim
  BY Zenon DEF NativeDeliveryInv, NativeDeliveryTypeOK
<1>4. DOMAIN q = DOMAIN delivery
  BY <1>1, Zenon DEF AfterRecovery
<1>5. deliveryTx[s].op = "claim"
  BY Zenon DEF ClaimsDelivery, Commits
<1>6. \A d \in deliveryTx[s].todo : d \in DOMAIN delivery /\ delivery[d].status = "claimed"
  BY <1>5, Zenon DEF NativeDeliveryInv, TransactionHolds, ClaimHolds
<1>7. ASSUME NEW d \in DOMAIN delivery
      PROVE  /\ q[d] \in DeliveryState /\ q[d].count = delivery[d].count
             /\ d \in deliveryTx[s].todo => q[d].status = "retry" /\ delivery[d].status = "claimed"
             /\ d \notin deliveryTx[s].todo => q[d] = delivery[d]
  BY <1>1, <1>3, <1>6, Recovered, Zenon
<1>8. "retry" \in Unsent /\ "claimed" \in Unsent /\ "pending" \in Unsent
  BY Zenon DEF Unsent
<1>9. ASSUME NEW d \in DOMAIN delivery
      PROVE  \/ q[d] = delivery[d]
             \/ /\ delivery[d].status \in Unsent /\ q[d].status \in Unsent
                /\ d \in deliveryTx[s].todo
  BY <1>7, <1>8, Zenon
<1>10. CASE due = {}
  <2>1. delivery' = q /\ claims' = claims
    BY <1>1, <1>2, <1>10, Zenon DEF ClaimsDelivery
  <2> QED
    BY <1>3, <1>4, <1>7, <1>9, <2>1, Zenon
<1>11. CASE due # {}
  <2>1. PICK e \in due :
          LET row == [q[e] EXCEPT !.status = "claimed", !.fence = @ + 1, !.lease = 0] IN
            /\ delivery' = [q EXCEPT ![e] = row]
            /\ claims' = claims \cup
                 {[delivery |-> e, fence |-> row.fence, lease |-> 0, count |-> row.count]}
    BY <1>1, <1>2, <1>11, Zenon DEF ClaimsDelivery
  <2>2. PICK r : r = q[e]
    BY Zenon
  <2>3. PICK row : row = [r EXCEPT !.status = "claimed", !.fence = @ + 1, !.lease = 0]
    BY Zenon
  <2>4. /\ delivery' = [q EXCEPT ![e] = row]
        /\ claims' = claims \cup {[delivery |-> e, fence |-> row.fence, lease |-> 0, count |-> row.count]}
    BY <2>1, <2>2, <2>3, Zenon
  <2>5. e \in DOMAIN delivery /\ Waiting(r)
    BY <1>2, <1>4, <2>2, Zenon DEF Unlocked
  <2>6. r \in DeliveryState /\ r.count = delivery[e].count
    BY <1>7, <2>2, <2>5, Zenon
  <2>7. row \in DeliveryState /\ row.count = r.count /\ row.status = "claimed"
    BY <2>3, <2>6, ClaimedRow, Zenon
  <2>8. claims' \subseteq DeliveryClaim
    <3>1. e \in DeliveryKey
      BY <1>3, <2>5, DeliveryTyped, Zenon
    <3>2. row.fence \in Nat /\ row.count \in Nat
      BY <2>7, Zenon DEF DeliveryState
    <3>3. [delivery |-> e, fence |-> row.fence, lease |-> 0, count |-> row.count] \in DeliveryClaim
      BY <3>1, <3>2, Zenon DEF DeliveryClaim
    <3> QED
      BY <1>3, <2>4, <3>3, Zenon
  <2>9. /\ DOMAIN delivery' = DOMAIN delivery /\ delivery'[e] = row
        /\ \A d \in DOMAIN delivery : d # e => delivery'[d] = q[d]
    BY <1>4, <2>4, <2>5, Zenon
  <2>10. /\ delivery[e].status \in Unsent
         /\ e \in deliveryTx[s].todo \/ delivery[e].status # "claimed"
    <3>1. CASE e \in deliveryTx[s].todo
      BY <1>6, <1>8, <3>1, Zenon
    <3>2. CASE e \notin deliveryTx[s].todo
      <4>1. r = delivery[e]
        BY <1>7, <2>2, <2>5, <3>2, Zenon
      <4>2. r.status \in Unsent /\ r.status # "claimed"
        BY <2>5, Zenon DEF Waiting, Unsent
      <4> QED
        BY <4>1, <4>2, Zenon
    <3> QED
      BY <3>1, <3>2, Zenon
  <2>11. ASSUME NEW d \in DOMAIN delivery
         PROVE  /\ delivery'[d] \in DeliveryState /\ delivery'[d].count = delivery[d].count
                /\ \/ delivery'[d] = delivery[d]
                   \/ /\ delivery[d].status \in Unsent /\ delivery'[d].status \in Unsent
                      /\ d \in deliveryTx[s].todo \/ delivery[d].status # "claimed"
    <3>1. CASE d = e
      BY <1>8, <2>6, <2>7, <2>9, <2>10, <3>1, Zenon
    <3>2. CASE d # e
      BY <1>7, <1>9, <2>9, <3>2, Zenon
    <3> QED
      BY <3>1, <3>2, Zenon
  <2> QED
    BY <2>8, <2>9, <2>11, Zenon
<1> QED
  BY <1>10, <1>11, Zenon

\* A pass recovers the expired claims and claims a delivery.
LEMMA ClaimsDeliveryKeeps ==
  ASSUME NativeDeliveryInv, NEW s \in DeliverySessions, ClaimsDelivery(s)
  PROVE  NativeDeliveryInv' /\ DeliveriesKeptStep
<1>1. PICK x : x = deliveryTx[s] /\ TransactionHolds(x)
  BY SessionTx, Zenon
<1>2. /\ x.op = "claim" /\ Grantable(s, {}) /\ deliveryTx' = [deliveryTx EXCEPT ![s] = Open]
      /\ alertRow' = alertRow /\ hooksOn' = hooksOn /\ outcomes' = outcomes /\ prepared' = prepared
      /\ writes' = writes
  BY <1>1, Zenon DEF ClaimsDelivery, Commits
<1>3. NativeDeliveryTypeOK /\ LocksCompatible /\ DOMAIN deliveryTx = DeliverySessions
  BY Zenon DEF NativeDeliveryInv, NativeDeliveryTypeOK
<1>4. /\ DOMAIN delivery' = DOMAIN delivery /\ claims' \subseteq DeliveryClaim
      /\ \A d \in DOMAIN delivery :
           /\ delivery'[d] \in DeliveryState /\ delivery'[d].count = delivery[d].count
           /\ \/ delivery'[d] = delivery[d]
              \/ /\ delivery[d].status \in Unsent /\ delivery'[d].status \in Unsent
                 /\ d \in x.todo \/ delivery[d].status # "claimed"
  BY <1>1, ClaimsQueue, Zenon
<1>5. DOMAIN deliveryTx' = DeliverySessions /\ \A o \in DeliverySessions : DOMAIN deliveryTx'[o] = DOMAIN Open
  BY <1>2, <1>3, TxReplaced, Zenon DEF NativeDeliveryTypeOK
<1>6. \A d \in DOMAIN delivery :
        /\ delivery'[d] \in DeliveryState /\ delivery'[d].count = delivery[d].count
        /\ delivery'[d].status = delivery[d].status
             \/ (delivery[d].status \in Unsent /\ delivery'[d].status \in Unsent)
  <2>1. ASSUME NEW d \in DOMAIN delivery
        PROVE  delivery'[d].status = delivery[d].status
                 \/ (delivery[d].status \in Unsent /\ delivery'[d].status \in Unsent)
    BY <1>4, Zenon
  <2> QED
    BY <1>4, <2>1, Zenon
<1>7. /\ NativeDeliveryTypeOK' /\ NumbersApart' /\ DeliveriesKeptStep
      /\ \A e \in DOMAIN delivery' : SettledByHistory(e)'
  BY <1>2, <1>4, <1>5, <1>6, QueueTyped, Zenon
<1>8. PICK y : y = Open /\ TransactionHolds(y)' /\ y.held \subseteq deliveryTx[s].held \cup {}
  BY OpenHolds, OpenFields, Zenon
<1>9. LocksCompatible'
  BY <1>2, <1>3, <1>8, GrantedCompatible, Zenon
<1>10. ASSUME NEW o \in DeliverySessions, o # s PROVE Spares(deliveryTx[o])
  <2>1. PICK z : z = deliveryTx[o] /\ TransactionHolds(z)
    BY Zenon DEF NativeDeliveryInv
  <2>2. ASSUME z.op = "claim", NEW e \in z.todo
        PROVE  delivery'[e].status = "claimed" /\ delivery'[e].late
    <3>1. /\ e \in DOMAIN delivery /\ delivery[e].status = "claimed" /\ delivery[e].late
          /\ DeliveryLock(e) \in z.held
      BY <2>1, <2>2, Zenon DEF TransactionHolds, ClaimHolds
    <3>2. e \notin x.todo
      <4>1. e \in x.todo => DeliveryLock(e) \in x.held
        BY <1>1, <1>2, Zenon DEF TransactionHolds, ClaimHolds
      <4> QED
        BY <1>1, <1>3, <1>10, <2>1, <3>1, <4>1, Exclusive, ConflictingModes, Zenon DEF DeliveryLock
    <3> QED
      BY <1>4, <3>1, <3>2, Zenon
  <2>3. TableLock("queue", "share_row_exclusive") \notin z.held
    <3>1. <<<<"table", "queue">>, "row_exclusive">> \in x.held
      BY <1>1, <1>2, Zenon DEF TransactionHolds, ClaimHolds, Writing, TableLock
    <3> QED
      BY <1>1, <1>3, <1>10, <2>1, <3>1, Exclusive, ConflictingModes, Zenon DEF TableLock
  <2> QED
    BY <1>2, <1>4, <2>1, <2>2, <2>3, QueueSpares, Zenon
<1>11. NativeDeliveryInv'
  BY <1>2, <1>7, <1>8, <1>9, <1>10, Assembled, Zenon
<1> QED
  BY <1>7, <1>11, Zenon

\* An attempt's outcome is to be recorded.
LEMMA BeginsOutcomeKeeps ==
  ASSUME NativeDeliveryInv, NEW s \in DeliverySessions, NEW c \in claims, NEW r \in AttemptResults,
         NEW at \in CompletedAt(r = "succeeded"), BeginsOutcome(s, c, r, at)
  PROVE  NativeDeliveryInv' /\ DeliveriesKeptStep
<1>1. PICK arg : arg = [claim |-> c, result |-> r, at |-> at]
  BY Zenon
<1>2. PICK locks : locks = {DeliveryLock(c.delivery)}
  BY Zenon
<1>3. PICK y : y = [Open EXCEPT !.op = "outcome", !.arg = arg, !.todo = {}, !.held = locks]
  BY Zenon
<1>4. DOMAIN y = DOMAIN Open /\ y.held = locks /\ y.op = "outcome" /\ y.at = 1 /\ y.arg = arg
  BY <1>3, Zenon DEF Open
<1>5. /\ Grantable(s, locks) /\ deliveryTx' = [deliveryTx EXCEPT ![s] = y] /\ UNCHANGED Tables
  BY <1>1, <1>2, <1>3, Zenon DEF BeginsOutcome, Begins, Tables
<1>6. arg.claim = c /\ arg.result = r /\ arg.at = at /\ y.at # 3
  BY <1>1, <1>4
<1>7. c \in DeliveryClaim
  BY Zenon DEF NativeDeliveryInv, NativeDeliveryTypeOK
<1>8. at \in Nat
  <2>1. 0 \in Nat
    OBVIOUS
  <2> QED
    BY <2>1, NativeDeliveryAssumption, Zenon DEF CompletedAt
<1>9. TransactionHolds(y)
  BY <1>4, <1>6, <1>7, <1>8, KindHolds, Zenon DEF OutcomeHolds
<1> QED
  BY <1>4, <1>5, <1>9, SessionMoves, Zenon

\* The attempt is inserted.
LEMMA InsertsAttemptKeeps ==
  ASSUME NativeDeliveryInv, NEW s \in DeliverySessions, InsertsAttempt(s)
  PROVE  NativeDeliveryInv' /\ DeliveriesKeptStep
<1>1. PICK x : x = deliveryTx[s] /\ TransactionHolds(x) /\ DOMAIN x = DOMAIN Open
  BY SessionTx, Zenon
<1>2. PICK locks : locks = {Writing("attempts"), AlertLock(x.arg.claim.delivery.key, "key_share"),
                            HookLock(x.arg.claim.delivery.hook, "key_share")}
  BY Zenon
<1>3. PICK n : n = IF x.arg.result = "succeeded" THEN 2 ELSE 3
  BY Zenon
<1>4. PICK y : y = [[x EXCEPT !.at = n] EXCEPT !.held = @ \cup locks]
  BY Zenon
<1>5. /\ DOMAIN y = DOMAIN Open /\ y.held = x.held \cup locks /\ y.op = x.op /\ y.at = n
      /\ y.arg = x.arg /\ y.todo = x.todo /\ y.found = x.found
  BY <1>1, <1>4, OpenFields, Zenon
<1>6. /\ x.op = "outcome" /\ Grantable(s, locks)
      /\ deliveryTx' = [deliveryTx EXCEPT ![s] = y] /\ UNCHANGED Tables
  BY <1>1, <1>2, <1>3, <1>4, Zenon DEF InsertsAttempt, Statement, Tables
<1>7. ~(y.at = 3 /\ y.arg.result = "succeeded")
  BY <1>3, <1>5
<1>8. OutcomeHolds(y)
  BY <1>1, <1>5, <1>6, <1>7, Zenon DEF TransactionHolds, OutcomeHolds
<1>9. TransactionHolds(y)
  BY <1>5, <1>6, <1>8, KindHolds, Zenon
<1> QED
  BY <1>1, <1>5, <1>6, <1>9, SessionMoves, Zenon

\* The alert is stamped after a success.
LEMMA StampsAlertKeeps ==
  ASSUME NativeDeliveryInv, NEW s \in DeliverySessions, StampsAlert(s)
  PROVE  NativeDeliveryInv' /\ DeliveriesKeptStep
<1>1. PICK x : x = deliveryTx[s] /\ TransactionHolds(x) /\ DOMAIN x = DOMAIN Open
  BY SessionTx, Zenon
<1>2. PICK locks : locks = {Writing("alerts"), AlertLock(x.arg.claim.delivery.key, "no_key_update")}
  BY Zenon
<1>3. PICK y : y = [[x EXCEPT !.at = 3] EXCEPT !.held = @ \cup locks]
  BY Zenon
<1>4. /\ DOMAIN y = DOMAIN Open /\ y.held = x.held \cup locks /\ y.op = x.op /\ y.at = 3
      /\ y.arg = x.arg /\ y.todo = x.todo /\ y.found = x.found
  BY <1>1, <1>3, OpenFields, Zenon
<1>5. /\ x.op = "outcome" /\ Grantable(s, locks) /\ alertRow[x.arg.claim.delivery.key] # NoRow
      /\ alertRow[x.arg.claim.delivery.key].id = x.arg.claim.delivery.id
      /\ deliveryTx' = [deliveryTx EXCEPT ![s] = y] /\ UNCHANGED Tables
  BY <1>1, <1>2, <1>3, Zenon DEF StampsAlert, Statement, Tables
<1>6. OutcomeHolds(y)
  BY <1>1, <1>2, <1>4, <1>5, Zenon DEF TransactionHolds, OutcomeHolds
<1>7. TransactionHolds(y)
  BY <1>4, <1>5, <1>6, KindHolds, Zenon
<1> QED
  BY <1>1, <1>4, <1>5, <1>7, SessionMoves, Zenon

\* Of a delivery that is not settled every attempt was to be repeated.
LEMMA AllRetryable ==
  ASSUME NEW history \in Seq(AttemptResults), NEW n, n = Len(history),
         \A i \in 1..(n - 1) : history[i] = "retryable",
         ~(n > 0 /\ OutcomeStatus(history[n], n) # "retry")
  PROVE  n \in Nat /\ \A i \in 1..n : history[i] = "retryable"
<1>1. n \in Nat
  OBVIOUS
<1>2. ASSUME NEW i \in 1..n PROVE history[i] = "retryable"
  <2>1. CASE i = n
    <3>1. n > 0
      BY <1>1, <2>1
    <3>2. OutcomeStatus(history[n], n) = "retry"
      BY <3>1, Zenon
    <3> QED
      BY <2>1, <3>2, OutcomeStatuses, Zenon
  <2>2. CASE i # n
    <3>1. i \in 1..(n - 1)
      BY <1>1, <2>2
    <3> QED
      BY <3>1, Zenon
  <2> QED
    BY <2>1, <2>2, Zenon
<1> QED
  BY <1>1, <1>2, Zenon

\* What the end of an outcome does to the delivery.
LEMMA FinishedQueue ==
  ASSUME NativeDeliveryInv, NEW s \in DeliverySessions, FinishesOutcome(s), NEW d,
         d = deliveryTx[s].arg.claim.delivery
  PROVE  /\ d \in DOMAIN delivery /\ DOMAIN delivery' = DOMAIN delivery /\ DOMAIN outcomes' = DOMAIN delivery
         /\ delivery'[d] \in DeliveryState /\ outcomes'[d] \in Seq(AttemptResults)
         /\ delivery[d].status = "claimed" /\ ~delivery[d].late /\ SettledByHistory(d)'
         /\ \A e \in DOMAIN delivery : e # d => delivery'[e] = delivery[e] /\ outcomes'[e] = outcomes[e]
<1>1. PICK x : x = deliveryTx[s] /\ TransactionHolds(x)
  BY SessionTx, Zenon
<1>c. PICK c : c = x.arg.claim /\ c.delivery = d
  BY <1>1, Zenon
<1>r. PICK result : result = x.arg.result
  BY Zenon
<1>2. c = x.arg.claim /\ result = x.arg.result
  BY <1>c, <1>r, Zenon
<1>3. x.op = "outcome" /\ ClaimLive(c)
  BY <1>1, <1>2, Zenon DEF FinishesOutcome, Commits
<1>4. /\ d \in DOMAIN delivery /\ delivery[d].status = "claimed" /\ ~delivery[d].late
      /\ delivery[d].count = c.count
  BY <1>c, <1>3, Zenon DEF ClaimLive
<1>5. result \in AttemptResults /\ NativeDeliveryTypeOK
  BY <1>1, <1>2, <1>3, Zenon DEF NativeDeliveryInv, TransactionHolds, OutcomeHolds
<1>6. PICK r : r = delivery[d] /\ r \in DeliveryState
  BY <1>4, <1>5, DeliveryTyped, Zenon
<1>7. PICK history : history = outcomes[d] /\ history \in Seq(AttemptResults)
  BY <1>4, <1>5, DeliveryTyped, Zenon
<1>8. PICK n : n = Len(history)
  BY Zenon
<1>9. PICK st : st = OutcomeStatus(result, c.count + 1)
  BY Zenon
<1>10. PICK row : row = [r EXCEPT !.status = st, !.count = c.count + 1, !.due = FALSE]
  BY Zenon
<1>11. PICK longer : longer = Append(history, result)
  BY Zenon
<1>12. delivery' = [delivery EXCEPT ![d] = row] /\ outcomes' = [outcomes EXCEPT ![d] = longer]
  BY <1>1, <1>c, <1>2, <1>6, <1>7, <1>9, <1>10, <1>11, Zenon DEF FinishesOutcome
<1>13. DOMAIN outcomes = DOMAIN delivery
  BY <1>5, Zenon DEF NativeDeliveryTypeOK
<1>14. /\ DOMAIN delivery' = DOMAIN delivery /\ DOMAIN outcomes' = DOMAIN delivery
       /\ delivery'[d] = row /\ outcomes'[d] = longer
       /\ \A e \in DOMAIN delivery : e # d => delivery'[e] = delivery[e] /\ outcomes'[e] = outcomes[e]
  BY <1>4, <1>12, <1>13, Zenon
<1>15. /\ r.count = n /\ \A i \in 1..(n - 1) : history[i] = "retryable"
       /\ IF n > 0 /\ OutcomeStatus(history[n], n) # "retry"
          THEN r.status = OutcomeStatus(history[n], n) ELSE TRUE
  BY <1>4, <1>6, <1>7, <1>8, Zenon DEF NativeDeliveryInv, SettledByHistory
<1>16. ~(n > 0 /\ OutcomeStatus(history[n], n) # "retry")
  <2>1. OutcomeStatus(history[n], n) \in {"succeeded", "retry", "dead_letter"}
    BY OutcomeStatuses, Zenon
  <2>2. OutcomeStatus(history[n], n) # "claimed"
    BY <2>1, Zenon
  <2> QED
    BY <1>4, <1>6, <1>15, <2>2, Zenon
<1>17. /\ longer \in Seq(AttemptResults) /\ Len(longer) = n + 1 /\ longer[n + 1] = result
       /\ n \in Nat /\ \A i \in 1..n : longer[i] = "retryable"
  <2>1. history \in Seq(AttemptResults) /\ result \in AttemptResults
    BY <1>5, <1>7, Zenon
  <2>2. \A i \in 1..(n - 1) : history[i] = "retryable"
    BY <1>15, Zenon
  <2>3. n \in Nat /\ \A i \in 1..n : history[i] = "retryable"
    BY <1>8, <1>16, <2>1, <2>2, AllRetryable, Zenon
  <2>4. longer \in Seq(AttemptResults) /\ Len(longer) = n + 1 /\ longer[n + 1] = result
    BY <1>8, <1>11, <2>1
  <2>5. \A i \in 1..n : longer[i] = history[i]
    BY <1>8, <1>11, <2>1
  <2> QED
    BY <2>3, <2>4, <2>5, Zenon
<1>18. c.count = n /\ n + 1 \in Nat /\ (n + 1) - 1 = n /\ n + 1 > 0
  <2>1. c.count = n
    BY <1>4, <1>6, <1>15, Zenon
  <2> QED
    BY <1>17, <2>1
<1>19. st = OutcomeStatus(result, n + 1) /\ st \in {"succeeded", "retry", "dead_letter"}
  BY <1>9, <1>18, OutcomeStatuses, Zenon
<1>20. row \in DeliveryState /\ row.count = n + 1 /\ row.status = st
  <2>1. PICK m : m = n + 1
    BY Zenon
  <2>2. row = [r EXCEPT !.status = st, !.count = m, !.due = FALSE] /\ m \in Nat
    BY <1>10, <1>18, <2>1, Zenon
  <2>3. PICK a : a = [r EXCEPT !.status = st]
    BY Zenon
  <2>4. PICK b : b = [a EXCEPT !.count = m]
    BY Zenon
  <2>5. row = [b EXCEPT !.due = FALSE]
    BY <2>2, <2>3, <2>4, Zenon
  <2>6. a \in DeliveryState /\ a.status = st
    BY <1>6, <1>19, <2>3, Zenon DEF DeliveryState
  <2>7. b \in DeliveryState /\ b.status = st /\ b.count = m
    BY <2>2, <2>4, <2>6, Zenon DEF DeliveryState
  <2> QED
    BY <2>1, <2>5, <2>7, Zenon DEF DeliveryState
<1>21. "retry" \in {"pending", "claimed", "retry"}
  BY Zenon
<1>22. SettledByHistory(d)'
  BY <1>14, <1>17, <1>18, <1>19, <1>20, <1>21, Zenon DEF SettledByHistory
<1> QED
  BY <1>4, <1>14, <1>17, <1>20, <1>22, Zenon

\* The outcome of an attempt is recorded.
LEMMA FinishesOutcomeKeeps ==
  ASSUME NativeDeliveryInv, NEW s \in DeliverySessions, FinishesOutcome(s)
  PROVE  NativeDeliveryInv' /\ DeliveriesKeptStep
<1>1. PICK x : x = deliveryTx[s] /\ TransactionHolds(x)
  BY SessionTx, Zenon
<1>2. PICK c : c = x.arg.claim
  BY Zenon
<1>3. PICK d : d = c.delivery
  BY Zenon
<1>4. PICK result : result = x.arg.result
  BY Zenon
<1>5. PICK j : j = d.key
  BY Zenon
<1>a. PICK at : at = x.arg.at
  BY Zenon
<1>6. PICK locks : locks = {Writing("queue")}
  BY Zenon
<1>7. /\ x.op = "outcome" /\ x.at = 3 /\ Grantable(s, locks)
      /\ deliveryTx' = [deliveryTx EXCEPT ![s] = Open]
      /\ hooksOn' = hooksOn /\ claims' = claims /\ prepared' = prepared /\ writes' = writes
      /\ alertRow' = IF result = "succeeded" THEN [alertRow EXCEPT ![j].sent = at] ELSE alertRow
  BY <1>1, <1>2, <1>3, <1>4, <1>5, <1>6, <1>a, Zenon DEF FinishesOutcome, Commits
<1>8. /\ d \in DOMAIN delivery /\ DOMAIN delivery' = DOMAIN delivery /\ DOMAIN outcomes' = DOMAIN delivery
      /\ delivery'[d] \in DeliveryState /\ outcomes'[d] \in Seq(AttemptResults)
      /\ delivery[d].status = "claimed" /\ ~delivery[d].late /\ SettledByHistory(d)'
      /\ \A e \in DOMAIN delivery : e # d => delivery'[e] = delivery[e] /\ outcomes'[e] = outcomes[e]
  <2>1. d = deliveryTx[s].arg.claim.delivery
    BY <1>1, <1>2, <1>3, Zenon
  <2> QED
    BY <2>1, FinishedQueue
<1>9. NativeDeliveryTypeOK /\ NumbersApart /\ LocksCompatible /\ DOMAIN deliveryTx = DeliverySessions
  BY Zenon DEF NativeDeliveryInv, NativeDeliveryTypeOK
<1>10. j \in AlertKeys
  BY <1>5, <1>8, <1>9, DeliveryTyped, Zenon
<1>11. \A k \in AlertKeys : alertRow[k] # NoRow => alertRow[k] \in NativeAlertRow
  BY <1>9, Zenon DEF NativeDeliveryTypeOK
<1>12. /\ at \in Nat
       /\ result = "succeeded" => /\ alertRow[j] # NoRow /\ alertRow[j].id = d.id
                                  /\ AlertLock(j, "no_key_update") \in deliveryTx[s].held
  BY <1>1, <1>2, <1>3, <1>4, <1>5, <1>7, <1>a, Zenon DEF TransactionHolds, OutcomeHolds
<1>13. /\ DOMAIN alertRow' = AlertKeys
       /\ \A k \in AlertKeys : k # j \/ result # "succeeded" => alertRow'[k] = alertRow[k]
       /\ result = "succeeded" => /\ alertRow'[j] \in NativeAlertRow
                                  /\ alertRow'[j].id = alertRow[j].id
                                  /\ alertRow'[j].sent = at
  <2>1. DOMAIN alertRow = AlertKeys
    BY <1>9, Zenon DEF NativeDeliveryTypeOK
  <2>2. CASE result = "succeeded"
    <3>1. PICK r : r = alertRow[j] /\ r \in NativeAlertRow
      BY <1>10, <1>11, <1>12, <2>2, Zenon
    <3>2. PICK row : row = [r EXCEPT !.sent = at]
      BY Zenon
    <3>3. row \in NativeAlertRow /\ row.id = r.id /\ row.sent = at
      BY <1>12, <3>1, <3>2, Zenon DEF NativeAlertRow
    <3>4. alertRow' = [alertRow EXCEPT ![j] = row]
      BY <1>7, <2>2, <3>1, <3>2, Zenon
    <3> QED
      BY <1>10, <2>1, <2>2, <3>1, <3>3, <3>4, Zenon
  <2>3. CASE result # "succeeded"
    BY <1>7, <2>1, <2>3, Zenon
  <2> QED
    BY <2>2, <2>3, Zenon
<1>14. ASSUME NEW k \in AlertKeys
       PROVE  /\ alertRow'[k] # NoRow => alertRow'[k] \in NativeAlertRow
              /\ (alertRow'[k] = NoRow) <=> (alertRow[k] = NoRow)
              /\ alertRow[k] # NoRow => alertRow'[k].id = alertRow[k].id
              /\ alertRow'[k].sent = alertRow[k].sent \/ SendRecorded(k)
  <2>1. CASE k = j /\ result = "succeeded"
    <3>1. deliveryTx'[s] = Open
      BY <1>7, <1>9, Zenon
    <3>2. SendRecorded(k)
      <4>1. /\ deliveryTx[s].op = "outcome" /\ deliveryTx[s].arg.result = "succeeded"
            /\ deliveryTx[s].arg.claim.delivery.key = k
            /\ deliveryTx[s].arg.claim.delivery.id = alertRow[k].id
            /\ alertRow'[k].sent = deliveryTx[s].arg.at
        BY <1>1, <1>2, <1>3, <1>4, <1>5, <1>7, <1>a, <1>12, <1>13, <2>1, Zenon
      <4> QED
        BY <3>1, <4>1 DEF SendRecorded
    <3> QED
      BY <1>12, <1>13, <2>1, <3>2, RowFields, Zenon
  <2>2. CASE k # j \/ result # "succeeded"
    <3>1. alertRow'[k] = alertRow[k]
      BY <1>13, <2>2, Zenon
    <3> QED
      BY <1>11, <3>1, Zenon
  <2> QED
    BY <2>1, <2>2, Zenon
<1>15. NativeDeliveryTypeOK'
  <2>1. alertRow' \in [AlertKeys -> NativeAlertRow \cup {NoRow}]
    <3>1. alertRow' = [k \in AlertKeys |-> alertRow'[k]]
      BY <1>7, <1>9, <1>13, Zenon DEF NativeDeliveryTypeOK
    <3> QED
      BY <1>14, <3>1, Zenon
  <2>2. DOMAIN deliveryTx' = DeliverySessions /\ \A o \in DeliverySessions : DOMAIN deliveryTx'[o] = DOMAIN Open
    BY <1>7, <1>9, TxReplaced, Zenon DEF NativeDeliveryTypeOK
  <2>3. /\ DOMAIN delivery' \subseteq DeliveryKey /\ DOMAIN outcomes' = DOMAIN delivery'
        /\ \A e \in DOMAIN delivery' : delivery'[e] \in DeliveryState /\ outcomes'[e] \in Seq(AttemptResults)
    BY <1>8, <1>9, DeliveryTyped, Zenon
  <2> QED
    BY <1>7, <1>9, <2>1, <2>2, <2>3, Zenon DEF NativeDeliveryTypeOK, PreparedOK
<1>16. NumbersApart'
  <2>1. \A k \in AlertKeys : alertRow'[k] # NoRow =>
          alertRow'[k].id <= writes /\ \A w \in prepared : alertRow'[k].id # w.number
    BY <1>9, <1>14, Zenon DEF NumbersApart
  <2> QED
    BY <1>7, <1>9, <2>1, Zenon DEF NumbersApart
<1>17. PICK y : y = Open /\ TransactionHolds(y)' /\ y.held \subseteq deliveryTx[s].held \cup locks
  BY OpenHolds, OpenFields, Zenon
<1>18. LocksCompatible'
  BY <1>7, <1>9, <1>17, GrantedCompatible, Zenon
<1>19. ASSUME NEW o \in DeliverySessions, o # s PROVE Spares(deliveryTx[o])
  <2>1. PICK z : z = deliveryTx[o] /\ TransactionHolds(z)
    BY Zenon DEF NativeDeliveryInv
  <2>2. \A k \in AlertKeys : AlertLock(k, "update") \in z.held => alertRow'[k] = alertRow[k]
    <3>1. result = "succeeded" => AlertLock(j, "update") \notin z.held
      BY <1>9, <1>12, <1>19, <2>1, Exclusive, ConflictingModes, Zenon DEF AlertLock
    <3> QED
      BY <1>13, <3>1, Zenon
  <2>3. z.op = "claim" => \A e \in z.todo :
          e \in DOMAIN delivery' /\ delivery'[e].status = "claimed" /\ delivery'[e].late
    BY <1>8, <2>1, Zenon DEF TransactionHolds, ClaimHolds
  <2>4. TableLock("queue", "share_row_exclusive") \notin z.held
    BY <1>6, <1>7, <1>19, <2>1, QueueWriter, Zenon
  <2>5. z.op = "write" => z.arg \in prepared'
    BY <1>7, <2>1, Zenon DEF TransactionHolds, WriteHolds
  <2>6. z.op = "enqueue" => z.arg \notin DOMAIN delivery'
    BY <1>8, <2>1, Zenon DEF TransactionHolds, EnqueueHolds
  <2>7. Spares(z)
    BY <1>8, <1>14, <2>2, <2>3, <2>4, <2>5, <2>6, Zenon DEF Spares
  <2> QED
    BY <2>1, <2>7, Zenon
<1>20. ASSUME NEW e \in DOMAIN delivery' PROVE SettledByHistory(e)'
  <2>1. CASE e = d
    BY <1>8, <2>1, Zenon
  <2>2. CASE e # d
    <3>1. delivery'[e] = delivery[e] /\ outcomes'[e] = outcomes[e] /\ SettledByHistory(e)
      BY <1>8, <2>2, Zenon DEF NativeDeliveryInv
    <3> QED
      BY <3>1, Zenon DEF SettledByHistory
  <2> QED
    BY <2>1, <2>2, Zenon
<1>21. NativeDeliveryInv'
  BY <1>7, <1>15, <1>16, <1>17, <1>18, <1>19, <1>20, Assembled, Zenon
<1> QED
  BY <1>7, <1>8, <1>14, <1>21, Zenon DEF DeliveriesKeptStep

\* The tables retention locks.
LEMMA PruneTablesAre ==
  /\ Len(PruneTables) = 3 /\ PruneTables[1] = "alerts" /\ PruneTables[2] = "queue"
  /\ PruneTables[3] = "attempts"
BY Zenon DEF PruneTables

\* Retention begins.
LEMMA BeginsPruneKeeps ==
  ASSUME NativeDeliveryInv, NEW s \in DeliverySessions, BeginsPrune(s)
  PROVE  NativeDeliveryInv' /\ DeliveriesKeptStep
<1>1. PICK locks : locks = {TableLock("alerts", "share_row_exclusive")}
  BY Zenon
<1>2. PICK y : y = [Open EXCEPT !.op = "prune", !.arg = NoRow, !.todo = {}, !.held = locks]
  BY Zenon
<1>3. DOMAIN y = DOMAIN Open /\ y.held = locks /\ y.op = "prune" /\ y.at = 1
  BY <1>2, Zenon DEF Open
<1>4. /\ Grantable(s, locks) /\ deliveryTx' = [deliveryTx EXCEPT ![s] = y] /\ UNCHANGED Tables
  BY <1>1, <1>2, Zenon DEF BeginsPrune, Begins, Tables
<1>5. /\ y.at \in 1..(Len(PruneTables) + 1) /\ y.at # Len(PruneTables) + 1
      /\ \A i \in 1..Len(PruneTables) : i <= y.at => i = 1
  BY <1>3, PruneTablesAre
<1>6. TransactionHolds(y)
  <2>1. TableLock(PruneTables[1], "share_row_exclusive") \in y.held
    BY <1>1, <1>3, PruneTablesAre, Zenon
  <2> QED
    BY <1>3, <1>5, <2>1, KindHolds, Zenon DEF PruneHolds
<1> QED
  BY <1>3, <1>4, <1>6, SessionMoves, Zenon

\* Retention locks the next table.
LEMMA LocksTableKeeps ==
  ASSUME NativeDeliveryInv, NEW s \in DeliverySessions, LocksTable(s)
  PROVE  NativeDeliveryInv' /\ DeliveriesKeptStep
<1>1. PICK x : x = deliveryTx[s] /\ TransactionHolds(x) /\ DOMAIN x = DOMAIN Open
  BY SessionTx, Zenon
<1>2. PICK locks : locks = {TableLock(PruneTables[x.at + 1], "share_row_exclusive")}
  BY Zenon
<1>3. PICK y : y = [[x EXCEPT !.at = @ + 1] EXCEPT !.held = @ \cup locks]
  BY Zenon
<1>4. /\ DOMAIN y = DOMAIN Open /\ y.held = x.held \cup locks /\ y.op = x.op /\ y.at = x.at + 1
      /\ y.arg = x.arg /\ y.todo = x.todo /\ y.found = x.found
  BY <1>1, <1>3, OpenFields, Zenon
<1>5. /\ x.op = "prune" /\ x.at < Len(PruneTables) /\ Grantable(s, locks)
      /\ deliveryTx' = [deliveryTx EXCEPT ![s] = y] /\ UNCHANGED Tables
  BY <1>1, <1>2, <1>3, Zenon DEF LocksTable, Statement, Tables
<1>6. /\ x.at \in 1..(Len(PruneTables) + 1)
      /\ \A i \in 1..Len(PruneTables) : i <= x.at =>
           TableLock(PruneTables[i], "share_row_exclusive") \in x.held
  BY <1>1, <1>5, Zenon DEF TransactionHolds, PruneHolds
<1>7. /\ y.at \in 1..(Len(PruneTables) + 1) /\ y.at # Len(PruneTables) + 1
      /\ \A i \in 1..Len(PruneTables) : i <= y.at => i <= x.at \/ i = x.at + 1
  BY <1>4, <1>5, <1>6, PruneTablesAre
<1>8. \A i \in 1..Len(PruneTables) : i <= y.at =>
        TableLock(PruneTables[i], "share_row_exclusive") \in y.held
  BY <1>2, <1>4, <1>6, <1>7, Zenon
<1>9. TransactionHolds(y)
  BY <1>4, <1>5, <1>7, <1>8, KindHolds, Zenon DEF PruneHolds
<1> QED
  BY <1>1, <1>4, <1>5, <1>9, SessionMoves, Zenon

\* Retention picks the alerts it will delete: nothing that refers to them is
\* still to be sent.
LEMMA DoomsAlertsKeeps ==
  ASSUME NativeDeliveryInv, NEW s \in DeliverySessions, DoomsAlerts(s)
  PROVE  NativeDeliveryInv' /\ DeliveriesKeptStep
<1>1. PICK x : x = deliveryTx[s] /\ TransactionHolds(x) /\ DOMAIN x = DOMAIN Open
  BY SessionTx, Zenon
<1>2. PICK eligible : eligible = {k \in AlertKeys : alertRow[k] # NoRow /\ ~Unsettled(k)}
  BY Zenon
<1>3. PICK doomed \in SUBSET eligible :
        Statement(s, "prune", Len(PruneTables), {},
                  [x EXCEPT !.at = @ + 1, !.arg = [k \in doomed |-> alertRow[k].id]])
  BY <1>1, <1>2, Zenon DEF DoomsAlerts
<1>4. PICK ids : ids = [k \in doomed |-> alertRow[k].id]
  BY Zenon
<1>5. PICK y : y = [[x EXCEPT !.at = @ + 1, !.arg = ids] EXCEPT !.held = @ \cup {}]
  BY Zenon
<1>6. /\ DOMAIN y = DOMAIN Open /\ y.held = x.held /\ y.op = x.op /\ y.at = x.at + 1 /\ y.arg = ids
  BY <1>1, <1>5, OpenFields, Zenon
<1>7. /\ x.at = Len(PruneTables) /\ Grantable(s, {})
      /\ deliveryTx' = [deliveryTx EXCEPT ![s] = y] /\ UNCHANGED Tables
  BY <1>1, <1>3, <1>4, <1>5, Zenon DEF Statement, Tables
<1>8. x.op = "prune"
  BY <1>1, Zenon DEF DoomsAlerts
<1>9. \A i \in 1..Len(PruneTables) : i <= x.at =>
        TableLock(PruneTables[i], "share_row_exclusive") \in x.held
  BY <1>1, <1>8, Zenon DEF TransactionHolds, PruneHolds
<1>10. /\ y.at \in 1..(Len(PruneTables) + 1)
       /\ \A i \in 1..Len(PruneTables) : i <= y.at => i <= x.at
  BY <1>6, <1>7, PruneTablesAre
<1>11. ASSUME NEW d \in DOMAIN delivery, d.key \in DOMAIN ids, d.id = ids[d.key]
       PROVE  delivery[d].status \in {"succeeded", "dead_letter"}
  <2>1. ~Unsettled(d.key) /\ d.id = alertRow[d.key].id
    BY <1>2, <1>4, <1>11, Zenon
  <2>2. delivery[d].status \notin {"pending", "claimed", "retry"}
    BY <2>1, Zenon DEF Unsettled
  <2>3. delivery[d] \in DeliveryState
    BY DeliveryTyped, Zenon DEF NativeDeliveryInv
  <2>4. delivery[d].status \in {"pending", "claimed", "retry", "succeeded", "dead_letter"}
    BY <2>3, Zenon DEF DeliveryState
  <2> QED
    BY <2>2, <2>4, Zenon
<1>12. TransactionHolds(y)
  BY <1>6, <1>8, <1>9, <1>10, <1>11, KindHolds, Zenon DEF PruneHolds
<1>13. y.held \subseteq deliveryTx[s].held \cup {}
  BY <1>1, <1>6, Zenon
<1> QED
  BY <1>6, <1>7, <1>12, <1>13, SessionMoves, Zenon

\* The alerts are deleted, with the deliveries that refer to them.
LEMMA DeletesAlertsKeeps ==
  ASSUME NativeDeliveryInv, NEW s \in DeliverySessions, DeletesAlerts(s)
  PROVE  NativeDeliveryInv' /\ DeliveriesKeptStep
<1>1. PICK x : x = deliveryTx[s] /\ TransactionHolds(x)
  BY SessionTx, Zenon
<1>2. PICK ids : ids = x.arg
  BY Zenon
<1>3. PICK gone : gone = {d \in DOMAIN delivery : d.key \in DOMAIN ids /\ d.id = ids[d.key]}
  BY Zenon
<1>4. PICK kept : kept = DOMAIN delivery \ gone
  BY Zenon
<1>5. PICK locks : locks = {AlertLock(k, "update") : k \in DOMAIN ids} \cup {DeliveryLock(d) : d \in gone}
  BY Zenon
<1>6. /\ x.op = "prune" /\ x.at = Len(PruneTables) + 1 /\ Grantable(s, locks)
      /\ deliveryTx' = [deliveryTx EXCEPT ![s] = Open]
      /\ alertRow' = [k \in AlertKeys |->
           IF k \in DOMAIN ids /\ alertRow[k] # NoRow /\ alertRow[k].id = ids[k] THEN NoRow
           ELSE alertRow[k]]
      /\ delivery' = [d \in kept |-> delivery[d]] /\ outcomes' = [d \in kept |-> outcomes[d]]
      /\ hooksOn' = hooksOn /\ claims' = claims /\ prepared' = prepared /\ writes' = writes
  BY <1>1, <1>2, <1>3, <1>4, <1>5, Zenon DEF DeletesAlerts, Commits
<1>7. NativeDeliveryTypeOK /\ NumbersApart /\ LocksCompatible /\ DOMAIN deliveryTx = DeliverySessions
  BY Zenon DEF NativeDeliveryInv, NativeDeliveryTypeOK
<1>8. /\ \A k \in AlertKeys : alertRow'[k] = NoRow \/ alertRow'[k] = alertRow[k]
      /\ \A k \in AlertKeys : k \notin DOMAIN ids => alertRow'[k] = alertRow[k]
  BY <1>6, Zenon
<1>9. /\ DOMAIN delivery' = kept /\ DOMAIN outcomes' = kept /\ kept \subseteq DOMAIN delivery
      /\ \A d \in kept : delivery'[d] = delivery[d] /\ outcomes'[d] = outcomes[d]
  BY <1>4, <1>6, Zenon
<1>10. \A d \in gone : delivery[d].status \in {"succeeded", "dead_letter"}
  BY <1>1, <1>2, <1>3, <1>6, Zenon DEF TransactionHolds, PruneHolds
<1>11. NativeDeliveryTypeOK'
  <2>1. alertRow' \in [AlertKeys -> NativeAlertRow \cup {NoRow}]
    BY <1>6, <1>7, Zenon DEF NativeDeliveryTypeOK
  <2>2. DOMAIN deliveryTx' = DeliverySessions /\ \A o \in DeliverySessions : DOMAIN deliveryTx'[o] = DOMAIN Open
    BY <1>6, <1>7, TxReplaced, Zenon DEF NativeDeliveryTypeOK
  <2>3. /\ DOMAIN delivery' \subseteq DeliveryKey /\ DOMAIN outcomes' = DOMAIN delivery'
        /\ \A e \in DOMAIN delivery' : delivery'[e] \in DeliveryState /\ outcomes'[e] \in Seq(AttemptResults)
    BY <1>7, <1>9, DeliveryTyped, Zenon
  <2> QED
    BY <1>6, <1>7, <2>1, <2>2, <2>3, Zenon DEF NativeDeliveryTypeOK, PreparedOK
<1>12. NumbersApart'
  <2>1. \A k \in AlertKeys : alertRow'[k] # NoRow =>
          alertRow'[k].id <= writes /\ \A w \in prepared : alertRow'[k].id # w.number
    BY <1>7, <1>8, Zenon DEF NumbersApart
  <2> QED
    BY <1>6, <1>7, <2>1, Zenon DEF NumbersApart
<1>13. PICK y : y = Open /\ TransactionHolds(y)' /\ y.held \subseteq deliveryTx[s].held \cup locks
  BY OpenHolds, OpenFields, Zenon
<1>14. LocksCompatible'
  BY <1>6, <1>7, <1>13, GrantedCompatible, Zenon
<1>15. ASSUME NEW o \in DeliverySessions, o # s PROVE Spares(deliveryTx[o])
  <2>1. PICK z : z = deliveryTx[o] /\ TransactionHolds(z)
    BY Zenon DEF NativeDeliveryInv
  <2>2. ASSUME NEW k \in DOMAIN ids
        PROVE  AlertLock(k, "update") \notin z.held /\ AlertLock(k, "no_key_update") \notin z.held
    <3>1. <<<<"alert", k>>, "update">> \in locks
      BY <1>5, Zenon DEF AlertLock
    <3> QED
      BY <1>6, <1>15, <2>1, <3>1, Blocked, ConflictingModes, Zenon DEF AlertLock
  <2>3. ASSUME z.op = "claim", NEW e \in z.todo
        PROVE  e \in DOMAIN delivery' /\ delivery'[e].status = "claimed" /\ delivery'[e].late
    <3>1. /\ e \in DOMAIN delivery /\ delivery[e].status = "claimed" /\ delivery[e].late
      BY <2>1, <2>3, Zenon DEF TransactionHolds, ClaimHolds
    <3>2. e \notin gone
      BY <1>10, <3>1, Zenon
    <3> QED
      BY <1>4, <1>9, <3>1, <3>2, Zenon
  <2>4. z.op = "write" => z.arg \in prepared'
    BY <1>6, <2>1, Zenon DEF TransactionHolds, WriteHolds
  <2>5. z.op = "enqueue" => z.arg \notin DOMAIN delivery'
    BY <1>9, <2>1, Zenon DEF TransactionHolds, EnqueueHolds
  <2>6. \A k \in AlertKeys : AlertLock(k, "update") \in z.held \/ AlertLock(k, "no_key_update") \in z.held
          => alertRow'[k] = alertRow[k]
    BY <1>8, <2>2, Zenon
  <2>7. Spares(z)
    BY <1>9, <2>3, <2>4, <2>5, <2>6, Zenon DEF Spares
  <2> QED
    BY <2>1, <2>7, Zenon
<1>16. \A e \in DOMAIN delivery' : SettledByHistory(e)'
  BY <1>9, Zenon DEF NativeDeliveryInv, SettledByHistory
<1>17. NativeDeliveryInv'
  BY <1>6, <1>11, <1>12, <1>13, <1>14, <1>15, <1>16, Assembled, Zenon
<1>19. \A d \in DOMAIN delivery \ DOMAIN delivery' : delivery[d].status \in {"succeeded", "dead_letter"}
  BY <1>4, <1>9, <1>10, Zenon
<1>20. \A k \in AlertKeys :
         alertRow[k] # NoRow /\ alertRow'[k] # NoRow => alertRow'[k].sent = alertRow[k].sent
  BY <1>8, Zenon
<1> QED
  BY <1>6, <1>17, <1>19, <1>20, Zenon DEF DeliveriesKeptStep

\* Nothing has happened yet.
LEMMA NativeDeliveryStarts == NativeDeliveryInit => NativeDeliveryInv
<1> SUFFICES ASSUME NativeDeliveryInit PROVE NativeDeliveryInv
  BY Zenon
<1>1. /\ alertRow = [k \in AlertKeys |-> NoRow] /\ hooksOn = Webhooks
      /\ DOMAIN delivery = {} /\ DOMAIN outcomes = {} /\ claims = {} /\ prepared = {} /\ writes = 0
      /\ DOMAIN deliveryTx = DeliverySessions /\ \A s \in DeliverySessions : deliveryTx[s] = Open
  BY Zenon DEF NativeDeliveryInit
<1>2. NativeDeliveryTypeOK
  BY <1>1, Zenon DEF NativeDeliveryTypeOK
<1>3. NumbersApart
  BY <1>1, Zenon DEF NumbersApart
<1>4. LocksCompatible
  BY <1>1, OpenFields, Zenon DEF LocksCompatible
<1>5. \A s \in DeliverySessions : TransactionHolds(deliveryTx[s])
  BY <1>1, OpenHolds, Zenon
<1> QED
  BY <1>1, <1>2, <1>3, <1>4, <1>5, Zenon DEF NativeDeliveryInv

\* Each statement of each session, the callers and the clock keep the invariant
\* and do to deliveries and alerts only what they may.
LEMMA NativeDeliveryStep ==
  NativeDeliveryInv /\ [NativeDeliveryNext]_deliveryVars
    => NativeDeliveryInv' /\ [DeliveriesKeptStep]_deliveryVars
<1> SUFFICES ASSUME NativeDeliveryInv, [NativeDeliveryNext]_deliveryVars
             PROVE  NativeDeliveryInv' /\ [DeliveriesKeptStep]_deliveryVars
  BY Zenon
<1>1. ASSUME NEW kind \in {"evaluate", "lapsed", "silence", "resolve", "deliver"},
             NEW keys \in (SUBSET AlertKeys) \ {{}}, NEW at \in CompletedAt(kind = "deliver"),
             ComputesWrite(kind, keys, at)
      PROVE  NativeDeliveryInv' /\ DeliveriesKeptStep
  BY <1>1, ComputesWriteKeeps, Zenon
<1>2. ASSUME NEW s \in DeliverySessions, AlertWriteStep(s)
      PROVE  NativeDeliveryInv' /\ DeliveriesKeptStep
  <2>1. ASSUME NEW w \in prepared, BeginsWrite(s, w) PROVE NativeDeliveryInv' /\ DeliveriesKeptStep
    BY <2>1, BeginsWriteKeeps, Zenon
  <2>2. ASSUME NEW k \in AlertKeys, ReadsEntry(s, k) PROVE NativeDeliveryInv' /\ DeliveriesKeptStep
    BY <2>2, ReadsEntryKeeps, Zenon
  <2>3. CASE UpsertsEntry(s)
    BY <2>3, UpsertsEntryKeeps, CommitsWriteKeeps, Zenon
  <2>4. ASSUME NEW h \in Webhooks, TogglesHook(s, h) PROVE NativeDeliveryInv' /\ DeliveriesKeptStep
    BY <2>4, TogglesHookKeeps, Zenon
  <2> QED
    BY <1>2, <2>1, <2>2, <2>3, <2>4, Zenon DEF AlertWriteStep
<1>3. ASSUME NEW s \in DeliverySessions, QueueStep(s)
      PROVE  NativeDeliveryInv' /\ DeliveriesKeptStep
  <2>1. ASSUME NEW k \in AlertKeys, NEW h \in Webhooks, BeginsEnqueue(s, k, h)
        PROVE  NativeDeliveryInv' /\ DeliveriesKeptStep
    BY <2>1, BeginsEnqueueKeeps, Zenon
  <2>2. CASE SharesHook(s)
    BY <2>2, SharesHookKeeps, Zenon
  <2>3. CASE SharesAlert(s)
    BY <2>3, SharesAlertKeeps, Zenon
  <2>4. CASE InsertsDelivery(s)
    BY <2>4, InsertsDeliveryKeeps, Zenon
  <2>5. CASE BeginsClaim(s)
    BY <2>5, BeginsClaimKeeps, Zenon
  <2>6. CASE ClaimsDelivery(s)
    BY <2>6, ClaimsDeliveryKeeps, Zenon
  <2>7. ASSUME NEW c \in claims, RenewsDelivery(s, c) PROVE NativeDeliveryInv' /\ DeliveriesKeptStep
    BY <2>7, RenewsKeeps, Zenon
  <2>8. ASSUME NEW c \in claims, DefersDelivery(s, c) PROVE NativeDeliveryInv' /\ DeliveriesKeptStep
    BY <2>8, DefersKeeps, Zenon
  <2>9. ASSUME NEW c \in claims, NEW r \in AttemptResults,
               NEW at \in CompletedAt(r = "succeeded"), BeginsOutcome(s, c, r, at)
        PROVE  NativeDeliveryInv' /\ DeliveriesKeptStep
    BY <2>9, BeginsOutcomeKeeps, Zenon
  <2>10. CASE InsertsAttempt(s)
    BY <2>10, InsertsAttemptKeeps, Zenon
  <2>11. CASE StampsAlert(s)
    BY <2>11, StampsAlertKeeps, Zenon
  <2>12. CASE FinishesOutcome(s)
    BY <2>12, FinishesOutcomeKeeps, Zenon
  <2> QED
    BY <1>3, <2>1, <2>2, <2>3, <2>4, <2>5, <2>6, <2>7, <2>8, <2>9, <2>10, <2>11, <2>12, Zenon DEF QueueStep
<1>4. ASSUME NEW s \in DeliverySessions, PruneStep(s)
      PROVE  NativeDeliveryInv' /\ DeliveriesKeptStep
  BY <1>4, BeginsPruneKeeps, LocksTableKeeps, DoomsAlertsKeeps, DeletesAlertsKeeps, Zenon DEF PruneStep
<1>5. ASSUME NEW s \in DeliverySessions, DeliveryRollsBack(s)
      PROVE  NativeDeliveryInv' /\ DeliveriesKeptStep
  BY <1>5, RollsBackKeeps, Zenon
<1>6. ASSUME NEW d \in DOMAIN delivery, DeliveryLeaseEnds(d) \/ DeliveryComesDue(d)
      PROVE  NativeDeliveryInv' /\ DeliveriesKeptStep
  BY <1>6, LeaseEndsKeeps, ComesDueKeeps, Zenon
<1>7. CASE UNCHANGED deliveryVars
  <2>1. /\ alertRow' = alertRow /\ hooksOn' = hooksOn /\ delivery' = delivery /\ outcomes' = outcomes
        /\ claims' = claims /\ prepared' = prepared /\ writes' = writes /\ deliveryTx' = deliveryTx
    BY <1>7, Zenon DEF deliveryVars
  <2>2. NativeDeliveryTypeOK /\ NumbersApart
    BY Zenon DEF NativeDeliveryInv
  <2>3. NativeDeliveryTypeOK'
    BY <2>1, <2>2, Zenon DEF NativeDeliveryTypeOK, PreparedOK
  <2>4. NumbersApart'
    BY <2>1, <2>2, Zenon DEF NumbersApart
  <2>5. \A o \in DeliverySessions : Spares(deliveryTx[o])
    BY <2>1, QuietSpares, Zenon DEF NativeDeliveryInv
  <2>6. \A d \in DOMAIN delivery' : SettledByHistory(d)'
    BY <2>1, Zenon DEF NativeDeliveryInv, SettledByHistory
  <2>7. NativeDeliveryInv'
    BY <2>1, <2>3, <2>4, <2>5, <2>6, StillAssembled, Zenon
  <2> QED
    BY <1>7, <2>7, Zenon
<1> QED
  BY <1>1, <1>2, <1>3, <1>4, <1>5, <1>6, <1>7, Zenon DEF NativeDeliveryNext

\* On the native store the inductive invariant holds in every reachable state:
\* no two sessions hold conflicting locks, and each open transaction can rely
\* on what it has found under the locks it has.
THEOREM NativeDeliveryInvariant == NativeDeliverySpec => []NativeDeliveryInv
<1>1. NativeDeliveryInv /\ [NativeDeliveryNext]_deliveryVars => NativeDeliveryInv'
  BY NativeDeliveryStep, Zenon
<1> QED
  BY <1>1, NativeDeliveryStarts, PTL DEF NativeDeliverySpec

\* For any sets of sessions, alerts and hooks: a delivery on the native store
\* is settled exactly as its recorded attempts say; retention never erases one
\* that is unsent or recoverable; last_sent_at changes only in the commit that
\* records a send of that alert, to the completion time of the send; a write
\* computed from a row replaces that row only; and an alert that deliveries
\* refer to is replaced only by a write computed from it.
THEOREM NativeDeliveriesAreKept == NativeDeliverySpec => NativeDeliveriesKept
<1>1. NativeDeliveryInv => \A d \in DOMAIN delivery : SettledByHistory(d)
  BY Zenon DEF NativeDeliveryInv
<1>2. NativeDeliveryInv /\ [NativeDeliveryNext]_deliveryVars => [DeliveriesKeptStep]_deliveryVars
  BY NativeDeliveryStep, Zenon
<1> QED
  BY <1>1, <1>2, NativeDeliveryInvariant, PTL DEF NativeDeliverySpec, NativeDeliveriesKept
=============================================================================
