--------------------------- MODULE SnapshotBackend ---------------------------
(***************************************************************************)
(* The Postgres-wrapped SQLite snapshot backend: the whole controller      *)
(* database is one row.  A write is one Postgres transaction: take the     *)
(* writer advisory lock, lock the controller lease row FOR SHARE, lock and *)
(* read the state row, change a private copy, replace the row, check the   *)
(* lease again, commit.  An import takes a different advisory lock and     *)
(* replaces the image.  Leases are taken and renewed by upsert statements  *)
(* whose now() is the time at which the statement began.                   *)
(*                                                                         *)
(* A statement that needs a lock another transaction holds waits: it is    *)
(* disabled.  Sessions run READ COMMITTED.                                 *)
(***************************************************************************)
EXTENDS Integers, FiniteSets

CONSTANTS Owners,         \* controllers that compete for the lease
          Sessions,       \* Postgres sessions that write or import
          Sources,        \* SQLite files that may be imported
          LeaseTtl,       \* seconds a lease is granted for
          MaxLeaseClock,  \* bound: time
          MaxWrites,      \* bound: writes in an image
          MaxRevision,    \* bound: replacements of the image
          NoOwner

ASSUME BackendConstants ==
    /\ NoOwner \notin Owners
    /\ {"none", "write"} \cap Sources = {}
    /\ {LeaseTtl, MaxLeaseClock, MaxWrites, MaxRevision} \subseteq Nat

VARIABLES leaseNow,    \* clock_timestamp()
          leaseRow,    \* the row of ocfleet_controller_leases
          asking,      \* owners inside acquire_lease, with their now()
          granted,     \* leases acquire_lease has returned
          stateRow,    \* the row of ocfleet_runtime_state
          session,     \* each session's transaction
          expected     \* history: what commits under the newest lease make

backendVars == <<leaseNow, leaseRow, asking, granted, stateRow, session, expected>>

Quiet == [at |-> "idle", kind |-> "none", lease |-> [owner |-> NoOwner, token |-> 0],
          image |-> [source |-> "empty", writes |-> {}]]

\* migrate: the schema under its own advisory lock, and an empty image.
BackendInit ==
    /\ leaseNow = 0
    /\ leaseRow = [owner |-> NoOwner, token |-> 0, until |-> 0]
    /\ asking = [o \in Owners |-> -1]
    /\ granted = {}
    /\ stateRow = [source |-> "empty", writes |-> {}, revision |-> 1]
    /\ session = [s \in Sessions |-> Quiet]
    /\ expected = [source |-> "empty", writes |-> {}]

Moved(s, at) == session' = [session EXCEPT ![s].at = at]

\* Locks a transaction holds follow from where it is.
Fencing(s) == session[s].at \in {"fenced", "loaded", "uploaded", "rechecked"}

HoldsState(s) == session[s].at \in {"loaded", "uploaded", "rechecked"}

-----------------------------------------------------------------------------
(* Leases.                                                                 *)

AcquireBegins(o) ==
    /\ asking[o] = -1
    /\ asking' = [asking EXCEPT ![o] = leaseNow]
    /\ UNCHANGED <<leaseNow, leaseRow, granted, stateRow, session, expected>>

\* No transaction holds the lease row FOR SHARE.
LeaseUnlocked == \A s \in Sessions : ~Fencing(s)

\* acquire_lease: insert, or update the row when it has lapsed or is one's
\* own; a new ownership epoch gets the next token.
AcquireLease(o) ==
    LET now == asking[o]
        own == leaseRow.owner = o
        kept == own /\ leaseRow.until > now
    IN  /\ now # -1
        /\ asking' = [asking EXCEPT ![o] = -1]
        /\ LeaseUnlocked
        /\ IF leaseRow.token = 0 \/ leaseRow.until <= now \/ own
           THEN /\ leaseRow' = [owner |-> o, until |-> now + LeaseTtl,
                                token |-> leaseRow.token + IF kept THEN 0 ELSE 1]
                /\ granted' = granted \cup {[owner |-> o, token |-> leaseRow'.token]}
           ELSE UNCHANGED <<leaseRow, granted>>
        /\ UNCHANGED <<leaseNow, stateRow, session, expected>>

\* The lease row names this lease (validity in time aside).
Names(lease) == leaseRow.owner = lease.owner /\ leaseRow.token = lease.token

LeaseTimePasses ==
    /\ leaseNow < MaxLeaseClock
    /\ leaseNow' = leaseNow + 1
    /\ UNCHANGED <<leaseRow, asking, granted, stateRow, session, expected>>

-----------------------------------------------------------------------------
(* with_write and import_sqlite.                                           *)

\* A store view bound to a lease (fenced), a transaction, and its advisory
\* lock: one for writes, another for imports.
BeginsTransaction(s) ==
    /\ session[s].at = "idle"
    /\ stateRow.revision < MaxRevision
    /\ \E lease \in granted, kind \in {"write"} \cup Sources :
          /\ \A t \in Sessions : session[t].at # "idle" =>
                (kind = "write") # (session[t].kind = "write")
          /\ session' = [session EXCEPT ![s] = [Quiet EXCEPT !.at = "begun",
                                          !.kind = kind, !.lease = lease]]
    /\ UNCHANGED <<leaseNow, leaseRow, asking, granted, stateRow, expected>>

\* The transaction is rolled back: stale fence, bad image, lost connection.
BackendRollsBack(s) ==
    /\ session[s].at # "idle"
    /\ session' = [session EXCEPT ![s] = Quiet]
    /\ UNCHANGED <<leaseNow, leaseRow, asking, granted, stateRow, expected>>

\* lock_write_fence: the lease row FOR SHARE, still alive.
LocksFence(s) ==
    /\ session[s].at = "begun"
    /\ Names(session[s].lease) /\ leaseRow.until > leaseNow
    /\ Moved(s, "fenced")
    /\ UNCHANGED <<leaseNow, leaseRow, asking, granted, stateRow, expected>>

\* Fault: the state row read without FOR UPDATE.
StateReadable(s) == TRUE

\* SELECT ... FOR UPDATE on the state row.
StateLockable(s) == \A t \in Sessions \ {s} : ~HoldsState(t)

\* The image is downloaded, checked and materialised, and the callback runs
\* on the copy, which is verified and staged; an import has its own image.
Materialized(s) ==
    IF session[s].kind = "write"
    THEN [source |-> stateRow.source,
          writes |-> stateRow.writes \cup {Cardinality(stateRow.writes) + 1}]
    ELSE [source |-> session[s].kind, writes |-> {}]

LoadsState(s) ==
    /\ session[s].at = "fenced"
    /\ StateLockable(s)
    /\ session[s].kind = "write" => Cardinality(stateRow.writes) < MaxWrites
    /\ session' = [session EXCEPT ![s].at = "loaded", ![s].image = Materialized(s)]
    /\ UNCHANGED <<leaseNow, leaseRow, asking, granted, stateRow, expected>>

\* insert_state: the new image in the open transaction.
UploadsState(s) ==
    /\ session[s].at = "loaded"
    /\ Moved(s, "uploaded")
    /\ UNCHANGED <<leaseNow, leaseRow, asking, granted, stateRow, expected>>

\* recheck_write_fence
FenceHolds(s) == Names(session[s].lease) /\ leaseRow.until > leaseNow

RechecksFence(s) ==
    /\ session[s].at = "uploaded"
    /\ FenceHolds(s)
    /\ Moved(s, "rechecked")
    /\ UNCHANGED <<leaseNow, leaseRow, asking, granted, stateRow, expected>>

\* No later lease has been granted.
Newest(lease) == \A l \in granted : l.token <= lease.token

\* The new row becomes visible; an import of the image already stored
\* leaves the row and its revision alone.
CommitsState(s) ==
    LET image == session[s].image
        same == image.source = stateRow.source /\ image.writes = stateRow.writes
    IN  /\ session[s].at = "rechecked"
        /\ stateRow' = IF session[s].kind # "write" /\ same THEN stateRow
                       ELSE [source |-> image.source, writes |-> image.writes,
                             revision |-> stateRow.revision + 1]
        /\ expected' = IF ~Newest(session[s].lease) THEN expected
                       ELSE IF session[s].kind # "write" THEN image
                       ELSE [expected EXCEPT !.writes =
                                @ \cup {Cardinality(expected.writes) + 1}]
        /\ session' = [session EXCEPT ![s] = Quiet]
        /\ UNCHANGED <<leaseNow, leaseRow, asking, granted>>

BackendNext ==
    \/ LeaseTimePasses
    \/ \E o \in Owners : AcquireBegins(o) \/ AcquireLease(o)
    \/ \E s \in Sessions :
          \/ BeginsTransaction(s) \/ LocksFence(s) \/ LoadsState(s)
          \/ UploadsState(s) \/ RechecksFence(s) \/ CommitsState(s) \/ BackendRollsBack(s)

BackendSpec == BackendInit /\ [][BackendNext]_backendVars

-----------------------------------------------------------------------------
(* Properties.                                                             *)

\* The stored image is what the writes and imports of the newest lease made of
\* it, in the order they committed: although writes and imports take different
\* advisory locks, none overwrites what another committed after it read; and
\* once another controller has been granted the lease nothing of the former
\* holder is committed, however late its statements run (acquire_lease: "stale
\* holders therefore cannot commit").
NoWriteLost ==
    stateRow.source = expected.source /\ stateRow.writes = expected.writes

-----------------------------------------------------------------------------
(* The inductive invariant behind NoWriteLost.                             *)

Lease == [owner : Owners, token : Nat \ {0}]
Origins == {"empty"} \cup Sources
WriteLogs == {1..n : n \in 0..MaxWrites}
Image == [source : Origins, writes : WriteLogs]
Transaction ==
    [at : {"idle", "begun", "fenced", "loaded", "uploaded", "rechecked"},
     kind : {"none", "write"} \cup Sources,
     lease : Lease \cup {[owner |-> NoOwner, token |-> 0]},
     image : Image]

SnapshotTypeOK ==
    /\ leaseNow \in 0..MaxLeaseClock
    /\ leaseRow \in [owner : Owners \cup {NoOwner}, token : Nat, until : Nat]
    /\ leaseRow.owner = NoOwner <=> leaseRow.token = 0
    /\ asking \in [Owners -> -1..MaxLeaseClock]
    /\ granted \subseteq Lease
    /\ stateRow \in [source : Origins, writes : WriteLogs, revision : Nat]
    /\ session \in [Sessions -> Transaction]
    /\ expected \in Image

\* Tokens number the ownership epochs of the lease: no grant is ahead of the
\* row, and one epoch has one owner, across expiry, renewal and takeover
\* (fencing_token = fencing_token + 1 whenever the owner or the epoch changes).
EpochsOwned ==
    /\ \A l \in granted : l.token <= leaseRow.token
    /\ \A l \in granted : l.token = leaseRow.token => l.owner = leaseRow.owner
    /\ \A l, m \in granted : l.token = m.token => l.owner = m.owner

\* The share lock on the lease row keeps the lease of a fenced transaction the
\* newest one until the transaction ends, even after its time has run out.
FencesCurrent == \A s \in Sessions : Fencing(s) => Names(session[s].lease)

\* The row lock on the state keeps a loaded copy current: one transaction has
\* one, and it still is what the callback makes of the stored image.
CopiesCurrent ==
    /\ \A s \in Sessions : session[s].at # "idle" => session[s].kind # "none"
    /\ \A s, t \in Sessions : HoldsState(s) /\ HoldsState(t) => s = t
    /\ \A s \in Sessions : HoldsState(s) => session[s].image = Materialized(s)

SnapshotInv == EpochsOwned /\ FencesCurrent /\ CopiesCurrent /\ NoWriteLost
=============================================================================
