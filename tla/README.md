# ocfleet: models, checks and proofs

This directory holds TLA+ models of `ocfleet`, the controller, agent and
read-only API in `crates/`, with the TLC configurations that check them on
small instances and theorems that TLAPS checks for every instance.
`PROJECT.json` maps each definition to the lines it models and lists the runs,
mutants, hazards and findings; this file explains them.

## 1. The system and its parts

* **Controller** (`ocfleet-cli`). A SQLite store (`store.rs`, `migrations.rs`)
  holds the node registry, endpoint trust, enrollment, scheduler jobs, claims
  and runs, observations, health, alerts, the delivery queue and an append-only
  audit log. Every store operation is one SQLite transaction. Around it run
  long-lived processes, several of which may share one database: the scheduler
  (`scheduler.rs`), the health evaluator (`health.rs`) and the alert worker
  (`alerts.rs`); and one-shot operator commands (`main.rs`).
* **Agent** (`ocfleet-agent`). A server of fixed read-only RPCs over iroh, with
  admission limits, a nonce cache, caller classes, an audit writer with a spool
  and a limiter for rejected-peer audit.
* **API** (`ocfleet-api`). Read-only HTTP over a snapshot of the store.
* **Shared crates**: `ocfleet-protocol`, `ocfleet-config`,
  `ocfleet-snapshot-schema`: types and validation.

Interactions that matter here: the registry decides which node a command or
a scheduler task may call, and changes between the steps of a call; scheduler
processes meet only in the claim, run and job tables; the tasks of one
scheduler process compete for permits and an RPC budget; alert workers meet in
the alert, hook and delivery-queue tables, which operators and retention change
under them; evaluators write the history that rollup commands read; in the
agent every request passes admission, the nonce cache and the limiter, and
waits for one audit writer thread before it is answered. The store itself is a
SQLite file that processes upgrade and restore, a SQLite image in PostgreSQL
under a lease, or native PostgreSQL tables.

## 2. Modules

| Module | Models | Checked in |
| --- | --- | --- |
| `EndpointLifecycle` | what an endpoint identity promises (abstract specification) | `MCTrustRegistry` |
| `TrustRegistry` | nodes, endpoint trust, tokens, join requests | `MCTrustRegistry` |
| `SchedulerClaims` | scheduler processes against the claim, run and job tables | `MCSchedulerClaims` |
| `SchedulerTasks` | task execution inside one scheduler process | `MCSchedulerTasks`, `MCProgress` |
| `AlertDelivery` | alert evaluation, workers, delivery queue, operator commands | `MCLeases`, `MCProgress` |
| `NativeScheduler` | claims and runs of the native PostgreSQL store, by statement | `MCLeases` |
| `NativeDelivery` | alerts, delivery queue and alert retention of the native PostgreSQL store, by statement | `MCLeases` |
| `AgentAudit` | the agent's audit writer, log and spool | `MCAgentAudit`, `MCAgent` |
| `AgentServer` | admission, validation, dispatch and answer of the agent | `MCAgent` |
| `NonceCache` | the agent's nonces, used by `AgentServer` | `MCAgent` |
| `AuditLimiter` | the audit of rejected peers, used by `AgentServer` | `MCAgent` |
| `Dispatch` | calls of commands and scheduler tasks, over `TrustRegistry` | `MCServices` |
| `HealthRuns` | node health, evaluation runs, snapshots, history | `MCServices` |
| `HealthRollups` | rollups of the history and their projection | `MCServices` |
| `Retention` | policies and the apply command | `MCServices` |
| `ControlledWrites` | change requests and their approval | `MCServices` |
| `TrustPolicy` | sign, plan, approve and record; the policy diff | `MCServices` |
| `Restore` | `restore apply` over the files of the database | `MCBackends`, alone |
| `Migrations` | opening and upgrading the database | `MCBackends` |
| `SnapshotBackend` | the SQLite image kept in PostgreSQL | `MCBackends` |
| `NativeTrust` | the registry transactions of the native PostgreSQL store, by statement, over `TrustRegistry` | `MCBackends` |
| `ApiPages` | paging of the HTTP API | `MCBackends` |

The theorems are in modules of their own, which TLAPS checks:

| Module | About |
| --- | --- |
| `TrustRegistryProofs` | `TrustRegistry` |
| `DispatchProofs` | `Dispatch`, from `TrustRegistryProofs` |
| `NativeTrustProofs` | `NativeTrust`, from `TrustRegistryProofs` |
| `SchedulerProofs` | `SchedulerClaims`, `NativeScheduler` |
| `WorkerProofs` | `AlertDelivery`, `SchedulerTasks`, `HealthRollups` |
| `StoreProofs` | `SnapshotBackend`, `HealthRuns`, `NativeDelivery` |
| `AgentServerProofs` | `AgentServer`, `NonceCache`, `AuditLimiter`, `AgentAudit` |
| `OperationsProofs` | `Restore`, `ControlledWrites`, `TrustPolicy`, `Retention` |

Section 4 is about them.

`MCAlertDelivery` and `MCSchedulerTasks` define the constants that two MC
modules share.

A definition whose comment begins with "Fault:" is not part of the model. It is
a mutated form of the definition that follows it, and shows that a property
notices the mistake.

Several components are checked in one run. Such an MC module extends them all;
they share no variable (but for the limiter, which is also driven by the
server), and a variable `part` says which of them moves in this behaviour,
while the others rest in an initial state. TLC explores the sum of the state
spaces, and each component is checked exactly as it would be alone.

### 2.1 TrustRegistry

State: the tables `nodes`, `trust` (endpoint_trust), `tokens`, `joins`, and the
enrollment part of the audit log, as functions from keys to rows or `None`.
One action per transaction: `AddNode`, `SetNodeEnabled`, `RemoveNode`,
`CreateToken`, `RevokeToken`, `SubmitJoin` (with `SubmitExpires`, the path that
finds the token lapsed and commits that), `RejectJoin`, `ApproveJoin`,
`ClaimLegacy`, `RotateEndpoint`, `ReconcileRotation`, `UpdateEndpointStatus`;
`Lapse` is the passing of a token's expiry. A transaction that returns an error
changes nothing and is not a step. Idempotent replays that change nothing are
stuttering.

Abstractions. A fingerprint is the identity of the join request it was computed
from. Labels, reasons, actors and times are left out. Besides the empty
database, `Init` has the shapes that older binaries leave and for which the
code has explicit paths: a node without a trust row, an approval that names no
node, a rotation that left the node's pointer behind.

### 2.2 SchedulerClaims

State: `jobs`, `claims`, `runs` (tables), `maintenance`, the clock `now`, and
per process its place in the tick (`pc`), the list of jobs it read (`todo`),
the claim in hand (`task`), the time since which its last timestamp may have
been taken (`since`) and `shutdown`. The actions follow `run_due_jobs_once` and
`run_target_job_once` from store call to store call; the code computes a
timestamp before it enters a transaction, so a transaction uses any instant
from `since[w]` to `now`. `Crash` may happen anywhere.

Time counts half seconds. RFC 3339 text carries a fraction only when there is
one, and `"...:01.5Z"` sorts before `"...:01Z"`; `TextKey` and `TextLater`
reproduce that order for the SQL comparisons that use text, and the comparisons
that parse use the instants. The clock does not step backwards: what the store
does under a wall clock that is set back is not modelled. Jobs of a tick are
visited in any order, which includes the code's.

### 2.3 SchedulerTasks

State: the jobs left and the budget of the tick, and per task its stage
(waiting for the node, method or global permit, attempting, backing off, done),
the attempt number, the audit records and the observations, and what was
stored. `StartJob` admits as many tasks as `limit_tasks_by_rpc_budget` does;
`Answered` and `TimedOut` end an attempt; `WriteOutcome` stores a task or, when
a record matches no observation, fails the job. `Heartbeat` is the claim
renewal that goes on whatever the tasks do.

### 2.4 AlertDelivery

State: the rows of `alerts`, the hooks that are enabled, the delivery queue,
the attempt history, which leases and waits have lapsed, which successes are
recent (the five minutes of suppression), and per process its place in a pass.
A process is a worker or the operator's console. The actions are the store
transactions of `run_alert_worker_once_with_sender` in order (evaluate,
enqueue, claim, defer or send, outcome), those of `alert silence`, `alert
resolve`, `alert deliver` and hook enabling, and the deletion of an alert by
retention. A worker may crash anywhere or outlive its lease. A send is complete
some time before the transaction that records it, so `last_sent_at` may move
back when two sends of an alert are recorded in the other order. The rules that
find alert candidates are any set of alerts: what they compute from health
state is not modelled.

### 2.5 AgentAudit

State: the audit log and the spool as files, each request, the bounded queue,
the writer thread and the outages. A file is its readable lines and a tail,
what stands after the last newline. The steps of the writer are single file
operations, and `Crash` may come between any two. The shutdown of the agent is
a wake-up followed by a stop. `MaxTears` allows appends that stop half way;
with `MaxTears = 0` an append happens whole or not at all. A stop is one of the
process: what a loss of power takes from files that were not synced is not
modelled.

### 2.6 AgentServer, NonceCache, AuditLimiter

State: a task per connection and per stream with the step it is at, the free
permits of five semaphores, the gauges of the metrics, the nonces (map, heap
and counter, as the code keeps them) and the limiter's buckets. A stream reads a
request, runs the checks of `validate_request` in their order, registers the
nonce, authorizes, dispatches and audits before it answers; a path echo adds
the outbound call and its own event. Timers may fire whenever their await is
pending; only the age of a request and of a nonce is told by the clock. The
answer of the audit writer is either result: its behaviour is `AgentAudit`. The
limiter charges its bucket before the event is written, and a write that fails
is not repeated; `RejectionsAccounted` counts what went with such an event.

### 2.7 Dispatch

Extends `TrustRegistry`, and any of its operations may run between two steps of
a call. A call (node RPC, ocserv status, path probe; by command or by scheduler
task) is the sequence of steps it still has to do: read the row, check it,
check the maintenance window (jobs only), check trust, pass the gate before
every method, send. The actions `LoadRow`, `Preflighted`, `Gate` and
`SendRequest` take one step; a retry or the next method of a bundle adds steps.
An answer is its class.

### 2.8 HealthRuns and HealthRollups

`HealthRuns`: an evaluator recovers abandoned runs, lists the nodes, computes
each from its observations (a read of its own), starts a run whose id is the
digest of what was read, and finishes it; a digest is the value hashed.
Interactive commands write snapshots only. Kills and overtaking happen between
any two steps. `HealthRollups`: a refresh or recompute reads its sources cell by
cell while sources arrive, then stores all rows in one transaction with replay
by operation id; `Slo` is the projection. A source carries a fraction of a
second or not: probes and interactive samples may, those of the timer do not,
and the query compares text. `SloAgrees` is therefore about sources of which no
sample straddles a slot boundary. Percentiles and the fingerprint and
certificate counters are left out.

### 2.9 Retention, ControlledWrites, TrustPolicy

`Retention`: the apply command goes scope by scope, one transaction each, and
every batch of a transaction is a step; the command may be killed in the middle
of a transaction, before or after a commit, and be repeated under the same
operation id. `ControlledWrites`: a command takes the
time once, closes an overdue request in one transaction and makes its
transition in a second. `TrustPolicy`: sign, plan, approve and record over files
that may be edited, replaced or torn between the commands; hashes and
signatures are the values they were made over, and `PolicyDiff` is the
comparison of policy and registry.

### 2.10 Restore and Migrations

`Restore`: every rename and removal of `restore apply` is a step that may fail,
those of `restore_original_files` and of tidying up included, and the process may
be killed between any two; two restores may overlap. As the
runbook demands, no other process has the database open. `Migrations`: a
database is its versions, its tables and the form of the rows of each versioned
column. Each of the twenty-eight migrations is an operator; `Migrated` composes
them as `apply_pending_migrations` does. Processes read the version, copy and
apply in separate steps, in any interleaving.

### 2.11 SnapshotBackend, NativeTrust, NativeScheduler, NativeDelivery

PostgreSQL at READ COMMITTED: a statement that needs a lock another session
holds is disabled, `FOR UPDATE` locks nothing when it finds no row, writes are
visible at commit, and a session may roll back anywhere (errors, broken
connections and deadlock victims). The three native modules run each operation
statement by statement, with the checks on what was read earlier.
`NativeTrust` reuses the tables of `TrustRegistry` and is held to the same
invariants, so the two stores are compared directly.

`NativeDelivery` has the rows of alerts, hooks, deliveries and attempts, and per
session its transaction, what it has read and the locks it holds. Locks have the
PostgreSQL modes the statements take: share and update on rows, and those of the
tables that retention locks. An alert write is computed outside the transaction
that checks and stores it, as in the store. `NativeDeliveriesKept` says that
the recorded attempts explain the state of every delivery, that only settled
deliveries are pruned, that the time of the last success changes only in the
commit that records a send (and may then move back), and that an alert write
replaces only the row it was computed from. The exception is a write computed
from no row, which replaces an alert stored meanwhile unless a delivery refers
to it (section 5).

### 2.12 ApiPages

The cursor keys are those of the running process, and change with a restart. A
request is answered with one page; a client walks a listing by cursors while
rows are written. Alerts sort by `last_seen_at`, which the commands take from
the clock before they read the row, so an alert may come to sort further back
during a walk and be returned again; nodes and samples never do. Authentication
and roles are left out: a refused request reads and changes nothing.

## 3. Runs

| Run | Checks | Result |
| --- | --- | --- |
| `trust_registry` | two nodes, three endpoints, two requests, one token; all interleavings from all four kinds of initial database | passes, 245,133 states |
| `scheduler_claims` | two processes, one job that can or cannot be run, two runs, time to 3 half seconds | passes, 2.4 million states |
| `leases` | alert workers on the delivery queue; sessions of the native scheduler; sessions of the native alert and delivery tables | passes, 1,776,281 states |
| `progress` | tasks of the jobs of a tick, and the delivery queue, under fairness | passes, 121,360 states |
| `agent` | audit writer, server and limiter | passes, 783,873 states |
| `controller_services` | calls, health runs, rollups, retention, change requests, trust policy | passes, 1,687,402 states |
| `store_backends` | restore, migrations, snapshot backend, native registry, API walks | passes, 1,151,703 states |
| `scheduler_orphaned_run` | "release after terminal persistence" | violated, finding 1 |
| `scheduler_retry_audits` | "Audit records from every attempted RPC are retained and persisted" | violated, finding 2 |
| `agent_audit_glued` | "No unaudited success", with torn appends | violated, finding 3 |
| `path_probe_result` | a path echo stores "ok/error code, and target segment status" | violated, finding 4 |
| `restore_undone` | a move failure "restores the prior database" | violated, finding 5 |

What the properties say is stated above each of them in its module. The ones
that carry most:

* registry: `UniqueActiveEndpoint`, `LineageSound`, `FingerprintOrigin` and the
  refinement `LifecycleSpec`;
* calls: `WithdrawalStopsCalls` (after trust is withdrawn a call sends at most
  the one request that had passed its gate) and `CapabilityOfBinding`;
* leases: `ActiveRunBound` and `StaleOwnerHarmless` (outcome and finish compare
  neither owner nor fence, and are safe only because a claim's active run is
  always its holder's), `NativeRunsOwned`, `LiveClaimsAreKept`,
  `HistoryMatchesQueue`, `DecisionsSurvive`, `NativeDeliveriesKept`;
* agent: `LoggedOnce` (outages and crashes lose no acknowledged event, a torn
  append at most two, and replay repeats none), `AcceptedOnce`, `ResponseAudited`, `PermitsConserved`,
  `RejectionsAccounted`;
* services: `SamplesOfCompletedRuns`, `SloAgrees` (fine and coarse rollups of the
  same sources give one projection, and stored rows never make one fail), `DeletedAsReported`, `ApprovalsEarned`, `HistoryVouches`;
* stores: `RestoreLosesNothing`, `UpgradedOnce`, `NoWriteLost`,
  `NativeRegistrySound`, `WalkExact`.

### Bounds, and why they are enough

* Registry. Two nodes let two owners compete for an endpoint. Three endpoints
  let a node rotate twice, or rotate while another node registers. Two requests
  and one token with up to two uses reach every order of submission, expiry,
  approval and claim. The generation limit of 4 is low enough to be reached.
* Claims. One job suffices, for claims of different jobs share no row; two
  processes are a holder and a usurper; two runs allow one that was taken over
  and its successor. A lease and an interval of one second and three half
  seconds of time let a lease expire, be renewed late and be taken over.
  `MaxFence` bounds the changes of hands. The native claims have two sessions
  for the two owners, so that an owner has a heartbeat beside an outcome.
* Tasks. The targets of a job are distinct nodes, so the node permit is free
  when a task asks for it; two targets compete for one method and one global
  permit. The budget of 7 admits the first job whole and truncates the second;
  with two attempts a first one is retried and a last one is not.
* Alerts. One alert and one hook, for rows of different alerts or hooks meet
  only in the limits, which are set to one. Two workers are a holder and a
  usurper. `MaxStamp` bounds the events that need a new timestamp, `MaxFaults`
  crashes and leases that end under a live owner; `MaxDeliveries` is the
  option of that name. A worker defers only in a pass that may send twice,
  which is `progress`.
* Native alerts. Two sessions, one alert and one hook: every pair of statements
  meets on the same rows. Two alert writes are an evaluation and a decision or
  two evaluations; a fence of two is a claim and its takeover, and one renewal
  and two attempts let a late owner renew, report or fail a last time.
  `UpsertsEntry` handles batches of several alerts; with one key, TLC sees only
  batches of one.
* Agent. Three audit requests are one more than the queue or the spool holds,
  so both fill up; two faults allow an outage of the log with one of the spool
  or with a crash. Two connections and two streams exceed the per-peer limits
  of one, and the limit of one nonce per controller is reached. The global limit
  of two is not, as there is one controller; `NoncesAreKept` proves it. The
  limiter alone
  gets six rejections under three keys for one bucket, so that keys overflow,
  lapse and return.
* Calls. Two nodes and two endpoints are the two ends of a path, or a name
  removed and registered again; one caller suffices, for calls share nothing
  but the registry. A bundle has two methods and a job two attempts.
* Health. One node, two evaluators of one actor, a bucket of two ticks and an
  age of one: an evaluation can be recovered while its process is only slow.
  Rollups have slots of two seconds, buckets of one and two slots, and two
  sources, which is a first and a late one; `MaxRollups` is two commands at once.
  A source is of the last second of a slot or of the first of the next; with a
  fraction, the latter sorts into the bucket before.
* Retention. Two rows, a batch of one and a limit of one or none: a batch loop
  that stops at the limit, at the end, or not at all; two applies under one id.
* Change requests. One request and two commands of two principals are every race
  of two decisions; a lifetime of 1 or 2 against a clock to 2 expires between
  the two transactions of a command. `MaxTrail` is one more than the longest
  chain that does not end.
* Policy. Two revisions of one node and two registries for the review; the diff
  is compared over more documents and registries, with one and two nodes, in a
  part of its own. `MaxDiffItems` of one lets a plan be truncated.
* Stores. Two restores; two openers with databases of every kind of transition
  (before and after the constraint rebuild, the envelopes and the rollup
  rebuild, current, and newer than the binary); two lease owners and two
  sessions; one node with two endpoints, which is a rotation racing anything; in
  a part of its own a token of one or two uses with two requests, so that one
  use is left or none; three rows in pages of one, and two writes, which move a
  row forward and back.

Symmetry is used where the permuted values are only compared for equality, and
not in runs with liveness. Components checked together take their processes
from one set, so that one permutation serves all.

Deadlock checking is off where every process may have stopped or every bound
may have been reached (`trust_registry`, `scheduler_claims`,
`controller_services`, `store_backends`), and on elsewhere.

### Fairness

`progress`, tasks: an attempt ends because the code bounds it by a deadline
(weak fairness of answer-or-timeout). The tasks are futures of one runtime,
which polls all that are ready (weak fairness of back-off, storing and join). A
permit passes between waiters in the order they came, as tokio's semaphores do
(strong fairness of the acquisitions).

`progress`, alerts: a worker goes on with its pass and starts another, as the
daemon loop does, and time passes; crashes and operator commands are bounded.
`QueuedDeliveriesSettle` is about a queue that stops growing: the claim query
looks at the first rows only, so rows that keep arriving in front of a delivery
can hold it back for ever, and nothing in the code prevents that. In the run
`MaxStamp` ends the inflow.

`agent`: the writer thread runs (weak fairness of its steps) and an outage
ends. Nothing is assumed about requests: the timed wake-up has to do.

## 4. Proofs

Every theorem holds for all values of the constants that meet the named `ASSUME`
of the module: any number of nodes, processes, sessions, jobs, alerts, restores
or requests. The assumptions say that limits and times are natural numbers
(positive, or in the range the code accepts, where that matters), that the value
that stands for "none" is not a row or a key, and which sets are finite where
something is counted. The rollups need one more: that every bucket size is a
multiple of the slot, as 300, 3600 and 86400 seconds are of 300. TLC evaluates
the assumptions in the runs.

Each module proves, of every specification it is about, the type invariant
together with an inductive invariant, and from them the properties the runs
check, which are seldom inductive alone. The invariants are defined in the
component's module, after its properties; TLC checked each of them on a small
instance. A proof has one step per action, or one lemma where several properties
share the case.
Leaves that need no arithmetic mostly name Zenon: tlapm encodes SMT problems
more slowly the more of them a module has, until simple ones run out of time.

### TrustRegistryProofs

`UniqueActive`, `EnabledNodesDispatchable`, `LineageIsSound`,
`FingerprintsTraced`, `BindingsAudited`, `TokensAccounted`, and
`ImplementsLifecycle`: every step of the registry is a step of
`EndpointLifecycle` or leaves it unchanged.

`UniqueActiveEndpoint` is not inductive: nothing in it stops a second active
endpoint from being bound to a node whose pointer is elsewhere. `RegistryInv`
says how an active endpoint is found from its node: it is the one the node
points at, or the successor of the rotated one the node points at
(`ActiveReachable`). As a row has one pointer and a rotated row one successor,
two active endpoints of a node are equal. `PointerOwned` and `PointersDistinct`
are what the registering and rotating transactions need to keep it.
The counts of `TokenAccounting` are cardinalities of sets of requests, of which
a submission adds one.

### SchedulerProofs

Claims: `ActiveRunsBound`, `FinishedRunsSerial`, `StaleOwnersHarmless`,
`ScheduledRunsSpaced`. Outcome and finish compare neither owner nor fence.
`OwnersHold` and `TasksPlaced` of `ClaimsInv` supply what the code leaves out:
whoever a claim names as owner knows it by job and fence. Timestamps are taken
before the transaction that uses them; `StampsPast` and `FinishedBefore` order
the end of earlier runs before the instant from which a holder reads the clock,
and `ClockSpaced` and `DueHeld` do the same for the interval of a job, also when
the job was read from a list that is stale by now.

Native claims: `NativeRunsAreOwned`, `LocksProtectClaims`. A call is several
statements, so `NativeSchedInv` speaks of transactions half way: row locks are
exclusive (`LocksExclusive`), a transaction has the rows of the statements
behind it and what it saw of them still holds (`CallsLocked`), and a claim row
has the last fence given out (`FencesIssued`). A `FOR UPDATE` that finds no row
locks nothing; the lock on the job row covers that case.

### NativeTrustProofs

`NativeRegistryIsSound`, `NativeCommitsAreOperations` (the commit of a native
transaction is one whole operation of `TrustRegistry` on the committed tables)
and `NativeImplementsLifecycle`.

A session decides on rows it read statements ago. `NativeInv` says what it may
still rely on: a row that was found is locked and as it was read
(`ReadsCurrent`), a key it inserted is taken by no committed row (`ClaimsFree`),
and locks are apart (`LocksApart`). Three reads lock nothing, and each needs a
reason of its own: the endpoint that enabling a node looks at, which cannot be
withdrawn while the node is locked (`BoundCurrent`); a node that a revocation
did not find, which cannot come to point at a locked endpoint (`AbsentApart`);
and the endpoint a removal finds (`RemovesFound`). With these, the guards of the
registry's operation hold at the commit, and its step lemmas from
`TrustRegistryProofs` do the rest.

### StoreProofs

Snapshot backend: `NoCommitLost`, `EpochsHaveOneOwner`. `SnapshotInv` says what
the two row locks are for. The lock on the lease row keeps the lease of a fenced
transaction the newest one until it ends, even if its time has run out
(`FencesCurrent`); the lock on the state row keeps a loaded copy equal to what
the callback makes of the stored image (`CopiesCurrent`).

Health runs: `CompletedRunsAreSampled`. `HealthInv` relates the two tables a
finish writes: a run that completed has one sample for each node it listed, any
other run none, and a sample of no run is that of an interactive evaluation,
whose identifier is none of theirs.

Native deliveries: `NativeDeliveriesAreKept`. `NativeDeliveryInv` has one clause
for each kind of transaction, of what the statements behind it have established
(`WriteHolds` to `PruneHolds`), and rests on `LocksCompatible`, that no two
sessions hold locks that conflict. `NumbersApart` tells an alert that was
replaced from the one that was read.

### AgentServerProofs

Server: `PermitsAreConserved`, `NoncesAreKept`, `RequestsAcceptedOnce`,
`ResponsesAreAudited`. That a request is accepted once needs the link from the
check to the cache: what passed validation was not issued further ahead than the
skew (`RequestsChecked`), so the life given to its nonce reaches its deadline,
and the nonce is in the map until then (`NoncesLive`). `EchoesTrailed` is needed
for the event of a path echo.

Limiter: `RejectionsAreAccounted`, of the limiter as the server drives it. The
suppressions of a table are the size of a disjoint union, so that the sum is
split, and one summand changed, without induction. For the bound on what a
bucket lets through: the whole seconds of two spans are at most those of both,
so rounding at each refill loses tokens and never makes one.

Audit writer: `EventsAreLoggedOnce`. The number of events lost is bounded by a
potential: an event that was answered and stands nowhere safe (`Exposed`) counts
one, a file whose tail is not clean two, and together they are at most two for
each append that was cut short (`LossesCharged`). That no event is logged twice
needs that it comes to the writer once (`TakenOnce`), and that what is still to
be replayed stays in the spool (`RecordsSpooled`).

### WorkerProofs

Deliveries: `HistoriesMatch`, `AttemptsAreBounded`, `ClaimsAreKept`,
`DecisionsAreKept`. `ClaimsCurrent` says that a worker which still is the owner
of a claimed row has the fence and the attempt number of the row, whatever
happened in between. `EvaluationsDerived` relates an evaluation under way to the
row it read, and `SilencesStamped` lets an unchanged stamp stand for an
unchanged silence, which is how the store detects a decision made meanwhile.

Tasks: `AttemptsAreCovered`, `PartialSuccessIsFinal`. `TasksInv` counts the
attempts that running tasks may still make (`AttemptsLeft`) and says that they
are reserved besides those made, and that a task works only after attempts in
which nothing succeeded.

Rollups: `SloProjectionsAgree`. `RollupInv` says that every row, stored or in
the hands of a command, is what `BuildRollup` makes of the sources in its
watermark, that these lie in its cell, and that the counters of a stored row are
consistent, which the store checks. Cells of one size are apart and, because
sizes are multiples of the slot, hold whole slots: a sample that straddles no
boundary lies in the cell of its slot (for probes slots do not matter). So the
slots of
different rows are disjoint, and a column summed over rows is a number that the
union of the watermarks determines, whatever the bucket size. The rows of a
window are at most as many as its buckets, for their starts are different
multiples of the size.

### DispatchProofs

`DispatchKeepsRegistry`: calls with the registry under them are behaviours of
`TrustRegistry`, so that its theorems hold here. `WithdrawalsStopCalls`,
`CapabilitiesOfBinding`.

`CallsPlanned` says that the steps a call has left are in order, with the checks
it still owes ahead of its request; `LateHeldBack`, that a call which sent a
request after the withdrawal stands before the gate of that end, with no row to
read again, and the end is still withdrawn.

### OperationsProofs

Restore: `RestoresLoseNothing`. Past its plan a restore has the lock
(`LockHeld`), the original is backed up before it is touched (`OriginalKept`),
and what a restore has moved aside and what is left at the target are parts of
one database at each of its steps, undoing included (`FilesTogether`).

Change requests: `ApprovalsAreEarned`. `ChangeInv` adds to `ApprovalsEarned` that
a command past its expiry check names a request that exists: only the create
command may start a trail.

Trust policy: `HistoryIsVouchedFor`, `DiffIsExact`. One recorder at a time is
past the lock, and what it read of the history, whole entries and none of its
revision, still holds when it appends (`RecordersExclude`). `DiffIsExact` is
about an operator and not about steps: the difference is empty exactly when the
registry follows the policy.

Retention: `DeletedIsAsReported`. Candidates are closed downwards by age, so a
batch of the oldest leaves exactly the other candidates; hence the count of a
transaction is the number of rows gone, and what it still plans to delete is
there to be found (`PruneOnCourse`). An operation that has an event plans
nothing again.

### Model-checked only

* Liveness, which is out of the prover's reach: `QueuedDeliveriesSettle`,
  `JobEnds`, `SpoolReplayed`.
* What needs induction over data, which the installed provers cannot do:
  `UpgradedOnce`, which rests on what the composition of the migrations
  (`Migrated`) computes, and `WalkExact`, on what sorting a set of rows yields.
* The properties of the `violation` runs, which do not hold.

## 5. Findings

Five statements of the documentation that the code does not keep; each has a
run with a counterexample and an entry in `PROJECT.json` with both lines.

1. A run that fails after its start is left `running`, and the release of its
   claim clears the only reference a takeover could find it by. (The native
   store refuses such a release; `NativeRunsOwned`.)
2. A task that was retried cannot be stored: the audit records of its earlier
   attempts match no observation, and the job ends in an error.
3. An audit append continues whatever the file ends with. After an append that
   was cut short, the next event shares its line, cannot be read, and is
   acknowledged all the same; in the spool the line is dropped on replay.
4. A scheduled path probe whose target segment failed is stored with
   `ok: true`; the command line reads the same answer as a failure.
5. When the first rename of `restore apply` fails, nothing has been moved aside.
   `restore_original_files` still removes the file at the database path, has
   nothing to put back, and the command ends with "original state restored". The
   content is in the managed backup made before (`RestoreLosesNothing`).

Further differences that reading the code for the models brought up, without a
run of their own:

* Renewal and run start compare lease times as text (`store.rs:1677`), so within
  one second a lease that has run out can still be renewed;
  `docs/a3-scheduler-reliability-inventory.md:19` says instants are parsed.
  `SchedulerClaims` has this behaviour (`TextLater`).
* The RPC budget counts attempts, while an ocserv-status attempt makes several
  calls; `docs/adr/ADR-scheduler-retry-policy.md:24` calls it a hard upper bound.
* Suppression after a success is decided when a delivery is queued, not when it
  is sent, so rows queued during an outage are all delivered afterwards;
  compare `docs/a5-alert-delivery-inventory.md:21`. `AlertDelivery` has this.
* Rollup windows are half open (`docs/adr/ADR-health-history-rollups.md:34`) by
  the text of their timestamps: a fraction within the first second of a bucket
  sorts before it. `HealthRollups` has this order (`TextBefore`). A slot with
  samples on both sides of such a boundary counts in two buckets, although
  the comment at `health.rs:941` has the last evaluation in a slot win.
* A slow rollup refresh stores its older row over one derived from more sources,
  and later refreshes do not repair it: their operation id is already known, so
  they report a replay and write nothing (`store.rs:2608`).
  `docs/health-history.md:110` says that a late source row "safely replaces the
  derived row". `HealthRollups` has this.
* On the native store an evaluation that found no row locks nothing, and its
  upsert then replaces an alert committed meanwhile, even one the operator has
  silenced, as long as no delivery refers to it (`postgres_native.rs:4749`);
  `docs/c1-native-postgres-inventory.md:144` promises the rejection of writes
  with a stale before-state. `NativeDelivery` has this, and
  `NativeDeliveriesKept` states it as its exception.
* The maintenance window is read once at the start of a tick
  (`scheduler.rs:1053`), so a tick that began before the window still claims the
  jobs it has left.

## 6. Not modelled

`PROJECT.json` lists every component with its status and the reason.

* Partly: hook creation, the attempt rows of manual deliveries and the rules
  behind alert candidates; the creation and listing of backups, which only add
  files; the health evaluations, change requests and other retention scopes of
  the native store; authentication, roles and single-row routes of the API.
* Left out for good, as none changes shared state: text formatting, parsing
  and redaction, configuration and protocol types, metrics, the ocserv providers
  (file reading), webhook transport (its result is an outcome of
  `AlertDelivery`), audit export, and the read-only reports of the command line.
* Faults outside the models: a wall clock that is set back, and what a loss of
  power takes from files that were not synced.
