----------------------------- MODULE HealthRuns -----------------------------
(***************************************************************************)
(* Health evaluation: the evaluator daemon, "health evaluator run",        *)
(* "health summary" and "health node" against the tables                   *)
(* health_evaluation_runs, health_snapshots and health_history             *)
(* (crates/ocfleet-cli/src/health.rs and store.rs).                        *)
(*                                                                         *)
(* An evaluation reads the fleet node by node and writes in two later      *)
(* transactions, start and finish; it may be killed, or overtaken by       *)
(* another evaluation, between any two steps.  A digest is the value that  *)
(* is hashed.                                                              *)
(***************************************************************************)
EXTENDS Integers, Sequences, FiniteSets

CONSTANTS
  HealthNodes,
  Evaluators,          \* evaluations that may run at once
  HealthActor,         \* evaluator -> local_actor()
  HealthPolicies,      \* values health_policy may have: [stale, failures]
  ObservationKinds,    \* pairs of a method and a result that may be observed
  FleetRows,           \* rows a node may get
  EvaluationBucket,    \* HEALTH_EVALUATION_BUCKET_SECONDS
  RecoveryAge,         \* HEALTH_EVALUATION_RECOVERY_SECONDS
  RecoveryBatch,       \* runs one recovery ends
  ObservationLife,     \* expires_at - observed_at
  MaxHealthClock,      \* bound: clock
  MaxHealthObs,        \* bound: observations of a node
  MaxEvaluations,      \* bound: evaluations begun
  MaxFleetChanges      \* bound: changes of the fleet and the policy

ASSUME HealthAssumption == IsFiniteSet(HealthNodes)

VARIABLES
  hClock,
  hPolicy,
  fleet,      \* node -> [enabled, trusted], or NoNode
  hObs,       \* node -> set of observations [method, result, at]
  hRuns,      \* evaluation id -> row of health_evaluation_runs
  snapshots,  \* node -> row of health_snapshots, or NoSnapshot
  healthHistory,    \* rows of health_history
  eval,       \* evaluator -> the evaluation under way, or NoEval
  hBudget     \* counters behind the bounds

healthVars == <<hClock, hPolicy, fleet, hObs, hRuns, snapshots, healthHistory, eval, hBudget>>

NoNode == [enabled |-> FALSE, trusted |-> FALSE, absent |-> TRUE]
HealthNodeRow(e, t) == [enabled |-> e, trusted |-> t, absent |-> FALSE]
NoSnapshot == [at |-> -1]
NoEval == [step |-> "idle"]
NoTime == -1

Registered == {n \in HealthNodes : fleet[n] # NoNode}

----------------------------------------------------------------------------
(* compute_node_health: the status of a node from its stored observations. *)
(* Two observations of a node never carry the same instant.                *)

Latest(os) == CHOOSE o \in os : \A x \in os : x.at <= o.at
LatestAt(os) == IF os = {} THEN NoTime ELSE Latest(os).at
OfMethod(os, method) == {o \in os : o.method = method}

\* "unreachable" stands for ok = false with a code of is_unreachable_error_code,
\* "failed" for ok = false with another one, "warned" for ok = true with a
\* summary that lists degraded methods or an expiring certificate.
IsFailure(o) == o.result \in {"failed", "unreachable"}

\* consecutive_unreachable_controller_ping_failures
UnreachableRun(os) ==
  LET pings == OfMethod(os, "ping")
  IN Cardinality({o \in pings : \A q \in pings : q.at >= o.at => q.result = "unreachable"})

\* latest_is_stale_or_expired
IsStale(os, at, policy) ==
  \/ Latest(os).at + ObservationLife < at
  \/ at - Latest(os).at > policy.stale

\* degraded_methods
IsDegraded(os) ==
  LET last == OfMethod(os, "ocserv")
  IN last # {} /\ (IsFailure(Latest(last)) \/ Latest(last).result = "warned")

PingFailed(os) ==
  LET last == OfMethod(os, "ping") IN last # {} /\ IsFailure(Latest(last))

HealthStatus(enabled, trusted, os, at, policy) ==
  IF ~enabled THEN "disabled"
  ELSE IF ~trusted THEN "unreachable"
  ELSE IF os = {} THEN "unknown"
  ELSE IF IsStale(os, at, policy) THEN "stale"
  ELSE IF UnreachableRun(os) >= policy.failures THEN "unreachable"
  ELSE IF IsDegraded(os) \/ PingFailed(os) THEN "degraded"
  ELSE "healthy"

\* health_snapshot: everything the input watermark hashes of a node.
Snapshot(row, n, at, policy) ==
  LET os == hObs[n]
  IN [at |-> at,
      status |-> HealthStatus(row.enabled, fleet[n].trusted, os, at, policy),
      last_success |-> LatestAt({o \in os : ~IsFailure(o)}),
      last_failure |-> LatestAt({o \in os : IsFailure(o)}),
      failures |-> UnreachableRun(os),
      trusted |-> fleet[n].trusted]

----------------------------------------------------------------------------
(* The writers of store.rs.  Each is one immediate transaction.            *)

Run(p) ==
  [status |-> "running", started |-> eval[p].at, finished |-> NoTime, actor |-> HealthActor[p]]

PutRun(id, row) == [i \in DOMAIN hRuns \cup {id} |-> IF i = id THEN row ELSE hRuns[i]]

\* write_health_evaluation_recovery: the oldest abandoned runs are failed.
Abandoned(now) ==
  {id \in DOMAIN hRuns : hRuns[id].status = "running" /\ hRuns[id].started < now - RecoveryAge}

RecoverRuns(now) ==
  \E batch \in SUBSET Abandoned(now) :
    /\ Cardinality(batch) = IF Cardinality(Abandoned(now)) < RecoveryBatch
                            THEN Cardinality(Abandoned(now)) ELSE RecoveryBatch
    /\ \A i \in batch, j \in Abandoned(now) \ batch : hRuns[i].started <= hRuns[j].started
    /\ hRuns' = [id \in DOMAIN hRuns |->
                   IF id \in batch
                   THEN [hRuns[id] EXCEPT !.status = "failed", !.finished = now]
                   ELSE hRuns[id]]

Samples(id, rows) ==
  {[id |-> id, node |-> n, at |-> rows[n].at, status |-> rows[n].status] : n \in DOMAIN rows}

\* upsert_health_snapshot_tx and insert_health_history_tx for every snapshot.
StoreSnapshots(id, rows) ==
  /\ snapshots' = [n \in HealthNodes |-> IF n \in DOMAIN rows THEN rows[n] ELSE snapshots[n]]
  /\ healthHistory' = healthHistory \cup Samples(id, rows)

\* The row a finish or a failure updates: running, and not ended.
Unfinished(id) ==
  /\ id \in DOMAIN hRuns
  /\ hRuns[id].status = "running" /\ hRuns[id].finished = NoTime

\* Fault: the update is by evaluation id alone.
FinishableById(id, now) == id \in DOMAIN hRuns /\ hRuns[id].started <= now

\* validate_health_evaluation_finish_order_tx and the WHERE of the update.
Finishable(id, now) == Unfinished(id) /\ hRuns[id].started <= now

EndRun(id, status, now) ==
  hRuns' = [hRuns EXCEPT ![id].status = status, ![id].finished = now]

----------------------------------------------------------------------------
(* run_health_evaluation_once, step by step.                               *)

Goes(p, step) == eval' = [eval EXCEPT ![p].step = step]
Stops(p) == eval' = [eval EXCEPT ![p] = NoEval]
At(p, step) == eval[p].step = step
OnlyEval == UNCHANGED <<hClock, hPolicy, fleet, hObs, hRuns, snapshots, healthHistory, hBudget>>

Evaluation(kind, step, at, only) ==
  [kind |-> kind, step |-> step, now |-> hClock, at |-> at, only |-> only,
   policy |-> hPolicy, listed |-> <<>>, rows |-> <<>>, invalid |-> FALSE, serial |-> 0]

Counted ==
  /\ hBudget.evaluations < MaxEvaluations
  /\ hBudget' = [hBudget EXCEPT !.evaluations = @ + 1]

\* An evaluator floors the clock to its bucket; an interactive command does not.
EvaluatorBegins(p) ==
  /\ eval[p] = NoEval
  /\ Counted
  /\ eval' = [eval EXCEPT ![p] = Evaluation("evaluator", "recover",
                                   hClock - (hClock % EvaluationBucket), HealthNodes)]
  /\ UNCHANGED <<hClock, hPolicy, fleet, hObs, hRuns, snapshots, healthHistory>>

InteractiveBegins(p, only) ==
  /\ eval[p] = NoEval
  /\ Counted
  /\ only = HealthNodes \/ (Cardinality(only) = 1 /\ only \subseteq Registered)
  /\ eval' = [eval EXCEPT ![p] = [Evaluation("interactive", "list", hClock, only)
                                    EXCEPT !.serial = hBudget'.evaluations]]
  /\ UNCHANGED <<hClock, hPolicy, fleet, hObs, hRuns, snapshots, healthHistory>>

Recovers(p) ==
  /\ At(p, "recover")
  /\ RecoverRuns(eval[p].now)
  /\ Goes(p, "list")
  /\ UNCHANGED <<hClock, hPolicy, fleet, hObs, snapshots, healthHistory, hBudget>>

\* get_health_policy and list_nodes
ListsNodes(p) ==
  /\ At(p, "list")
  /\ eval' = [eval EXCEPT ![p].step = "compute", ![p].policy = hPolicy,
                          ![p].listed = [n \in Registered \cap eval[p].only |-> fleet[n]]]
  /\ OnlyEval

Uncomputed(p) == DOMAIN eval[p].listed \ DOMAIN eval[p].rows

\* One node: its trust row and its observations are read now.
ComputesNode(p, n) ==
  LET e == eval[p]
  IN /\ At(p, "compute") /\ n \in Uncomputed(p)
     /\ eval' = [eval EXCEPT ![p].rows = [i \in DOMAIN e.rows \cup {n} |->
                   IF i = n THEN Snapshot(e.listed[n], n, e.at, e.policy) ELSE e.rows[i]]]
     /\ OnlyEval

\* A stored row cannot be read: an evaluator records a failed run, an
\* interactive command returns the error.
ComputeFails(p) ==
  /\ At(p, "compute") /\ Uncomputed(p) # {}
  /\ IF eval[p].kind = "evaluator"
     THEN eval' = [eval EXCEPT ![p].step = "start", ![p].invalid = TRUE]
     ELSE Stops(p)
  /\ OnlyEval

\* write_health_snapshots under a fresh identifier.
WritesSnapshots(p) ==
  /\ At(p, "compute") /\ eval[p].kind = "interactive" /\ Uncomputed(p) = {}
  /\ StoreSnapshots([serial |-> eval[p].serial], eval[p].rows)
  /\ Stops(p)
  /\ UNCHANGED <<hClock, hPolicy, fleet, hObs, hRuns, hBudget>>

\* health_evaluation_id: a digest of the watermark, the policy and the fixed
\* computation version.  The watermark of an invalid input is the node list.
EvaluationId(e) ==
  [policy |-> e.policy, invalid |-> e.invalid,
   watermark |-> IF e.invalid THEN [at |-> e.at, nodes |-> e.listed]
                 ELSE [at |-> NoTime, nodes |-> e.rows]]

\* write_health_evaluation_start: the row is inserted once; a replay by another
\* actor is a conflict.
StartsRun(p) ==
  LET id == EvaluationId(eval[p])
  IN /\ At(p, "start") \/ (At(p, "compute") /\ eval[p].kind = "evaluator" /\ Uncomputed(p) = {})
     /\ hRuns' = IF id \in DOMAIN hRuns THEN hRuns ELSE PutRun(id, Run(p))
     /\ IF hRuns'[id].actor = HealthActor[p] THEN Goes(p, "look") ELSE Stops(p)
     /\ UNCHANGED <<hClock, hPolicy, fleet, hObs, snapshots, healthHistory, hBudget>>

\* get_health_evaluation_run: a run that ended is replayed, one that another
\* minute started is left alone.
LooksAtRun(p) ==
  LET e == eval[p]
      run == hRuns[EvaluationId(e)]
  IN /\ At(p, "look")
     /\ IF run.status = "running" /\ (e.invalid \/ run.started = e.at)
        THEN Goes(p, "finish") ELSE Stops(p)
     /\ OnlyEval

\* write_health_evaluation_finish and write_health_evaluation_failure.  A run
\* that no longer runs is a conflict, which ends the command, the daemon too.
FinishesRun(p) ==
  LET e == eval[p]
      id == EvaluationId(e)
  IN /\ At(p, "finish")
     /\ Stops(p)
     /\ IF ~Finishable(id, e.now) THEN UNCHANGED <<hRuns, snapshots, healthHistory>>
        ELSE IF e.invalid THEN EndRun(id, "failed", e.now) /\ UNCHANGED <<snapshots, healthHistory>>
        ELSE EndRun(id, "completed", e.now) /\ StoreSnapshots(id, e.rows)
     /\ UNCHANGED <<hClock, hPolicy, fleet, hObs, hBudget>>

\* The process is killed.
EvaluationDies(p) == eval[p] # NoEval /\ Stops(p) /\ OnlyEval

----------------------------------------------------------------------------
(* What changes around the evaluators.                                     *)

\* set_health_policy
SetHealthPolicy(policy) ==
  /\ hBudget.changes < MaxFleetChanges /\ policy # hPolicy
  /\ hPolicy' = policy
  /\ hBudget' = [hBudget EXCEPT !.changes = @ + 1]
  /\ UNCHANGED <<hClock, fleet, hObs, hRuns, snapshots, healthHistory, eval>>

\* Any change of the registry, which TrustRegistry models.
FleetChanges(n, row) ==
  /\ hBudget.changes < MaxFleetChanges /\ row # fleet[n]
  /\ fleet' = [fleet EXCEPT ![n] = row]
  /\ hBudget' = [hBudget EXCEPT !.changes = @ + 1]
  /\ UNCHANGED <<hClock, hPolicy, hObs, hRuns, snapshots, healthHistory, eval>>

\* A scheduler outcome adds an observation.
ObservationStored(n, method, result) ==
  /\ Cardinality(hObs[n]) < MaxHealthObs
  /\ \A o \in hObs[n] : o.at < hClock
  /\ hObs' = [hObs EXCEPT ![n] = @ \cup {[method |-> method, result |-> result, at |-> hClock]}]
  /\ UNCHANGED <<hClock, hPolicy, fleet, hRuns, snapshots, healthHistory, eval, hBudget>>

HealthTick ==
  /\ hClock < MaxHealthClock
  /\ hClock' = hClock + 1
  /\ UNCHANGED <<hPolicy, fleet, hObs, hRuns, snapshots, healthHistory, eval, hBudget>>

HealthInit ==
  /\ hClock = 0
  /\ hPolicy \in HealthPolicies
  /\ fleet = [n \in HealthNodes |-> HealthNodeRow(TRUE, TRUE)]
  /\ hObs = [n \in HealthNodes |-> {}]
  /\ hRuns = <<>>
  /\ snapshots = [n \in HealthNodes |-> NoSnapshot]
  /\ healthHistory = {}
  /\ eval = [p \in Evaluators |-> NoEval]
  /\ hBudget = [evaluations |-> 0, changes |-> 0]

EvaluatorStep(p) ==
  \/ EvaluatorBegins(p) \/ Recovers(p) \/ ListsNodes(p)
  \/ \E only \in SUBSET HealthNodes : InteractiveBegins(p, only)
  \/ \E n \in HealthNodes : ComputesNode(p, n)
  \/ ComputeFails(p) \/ WritesSnapshots(p)
  \/ StartsRun(p) \/ LooksAtRun(p) \/ FinishesRun(p)
  \/ EvaluationDies(p)

HealthNext ==
  \/ \E p \in Evaluators : EvaluatorStep(p)
  \/ \E policy \in HealthPolicies : SetHealthPolicy(policy)
  \/ \E n \in HealthNodes, row \in FleetRows : FleetChanges(n, row)
  \/ \E n \in HealthNodes, k \in ObservationKinds : ObservationStored(n, k[1], k[2])
  \/ HealthTick

HealthSpec == HealthInit /\ [][HealthNext]_healthVars

----------------------------------------------------------------------------
(* Properties.                                                             *)

SamplesOf(id) == {h \in healthHistory : h.id = id}

\* A completed evaluation has exactly one sample per node it listed, any other
\* has none.
Sampled(id) ==
  IF hRuns[id].status = "completed"
  THEN /\ {h.node : h \in SamplesOf(id)} = DOMAIN id.watermark.nodes
       /\ Cardinality(SamplesOf(id)) = Cardinality(DOMAIN id.watermark.nodes)
  ELSE SamplesOf(id) = {}

\* What a step may do to the evaluations and to their samples.
SampleStep ==
  \A id \in DOMAIN hRuns' :
    /\ Sampled(id)'
    /\ id \in DOMAIN hRuns /\ hRuns[id].status # "running" =>
         hRuns'[id] = hRuns[id] /\ SamplesOf(id)' = SamplesOf(id)

\* An evaluation that is recovered as abandoned, fails or is killed leaves no
\* sample behind, even when its process was only slow and comes back to finish;
\* one that completes leaves exactly one sample per node it listed; and no step
\* of any process changes an evaluation that ended, or its samples.
\* docs/health-history.md:5 "Every successful evaluator finish atomically
\* inserts one sample per node".
SamplesOfCompletedRuns == [][SampleStep]_healthVars

----------------------------------------------------------------------------
(* The inductive invariant behind it.                                      *)

\* The columns of a run, and its identifier.
RunOK(id) ==
  /\ DOMAIN id = {"policy", "invalid", "watermark"}
  /\ DOMAIN hRuns[id] = {"status", "started", "finished", "actor"}

\* An evaluation under way lists and computes nodes of the fleet.
EvaluationOK(e) ==
  e # NoEval =>
    /\ DOMAIN e = {"kind", "step", "now", "at", "only", "policy", "listed", "rows",
                   "invalid", "serial"}
    /\ DOMAIN e.listed \subseteq HealthNodes /\ DOMAIN e.rows \subseteq HealthNodes

HealthTypeOK ==
  /\ \A id \in DOMAIN hRuns : RunOK(id)
  /\ DOMAIN eval = Evaluators
  /\ \A p \in Evaluators : EvaluationOK(eval[p])

\* A sample of an evaluator is one of a run on record; the identifier of an
\* interactive evaluation is none of theirs.
HealthInv ==
  /\ \A id \in DOMAIN hRuns : Sampled(id)
  /\ \A h \in healthHistory : h.id \in DOMAIN hRuns \/ DOMAIN h.id = {"serial"}
=============================================================================
