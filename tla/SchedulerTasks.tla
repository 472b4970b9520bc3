--------------------------- MODULE SchedulerTasks ---------------------------
(***************************************************************************)
(* The RPC work of the jobs of one scheduler tick                          *)
(* (crates/ocfleet-cli/src/scheduler.rs, limit_tasks_by_rpc_budget to      *)
(* write_scheduler_task_outcomes): admission against the RPC budget of the *)
(* tick, tasks that wait for a node, a method and a global permit, bounded *)
(* retries, and the transactions that store the outcomes.                  *)
(*                                                                         *)
(* A task is the work for one target.  Each attempt calls every method of  *)
(* the job's kind (four for the ocserv status bundle, else one).  An audit *)
(* record and an observation are kept as the pair of method and ok; the    *)
(* durations that are compared too are equal whenever the two belong       *)
(* together.                                                               *)
(***************************************************************************)
EXTENDS Integers, Sequences, FiniteSets, Functions

CONSTANTS
  NodeOf,          \* sequence: the node of every target of a job
  Methods,         \* sequence: the methods one attempt calls, in order
  MaxTaskAttempts, \* SCHEDULER_RPC_MAX_ATTEMPTS
  Budget,          \* rpc_budget_per_tick
  MaxConcurrency,  \* global permits, and permits of a method
  PerNode,         \* per_node_concurrency
  JobsPerTick      \* due jobs of a tick

Tasks == DOMAIN NodeOf

VARIABLES
  jobsLeft,  \* jobs of the tick still to run
  budget,    \* rpc_budget_remaining
  phase,     \* "between" jobs, "executing", "writing", or "failed"
  stage,     \* task -> where its future is
  attempt,   \* task -> attempts made
  audits,    \* task -> audit records of all its attempts
  observed,  \* task -> observations of its last attempt
  stored,    \* task -> audit records stored with its outcome
  rpcs,      \* RPCs sent in this tick
  beat       \* flips with every renewal of the job's claim

taskVars == <<jobsLeft, budget, phase, stage, attempt, audits, observed, stored, rpcs, beat>>

Result == {"ok", "transient", "permanent"}

ASSUME TaskConstants ==
  /\ MaxTaskAttempts \in Nat /\ MaxTaskAttempts > 0
  /\ Budget \in Nat /\ JobsPerTick \in Nat
  /\ MaxConcurrency \in Nat /\ MaxConcurrency > 0
  /\ PerNode \in Nat /\ PerNode > 0
  /\ Len(Methods) \in Nat /\ Len(Methods) > 0 /\ DOMAIN Methods = 1..Len(Methods)
  /\ Len(NodeOf) \in Nat /\ Tasks = 1..Len(NodeOf)

----------------------------------------------------------------------------
(* Admission.                                                              *)

\* Fault: reserves one attempt for each task.
TaskCapacitySingle(remaining) == remaining

\* How many tasks the rest of the budget admits.
TaskCapacity(remaining) == remaining \div MaxTaskAttempts

SmallerOf(a, b) == IF a <= b THEN a ELSE b

Admitted(targets) == SmallerOf(targets, TaskCapacity(budget))

TasksInit ==
  /\ jobsLeft = JobsPerTick /\ budget = Budget /\ phase = "between" /\ rpcs = 0 /\ beat = 0
  /\ stage = [t \in Tasks |-> "none"]
  /\ attempt = [t \in Tasks |-> 0]
  /\ audits = [t \in Tasks |-> <<>>]
  /\ observed = [t \in Tasks |-> <<>>]
  /\ stored = [t \in Tasks |-> <<>>]

\* The next job resolves some targets that pass the preflight; those beyond the budget are dropped and
\* reported in one failed observation.
StartJob(targets) ==
  /\ phase = "between" /\ jobsLeft > 0
  /\ jobsLeft' = jobsLeft - 1
  /\ budget' = budget - Admitted(targets) * MaxTaskAttempts
  /\ phase' = "executing"
  /\ stage' = [t \in Tasks |-> IF t <= Admitted(targets) THEN "node" ELSE "none"]
  /\ attempt' = [t \in Tasks |-> 0]
  /\ audits' = [t \in Tasks |-> <<>>]
  /\ observed' = [t \in Tasks |-> <<>>]
  /\ stored' = [t \in Tasks |-> <<>>]
  /\ UNCHANGED <<rpcs, beat>>

----------------------------------------------------------------------------
(* Permits.  A task takes them in the order node, method, global, keeps    *)
(* them over its retries and drops them together.                          *)

\* Fault: a finished task never drops its permits.
HoldersLeaked(after) ==
  {t \in Tasks : stage[t] \in after \cup {"attempt", "backoff", "done"}}

\* Tasks that hold the permit taken before the given stages.
Holders(after) == {t \in Tasks : stage[t] \in after \cup {"attempt", "backoff"}}

NodeHolders(n) == {t \in Holders({"method", "global"}) : NodeOf[t] = n}

Move(t, from, to) == stage[t] = from /\ stage' = [stage EXCEPT ![t] = to]

WorkVars == <<jobsLeft, budget, phase, attempt, audits, observed, stored, rpcs, beat>>

AcquireNode(t) ==
  /\ Cardinality(NodeHolders(NodeOf[t])) < PerNode
  /\ Move(t, "node", "method")
  /\ UNCHANGED WorkVars

AcquireMethod(t) ==
  /\ Cardinality(Holders({"global"})) < MaxConcurrency
  /\ Move(t, "method", "global")
  /\ UNCHANGED WorkVars

AcquireGlobal(t) ==
  /\ Cardinality(Holders({})) < MaxConcurrency
  /\ Move(t, "global", "attempt")
  /\ UNCHANGED WorkVars

----------------------------------------------------------------------------
(* Attempts.                                                               *)

\* Fault: one transient failure is enough for a retry.
RetryableSomeFailure(results) == "transient" \in Range(results)

\* scheduler_task_outcome_is_retryable
Retryable(results) == Len(results) > 0 /\ Range(results) = {"transient"}

\* What an attempt leaves, as observations and as audit records alike.
Records(results) == [i \in DOMAIN results |-> [method |-> Methods[i], ok |-> results[i] = "ok"]]

EndAttempt(t, results, sent) ==
  /\ phase = "executing"
  /\ IF Retryable(results) /\ attempt[t] + 1 < MaxTaskAttempts
     THEN Move(t, "attempt", "backoff") ELSE Move(t, "attempt", "done")
  /\ attempt' = [attempt EXCEPT ![t] = @ + 1]
  /\ audits' = [audits EXCEPT ![t] = @ \o Records(results)]
  /\ observed' = [observed EXCEPT ![t] = Records(results)]
  /\ rpcs' = rpcs + sent
  /\ UNCHANGED <<jobsLeft, budget, phase, stored, beat>>

\* The attempt ran to its end.
Answered(t) ==
  \E results \in [DOMAIN Methods -> Result] : EndAttempt(t, results, Len(Methods))

\* The deadline dropped the attempt after some calls; a fresh failure of the
\* first method stands for all of them.
TimedOut(t) == \E sent \in DOMAIN Methods : EndAttempt(t, <<"transient">>, sent)

Backoff(t) == Move(t, "backoff", "attempt") /\ UNCHANGED WorkVars

----------------------------------------------------------------------------
(* Storing the outcomes.                                                   *)

Pending == {t \in Tasks : stage[t] = "done"}

JoinAll ==
  /\ phase = "executing"
  /\ \A t \in Tasks : stage[t] \in {"none", "done"}
  /\ phase' = "writing"
  /\ UNCHANGED <<jobsLeft, budget, stage, attempt, audits, observed, stored, rpcs, beat>>

\* matching_rpc_audit: the audits the observations take out of the list.
Matched(t) == SelectSeq(observed[t], LAMBDA o : o \in Range(audits[t]))

\* The next outcome in order.  Audit records that no observation claimed stop
\* the job with an error; the outcomes stored before it stay.
WriteOutcome(t) ==
  /\ phase = "writing" /\ stage[t] = "done"
  /\ \A u \in Pending : t <= u
  /\ IF Len(Matched(t)) < Len(audits[t])
     THEN phase' = "failed" /\ UNCHANGED <<stage, stored>>
     ELSE /\ stored' = [stored EXCEPT ![t] = Matched(t)]
          /\ Move(t, "done", "none")
          /\ UNCHANGED phase
  /\ UNCHANGED <<jobsLeft, budget, attempt, audits, observed, rpcs, beat>>

EndJob ==
  /\ phase = "writing" /\ Pending = {}
  /\ phase' = "between"
  /\ UNCHANGED <<jobsLeft, budget, stage, attempt, audits, observed, stored, rpcs, beat>>

\* The next tick of this process, or the first of the one that replaces it.
NextTick ==
  /\ phase = "failed" \/ (phase = "between" /\ jobsLeft = 0)
  /\ jobsLeft' = JobsPerTick /\ budget' = Budget /\ rpcs' = 0
  /\ phase' = "between"
  /\ stage' = [t \in Tasks |-> "none"]
  /\ attempt' = [t \in Tasks |-> 0]
  /\ audits' = [t \in Tasks |-> <<>>]
  /\ observed' = [t \in Tasks |-> <<>>]
  /\ stored' = [t \in Tasks |-> <<>>]
  /\ UNCHANGED beat

\* The claim is renewed on a connection of its own, whatever the tasks do.
Heartbeat ==
  /\ phase = "executing"
  /\ beat' = 1 - beat
  /\ UNCHANGED <<jobsLeft, budget, phase, stage, attempt, audits, observed, stored, rpcs>>

TaskStep(t) ==
  \/ AcquireNode(t) \/ AcquireMethod(t) \/ AcquireGlobal(t)
  \/ Answered(t) \/ TimedOut(t) \/ Backoff(t)
  \/ WriteOutcome(t)

TasksNext ==
  \/ \E targets \in 0..Len(NodeOf) : StartJob(targets)
  \/ \E t \in Tasks : TaskStep(t)
  \/ JoinAll \/ EndJob \/ NextTick \/ Heartbeat

TasksSpec == TasksInit /\ [][TasksNext]_taskVars

\* The runtime polls every future that can go on, an attempt ends by its
\* deadline, and tokio's semaphores serve waiters in order, so no task is
\* overtaken for ever.
TasksFairness ==
  /\ \A t \in Tasks :
       /\ SF_taskVars(AcquireNode(t)) /\ SF_taskVars(AcquireMethod(t)) /\ SF_taskVars(AcquireGlobal(t))
       /\ WF_taskVars(Answered(t) \/ TimedOut(t)) /\ WF_taskVars(Backoff(t))
       /\ WF_taskVars(WriteOutcome(t))
  /\ WF_taskVars(JoinAll) /\ WF_taskVars(EndJob)

FairTasksSpec == TasksSpec /\ TasksFairness

----------------------------------------------------------------------------
(* Properties.                                                             *)

AdmittedTasks == {t \in Tasks : stage[t] # "none" \/ attempt[t] > 0}

\* However many transient failures there are, the attempts made and still
\* possible in a tick fit in what was reserved, and that in the budget.
AttemptsCovered ==
  LET spent == Budget - budget
  IN /\ spent <= Budget
     /\ rpcs <= spent * Len(Methods)
     /\ Cardinality(AdmittedTasks) * MaxTaskAttempts <= spent

\* A task goes to its next attempt only when no call of the last one succeeded.
RetryStep ==
  \A t \in Tasks : attempt'[t] = attempt[t] + 1 =>
    \A i \in DOMAIN audits[t] : ~audits[t][i].ok

\* An attempt in which some call succeeded is the task's last: "Partial success
\* is not replayed" (docs/adr/ADR-scheduler-retry-policy.md:32).
PartialNotReplayed == [][RetryStep]_taskVars

\* No task waits for ever behind the permits of another: the work of a job
\* comes to its end, stored or not.  It must, for the heartbeat would keep the
\* claim of a stuck job for ever.
JobEnds == phase = "executing" ~> phase \in {"between", "failed"}

\* docs/adr/ADR-scheduler-retry-policy.md:20: "Audit records from every
\* attempted RPC are retained and persisted with the terminal task outcome."
AttemptAuditsPersisted ==
  phase \in {"between", "failed"} => \A t \in Tasks : stored[t] = audits[t]

----------------------------------------------------------------------------
(* The inductive invariant behind AttemptsCovered and PartialNotReplayed.  *)

Working == {"node", "method", "global", "attempt", "backoff"}

TasksTypeOK ==
  /\ jobsLeft \in Nat /\ budget \in 0..Budget /\ rpcs \in Nat
  /\ phase \in {"between", "executing", "writing", "failed"}
  /\ stage \in [Tasks -> Working \cup {"none", "done"}]
  /\ attempt \in [Tasks -> 0..MaxTaskAttempts]
  /\ audits \in [Tasks -> Seq([method : Range(Methods), ok : BOOLEAN])]

\* The attempts that running tasks may still make.
AttemptsLeft ==
  {p \in Tasks \X (1..MaxTaskAttempts) : stage[p[1]] \in Working /\ attempt[p[1]] < p[2]}

\* Tasks work only while the job executes, no further than their last attempt
\* and only after attempts in which nothing succeeded.  What they may still do
\* is reserved besides what was done.
TasksInv ==
  /\ \A t \in Tasks : stage[t] \in Working =>
       /\ phase = "executing" /\ attempt[t] < MaxTaskAttempts
       /\ \A i \in DOMAIN audits[t] : ~audits[t][i].ok
  /\ phase = "between" => \A t \in Tasks : stage[t] = "none"
  /\ rpcs <= (Budget - budget - Cardinality(AttemptsLeft)) * Len(Methods)
  /\ AttemptsCovered
=============================================================================
