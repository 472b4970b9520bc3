-------------------------- MODULE SchedulerClaims --------------------------
(***************************************************************************)
(* Scheduler processes that share one database: leased, fenced claims on   *)
(* jobs, the runs started under them, and the job clocks                   *)
(* (crates/ocfleet-cli/src/scheduler.rs and the scheduler part of          *)
(* store.rs).                                                              *)
(*                                                                         *)
(* A worker is one process, with the owner id it drew when it started; a   *)
(* restarted scheduler is another worker.  Each store call is one          *)
(* transaction, but the timestamp it carries is read before: a step uses   *)
(* some instant between the worker's previous step and now.  Instants are  *)
(* half seconds, enough for the two ways the store compares them: parsed,  *)
(* and as RFC 3339 text.                                                   *)
(*                                                                         *)
(* What a run observed is kept as the set of "ok" flags of its             *)
(* observations, all that the terminal status is computed from.  The RPC   *)
(* work of a run is the module SchedulerTasks.                             *)
(***************************************************************************)
EXTENDS Integers, FiniteSets

CONSTANTS
  Jobs,          \* observability jobs; a job's definition never changes
  Workers, Runs, None,
  Lease,         \* SCHEDULER_LEASE_SECONDS, in half seconds
  Interval,      \* interval_seconds of every job, in half seconds
  MaxJitter,     \* jitter_seconds
  MaxTime,       \* where the model stops the clock
  MaxFence       \* how many claims of a job the model follows

VARIABLES
  now,
  jobs,         \* job -> [enabled, usable, next_run_at, last_run_at]; usable: the
                \* job can be read back and prepared
  claims,       \* job -> [owner, fence, lease, active_run], or None
  runs,         \* run -> [job, status, started_at, finished_at, obs], or None
  maintenance,  \* the maintenance window covers the present instant
  pc,           \* worker -> where its scheduler loop is; "abandon": an error made
                \* it release its claim and leave the process
  todo,         \* worker -> jobs of its tick it has still to visit
  task,         \* worker -> [job, fence, run, due], or None; due: the claim was
                \* taken because the job was due, not by run --job-id
  since,        \* worker -> earliest instant its next step can have read
  shutdown      \* worker -> it admits no further job

vars == <<now, jobs, claims, runs, maintenance, pc, todo, task, since, shutdown>>

JobRow ==
  [enabled : BOOLEAN, usable : BOOLEAN, next_run_at : Nat, last_run_at : Nat \cup {None}]

ClaimRow ==
  [owner : Workers \cup {None}, fence : Nat, lease : Nat \cup {None}, active_run : Runs \cup {None}]

RunRow ==
  [job : Jobs, status : {"running", "succeeded", "failed", "skipped"},
   started_at : Nat, finished_at : Nat \cup {None}, obs : SUBSET BOOLEAN]

Task == [job : Jobs, fence : Nat, run : Runs \cup {None}, due : BOOLEAN]

\* NULL is apart from every name, instant and row.
ASSUME SchedulerConstants ==
  /\ None \notin Jobs \cup Workers \cup Runs
  /\ None \notin Nat /\ None \notin ClaimRow /\ None \notin RunRow /\ None \notin Task
  /\ Lease \in Nat /\ Lease > 0 /\ Lease % 2 = 0
  /\ Interval \in Nat /\ Interval > 0
  /\ MaxJitter \in Nat /\ MaxTime \in Nat /\ MaxFence \in Nat

----------------------------------------------------------------------------
(* Timestamps.                                                             *)

\* The instants a worker may have read for the step it takes now.
Readings(w) == since[w]..now

\* a > b on the text offset_to_rfc3339 formats: seconds come first, then a
\* fraction, printed only if it is not zero, and "." sorts before "Z".
TextKey(t) == 2 * (t \div 2) + (1 - (t % 2))
TextLater(a, b) == TextKey(a) > TextKey(b)

Due(j, t) == jobs[j].next_run_at <= t

----------------------------------------------------------------------------
(* The claim operations of the store.                                      *)

Claimed(j) == claims[j] # None /\ claims[j].owner # None

\* Fault: trusts the job list of the tick for what is due.
AcquirableFromStaleList(j, t, require_due) ==
  jobs[j].enabled /\ (Claimed(j) => claims[j].lease <= t)

\* acquire_scheduler_claim_tx succeeds at instant t.
Acquirable(j, t, require_due) ==
  /\ jobs[j].enabled
  /\ require_due => Due(j, t)
  /\ Claimed(j) => claims[j].lease <= t

NextFence(j) == IF claims[j] = None THEN 1 ELSE claims[j].fence + 1

\* Fault: the takeover leaves the previous owner's run in active_run_id.
AcquiredKeepingRun(w, j, t) ==
  [owner |-> w, fence |-> NextFence(j), lease |-> t + Lease,
   active_run |-> IF claims[j] = None THEN None ELSE claims[j].active_run]

AcquiredClaim(w, j, t) ==
  [owner |-> w, fence |-> NextFence(j), lease |-> t + Lease, active_run |-> None]

\* recover_expired_scheduler_run_tx on the run the expired claim points at.
MaxOf(a, b) == IF a >= b THEN a ELSE b

\* Fault: stamps the recovered run with the end of the new lease.
RecoveredAtLeaseEnd(j, t) ==
  [r \in Runs |->
     IF claims[j] # None /\ claims[j].active_run = r /\ runs[r].status = "running"
     THEN [runs[r] EXCEPT !.status = "failed", !.finished_at = t + Lease]
     ELSE runs[r]]

RecoveredRuns(j, t) ==
  [r \in Runs |->
     IF claims[j] # None /\ claims[j].active_run = r /\ runs[r].status = "running"
     THEN [runs[r] EXCEPT !.status = "failed", !.finished_at = MaxOf(t, runs[r].started_at)]
     ELSE runs[r]]

\* The owner and fence condition of renew, release and run start.
HoldsClaim(w) ==
  LET c == claims[task[w].job]
  IN c # None /\ c.owner = w /\ c.fence = task[w].fence

\* ensure_active_scheduler_run_claim_tx
ActiveRunClaim(w, t) ==
  LET c == claims[task[w].job]
  IN c = None \/ (c.owner # None /\ c.active_run = task[w].run /\ c.lease > t)

\* update_scheduler_job_clock_tx accepts (next, last).
ClockAdvances(j, next, last) ==
  jobs[j].last_run_at # None =>
    /\ jobs[j].last_run_at <= last
    /\ jobs[j].last_run_at = last => jobs[j].next_run_at <= next

ClockSet(j, next, last) ==
  [jobs EXCEPT ![j].next_run_at = next, ![j].last_run_at = last]

\* The next_run_at scheduler_job_clock computes for work that ended at t.
NextRunAt(t, jitter) == t + Interval + jitter

----------------------------------------------------------------------------
(* The scheduler loop.                                                     *)


At(w, place) == pc[w] = place

\* Places whose next step stamps what it stores.
Timed == {"tick", "target", "claimed", "running", "writing"}

Goto(w, place) ==
  /\ pc' = [pc EXCEPT ![w] = place]
  /\ since' = [since EXCEPT ![w] = IF place \in Timed THEN now ELSE 0]

Env == <<now, maintenance>>

Init ==
  /\ now = 0
  /\ jobs \in [Jobs -> {[enabled |-> TRUE, usable |-> u, next_run_at |-> 0, last_run_at |-> None] :
                          u \in BOOLEAN}]
  /\ claims = [j \in Jobs |-> None]
  /\ runs = [r \in Runs |-> None]
  /\ maintenance = FALSE
  /\ pc = [w \in Workers |-> "new"]
  /\ todo = [w \in Workers |-> {}]
  /\ task = [w \in Workers |-> None]
  /\ since = [w \in Workers |-> 0]
  /\ shutdown = [w \in Workers |-> FALSE]

\* A tick lists the jobs, reads the clock and looks at the maintenance window
\* once; in a window it only writes an audit event.
StartTick(w) ==
  /\ pc[w] \in {"new", "idle"}
  /\ todo' = [todo EXCEPT ![w] =
       IF maintenance THEN {} ELSE {j \in Jobs : jobs[j].enabled /\ Due(j, now)}]
  /\ Goto(w, "tick")
  /\ UNCHANGED <<Env, jobs, claims, runs, task, shutdown>>

EndTick(w) ==
  /\ At(w, "tick")
  /\ todo[w] = {} \/ shutdown[w]
  /\ todo' = [todo EXCEPT ![w] = {}]
  /\ Goto(w, IF shutdown[w] THEN "stopped" ELSE "idle")
  /\ UNCHANGED <<Env, jobs, claims, runs, task, shutdown>>

\* The checks of run_target_job_once before it claims.
StartTarget(w, j) ==
  /\ At(w, "new")
  /\ jobs[j].enabled /\ ~maintenance /\ jobs[j].usable
  /\ todo' = [todo EXCEPT ![w] = {j}]
  /\ Goto(w, "target")
  /\ UNCHANGED <<Env, jobs, claims, runs, task, shutdown>>

Acquire(w, j, t, due) ==
  /\ claims' = [claims EXCEPT ![j] = AcquiredClaim(w, j, t)]
  /\ runs' = RecoveredRuns(j, t)
  /\ task' = [task EXCEPT ![w] =
       [job |-> j, fence |-> NextFence(j), run |-> None, due |-> due]]
  /\ Goto(w, "claimed")

\* try_claim_due_job: the job was due in the snapshot, and must be due still.
ClaimDue(w, j) ==
  /\ At(w, "tick") /\ ~shutdown[w] /\ j \in todo[w]
  /\ NextFence(j) <= MaxFence
  /\ todo' = [todo EXCEPT ![w] = @ \ {j}]
  /\ \E t \in Readings(w) :
       \/ Acquirable(j, t, TRUE) /\ Acquire(w, j, t, TRUE)
       \/ ~Acquirable(j, t, TRUE) /\ Goto(w, "tick") /\ UNCHANGED <<claims, runs, task>>
  /\ UNCHANGED <<Env, jobs, shutdown>>

ClaimTarget(w, j) ==
  /\ At(w, "target") /\ j \in todo[w]
  /\ NextFence(j) <= MaxFence
  /\ todo' = [todo EXCEPT ![w] = {}]
  /\ \E t \in Readings(w) :
       \/ Acquirable(j, t, FALSE) /\ Acquire(w, j, t, FALSE)
       \/ ~Acquirable(j, t, FALSE) /\ Goto(w, "stopped") /\ UNCHANGED <<claims, runs, task>>
  /\ UNCHANGED <<Env, jobs, shutdown>>

InvalidClock(w) ==
  \E t \in Readings(w), jitter \in 0..MaxJitter :
    LET j == task[w].job IN
    \/ /\ ClockAdvances(j, NextRunAt(t, jitter), t)
       /\ jobs' = ClockSet(j, NextRunAt(t, jitter), t)
       /\ Goto(w, "release")
    \/ /\ ~ClockAdvances(j, NextRunAt(t, jitter), t)
       /\ Goto(w, "abandon")
       /\ UNCHANGED jobs

\* An unusable job gets one failed observation outside any run, and a new
\* clock; if it is the stored row that cannot be read, the clock stays.
RecordInvalid(w) ==
  /\ At(w, "claimed") /\ ~jobs[task[w].job].usable
  /\ \/ Goto(w, "release") /\ UNCHANGED jobs
     \/ InvalidClock(w)
  /\ UNCHANGED <<Env, claims, runs, todo, task, shutdown>>

StartAllowed(w, t) ==
  LET c == claims[task[w].job]
  IN /\ jobs[task[w].job].enabled
     /\ HoldsClaim(w) /\ c.active_run = None /\ TextLater(c.lease, t)

StartRun(w, r) ==
  /\ At(w, "claimed") /\ jobs[task[w].job].usable
  /\ runs[r] = None
  /\ \E t \in Readings(w) :
       \/ /\ StartAllowed(w, t)
          /\ runs' = [runs EXCEPT ![r] =
               [job |-> task[w].job, status |-> "running", started_at |-> t,
                finished_at |-> None, obs |-> {}]]
          /\ claims' = [claims EXCEPT ![task[w].job].active_run = r]
          /\ task' = [task EXCEPT ![w].run = r]
          /\ Goto(w, "running")
       \/ /\ ~StartAllowed(w, t)
          /\ Goto(w, "abandon")
          /\ UNCHANGED <<runs, claims, task>>
  /\ UNCHANGED <<Env, jobs, todo, shutdown>>

\* The heartbeat, which stops the execution when the claim is lost.
Renew(w) ==
  /\ At(w, "running")
  /\ \E t \in Readings(w) :
       LET live == HoldsClaim(w) /\ TextLater(claims[task[w].job].lease, t) IN
       \/ /\ live
          /\ claims' = [claims EXCEPT ![task[w].job].lease = t + Lease]
          /\ Goto(w, "running")
       \/ ~live /\ Goto(w, "abandon") /\ UNCHANGED claims
  /\ UNCHANGED <<Env, jobs, runs, todo, task, shutdown>>

\* One task outcome, stamped when it is about to be stored.
WriteOutcome(w, ok) ==
  /\ pc[w] \in {"running", "writing"}
  /\ \E t \in Readings(w) :
       LET r == task[w].run
           accepted == ActiveRunClaim(w, t) /\ runs[r].status = "running" IN
       \/ /\ accepted
          /\ runs' = [runs EXCEPT ![r].obs = @ \cup {ok}]
          /\ Goto(w, "writing")
       \/ ~accepted /\ Goto(w, "abandon") /\ UNCHANGED runs
  /\ UNCHANGED <<Env, jobs, claims, todo, task, shutdown>>

FinalStatus(obs) ==
  IF obs = {} THEN "skipped" ELSE IF FALSE \in obs THEN "failed" ELSE "succeeded"

\* Fault: the finish checks neither the claim nor the run's status.
FinishUnfenced(w, t, next) ==
  t >= runs[task[w].run].started_at /\ ClockAdvances(task[w].job, next, t)

FinishAllowed(w, t, next) ==
  /\ runs[task[w].run].status = "running"
  /\ ActiveRunClaim(w, t)
  /\ t >= runs[task[w].run].started_at
  /\ ClockAdvances(task[w].job, next, t)

FinishRun(w) ==
  /\ At(w, "writing")
  /\ \E t \in Readings(w), jitter \in 0..MaxJitter :
       LET r == task[w].run
           j == task[w].job
           next == NextRunAt(t, jitter) IN
       \/ /\ FinishAllowed(w, t, next)
          /\ runs' = [runs EXCEPT ![r].status = FinalStatus(runs[r].obs), ![r].finished_at = t]
          /\ jobs' = ClockSet(j, next, t)
          /\ claims' = [claims EXCEPT ![j].active_run = None]
          /\ Goto(w, "release")
       \/ /\ ~FinishAllowed(w, t, next)
          /\ Goto(w, "abandon")
          /\ UNCHANGED <<runs, jobs, claims>>
  /\ UNCHANGED <<Env, todo, task, shutdown>>

\* Any other error: a failed audit or store call, a node that cannot be loaded,
\* audits left over after the outcomes are matched (see SchedulerTasks).
WorkFails(w) ==
  /\ pc[w] \in {"claimed", "running", "writing"}
  /\ Goto(w, "abandon")
  /\ UNCHANGED <<Env, jobs, claims, runs, todo, task, shutdown>>

ReleasedClaim(c) == [owner |-> None, fence |-> c.fence, lease |-> None, active_run |-> None]

\* The claim is released whatever became of the job; an error of either ends
\* the process.
Release(w) ==
  /\ pc[w] \in {"release", "abandon"}
  /\ \/ /\ HoldsClaim(w)
        /\ claims' = [claims EXCEPT ![task[w].job] = ReleasedClaim(@)]
        /\ Goto(w, IF At(w, "release") /\ task[w].due THEN "tick" ELSE "stopped")
     \/ ~HoldsClaim(w) /\ Goto(w, "stopped") /\ UNCHANGED claims
  /\ task' = [task EXCEPT ![w] = None]
  /\ UNCHANGED <<Env, jobs, runs, todo, shutdown>>

\* SIGTERM: no further job is admitted, the one in hand is drained.
Shutdown(w) ==
  /\ pc[w] # "stopped" /\ ~shutdown[w]
  /\ shutdown' = [shutdown EXCEPT ![w] = TRUE]
  /\ pc' = [pc EXCEPT ![w] = IF @ \in {"new", "idle"} THEN "stopped" ELSE @]
  /\ UNCHANGED <<Env, jobs, claims, runs, todo, task, since>>

\* The process dies; only the database survives it.
Crash(w) ==
  /\ pc[w] # "stopped"
  /\ Goto(w, "stopped")
  /\ todo' = [todo EXCEPT ![w] = {}]
  /\ shutdown' = [shutdown EXCEPT ![w] = TRUE]
  /\ UNCHANGED <<Env, jobs, claims, runs, task>>

AdvanceTime ==
  /\ now < MaxTime
  /\ now' = now + 1
  /\ UNCHANGED <<jobs, claims, runs, maintenance, pc, todo, task, since, shutdown>>

\* set_observability_job_enabled
SetEnabled(j, enabled) ==
  /\ jobs[j].enabled # enabled
  /\ jobs' = [jobs EXCEPT ![j].enabled = enabled]
  /\ UNCHANGED <<Env, claims, runs, pc, todo, task, since, shutdown>>

\* The window is set or cleared, or time enters or leaves it.
ToggleMaintenance ==
  /\ maintenance' = ~maintenance
  /\ UNCHANGED <<now, jobs, claims, runs, pc, todo, task, since, shutdown>>

WorkerStep(w) ==
  \/ StartTick(w) \/ EndTick(w)
  \/ \E j \in Jobs : StartTarget(w, j) \/ ClaimDue(w, j) \/ ClaimTarget(w, j)
  \/ RecordInvalid(w)
  \/ \E r \in Runs : StartRun(w, r)
  \/ Renew(w)
  \/ \E ok \in BOOLEAN : WriteOutcome(w, ok)
  \/ FinishRun(w) \/ Release(w)

Next ==
  \/ \E w \in Workers : WorkerStep(w) \/ WorkFails(w) \/ Shutdown(w) \/ Crash(w)
  \/ \E j \in Jobs, enabled \in BOOLEAN : SetEnabled(j, enabled)
  \/ AdvanceTime \/ ToggleMaintenance

Spec == Init /\ [][Next]_vars

----------------------------------------------------------------------------
(* Properties.                                                             *)

\* Worker w, as it knows itself, is the current holder of job j's claim.
Holder(w, j) ==
  /\ task[w] # None /\ task[w].job = j
  /\ claims[j] # None /\ claims[j].owner = w /\ claims[j].fence = task[w].fence

\* active_run_id binds a claim to a run of its own job that is still running
\* and that the claim's current holder started: neither a takeover nor a
\* release leaves a claim pointing at somebody else's run.
ActiveRunBound ==
  \A j \in Jobs : claims[j] # None /\ claims[j].active_run # None =>
    LET r == claims[j].active_run IN
    /\ runs[r] # None /\ runs[r].job = j /\ runs[r].status = "running"
    /\ \E w \in Workers : Holder(w, j) /\ task[w].run = r

\* A claim passes to another process only when its lease has run out or its
\* holder gave it up, every change of hands raises the fence, and only the
\* holder of the current fence changes a run, never a finished one; the
\* takeover of an expired claim may fail the run, and keeps its observations.
\* write_scheduler_outcome and write_scheduler_run_finish compare neither owner
\* nor fence, so this rests on ActiveRunBound.
FencedStep ==
  /\ \A j \in Jobs : claims[j] # None =>
       /\ claims'[j].fence >= claims[j].fence
       /\ claims'[j].owner \notin {None, claims[j].owner} =>
            /\ claims'[j].fence > claims[j].fence
            /\ claims[j].owner # None => claims[j].lease <= now
  /\ \A r \in Runs : runs[r] # None /\ runs'[r] # runs[r] =>
       LET j == runs[r].job IN
       /\ runs[r].status = "running"
       /\ IF claims'[j].fence = claims[j].fence
          THEN \E w \in Workers : Holder(w, j) /\ task[w].run = r
          ELSE /\ claims[j].lease <= now
               /\ runs'[r].status = "failed" /\ runs'[r].obs = runs[r].obs

\* The claims are fenced in this sense in every step.
StaleOwnerHarmless == [][FencedStep]_vars

\* The finished runs of a job follow one another: started_at and finished_at of
\* two of them never overlap, although each is stamped before it is stored and
\* a takeover stamps the run of another process.
RunsSerial ==
  \A r, s \in Runs :
    (/\ r # s /\ runs[r] # None /\ runs[s] # None
     /\ runs[r].job = runs[s].job
     /\ runs[r].finished_at # None /\ runs[s].finished_at # None)
    => runs[r].finished_at <= runs[s].started_at \/ runs[s].finished_at <= runs[r].started_at

\* A scheduled run of a job starts no sooner than one interval after the last
\* one that reached its end, even when it was picked from a stale job list, and
\* the job's clock never runs backwards and leaves a whole interval to the next
\* run, also where the writer's claim is not checked: the outcome of an unusable
\* job is stored outside any run.
SpacedStep ==
  /\ \A w \in Workers : At(w, "claimed") /\ pc'[w] = "running" /\ task[w].due =>
       LET j == task[w].job IN
       jobs[j].last_run_at # None =>
         runs'[task'[w].run].started_at >= jobs[j].last_run_at + Interval
  /\ \A j \in Jobs : jobs'[j].last_run_at # jobs[j].last_run_at =>
       /\ jobs[j].last_run_at # None => jobs'[j].last_run_at > jobs[j].last_run_at
       /\ jobs'[j].next_run_at >= jobs'[j].last_run_at + Interval

\* The runs of a job are spaced in this sense in every step.
DueSpacing == [][SpacedStep]_vars

\* The tables hold well-formed rows and every loop is at one of its places.
TypeOK ==
  /\ now \in Nat /\ maintenance \in BOOLEAN
  /\ jobs \in [Jobs -> JobRow]
  /\ claims \in [Jobs -> ClaimRow \cup {None}]
  /\ runs \in [Runs -> RunRow \cup {None}]
  /\ pc \in [Workers -> {"new", "idle", "tick", "target", "claimed", "running", "writing",
                          "release", "abandon", "stopped"}]
  /\ todo \in [Workers -> SUBSET Jobs]
  /\ task \in [Workers -> Task \cup {None}]
  /\ since \in [Workers -> Nat]
  /\ shutdown \in [Workers -> BOOLEAN]

\* The inductive form of the properties above.  Of claims: whoever a claim
\* names as its owner knows it, by job and fence, and a loop has a task exactly
\* where it works on one.
OwnersHold ==
  \A j \in Jobs : claims[j] # None =>
    IF claims[j].owner = None THEN claims[j].active_run = None
    ELSE claims[j].lease # None /\ Holder(claims[j].owner, j)

TasksPlaced ==
  \A w \in Workers :
    /\ pc[w] \in {"new", "idle", "tick", "target"} => task[w] = None
    /\ pc[w] \in {"claimed", "running", "writing", "release", "abandon"} => task[w] # None
    /\ pc[w] = "claimed" => task[w].run = None
    /\ pc[w] \in {"running", "writing"} => task[w].run # None
    /\ task[w] # None => claims[task[w].job] # None

\* Of runs: stamps are never ahead of the clock, and the runs of a job that have
\* finished did so before its active run started, and before the holder of its
\* claim reads the clock to start one.
StampsPast ==
  /\ \A w \in Workers : since[w] <= now
  /\ \A r \in Runs : runs[r] # None =>
       /\ runs[r].started_at <= now
       /\ runs[r].status = "running" <=> runs[r].finished_at = None
       /\ runs[r].finished_at # None => runs[r].finished_at <= now

FinishedBefore ==
  \A r \in Runs : runs[r] # None /\ runs[r].finished_at # None =>
    LET c == claims[runs[r].job] IN
    /\ c # None /\ c.active_run # None => runs[r].finished_at <= runs[c.active_run].started_at
    /\ \A w \in Workers : pc[w] = "claimed" /\ Holder(w, runs[r].job) =>
         runs[r].finished_at <= since[w]

\* Of job clocks: next_run_at is an interval after last_run_at, and the holder of
\* a claim taken because the job was due reads the clock after that.
ClockSpaced ==
  \A j \in Jobs : jobs[j].last_run_at # None =>
    jobs[j].next_run_at >= jobs[j].last_run_at + Interval

DueHeld ==
  \A w \in Workers, j \in Jobs :
    /\ pc[w] = "claimed" /\ Holder(w, j) /\ task[w].due
    /\ jobs[j].usable /\ jobs[j].last_run_at # None
    => jobs[j].last_run_at + Interval <= since[w]

ClaimsInv ==
  /\ OwnersHold /\ TasksPlaced /\ ActiveRunBound
  /\ StampsPast /\ FinishedBefore /\ RunsSerial
  /\ ClockSpaced /\ DueHeld

\* docs/backend.md: "Production scheduler paths acquire before starting work
\* and release after terminal persistence": a run that is still running is the
\* active run of a claim, so that an expired takeover can fail it.
ReleasedAfterTerminal ==
  \A r \in Runs : runs[r] # None /\ runs[r].status = "running" =>
    claims[runs[r].job] # None /\ claims[runs[r].job].active_run = r
============================================================================
