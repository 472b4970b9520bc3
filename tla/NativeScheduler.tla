-------------------------- MODULE NativeScheduler --------------------------
(***************************************************************************)
(* Scheduler claims and runs on the native Postgres store                  *)
(* (crates/ocfleet-cli/src/postgres_native.rs).  SchedulerClaims has the   *)
(* same tables on SQLite, where a store call is one step and the lease is  *)
(* compared with the caller's clock.  Here a call is a READ COMMITTED      *)
(* transaction that locks the job, claim and run rows one statement at a   *)
(* time, in an order of its own, and a lease is compared with the clock of *)
(* the database.                                                           *)
(*                                                                         *)
(* Callers are the owners of claims.  They never learn that a claim is     *)
(* lost, and may have several calls open at once (a heartbeat beside an    *)
(* outcome).  A call that is refused, a broken connection and the victim   *)
(* of a deadlock all roll back.  What a transaction writes becomes visible *)
(* when it commits; a row it has locked is as it was when it was locked.   *)
(*                                                                         *)
(* Of the timestamps a caller supplies only next_run_at is kept, computed  *)
(* from a clock that may be behind the database's; the order the store     *)
(* asks of the others (last_run_at, started_at, finished_at) can only      *)
(* refuse a call.                                                          *)
(***************************************************************************)
EXTENDS Integers, FiniteSets, Sequences

CONSTANTS
  ClaimSessions, \* connections
  SchedJobs, SchedOwners, SchedRuns,
  NoSched,
  SchedLease,    \* lease_seconds
  SchedInterval, \* from a finish to next_run_at
  MaxSchedClock, \* where the model stops the clock
  MaxClaims      \* claims of a job the model follows

ASSUME NativeSchedAssumption ==
  /\ NoSched \notin SchedRuns /\ NoSched \notin SchedOwners
  /\ NoSched \notin [owner : SchedOwners \cup {NoSched}, fence : Nat, lease : Nat \cup {NoSched},
                     run : SchedRuns \cup {NoSched}]
  /\ NoSched \notin [job : SchedJobs, by : Nat,
                     status : {"running", "skipped", "failed", "succeeded"},
                     obs : SUBSET BOOLEAN, recovered : BOOLEAN]
  /\ {SchedLease, SchedInterval, MaxSchedClock, MaxClaims} \subseteq Nat

VARIABLES
  schedNow,      \* clock_timestamp()
  schedJob,      \* observability_jobs
  jobClaim,      \* scheduler_job_claims
  schedRun,      \* observability_runs; by: the fence the run was started under
  issued,        \* claims returned to callers
  claimTx        \* session -> its transaction

schedVars == <<schedNow, schedJob, jobClaim, schedRun, issued, claimTx>>

IdleTx == [op |-> "none", job |-> NoSched, claim |-> NoSched, run |-> NoSched,
           now |-> 0, saw |-> NoSched, at |-> 1, held |-> {}]

NativeSchedInit ==
  /\ schedNow = 0
  /\ schedJob = [j \in SchedJobs |-> [enabled |-> TRUE, next |-> 0]]
  /\ jobClaim = [j \in SchedJobs |-> NoSched]
  /\ schedRun = [r \in SchedRuns |-> NoSched]
  /\ issued = {}
  /\ claimTx = [s \in ClaimSessions |-> IdleTx]

----------------------------------------------------------------------------
(* Rows and locks.                                                         *)

Holders(k) == {s \in ClaimSessions : k \in claimTx[s].held}
Lockable(s, k) == Holders(k) \subseteq {s}

\* Fault: the job is read without FOR UPDATE when a claim is acquired.
RowOrderUnlocked(op) ==
  CASE op \in {"claim", "claim_due"} -> <<"claim">>
    [] op = "start" -> <<"job", "claim">>
    [] op = "outcome" -> <<"claim", "job", "run">>
    [] op = "invalid" -> <<"claim", "job">>
    [] op = "finish" -> <<"job", "claim", "run">>
    [] op \in {"renew", "release"} -> <<"claim">>

\* The rows an operation locks, in the order of its statements: outcomes take
\* the claim before the job, everything else the job first.
RowOrder(op) ==
  CASE op \in {"claim", "claim_due", "start"} -> <<"job", "claim">>
    [] op = "outcome" -> <<"claim", "job", "run">>
    [] op = "invalid" -> <<"claim", "job">>
    [] op = "finish" -> <<"job", "claim", "run">>
    [] op \in {"renew", "release"} -> <<"claim">>

RowKey(x, table) == <<table, IF table = "run" THEN x.run ELSE x.job>>

\* The row a lock is taken on is there; FOR UPDATE locks nothing otherwise.
RowExists(x, table) ==
  CASE table = "job" -> TRUE
    [] table = "claim" -> jobClaim[x.job] # NoSched
    [] table = "run" -> schedRun[x.run] # NoSched

\* The claim row still names the caller's claim.
NamesClaim(x) ==
  LET c == jobClaim[x.job]
  IN c # NoSched /\ c.owner = x.claim.owner /\ c.fence = x.claim.fence

\* ensure_scheduler_job_claim_tx at instant t: alive, and bound to this run.
ClaimEnsured(x, run, t) ==
  NamesClaim(x) /\ jobClaim[x.job].run = run /\ jobClaim[x.job].lease > t

\* The run an operation expects in active_run_id when it locks the claim.
BoundBefore(x) == IF x.op \in {"outcome", "finish"} THEN x.run ELSE NoSched

----------------------------------------------------------------------------
(* Transactions.                                                           *)

\* claim_next_due_scheduler_job picks a due job whose row nobody has locked
\* (SKIP LOCKED) and that is not claimed; the rest is claim_due.
PicksDueJob(s, j, o) ==
  /\ Lockable(s, <<"job", j>>)
  /\ schedJob[j].enabled /\ schedJob[j].next <= schedNow
  /\ jobClaim[j] # NoSched /\ jobClaim[j].owner # NoSched => jobClaim[j].lease <= schedNow
  /\ claimTx[s] = IdleTx
  /\ claimTx' = [claimTx EXCEPT ![s] =
       [IdleTx EXCEPT !.op = "claim_due", !.job = j, !.claim = [owner |-> o, fence |-> 0],
                      !.at = 2, !.held = {<<"job", j>>}]]
  /\ UNCHANGED <<schedNow, schedJob, jobClaim, schedRun, issued>>

\* Transaction x locks its next row, once no other session holds it.  An
\* acquisition goes by the claim row and the clock it reads here.  An outcome,
\* a finish and the record of an unusable job go on only if the claim is
\* theirs and alive.
LocksRowOf(s, x) ==
  LET table == RowOrder(x.op)[x.at]
      key == RowKey(x, table)
      acquires == table = "claim" /\ x.op \in {"claim", "claim_due"}
  IN /\ x.at <= Len(RowOrder(x.op))
     /\ Lockable(s, key)
     /\ table = "claim" /\ x.op \in {"outcome", "invalid", "finish"}
          => ClaimEnsured(x, BoundBefore(x), schedNow)
     /\ claimTx' = [claimTx EXCEPT ![s] =
          [x EXCEPT !.at = @ + 1,
                    !.held = IF RowExists(x, table) THEN @ \cup {key} ELSE @,
                    !.now = IF acquires THEN schedNow ELSE @,
                    !.saw = IF acquires THEN jobClaim[x.job] ELSE @]]
     /\ UNCHANGED <<schedNow, schedJob, jobClaim, schedRun, issued>>

\* A call begins: it has its first row, or for renew and release the clock,
\* read in a CTE that is not read again when the UPDATE has waited.
BeginsCall(s, x) ==
  /\ claimTx[s] = IdleTx
  /\ IF x.op \in {"renew", "release"}
     THEN /\ claimTx' = [claimTx EXCEPT ![s] = [x EXCEPT !.now = schedNow]]
          /\ UNCHANGED <<schedNow, schedJob, jobClaim, schedRun, issued>>
     ELSE LocksRowOf(s, x)

LocksRow(s) == claimTx[s] # IdleTx /\ LocksRowOf(s, claimTx[s])

CallRollsBack(s) ==
  /\ claimTx[s] # IdleTx
  /\ claimTx' = [claimTx EXCEPT ![s] = IdleTx]
  /\ UNCHANGED <<schedNow, schedJob, jobClaim, schedRun, issued>>

AtCommit(s, ops) ==
  /\ claimTx[s].op \in ops
  /\ claimTx[s].at > Len(RowOrder(claimTx[s].op))
  /\ claimTx' = [claimTx EXCEPT ![s] = IdleTx]
  /\ UNCHANGED schedNow

\* recover_expired_scheduler_run_tx: the run row is locked too.
RecoverRun(s, r) ==
  IF r = NoSched \/ schedRun[r].status # "running" THEN UNCHANGED schedRun
  ELSE /\ Lockable(s, <<"run", r>>)
       /\ schedRun' = [schedRun EXCEPT ![r].status = "failed", ![r].recovered = TRUE]

\* acquire_scheduler_claim_tx from the clock reading on; INSERT ... ON CONFLICT
\* replaces the row whatever it has become.
AcquiresClaim(s) ==
  LET x == claimTx[s]
      j == x.job
      c == x.saw
      fence == IF c = NoSched THEN 1 ELSE c.fence + 1
  IN /\ AtCommit(s, {"claim", "claim_due"})
     /\ schedJob[j].enabled
     /\ x.op = "claim_due" => schedJob[j].next <= x.now
     /\ c # NoSched /\ c.owner # NoSched => c.lease <= x.now
     /\ fence <= MaxClaims
     /\ RecoverRun(s, IF c = NoSched THEN NoSched ELSE c.run)
     /\ jobClaim' = [jobClaim EXCEPT ![j] =
          [owner |-> x.claim.owner, fence |-> fence, lease |-> x.now + SchedLease, run |-> NoSched]]
     /\ issued' = issued \cup {[job |-> j, owner |-> x.claim.owner, fence |-> fence]}
     /\ UNCHANGED schedJob

\* renew_scheduler_job_claim
RenewsClaim(s) ==
  LET x == claimTx[s]
  IN /\ AtCommit(s, {"renew"})
     /\ NamesClaim(x) /\ jobClaim[x.job].lease > x.now
     /\ jobClaim' = [jobClaim EXCEPT ![x.job].lease = x.now + SchedLease]
     /\ UNCHANGED <<schedJob, schedRun, issued>>

\* release_scheduler_job_claim: refused while a run is bound to the claim.
ReleasesClaim(s) ==
  LET x == claimTx[s]
  IN /\ AtCommit(s, {"release"})
     /\ NamesClaim(x) /\ jobClaim[x.job].lease > x.now
     /\ jobClaim[x.job].run = NoSched
     /\ jobClaim' = [jobClaim EXCEPT ![x.job].owner = NoSched, ![x.job].lease = NoSched]
     /\ UNCHANGED <<schedJob, schedRun, issued>>

\* write_scheduler_claimed_run_start
StartsSchedRun(s) ==
  LET x == claimTx[s]
  IN /\ AtCommit(s, {"start"})
     /\ schedJob[x.job].enabled
     /\ schedRun[x.run] = NoSched
     /\ ClaimEnsured(x, NoSched, schedNow)
     /\ schedRun' = [schedRun EXCEPT ![x.run] =
          [job |-> x.job, by |-> x.claim.fence, status |-> "running", obs |-> {},
           recovered |-> FALSE]]
     /\ jobClaim' = [jobClaim EXCEPT ![x.job].run = x.run]
     /\ UNCHANGED <<schedJob, issued>>

\* write_scheduler_outcome of a run: the claim is checked again at the end.
WritesSchedOutcome(s) ==
  LET x == claimTx[s]
  IN /\ AtCommit(s, {"outcome"})
     /\ schedRun[x.run].status = "running"
     /\ ClaimEnsured(x, x.run, schedNow)
     /\ \E ok \in BOOLEAN : schedRun' = [schedRun EXCEPT ![x.run].obs = @ \cup {ok}]
     /\ UNCHANGED <<schedJob, jobClaim, issued>>

\* update_scheduler_job_clock_values_tx
SetsJobClock(j) ==
  \E t \in 0..schedNow : schedJob' = [schedJob EXCEPT ![j].next = t + SchedInterval]

\* write_scheduler_outcome without a run: the record of an unusable job.
RecordsInvalidJob(s) ==
  LET x == claimTx[s]
  IN /\ AtCommit(s, {"invalid"})
     /\ ClaimEnsured(x, NoSched, schedNow)
     /\ UNCHANGED schedJob \/ SetsJobClock(x.job)
     /\ UNCHANGED <<jobClaim, schedRun, issued>>

SchedStatus(obs) ==
  IF obs = {} THEN "skipped" ELSE IF FALSE \in obs THEN "failed" ELSE "succeeded"

\* write_scheduler_run_finish
FinishesSchedRun(s) ==
  LET x == claimTx[s]
      run == schedRun[x.run]
  IN /\ AtCommit(s, {"finish"})
     /\ run.status = "running"
     /\ ClaimEnsured(x, x.run, schedNow)
     /\ SetsJobClock(x.job)
     /\ schedRun' = [schedRun EXCEPT ![x.run].status = SchedStatus(run.obs)]
     /\ jobClaim' = [jobClaim EXCEPT ![x.job].run = NoSched]
     /\ UNCHANGED issued

\* set_observability_job_enabled locks one row and reads nothing else.
SetsJobEnabled(s, j) ==
  /\ Lockable(s, <<"job", j>>) /\ claimTx[s] = IdleTx
  /\ schedJob' = [schedJob EXCEPT ![j].enabled = ~@]
  /\ UNCHANGED <<schedNow, jobClaim, schedRun, issued, claimTx>>

SchedTick ==
  /\ schedNow < MaxSchedClock
  /\ schedNow' = schedNow + 1
  /\ UNCHANGED <<schedJob, jobClaim, schedRun, issued, claimTx>>

\* The calls there are: an owner names a claim it was given and a run it
\* started under it (or the one it is about to start).
SchedCall(op, job, claim, run) ==
  [IdleTx EXCEPT !.op = op, !.job = job, !.claim = claim, !.run = run]

OwnRuns(c) == {r \in SchedRuns : schedRun[r] # NoSched /\ schedRun[r].job = c.job
                                  /\ schedRun[r].by = c.fence}

SchedCalls ==
  {SchedCall(op, j, [owner |-> o, fence |-> 0], NoSched) :
     op \in {"claim", "claim_due"}, j \in SchedJobs, o \in SchedOwners}
  \cup {SchedCall(op, c.job, c, NoSched) : op \in {"renew", "release", "invalid"}, c \in issued}
  \cup {SchedCall("start", c.job, c, r) : c \in issued, r \in {q \in SchedRuns : schedRun[q] = NoSched}}
  \cup UNION {{SchedCall(op, c.job, c, r) : op \in {"outcome", "finish"}, r \in OwnRuns(c)} : c \in issued}

NativeSchedNext ==
  \/ SchedTick
  \/ \E s \in ClaimSessions :
       \/ \E x \in SchedCalls : BeginsCall(s, x)
       \/ \E j \in SchedJobs, o \in SchedOwners : PicksDueJob(s, j, o)
       \/ LocksRow(s) \/ CallRollsBack(s)
       \/ AcquiresClaim(s) \/ RenewsClaim(s) \/ ReleasesClaim(s)
       \/ StartsSchedRun(s) \/ WritesSchedOutcome(s) \/ RecordsInvalidJob(s)
       \/ FinishesSchedRun(s)
       \/ \E j \in SchedJobs : SetsJobEnabled(s, j)

NativeSchedSpec == NativeSchedInit /\ [][NativeSchedNext]_schedVars

----------------------------------------------------------------------------
(* Properties.                                                             *)

\* Whatever calls of owners that lost their claim interleave, statement by
\* statement, with takeovers: no fence is given out twice; a run that is still
\* running is the active run of the claim it was started under, so that a
\* takeover finds it and fails it (the native release refuses to leave it);
\* and a run that finished has the status its observations call for, none of
\* them stored after it finished.
NativeRunsOwned ==
  /\ \A a, b \in issued : a.job = b.job /\ a.fence = b.fence => a = b
  /\ \A r \in SchedRuns : schedRun[r] # NoSched =>
       LET run == schedRun[r]
           c == jobClaim[run.job]
       IN IF run.status = "running"
          THEN c.run = r /\ c.fence = run.by
          ELSE c.run # r /\ (~run.recovered => run.status = SchedStatus(run.obs))

----------------------------------------------------------------------------
(* The inductive invariant behind NativeRunsOwned.                         *)

SchedOps == {"claim", "claim_due", "start", "outcome", "invalid", "finish", "renew", "release"}

\* The tables, and the rows a session may lock.
SchedJobRow == [enabled : BOOLEAN, next : Nat]

JobClaimRow ==
  [owner : SchedOwners \cup {NoSched}, fence : Nat, lease : Nat \cup {NoSched},
   run : SchedRuns \cup {NoSched}]

SchedRunRow ==
  [job : SchedJobs, by : Nat, status : {"running", "skipped", "failed", "succeeded"},
   obs : SUBSET BOOLEAN, recovered : BOOLEAN]

SchedKeys == ({"job", "claim"} \X SchedJobs) \cup ({"run"} \X SchedRuns)

ClaimTxRow ==
  [op : SchedOps, job : SchedJobs,
   claim : [owner : SchedOwners, fence : {0}] \cup [job : SchedJobs, owner : SchedOwners, fence : Nat],
   run : SchedRuns \cup {NoSched}, now : Nat, saw : JobClaimRow \cup {NoSched},
   at : 1..4, held : SUBSET SchedKeys]

NativeSchedTypeOK ==
  /\ schedNow \in Nat
  /\ schedJob \in [SchedJobs -> SchedJobRow]
  /\ jobClaim \in [SchedJobs -> JobClaimRow \cup {NoSched}]
  /\ schedRun \in [SchedRuns -> SchedRunRow \cup {NoSched}]
  /\ issued \subseteq [job : SchedJobs, owner : SchedOwners, fence : Nat]
  /\ claimTx \in [ClaimSessions -> ClaimTxRow \cup {IdleTx}]

\* Acquisitions bring a new claim; any other call names one that was issued,
\* and those for a run name the run.
CallNamed(x) ==
  IF x.op \in {"claim", "claim_due"} THEN x.claim \in [owner : SchedOwners, fence : {0}]
  ELSE /\ x.claim \in issued /\ x.claim.job = x.job
       /\ x.op \in {"start", "outcome", "finish"} => x.run \in SchedRuns

\* A transaction has the rows of the statements behind it, and what an
\* acquisition saw of the claim is still the claim.
RowsTaken(x) ==
  /\ x.op \in {"claim", "claim_due", "start", "finish"} /\ x.at > 1 => <<"job", x.job>> \in x.held
  /\ x.op \in {"renew", "release"} /\ x.at > 1 => <<"claim", x.job>> \in x.held
  /\ x.op \in {"claim", "claim_due"} /\ x.at > 2 =>
       /\ x.saw = jobClaim[x.job]
       /\ x.saw # NoSched => <<"claim", x.job>> \in x.held

CallsLocked ==
  \A s \in ClaimSessions : claimTx[s] # IdleTx => CallNamed(claimTx[s]) /\ RowsTaken(claimTx[s])

\* No two transactions hold the same row.
LocksExclusive ==
  \A s, t \in ClaimSessions : claimTx[s].held \cap claimTx[t].held # {} => s = t

\* The claim row of a job has the last fence given out for it.
FencesIssued ==
  \A c \in issued : jobClaim[c.job] # NoSched /\ c.fence <= jobClaim[c.job].fence

\* The run a claim is bound to is a run of its job; a run has a claim row.
RunsBound ==
  /\ \A j \in SchedJobs : jobClaim[j] # NoSched /\ jobClaim[j].run # NoSched =>
       schedRun[jobClaim[j].run] # NoSched /\ schedRun[jobClaim[j].run].job = j
  /\ \A r \in SchedRuns : schedRun[r] # NoSched => jobClaim[schedRun[r].job] # NoSched

NativeSchedInv ==
  /\ CallsLocked /\ LocksExclusive /\ FencesIssued /\ RunsBound /\ NativeRunsOwned
============================================================================
