--------------------------- MODULE SchedulerProofs ---------------------------
(***************************************************************************)
(* Proofs about the scheduler's claims and runs: on the SQLite store, for  *)
(* any jobs, workers, runs, lease, interval and jitter, and on the native  *)
(* store, for any number of sessions, jobs, owners and runs.               *)
(*                                                                         *)
(* On the native store the argument is that of the row locks.  An          *)
(* acquisition replaces the claim row by what it computed from the row it  *)
(* saw; it is the row that is there, because every other writer of the     *)
(* claim needs the job's row or the claim's, and both are locked.          *)
(***************************************************************************)
EXTENDS SchedulerClaims, NativeScheduler, TLAPS

----------------------------------------------------------------------------
(* The rows the operations write are well formed.                          *)

Places == {"new", "idle", "tick", "target", "claimed", "running", "writing",
           "release", "abandon", "stopped"}

\* Where a step leaves a worker, and what it knows of the clock there.
LEMMA GotoFacts ==
  ASSUME TypeOK, NEW w \in Workers, NEW place \in Places, Goto(w, place)
  PROVE  /\ pc' \in [Workers -> Places] /\ since' \in [Workers -> Nat]
         /\ pc'[w] = place /\ since'[w] \in {0, now}
         /\ place \in Timed => since'[w] = now
         /\ \A v \in Workers : v # w => pc'[v] = pc[v] /\ since'[v] = since[v]
BY Zenon DEF Goto, TypeOK, Places

\* Fences are numbers, and the one a takeover draws is the next.
LEMMA FenceType ==
  ASSUME TypeOK, NEW j \in Jobs
  PROVE  NextFence(j) \in Nat
BY DEF NextFence, TypeOK, ClaimRow

\* The instant a step carries was read since the worker's previous step.
LEMMA ReadingType ==
  ASSUME TypeOK, NEW w \in Workers, NEW t \in Readings(w)
  PROVE  t \in Nat /\ since[w] <= t /\ t <= now
BY DEF Readings, TypeOK

\* What a takeover does to the runs.
LEMMA RecoveredFacts ==
  ASSUME TypeOK, NEW j \in Jobs, NEW t \in Nat, NEW r \in Runs
  PROVE  LET row == RecoveredRuns(j, t)[r]
             expired == /\ claims[j] # None /\ claims[j].active_run = r
                        /\ runs[r].status = "running"
         IN /\ ~expired => row = runs[r]
            /\ runs[r] # None /\ expired =>
                 /\ row \in RunRow /\ row.job = runs[r].job /\ row.status = "failed"
                 /\ row.started_at = runs[r].started_at /\ row.obs = runs[r].obs
                 /\ row.finished_at = MaxOf(t, runs[r].started_at)
<1> DEFINE new == [runs[r] EXCEPT !.status = "failed", !.finished_at = MaxOf(t, runs[r].started_at)]
<1>1. runs[r] # None =>
        /\ new \in RunRow /\ new.job = runs[r].job /\ new.status = "failed"
        /\ new.started_at = runs[r].started_at /\ new.obs = runs[r].obs
        /\ new.finished_at = MaxOf(t, runs[r].started_at)
  <2> SUFFICES ASSUME runs[r] # None
               PROVE  /\ new \in RunRow /\ new.job = runs[r].job /\ new.status = "failed"
                      /\ new.started_at = runs[r].started_at /\ new.obs = runs[r].obs
                      /\ new.finished_at = MaxOf(t, runs[r].started_at)
    BY Zenon
  <2>1. runs[r] \in RunRow
    BY Zenon DEF TypeOK
  <2>2. MaxOf(t, runs[r].started_at) \in Nat
    BY <2>1, Zenon DEF MaxOf, RunRow
  <2> QED
    BY <2>1, <2>2, Zenon DEF RunRow
<1>2. RecoveredRuns(j, t)[r] =
        IF claims[j] # None /\ claims[j].active_run = r /\ runs[r].status = "running"
        THEN new ELSE runs[r]
  BY Zenon DEF RecoveredRuns
<1> QED
  BY <1>1, <1>2, Zenon

\* The claim an operation rewrites.
LEMMA ClaimRowFacts ==
  ASSUME TypeOK, NEW j \in Jobs, claims[j] # None
  PROVE  /\ \A r \in Runs \cup {None} :
              LET c == [claims[j] EXCEPT !.active_run = r]
              IN /\ c \in ClaimRow /\ c.owner = claims[j].owner /\ c.fence = claims[j].fence
                 /\ c.lease = claims[j].lease /\ c.active_run = r
         /\ \A t \in Nat :
              LET c == [claims[j] EXCEPT !.lease = t]
              IN /\ c \in ClaimRow /\ c.owner = claims[j].owner /\ c.fence = claims[j].fence
                 /\ c.lease = t /\ c.active_run = claims[j].active_run
         /\ LET c == ReleasedClaim(claims[j])
            IN /\ c \in ClaimRow /\ c.owner = None /\ c.fence = claims[j].fence
               /\ c.active_run = None
<1>1. claims[j] \in ClaimRow
  BY Zenon DEF TypeOK
<1> QED
  BY <1>1, Zenon DEF ClaimRow, ReleasedClaim

\* The clock a job is given.
LEMMA ClockSetFacts ==
  ASSUME TypeOK, NEW j \in Jobs, NEW n \in Nat, NEW t \in Nat
  PROVE  /\ ClockSet(j, n, t) \in [Jobs -> JobRow]
         /\ ClockSet(j, n, t)[j].next_run_at = n /\ ClockSet(j, n, t)[j].last_run_at = t
         /\ ClockSet(j, n, t)[j].usable = jobs[j].usable
         /\ \A i \in Jobs : i # j => ClockSet(j, n, t)[i] = jobs[i]
<1> DEFINE row == [jobs[j] EXCEPT !.next_run_at = n, !.last_run_at = t]
<1>1. jobs[j] \in JobRow
  BY Zenon DEF TypeOK
<1>2. /\ row \in JobRow /\ row.next_run_at = n /\ row.last_run_at = t
      /\ row.usable = jobs[j].usable
  BY <1>1, Zenon DEF JobRow
<1>3. ClockSet(j, n, t) = [jobs EXCEPT ![j] = row]
  BY Zenon DEF ClockSet, TypeOK
<1> HIDE DEF row
<1> QED
  BY <1>2, <1>3, Zenon DEF TypeOK

----------------------------------------------------------------------------
(* What the steps do, one predicate for each kind of change.               *)

MovedTo(w, place) ==
  /\ pc'[w] = place /\ since'[w] \in {0, now}
  /\ place \in Timed => since'[w] = now
  /\ \A v \in Workers : v # w => pc'[v] = pc[v] /\ since'[v] = since[v]

TaskOf(w, j) == task[w] # None /\ task[w].job = j

ActiveRunOf(j, r) ==
  claims[j] # None /\ claims[j].owner # None /\ claims[j].active_run = r

\* The worker only moves: it found nothing to do, failed, stopped or crashed.
Quiet(w) ==
  /\ UNCHANGED <<now, jobs, claims, runs, task>>
  /\ \/ MovedTo(w, "stopped")
     \/ /\ pc[w] \in {"new", "idle", "tick", "target"}
        /\ MovedTo(w, "idle") \/ MovedTo(w, "tick") \/ MovedTo(w, "target")
     \/ /\ pc[w] \in {"claimed", "running", "writing"}
        /\ MovedTo(w, "release") \/ MovedTo(w, "abandon")
     \/ /\ since' = since /\ \A v \in Workers : v # w => pc'[v] = pc[v]
        /\ pc'[w] \in {pc[w], "stopped"}

Clocked(w, j, next, t) ==
  /\ pc[w] = "claimed" /\ TaskOf(w, j) /\ ~jobs[j].usable
  /\ next >= t + Interval /\ ClockAdvances(j, next, t)
  /\ jobs' = ClockSet(j, next, t)
  /\ UNCHANGED <<now, claims, runs, task>>
  /\ MovedTo(w, "release")

Acquired(w, j, t, due) ==
  /\ pc[w] \in {"tick", "target"} /\ since[w] <= t /\ t <= now
  /\ due => Due(j, t)
  /\ Claimed(j) => claims[j].lease <= t
  /\ claims'[j] = AcquiredClaim(w, j, t)
  /\ \A i \in Jobs : i # j => claims'[i] = claims[i]
  /\ task'[w] = [job |-> j, fence |-> NextFence(j), run |-> None, due |-> due]
  /\ \A v \in Workers : v # w => task'[v] = task[v]
  /\ runs' = RecoveredRuns(j, t)
  /\ UNCHANGED <<now, jobs>>
  /\ MovedTo(w, "claimed")

Started(w, j, r, t) ==
  /\ pc[w] = "claimed" /\ since[w] <= t /\ t <= now
  /\ Holder(w, j) /\ jobs[j].usable /\ claims[j].active_run = None
  /\ runs[r] = None
  /\ runs'[r] = [job |-> j, status |-> "running", started_at |-> t,
                 finished_at |-> None, obs |-> {}]
  /\ \A q \in Runs : q # r => runs'[q] = runs[q]
  /\ claims'[j] = [claims[j] EXCEPT !.active_run = r]
  /\ \A i \in Jobs : i # j => claims'[i] = claims[i]
  /\ task'[w] = [task[w] EXCEPT !.run = r]
  /\ \A v \in Workers : v # w => task'[v] = task[v]
  /\ UNCHANGED <<now, jobs>>
  /\ MovedTo(w, "running")

Renewed(w, j, t) ==
  /\ pc[w] = "running" /\ Holder(w, j)
  /\ claims'[j] = [claims[j] EXCEPT !.lease = t + Lease]
  /\ \A i \in Jobs : i # j => claims'[i] = claims[i]
  /\ UNCHANGED <<now, jobs, runs, task>>
  /\ MovedTo(w, "running")

Observed(w, j, r, ok) ==
  /\ pc[w] \in {"running", "writing"} /\ TaskOf(w, j) /\ task[w].run = r
  /\ ActiveRunOf(j, r)
  /\ runs'[r] = [runs[r] EXCEPT !.obs = @ \cup {ok}]
  /\ \A q \in Runs : q # r => runs'[q] = runs[q]
  /\ UNCHANGED <<now, jobs, claims, task>>
  /\ MovedTo(w, "writing")

Finished(w, j, r, next, t) ==
  /\ pc[w] = "writing" /\ TaskOf(w, j) /\ task[w].run = r
  /\ ActiveRunOf(j, r)
  /\ runs[r].started_at <= t /\ t <= now
  /\ next >= t + Interval /\ ClockAdvances(j, next, t)
  /\ jobs' = ClockSet(j, next, t)
  /\ runs'[r] = [runs[r] EXCEPT !.status = FinalStatus(runs[r].obs), !.finished_at = t]
  /\ \A q \in Runs : q # r => runs'[q] = runs[q]
  /\ claims'[j] = [claims[j] EXCEPT !.active_run = None]
  /\ \A i \in Jobs : i # j => claims'[i] = claims[i]
  /\ UNCHANGED <<now, task>>
  /\ MovedTo(w, "release")

Released(w, j) ==
  /\ Holder(w, j)
  /\ claims'[j] = ReleasedClaim(claims[j])
  /\ \A i \in Jobs : i # j => claims'[i] = claims[i]
  /\ task'[w] = None
  /\ \A v \in Workers : v # w => task'[v] = task[v]
  /\ UNCHANGED <<now, jobs, runs>>
  /\ MovedTo(w, "tick") \/ MovedTo(w, "stopped")

\* The claim to be released is somebody else's by now.
Dropped(w) ==
  /\ task[w] # None /\ ~Holder(w, task[w].job)
  /\ task'[w] = None
  /\ \A v \in Workers : v # w => task'[v] = task[v]
  /\ UNCHANGED <<now, jobs, claims, runs>>
  /\ MovedTo(w, "stopped")

\* Time, operators and stuttering.
Outside ==
  /\ UNCHANGED <<claims, runs, task, pc, since>>
  /\ now <= now'
  /\ \A j \in Jobs : /\ jobs'[j].usable = jobs[j].usable
                     /\ jobs'[j].next_run_at = jobs[j].next_run_at
                     /\ jobs'[j].last_run_at = jobs[j].last_run_at

Change ==
  \/ Outside
  \/ \E w \in Workers :
       \/ Quiet(w) \/ Dropped(w)
       \/ \E j \in Jobs :
            \/ Released(w, j)
            \/ \E t \in Nat : Renewed(w, j, t)
            \/ \E next, t \in Nat : Clocked(w, j, next, t)
            \/ \E t \in Nat, due \in BOOLEAN : Acquired(w, j, t, due)
            \/ \E r \in Runs :
                 \/ \E t \in Nat : Started(w, j, r, t)
                 \/ \E ok \in BOOLEAN : Observed(w, j, r, ok)
                 \/ \E next, t \in Nat : Finished(w, j, r, next, t)

\* The active run of a claim is a row of runs.
LEMMA ActiveRunKnown ==
  ASSUME TypeOK, ActiveRunBound, NEW j \in Jobs, NEW r \in Runs, ActiveRunOf(j, r)
  PROVE  runs[r] \in RunRow /\ runs[r].job = j /\ runs[r].status = "running"
BY SchedulerConstants DEF ActiveRunOf, ActiveRunBound, TypeOK

\* Every step of the specification is one of these changes and keeps the types.
LEMMA StepChange ==
  TypeOK /\ TasksPlaced /\ ActiveRunBound /\ [Next]_vars => TypeOK' /\ Change
<1> SUFFICES ASSUME TypeOK, TasksPlaced, ActiveRunBound, [Next]_vars PROVE TypeOK' /\ Change
  BY Zenon
<1> USE SchedulerConstants
<1>0. ASSUME NEW w \in Workers, NEW place \in Places, Goto(w, place)
      PROVE  /\ MovedTo(w, place)
             /\ pc' \in [Workers -> Places] /\ since' \in [Workers -> Nat]
  BY <1>0, GotoFacts, Zenon DEF MovedTo
<1>1. ASSUME NEW w \in Workers, StartTick(w) \/ EndTick(w) PROVE TypeOK' /\ Change
  <2>1. Goto(w, "tick") \/ Goto(w, "stopped") \/ Goto(w, "idle")
    BY <1>1, Zenon DEF StartTick, EndTick
  <2>2. TypeOK'
    BY <1>1, <2>1, <1>0 DEF StartTick, EndTick, TypeOK, Places, Env
  <2>3. Quiet(w)
    BY <1>1, <2>1, <1>0, Zenon DEF StartTick, EndTick, Quiet, Places, Env, At
  <2> QED
    BY <2>2, <2>3, Zenon DEF Change
<1>2. ASSUME NEW w \in Workers, NEW j \in Jobs, StartTarget(w, j) PROVE TypeOK' /\ Change
  <2>1. TypeOK'
    BY <1>2, <1>0, Zenon DEF StartTarget, TypeOK, Places, Env
  <2>2. Quiet(w)
    BY <1>2, <1>0, Zenon DEF StartTarget, Quiet, Places, Env, At
  <2> QED
    BY <2>1, <2>2, Zenon DEF Change
<1>3. ASSUME NEW w \in Workers, NEW j \in Jobs, NEW t \in Readings(w), NEW due \in BOOLEAN,
             pc[w] \in {"tick", "target"}, Acquirable(j, t, due), Acquire(w, j, t, due),
             UNCHANGED <<Env, jobs, shutdown>>, todo' \in [Workers -> SUBSET Jobs]
      PROVE  TypeOK' /\ Change
  <2>1. t \in Nat /\ since[w] <= t /\ t <= now
    BY ReadingType, Zenon
  <2>2. MovedTo(w, "claimed") /\ pc' \in [Workers -> Places] /\ since' \in [Workers -> Nat]
    BY <1>0, <1>3, Zenon DEF Acquire, Places
  <2>3. AcquiredClaim(w, j, t) \in ClaimRow
    BY <2>1, FenceType DEF AcquiredClaim, ClaimRow
  <2>4. [job |-> j, fence |-> NextFence(j), run |-> None, due |-> due] \in Task
    BY FenceType, Zenon DEF Task
  <2>5. runs' \in [Runs -> RunRow \cup {None}]
    <3> SUFFICES ASSUME NEW r \in Runs PROVE RecoveredRuns(j, t)[r] \in RunRow \cup {None}
      BY <1>3, Zenon DEF Acquire, RecoveredRuns
    <3>1. runs[r] \in RunRow \cup {None}
      BY Zenon DEF TypeOK
    <3>2. claims[j] # None /\ claims[j].active_run = r => runs[r] # None
      BY Zenon DEF ActiveRunBound
    <3> QED
      BY <2>1, <3>1, <3>2, RecoveredFacts
  <2>6. TypeOK'
    BY <1>3, <2>2, <2>3, <2>4, <2>5, Zenon DEF Acquire, TypeOK, Places, Env
  <2>7. Acquired(w, j, t, due)
    BY <1>3, <2>1, <2>2, Zenon DEF Acquire, Acquirable, Acquired, TypeOK, Env
  <2> QED
    BY <2>1, <2>6, <2>7, Zenon DEF Change
<1>4. ASSUME NEW w \in Workers, NEW j \in Jobs, ClaimDue(w, j) \/ ClaimTarget(w, j)
      PROVE TypeOK' /\ Change
  <2>1. /\ pc[w] \in {"tick", "target"} /\ todo' \in [Workers -> SUBSET Jobs]
        /\ UNCHANGED <<Env, jobs, shutdown>>
    <3>1. todo' = [todo EXCEPT ![w] = todo[w] \ {j}] \/ todo' = [todo EXCEPT ![w] = {}]
      BY <1>4, Zenon DEF ClaimDue, ClaimTarget
    <3>2. todo' \in [Workers -> SUBSET Jobs]
      BY <3>1 DEF TypeOK
    <3> QED
      BY <1>4, <3>2, Zenon DEF ClaimDue, ClaimTarget, At
  <2>2. CASE \E t \in Readings(w), due \in BOOLEAN : Acquirable(j, t, due) /\ Acquire(w, j, t, due)
    BY <2>1, <2>2, <1>3
  <2>3. CASE UNCHANGED <<claims, runs, task>> /\ (Goto(w, "tick") \/ Goto(w, "stopped"))
    <3>1. TypeOK'
      BY <2>1, <2>3, <1>0, Zenon DEF TypeOK, Places, Env
    <3>2. Quiet(w)
      BY <2>1, <2>3, <1>0, Zenon DEF Quiet, Places, Env
    <3> QED
      BY <3>1, <3>2 DEF Change
  <2> QED
    BY <1>4, <2>2, <2>3, Zenon DEF ClaimDue, ClaimTarget
<1>5. ASSUME NEW w \in Workers, pc[w] \in {"claimed", "running", "writing"},
             Goto(w, "release") \/ Goto(w, "abandon"),
             UNCHANGED <<Env, jobs, claims, runs, todo, task, shutdown>>
      PROVE  TypeOK' /\ Change
  <2>1. TypeOK'
    BY <1>5, <1>0, Zenon DEF TypeOK, Places, Env
  <2>2. Quiet(w)
    BY <1>5, <1>0, Zenon DEF Quiet, Places, Env
  <2> QED
    BY <2>1, <2>2 DEF Change
<1>6. ASSUME NEW w \in Workers, RecordInvalid(w) PROVE TypeOK' /\ Change
  <2> DEFINE j == task[w].job
  <2>1. /\ pc[w] = "claimed" /\ task[w] # None /\ j \in Jobs /\ ~jobs[j].usable
        /\ UNCHANGED <<Env, claims, runs, todo, task, shutdown>>
    BY <1>6, Zenon DEF RecordInvalid, At, TasksPlaced, TypeOK, Task
  <2>2. CASE UNCHANGED jobs /\ (Goto(w, "release") \/ Goto(w, "abandon"))
    BY <2>1, <2>2, <1>5, Zenon
  <2>3. CASE \E t \in Readings(w), jitter \in 0..MaxJitter :
               /\ ClockAdvances(j, NextRunAt(t, jitter), t)
               /\ jobs' = ClockSet(j, NextRunAt(t, jitter), t)
               /\ Goto(w, "release")
    <3>1. PICK t \in Readings(w), jitter \in 0..MaxJitter :
               /\ ClockAdvances(j, NextRunAt(t, jitter), t)
               /\ jobs' = ClockSet(j, NextRunAt(t, jitter), t)
               /\ Goto(w, "release")
      BY <2>3, Zenon
    <3>2. t \in Nat /\ NextRunAt(t, jitter) \in Nat /\ NextRunAt(t, jitter) >= t + Interval
      BY ReadingType DEF NextRunAt
    <3>3. MovedTo(w, "release") /\ pc' \in [Workers -> Places] /\ since' \in [Workers -> Nat]
      BY <1>0, <3>1, Zenon DEF Places
    <3>4. jobs' \in [Jobs -> JobRow]
      BY <2>1, <3>1, <3>2, ClockSetFacts, Zenon
    <3>5. TypeOK'
      BY <2>1, <3>3, <3>4, Zenon DEF TypeOK, Places, Env
    <3>6. Clocked(w, j, NextRunAt(t, jitter), t)
      BY <2>1, <3>1, <3>2, <3>3, Zenon DEF Clocked, TaskOf, Env
    <3> QED
      BY <2>1, <3>2, <3>5, <3>6, Zenon DEF Change
  <2> QED
    BY <1>6, <2>2, <2>3, Zenon DEF RecordInvalid, InvalidClock
<1>7. ASSUME NEW w \in Workers, NEW r \in Runs, StartRun(w, r) PROVE TypeOK' /\ Change
  <2> DEFINE j == task[w].job
  <2>1. /\ pc[w] = "claimed" /\ task[w] # None /\ j \in Jobs /\ jobs[j].usable /\ runs[r] = None
        /\ task[w] \in Task
        /\ UNCHANGED <<Env, jobs, todo, shutdown>>
    BY <1>7, Zenon DEF StartRun, At, TasksPlaced, TypeOK, Task
  <2>2. CASE Goto(w, "abandon") /\ UNCHANGED <<runs, claims, task>>
    BY <2>1, <2>2, <1>5, Zenon
  <2> DEFINE row(t) == [job |-> j, status |-> "running", started_at |-> t,
                        finished_at |-> None, obs |-> {}]
  <2>3. CASE \E t \in Readings(w) :
               /\ StartAllowed(w, t)
               /\ runs' = [runs EXCEPT ![r] = row(t)]
               /\ claims' = [claims EXCEPT ![j].active_run = r]
               /\ task' = [task EXCEPT ![w].run = r]
               /\ Goto(w, "running")
    <3>1. PICK t \in Readings(w) :
               /\ StartAllowed(w, t)
               /\ runs' = [runs EXCEPT ![r] = row(t)]
               /\ claims' = [claims EXCEPT ![j].active_run = r]
               /\ task' = [task EXCEPT ![w].run = r]
               /\ Goto(w, "running")
      BY <2>3, Zenon
    <3>2. t \in Nat /\ since[w] <= t /\ t <= now
      BY ReadingType, Zenon
    <3>3. MovedTo(w, "running") /\ pc' \in [Workers -> Places] /\ since' \in [Workers -> Nat]
      BY <1>0, <3>1, Zenon DEF Places
    <3>4. Holder(w, j) /\ claims[j].active_run = None /\ claims[j] # None
      BY <2>1, <3>1, Zenon DEF StartAllowed, HoldsClaim, Holder
    <3>5. row(t) \in RunRow
      BY <2>1, <3>2, Zenon DEF RunRow
    <3>6. [claims[j] EXCEPT !.active_run = r] \in ClaimRow
      BY <2>1, <3>4, ClaimRowFacts, Zenon
    <3>7. [task[w] EXCEPT !.run = r] \in Task
      BY <2>1, Zenon DEF Task
    <3>8. /\ claims' = [claims EXCEPT ![j] = [claims[j] EXCEPT !.active_run = r]]
          /\ task' = [task EXCEPT ![w] = [task[w] EXCEPT !.run = r]]
      BY <3>1, Zenon
    <3> HIDE DEF j, row
    <3>9. TypeOK'
      <4>1. runs' \in [Runs -> RunRow \cup {None}]
        BY <3>1, <3>5, Zenon DEF TypeOK
      <4>2. /\ claims' \in [Jobs -> ClaimRow \cup {None}]
            /\ task' \in [Workers -> Task \cup {None}]
        BY <3>6, <3>7, <3>8, Zenon DEF TypeOK
      <4> QED
        BY <2>1, <3>3, <4>1, <4>2, Zenon DEF TypeOK, Places, Env
    <3>10. Started(w, j, r, t)
      <4>1. runs'[r] = row(t) /\ \A q \in Runs : q # r => runs'[q] = runs[q]
        BY <3>1, Zenon DEF TypeOK
      <4>2. /\ claims'[j] = [claims[j] EXCEPT !.active_run = r]
            /\ \A i \in Jobs : i # j => claims'[i] = claims[i]
            /\ task'[w] = [task[w] EXCEPT !.run = r]
            /\ \A v \in Workers : v # w => task'[v] = task[v]
        BY <2>1, <3>8, Zenon DEF TypeOK
      <4> QED
        BY <2>1, <3>2, <3>3, <3>4, <4>1, <4>2, Zenon DEF Started, row, Env
    <3> QED
      BY <2>1, <3>2, <3>9, <3>10, Zenon DEF Change
  <2> QED
    BY <1>7, <2>2, <2>3, Zenon DEF StartRun
<1>8. ASSUME NEW w \in Workers, Renew(w) PROVE TypeOK' /\ Change
  <2> DEFINE j == task[w].job
  <2>1. /\ pc[w] = "running" /\ task[w] # None /\ j \in Jobs
        /\ UNCHANGED <<Env, jobs, runs, todo, task, shutdown>>
    BY <1>8, Zenon DEF Renew, At, TasksPlaced, TypeOK, Task
  <2>2. CASE Goto(w, "abandon") /\ UNCHANGED claims
    BY <2>1, <2>2, <1>5, Zenon
  <2>3. CASE \E t \in Readings(w) :
               /\ HoldsClaim(w) /\ claims' = [claims EXCEPT ![j].lease = t + Lease]
               /\ Goto(w, "running")
    <3>1. PICK t \in Readings(w) :
               /\ HoldsClaim(w) /\ claims' = [claims EXCEPT ![j].lease = t + Lease]
               /\ Goto(w, "running")
      BY <2>3, Zenon
    <3>2. t \in Nat /\ t + Lease \in Nat
      BY ReadingType
    <3>3. MovedTo(w, "running") /\ pc' \in [Workers -> Places] /\ since' \in [Workers -> Nat]
      BY <1>0, <3>1, Zenon DEF Places
    <3>4. Holder(w, j) /\ claims[j] # None
      BY <2>1, <3>1, Zenon DEF HoldsClaim, Holder
    <3> DEFINE c == [claims[j] EXCEPT !.lease = t + Lease]
    <3>5. c \in ClaimRow
      BY <2>1, <3>2, <3>4, ClaimRowFacts, Zenon
    <3>6. claims' = [claims EXCEPT ![j] = c]
      BY <3>1, Zenon
    <3>7. c = [claims[j] EXCEPT !.lease = t + Lease]
      BY Zenon
    <3> HIDE DEF j, c
    <3>8. TypeOK'
      BY <2>1, <3>3, <3>5, <3>6, Zenon DEF TypeOK, Places, Env
    <3>9. claims'[j] = c /\ \A i \in Jobs : i # j => claims'[i] = claims[i]
      BY <2>1, <3>6, Zenon DEF TypeOK
    <3>10. Renewed(w, j, t)
      BY <2>1, <3>3, <3>4, <3>7, <3>9, Zenon DEF Renewed, Env
    <3> QED
      BY <2>1, <3>2, <3>8, <3>10, Zenon DEF Change
  <2> QED
    BY <1>8, <2>2, <2>3, Zenon DEF Renew
<1>9. ASSUME NEW w \in Workers, NEW ok \in BOOLEAN, WriteOutcome(w, ok) PROVE TypeOK' /\ Change
  <2> DEFINE j == task[w].job
             r == task[w].run
  <2>1. /\ pc[w] \in {"running", "writing"} /\ task[w] # None /\ j \in Jobs /\ r \in Runs
        /\ claims[j] # None
        /\ UNCHANGED <<Env, jobs, claims, todo, task, shutdown>>
    BY <1>9, Zenon DEF WriteOutcome, TasksPlaced, TypeOK, Task
  <2>2. CASE Goto(w, "abandon") /\ UNCHANGED runs
    BY <2>1, <2>2, <1>5, Zenon
  <2>3. CASE \E t \in Readings(w) :
               /\ ActiveRunClaim(w, t) /\ runs[r].status = "running"
               /\ runs' = [runs EXCEPT ![r].obs = @ \cup {ok}] /\ Goto(w, "writing")
    <3>1. /\ ActiveRunOf(j, r)
          /\ runs' = [runs EXCEPT ![r].obs = @ \cup {ok}] /\ Goto(w, "writing")
      BY <2>1, <2>3, Zenon DEF ActiveRunClaim, ActiveRunOf
    <3>2. MovedTo(w, "writing") /\ pc' \in [Workers -> Places] /\ since' \in [Workers -> Nat]
      BY <1>0, <3>1, Zenon DEF Places
    <3> DEFINE row == [runs[r] EXCEPT !.obs = @ \cup {ok}]
    <3>3. runs' = [runs EXCEPT ![r] = row]
      BY <3>1, Zenon
    <3>4. row \in RunRow
      <4>1. runs[r] \in RunRow
        BY <2>1, <3>1, ActiveRunKnown, Zenon
      <4> QED
        BY <4>1, Zenon DEF RunRow
    <3>5. row = [runs[r] EXCEPT !.obs = @ \cup {ok}]
      BY Zenon
    <3> HIDE DEF j, r, row
    <3>6. TypeOK'
      BY <2>1, <3>2, <3>3, <3>4, Zenon DEF TypeOK, Places, Env
    <3>7. runs'[r] = row /\ \A q \in Runs : q # r => runs'[q] = runs[q]
      BY <2>1, <3>3, Zenon DEF TypeOK
    <3>8. Observed(w, j, r, ok)
      BY <2>1, <3>1, <3>2, <3>5, <3>7, Zenon DEF Observed, TaskOf, Env, j, r
    <3> QED
      BY <2>1, <3>6, <3>8, Zenon DEF Change
  <2> QED
    BY <1>9, <2>2, <2>3, Zenon DEF WriteOutcome
<1>10. ASSUME NEW w \in Workers, FinishRun(w) PROVE TypeOK' /\ Change
  <2> DEFINE j == task[w].job
             r == task[w].run
  <2>1. /\ pc[w] = "writing" /\ task[w] # None /\ j \in Jobs /\ r \in Runs /\ claims[j] # None
        /\ UNCHANGED <<Env, todo, task, shutdown>>
    BY <1>10, Zenon DEF FinishRun, At, TasksPlaced, TypeOK, Task
  <2>2. CASE Goto(w, "abandon") /\ UNCHANGED <<runs, jobs, claims>>
    BY <2>1, <2>2, <1>5, Zenon
  <2>3. CASE \E t \in Readings(w), jitter \in 0..MaxJitter :
               /\ FinishAllowed(w, t, NextRunAt(t, jitter))
               /\ runs' = [runs EXCEPT ![r].status = FinalStatus(runs[r].obs), ![r].finished_at = t]
               /\ jobs' = ClockSet(j, NextRunAt(t, jitter), t)
               /\ claims' = [claims EXCEPT ![j].active_run = None]
               /\ Goto(w, "release")
    <3>1. PICK t \in Readings(w), jitter \in 0..MaxJitter :
               /\ FinishAllowed(w, t, NextRunAt(t, jitter))
               /\ runs' = [runs EXCEPT ![r].status = FinalStatus(runs[r].obs), ![r].finished_at = t]
               /\ jobs' = ClockSet(j, NextRunAt(t, jitter), t)
               /\ claims' = [claims EXCEPT ![j].active_run = None]
               /\ Goto(w, "release")
      BY <2>3, Zenon
    <3> DEFINE next == NextRunAt(t, jitter)
    <3>2. t \in Nat /\ t <= now /\ next \in Nat /\ next >= t + Interval
      BY ReadingType DEF NextRunAt
    <3>3. MovedTo(w, "release") /\ pc' \in [Workers -> Places] /\ since' \in [Workers -> Nat]
      BY <1>0, <3>1, Zenon DEF Places
    <3>4. /\ ActiveRunOf(j, r) /\ t >= runs[r].started_at /\ ClockAdvances(j, next, t)
      BY <2>1, <3>1, Zenon DEF FinishAllowed, ActiveRunClaim, ActiveRunOf
    <3>5. jobs' \in [Jobs -> JobRow] /\ jobs' = ClockSet(j, next, t)
      BY <2>1, <3>1, <3>2, ClockSetFacts, Zenon
    <3> DEFINE row == [runs[r] EXCEPT !.status = FinalStatus(runs[r].obs), !.finished_at = t]
               c == [claims[j] EXCEPT !.active_run = None]
    <3>6. row \in RunRow /\ runs[r].started_at \in Nat
      <4>1. runs[r] \in RunRow
        BY <2>1, <3>4, ActiveRunKnown, Zenon
      <4> QED
        BY <4>1, <3>2, Zenon DEF RunRow, FinalStatus
    <3>7. c \in ClaimRow
      BY <2>1, ClaimRowFacts, Zenon
    <3>8. /\ runs' = [runs EXCEPT ![r] = row] /\ claims' = [claims EXCEPT ![j] = c]
      BY <2>1, <3>1, Zenon DEF TypeOK
    <3>9. /\ row = [runs[r] EXCEPT !.status = FinalStatus(runs[r].obs), !.finished_at = t]
          /\ c = [claims[j] EXCEPT !.active_run = None]
      BY Zenon
    <3> HIDE DEF j, r, row, c, next
    <3>10. TypeOK'
      BY <2>1, <3>3, <3>5, <3>6, <3>7, <3>8, Zenon DEF TypeOK, Places, Env
    <3>11. /\ runs'[r] = row /\ \A q \in Runs : q # r => runs'[q] = runs[q]
           /\ claims'[j] = c /\ \A i \in Jobs : i # j => claims'[i] = claims[i]
      BY <2>1, <3>8, Zenon DEF TypeOK
    <3>12. Finished(w, j, r, next, t)
      <4>1. TaskOf(w, j) /\ task[w].run = r
        BY <2>1, Zenon DEF TaskOf, j, r
      <4>2. runs[r].started_at <= t
        BY <3>2, <3>4, <3>6, Zenon
      <4> QED
        BY <2>1, <3>2, <3>3, <3>4, <3>5, <3>9, <3>11, <4>1, <4>2, Zenon DEF Finished, Env
    <3> QED
      BY <2>1, <3>2, <3>10, <3>12, Zenon DEF Change
  <2> QED
    BY <1>10, <2>2, <2>3, Zenon DEF FinishRun
<1>11. ASSUME NEW w \in Workers, Release(w) PROVE TypeOK' /\ Change
  <2> DEFINE j == task[w].job
  <2>1. /\ task[w] # None /\ j \in Jobs /\ UNCHANGED <<Env, jobs, runs, todo, shutdown>>
        /\ task' \in [Workers -> Task \cup {None}]
        /\ task'[w] = None /\ \A v \in Workers : v # w => task'[v] = task[v]
    BY <1>11, Zenon DEF Release, TasksPlaced, TypeOK, Task
  <2>2. CASE /\ HoldsClaim(w) /\ claims' = [claims EXCEPT ![j] = ReleasedClaim(@)]
             /\ Goto(w, "tick") \/ Goto(w, "stopped")
    <3>1. claims[j] # None /\ Holder(w, j)
      BY <2>1, <2>2, Zenon DEF HoldsClaim, Holder
    <3>2. ReleasedClaim(claims[j]) \in ClaimRow
      BY <2>1, <3>1, ClaimRowFacts, Zenon
    <3>3. /\ MovedTo(w, "tick") \/ MovedTo(w, "stopped")
          /\ pc' \in [Workers -> Places] /\ since' \in [Workers -> Nat]
      BY <1>0, <2>2, Zenon DEF Places
    <3> HIDE DEF j
    <3>4. claims'[j] = ReleasedClaim(claims[j]) /\ \A i \in Jobs : i # j => claims'[i] = claims[i]
      BY <2>1, <2>2, Zenon DEF TypeOK
    <3>5. TypeOK'
      BY <2>1, <2>2, <3>2, <3>3, Zenon DEF TypeOK, Places, Env
    <3>6. Released(w, j)
      BY <2>1, <3>1, <3>3, <3>4, Zenon DEF Released, Env
    <3> QED
      BY <2>1, <3>5, <3>6, Zenon DEF Change
  <2>3. CASE ~HoldsClaim(w) /\ Goto(w, "stopped") /\ UNCHANGED claims
    <3>1. /\ MovedTo(w, "stopped")
          /\ pc' \in [Workers -> Places] /\ since' \in [Workers -> Nat]
      BY <1>0, <2>3, Zenon DEF Places
    <3>2. ~Holder(w, j)
      BY <2>1, <2>3, Zenon DEF HoldsClaim, Holder
    <3>3. TypeOK'
      BY <2>1, <2>3, <3>1, Zenon DEF TypeOK, Places, Env
    <3>4. Dropped(w)
      BY <2>1, <2>3, <3>1, <3>2, Zenon DEF Dropped, Env
    <3> QED
      BY <3>3, <3>4, Zenon DEF Change
  <2> QED
    BY <1>11, <2>2, <2>3, Zenon DEF Release
<1>12. ASSUME NEW w \in Workers, WorkFails(w) PROVE TypeOK' /\ Change
  BY <1>12, <1>5, Zenon DEF WorkFails
<1>13. ASSUME NEW w \in Workers, Shutdown(w) PROVE TypeOK' /\ Change
  <2>1. TypeOK'
    BY <1>13, Zenon DEF Shutdown, TypeOK, Env
  <2>2. Quiet(w)
    BY <1>13, Zenon DEF Shutdown, Quiet, TypeOK, Env
  <2> QED
    BY <2>1, <2>2 DEF Change
<1>14. ASSUME NEW w \in Workers, Crash(w) PROVE TypeOK' /\ Change
  <2>1. TypeOK'
    BY <1>14, <1>0, Zenon DEF Crash, TypeOK, Places, Env
  <2>2. Quiet(w)
    BY <1>14, <1>0, Zenon DEF Crash, Quiet, Places, Env
  <2> QED
    BY <2>1, <2>2 DEF Change
<1>15. ASSUME NEW j \in Jobs, NEW enabled \in BOOLEAN, SetEnabled(j, enabled) PROVE TypeOK' /\ Change
  <2> DEFINE row == [jobs[j] EXCEPT !.enabled = enabled]
  <2>1. jobs[j] \in JobRow
    BY Zenon DEF TypeOK
  <2>2. /\ row \in JobRow /\ row.usable = jobs[j].usable
        /\ row.next_run_at = jobs[j].next_run_at /\ row.last_run_at = jobs[j].last_run_at
    BY <2>1, Zenon DEF JobRow
  <2>3. jobs' = [jobs EXCEPT ![j] = row]
    BY <1>15, Zenon DEF SetEnabled
  <2> HIDE DEF row
  <2>4. TypeOK'
    BY <1>15, <2>2, <2>3 DEF SetEnabled, TypeOK, Env
  <2>5. Outside
    BY <1>15, <2>2, <2>3 DEF SetEnabled, Outside, TypeOK, Env
  <2> QED
    BY <2>4, <2>5, Zenon DEF Change
<1>16. CASE AdvanceTime \/ ToggleMaintenance \/ UNCHANGED vars
  <2>1. TypeOK'
    <3>1. CASE AdvanceTime
      BY <3>1 DEF AdvanceTime, TypeOK
    <3>2. CASE ToggleMaintenance
      BY <3>2, Zenon DEF ToggleMaintenance, TypeOK
    <3>3. CASE UNCHANGED vars
      BY <3>3, Zenon DEF vars, TypeOK
    <3> QED
      BY <1>16, <3>1, <3>2, <3>3, Zenon
  <2>2. Outside
    BY <1>16 DEF AdvanceTime, ToggleMaintenance, vars, Outside, TypeOK
  <2> QED
    BY <2>1, <2>2, Zenon DEF Change
<1> QED
  BY <1>1, <1>2, <1>4, <1>6, <1>7, <1>8, <1>9, <1>10, <1>11, <1>12, <1>13, <1>14, <1>15, <1>16, Zenon
  DEF Next, WorkerStep

----------------------------------------------------------------------------
(* Who holds a claim.                                                      *)

Ownership == OwnersHold /\ TasksPlaced /\ ActiveRunBound

\* A step that moves only the loops keeps the ownership of claims.
LEMMA OwnershipKept ==
  ASSUME TypeOK, Ownership, UNCHANGED <<claims, task>>,
         \A r \in Runs : runs[r] # None =>
           runs'[r] # None /\ runs'[r].job = runs[r].job /\ runs'[r].status = runs[r].status,
         TasksPlaced'
  PROVE  Ownership'
<1>1. \A w, j : Holder(w, j)' <=> Holder(w, j)
  BY Zenon DEF Holder
<1>2. OwnersHold'
  BY <1>1, Zenon DEF Ownership, OwnersHold
<1>3. ActiveRunBound'
  <2>1. \A j \in Jobs : claims[j] # None => claims[j].active_run \in Runs \cup {None}
    BY Zenon DEF TypeOK, ClaimRow
  <2> QED
    BY <1>1, <2>1, Zenon DEF Ownership, ActiveRunBound
<1> QED
  BY <1>2, <1>3, Zenon DEF Ownership

\* Every change keeps a claim with a holder that knows it, and its active run
\* with that holder.
LEMMA StepOwnership == TypeOK /\ TypeOK' /\ Ownership /\ Change => Ownership'
<1> SUFFICES ASSUME TypeOK, TypeOK', Ownership, Change PROVE Ownership'
  BY Zenon
<1> USE SchedulerConstants
<1>0. \A j \in Jobs : claims[j] # None => claims[j].owner \in Workers \cup {None}
  BY Zenon DEF TypeOK, ClaimRow
<1>1. ASSUME Outside PROVE Ownership'
  <2>1. TasksPlaced'
    BY <1>1, Zenon DEF Outside, Ownership, TasksPlaced
  <2> QED
    BY <1>1, <2>1, OwnershipKept, Zenon DEF Outside
<1>2. ASSUME NEW w \in Workers, Quiet(w) PROVE Ownership'
  <2>1. TasksPlaced'
    BY <1>2 DEF Quiet, MovedTo, Ownership, TasksPlaced
  <2> QED
    BY <1>2, <2>1, OwnershipKept, Zenon DEF Quiet
<1>3. ASSUME NEW w \in Workers, Dropped(w) PROVE Ownership'
  <2>1. \A v \in Workers, j \in Jobs : Holder(v, j) => v # w /\ Holder(v, j)'
    BY <1>3, Zenon DEF Dropped, Holder
  <2>2. TasksPlaced'
    BY <1>3 DEF Dropped, MovedTo, Ownership, TasksPlaced
  <2>3. OwnersHold'
    BY <1>0, <1>3, <2>1, Zenon DEF Dropped, Ownership, OwnersHold
  <2>4. ActiveRunBound'
    BY <1>3, <2>1 DEF Dropped, Ownership, ActiveRunBound
  <2> QED
    BY <2>2, <2>3, <2>4, Zenon DEF Ownership
<1>4. ASSUME NEW w \in Workers, NEW j \in Jobs, Released(w, j) PROVE Ownership'
  <2>1. /\ claims'[j] # None /\ claims'[j].owner = None /\ claims'[j].active_run = None
        /\ claims[j] # None /\ claims[j].owner = w
    BY <1>4, ClaimRowFacts DEF Released, Holder
  <2>2. \A v \in Workers, i \in Jobs : i # j /\ Holder(v, i) => v # w /\ Holder(v, i)'
    BY <1>4, Zenon DEF Released, Holder
  <2>3. TasksPlaced'
    <3> SUFFICES ASSUME NEW v \in Workers PROVE TasksPlaced!(v)'
      BY Zenon DEF TasksPlaced
    <3>1. CASE v = w
      BY <1>4, <3>1, Zenon DEF Released, MovedTo
    <3>2. CASE v # w
      <4>1. task[v] # None => task[v].job \in Jobs
        BY Zenon DEF TypeOK, Task
      <4> QED
        BY <1>4, <2>1, <3>2, <4>1 DEF Released, MovedTo, Ownership, TasksPlaced
    <3> QED
      BY <3>1, <3>2, Zenon
  <2>4. OwnersHold'
    BY <1>0, <1>4, <2>1, <2>2, Zenon DEF Released, Ownership, OwnersHold
  <2>5. ActiveRunBound'
    BY <1>4, <2>1, <2>2 DEF Released, Ownership, ActiveRunBound
  <2> QED
    BY <2>3, <2>4, <2>5, Zenon DEF Ownership
<1>5. ASSUME NEW w \in Workers, NEW j \in Jobs, NEW t \in Nat, Renewed(w, j, t) PROVE Ownership'
  <2>1. /\ claims'[j] # None /\ claims'[j].owner = claims[j].owner /\ claims'[j].fence = claims[j].fence
        /\ claims'[j].lease # None /\ claims'[j].active_run = claims[j].active_run
        /\ claims[j] # None /\ claims[j].owner = w
    <3>1. t + Lease \in Nat
      OBVIOUS
    <3> QED
      BY <1>5, <3>1, ClaimRowFacts DEF Renewed, Holder
  <2>2. \A v \in Workers, i \in Jobs : Holder(v, i) => Holder(v, i)'
    BY <1>5, <2>1 DEF Renewed, Holder
  <2>3. TasksPlaced'
    <3>1. \A v \in Workers : task[v] # None => task[v].job \in Jobs
      BY Zenon DEF TypeOK, Task
    <3> QED
      BY <1>5, <2>1, <3>1 DEF Renewed, MovedTo, Ownership, TasksPlaced
  <2>4. OwnersHold'
    BY <1>0, <1>5, <2>1, <2>2 DEF Renewed, Ownership, OwnersHold
  <2>5. ActiveRunBound'
    <3> SUFFICES ASSUME NEW i \in Jobs, claims'[i] # None, claims'[i].active_run # None
                 PROVE  ActiveRunBound!(i)!2'
      BY Zenon DEF ActiveRunBound
    <3> DEFINE q == claims[i].active_run
    <3>1. /\ claims[i] # None /\ claims'[i].active_run = q /\ q # None
          /\ runs[q] # None /\ runs[q].job = i /\ runs[q].status = "running"
      BY <1>5, <2>1, Zenon DEF Renewed, Ownership, ActiveRunBound
    <3>2. PICK v \in Workers : Holder(v, i) /\ task[v].run = q
      BY <3>1, Zenon DEF Ownership, ActiveRunBound
    <3> QED
      BY <1>5, <2>2, <3>1, <3>2, Zenon DEF Renewed
  <2> QED
    BY <2>3, <2>4, <2>5, Zenon DEF Ownership
<1>6. ASSUME NEW w \in Workers, NEW j \in Jobs, NEW next \in Nat, NEW t \in Nat, Clocked(w, j, next, t)
      PROVE Ownership'
  <2>1. TasksPlaced'
    BY <1>6 DEF Clocked, MovedTo, Ownership, TasksPlaced
  <2> QED
    BY <1>6, <2>1, OwnershipKept, Zenon DEF Clocked
<1>7. ASSUME NEW w \in Workers, NEW j \in Jobs, NEW t \in Nat, NEW due \in BOOLEAN,
             Acquired(w, j, t, due) PROVE Ownership'
  <2>1. /\ claims'[j].owner = w /\ claims'[j].fence = NextFence(j) /\ claims'[j].active_run = None
        /\ claims'[j].lease = t + Lease
        /\ \A i \in Jobs : i # j => claims'[i] = claims[i]
    BY <1>7 DEF Acquired, AcquiredClaim
  <2>2. claims'[j] # None /\ claims'[j].lease # None
    <3>1. AcquiredClaim(w, j, t) \in ClaimRow
      BY FenceType DEF AcquiredClaim, ClaimRow
    <3> QED
      BY <1>7, <2>1, <3>1 DEF Acquired
  <2>3. /\ task'[w].job = j /\ task'[w].fence = NextFence(j) /\ task'[w].run = None
        /\ task[w] = None
        /\ \A v \in Workers : v # w => task'[v] = task[v]
    BY <1>7 DEF Acquired, Ownership, TasksPlaced
  <2>4. task'[w] # None
    <3>1. [job |-> j, fence |-> NextFence(j), run |-> None, due |-> due] \in Task
      BY FenceType, Zenon DEF Task
    <3> QED
      BY <1>7, <3>1, Zenon DEF Acquired
  <2>5. \A v \in Workers, i \in Jobs : i # j /\ Holder(v, i) => Holder(v, i)'
    BY <2>1, <2>3, Zenon DEF Holder
  <2>6. Holder(w, j)'
    BY <2>1, <2>2, <2>3, <2>4, Zenon DEF Holder
  <2>7. TasksPlaced'
    <3> SUFFICES ASSUME NEW v \in Workers PROVE TasksPlaced!(v)'
      BY Zenon DEF TasksPlaced
    <3>1. CASE v = w
      BY <1>7, <2>2, <2>3, <2>4, <3>1, Zenon DEF Acquired, MovedTo
    <3>2. CASE v # w
      <4>1. task[v] # None => task[v].job \in Jobs
        BY Zenon DEF TypeOK, Task
      <4> QED
        BY <1>7, <2>1, <2>2, <2>3, <3>2, <4>1 DEF Acquired, MovedTo, Ownership, TasksPlaced
    <3> QED
      BY <3>1, <3>2, Zenon
  <2>8. OwnersHold'
    BY <1>0, <2>1, <2>2, <2>5, <2>6 DEF Ownership, OwnersHold
  <2>9. ActiveRunBound'
    <3> SUFFICES ASSUME NEW i \in Jobs, claims'[i] # None, claims'[i].active_run # None
                 PROVE  ActiveRunBound!(i)!2'
      BY Zenon DEF ActiveRunBound
    <3> DEFINE r == claims[i].active_run
    <3>1. /\ i # j /\ claims'[i] = claims[i]
          /\ r \in Runs /\ runs[r] # None /\ runs[r].job = i /\ runs[r].status = "running"
      BY <2>1 DEF Ownership, ActiveRunBound, TypeOK, ClaimRow
    <3>2. runs'[r] = runs[r]
      <4>1. ~(claims[j] # None /\ claims[j].active_run = r)
        BY <3>1, Zenon DEF Ownership, ActiveRunBound
      <4> QED
        BY <1>7, <3>1, <4>1, RecoveredFacts DEF Acquired
    <3>3. PICK v \in Workers : Holder(v, i) /\ task[v].run = r
      BY <3>1, Zenon DEF Ownership, ActiveRunBound
    <3>4. Holder(v, i)' /\ task'[v].run = r
      BY <2>3, <2>5, <3>1, <3>3, Zenon DEF Holder
    <3> QED
      BY <3>1, <3>2, <3>4, Zenon
  <2> QED
    BY <2>7, <2>8, <2>9, Zenon DEF Ownership
<1>8. ASSUME NEW w \in Workers, NEW j \in Jobs, NEW r \in Runs, NEW t \in Nat, Started(w, j, r, t)
      PROVE Ownership'
  <2>1. /\ claims'[j] # None /\ claims'[j].owner = w /\ claims'[j].fence = claims[j].fence
        /\ claims'[j].lease = claims[j].lease /\ claims'[j].active_run = r
        /\ claims[j] # None /\ claims[j].owner = w
        /\ \A i \in Jobs : i # j => claims'[i] = claims[i]
    BY <1>8, ClaimRowFacts DEF Started, Holder
  <2>2. /\ task'[w] # None /\ task'[w].job = task[w].job /\ task'[w].fence = task[w].fence
        /\ task'[w].run = r /\ \A v \in Workers : v # w => task'[v] = task[v]
    <3>1. task[w] \in Task /\ task'[w] = [task[w] EXCEPT !.run = r]
      BY <1>8, Zenon DEF Started, Holder, TypeOK
    <3>2. [task[w] EXCEPT !.run = r] \in Task
      BY <3>1, Zenon DEF Task
    <3> QED
      BY <1>8, <3>1, <3>2, Zenon DEF Started, Task
  <2>3. \A v \in Workers, i \in Jobs : Holder(v, i) => Holder(v, i)'
    BY <2>1, <2>2 DEF Holder
  <2>4. /\ runs'[r].job = j /\ runs'[r].status = "running" /\ runs[r] = None
        /\ \A q \in Runs : q # r => runs'[q] = runs[q]
    BY <1>8 DEF Started
  <2>5. runs'[r] # None
    <3>1. [job |-> j, status |-> "running", started_at |-> t, finished_at |-> None, obs |-> {}]
            \in RunRow
      BY Zenon DEF RunRow
    <3> QED
      BY <1>8, <3>1, Zenon DEF Started
  <2>6. TasksPlaced'
    <3> SUFFICES ASSUME NEW v \in Workers PROVE TasksPlaced!(v)'
      BY Zenon DEF TasksPlaced
    <3>1. CASE v = w
      <4>1. pc'[w] = "running" /\ task[w].job = j /\ r # None
        BY <1>8, Zenon DEF Started, MovedTo, Holder
      <4> QED
        BY <2>1, <2>2, <3>1, <4>1, Zenon
    <3>2. CASE v # w
      <4>1. task[v] # None => task[v].job \in Jobs
        BY Zenon DEF TypeOK, Task
      <4> QED
        BY <1>8, <2>1, <2>2, <3>2, <4>1 DEF Started, MovedTo, Ownership, TasksPlaced
    <3> QED
      BY <3>1, <3>2, Zenon
  <2>7. OwnersHold'
    BY <1>0, <2>1, <2>3 DEF Ownership, OwnersHold
  <2>8. ActiveRunBound'
    <3> SUFFICES ASSUME NEW i \in Jobs, claims'[i] # None, claims'[i].active_run # None
                 PROVE  ActiveRunBound!(i)!2'
      BY Zenon DEF ActiveRunBound
    <3>1. CASE i = j
      <4>1. Holder(w, j)' /\ task'[w].run = r
        BY <1>8, <2>2, <2>3, Zenon DEF Started
      <4> QED
        BY <2>1, <2>4, <2>5, <3>1, <4>1, Zenon
    <3>2. CASE i # j
      <4> DEFINE q == claims[i].active_run
      <4>1. /\ claims'[i] = claims[i] /\ q \in Runs
            /\ runs[q] # None /\ runs[q].job = i /\ runs[q].status = "running"
        BY <2>1, <3>2 DEF Ownership, ActiveRunBound, TypeOK, ClaimRow
      <4>2. PICK v \in Workers : Holder(v, i) /\ task[v].run = q
        BY <4>1, Zenon DEF Ownership, ActiveRunBound
      <4>3. v # w
        BY <1>8, <3>2, <4>2, Zenon DEF Started, Holder
      <4>4. Holder(v, i)' /\ task'[v].run = q
        BY <2>2, <2>3, <4>2, <4>3, Zenon
      <4> QED
        BY <2>4, <4>1, <4>4, Zenon
    <3> QED
      BY <3>1, <3>2, Zenon
  <2> QED
    BY <2>6, <2>7, <2>8, Zenon DEF Ownership
<1>9. ASSUME NEW w \in Workers, NEW j \in Jobs, NEW r \in Runs, NEW ok \in BOOLEAN, Observed(w, j, r, ok)
      PROVE Ownership'
  <2>1. runs[r] \in RunRow
    BY <1>9, ActiveRunKnown, Zenon DEF Observed, Ownership
  <2>2. runs'[r] # None /\ runs'[r].job = runs[r].job /\ runs'[r].status = runs[r].status
    <3>1. [runs[r] EXCEPT !.obs = @ \cup {ok}] \in RunRow
      BY <2>1, Zenon DEF RunRow
    <3> QED
      BY <1>9, <2>1, <3>1, Zenon DEF Observed, RunRow
  <2>3. TasksPlaced'
    BY <1>9 DEF Observed, MovedTo, TaskOf, Ownership, TasksPlaced
  <2> QED
    BY <1>9, <2>2, <2>3, OwnershipKept, Zenon DEF Observed
<1>10. ASSUME NEW w \in Workers, NEW j \in Jobs, NEW r \in Runs, NEW next \in Nat, NEW t \in Nat,
              Finished(w, j, r, next, t) PROVE Ownership'
  <2>1. /\ claims'[j] # None /\ claims'[j].owner = claims[j].owner /\ claims'[j].fence = claims[j].fence
        /\ claims'[j].lease = claims[j].lease /\ claims'[j].active_run = None
        /\ claims[j] # None /\ claims[j].active_run = r
        /\ \A i \in Jobs : i # j => claims'[i] = claims[i]
    BY <1>10, ClaimRowFacts DEF Finished, ActiveRunOf
  <2>2. \A v \in Workers, i \in Jobs : Holder(v, i) => Holder(v, i)'
    BY <1>10, <2>1 DEF Finished, Holder
  <2>3. TasksPlaced'
    <3>1. \A v \in Workers : task[v] # None => task[v].job \in Jobs
      BY Zenon DEF TypeOK, Task
    <3> QED
      BY <1>10, <2>1, <3>1 DEF Finished, MovedTo, Ownership, TasksPlaced
  <2>4. OwnersHold'
    BY <1>0, <2>1, <2>2 DEF Ownership, OwnersHold
  <2>5. ActiveRunBound'
    <3> SUFFICES ASSUME NEW i \in Jobs, claims'[i] # None, claims'[i].active_run # None
                 PROVE  ActiveRunBound!(i)!2'
      BY Zenon DEF ActiveRunBound
    <3> DEFINE q == claims[i].active_run
    <3>1. /\ i # j /\ claims'[i] = claims[i] /\ q \in Runs
          /\ runs[q] # None /\ runs[q].job = i /\ runs[q].status = "running"
      BY <2>1 DEF Ownership, ActiveRunBound, TypeOK, ClaimRow
    <3>2. runs'[q] = runs[q]
      BY <1>10, <2>1, <3>1 DEF Finished, Ownership, ActiveRunBound
    <3>3. PICK v \in Workers : Holder(v, i) /\ task[v].run = q
      BY <3>1, Zenon DEF Ownership, ActiveRunBound
    <3> QED
      BY <1>10, <2>2, <3>1, <3>2, <3>3 DEF Finished
  <2> QED
    BY <2>3, <2>4, <2>5, Zenon DEF Ownership
<1> QED
  BY <1>1, <1>2, <1>3, <1>4, <1>5, <1>6, <1>7, <1>8, <1>9, <1>10, Zenon DEF Change

----------------------------------------------------------------------------
(* The order of runs.                                                      *)

Times == StampsPast /\ FinishedBefore /\ RunsSerial

\* The clock values of a run row are instants.
LEMMA RunStamps ==
  ASSUME TypeOK, NEW r \in Runs, runs[r] # None
  PROVE  /\ runs[r].job \in Jobs /\ runs[r].started_at \in Nat
         /\ runs[r].finished_at \in Nat \cup {None}
BY Zenon DEF TypeOK, RunRow

\* A step that starts and finishes no run and claims no job.
LEMMA TimesKept ==
  ASSUME TypeOK, TypeOK', Times, now <= now',
         \A w \in Workers : since'[w] <= now',
         \A r \in Runs : runs'[r] = runs[r] \/
           /\ runs[r] # None /\ runs'[r] # None
           /\ runs'[r].job = runs[r].job /\ runs'[r].status = runs[r].status
           /\ runs'[r].started_at = runs[r].started_at
           /\ runs'[r].finished_at = runs[r].finished_at,
         \A j \in Jobs : claims'[j] # None /\ claims'[j].active_run # None =>
           claims[j] # None /\ claims'[j].active_run = claims[j].active_run,
         \A w \in Workers, j \in Jobs : pc'[w] = "claimed" /\ Holder(w, j)' =>
           pc[w] = "claimed" /\ Holder(w, j) /\ since'[w] = since[w]
  PROVE  Times'
<1>1. \A r \in Runs : /\ runs'[r] # None <=> runs[r] # None
                      /\ runs'[r] # None =>
                           /\ runs'[r].job = runs[r].job /\ runs'[r].status = runs[r].status
                           /\ runs'[r].started_at = runs[r].started_at
                           /\ runs'[r].finished_at = runs[r].finished_at
  BY Zenon
<1>2. now \in Nat /\ now' \in Nat
  BY Zenon DEF TypeOK
<1>3. StampsPast'
  BY <1>1, <1>2, RunStamps, SchedulerConstants DEF Times, StampsPast
<1>4. FinishedBefore'
  <2> SUFFICES ASSUME NEW r \in Runs, runs'[r] # None, runs'[r].finished_at # None
               PROVE  FinishedBefore!(r)!2'
    BY Zenon DEF FinishedBefore
  <2> DEFINE j == runs[r].job
  <2>1. j \in Jobs /\ runs'[r].job = j /\ runs[r] # None /\ runs'[r].finished_at = runs[r].finished_at
    BY <1>1, RunStamps, Zenon
  <2>2. ASSUME claims'[j] # None, claims'[j].active_run # None
        PROVE  runs'[r].finished_at <= runs'[claims'[j].active_run].started_at
    <3> DEFINE q == claims[j].active_run
    <3>1. claims[j] # None /\ claims'[j].active_run = q /\ q # None /\ q \in Runs
      BY <2>1, <2>2 DEF TypeOK, ClaimRow
    <3>2. runs[r].finished_at <= runs[q].started_at
      BY <2>1, <3>1, Zenon DEF Times, FinishedBefore
    <3>3. runs'[q].started_at = runs[q].started_at
      BY <3>1, Zenon
    <3> QED
      BY <2>1, <3>1, <3>2, <3>3, Zenon
  <2>3. ASSUME NEW w \in Workers, pc'[w] = "claimed", Holder(w, j)'
        PROVE  runs'[r].finished_at <= since'[w]
    BY <2>1, <2>3, Zenon DEF Times, FinishedBefore
  <2> QED
    BY <2>1, <2>2, <2>3, Zenon DEF Holder
<1>5. RunsSerial'
  BY <1>1 DEF Times, RunsSerial
<1> QED
  BY <1>3, <1>4, <1>5, Zenon DEF Times

\* Every change keeps the finished runs of a job in order.  The takeover stamps
\* another process's run, and the new holder reads the clock only afterwards.
LEMMA StepTimes == TypeOK /\ TypeOK' /\ Ownership /\ Times /\ Change => Times'
<1> SUFFICES ASSUME TypeOK, TypeOK', Ownership, Times, Change PROVE Times'
  BY Zenon
<1> USE SchedulerConstants
<1>0. now \in Nat /\ now' \in Nat /\ \A w \in Workers : since[w] \in Nat /\ since[w] <= now
  BY Zenon DEF TypeOK, Times, StampsPast
<1>1. ASSUME Outside PROVE Times'
  <2>1. /\ UNCHANGED <<claims, runs, task, pc, since>> /\ now <= now'
    BY <1>1, Zenon DEF Outside
  <2>2. \A w \in Workers : since'[w] <= now'
    BY <1>0, <2>1
  <2> QED
    BY <2>1, <2>2, TimesKept, Zenon DEF Holder
<1>2. ASSUME NEW w \in Workers, Quiet(w) PROVE Times'
  <2>1. UNCHANGED <<now, claims, runs, task>>
    BY <1>2, Zenon DEF Quiet
  <2>2. \A v \in Workers : since'[v] <= now'
    BY <1>0, <1>2 DEF Quiet, MovedTo
  <2>3. \A v \in Workers : pc'[v] = "claimed" => pc[v] = "claimed" /\ since'[v] = since[v]
    BY <1>2, Zenon DEF Quiet, MovedTo
  <2>4. now <= now'
    BY <1>0, <2>1
  <2> QED
    BY <2>1, <2>2, <2>3, <2>4, TimesKept, Zenon DEF Holder
<1>3. ASSUME NEW w \in Workers, Dropped(w) PROVE Times'
  <2>1. UNCHANGED <<now, claims, runs>>
    BY <1>3, Zenon DEF Dropped
  <2>2. \A v \in Workers : since'[v] <= now'
    BY <1>0, <1>3 DEF Dropped, MovedTo
  <2>3. \A v \in Workers : pc'[v] = "claimed" => v # w /\ pc[v] = "claimed" /\ since'[v] = since[v]
    BY <1>3, Zenon DEF Dropped, MovedTo
  <2>4. \A v \in Workers, j \in Jobs : v # w /\ Holder(v, j)' => Holder(v, j)
    BY <1>3, Zenon DEF Dropped, Holder
  <2>5. now <= now'
    BY <1>0, <2>1
  <2> QED
    BY <2>1, <2>2, <2>3, <2>4, <2>5, TimesKept, Zenon
<1>4. ASSUME NEW w \in Workers, NEW j \in Jobs, Released(w, j) PROVE Times'
  <2>1. UNCHANGED <<now, runs>>
    BY <1>4, Zenon DEF Released
  <2>2. \A v \in Workers : since'[v] <= now'
    BY <1>0, <1>4 DEF Released, MovedTo
  <2>3. \A v \in Workers : pc'[v] = "claimed" => v # w /\ pc[v] = "claimed" /\ since'[v] = since[v]
    BY <1>4, Zenon DEF Released, MovedTo
  <2>4. /\ claims'[j].active_run = None /\ claims'[j].owner = None
        /\ \A i \in Jobs : i # j => claims'[i] = claims[i]
    BY <1>4, ClaimRowFacts DEF Released, Holder
  <2>5. \A v \in Workers, i \in Jobs : v # w /\ Holder(v, i)' => Holder(v, i)
    BY <1>4, <2>4 DEF Released, Holder
  <2>6. now <= now'
    BY <1>0, <2>1
  <2> QED
    BY <2>1, <2>2, <2>3, <2>4, <2>5, <2>6, TimesKept, Zenon
<1>5. ASSUME NEW w \in Workers, NEW j \in Jobs, NEW t \in Nat, Renewed(w, j, t) PROVE Times'
  <2>1. UNCHANGED <<now, runs, task>>
    BY <1>5, Zenon DEF Renewed
  <2>2. \A v \in Workers : since'[v] <= now'
    BY <1>0, <1>5 DEF Renewed, MovedTo
  <2>3. \A v \in Workers : pc'[v] = "claimed" => pc[v] = "claimed" /\ since'[v] = since[v]
    BY <1>5, Zenon DEF Renewed, MovedTo
  <2>4. /\ claims'[j].active_run = claims[j].active_run /\ claims[j] # None
        /\ claims'[j].owner = claims[j].owner /\ claims'[j].fence = claims[j].fence
        /\ \A i \in Jobs : i # j => claims'[i] = claims[i]
    <3>1. t + Lease \in Nat
      OBVIOUS
    <3> QED
      BY <1>5, <3>1, ClaimRowFacts DEF Renewed, Holder
  <2>5. \A v \in Workers, i \in Jobs : Holder(v, i)' => Holder(v, i)
    BY <2>1, <2>4, Zenon DEF Holder
  <2>6. now <= now'
    BY <1>0, <2>1
  <2> QED
    BY <2>1, <2>2, <2>3, <2>4, <2>5, <2>6, TimesKept, Zenon
<1>6. ASSUME NEW w \in Workers, NEW j \in Jobs, NEW next \in Nat, NEW t \in Nat, Clocked(w, j, next, t)
      PROVE Times'
  <2>1. UNCHANGED <<now, claims, runs, task>>
    BY <1>6, Zenon DEF Clocked
  <2>2. \A v \in Workers : since'[v] <= now'
    BY <1>0, <1>6 DEF Clocked, MovedTo
  <2>3. \A v \in Workers : pc'[v] = "claimed" => pc[v] = "claimed" /\ since'[v] = since[v]
    BY <1>6, Zenon DEF Clocked, MovedTo
  <2>4. now <= now'
    BY <1>0, <2>1
  <2> QED
    BY <2>1, <2>2, <2>3, <2>4, TimesKept, Zenon DEF Holder
<1>7. ASSUME NEW w \in Workers, NEW j \in Jobs, NEW r \in Runs, NEW ok \in BOOLEAN, Observed(w, j, r, ok)
      PROVE Times'
  <2>1. UNCHANGED <<now, claims, task>>
    BY <1>7, Zenon DEF Observed
  <2>2. \A v \in Workers : since'[v] <= now'
    BY <1>0, <1>7 DEF Observed, MovedTo
  <2>3. \A v \in Workers : pc'[v] = "claimed" => pc[v] = "claimed" /\ since'[v] = since[v]
    BY <1>7, Zenon DEF Observed, MovedTo
  <2>4. /\ runs[r] # None /\ runs'[r] # None
        /\ runs'[r].job = runs[r].job /\ runs'[r].status = runs[r].status
        /\ runs'[r].started_at = runs[r].started_at
        /\ runs'[r].finished_at = runs[r].finished_at
    <3>1. runs[r] \in RunRow
      BY <1>7, ActiveRunKnown, Zenon DEF Observed, Ownership
    <3>2. [runs[r] EXCEPT !.obs = @ \cup {ok}] \in RunRow
      BY <3>1, Zenon DEF RunRow
    <3> QED
      BY <1>7, <3>1, <3>2, Zenon DEF Observed, RunRow
  <2>5. \A q \in Runs : q # r => runs'[q] = runs[q]
    BY <1>7, Zenon DEF Observed
  <2> QED
    BY <1>0, <2>1, <2>2, <2>3, <2>4, <2>5, TimesKept DEF Holder
<1>8. ASSUME NEW w \in Workers, NEW j \in Jobs, NEW t \in Nat, NEW due \in BOOLEAN,
             Acquired(w, j, t, due) PROVE Times'
  <2> DEFINE expired(r) == claims[j] # None /\ claims[j].active_run = r
  <2>1. /\ now' = now /\ t <= now /\ pc'[w] = "claimed" /\ since'[w] = now
        /\ \A v \in Workers : v # w => pc'[v] = pc[v] /\ since'[v] = since[v]
    BY <1>8, Zenon DEF Acquired, MovedTo, Timed
  <2>2. /\ claims'[j].active_run = None /\ claims'[j].owner = w
        /\ \A i \in Jobs : i # j => claims'[i] = claims[i]
    BY <1>8 DEF Acquired, AcquiredClaim
  <2>3. \A v \in Workers : v # w => task'[v] = task[v]
    BY <1>8, Zenon DEF Acquired
  <2>4. \A r \in Runs : expired(r) =>
          /\ runs[r] # None /\ runs[r].status = "running" /\ runs[r].job = j
    BY Zenon DEF Ownership, ActiveRunBound
  <2>5. \A r \in Runs : ~expired(r) => runs'[r] = runs[r]
    BY <1>8, RecoveredFacts DEF Acquired
  <2>6. \A r \in Runs : expired(r) =>
          /\ runs'[r] # None /\ runs'[r].job = j /\ runs'[r].status = "failed"
          /\ runs'[r].started_at = runs[r].started_at
          /\ runs'[r].finished_at \in Nat
          /\ runs'[r].finished_at <= now /\ runs[r].started_at <= runs'[r].finished_at
    <3> SUFFICES ASSUME NEW r \in Runs, expired(r)
                 PROVE  /\ runs'[r] # None /\ runs'[r].job = j /\ runs'[r].status = "failed"
                        /\ runs'[r].started_at = runs[r].started_at
                        /\ runs'[r].finished_at \in Nat
                        /\ runs'[r].finished_at <= now /\ runs[r].started_at <= runs'[r].finished_at
      BY Zenon
    <3>1. runs[r] # None /\ runs[r].status = "running" /\ runs[r].job = j
      BY <2>4, Zenon
    <3>2. /\ runs'[r] \in RunRow /\ runs'[r].job = runs[r].job /\ runs'[r].status = "failed"
          /\ runs'[r].started_at = runs[r].started_at
          /\ runs'[r].finished_at = MaxOf(t, runs[r].started_at)
      BY <1>8, <3>1, RecoveredFacts DEF Acquired
    <3>3. runs[r].started_at \in Nat /\ runs[r].started_at <= now
      BY <3>1, RunStamps, Zenon DEF Times, StampsPast
    <3> QED
      BY <1>0, <2>1, <3>1, <3>2, <3>3 DEF MaxOf
  <2> HIDE DEF expired
  <2>7. StampsPast'
    <3>1. \A v \in Workers : since'[v] <= now'
      BY <1>0, <2>1
    <3>2. ASSUME NEW r \in Runs, runs'[r] # None PROVE StampsPast!2!(r)!2'
      <4>1. CASE expired(r)
        BY <1>0, <2>1, <2>4, <2>6, <4>1, Zenon DEF Times, StampsPast
      <4>2. CASE ~expired(r)
        BY <2>1, <2>5, <3>2, <4>2, Zenon DEF Times, StampsPast
      <4> QED
        BY <4>1, <4>2, Zenon
    <3> QED
      BY <3>1, <3>2, Zenon DEF StampsPast
  <2>8. ASSUME NEW r \in Runs, runs'[r] # None, runs'[r].finished_at # None, ~expired(r)
        PROVE  /\ runs'[r] = runs[r] /\ runs[r] # None /\ runs[r].finished_at # None
               /\ runs[r].finished_at \in Nat /\ runs[r].finished_at <= now /\ runs[r].job \in Jobs
    BY <2>5, <2>8, RunStamps, Zenon DEF Times, StampsPast
  <2>9. FinishedBefore'
    <3> SUFFICES ASSUME NEW r \in Runs, runs'[r] # None, runs'[r].finished_at # None
                 PROVE  FinishedBefore!(r)!2'
      BY Zenon DEF FinishedBefore
    <3>1. runs'[r].finished_at <= now /\ runs'[r].job \in Jobs
      BY <2>6, <2>8, Zenon
    <3>2. CASE runs'[r].job = j
      <4>1. ASSUME NEW v \in Workers, Holder(v, j)' PROVE v = w
        BY <2>2, <4>1, Zenon DEF Holder
      <4> QED
        BY <2>1, <2>2, <3>1, <3>2, <4>1, Zenon
    <3>3. CASE runs'[r].job # j
      <4> DEFINE i == runs[r].job
      <4>1. ~expired(r)
        BY <2>6, <3>3, Zenon
      <4>2. /\ runs'[r] = runs[r] /\ runs[r] # None /\ runs[r].finished_at # None
            /\ i \in Jobs /\ i # j /\ claims'[i] = claims[i]
        BY <2>2, <2>8, <3>3, <4>1, Zenon
      <4>3. ASSUME claims'[i] # None, claims'[i].active_run # None
            PROVE  runs'[r].finished_at <= runs'[claims'[i].active_run].started_at
        <5> DEFINE q == claims[i].active_run
        <5>1. q \in Runs /\ ~expired(q)
          BY <4>2, <4>3, <2>4 DEF TypeOK, ClaimRow, Ownership, ActiveRunBound, expired
        <5>2. runs[r].finished_at <= runs[q].started_at
          BY <4>2, <4>3, Zenon DEF Times, FinishedBefore
        <5> QED
          BY <2>5, <4>2, <5>1, <5>2, Zenon
      <4>4. ASSUME NEW v \in Workers, pc'[v] = "claimed", Holder(v, i)'
            PROVE  runs'[r].finished_at <= since'[v]
        <5>1. v # w
          BY <1>8, <4>2, <4>4 DEF Acquired, Holder
        <5>2. Holder(v, i)
          BY <2>3, <4>2, <4>4, <5>1, Zenon DEF Holder
        <5> QED
          BY <2>1, <4>2, <4>4, <5>1, <5>2, Zenon DEF Times, FinishedBefore
      <4> QED
        BY <4>2, <4>3, <4>4, Zenon DEF Holder
    <3> QED
      BY <3>2, <3>3, Zenon
  <2>10. RunsSerial'
    <3>1. ASSUME NEW r \in Runs, NEW s \in Runs, expired(s), ~expired(r),
                 runs'[r] # None, runs'[r].finished_at # None, runs'[r].job = runs'[s].job
          PROVE  runs'[r].finished_at <= runs'[s].started_at
      <4>1. /\ runs'[r] = runs[r] /\ runs[r] # None /\ runs[r].finished_at # None
            /\ runs[r].job = j /\ claims[j] # None /\ claims[j].active_run = s /\ s # None
        BY <2>6, <2>8, <3>1, Zenon DEF expired
      <4> QED
        BY <2>6, <3>1, <4>1, Zenon DEF Times, FinishedBefore
    <3> SUFFICES ASSUME NEW r \in Runs, NEW s \in Runs,
                        r # s, runs'[r] # None, runs'[s] # None, runs'[r].job = runs'[s].job,
                        runs'[r].finished_at # None, runs'[s].finished_at # None
                 PROVE  \/ runs'[r].finished_at <= runs'[s].started_at
                        \/ runs'[s].finished_at <= runs'[r].started_at
      BY Zenon DEF RunsSerial
    <3>2. CASE expired(r) /\ expired(s)
      BY <3>2, Zenon DEF expired
    <3>3. CASE ~expired(r) /\ ~expired(s)
      BY <2>8, <3>3, Zenon DEF Times, RunsSerial
    <3> QED
      BY <3>1, <3>2, <3>3, Zenon
  <2> QED
    BY <2>7, <2>9, <2>10, Zenon DEF Times
<1>9. ASSUME NEW w \in Workers, NEW j \in Jobs, NEW r \in Runs, NEW t \in Nat, Started(w, j, r, t)
      PROVE Times'
  <2>1. /\ now' = now /\ since[w] <= t /\ t <= now /\ pc[w] = "claimed" /\ Holder(w, j)
        /\ pc'[w] = "running" /\ since'[w] \in {0, now}
        /\ \A v \in Workers : v # w => pc'[v] = pc[v] /\ since'[v] = since[v] /\ task'[v] = task[v]
    BY <1>9, Zenon DEF Started, MovedTo
  <2>2. /\ claims'[j].active_run = r /\ claims'[j].owner = claims[j].owner
        /\ claims'[j].fence = claims[j].fence /\ claims[j] # None
        /\ \A i \in Jobs : i # j => claims'[i] = claims[i]
    BY <1>9, ClaimRowFacts DEF Started, Holder
  <2>3. /\ runs'[r].finished_at = None /\ runs'[r].status = "running"
        /\ runs'[r].started_at = t /\ runs'[r].job = j /\ runs[r] = None
        /\ \A q \in Runs : q # r => runs'[q] = runs[q]
    BY <1>9 DEF Started
  <2>4. StampsPast'
    <3>1. \A v \in Workers : since'[v] <= now'
      BY <1>0, <2>1
    <3> QED
      BY <2>1, <2>3, <3>1, Zenon DEF Times, StampsPast
  <2>5. FinishedBefore'
    <3> SUFFICES ASSUME NEW q \in Runs, runs'[q] # None, runs'[q].finished_at # None
                 PROVE  FinishedBefore!(q)!2'
      BY Zenon DEF FinishedBefore
    <3> DEFINE i == runs[q].job
    <3>1. /\ q # r /\ runs'[q] = runs[q] /\ i \in Jobs /\ runs[q].finished_at \in Nat
      BY <2>3, RunStamps, Zenon
    <3>2. ASSUME claims'[i] # None, claims'[i].active_run # None
          PROVE  runs'[q].finished_at <= runs'[claims'[i].active_run].started_at
      <4>1. CASE i = j
        <5>1. runs[q].finished_at <= since[w]
          BY <2>1, <3>1, <4>1, Zenon DEF Times, FinishedBefore
        <5> QED
          BY <1>0, <2>1, <2>2, <2>3, <3>1, <4>1, <5>1
      <4>2. CASE i # j
        <5> DEFINE s == claims[i].active_run
        <5>1. claims'[i] = claims[i] /\ s \in Runs /\ runs[s] # None
          BY <2>2, <3>1, <3>2, <4>2 DEF TypeOK, ClaimRow, Ownership, ActiveRunBound
        <5>2. runs[q].finished_at <= runs[s].started_at /\ runs'[s] = runs[s]
          BY <2>3, <3>1, <3>2, <5>1, Zenon DEF Times, FinishedBefore
        <5> QED
          BY <3>1, <5>1, <5>2, Zenon
      <4> QED
        BY <4>1, <4>2, Zenon
    <3>3. ASSUME NEW v \in Workers, pc'[v] = "claimed", Holder(v, i)'
          PROVE  runs'[q].finished_at <= since'[v]
      <4>1. v # w
        BY <2>1, <3>3, Zenon
      <4>2. Holder(v, i)
        BY <2>1, <2>2, <3>1, <3>3, <4>1 DEF Holder
      <4> QED
        BY <2>1, <3>1, <3>3, <4>1, <4>2, Zenon DEF Times, FinishedBefore
    <3> QED
      BY <3>1, <3>2, <3>3, Zenon DEF Holder
  <2>6. RunsSerial'
    BY <2>3, Zenon DEF Times, RunsSerial
  <2> QED
    BY <2>4, <2>5, <2>6, Zenon DEF Times
<1>10. ASSUME NEW w \in Workers, NEW j \in Jobs, NEW r \in Runs, NEW next \in Nat, NEW t \in Nat,
              Finished(w, j, r, next, t) PROVE Times'
  <2>1. /\ now' = now /\ t <= now /\ runs[r].started_at <= t /\ task' = task
        /\ pc'[w] = "release" /\ since'[w] \in {0, now}
        /\ \A v \in Workers : v # w => pc'[v] = pc[v] /\ since'[v] = since[v]
    BY <1>10, Zenon DEF Finished, MovedTo
  <2>2. /\ claims'[j].active_run = None /\ claims'[j].owner = claims[j].owner
        /\ claims'[j].fence = claims[j].fence /\ claims[j] # None /\ claims[j].active_run = r
        /\ \A i \in Jobs : i # j => claims'[i] = claims[i]
    BY <1>10, ClaimRowFacts DEF Finished, ActiveRunOf
  <2>3. /\ runs'[r].finished_at = t /\ runs'[r].status # "running" /\ runs'[r].job = j
        /\ runs'[r].started_at = runs[r].started_at /\ runs[r] # None /\ runs[r].job = j
        /\ \A q \in Runs : q # r => runs'[q] = runs[q]
    <3>1. runs[r] \in RunRow /\ runs[r].job = j
      BY <1>10, ActiveRunKnown, Zenon DEF Finished, Ownership
    <3> QED
      BY <1>10, <3>1 DEF Finished, RunRow, FinalStatus
  <2>4. StampsPast'
    <3>1. \A v \in Workers : since'[v] <= now'
      BY <1>0, <2>1
    <3>2. runs[r].started_at \in Nat /\ runs[r].started_at <= now
      BY <2>3, RunStamps, Zenon DEF Times, StampsPast
    <3> QED
      BY <2>1, <2>3, <3>1, <3>2 DEF Times, StampsPast
  <2>5. \A v \in Workers : Holder(v, j) => pc[v] # "claimed"
    <3>1. PICK u \in Workers : Holder(u, j) /\ task[u].run = r
      BY <2>2, Zenon DEF Ownership, ActiveRunBound
    <3> QED
      BY <3>1 DEF Holder, Ownership, TasksPlaced
  <2>6. FinishedBefore'
    <3> SUFFICES ASSUME NEW q \in Runs, runs'[q] # None, runs'[q].finished_at # None
                 PROVE  FinishedBefore!(q)!2'
      BY Zenon DEF FinishedBefore
    <3>1. \A v \in Workers, k \in Jobs : Holder(v, k)' => Holder(v, k)
      BY <2>1, <2>2, Zenon DEF Holder
    <3>2. CASE runs'[q].job = j
      BY <2>1, <2>2, <2>5, <3>1, <3>2 DEF Holder
    <3>3. CASE runs'[q].job # j
      <4> DEFINE i == runs[q].job
      <4>1. q # r /\ runs'[q] = runs[q] /\ i \in Jobs /\ i # j /\ claims'[i] = claims[i]
        BY <2>2, <2>3, <3>3, RunStamps
      <4>2. ASSUME claims'[i] # None, claims'[i].active_run # None
            PROVE  runs'[q].finished_at <= runs'[claims'[i].active_run].started_at
        <5> DEFINE s == claims[i].active_run
        <5>1. s \in Runs /\ runs[s] # None /\ runs[s].job = i
          BY <4>1, <4>2 DEF TypeOK, ClaimRow, Ownership, ActiveRunBound
        <5>2. runs[q].finished_at <= runs[s].started_at /\ runs'[s] = runs[s]
          BY <2>3, <3>3, <4>1, <4>2, <5>1, Zenon DEF Times, FinishedBefore
        <5> QED
          BY <4>1, <5>2, Zenon
      <4>3. ASSUME NEW v \in Workers, pc'[v] = "claimed", Holder(v, i)'
            PROVE  runs'[q].finished_at <= since'[v]
        BY <2>1, <3>1, <4>1, <4>3, Zenon DEF Times, FinishedBefore
      <4> QED
        BY <4>1, <4>2, <4>3, Zenon DEF Holder
    <3> QED
      BY <3>2, <3>3, Zenon
  <2>7. RunsSerial'
    <3>1. ASSUME NEW q \in Runs, q # r, runs'[q] # None, runs'[q].finished_at # None, runs'[q].job = j
          PROVE  runs'[q].finished_at <= runs'[r].started_at
      BY <2>2, <2>3, <3>1 DEF Times, FinishedBefore
    <3> SUFFICES ASSUME NEW p \in Runs, NEW q \in Runs,
                        p # q, runs'[p] # None, runs'[q] # None, runs'[p].job = runs'[q].job,
                        runs'[p].finished_at # None, runs'[q].finished_at # None
                 PROVE  \/ runs'[p].finished_at <= runs'[q].started_at
                        \/ runs'[q].finished_at <= runs'[p].started_at
      BY Zenon DEF RunsSerial
    <3>2. CASE p = r \/ q = r
      BY <2>3, <3>1, <3>2, Zenon
    <3>3. CASE p # r /\ q # r
      BY <2>3, <3>3, Zenon DEF Times, RunsSerial
    <3> QED
      BY <3>2, <3>3, Zenon
  <2> QED
    BY <2>4, <2>6, <2>7, Zenon DEF Times
<1> QED
  BY <1>1, <1>2, <1>3, <1>4, <1>5, <1>6, <1>7, <1>8, <1>9, <1>10, Zenon DEF Change

----------------------------------------------------------------------------
(* Job clocks.                                                             *)

Clocks == ClockSpaced /\ DueHeld

\* A step that claims no job and sets no clock.
LEMMA ClocksKept ==
  ASSUME Clocks,
         \A j \in Jobs : /\ jobs'[j].usable = jobs[j].usable
                         /\ jobs'[j].next_run_at = jobs[j].next_run_at
                         /\ jobs'[j].last_run_at = jobs[j].last_run_at,
         \A w \in Workers, j \in Jobs : pc'[w] = "claimed" /\ Holder(w, j)' =>
           /\ pc[w] = "claimed" /\ Holder(w, j) /\ since'[w] = since[w]
           /\ task'[w].due = task[w].due
  PROVE  Clocks'
<1>1. ClockSpaced'
  BY Zenon DEF Clocks, ClockSpaced
<1>2. DueHeld'
  BY Zenon DEF Clocks, DueHeld
<1> QED
  BY <1>1, <1>2, Zenon DEF Clocks

\* Every change keeps an interval between the clock of a job and a claim taken
\* because it was due.
LEMMA StepClocks == TypeOK /\ TypeOK' /\ Ownership /\ Times /\ Clocks /\ Change => Clocks'
<1> SUFFICES ASSUME TypeOK, TypeOK', Ownership, Times, Clocks, Change PROVE Clocks'
  BY Zenon
<1> USE SchedulerConstants
<1>0. /\ now \in Nat /\ \A w \in Workers : since[w] \in Nat /\ since[w] <= now
      /\ \A j \in Jobs : jobs[j].next_run_at \in Nat /\ jobs[j].last_run_at \in Nat \cup {None}
  BY Zenon DEF TypeOK, JobRow, Times, StampsPast
<1>1. ASSUME Outside PROVE Clocks'
  BY <1>1, ClocksKept, Zenon DEF Outside, Holder
<1>2. ASSUME NEW w \in Workers, Quiet(w) PROVE Clocks'
  <2>1. UNCHANGED <<jobs, claims, task>>
    BY <1>2, Zenon DEF Quiet
  <2>2. \A v \in Workers : pc'[v] = "claimed" => pc[v] = "claimed" /\ since'[v] = since[v]
    BY <1>2, Zenon DEF Quiet, MovedTo
  <2> QED
    BY <2>1, <2>2, ClocksKept, Zenon DEF Holder
<1>3. ASSUME NEW w \in Workers, Dropped(w) PROVE Clocks'
  <2>1. UNCHANGED <<jobs, claims>> /\ \A v \in Workers : v # w => task'[v] = task[v]
    BY <1>3, Zenon DEF Dropped
  <2>2. \A v \in Workers : pc'[v] = "claimed" => v # w /\ pc[v] = "claimed" /\ since'[v] = since[v]
    BY <1>3, Zenon DEF Dropped, MovedTo
  <2> QED
    BY <2>1, <2>2, ClocksKept, Zenon DEF Holder
<1>4. ASSUME NEW w \in Workers, NEW j \in Jobs, Released(w, j) PROVE Clocks'
  <2>1. jobs' = jobs /\ \A v \in Workers : v # w => task'[v] = task[v]
    BY <1>4, Zenon DEF Released
  <2>2. \A v \in Workers : pc'[v] = "claimed" => v # w /\ pc[v] = "claimed" /\ since'[v] = since[v]
    BY <1>4, Zenon DEF Released, MovedTo
  <2>3. claims'[j].owner = None /\ \A i \in Jobs : i # j => claims'[i] = claims[i]
    BY <1>4, ClaimRowFacts DEF Released, Holder
  <2>4. \A v \in Workers, i \in Jobs : v # w /\ Holder(v, i)' => Holder(v, i)
    BY <2>1, <2>3, Zenon DEF Holder
  <2> QED
    BY <2>1, <2>2, <2>4, ClocksKept, Zenon
<1>5. ASSUME NEW w \in Workers, NEW j \in Jobs, NEW t \in Nat, Renewed(w, j, t) PROVE Clocks'
  <2>1. UNCHANGED <<jobs, task>>
    BY <1>5, Zenon DEF Renewed
  <2>2. \A v \in Workers : pc'[v] = "claimed" => pc[v] = "claimed" /\ since'[v] = since[v]
    BY <1>5, Zenon DEF Renewed, MovedTo
  <2>3. /\ claims'[j].owner = claims[j].owner /\ claims'[j].fence = claims[j].fence
        /\ claims[j] # None /\ \A i \in Jobs : i # j => claims'[i] = claims[i]
    <3>1. t + Lease \in Nat
      OBVIOUS
    <3> QED
      BY <1>5, <3>1, ClaimRowFacts DEF Renewed, Holder
  <2>4. \A v \in Workers, i \in Jobs : Holder(v, i)' => Holder(v, i)
    BY <2>1, <2>3, Zenon DEF Holder
  <2> QED
    BY <2>1, <2>2, <2>4, ClocksKept, Zenon
<1>6. ASSUME NEW w \in Workers, NEW j \in Jobs, NEW next \in Nat, NEW t \in Nat, Clocked(w, j, next, t)
      PROVE Clocks'
  <2>1. /\ UNCHANGED <<claims, task>> /\ ~jobs[j].usable /\ next >= t + Interval
        /\ jobs'[j].next_run_at = next /\ jobs'[j].last_run_at = t
        /\ jobs'[j].usable = jobs[j].usable /\ \A i \in Jobs : i # j => jobs'[i] = jobs[i]
    BY <1>6, ClockSetFacts DEF Clocked
  <2>2. \A v \in Workers : pc'[v] = "claimed" => pc[v] = "claimed" /\ since'[v] = since[v]
    BY <1>6, Zenon DEF Clocked, MovedTo
  <2>3. ClockSpaced'
    BY <2>1, Zenon DEF Clocks, ClockSpaced
  <2>4. DueHeld'
    BY <2>1, <2>2 DEF Clocks, DueHeld, Holder
  <2> QED
    BY <2>3, <2>4, Zenon DEF Clocks
<1>7. ASSUME NEW w \in Workers, NEW j \in Jobs, NEW r \in Runs, NEW ok \in BOOLEAN, Observed(w, j, r, ok)
      PROVE Clocks'
  <2>1. UNCHANGED <<jobs, claims, task>>
    BY <1>7, Zenon DEF Observed
  <2>2. \A v \in Workers : pc'[v] = "claimed" => pc[v] = "claimed" /\ since'[v] = since[v]
    BY <1>7, Zenon DEF Observed, MovedTo
  <2> QED
    BY <2>1, <2>2, ClocksKept, Zenon DEF Holder
<1>8. ASSUME NEW w \in Workers, NEW j \in Jobs, NEW t \in Nat, NEW due \in BOOLEAN,
             Acquired(w, j, t, due) PROVE Clocks'
  <2>1. /\ jobs' = jobs /\ t <= now /\ since'[w] = now /\ (due => jobs[j].next_run_at <= t)
        /\ \A v \in Workers : v # w => pc'[v] = pc[v] /\ since'[v] = since[v] /\ task'[v] = task[v]
    BY <1>8, Zenon DEF Acquired, MovedTo, Timed, Due
  <2>2. claims'[j].owner = w /\ \A i \in Jobs : i # j => claims'[i] = claims[i]
    BY <1>8 DEF Acquired, AcquiredClaim
  <2>3. task'[w].job = j /\ task'[w].due = due
    BY <1>8 DEF Acquired
  <2>4. ASSUME NEW v \in Workers, NEW i \in Jobs, DueHeld!(v, i)!1' PROVE DueHeld!(v, i)!2'
    <3>1. CASE v = w
      <4>1. i = j /\ due
        BY <2>3, <2>4, <3>1, Zenon DEF Holder
      <4> QED
        BY <1>0, <2>1, <2>4, <3>1, <4>1 DEF Clocks, ClockSpaced
    <3>2. CASE v # w
      <4>1. i # j
        BY <2>2, <2>4, <3>2, Zenon DEF Holder
      <4>2. Holder(v, i)
        BY <2>1, <2>2, <2>4, <3>2, <4>1, Zenon DEF Holder
      <4> QED
        BY <2>1, <2>4, <3>2, <4>2, Zenon DEF Clocks, DueHeld
    <3> QED
      BY <3>1, <3>2, Zenon
  <2>5. DueHeld'
    BY <2>4, Zenon DEF DueHeld
  <2>6. ClockSpaced'
    BY <2>1, Zenon DEF Clocks, ClockSpaced
  <2> QED
    BY <2>5, <2>6, Zenon DEF Clocks
<1>9. ASSUME NEW w \in Workers, NEW j \in Jobs, NEW r \in Runs, NEW t \in Nat, Started(w, j, r, t)
      PROVE Clocks'
  <2>1. /\ jobs' = jobs /\ pc'[w] # "claimed"
        /\ \A v \in Workers : v # w => pc'[v] = pc[v] /\ since'[v] = since[v] /\ task'[v] = task[v]
    BY <1>9, Zenon DEF Started, MovedTo
  <2>2. /\ claims'[j].owner = claims[j].owner /\ claims'[j].fence = claims[j].fence
        /\ claims[j] # None /\ \A i \in Jobs : i # j => claims'[i] = claims[i]
    BY <1>9, ClaimRowFacts DEF Started, Holder
  <2>3. \A v \in Workers, i \in Jobs : v # w /\ Holder(v, i)' => Holder(v, i)
    BY <2>1, <2>2, Zenon DEF Holder
  <2> QED
    BY <2>1, <2>3, ClocksKept, Zenon
<1>10. ASSUME NEW w \in Workers, NEW j \in Jobs, NEW r \in Runs, NEW next \in Nat, NEW t \in Nat,
              Finished(w, j, r, next, t) PROVE Clocks'
  <2>1. /\ task' = task /\ next >= t + Interval
        /\ jobs'[j].next_run_at = next /\ jobs'[j].last_run_at = t
        /\ \A i \in Jobs : i # j => jobs'[i] = jobs[i]
    BY <1>10, ClockSetFacts DEF Finished
  <2>2. \A v \in Workers : pc'[v] = "claimed" => pc[v] = "claimed" /\ since'[v] = since[v]
    BY <1>10, Zenon DEF Finished, MovedTo
  <2>3. /\ claims'[j].owner = claims[j].owner /\ claims'[j].fence = claims[j].fence
        /\ claims[j] # None /\ claims[j].active_run = r
        /\ \A i \in Jobs : i # j => claims'[i] = claims[i]
    BY <1>10, ClaimRowFacts DEF Finished, ActiveRunOf
  <2>4. \A v \in Workers, i \in Jobs : Holder(v, i)' => Holder(v, i)
    BY <2>1, <2>3, Zenon DEF Holder
  <2>5. \A v \in Workers : Holder(v, j) => pc[v] # "claimed"
    <3>1. PICK u \in Workers : Holder(u, j) /\ task[u].run = r
      BY <2>3, Zenon DEF Ownership, ActiveRunBound
    <3> QED
      BY <3>1 DEF Holder, Ownership, TasksPlaced
  <2>6. ClockSpaced'
    BY <2>1, Zenon DEF Clocks, ClockSpaced
  <2>7. DueHeld'
    BY <2>1, <2>2, <2>4, <2>5, Zenon DEF Clocks, DueHeld
  <2> QED
    BY <2>6, <2>7, Zenon DEF Clocks
<1> QED
  BY <1>1, <1>2, <1>3, <1>4, <1>5, <1>6, <1>7, <1>8, <1>9, <1>10, Zenon DEF Change

----------------------------------------------------------------------------
(* The theorems.                                                           *)

\* The invariant holds before any worker has claimed a job.
LEMMA InitClaims == Init => TypeOK /\ ClaimsInv
<1> SUFFICES ASSUME Init PROVE TypeOK /\ ClaimsInv
  BY Zenon
<1> USE SchedulerConstants
<1>1. \A u \in BOOLEAN :
        [enabled |-> TRUE, usable |-> u, next_run_at |-> 0, last_run_at |-> None] \in JobRow
  BY Zenon DEF JobRow
<1>2. TypeOK
  BY <1>1, Zenon DEF Init, TypeOK
<1>3. \A j \in Jobs : jobs[j].last_run_at = None
  BY DEF Init
<1>4. OwnersHold /\ TasksPlaced /\ ActiveRunBound
  BY Zenon DEF Init, OwnersHold, TasksPlaced, ActiveRunBound
<1>5. StampsPast /\ FinishedBefore /\ RunsSerial
  BY DEF Init, StampsPast, FinishedBefore, RunsSerial
<1>6. ClockSpaced /\ DueHeld
  BY <1>3, Zenon DEF ClockSpaced, DueHeld
<1> QED
  BY <1>2, <1>4, <1>5, <1>6, Zenon DEF ClaimsInv

\* Every step keeps the invariant, and is one of the changes above.
LEMMA StepClaims ==
  TypeOK /\ ClaimsInv /\ [Next]_vars => /\ TypeOK' /\ ClaimsInv'
                                        /\ Change /\ Ownership /\ Times /\ Clocks
<1> SUFFICES ASSUME TypeOK, ClaimsInv, [Next]_vars
             PROVE  TypeOK' /\ ClaimsInv' /\ Change /\ Ownership /\ Times /\ Clocks
  BY Zenon
<1>1. Ownership /\ Times /\ Clocks
  BY Zenon DEF ClaimsInv, Ownership, Times, Clocks
<1>2. TypeOK' /\ Change
  BY <1>1, StepChange, Zenon DEF Ownership
<1>3. Ownership' /\ Times' /\ Clocks'
  BY <1>1, <1>2, StepOwnership, StepTimes, StepClocks, Zenon
<1>4. ClaimsInv'
  BY <1>3, Zenon DEF ClaimsInv, Ownership, Times, Clocks
<1> QED
  BY <1>1, <1>2, <1>4, Zenon

\* The inductive invariant holds whatever the workers, the operator and the
\* clock do, for any number of jobs, workers and runs.
THEOREM ClaimsInvariant == Spec => [](TypeOK /\ ClaimsInv)
<1>1. TypeOK /\ ClaimsInv /\ [Next]_vars => (TypeOK /\ ClaimsInv)'
  BY StepClaims, Zenon
<1> QED
  BY <1>1, InitClaims, PTL DEF Spec

\* A claim's active run is a running run of its job that its present holder
\* started: no takeover, release, crash or late write breaks the binding that
\* write_scheduler_outcome and write_scheduler_run_finish rely on.
THEOREM ActiveRunsBound == Spec => []ActiveRunBound
<1>1. ClaimsInv => ActiveRunBound
  BY Zenon DEF ClaimsInv
<1> QED
  BY <1>1, ClaimsInvariant, PTL

\* The finished runs of a job never overlap by their stamps.
THEOREM FinishedRunsSerial == Spec => []RunsSerial
<1>1. ClaimsInv => RunsSerial
  BY Zenon DEF ClaimsInv
<1> QED
  BY <1>1, ClaimsInvariant, PTL

\* What each change may do to a claim and to a run.
LEMMA ChangeFenced == TypeOK /\ TypeOK' /\ Ownership /\ Change => FencedStep
<1> SUFFICES ASSUME TypeOK, TypeOK', Ownership, Change PROVE FencedStep
  BY Zenon
<1> USE SchedulerConstants
<1>0. \A j \in Jobs : claims[j] # None => claims[j].fence \in Nat
  BY Zenon DEF TypeOK, ClaimRow
<1>1. CASE UNCHANGED <<claims, runs>>
  BY <1>0, <1>1 DEF FencedStep
<1>2. ASSUME NEW w \in Workers, NEW j \in Jobs, Released(w, j) PROVE FencedStep
  <2>1. /\ claims'[j].owner = None /\ claims'[j].fence = claims[j].fence
        /\ runs' = runs /\ \A i \in Jobs : i # j => claims'[i] = claims[i]
    BY <1>2, ClaimRowFacts DEF Released, Holder
  <2> QED
    BY <1>0, <2>1 DEF FencedStep
<1>3. ASSUME NEW w \in Workers, NEW j \in Jobs, NEW t \in Nat, Renewed(w, j, t) PROVE FencedStep
  <2>1. t + Lease \in Nat
    OBVIOUS
  <2>2. /\ claims'[j].owner = claims[j].owner /\ claims'[j].fence = claims[j].fence
        /\ runs' = runs /\ \A i \in Jobs : i # j => claims'[i] = claims[i]
    BY <1>3, <2>1, ClaimRowFacts DEF Renewed, Holder
  <2> QED
    BY <1>0, <2>2 DEF FencedStep
<1>4. ASSUME NEW w \in Workers, NEW j \in Jobs, NEW t \in Nat, NEW due \in BOOLEAN,
             Acquired(w, j, t, due) PROVE FencedStep
  <2>1. /\ t <= now /\ now \in Nat /\ (Claimed(j) => claims[j].lease <= t)
        /\ claims'[j].fence = NextFence(j) /\ \A i \in Jobs : i # j => claims'[i] = claims[i]
    BY <1>4 DEF Acquired, AcquiredClaim, TypeOK
  <2>2. claims[j] # None => claims'[j].fence > claims[j].fence
    BY <1>0, <2>1 DEF NextFence
  <2>3. claims[j] # None /\ claims[j].owner # None => claims[j].lease <= now
    <3> SUFFICES ASSUME claims[j] # None, claims[j].owner # None PROVE claims[j].lease <= now
      BY Zenon
    <3>1. claims[j].lease # None
      BY Zenon DEF Ownership, OwnersHold
    <3>2. claims[j].lease \in Nat
      BY <3>1, Zenon DEF TypeOK, ClaimRow
    <3> QED
      BY <2>1, <3>2 DEF Claimed
  <2>4. ASSUME NEW r \in Runs, runs[r] # None, runs'[r] # runs[r]
        PROVE  /\ runs[r].status = "running" /\ runs[r].job = j /\ claims[j] # None
               /\ claims[j].owner # None
               /\ runs'[r].status = "failed" /\ runs'[r].obs = runs[r].obs
    <3>1. claims[j] # None /\ claims[j].active_run = r /\ runs[r].status = "running"
      BY <1>4, <2>4, RecoveredFacts DEF Acquired
    <3>2. runs'[r].status = "failed" /\ runs'[r].obs = runs[r].obs
      BY <1>4, <2>4, <3>1, RecoveredFacts DEF Acquired
    <3> QED
      BY <3>1, <3>2, Zenon DEF Ownership, OwnersHold, ActiveRunBound
  <2>5. ASSUME NEW i \in Jobs, claims[i] # None PROVE FencedStep!1!(i)!2
    <3>1. CASE i = j
      BY <1>0, <2>2, <2>3, <2>5, <3>1, FenceType, <2>1
    <3>2. CASE i # j
      BY <1>0, <2>1, <2>5, <3>2
    <3> QED
      BY <3>1, <3>2, Zenon
  <2>6. ASSUME NEW r \in Runs, runs[r] # None, runs'[r] # runs[r] PROVE FencedStep!2!(r)!2
    <3>1. claims'[j].fence # claims[j].fence
      BY <1>0, <2>1, <2>2, <2>4, <2>6, FenceType
    <3> QED
      BY <2>3, <2>4, <2>6, <3>1, Zenon
  <2> QED
    BY <2>5, <2>6, Zenon DEF FencedStep
<1>5. ASSUME NEW w \in Workers, NEW j \in Jobs, NEW r \in Runs, NEW t \in Nat, Started(w, j, r, t)
      PROVE FencedStep
  <2>1. /\ claims'[j].owner = claims[j].owner /\ claims'[j].fence = claims[j].fence
        /\ runs[r] = None /\ \A q \in Runs : q # r => runs'[q] = runs[q]
        /\ \A i \in Jobs : i # j => claims'[i] = claims[i]
    BY <1>5, ClaimRowFacts DEF Started, Holder
  <2> QED
    BY <1>0, <2>1 DEF FencedStep
<1>6. ASSUME NEW w \in Workers, NEW j \in Jobs, NEW r \in Runs, ActiveRunOf(j, r),
             \A q \in Runs : q # r => runs'[q] = runs[q],
             claims'[j].owner = claims[j].owner, claims'[j].fence = claims[j].fence,
             \A i \in Jobs : i # j => claims'[i] = claims[i]
      PROVE FencedStep
  <2>1. runs[r].job = j /\ runs[r].status = "running"
    BY <1>6, ActiveRunKnown, Zenon DEF Ownership
  <2>2. \E v \in Workers : Holder(v, j) /\ task[v].run = r
    BY <1>6, Zenon DEF ActiveRunOf, Ownership, ActiveRunBound
  <2>3. ASSUME NEW i \in Jobs, claims[i] # None PROVE FencedStep!1!(i)!2
    BY <1>0, <1>6, <2>3
  <2>4. ASSUME NEW q \in Runs, runs[q] # None, runs'[q] # runs[q] PROVE FencedStep!2!(q)!2
    BY <1>6, <2>1, <2>2, <2>4, Zenon
  <2> QED
    BY <2>3, <2>4, Zenon DEF FencedStep
<1>7. ASSUME NEW w \in Workers, NEW j \in Jobs, NEW r \in Runs, NEW ok \in BOOLEAN, Observed(w, j, r, ok)
      PROVE FencedStep
  BY <1>6, <1>7, Zenon DEF Observed
<1>8. ASSUME NEW w \in Workers, NEW j \in Jobs, NEW r \in Runs, NEW next \in Nat, NEW t \in Nat,
             Finished(w, j, r, next, t) PROVE FencedStep
  <2>1. claims'[j].owner = claims[j].owner /\ claims'[j].fence = claims[j].fence
    BY <1>8, ClaimRowFacts DEF Finished, ActiveRunOf
  <2>2. /\ ActiveRunOf(j, r) /\ \A q \in Runs : q # r => runs'[q] = runs[q]
        /\ \A i \in Jobs : i # j => claims'[i] = claims[i]
    BY <1>8, Zenon DEF Finished
  <2> QED
    BY <1>6, <2>1, <2>2, Zenon
<1> QED
  BY <1>1, <1>2, <1>3, <1>4, <1>5, <1>7, <1>8 DEF Change, Outside, Quiet, Dropped, Clocked

\* A worker that lost its claim changes no run, although the writes of outcomes
\* compare neither owner nor fence; claims change hands only when the lease ran
\* out or was given up.
THEOREM StaleOwnersHarmless == Spec => StaleOwnerHarmless
<1>1. TypeOK /\ ClaimsInv /\ [Next]_vars => [FencedStep]_vars
  BY StepClaims, ChangeFenced, Zenon
<1> QED
  BY <1>1, ClaimsInvariant, PTL DEF Spec, StaleOwnerHarmless

\* What each change may do to a job's clock, and when a due run starts.
LEMMA ChangeSpaced == TypeOK /\ TypeOK' /\ Ownership /\ Clocks /\ Change => SpacedStep
<1> SUFFICES ASSUME TypeOK, TypeOK', Ownership, Clocks, Change PROVE SpacedStep
  BY Zenon
<1> USE SchedulerConstants
<1>0. /\ now \in Nat /\ \A w \in Workers : since[w] \in Nat
      /\ \A j \in Jobs : jobs[j].next_run_at \in Nat /\ jobs[j].last_run_at \in Nat \cup {None}
  BY Zenon DEF TypeOK, JobRow
<1>1. ASSUME NEW w \in Workers, At(w, "claimed"), pc'[w] = "running", task[w].due,
             jobs[task[w].job].last_run_at # None
      PROVE  runs'[task'[w].run].started_at >= jobs[task[w].job].last_run_at + Interval
  <2>1. PICK v \in Workers, j \in Jobs, r \in Runs, t \in Nat : Started(v, j, r, t)
    <3>1. ~Outside
      BY <1>1, Zenon DEF Outside, At
    <3>2. \A v \in Workers : ~Quiet(v) /\ ~Dropped(v)
      BY <1>1, Zenon DEF Quiet, Dropped, MovedTo, At
    <3>3. \A v \in Workers, j \in Jobs :
            /\ ~Released(v, j)
            /\ \A t \in Nat : ~Renewed(v, j, t)
            /\ \A next, t \in Nat : ~Clocked(v, j, next, t)
            /\ \A t \in Nat, due \in BOOLEAN : ~Acquired(v, j, t, due)
      BY <1>1 DEF Released, Renewed, Clocked, Acquired, MovedTo, At
    <3>4. \A v \in Workers, j \in Jobs, r \in Runs :
            \A ok \in BOOLEAN : ~Observed(v, j, r, ok)
      BY <1>1, Zenon DEF Observed, MovedTo, At
    <3>5. \A v \in Workers, j \in Jobs, r \in Runs :
            \A next, t \in Nat : ~Finished(v, j, r, next, t)
      BY <1>1 DEF Finished, MovedTo, At
    <3> QED
      BY <3>1, <3>2, <3>3, <3>4, <3>5, Zenon DEF Change
  <2>2. v = w
    BY <1>1, <2>1, Zenon DEF Started, MovedTo, At
  <2>3. /\ Holder(w, j) /\ task[w].job = j /\ jobs[j].usable /\ since[w] <= t
        /\ runs'[r].started_at = t
    BY <2>1, <2>2 DEF Started, Holder
  <2>4. task'[w].run = r
    <3>1. task[w] \in Task /\ task'[w] = [task[w] EXCEPT !.run = r]
      BY <2>1, <2>2, Zenon DEF Started, Holder, TypeOK
    <3> QED
      BY <3>1, Zenon DEF Task
  <2>5. jobs[j].last_run_at + Interval <= since[w]
    BY <1>1, <2>3, Zenon DEF Clocks, DueHeld, At
  <2> QED
    BY <1>0, <1>1, <2>3, <2>4, <2>5
<1>2. ASSUME NEW w \in Workers, NEW j \in Jobs, NEW next \in Nat, NEW t \in Nat,
             jobs' = ClockSet(j, next, t), ClockAdvances(j, next, t), next >= t + Interval,
             NEW i \in Jobs, jobs'[i].last_run_at # jobs[i].last_run_at
      PROVE  /\ jobs[i].last_run_at # None => jobs'[i].last_run_at > jobs[i].last_run_at
             /\ jobs'[i].next_run_at >= jobs'[i].last_run_at + Interval
  <2>1. /\ jobs'[j].next_run_at = next /\ jobs'[j].last_run_at = t
        /\ \A k \in Jobs : k # j => jobs'[k] = jobs[k]
    BY <1>2, ClockSetFacts
  <2>2. i = j
    BY <1>2, <2>1, Zenon
  <2> QED
    BY <1>0, <1>2, <2>1, <2>2 DEF ClockAdvances
<1>3. ASSUME NEW i \in Jobs, jobs'[i].last_run_at # jobs[i].last_run_at
      PROVE  /\ jobs[i].last_run_at # None => jobs'[i].last_run_at > jobs[i].last_run_at
             /\ jobs'[i].next_run_at >= jobs'[i].last_run_at + Interval
  <2>1. ~Outside /\ \A v \in Workers : ~Quiet(v) /\ ~Dropped(v)
    BY <1>3, Zenon DEF Outside, Quiet, Dropped
  <2>2. \A v \in Workers, j \in Jobs :
          /\ ~Released(v, j)
          /\ \A t \in Nat : ~Renewed(v, j, t)
          /\ \A t \in Nat, due \in BOOLEAN : ~Acquired(v, j, t, due)
          /\ \A r \in Runs, t \in Nat : ~Started(v, j, r, t)
          /\ \A r \in Runs, ok \in BOOLEAN : ~Observed(v, j, r, ok)
    BY <1>3 DEF Released, Renewed, Acquired, Started, Observed
  <2>3. PICK w \in Workers, j \in Jobs, next \in Nat, t \in Nat :
          Clocked(w, j, next, t) \/ \E r \in Runs : Finished(w, j, r, next, t)
    BY <2>1, <2>2, Zenon DEF Change
  <2>4. jobs' = ClockSet(j, next, t) /\ ClockAdvances(j, next, t) /\ next >= t + Interval
    BY <2>3, Zenon DEF Clocked, Finished
  <2> QED
    BY <1>2, <1>3, <2>4, Zenon
<1> QED
  BY <1>1, <1>3, Zenon DEF SpacedStep

\* Scheduled runs of a job are an interval apart and its clock never goes back.
THEOREM ScheduledRunsSpaced == Spec => DueSpacing
<1>1. TypeOK /\ ClaimsInv /\ [Next]_vars => [SpacedStep]_vars
  BY StepClaims, ChangeSpaced, Zenon
<1> QED
  BY <1>1, ClaimsInvariant, PTL DEF Spec, DueSpacing

----------------------------------------------------------------------------
(* The native store.                                                       *)

\* The constants, in the form the proofs use.
LEMMA SchedConstants ==
  /\ NoSched \notin SchedRuns /\ NoSched \notin SchedOwners
  /\ NoSched \notin JobClaimRow /\ NoSched \notin SchedRunRow
  /\ SchedLease \in Nat /\ SchedInterval \in Nat /\ MaxClaims \in Nat
  BY NativeSchedAssumption, Zenon DEF JobClaimRow, SchedRunRow

\* A session without a transaction.
LEMMA IdleFacts == IdleTx.op = "none" /\ IdleTx.held = {} /\ IdleTx \notin ClaimTxRow
  BY Zenon DEF IdleTx, ClaimTxRow, SchedOps

\* A transaction that may still lack its names.
DraftTx ==
  [op : SchedOps \cup {"none"}, job : SchedJobs \cup {NoSched},
   claim : [owner : SchedOwners, fence : {0}] \cup [job : SchedJobs, owner : SchedOwners, fence : Nat]
             \cup {NoSched},
   run : SchedRuns \cup {NoSched}, now : Nat, saw : JobClaimRow \cup {NoSched},
   at : 1..4, held : SUBSET SchedKeys]

\* An idle session's record is a draft.
LEMMA IdleDraft ==
  /\ IdleTx \in DraftTx
  /\ IdleTx.at = 1 /\ IdleTx.held = {}
  BY DEF DraftTx, IdleTx

\* The fields of a transaction.
LEMMA TxFields ==
  ASSUME NEW x \in ClaimTxRow
  PROVE  /\ x.op \in SchedOps /\ x.job \in SchedJobs /\ x.at \in 1..4 /\ x.held \subseteq SchedKeys
         /\ x.claim.owner \in SchedOwners
         /\ x.run \in SchedRuns \cup {NoSched}
         /\ x.now \in Nat /\ x.saw \in JobClaimRow \cup {NoSched}
  BY Zenon DEF ClaimTxRow

\* A session that has a transaction.
LEMMA TxFacts ==
  ASSUME NativeSchedTypeOK, NEW s \in ClaimSessions
  PROVE  /\ claimTx[s] # IdleTx => claimTx[s] \in ClaimTxRow
         /\ claimTx[s].op \in SchedOps => claimTx[s] # IdleTx /\ claimTx[s] \in ClaimTxRow
  <1>1. claimTx[s] \in ClaimTxRow \cup {IdleTx}
    BY Zenon DEF NativeSchedTypeOK
  <1> QED
    BY <1>1, IdleFacts, Zenon DEF SchedOps

\* How many rows an operation locks, and which.
LEMMA OrderFacts ==
  ASSUME NEW op \in SchedOps
  PROVE  /\ op \in {"claim", "claim_due", "start"} =>
              Len(RowOrder(op)) = 2 /\ RowOrder(op)[1] = "job" /\ RowOrder(op)[2] = "claim"
         /\ op = "outcome" => Len(RowOrder(op)) = 3 /\ RowOrder(op)[1] = "claim"
              /\ RowOrder(op)[2] = "job" /\ RowOrder(op)[3] = "run"
         /\ op = "invalid" => Len(RowOrder(op)) = 2 /\ RowOrder(op)[1] = "claim" /\ RowOrder(op)[2] = "job"
         /\ op = "finish" => Len(RowOrder(op)) = 3 /\ RowOrder(op)[1] = "job"
              /\ RowOrder(op)[2] = "claim" /\ RowOrder(op)[3] = "run"
         /\ op \in {"renew", "release"} => Len(RowOrder(op)) = 1 /\ RowOrder(op)[1] = "claim"
  <1>1. CASE op \in {"claim", "claim_due", "start"}
    <2>1. RowOrder(op) = <<"job", "claim">>
      BY <1>1, Zenon DEF RowOrder
    <2> QED
      BY <1>1, <2>1
  <1>2. CASE op = "outcome"
    <2>1. RowOrder(op) = <<"claim", "job", "run">>
      BY <1>2, Zenon DEF RowOrder
    <2> QED
      BY <1>2, <2>1
  <1>3. CASE op = "invalid"
    <2>1. RowOrder(op) = <<"claim", "job">>
      BY <1>3, Zenon DEF RowOrder
    <2> QED
      BY <1>3, <2>1
  <1>4. CASE op = "finish"
    <2>1. RowOrder(op) = <<"job", "claim", "run">>
      BY <1>4, Zenon DEF RowOrder
    <2> QED
      BY <1>4, <2>1
  <1>5. CASE op \in {"renew", "release"}
    <2>1. RowOrder(op) = <<"claim">>
      BY <1>5, Zenon DEF RowOrder
    <2> QED
      BY <1>5, <2>1
  <1> QED
    BY <1>1, <1>2, <1>3, <1>4, <1>5, Zenon DEF SchedOps

\* The rows of a table are those the locks name.
LEMMA TableFacts ==
  ASSUME NEW x \in ClaimTxRow, x.at <= Len(RowOrder(x.op))
  PROVE  /\ RowOrder(x.op)[x.at] \in {"job", "claim", "run"}
         /\ x.at + 1 \in 1..4
         /\ RowOrder(x.op)[x.at] = "run" => x.op \in {"outcome", "finish"}
  <1>1. x.op \in SchedOps /\ x.at \in 1..4
    BY TxFields, Zenon
  <1>2. x.at = 1 \/ x.at = 2 \/ x.at = 3 \/ x.at = 4
    BY <1>1
  <1>3. CASE x.op \in {"claim", "claim_due", "start", "invalid"}
    BY <1>1, <1>2, <1>3, OrderFacts
  <1>4. CASE x.op \in {"outcome", "finish"}
    BY <1>1, <1>2, <1>4, OrderFacts
  <1>5. CASE x.op \in {"renew", "release"}
    BY <1>1, <1>2, <1>5, OrderFacts
  <1> QED
    BY <1>1, <1>3, <1>4, <1>5, Zenon DEF SchedOps

\* What the tables have to satisfy.
RowsInv == FencesIssued /\ RunsBound /\ NativeRunsOwned

LocksInv == CallsLocked /\ LocksExclusive

\* The rows a transaction would hold are held by nobody else.
Private(s, x) == \A k \in x.held : Holders(k) \subseteq {s}

-----------------------------------------------------------------------------
(* Statements that only lock.                                              *)

\* A session's transaction changes and the tables do not.
LEMMA TxMoves ==
  ASSUME NativeSchedTypeOK, LocksInv, RowsInv, NEW s \in ClaimSessions,
         NEW y \in ClaimTxRow \cup {IdleTx},
         claimTx' = [claimTx EXCEPT ![s] = y],
         UNCHANGED <<schedNow, schedJob, jobClaim, schedRun, issued>>,
         y # IdleTx => CallNamed(y) /\ RowsTaken(y), Private(s, y)
  PROVE  NativeSchedTypeOK' /\ LocksInv' /\ RowsInv'
  <1>1. /\ claimTx' \in [ClaimSessions -> ClaimTxRow \cup {IdleTx}] /\ claimTx'[s] = y
        /\ \A t \in ClaimSessions \ {s} : claimTx'[t] = claimTx[t]
    BY Zenon DEF NativeSchedTypeOK
  <1>2. NativeSchedTypeOK'
    BY <1>1, Zenon DEF NativeSchedTypeOK
  <1>3. CallsLocked'
    BY <1>1 DEF LocksInv, CallsLocked, CallNamed, RowsTaken
  <1>4. LocksExclusive'
    <2>1. SUFFICES ASSUME NEW t \in ClaimSessions, NEW u \in ClaimSessions, t # u,
                          NEW k \in claimTx'[t].held, k \in claimTx'[u].held
                   PROVE  FALSE
      BY Zenon DEF LocksExclusive
    <2>2. CASE t = s
      BY <1>1, <2>1, <2>2, Zenon DEF Private, Holders
    <2>3. CASE u = s
      BY <1>1, <2>1, <2>3, Zenon DEF Private, Holders
    <2>4. CASE t # s /\ u # s
      BY <1>1, <2>1, <2>4, Zenon DEF LocksInv, LocksExclusive
    <2> QED
      BY <2>2, <2>3, <2>4, Zenon
  <1>5. RowsInv'
    BY Zenon DEF RowsInv, FencesIssued, RunsBound, NativeRunsOwned
  <1> QED
    BY <1>2, <1>3, <1>4, <1>5, Zenon DEF LocksInv

\* A transaction's own rows are its own.
LEMMA OwnRows ==
  ASSUME LocksInv, NEW s \in ClaimSessions
  PROVE  Private(s, claimTx[s])
  BY Zenon DEF LocksInv, LocksExclusive, Private, Holders

\* The next FOR UPDATE of a call.
LEMMA LockStep ==
  ASSUME NativeSchedTypeOK, LocksInv, RowsInv, NEW s \in ClaimSessions, NEW x \in ClaimTxRow,
         CallNamed(x), RowsTaken(x), Private(s, x), LocksRowOf(s, x)
  PROVE  NativeSchedTypeOK' /\ LocksInv' /\ RowsInv'
  <1> DEFINE table == RowOrder(x.op)[x.at]
             key == RowKey(x, table)
             acquires == table = "claim" /\ x.op \in {"claim", "claim_due"}
             held == IF RowExists(x, table) THEN x.held \cup {key} ELSE x.held
             time == IF acquires THEN schedNow ELSE x.now
             saw == IF acquires THEN jobClaim[x.job] ELSE x.saw
             y == [x EXCEPT !.at = x.at + 1, !.held = held, !.now = time, !.saw = saw]
  <1>1. /\ x.at <= Len(RowOrder(x.op)) /\ Lockable(s, key)
        /\ claimTx' = [claimTx EXCEPT ![s] = y]
        /\ UNCHANGED <<schedNow, schedJob, jobClaim, schedRun, issued>>
    BY Zenon DEF LocksRowOf
  <1>2. /\ x.op \in SchedOps /\ x.job \in SchedJobs /\ x.at \in 1..4 /\ x.held \subseteq SchedKeys
        /\ x.run \in SchedRuns \cup {NoSched}
    BY TxFields, Zenon
  <1>3. table \in {"job", "claim", "run"} /\ x.at + 1 \in 1..4
        /\ (table = "run" => x.op \in {"outcome", "finish"})
    BY <1>1, TableFacts, Zenon
  <1>4. key \in SchedKeys
    <2>1. CASE table = "run"
      <3>1. x.run \in SchedRuns
        BY <1>3, <2>1, Zenon DEF CallNamed
      <3> QED
        BY <2>1, <3>1, Zenon DEF RowKey, SchedKeys
    <2>2. CASE table # "run"
      BY <1>2, <1>3, <2>2, Zenon DEF RowKey, SchedKeys
    <2> QED
      BY <2>1, <2>2, Zenon
  <1>5. held \subseteq SchedKeys /\ time \in Nat /\ saw \in JobClaimRow \cup {NoSched}
    <2>1. x.now \in Nat /\ x.saw \in JobClaimRow \cup {NoSched}
      BY TxFields, Zenon
    <2> QED
      BY <1>2, <1>4, <2>1, Zenon DEF NativeSchedTypeOK
  <1>6. Private(s, y)
    <2>1. \A k \in held : Holders(k) \subseteq {s}
      BY <1>1, Zenon DEF Private, Lockable
    <2>2. y.held = held
      BY Zenon DEF ClaimTxRow
    <2> QED
      BY <2>1, <2>2, Zenon DEF Private
  <1>7. /\ x.op \in {"claim", "claim_due", "start", "finish"} => <<"job", x.job>> \in held
    <2>1. CASE x.at = 1
      <3>1. ASSUME x.op \in {"claim", "claim_due", "start", "finish"}
            PROVE  table = "job"
        BY <1>2, <2>1, <3>1, OrderFacts
      <3> QED
        BY <3>1, Zenon DEF RowExists, RowKey
    <2>2. CASE x.at > 1
      BY <2>2, Zenon DEF RowsTaken
    <2> QED
      BY <1>2, <2>1, <2>2
  <1>8. x.op \in {"renew", "release"} => <<"claim", x.job>> \in held
    <2>1. SUFFICES ASSUME x.op \in {"renew", "release"}
                   PROVE  <<"claim", x.job>> \in held
      BY Zenon
    <2>2. x.at = 1 /\ table = "claim"
      BY <1>1, <1>2, <2>1, OrderFacts
    <2>3. jobClaim[x.job] # NoSched
      BY <2>1, Zenon DEF CallNamed, RowsInv, FencesIssued
    <2> QED
      BY <2>2, <2>3, Zenon DEF RowExists, RowKey
  <1>9. x.op \in {"claim", "claim_due"} /\ x.at + 1 > 2 =>
          saw = jobClaim[x.job] /\ (saw # NoSched => <<"claim", x.job>> \in held)
    <2>1. SUFFICES ASSUME x.op \in {"claim", "claim_due"}, x.at + 1 > 2
                   PROVE  saw = jobClaim[x.job] /\ (saw # NoSched => <<"claim", x.job>> \in held)
      BY Zenon
    <2>2. x.at = 2 /\ table = "claim"
      BY <1>1, <1>2, <2>1, OrderFacts
    <2> QED
      BY <2>1, <2>2, Zenon DEF RowExists, RowKey
  <1> HIDE DEF held, time, saw
  <1>10. y \in ClaimTxRow
    BY <1>3, <1>5, Zenon DEF ClaimTxRow
  <1>11. /\ y.op = x.op /\ y.job = x.job /\ y.claim = x.claim /\ y.run = x.run
         /\ y.at = x.at + 1 /\ y.held = held /\ y.saw = saw
    BY Zenon DEF ClaimTxRow
  <1> HIDE DEF y
  <1>12. CallNamed(y)
    BY <1>11, Zenon DEF CallNamed
  <1>13. RowsTaken(y)
    BY <1>7, <1>8, <1>9, <1>11, Zenon DEF RowsTaken
  <1> QED
    BY <1>1, <1>6, <1>10, <1>12, <1>13, TxMoves, Zenon

\* A call the owners can make, before its first statement.
LEMMA CallTyped ==
  ASSUME NativeSchedTypeOK, NEW x \in SchedCalls
  PROVE  x \in ClaimTxRow /\ CallNamed(x) /\ x.at = 1 /\ x.held = {}
  <1>1. ASSUME NEW op \in SchedOps, NEW j \in SchedJobs,
               NEW c \in [owner : SchedOwners, fence : {0}]
                           \cup [job : SchedJobs, owner : SchedOwners, fence : Nat],
               NEW r \in SchedRuns \cup {NoSched}
        PROVE  LET y == SchedCall(op, j, c, r) IN
               /\ y \in ClaimTxRow /\ y.op = op /\ y.job = j /\ y.claim = c /\ y.run = r
               /\ y.at = 1 /\ y.held = {}
    <2> DEFINE y == SchedCall(op, j, c, r)
    <2>1. /\ y \in DraftTx /\ y.op = op /\ y.job = j /\ y.claim = c /\ y.run = r
          /\ y.at = IdleTx.at /\ y.held = IdleTx.held
      BY IdleDraft DEF SchedCall, DraftTx
    <2> HIDE DEF y
    <2>2. y \in ClaimTxRow
      BY <2>1, Zenon DEF DraftTx, ClaimTxRow
    <2> QED
      BY <2>1, <2>2, IdleDraft, Zenon DEF y
  <1>2. \A c \in issued : c \in [job : SchedJobs, owner : SchedOwners, fence : Nat] /\ c.job \in SchedJobs
    BY Zenon DEF NativeSchedTypeOK
  <1>3. ASSUME NEW op \in {"claim", "claim_due"}, NEW j \in SchedJobs, NEW o \in SchedOwners,
               x = SchedCall(op, j, [owner |-> o, fence |-> 0], NoSched)
        PROVE  x \in ClaimTxRow /\ CallNamed(x) /\ x.at = 1 /\ x.held = {}
    <2>1. [owner |-> o, fence |-> 0] \in [owner : SchedOwners, fence : {0}] /\ op \in SchedOps
      BY Zenon DEF SchedOps
    <2> QED
      BY <1>1, <1>3, <2>1 DEF CallNamed
  <1>4. ASSUME NEW op \in {"renew", "release", "invalid"}, NEW c \in issued,
               x = SchedCall(op, c.job, c, NoSched)
        PROVE  x \in ClaimTxRow /\ CallNamed(x) /\ x.at = 1 /\ x.held = {}
    <2>1. op \in SchedOps
      BY Zenon DEF SchedOps
    <2> QED
      BY <1>1, <1>2, <1>4, <2>1 DEF CallNamed
  <1>5. ASSUME NEW op \in {"start", "outcome", "finish"}, NEW c \in issued, NEW r \in SchedRuns,
               x = SchedCall(op, c.job, c, r)
        PROVE  x \in ClaimTxRow /\ CallNamed(x) /\ x.at = 1 /\ x.held = {}
    <2>1. op \in SchedOps
      BY Zenon DEF SchedOps
    <2> QED
      BY <1>1, <1>2, <1>5, <2>1 DEF CallNamed
  <1>6. CASE x \in {SchedCall(op, j, [owner |-> o, fence |-> 0], NoSched) :
                      op \in {"claim", "claim_due"}, j \in SchedJobs, o \in SchedOwners}
    <2>1. PICK op \in {"claim", "claim_due"}, j \in SchedJobs, o \in SchedOwners :
            x = SchedCall(op, j, [owner |-> o, fence |-> 0], NoSched)
      BY <1>6
    <2> QED
      BY <1>3, <2>1, Zenon
  <1>7. CASE x \in {SchedCall(op, c.job, c, NoSched) : op \in {"renew", "release", "invalid"}, c \in issued}
    BY <1>4, <1>7
  <1>8. CASE x \in {SchedCall("start", c.job, c, r) :
                      c \in issued, r \in {q \in SchedRuns : schedRun[q] = NoSched}}
    BY <1>5, <1>8
  <1>9. CASE x \in UNION {{SchedCall(op, c.job, c, r) : op \in {"outcome", "finish"}, r \in OwnRuns(c)} :
                         c \in issued}
    <2>1. PICK c \in issued :
            x \in {SchedCall(op, c.job, c, r) : op \in {"outcome", "finish"}, r \in OwnRuns(c)}
      BY <1>9
    <2>2. OwnRuns(c) \subseteq SchedRuns
      BY Zenon DEF OwnRuns
    <2> QED
      BY <1>5, <2>1, <2>2
  <1> QED
    BY <1>6, <1>7, <1>8, <1>9 DEF SchedCalls

\* A connection begins the transaction of a call: a renewal and a release take
\* the time, the others lock their first row.
LEMMA BeginStep ==
  ASSUME NativeSchedTypeOK, LocksInv, RowsInv, NEW s \in ClaimSessions, NEW x \in SchedCalls,
         BeginsCall(s, x)
  PROVE  NativeSchedTypeOK' /\ LocksInv' /\ RowsInv'
  <1>1. x \in ClaimTxRow /\ CallNamed(x) /\ x.at = 1 /\ x.held = {}
    BY CallTyped, Zenon
  <1>2. RowsTaken(x) /\ Private(s, x)
    BY <1>1 DEF RowsTaken, Private
  <1>3. CASE x.op \in {"renew", "release"}
    <2> DEFINE y == [x EXCEPT !.now = schedNow]
    <2>1. /\ claimTx' = [claimTx EXCEPT ![s] = y]
          /\ UNCHANGED <<schedNow, schedJob, jobClaim, schedRun, issued>>
      BY <1>3, Zenon DEF BeginsCall
    <2>2. schedNow \in Nat
      BY Zenon DEF NativeSchedTypeOK
    <2>3. /\ y \in ClaimTxRow /\ y.op = x.op /\ y.job = x.job /\ y.claim = x.claim /\ y.run = x.run
          /\ y.at = 1 /\ y.held = {}
      BY <1>1, <2>2, Zenon DEF ClaimTxRow
    <2> HIDE DEF y
    <2>4. CallNamed(y) /\ RowsTaken(y) /\ Private(s, y)
      BY <1>1, <2>3 DEF CallNamed, RowsTaken, Private
    <2> QED
      BY <2>1, <2>3, <2>4, TxMoves, Zenon
  <1>4. CASE x.op \notin {"renew", "release"}
    BY <1>1, <1>2, <1>4, LockStep, Zenon DEF BeginsCall
  <1> QED
    BY <1>3, <1>4, Zenon

\* claim_due_scheduler_job selects the job it will claim.
LEMMA PickStep ==
  ASSUME NativeSchedTypeOK, LocksInv, RowsInv, NEW s \in ClaimSessions,
         NEW j \in SchedJobs, NEW o \in SchedOwners, PicksDueJob(s, j, o)
  PROVE  NativeSchedTypeOK' /\ LocksInv' /\ RowsInv'
  <1> DEFINE y == [IdleTx EXCEPT !.op = "claim_due", !.job = j, !.claim = [owner |-> o, fence |-> 0],
                                 !.at = 2, !.held = {<<"job", j>>}]
  <1>1. /\ Lockable(s, <<"job", j>>) /\ claimTx' = [claimTx EXCEPT ![s] = y]
        /\ UNCHANGED <<schedNow, schedJob, jobClaim, schedRun, issued>>
    BY Zenon DEF PicksDueJob
  <1>2. <<"job", j>> \in SchedKeys /\ [owner |-> o, fence |-> 0] \in [owner : SchedOwners, fence : {0}]
    BY Zenon DEF SchedKeys
  <1>3. /\ y \in ClaimTxRow /\ y.op = "claim_due" /\ y.job = j /\ y.at = 2
        /\ y.held = {<<"job", j>>} /\ y.claim = [owner |-> o, fence |-> 0]
    <2> DEFINE c == [owner |-> o, fence |-> 0]
               h == {<<"job", j>>}
    <2>1. /\ c \in [owner : SchedOwners, fence : {0}] /\ h \in SUBSET SchedKeys
          /\ "claim_due" \in SchedOps /\ 2 \in 1..4
      BY <1>2 DEF SchedOps
    <2> HIDE DEF c, h
    <2>2. y = [IdleTx EXCEPT !.op = "claim_due", !.job = j, !.claim = c, !.at = 2, !.held = h]
      BY Zenon DEF c, h
    <2> HIDE DEF y
    <2>3. /\ y \in DraftTx /\ y.op = "claim_due" /\ y.job = j /\ y.claim = c
          /\ y.at = 2 /\ y.held = h
      BY <2>1, <2>2, IdleDraft, Zenon DEF DraftTx
    <2>4. y \in ClaimTxRow
      BY <2>1, <2>3, Zenon DEF DraftTx, ClaimTxRow
    <2> QED
      BY <2>3, <2>4, Zenon DEF c, h
  <1> HIDE DEF y
  <1>4. CallNamed(y) /\ RowsTaken(y) /\ Private(s, y)
    BY <1>1, <1>2, <1>3 DEF CallNamed, RowsTaken, Private, Lockable
  <1> QED
    BY <1>1, <1>3, <1>4, TxMoves, Zenon

\* A call whose checks fail rolls back: its locks go and the tables stay.
LEMMA RollBackStep ==
  ASSUME NativeSchedTypeOK, LocksInv, RowsInv, NEW s \in ClaimSessions, CallRollsBack(s)
  PROVE  NativeSchedTypeOK' /\ LocksInv' /\ RowsInv'
  <1>1. Private(s, IdleTx)
    BY IdleFacts, Zenon DEF Private
  <1> QED
    BY <1>1, TxMoves, Zenon DEF CallRollsBack

-----------------------------------------------------------------------------
(* Commits.                                                                *)

\* A commit that writes the claim of one job, under the job's row or the
\* claim's: no acquisition of another session has seen that claim.
LEMMA CommitLocks ==
  ASSUME NativeSchedTypeOK, LocksInv, NEW s \in ClaimSessions, NEW j \in SchedJobs,
         claimTx' = [claimTx EXCEPT ![s] = IdleTx], issued \subseteq issued',
         \A k \in SchedJobs \ {j} : jobClaim'[k] = jobClaim[k],
         \/ jobClaim'[j] = jobClaim[j]
         \/ <<"job", j>> \in claimTx[s].held
         \/ <<"claim", j>> \in claimTx[s].held /\ jobClaim[j] # NoSched
  PROVE  LocksInv' /\ claimTx' \in [ClaimSessions -> ClaimTxRow \cup {IdleTx}]
  <1>1. /\ claimTx' \in [ClaimSessions -> ClaimTxRow \cup {IdleTx}] /\ claimTx'[s] = IdleTx
        /\ \A t \in ClaimSessions \ {s} : claimTx'[t] = claimTx[t]
    BY Zenon DEF NativeSchedTypeOK
  <1>2. LocksExclusive'
    BY <1>1, IdleFacts DEF LocksInv, LocksExclusive
  <1>3. ASSUME NEW t \in ClaimSessions \ {s}, claimTx[t] # IdleTx
        PROVE  CallNamed(claimTx[t])' /\ RowsTaken(claimTx[t])'
    <2> DEFINE x == claimTx[t]
    <2>1. CallNamed(x) /\ RowsTaken(x) /\ x \in ClaimTxRow /\ x.job \in SchedJobs /\ claimTx'[t] = x
      BY <1>1, <1>3, TxFacts, TxFields, Zenon DEF LocksInv, CallsLocked
    <2>2. CallNamed(claimTx[t])'
      BY <2>1, Zenon DEF CallNamed
    <2>3. ASSUME x.op \in {"claim", "claim_due"}, x.at > 2
          PROVE  jobClaim'[x.job] = jobClaim[x.job]
      <3>1. /\ <<"job", x.job>> \in x.held
            /\ jobClaim[x.job] # NoSched => <<"claim", x.job>> \in x.held
        BY <2>1, <2>3 DEF RowsTaken, ClaimTxRow
      <3>2. \A k : ~(k \in claimTx[s].held /\ k \in x.held)
        BY Zenon DEF LocksInv, LocksExclusive
      <3> QED
        BY <2>1, <3>1, <3>2, Zenon
    <2>4. RowsTaken(claimTx[t])'
      BY <2>1, <2>3, Zenon DEF RowsTaken
    <2> QED
      BY <2>2, <2>4, Zenon
  <1>4. CallsLocked'
    BY <1>1, <1>3, Zenon DEF CallsLocked
  <1> QED
    BY <1>1, <1>2, <1>4, Zenon DEF LocksInv

\* What a session that commits has: its transaction and all its rows.
LEMMA CommitFacts ==
  ASSUME NativeSchedTypeOK, LocksInv, NEW s \in ClaimSessions, NEW ops \in SUBSET SchedOps, AtCommit(s, ops)
  PROVE  /\ claimTx[s] # IdleTx /\ claimTx[s] \in ClaimTxRow /\ claimTx[s].op \in ops
         /\ CallNamed(claimTx[s]) /\ RowsTaken(claimTx[s])
         /\ claimTx[s].at \in 2..4
         /\ claimTx[s].op \in {"claim", "claim_due"} => claimTx[s].at > 2
         /\ claimTx' = [claimTx EXCEPT ![s] = IdleTx] /\ UNCHANGED schedNow
  <1>1. claimTx[s].op \in SchedOps /\ claimTx[s].op \in ops
    BY Zenon DEF AtCommit
  <1>2. claimTx[s] # IdleTx /\ claimTx[s] \in ClaimTxRow
    BY <1>1, TxFacts, Zenon
  <1>3. claimTx[s].at \in 1..4 /\ claimTx[s].at > Len(RowOrder(claimTx[s].op))
    BY <1>2, TxFields, Zenon DEF AtCommit
  <1>4. Len(RowOrder(claimTx[s].op)) \in 1..3
        /\ (claimTx[s].op \in {"claim", "claim_due"} => Len(RowOrder(claimTx[s].op)) = 2)
    BY <1>1, OrderFacts DEF SchedOps
  <1>5. claimTx[s].at \in 2..4 /\ (claimTx[s].op \in {"claim", "claim_due"} => claimTx[s].at > 2)
    <2>1. \A a \in 1..4, n \in 1..3 : a > n => a \in 2..4 /\ (n = 2 => a > 2)
      OBVIOUS
    <2> QED
      BY <1>3, <1>4, <2>1, Zenon
  <1> QED
    BY <1>1, <1>2, <1>5, Zenon DEF AtCommit, LocksInv, CallsLocked

\* The rows of the tables.
LEMMA RowFacts ==
  ASSUME NativeSchedTypeOK
  PROVE  /\ \A j \in SchedJobs : jobClaim[j] # NoSched =>
              /\ jobClaim[j] \in JobClaimRow /\ jobClaim[j].fence \in Nat
              /\ jobClaim[j].run \in SchedRuns \cup {NoSched}
         /\ \A r \in SchedRuns : schedRun[r] # NoSched =>
              /\ schedRun[r] \in SchedRunRow /\ schedRun[r].job \in SchedJobs
              /\ schedRun[r].obs \in SUBSET BOOLEAN
         /\ \A c \in issued : c.job \in SchedJobs /\ c.fence \in Nat /\ c.owner \in SchedOwners
  <1>1. \A j \in SchedJobs : jobClaim[j] # NoSched => jobClaim[j] \in JobClaimRow
    BY Zenon DEF NativeSchedTypeOK
  <1>2. \A r \in SchedRuns : schedRun[r] # NoSched => schedRun[r] \in SchedRunRow
    BY Zenon DEF NativeSchedTypeOK
  <1>3. \A row \in JobClaimRow : row.fence \in Nat /\ row.run \in SchedRuns \cup {NoSched}
    BY Zenon DEF JobClaimRow
  <1>4. \A row \in SchedRunRow : row.job \in SchedJobs /\ row.obs \in SUBSET BOOLEAN
    BY Zenon DEF SchedRunRow
  <1>5. \A c \in issued : c.job \in SchedJobs /\ c.fence \in Nat /\ c.owner \in SchedOwners
    BY Zenon DEF NativeSchedTypeOK
  <1> QED
    BY <1>1, <1>2, <1>3, <1>4, <1>5, Zenon

\* A commit that writes no claim.
LEMMA NoClaimWritten ==
  ASSUME NativeSchedTypeOK, LocksInv, RowsInv, NEW s \in ClaimSessions,
         claimTx' = [claimTx EXCEPT ![s] = IdleTx], UNCHANGED <<schedNow, jobClaim, issued>>,
         schedJob' \in [SchedJobs -> SchedJobRow], schedRun' \in [SchedRuns -> SchedRunRow \cup {NoSched}]
  PROVE  NativeSchedTypeOK' /\ LocksInv'
  <1>1. CASE SchedJobs = {}
    <2>1. \A t \in ClaimSessions : claimTx[t] = IdleTx
      BY <1>1, TxFacts, TxFields, Zenon
    <2>2. claimTx' \in [ClaimSessions -> ClaimTxRow \cup {IdleTx}] /\ \A t \in ClaimSessions : claimTx'[t] = IdleTx
      BY <2>1, Zenon DEF NativeSchedTypeOK
    <2>3. LocksInv'
      BY <2>2, IdleFacts, Zenon DEF LocksInv, CallsLocked, LocksExclusive
    <2> QED
      BY <2>2, <2>3, Zenon DEF NativeSchedTypeOK
  <1>2. CASE SchedJobs # {}
    <2>1. PICK j \in SchedJobs : TRUE
      BY <1>2, Zenon
    <2>2. LocksInv' /\ claimTx' \in [ClaimSessions -> ClaimTxRow \cup {IdleTx}]
      BY <2>1, CommitLocks, Zenon
    <2> QED
      BY <2>2, Zenon DEF NativeSchedTypeOK
  <1> QED
    BY <1>1, <1>2, Zenon

\* acquire_scheduler_claim_tx: the claim replaced is the claim there, the run
\* bound to it is failed, and the fence is new.
LEMMA AcquireStep ==
  ASSUME NativeSchedTypeOK, LocksInv, RowsInv, NEW s \in ClaimSessions, AcquiresClaim(s)
  PROVE  NativeSchedTypeOK' /\ LocksInv' /\ RowsInv'
  <1> DEFINE x == claimTx[s]
             j == x.job
             c == x.saw
             fence == IF c = NoSched THEN 1 ELSE c.fence + 1
             row == [owner |-> x.claim.owner, fence |-> fence, lease |-> x.now + SchedLease,
                     run |-> NoSched]
             new == [job |-> j, owner |-> x.claim.owner, fence |-> fence]
  <1>1. /\ AtCommit(s, {"claim", "claim_due"})
        /\ RecoverRun(s, IF c = NoSched THEN NoSched ELSE c.run)
        /\ jobClaim' = [jobClaim EXCEPT ![j] = row]
        /\ issued' = issued \cup {new}
        /\ UNCHANGED schedJob
    BY Zenon DEF AcquiresClaim
  <1>2. /\ x \in ClaimTxRow /\ RowsTaken(x) /\ x.op \in {"claim", "claim_due"} /\ x.at > 2 /\ x.at > 1
        /\ claimTx' = [claimTx EXCEPT ![s] = IdleTx] /\ UNCHANGED schedNow
    <2>1. {"claim", "claim_due"} \in SUBSET SchedOps
      BY Zenon DEF SchedOps
    <2> QED
      BY <1>1, <2>1, CommitFacts
  <1>3. /\ j \in SchedJobs /\ x.claim.owner \in SchedOwners /\ x.now \in Nat
        /\ c = jobClaim[j] /\ <<"job", j>> \in x.held
    BY <1>2, TxFields, Zenon DEF RowsTaken
  <1>4. fence \in Nat /\ (c # NoSched => fence = c.fence + 1 /\ c.fence \in Nat)
    BY <1>3, RowFacts
  <1> HIDE DEF fence
  <1>5. row \in JobClaimRow /\ row # NoSched /\ row.run = NoSched /\ row.fence = fence
    <2>1. x.now + SchedLease \in Nat
      BY <1>3, SchedConstants
    <2>2. row \in JobClaimRow
      BY <1>3, <1>4, <2>1, Zenon DEF JobClaimRow
    <2> QED
      BY <2>2, SchedConstants, Zenon
  <1>6. new \in [job : SchedJobs, owner : SchedOwners, fence : Nat] /\ new.job = j /\ new.fence = fence
    BY <1>3, <1>4, Zenon
  <1> HIDE DEF row, new
  <1>7. /\ jobClaim' \in [SchedJobs -> JobClaimRow \cup {NoSched}] /\ jobClaim'[j] = row
        /\ \A k \in SchedJobs \ {j} : jobClaim'[k] = jobClaim[k]
    BY <1>1, <1>3, <1>5, Zenon DEF NativeSchedTypeOK
  <1>8. LocksInv' /\ claimTx' \in [ClaimSessions -> ClaimTxRow \cup {IdleTx}]
    BY <1>1, <1>2, <1>3, <1>7, CommitLocks, Zenon
  <1>9. ASSUME NEW r \in SchedRuns, schedRun[r] # NoSched, schedRun[r].job = j,
               schedRun[r].status = "running"
        PROVE  c # NoSched /\ c.run = r
    BY <1>3, <1>9 DEF RowsInv, NativeRunsOwned, RunsBound
  <1>10. /\ schedRun' \in [SchedRuns -> SchedRunRow \cup {NoSched}]
         /\ \A r \in SchedRuns :
              \/ /\ schedRun'[r] = schedRun[r]
                 /\ schedRun[r] # NoSched /\ schedRun[r].job = j => schedRun[r].status # "running"
              \/ /\ schedRun[r] # NoSched /\ schedRun'[r] # NoSched
                 /\ schedRun[r].job = j /\ schedRun'[r].job = j
                 /\ schedRun'[r].status = "failed" /\ schedRun'[r].recovered
    <2>1. CASE c = NoSched \/ c.run = NoSched
      <3>1. UNCHANGED schedRun
        BY <1>1, <2>1, Zenon DEF RecoverRun
      <3> QED
        BY <1>9, <2>1, <3>1, SchedConstants, Zenon DEF NativeSchedTypeOK
    <2>2. CASE c # NoSched /\ c.run # NoSched
      <3> DEFINE r == c.run
                 failed == [schedRun[r] EXCEPT !.status = "failed", !.recovered = TRUE]
      <3>1. r \in SchedRuns /\ schedRun[r] # NoSched /\ schedRun[r].job = j
        BY <1>3, <2>2, RowFacts, Zenon DEF RowsInv, RunsBound
      <3>2. schedRun[r].status = "running"
        BY <1>3, <2>2, <3>1, Zenon DEF RowsInv, NativeRunsOwned
      <3>3. schedRun' = [schedRun EXCEPT ![r] = failed]
        BY <1>1, <2>2, <3>1, <3>2, Zenon DEF RecoverRun, NativeSchedTypeOK
      <3>4. schedRun[r] \in SchedRunRow
        BY <3>1, RowFacts, Zenon
      <3>5. /\ failed \in SchedRunRow /\ failed.job = schedRun[r].job /\ failed.status = "failed"
            /\ failed.recovered
        BY <3>4, Zenon DEF SchedRunRow
      <3>6. failed # NoSched
        BY <3>5, SchedConstants, Zenon
      <3> HIDE DEF failed
      <3>7. /\ schedRun' \in [SchedRuns -> SchedRunRow \cup {NoSched}] /\ schedRun'[r] = failed
            /\ \A q \in SchedRuns \ {r} : schedRun'[q] = schedRun[q]
        BY <3>1, <3>3, <3>5, Zenon DEF NativeSchedTypeOK
      <3> QED
        BY <1>9, <3>1, <3>5, <3>6, <3>7, Zenon
    <2> QED
      BY <2>1, <2>2, Zenon
  <1>11. NativeSchedTypeOK'
    BY <1>1, <1>2, <1>6, <1>7, <1>8, <1>10, Zenon DEF NativeSchedTypeOK
  <1>12. FencesIssued'
    <2>1. ASSUME NEW d \in issued
          PROVE  jobClaim'[d.job] # NoSched /\ d.fence <= jobClaim'[d.job].fence
      <3>1. d.job \in SchedJobs /\ d.fence \in Nat /\ jobClaim[d.job] # NoSched
            /\ d.fence <= jobClaim[d.job].fence
        BY RowFacts, Zenon DEF RowsInv, FencesIssued
      <3>2. CASE d.job = j
        <4>1. d.fence <= fence
          BY <1>3, <1>4, <3>1, <3>2
        <4> QED
          BY <1>5, <1>7, <3>2, <4>1, Zenon
      <3>3. CASE d.job # j
        BY <1>7, <3>1, <3>3, Zenon
      <3> QED
        BY <3>2, <3>3, Zenon
    <2>2. jobClaim'[new.job] # NoSched /\ new.fence <= jobClaim'[new.job].fence
      BY <1>4, <1>5, <1>6, <1>7
    <2> QED
      BY <1>1, <2>1, <2>2, Zenon DEF FencesIssued
  <1>13. RunsBound'
    <2>1. ASSUME NEW k \in SchedJobs, jobClaim'[k] # NoSched, jobClaim'[k].run # NoSched
          PROVE  schedRun'[jobClaim'[k].run] # NoSched /\ schedRun'[jobClaim'[k].run].job = k
      <3>1. k # j /\ jobClaim'[k] = jobClaim[k]
        BY <1>5, <1>7, <2>1, Zenon
      <3>2. jobClaim[k].run \in SchedRuns /\ schedRun[jobClaim[k].run] # NoSched
            /\ schedRun[jobClaim[k].run].job = k
        BY <2>1, <3>1, RowFacts, Zenon DEF RowsInv, RunsBound
      <3> QED
        BY <1>10, <3>1, <3>2, Zenon
    <2>2. ASSUME NEW r \in SchedRuns, schedRun'[r] # NoSched
          PROVE  jobClaim'[schedRun'[r].job] # NoSched
      <3>1. schedRun[r] # NoSched /\ schedRun'[r].job = schedRun[r].job /\ schedRun[r].job \in SchedJobs
            /\ jobClaim[schedRun[r].job] # NoSched
        BY <1>10, <2>2, RowFacts, Zenon DEF RowsInv, RunsBound
      <3> QED
        BY <1>5, <1>7, <3>1, Zenon
    <2> QED
      BY <2>1, <2>2, Zenon DEF RunsBound
  <1>14. NativeRunsOwned'
    <2>1. \A a, b \in issued' : a.job = b.job /\ a.fence = b.fence => a = b
      <3>1. ASSUME NEW a \in issued, a.job = j
            PROVE  a.fence # fence
        <4>1. a.fence \in Nat /\ c # NoSched /\ a.fence <= c.fence
          BY <1>3, <3>1, RowFacts, Zenon DEF RowsInv, FencesIssued
        <4> QED
          BY <1>4, <4>1
      <3> QED
        BY <1>1, <1>6, <3>1 DEF RowsInv, NativeRunsOwned
    <2>2. ASSUME NEW r \in SchedRuns, schedRun'[r] # NoSched
          PROVE  IF schedRun'[r].status = "running"
                 THEN /\ jobClaim'[schedRun'[r].job].run = r
                      /\ jobClaim'[schedRun'[r].job].fence = schedRun'[r].by
                 ELSE /\ jobClaim'[schedRun'[r].job].run # r
                      /\ ~schedRun'[r].recovered => schedRun'[r].status = SchedStatus(schedRun'[r].obs)
      <3>1. CASE schedRun'[r] # schedRun[r]
        BY <1>5, <1>7, <1>10, <3>1, SchedConstants
      <3>2. CASE schedRun'[r] = schedRun[r] /\ schedRun[r].job = j
        <4>1. schedRun[r].status # "running"
          BY <1>10, <2>2, <3>2, Zenon
        <4>2. ~schedRun[r].recovered => schedRun[r].status = SchedStatus(schedRun[r].obs)
          BY <2>2, <3>2, <4>1, Zenon DEF RowsInv, NativeRunsOwned
        <4> QED
          BY <1>5, <1>7, <3>2, <4>1, <4>2, SchedConstants
      <3>3. CASE schedRun'[r] = schedRun[r] /\ schedRun[r].job # j
        <4>1. jobClaim'[schedRun[r].job] = jobClaim[schedRun[r].job]
          BY <1>7, <2>2, <3>3, RowFacts, Zenon
        <4> QED
          BY <2>2, <3>3, <4>1 DEF RowsInv, NativeRunsOwned
      <3> QED
        BY <3>1, <3>2, <3>3, Zenon
    <2> QED
      BY <2>1, <2>2, Zenon DEF NativeRunsOwned
  <1> QED
    BY <1>8, <1>11, <1>12, <1>13, <1>14, Zenon DEF RowsInv

\* A commit that keeps the fence and the run of a claim: renew and release.
LEMMA ClaimTouched ==
  ASSUME NativeSchedTypeOK, LocksInv, RowsInv, NEW s \in ClaimSessions, NEW j \in SchedJobs,
         NEW row \in JobClaimRow, jobClaim[j] # NoSched,
         row.fence = jobClaim[j].fence, row.run = jobClaim[j].run,
         jobClaim' = [jobClaim EXCEPT ![j] = row],
         <<"claim", j>> \in claimTx[s].held,
         claimTx' = [claimTx EXCEPT ![s] = IdleTx],
         UNCHANGED <<schedNow, schedJob, schedRun, issued>>
  PROVE  NativeSchedTypeOK' /\ LocksInv' /\ RowsInv'
  <1>1. /\ jobClaim' \in [SchedJobs -> JobClaimRow \cup {NoSched}] /\ jobClaim'[j] = row
        /\ \A k \in SchedJobs \ {j} : jobClaim'[k] = jobClaim[k]
        /\ row # NoSched
    BY SchedConstants, Zenon DEF NativeSchedTypeOK
  <1>2. LocksInv' /\ claimTx' \in [ClaimSessions -> ClaimTxRow \cup {IdleTx}]
    BY <1>1, CommitLocks, Zenon
  <1>3. NativeSchedTypeOK'
    BY <1>1, <1>2, Zenon DEF NativeSchedTypeOK
  <1>4. \A k \in SchedJobs : /\ jobClaim'[k] = NoSched <=> jobClaim[k] = NoSched
                             /\ jobClaim'[k].fence = jobClaim[k].fence
                             /\ jobClaim'[k].run = jobClaim[k].run
    BY <1>1, Zenon
  <1>5. FencesIssued'
    BY <1>4, RowFacts, Zenon DEF RowsInv, FencesIssued
  <1>6. RunsBound'
    BY <1>4, RowFacts DEF RowsInv, RunsBound
  <1>7. NativeRunsOwned'
    BY <1>4, RowFacts DEF RowsInv, NativeRunsOwned
  <1> QED
    BY <1>2, <1>3, <1>5, <1>6, <1>7, Zenon DEF RowsInv

\* renew_scheduler_job_claim and release_scheduler_job_claim.
LEMMA RenewReleaseStep ==
  ASSUME NativeSchedTypeOK, LocksInv, RowsInv, NEW s \in ClaimSessions,
         RenewsClaim(s) \/ ReleasesClaim(s)
  PROVE  NativeSchedTypeOK' /\ LocksInv' /\ RowsInv'
  <1> DEFINE x == claimTx[s]
             j == x.job
             renewed == [jobClaim[j] EXCEPT !.lease = x.now + SchedLease]
             released == [jobClaim[j] EXCEPT !.owner = NoSched, !.lease = NoSched]
  <1>1. /\ AtCommit(s, {"renew", "release"}) /\ NamesClaim(x)
        /\ UNCHANGED <<schedJob, schedRun, issued>>
    BY Zenon DEF RenewsClaim, ReleasesClaim, AtCommit
  <1>2. /\ x \in ClaimTxRow /\ RowsTaken(x) /\ x.op \in {"renew", "release"} /\ x.at \in 2..4
        /\ claimTx' = [claimTx EXCEPT ![s] = IdleTx] /\ UNCHANGED schedNow
    <2>1. {"renew", "release"} \in SUBSET SchedOps
      BY Zenon DEF SchedOps
    <2> QED
      BY <1>1, <2>1, CommitFacts, Zenon
  <1>3. /\ j \in SchedJobs /\ x.now \in Nat /\ jobClaim[j] # NoSched
        /\ <<"claim", j>> \in x.held /\ x.now + SchedLease \in Nat
    <2>1. j \in SchedJobs /\ x.now \in Nat /\ jobClaim[j] # NoSched
      BY <1>1, <1>2, TxFields, Zenon DEF NamesClaim
    <2>2. x.at > 1
      BY <1>2
    <2>3. <<"claim", j>> \in x.held
      BY <1>2, <2>2, Zenon DEF RowsTaken
    <2>4. x.now + SchedLease \in Nat
      BY <2>1, SchedConstants
    <2> QED
      BY <2>1, <2>3, <2>4, Zenon
  <1>4. jobClaim[j] \in JobClaimRow
    BY <1>3, RowFacts, Zenon
  <1>5. \A row \in {renewed, released} :
          row \in JobClaimRow /\ row.fence = jobClaim[j].fence /\ row.run = jobClaim[j].run
    BY <1>3, <1>4, Zenon DEF JobClaimRow
  <1>6. \E row \in {renewed, released} : jobClaim' = [jobClaim EXCEPT ![j] = row]
    BY <1>3, Zenon DEF RenewsClaim, ReleasesClaim, NativeSchedTypeOK
  <1> HIDE DEF renewed, released
  <1> QED
    BY <1>1, <1>2, <1>3, <1>5, <1>6, ClaimTouched

\* write_scheduler_claimed_run_start: the new run becomes the active run of a
\* claim that had none.
LEMMA StartStep ==
  ASSUME NativeSchedTypeOK, LocksInv, RowsInv, NEW s \in ClaimSessions, StartsSchedRun(s)
  PROVE  NativeSchedTypeOK' /\ LocksInv' /\ RowsInv'
  <1> DEFINE x == claimTx[s]
             j == x.job
             run == [job |-> j, by |-> x.claim.fence, status |-> "running", obs |-> {},
                     recovered |-> FALSE]
             row == [jobClaim[j] EXCEPT !.run = x.run]
  <1>1. /\ AtCommit(s, {"start"}) /\ schedRun[x.run] = NoSched
        /\ ClaimEnsured(x, NoSched, schedNow)
        /\ schedRun' = [schedRun EXCEPT ![x.run] = run]
        /\ jobClaim' = [jobClaim EXCEPT ![x.job].run = x.run]
        /\ UNCHANGED <<schedJob, issued>>
    BY Zenon DEF StartsSchedRun
  <1>2. /\ x \in ClaimTxRow /\ RowsTaken(x) /\ CallNamed(x) /\ x.op = "start" /\ x.at \in 2..4
        /\ claimTx' = [claimTx EXCEPT ![s] = IdleTx] /\ UNCHANGED schedNow
    <2>1. {"start"} \in SUBSET SchedOps
      BY Zenon DEF SchedOps
    <2> QED
      BY <1>1, <2>1, CommitFacts, Zenon
  <1>3. /\ j \in SchedJobs /\ <<"job", j>> \in x.held /\ x.run \in SchedRuns
        /\ x.claim \in issued
    BY <1>2, TxFields DEF RowsTaken, CallNamed
  <1>4. /\ jobClaim[j] # NoSched /\ jobClaim[j].run = NoSched /\ jobClaim[j].fence = x.claim.fence
        /\ jobClaim[j] \in JobClaimRow /\ x.claim.fence \in Nat
    BY <1>1, <1>3, RowFacts, Zenon DEF ClaimEnsured, NamesClaim
  <1>5. row \in JobClaimRow /\ row.fence = jobClaim[j].fence /\ row.run = x.run
    BY <1>3, <1>4, Zenon DEF JobClaimRow
  <1>6. run \in SchedRunRow /\ run.job = j /\ run.by = x.claim.fence /\ run.status = "running"
    BY <1>3, <1>4, Zenon DEF SchedRunRow
  <1>7. row # NoSched /\ run # NoSched
    BY <1>5, <1>6, SchedConstants, Zenon
  <1>8. jobClaim' = [jobClaim EXCEPT ![j] = row]
    BY <1>1, <1>3, Zenon DEF NativeSchedTypeOK
  <1> HIDE DEF row, run
  <1>9. /\ jobClaim' \in [SchedJobs -> JobClaimRow \cup {NoSched}] /\ jobClaim'[j] = row
        /\ \A k \in SchedJobs \ {j} : jobClaim'[k] = jobClaim[k]
    BY <1>3, <1>5, <1>8, Zenon DEF NativeSchedTypeOK
  <1>10. /\ schedRun' \in [SchedRuns -> SchedRunRow \cup {NoSched}] /\ schedRun'[x.run] = run
         /\ \A r \in SchedRuns \ {x.run} : schedRun'[r] = schedRun[r]
    BY <1>1, <1>3, <1>6, Zenon DEF NativeSchedTypeOK
  <1>11. LocksInv' /\ claimTx' \in [ClaimSessions -> ClaimTxRow \cup {IdleTx}]
    BY <1>1, <1>2, <1>3, <1>9, CommitLocks, Zenon
  <1>12. NativeSchedTypeOK'
    BY <1>1, <1>2, <1>9, <1>10, <1>11, Zenon DEF NativeSchedTypeOK
  <1>13. FencesIssued'
    BY <1>1, <1>4, <1>5, <1>7, <1>9, RowFacts DEF RowsInv, FencesIssued
  <1>14. RunsBound'
    <2>1. ASSUME NEW k \in SchedJobs, jobClaim'[k] # NoSched, jobClaim'[k].run # NoSched
          PROVE  schedRun'[jobClaim'[k].run] # NoSched /\ schedRun'[jobClaim'[k].run].job = k
      <3>1. CASE k = j
        BY <1>5, <1>6, <1>7, <1>9, <1>10, <3>1, Zenon
      <3>2. CASE k # j
        <4>1. /\ jobClaim'[k] = jobClaim[k] /\ jobClaim[k].run \in SchedRuns
              /\ schedRun[jobClaim[k].run] # NoSched /\ schedRun[jobClaim[k].run].job = k
          BY <1>9, <2>1, <3>2, RowFacts, Zenon DEF RowsInv, RunsBound
        <4> QED
          BY <1>1, <1>10, <4>1, Zenon
      <3> QED
        BY <3>1, <3>2, Zenon
    <2>2. ASSUME NEW r \in SchedRuns, schedRun'[r] # NoSched
          PROVE  jobClaim'[schedRun'[r].job] # NoSched
      <3>1. CASE r = x.run
        BY <1>6, <1>7, <1>9, <1>10, <3>1, Zenon
      <3>2. CASE r # x.run
        <4>1. schedRun'[r] = schedRun[r] /\ schedRun[r].job \in SchedJobs
              /\ jobClaim[schedRun[r].job] # NoSched
          BY <1>10, <2>2, <3>2, RowFacts, Zenon DEF RowsInv, RunsBound
        <4> QED
          BY <1>7, <1>9, <4>1, Zenon
      <3> QED
        BY <3>1, <3>2, Zenon
    <2> QED
      BY <2>1, <2>2 DEF RunsBound
  <1>15. NativeRunsOwned'
    <2>1. \A a, b \in issued' : a.job = b.job /\ a.fence = b.fence => a = b
      BY <1>1, Zenon DEF RowsInv, NativeRunsOwned
    <2>2. ASSUME NEW r \in SchedRuns, schedRun'[r] # NoSched
          PROVE  IF schedRun'[r].status = "running"
                 THEN /\ jobClaim'[schedRun'[r].job].run = r
                      /\ jobClaim'[schedRun'[r].job].fence = schedRun'[r].by
                 ELSE /\ jobClaim'[schedRun'[r].job].run # r
                      /\ ~schedRun'[r].recovered => schedRun'[r].status = SchedStatus(schedRun'[r].obs)
      <3>1. CASE r = x.run
        BY <1>4, <1>5, <1>6, <1>9, <1>10, <3>1, Zenon
      <3>2. CASE r # x.run /\ schedRun[r].job = j
        <4>1. schedRun'[r] = schedRun[r] /\ schedRun[r] # NoSched
          BY <1>10, <2>2, <3>2, Zenon
        <4>2. schedRun[r].status # "running"
          BY <1>4, <3>2, <4>1, SchedConstants, Zenon DEF RowsInv, NativeRunsOwned
        <4>3. ~schedRun[r].recovered => schedRun[r].status = SchedStatus(schedRun[r].obs)
          BY <4>1, <4>2, Zenon DEF RowsInv, NativeRunsOwned
        <4> QED
          BY <1>5, <1>9, <3>2, <4>1, <4>2, <4>3, Zenon
      <3>3. CASE r # x.run /\ schedRun[r].job # j
        <4>1. schedRun'[r] = schedRun[r] /\ schedRun[r] # NoSched
              /\ jobClaim'[schedRun[r].job] = jobClaim[schedRun[r].job]
          BY <1>9, <1>10, <2>2, <3>3, RowFacts, Zenon
        <4> QED
          BY <4>1 DEF RowsInv, NativeRunsOwned
      <3> QED
        BY <3>1, <3>2, <3>3, Zenon
    <2> QED
      BY <2>1, <2>2 DEF NativeRunsOwned
  <1> QED
    BY <1>11, <1>12, <1>13, <1>14, <1>15 DEF RowsInv

\* write_scheduler_outcome of a run adds to the observations of a run that is
\* still running.
LEMMA OutcomeStep ==
  ASSUME NativeSchedTypeOK, LocksInv, RowsInv, NEW s \in ClaimSessions, WritesSchedOutcome(s)
  PROVE  NativeSchedTypeOK' /\ LocksInv' /\ RowsInv'
  <1> DEFINE x == claimTx[s]
  <1>1. PICK ok \in BOOLEAN :
          /\ AtCommit(s, {"outcome"}) /\ schedRun[x.run].status = "running"
          /\ ClaimEnsured(x, x.run, schedNow)
          /\ schedRun' = [schedRun EXCEPT ![x.run].obs = @ \cup {ok}]
          /\ UNCHANGED <<schedJob, jobClaim, issued>>
    BY Zenon DEF WritesSchedOutcome
  <1> DEFINE run == [schedRun[x.run] EXCEPT !.obs = @ \cup {ok}]
  <1>2. /\ x \in ClaimTxRow /\ CallNamed(x) /\ x.op = "outcome"
        /\ claimTx' = [claimTx EXCEPT ![s] = IdleTx] /\ UNCHANGED schedNow
    <2>1. {"outcome"} \in SUBSET SchedOps
      BY Zenon DEF SchedOps
    <2> QED
      BY <1>1, <2>1, CommitFacts, Zenon
  <1>3. x.run \in SchedRuns /\ x.job \in SchedJobs
    BY <1>2, TxFields, Zenon DEF CallNamed
  <1>4. schedRun[x.run] # NoSched /\ schedRun[x.run] \in SchedRunRow
    <2>1. jobClaim[x.job] # NoSched /\ jobClaim[x.job].run = x.run
      BY <1>1, Zenon DEF ClaimEnsured, NamesClaim
    <2> QED
      BY <1>3, <2>1, RowFacts, SchedConstants, Zenon DEF RowsInv, RunsBound
  <1>5. schedRun[x.run].obs \cup {ok} \in SUBSET BOOLEAN
    BY <1>4, Zenon DEF SchedRunRow
  <1>6. /\ run \in SchedRunRow /\ run.job = schedRun[x.run].job /\ run.by = schedRun[x.run].by
        /\ run.status = "running"
    BY <1>1, <1>4, <1>5, Zenon DEF SchedRunRow
  <1>7. run # NoSched
    BY <1>6, SchedConstants, Zenon
  <1>8. schedRun' = [schedRun EXCEPT ![x.run] = run]
    BY <1>1, <1>3, Zenon DEF NativeSchedTypeOK
  <1> HIDE DEF run
  <1>9. /\ schedRun' \in [SchedRuns -> SchedRunRow \cup {NoSched}] /\ schedRun'[x.run] = run
        /\ \A r \in SchedRuns \ {x.run} : schedRun'[r] = schedRun[r]
    BY <1>3, <1>6, <1>8, Zenon DEF NativeSchedTypeOK
  <1>10. NativeSchedTypeOK' /\ LocksInv'
    <2>1. schedJob' \in [SchedJobs -> SchedJobRow]
      BY <1>1, Zenon DEF NativeSchedTypeOK
    <2> QED
      BY <1>1, <1>2, <1>9, <2>1, NoClaimWritten, Zenon
  <1>11. \A r \in SchedRuns :
           \/ schedRun'[r] = schedRun[r]
           \/ /\ schedRun[r] # NoSched /\ schedRun'[r] # NoSched
              /\ schedRun'[r].job = schedRun[r].job /\ schedRun'[r].by = schedRun[r].by
              /\ schedRun'[r].status = "running" /\ schedRun[r].status = "running"
    BY <1>1, <1>4, <1>6, <1>7, <1>9, Zenon
  <1>12. FencesIssued'
    BY <1>1, Zenon DEF RowsInv, FencesIssued
  <1>13. RunsBound'
    <2>1. ASSUME NEW j \in SchedJobs, jobClaim'[j] # NoSched, jobClaim'[j].run # NoSched
          PROVE  schedRun'[jobClaim'[j].run] # NoSched /\ schedRun'[jobClaim'[j].run].job = j
      <3>1. jobClaim'[j] = jobClaim[j]
        BY <1>1, Zenon
      <3>2. /\ jobClaim[j].run \in SchedRuns
            /\ schedRun[jobClaim[j].run] # NoSched /\ schedRun[jobClaim[j].run].job = j
        BY <2>1, <3>1, RowFacts, Zenon DEF RowsInv, RunsBound
      <3> QED
        BY <1>11, <3>1, <3>2, Zenon
    <2>2. ASSUME NEW r \in SchedRuns, schedRun'[r] # NoSched
          PROVE  jobClaim'[schedRun'[r].job] # NoSched
      <3>1. schedRun[r] # NoSched /\ schedRun'[r].job = schedRun[r].job
        BY <1>11, <2>2, Zenon
      <3> QED
        BY <1>1, <3>1, Zenon DEF RowsInv, RunsBound
    <2> QED
      BY <2>1, <2>2, Zenon DEF RunsBound
  <1>14. NativeRunsOwned'
    <2>1. ASSUME NEW r \in SchedRuns, schedRun'[r] # NoSched
          PROVE  IF schedRun'[r].status = "running"
                 THEN /\ jobClaim[schedRun'[r].job].run = r
                      /\ jobClaim[schedRun'[r].job].fence = schedRun'[r].by
                 ELSE /\ jobClaim[schedRun'[r].job].run # r
                      /\ ~schedRun'[r].recovered => schedRun'[r].status = SchedStatus(schedRun'[r].obs)
      BY <1>11, <2>1 DEF RowsInv, NativeRunsOwned
    <2> QED
      BY <1>1, <2>1, Zenon DEF RowsInv, NativeRunsOwned
  <1> QED
    BY <1>10, <1>12, <1>13, <1>14, Zenon DEF RowsInv

\* update_scheduler_job_clock_values_tx
LEMMA ClockTyped ==
  ASSUME NativeSchedTypeOK, NEW j \in SchedJobs, SetsJobClock(j)
  PROVE  schedJob' \in [SchedJobs -> SchedJobRow]
  <1>1. PICK t \in 0..schedNow : schedJob' = [schedJob EXCEPT ![j].next = t + SchedInterval]
    BY Zenon DEF SetsJobClock
  <1>2. t + SchedInterval \in Nat
    BY SchedConstants DEF NativeSchedTypeOK
  <1>3. schedJob[j] \in SchedJobRow
    BY Zenon DEF NativeSchedTypeOK
  <1>4. [schedJob[j] EXCEPT !.next = t + SchedInterval] \in SchedJobRow
    BY <1>2, <1>3, Zenon DEF SchedJobRow
  <1> QED
    BY <1>1, <1>4, Zenon DEF NativeSchedTypeOK

\* The record of an unusable job writes neither claims nor runs.
LEMMA InvalidStep ==
  ASSUME NativeSchedTypeOK, LocksInv, RowsInv, NEW s \in ClaimSessions, RecordsInvalidJob(s)
  PROVE  NativeSchedTypeOK' /\ LocksInv' /\ RowsInv'
  <1>1. AtCommit(s, {"invalid"}) /\ UNCHANGED <<jobClaim, schedRun, issued>>
    BY Zenon DEF RecordsInvalidJob
  <1>2. /\ claimTx[s].job \in SchedJobs /\ claimTx' = [claimTx EXCEPT ![s] = IdleTx]
        /\ UNCHANGED schedNow
    <2>1. {"invalid"} \in SUBSET SchedOps
      BY Zenon DEF SchedOps
    <2> QED
      BY <1>1, <2>1, CommitFacts, TxFields, Zenon
  <1>3. schedJob' \in [SchedJobs -> SchedJobRow]
    <2>1. UNCHANGED schedJob \/ SetsJobClock(claimTx[s].job)
      BY Zenon DEF RecordsInvalidJob
    <2> QED
      BY <1>2, <2>1, ClockTyped, Zenon DEF NativeSchedTypeOK
  <1>4. NativeSchedTypeOK' /\ LocksInv'
    BY <1>1, <1>2, <1>3, NoClaimWritten, Zenon DEF NativeSchedTypeOK
  <1>5. RowsInv'
    BY <1>1, Zenon DEF RowsInv, FencesIssued, RunsBound, NativeRunsOwned
  <1> QED
    BY <1>4, <1>5, Zenon

\* write_scheduler_run_finish: the run and its claim part, and the status is
\* that of the observations stored so far.
LEMMA FinishStep ==
  ASSUME NativeSchedTypeOK, LocksInv, RowsInv, NEW s \in ClaimSessions, FinishesSchedRun(s)
  PROVE  NativeSchedTypeOK' /\ LocksInv' /\ RowsInv'
  <1> DEFINE x == claimTx[s]
             j == x.job
             old == schedRun[x.run]
             run == [old EXCEPT !.status = SchedStatus(old.obs)]
             row == [jobClaim[j] EXCEPT !.run = NoSched]
  <1>1. /\ AtCommit(s, {"finish"}) /\ ClaimEnsured(x, x.run, schedNow)
        /\ SetsJobClock(x.job)
        /\ schedRun' = [schedRun EXCEPT ![x.run].status = SchedStatus(old.obs)]
        /\ jobClaim' = [jobClaim EXCEPT ![x.job].run = NoSched]
        /\ UNCHANGED issued
    BY Zenon DEF FinishesSchedRun
  <1>2. /\ x \in ClaimTxRow /\ RowsTaken(x) /\ CallNamed(x) /\ x.op = "finish" /\ x.at \in 2..4
        /\ claimTx' = [claimTx EXCEPT ![s] = IdleTx] /\ UNCHANGED schedNow
    <2>1. {"finish"} \in SUBSET SchedOps
      BY Zenon DEF SchedOps
    <2> QED
      BY <1>1, <2>1, CommitFacts, Zenon
  <1>3. j \in SchedJobs /\ <<"job", j>> \in x.held /\ x.run \in SchedRuns
    BY <1>2, TxFields DEF RowsTaken, CallNamed
  <1>4. jobClaim[j] # NoSched /\ jobClaim[j].run = x.run /\ jobClaim[j] \in JobClaimRow
    BY <1>1, <1>3, RowFacts, Zenon DEF ClaimEnsured, NamesClaim
  <1>5. old # NoSched /\ old.job = j /\ old \in SchedRunRow
    BY <1>3, <1>4, RowFacts, SchedConstants DEF RowsInv, RunsBound
  <1>6. SchedStatus(old.obs) \in {"skipped", "failed", "succeeded"}
    BY Zenon DEF SchedStatus
  <1>7. /\ run \in SchedRunRow /\ run.job = j /\ run.status = SchedStatus(old.obs)
        /\ run.obs = old.obs /\ run.status # "running"
    BY <1>5, <1>6, Zenon DEF SchedRunRow
  <1>8. row \in JobClaimRow /\ row.fence = jobClaim[j].fence /\ row.run = NoSched
    BY <1>4, Zenon DEF JobClaimRow
  <1>9. row # NoSched /\ run # NoSched
    BY <1>7, <1>8, SchedConstants, Zenon
  <1>10. jobClaim' = [jobClaim EXCEPT ![j] = row] /\ schedRun' = [schedRun EXCEPT ![x.run] = run]
    BY <1>1, <1>3, Zenon DEF NativeSchedTypeOK
  <1> HIDE DEF row, run
  <1>11. /\ jobClaim' \in [SchedJobs -> JobClaimRow \cup {NoSched}] /\ jobClaim'[j] = row
         /\ \A k \in SchedJobs \ {j} : jobClaim'[k] = jobClaim[k]
    BY <1>3, <1>8, <1>10, Zenon DEF NativeSchedTypeOK
  <1>12. /\ schedRun' \in [SchedRuns -> SchedRunRow \cup {NoSched}] /\ schedRun'[x.run] = run
         /\ \A r \in SchedRuns \ {x.run} : schedRun'[r] = schedRun[r]
    BY <1>3, <1>7, <1>10, Zenon DEF NativeSchedTypeOK
  <1>13. LocksInv' /\ claimTx' \in [ClaimSessions -> ClaimTxRow \cup {IdleTx}]
    BY <1>1, <1>2, <1>3, <1>11, CommitLocks, Zenon
  <1>14. NativeSchedTypeOK'
    BY <1>1, <1>2, <1>3, <1>11, <1>12, <1>13, ClockTyped, Zenon DEF NativeSchedTypeOK
  <1>15. FencesIssued'
    BY <1>1, <1>8, <1>9, <1>11, RowFacts, Zenon DEF RowsInv, FencesIssued
  <1>16. RunsBound'
    <2>1. ASSUME NEW k \in SchedJobs, jobClaim'[k] # NoSched, jobClaim'[k].run # NoSched
          PROVE  schedRun'[jobClaim'[k].run] # NoSched /\ schedRun'[jobClaim'[k].run].job = k
      <3>1. k # j /\ jobClaim'[k] = jobClaim[k]
        BY <1>8, <1>11, <2>1, Zenon
      <3>2. /\ jobClaim[k].run \in SchedRuns /\ schedRun[jobClaim[k].run] # NoSched
            /\ schedRun[jobClaim[k].run].job = k
        BY <2>1, <3>1, RowFacts, Zenon DEF RowsInv, RunsBound
      <3> QED
        BY <1>5, <1>12, <3>1, <3>2, Zenon
    <2>2. ASSUME NEW r \in SchedRuns, schedRun'[r] # NoSched
          PROVE  jobClaim'[schedRun'[r].job] # NoSched
      <3>1. CASE r = x.run
        BY <1>7, <1>9, <1>11, <1>12, <3>1, Zenon
      <3>2. CASE r # x.run
        <4>1. schedRun'[r] = schedRun[r] /\ schedRun[r].job \in SchedJobs
              /\ jobClaim[schedRun[r].job] # NoSched
          BY <1>12, <2>2, <3>2, RowFacts DEF RowsInv, RunsBound
        <4> QED
          BY <1>9, <1>11, <4>1
      <3> QED
        BY <3>1, <3>2
    <2> QED
      BY <2>1, <2>2 DEF RunsBound
  <1>17. NativeRunsOwned'
    <2>1. \A a, b \in issued' : a.job = b.job /\ a.fence = b.fence => a = b
      BY <1>1, Zenon DEF RowsInv, NativeRunsOwned
    <2>2. ASSUME NEW r \in SchedRuns, schedRun'[r] # NoSched
          PROVE  IF schedRun'[r].status = "running"
                 THEN /\ jobClaim'[schedRun'[r].job].run = r
                      /\ jobClaim'[schedRun'[r].job].fence = schedRun'[r].by
                 ELSE /\ jobClaim'[schedRun'[r].job].run # r
                      /\ ~schedRun'[r].recovered => schedRun'[r].status = SchedStatus(schedRun'[r].obs)
      <3>1. CASE r = x.run
        BY <1>7, <1>8, <1>11, <1>12, <3>1, SchedConstants, Zenon
      <3>2. CASE r # x.run /\ schedRun[r].job = j
        <4>1. schedRun'[r] = schedRun[r] /\ schedRun[r] # NoSched
          BY <1>12, <2>2, <3>2
        <4>2. schedRun[r].status # "running"
          BY <1>4, <3>2, <4>1, Zenon DEF RowsInv, NativeRunsOwned
        <4>3. ~schedRun[r].recovered => schedRun[r].status = SchedStatus(schedRun[r].obs)
          BY <4>1, <4>2, Zenon DEF RowsInv, NativeRunsOwned
        <4> QED
          BY <1>8, <1>11, <3>2, <4>1, <4>2, <4>3, SchedConstants
      <3>3. CASE r # x.run /\ schedRun[r].job # j
        <4>1. schedRun'[r] = schedRun[r] /\ schedRun[r] # NoSched
              /\ jobClaim'[schedRun[r].job] = jobClaim[schedRun[r].job]
          BY <1>11, <1>12, <2>2, <3>3, RowFacts
        <4> QED
          BY <4>1 DEF RowsInv, NativeRunsOwned
      <3> QED
        BY <3>1, <3>2, <3>3, Zenon
    <2> QED
      BY <2>1, <2>2, Zenon DEF NativeRunsOwned
  <1> QED
    BY <1>13, <1>14, <1>15, <1>16, <1>17 DEF RowsInv

\* Steps that touch neither claims, runs nor transactions.
LEMMA OutsideStep ==
  ASSUME NativeSchedTypeOK, LocksInv, RowsInv,
         schedNow' \in Nat, schedJob' \in [SchedJobs -> SchedJobRow],
         UNCHANGED <<jobClaim, schedRun, issued, claimTx>>
  PROVE  NativeSchedTypeOK' /\ LocksInv' /\ RowsInv'
  <1>1. NativeSchedTypeOK'
    BY Zenon DEF NativeSchedTypeOK
  <1>2. LocksInv'
    BY Zenon DEF LocksInv, CallsLocked, CallNamed, RowsTaken, LocksExclusive
  <1>3. RowsInv'
    BY Zenon DEF RowsInv, FencesIssued, RunsBound, NativeRunsOwned
  <1> QED
    BY <1>1, <1>2, <1>3, Zenon

\* The clock, and set_observability_job_enabled.
LEMMA TickEnableStep ==
  ASSUME NativeSchedTypeOK, LocksInv, RowsInv,
         SchedTick \/ \E s \in ClaimSessions, j \in SchedJobs : SetsJobEnabled(s, j)
  PROVE  NativeSchedTypeOK' /\ LocksInv' /\ RowsInv'
  <1>1. CASE SchedTick
    <2>1. schedNow' \in Nat /\ schedJob' \in [SchedJobs -> SchedJobRow]
          /\ UNCHANGED <<jobClaim, schedRun, issued, claimTx>>
      BY <1>1 DEF SchedTick, NativeSchedTypeOK
    <2> QED
      BY <2>1, OutsideStep, Zenon
  <1>2. ASSUME NEW s \in ClaimSessions, NEW j \in SchedJobs, SetsJobEnabled(s, j)
        PROVE  NativeSchedTypeOK' /\ LocksInv' /\ RowsInv'
    <2>1. /\ schedJob' = [schedJob EXCEPT ![j].enabled = ~@]
          /\ UNCHANGED <<schedNow, jobClaim, schedRun, issued, claimTx>>
      BY <1>2, Zenon DEF SetsJobEnabled
    <2>2. schedJob[j] \in SchedJobRow
      BY Zenon DEF NativeSchedTypeOK
    <2>3. (~schedJob[j].enabled) \in BOOLEAN
      BY Zenon
    <2>4. [schedJob[j] EXCEPT !.enabled = ~@] \in SchedJobRow
      BY <2>2, <2>3, Zenon DEF SchedJobRow
    <2>5. schedJob' \in [SchedJobs -> SchedJobRow] /\ schedNow' \in Nat
      BY <2>1, <2>4, Zenon DEF NativeSchedTypeOK
    <2> QED
      BY <2>1, <2>5, OutsideStep, Zenon
  <1> QED
    BY <1>1, <1>2, Zenon

\* The store starts with no claims, runs or transactions.
LEMMA InitHolds ==
  ASSUME NativeSchedInit
  PROVE  NativeSchedTypeOK /\ LocksInv /\ RowsInv
  <1>1. NativeSchedTypeOK
    BY Zenon DEF NativeSchedInit, NativeSchedTypeOK, SchedJobRow
  <1>2. \A s \in ClaimSessions : claimTx[s] = IdleTx
    BY Zenon DEF NativeSchedInit
  <1>3. LocksInv
    BY <1>2, IdleFacts, Zenon DEF LocksInv, CallsLocked, LocksExclusive
  <1>4. RowsInv
    BY Zenon DEF NativeSchedInit, RowsInv, FencesIssued, RunsBound, NativeRunsOwned
  <1> QED
    BY <1>1, <1>3, <1>4, Zenon

\* Every statement and every commit keeps the invariant.
LEMMA StepHolds ==
  ASSUME NativeSchedTypeOK, LocksInv, RowsInv, [NativeSchedNext]_schedVars
  PROVE  NativeSchedTypeOK' /\ LocksInv' /\ RowsInv'
  <1>1. CASE UNCHANGED schedVars
    <2>1. UNCHANGED <<schedNow, schedJob, jobClaim, schedRun, issued, claimTx>>
      BY <1>1, Zenon DEF schedVars
    <2>2. schedNow' \in Nat /\ schedJob' \in [SchedJobs -> SchedJobRow]
      BY <2>1, Zenon DEF NativeSchedTypeOK
    <2> QED
      BY <2>1, <2>2, OutsideStep, Zenon
  <1>2. ASSUME NEW s \in ClaimSessions, LocksRow(s)
        PROVE  NativeSchedTypeOK' /\ LocksInv' /\ RowsInv'
    <2>1. claimTx[s] \in ClaimTxRow /\ CallNamed(claimTx[s]) /\ RowsTaken(claimTx[s])
          /\ LocksRowOf(s, claimTx[s])
      BY <1>2, TxFacts, Zenon DEF LocksRow, LocksInv, CallsLocked
    <2> QED
      BY <2>1, OwnRows, LockStep, Zenon
  <1> QED
    BY <1>1, <1>2, TickEnableStep, BeginStep, PickStep, RollBackStep, AcquireStep, RenewReleaseStep,
       StartStep, OutcomeStep, InvalidStep, FinishStep, Zenon DEF NativeSchedNext

-----------------------------------------------------------------------------
(* The theorems.                                                           *)

\* The locks and the tables satisfy the strengthened invariant in every
\* reachable state of the native store.
THEOREM NativeSchedInvariant == NativeSchedSpec => [](NativeSchedTypeOK /\ NativeSchedInv)
  <1> DEFINE Ind == NativeSchedTypeOK /\ LocksInv /\ RowsInv
  <1>1. NativeSchedInit => Ind
    BY InitHolds, Zenon
  <1>2. Ind /\ [NativeSchedNext]_schedVars => Ind'
    BY StepHolds, Zenon
  <1>3. Ind => NativeSchedTypeOK /\ NativeSchedInv
    BY Zenon DEF LocksInv, RowsInv, NativeSchedInv
  <1> QED
    BY <1>1, <1>2, <1>3, PTL DEF NativeSchedSpec

\* For any number of connections and owners, and however their statements
\* interleave: no fence is given out twice, a run that is running is the active
\* run of the claim it was started under, and a run that is over has the status
\* its observations call for or was failed by a takeover.
THEOREM NativeRunsAreOwned == NativeSchedSpec => []NativeRunsOwned
  <1>1. NativeSchedTypeOK /\ NativeSchedInv => NativeRunsOwned
    BY Zenon DEF NativeSchedInv
  <1> QED
    BY <1>1, NativeSchedInvariant, PTL

\* FOR UPDATE excludes: no row is held by two transactions, and what an
\* acquisition saw of the claim row is still the row when it replaces it.
THEOREM LocksProtectClaims == NativeSchedSpec => [](LocksExclusive /\ CallsLocked)
  <1>1. NativeSchedTypeOK /\ NativeSchedInv => LocksExclusive /\ CallsLocked
    BY Zenon DEF NativeSchedInv
  <1> QED
    BY <1>1, NativeSchedInvariant, PTL
=============================================================================
