--------------------------- MODULE AlertDelivery ---------------------------
(***************************************************************************)
(* The alert delivery queue of the controller: alert evaluation, the       *)
(* webhook worker (alerts.rs), the operator's silence, resolve and manual  *)
(* deliver commands, and the store writers behind them (store.rs).         *)
(*                                                                         *)
(* Every store writer is one immediate transaction and is one action.      *)
(* Evaluation and manual delivery read in one transaction and write in a   *)
(* later one; the row they read is kept in the process and compared.       *)
(*                                                                         *)
(* Time is abstracted to the comparisons the code makes: whether a lease   *)
(* is over, whether a row's next attempt is due, whether a silence has     *)
(* run out, whether the last success is younger than the repeat interval.  *)
(* The evaluation and command timestamps that become part of a row are     *)
(* stamps of a counter, so that two of them are equal only when the code's *)
(* timestamps would be.                                                    *)
(***************************************************************************)
EXTENDS Integers, Sequences, FiniteSets

CONSTANTS
  Workers,         \* alert worker processes
  Console,         \* the operator's command line process
  Alerts,          \* dedupe keys
  Hooks,           \* registered webhook hooks
  MaxAttempts,     \* hook.max_attempts, 1..5
  MaxDeliveries,   \* --max-deliveries of one pass
  GroupCap,        \* MAX_ALERT_WORKER_PER_GROUP
  CandidateLimit,  \* LIMIT of the claim query (1000)
  RecoverLimit,    \* expired claims recovered by one claim (100)
  QueueOrder(_),   \* the order of queue_id, a hash of the item
  MaxStamp,        \* bound: timestamps taken
  MaxFaults        \* bound: crashes, and leases that end under a live owner

ASSUME DeliveryAssumption ==
  /\ Console \notin Workers
  /\ MaxAttempts \in 1..5
  /\ {MaxDeliveries, GroupCap, CandidateLimit, RecoverLimit} \subseteq Nat \ {0}
  /\ {MaxStamp, MaxFaults} \subseteq Nat

VARIABLES
  alerts,    \* alert_events, by dedupe key
  enabled,   \* hooks with enabled = 1
  queue,     \* alert_delivery_queue, a function of the items present
  attempts,  \* alert_delivery_attempts of each item, in attempt_no order
  lapsed,    \* alerts whose silenced_until is in the past
  recent,    \* alerts whose last_sent_at is younger than the repeat interval
  process,   \* the local state of each worker and of the console
  clock,     \* stamps taken
  sends,     \* successful sends so far, each with a completion time of its own
  faults     \* faults so far

vars == <<alerts, enabled, queue, attempts, lapsed, recent, process, clock, sends,
          faults>>

Processes == Workers \cup {Console}
Stamps == 0..MaxStamp

(* An alert row.  born stands for alert_id, seen for last_seen_at, sent     *)
(* for last_sent_at (the completion time of a send, 0 for none), until for  *)
(* silenced_until.                                                          *)
NoAlert == [state |-> "none", born |-> 0, seen |-> 0, sent |-> 0, until |-> 0]

(* The idempotency key: alert_id, last_seen_at and hook.  The reason is the *)
(* dedupe key's and the state is always open.                               *)
Item == [alert : Alerts, born : Stamps, seen : Stamps, hook : Hooks]

(* The initial row, and the owner of an unclaimed row (NULL in the table).  *)
Unowned == Console

PendingRow == [status |-> "pending", attempt_count |-> 0, fence |-> 0,
               owner |-> Unowned, due |-> TRUE, late |-> FALSE]

AttemptResult == {"succeeded", "retryable", "permanent"}

NoItem == [alert |-> CHOOSE a \in Alerts : TRUE, born |-> 0, seen |-> 0,
           hook |-> CHOOSE h \in Hooks : TRUE]

NoEntries == [a \in {} |-> NoAlert]

Idle == [pc |-> "idle", before |-> NoEntries, after |-> NoEntries, todo |-> {},
         item |-> NoItem, fence |-> 0, tried |-> 0, result |-> "permanent",
         done |-> 0, groups |-> [a \in Alerts |-> 0], rounds |-> 0]

ClaimStages == {"defer", "attempt", "outcome"}

Holds(p, i) == process[p].pc \in ClaimStages /\ process[p].item = i

Goto(p, rec) == process' = [process EXCEPT ![p] = rec]

Init ==
  /\ alerts = [a \in Alerts |-> NoAlert]
  /\ enabled = Hooks
  /\ queue = [i \in {} |-> PendingRow]
  /\ attempts = [i \in {} |-> <<>>]
  /\ lapsed = {}
  /\ recent = {}
  /\ process = [p \in Processes |-> Idle]
  /\ clock = 0
  /\ sends = 0
  /\ faults = 0

-----------------------------------------------------------------------------
(* Alert evaluation: the first half of every worker pass, and of the list   *)
(* and deliver commands.                                                    *)

alert_is_silenced(a) == alerts[a].state = "silenced" /\ a \notin lapsed

candidate_record(a, now) ==
  [state |-> IF alert_is_silenced(a) THEN "silenced" ELSE "open",
   born  |-> IF alerts[a] = NoAlert THEN now ELSE alerts[a].born,
   seen  |-> now,
   sent  |-> alerts[a].sent,
   until |-> alerts[a].until]

(* What the health snapshots, observations and endpoint trust of the moment *)
(* call for: any set of alerts.                                             *)
alert_candidates == SUBSET Alerts

(* Reads the existing rows and derives the candidates.  With none there is  *)
(* nothing to write.                                                        *)
ReadCandidates(p) ==
  \E firing \in alert_candidates :
    /\ process[p].pc = "idle"
    /\ firing # {} => clock < MaxStamp
    /\ clock' = IF firing = {} THEN clock ELSE clock + 1
    /\ Goto(p, [Idle EXCEPT !.pc = IF firing = {} THEN "list" ELSE "evaluate",
                            !.before = [a \in firing |-> alerts[a]],
                            !.after = [a \in firing |-> candidate_record(a, clock + 1)]])
    /\ UNCHANGED <<alerts, enabled, queue, attempts, lapsed, recent, sends, faults>>

(* Every row must still be the row that was read; otherwise the error ends  *)
(* the pass (and the daemon, which is started again).                       *)
OverwriteChanged(before) == TRUE  \* Fault: the row is written without comparing it

RowsUnchanged(before) == \A a \in DOMAIN before : alerts[a] = before[a]

Upsert(after) == alerts' = [a \in Alerts |-> IF a \in DOMAIN after THEN after[a] ELSE alerts[a]]

write_alert_evaluation(p) ==
  /\ process[p].pc = "evaluate"
  /\ IF RowsUnchanged(process[p].before)
       THEN Upsert(process[p].after) /\ Goto(p, [Idle EXCEPT !.pc = "list"])
       ELSE UNCHANGED alerts /\ Goto(p, Idle)
  /\ UNCHANGED <<enabled, queue, attempts, lapsed, recent, clock, sends, faults>>

-----------------------------------------------------------------------------
(* The worker pass.                                                         *)

(* Open alerts with no success inside the repeat interval, for every        *)
(* enabled hook.                                                            *)
alert_worker_alert_due(a) == alerts[a].state = "open" /\ a \notin recent

(* The enqueue loop ends when nothing is left to enqueue.                   *)
Enqueuing(rec, left) == [rec EXCEPT !.pc = IF left = {} THEN "claim" ELSE "enqueue", !.todo = left]

ListDue(w) ==
  /\ process[w].pc = "list"
  /\ Goto(w, Enqueuing(Idle,
       {[alert |-> a, born |-> alerts[a].born, seen |-> alerts[a].seen, hook |-> h] :
          a \in {b \in Alerts : alert_worker_alert_due(b)}, h \in enabled}))
  /\ UNCHANGED <<alerts, enabled, queue, attempts, lapsed, recent, clock, sends, faults>>

(* An item that is present is an accepted replay; a hook disabled or an     *)
(* alert closed or pruned since the listing is an error and ends the pass.  *)
Enqueueable(i) ==
  /\ i.hook \in enabled
  /\ alerts[i.alert].state = "open"
  /\ alerts[i.alert].born = i.born

write_alert_delivery_queue_enqueue(w) ==
  \E i \in process[w].todo :
    LET rest == Enqueuing(process[w], process[w].todo \ {i})
        new  == i \notin DOMAIN queue
    IN /\ process[w].pc = "enqueue"
       /\ Goto(w, IF new /\ ~Enqueueable(i) THEN Idle ELSE rest)
       /\ IF new /\ Enqueueable(i)
            THEN /\ queue' = [k \in DOMAIN queue \cup {i} |-> IF k = i THEN PendingRow ELSE queue[k]]
                 /\ attempts' = [k \in DOMAIN queue \cup {i} |-> IF k = i THEN <<>> ELSE attempts[k]]
            ELSE UNCHANGED <<queue, attempts>>
       /\ UNCHANGED <<alerts, enabled, lapsed, recent, clock, sends, faults>>

(* Attempts made in the pass: the sum of its group counts.                  *)
Attempted(rec) == Cardinality({x \in Alerts \X (1..GroupCap) : x[2] <= rec.groups[x[1]]})

(* The claim loop ends after twice MaxDeliveries rounds or MaxDeliveries    *)
(* attempts.                                                                *)
NextClaim(p) ==
  IF process[p].rounds < 2 * MaxDeliveries /\ Attempted(process[p]) < MaxDeliveries
  THEN [Idle EXCEPT !.pc = "claim", !.groups = process[p].groups, !.rounds = process[p].rounds]
  ELSE Idle

(* Recovery returns claims whose lease is over to retry, at most            *)
(* RecoverLimit of them, and keeps their attempt_count.                     *)
RecoverLive == {i \in DOMAIN queue : queue[i].status = "claimed"}  \* Fault: ignores the lease

RecoverNothing == {}  \* Fault: expired claims are never recovered

Recoverable == {i \in DOMAIN queue : queue[i].status = "claimed" /\ queue[i].late}

RecoveredCountsAttempt(row) ==  \* Fault: recovery consumes an attempt
  [row EXCEPT !.status = "retry", !.owner = Unowned, !.due = TRUE, !.late = FALSE,
              !.attempt_count = IF @ < MaxAttempts THEN @ + 1 ELSE @]

recovered_row(row) ==
  [row EXCEPT !.status = "retry", !.owner = Unowned, !.due = TRUE, !.late = FALSE]

recover_expired_alert_delivery_claims_tx(rs) ==
  [i \in DOMAIN queue |-> IF i \in rs THEN recovered_row(queue[i]) ELSE queue[i]]

(* The claim query sees the first CandidateLimit unclaimed rows by          *)
(* queue_id, and takes one of those that are due.                           *)
Claimable(q) ==
  LET open == {i \in DOMAIN q : q[i].status \in {"pending", "retry"}}
      seen == {i \in open : Cardinality({k \in open : QueueOrder(k) < QueueOrder(i)})
                              < CandidateLimit}
  IN {i \in seen : q[i].due}

claimed_row(row, w) ==
  [row EXCEPT !.status = "claimed", !.owner = w, !.fence = @ + 1, !.late = FALSE]

(* A claim whose group has had its share in this pass is deferred; any      *)
(* other counts.  The severity and reason of a group go with the alert.     *)
GroupFull(w, i) == process[w].groups[i.alert] >= GroupCap

write_alert_delivery_queue_claim_next(w) ==
  \E rs \in SUBSET Recoverable :
    LET q == recover_expired_alert_delivery_claims_tx(rs) IN
    /\ process[w].pc = "claim"
    /\ Cardinality(rs) <= RecoverLimit
    /\ rs = Recoverable \/ Cardinality(rs) = RecoverLimit
    /\ \/ /\ Claimable(q) = {}
          /\ queue' = q
          /\ Goto(w, Idle)
       \/ \E i \in Claimable(q) :
            /\ queue' = [q EXCEPT ![i] = claimed_row(q[i], w)]
            /\ Goto(w, [process[w] EXCEPT
                          !.pc = IF GroupFull(w, i) THEN "defer" ELSE "attempt",
                          !.item = i, !.fence = q[i].fence + 1, !.tried = q[i].attempt_count,
                          !.groups[i.alert] = IF GroupFull(w, i) THEN @ ELSE @ + 1,
                          !.rounds = @ + 1])
    /\ UNCHANGED <<alerts, enabled, attempts, lapsed, recent, clock, sends, faults>>

(* The condition of every later write for a claim: still claimed by this    *)
(* owner under this fence.  The lease is compared with a timestamp taken    *)
(* before the transaction, so a lease that is over may still be accepted.   *)
StillHeld(p) ==
  LET i == process[p].item IN
  /\ i \in DOMAIN queue
  /\ queue[i].status = "claimed"
  /\ queue[i].owner = p
  /\ queue[i].fence = process[p].fence

(* The write may be refused exactly when the claim or its lease is lost.    *)
Refusable(p) == StillHeld(p) => queue[process[p].item].late

write_alert_delivery_queue_defer(w) ==
  /\ process[w].pc = "defer"
  /\ \/ /\ StillHeld(w)
        /\ queue' = [queue EXCEPT ![process[w].item].status = "retry",
                                  ![process[w].item].owner = Unowned,
                                  ![process[w].item].due = FALSE,
                                  ![process[w].item].late = FALSE]
        /\ Goto(w, NextClaim(w))
     \/ /\ Refusable(w)
        /\ UNCHANGED queue
        /\ Goto(w, Idle)
  /\ UNCHANGED <<alerts, enabled, attempts, lapsed, recent, clock, sends, faults>>

(* Re-reads the alert and the hook and sends.  An alert that is gone ends   *)
(* the pass; a disabled hook is a preflight failure, which is permanent.    *)
(* completed_at is taken when the answer is there, before the transaction   *)
(* that records it.                                                         *)
deliver_alert_queue_attempt(w) ==
  LET i == process[w].item IN
  /\ process[w].pc = "attempt"
  /\ IF alerts[i.alert] = NoAlert \/ alerts[i.alert].born # i.born
       THEN Goto(w, Idle) /\ UNCHANGED sends
       ELSE \E r \in AttemptResult :
              /\ i.hook \notin enabled => r = "permanent"
              /\ sends' = IF r = "succeeded" THEN sends + 1 ELSE sends
              /\ Goto(w, [process[w] EXCEPT !.pc = "outcome", !.result = r,
                                            !.done = IF r = "succeeded" THEN sends + 1 ELSE 0])
  /\ UNCHANGED <<alerts, enabled, queue, attempts, lapsed, recent, clock, faults>>

outcome_status(result, attempt_no) ==
  IF result = "succeeded" THEN "succeeded"
  ELSE IF result = "retryable" /\ attempt_no < MaxAttempts THEN "retry"
  ELSE "dead_letter"

(* One transaction: the queue row, the attempt row and, for a success, the  *)
(* alert's last_sent_at, which becomes the completion time whatever it was. *)
write_alert_delivery_queue_outcome(w) ==
  LET i  == process[w].item
      no == process[w].tried + 1
      r  == process[w].result
  IN
  /\ process[w].pc = "outcome"
  /\ \/ /\ StillHeld(w)
        /\ queue' = [queue EXCEPT ![i] =
             [@ EXCEPT !.status = outcome_status(r, no), !.attempt_count = no,
                       !.owner = Unowned, !.due = FALSE, !.late = FALSE]]
        /\ attempts' = [attempts EXCEPT ![i] = Append(@, r)]
        /\ IF r = "succeeded"
             THEN /\ alerts' = [alerts EXCEPT ![i.alert].sent = process[w].done]
                  /\ recent' = recent \cup {i.alert}
             ELSE UNCHANGED <<alerts, recent>>
        /\ Goto(w, NextClaim(w))
     \/ /\ Refusable(w)
        /\ Goto(w, Idle)
        /\ UNCHANGED <<alerts, queue, attempts, recent>>
  /\ UNCHANGED <<enabled, lapsed, clock, sends, faults>>

(* A worker stops anywhere in its pass; what it claimed stays claimed.      *)
Crash(w) ==
  /\ process[w].pc # "idle"
  /\ faults < MaxFaults
  /\ faults' = faults + 1
  /\ Goto(w, Idle)
  /\ UNCHANGED <<alerts, enabled, queue, attempts, lapsed, recent, clock, sends>>

-----------------------------------------------------------------------------
(* The operator.                                                            *)

(* A state transition compares the row it read before it writes, so it acts *)
(* on the row as it is.                                                     *)
run_alert_silence(a) ==
  /\ alerts[a] # NoAlert
  /\ clock < MaxStamp
  /\ clock' = clock + 1
  /\ alerts' = [alerts EXCEPT ![a].state = "silenced", ![a].until = clock + 1]
  /\ lapsed' = lapsed \ {a}
  /\ UNCHANGED <<enabled, queue, attempts, recent, process, sends, faults>>

run_alert_resolve(a) ==
  /\ alerts[a] # NoAlert
  /\ clock < MaxStamp
  /\ clock' = clock + 1
  /\ alerts' = [alerts EXCEPT ![a].state = "resolved", ![a].seen = clock + 1]
  /\ UNCHANGED <<enabled, queue, attempts, lapsed, recent, process, sends, faults>>

write_alert_webhook_hook_enabled(h) ==
  /\ clock < MaxStamp
  /\ clock' = clock + 1
  /\ enabled' = IF h \in enabled THEN enabled \ {h} ELSE enabled \cup {h}
  /\ UNCHANGED <<alerts, queue, attempts, lapsed, recent, process, sends, faults>>

(* Manual delivery lists the open alerts and sends them outside any         *)
(* transaction.  sent_at is taken after the send, before the transaction.   *)
(* A failed send records no alert change.                                   *)
run_alert_deliver ==
  LET open == {a \in Alerts : alerts[a].state = "open"} IN
  /\ process[Console].pc = "list"
  /\ \/ Goto(Console, Idle) /\ UNCHANGED <<clock, sends>>
     \/ /\ open # {} /\ clock < MaxStamp
        /\ clock' = clock + 1
        /\ sends' = sends + 1
        /\ Goto(Console, [Idle EXCEPT !.pc = "finalize", !.before = [a \in open |-> alerts[a]],
                                      !.done = sends + 1])
  /\ UNCHANGED <<alerts, enabled, queue, attempts, lapsed, recent, faults>>

write_alert_delivery_finalize ==
  LET before == process[Console].before IN
  /\ process[Console].pc = "finalize"
  /\ Goto(Console, Idle)
  /\ IF RowsUnchanged(before)
       THEN /\ Upsert([a \in DOMAIN before |-> [before[a] EXCEPT !.sent = process[Console].done]])
            /\ recent' = recent \cup DOMAIN before
       ELSE UNCHANGED <<alerts, recent>>
  /\ UNCHANGED <<enabled, queue, attempts, lapsed, clock, sends, faults>>

(* Retention deletes an alert row in any state; the queue and attempt rows  *)
(* that refer to it go with it (ON DELETE CASCADE).                         *)
PruneAlert(a) ==
  LET kept == {i \in DOMAIN queue : i.alert # a} IN
  /\ alerts[a] # NoAlert
  /\ alerts' = [alerts EXCEPT ![a] = NoAlert]
  /\ queue' = [i \in kept |-> queue[i]]
  /\ attempts' = [i \in kept |-> attempts[i]]
  /\ recent' = recent \ {a}
  /\ lapsed' = lapsed \ {a}
  /\ UNCHANGED <<enabled, process, clock, sends, faults>>

-----------------------------------------------------------------------------
(* The passage of time.                                                     *)

(* A lease may end while its owner still works, which counts as a fault:    *)
(* the lease is 60 seconds and a request is bounded by timeout_ms.          *)
LeaseEnds(i) ==
  /\ i \in DOMAIN queue
  /\ queue[i].status = "claimed" /\ ~queue[i].late
  /\ LET busy == Holds(queue[i].owner, i) IN
     /\ busy => faults < MaxFaults
     /\ faults' = IF busy THEN faults + 1 ELSE faults
  /\ queue' = [queue EXCEPT ![i].late = TRUE]
  /\ UNCHANGED <<alerts, enabled, attempts, lapsed, recent, process, clock, sends>>

ComesDue(i) ==
  /\ queue[i].status = "retry" /\ ~queue[i].due
  /\ queue' = [queue EXCEPT ![i].due = TRUE]
  /\ UNCHANGED <<alerts, enabled, attempts, lapsed, recent, process, clock, sends, faults>>

SilenceLapses(a) ==
  /\ alerts[a].state = "silenced" /\ a \notin lapsed
  /\ lapsed' = lapsed \cup {a}
  /\ UNCHANGED <<alerts, enabled, queue, attempts, recent, process, clock, sends, faults>>

RepeatElapses(a) ==
  /\ a \in recent
  /\ recent' = recent \ {a}
  /\ UNCHANGED <<alerts, enabled, queue, attempts, lapsed, process, clock, sends, faults>>

-----------------------------------------------------------------------------

WorkerStep(w) ==
  \/ ReadCandidates(w)
  \/ write_alert_evaluation(w)
  \/ ListDue(w)
  \/ write_alert_delivery_queue_enqueue(w)
  \/ write_alert_delivery_queue_claim_next(w)
  \/ write_alert_delivery_queue_defer(w)
  \/ deliver_alert_queue_attempt(w)
  \/ write_alert_delivery_queue_outcome(w)

ConsoleStep ==
  \/ ReadCandidates(Console)
  \/ write_alert_evaluation(Console)
  \/ run_alert_deliver
  \/ write_alert_delivery_finalize

OperatorStep ==
  \/ \E a \in Alerts : run_alert_silence(a) \/ run_alert_resolve(a) \/ PruneAlert(a)
  \/ \E h \in Hooks : write_alert_webhook_hook_enabled(h)

TimeStep ==
  \/ \E i \in DOMAIN queue : LeaseEnds(i) \/ ComesDue(i)
  \/ \E a \in Alerts : SilenceLapses(a) \/ RepeatElapses(a)

Next ==
  \/ \E w \in Workers : WorkerStep(w) \/ Crash(w)
  \/ ConsoleStep
  \/ OperatorStep
  \/ TimeStep

Spec == Init /\ [][Next]_vars

(* A daemon that is up runs pass after pass and is started again when it    *)
(* has ended with an error; leases of stopped workers end and retries come  *)
(* due because time passes.  Nothing is assumed of the operator, of the     *)
(* candidates an evaluation finds, or of the webhook's answers.             *)
Fairness ==
  /\ \A w \in Workers : WF_vars(WorkerStep(w))
  /\ WF_vars(\E i \in DOMAIN queue : LeaseEnds(i) /\ ~Holds(queue[i].owner, i))
  /\ WF_vars(\E i \in DOMAIN queue : ComesDue(i))

FairSpec == Spec /\ Fairness

-----------------------------------------------------------------------------
(* Properties.                                                              *)

(* The attempt history and the queue row never disagree, whatever crashes,  *)
(* lost leases and takeovers happened: attempt_count counts the recorded    *)
(* attempts (recovery and deferral consume none), every attempt but the     *)
(* last failed retryably, and the row is succeeded or dead_letter exactly   *)
(* when its last attempt says so.                                           *)
HistoryMatchesQueue ==
  \A i \in DOMAIN queue :
    LET n    == Len(attempts[i])
        last == attempts[i][n]
    IN /\ queue[i].attempt_count = n
       /\ \A k \in 1..(n - 1) : attempts[i][k] = "retryable"
       /\ queue[i].status = "succeeded" <=> (n > 0 /\ last = "succeeded")
       /\ queue[i].status = "dead_letter" <=>
            (n > 0 /\ (last = "permanent" \/ (last = "retryable" /\ n = MaxAttempts)))

(* A claim under which a worker is still working ends only by that worker's *)
(* own outcome or deferral, by retention removing the alert, or after its   *)
(* lease is over: no other worker takes an item from a live owner.          *)
ClaimsKeptStep ==
  \A i \in DOMAIN queue \cap DOMAIN queue' :
    queue[i].status = "claimed" /\ ~queue[i].late
      => \/ queue'[i].status = "claimed" /\ queue'[i].owner = queue[i].owner
              /\ queue'[i].fence = queue[i].fence
         \/ \E p \in Processes : p = queue[i].owner /\ Holds(p, i) /\ ~Holds(p, i)'

(* Recovery, claims and the other writers of the queue take no item from a  *)
(* worker under a running lease.                                            *)
LiveClaimsAreKept == [][ClaimsKeptStep]_vars

(* A successful send of the alert is recorded in this step, by the worker   *)
(* that made it or by the manual deliver command.                           *)
RecordsSend(p, a) ==
  /\ process'[p].pc # process[p].pc
  /\ \/ process[p].pc = "outcome" /\ process[p].item.alert = a
          /\ process[p].result = "succeeded"
     \/ process[p].pc = "finalize" /\ a \in DOMAIN process[p].before

(* No write computed from an old read undoes a newer decision: a silence    *)
(* that has not run out is ended only by the operator or by retention, and  *)
(* last_sent_at changes only when a successful send of this alert is being  *)
(* recorded, to the completion time of that send, although evaluations,     *)
(* manual deliveries and outcomes all write the same row.  Two sends of one *)
(* alert may be recorded in the other order than they completed in, and     *)
(* then last_sent_at is the earlier of the two times: nothing in the code   *)
(* keeps the later one.                                                     *)
DecisionsKeptStep ==
  \A a \in Alerts : alerts'[a] # NoAlert =>
    /\ alert_is_silenced(a) => alerts'[a].state \in {"silenced", "resolved"}
    /\ alerts'[a].sent # alerts[a].sent =>
         \E p \in Processes : RecordsSend(p, a) /\ alerts'[a].sent = process[p].done

(* No evaluation, manual delivery or outcome undoes a newer silence, and    *)
(* last_sent_at is only ever the completion time of a send that was made.   *)
DecisionsSurvive == [][DecisionsKeptStep]_vars

(* No delivery is queued that was not there before.                         *)
NothingQueued == DOMAIN queue' \subseteq DOMAIN queue

(* Once no more deliveries are queued, every delivery in the queue is       *)
(* eventually settled, succeeded or dead_letter (or removed by retention    *)
(* with its alert), although workers crash holding claims, leases run out,  *)
(* groups are deferred, and the claim query looks only at the first         *)
(* CandidateLimit rows.  The condition is needed: every pass queues a new   *)
(* row for an alert that keeps firing, and while such rows come faster than *)
(* a pass settles them and sort before a row, nothing in the code ever      *)
(* claims that row.                                                         *)
QueuedDeliveriesSettle ==
  (<>[][NothingQueued]_vars) =>
    \A i \in {j \in Item : j.born > 0 /\ j.seen > 0} :
      i \in DOMAIN queue ~>
        (i \in DOMAIN queue => queue[i].status \in {"succeeded", "dead_letter"})

-----------------------------------------------------------------------------
(* The inductive invariant behind the safety properties.                    *)

AlertRow ==
  [state : {"none", "open", "silenced", "resolved"}, born : Stamps, seen : Stamps,
   sent : Nat, until : Stamps]

QueueRow ==
  [status : {"pending", "retry", "claimed", "succeeded", "dead_letter"}, attempt_count : Nat,
   fence : Nat, owner : Processes, due : BOOLEAN, late : BOOLEAN]

(* The rows a process read or computed, of some alerts.                     *)
AlertRows == UNION {[S -> AlertRow] : S \in SUBSET Alerts}

Process ==
  [pc : {"idle", "evaluate", "list", "enqueue", "claim", "finalize"} \cup ClaimStages,
   before : AlertRows, after : AlertRows, todo : SUBSET Item, item : Item \cup {NoItem},
   fence : Nat, tried : Nat, result : AttemptResult, done : Nat,
   groups : [Alerts -> Nat], rounds : Nat]

DeliveryTypeOK ==
  /\ alerts \in [Alerts -> AlertRow]
  /\ enabled \subseteq Hooks
  /\ DOMAIN queue \subseteq Item
  /\ queue \in [DOMAIN queue -> QueueRow]
  /\ attempts \in [DOMAIN queue -> Seq(AttemptResult)]
  /\ lapsed \subseteq Alerts
  /\ recent \subseteq Alerts
  /\ process \in [Processes -> Process]
  /\ clock \in Stamps
  /\ sends \in Nat
  /\ faults \in Nat

(* No item is tried more often than the hook allows.                        *)
AttemptsBounded == \A i \in DOMAIN queue : Len(attempts[i]) <= MaxAttempts

(* A worker that still has its claim knows the row's fence and the number   *)
(* of attempts recorded, whatever happened to the row in between.           *)
ClaimsCurrent ==
  \A p \in Processes : \A i \in DOMAIN queue :
    Holds(p, i) /\ queue[i].status = "claimed" /\ queue[i].owner = p =>
      process[p].fence = queue[i].fence /\ process[p].tried = queue[i].attempt_count

(* Every silence has a stamp of its own.                                    *)
SilencesStamped ==
  \A a \in Alerts :
    alerts[a].until <= clock /\ (alerts[a].state = "silenced" => alerts[a].until > 0)

(* An evaluation on its way keeps the record of deliveries and the silence  *)
(* of the row it read, or found the silence over; and while the row has the *)
(* same stamp that silence stays over.                                      *)
EvaluationsDerived ==
  \A p \in Processes : process[p].pc = "evaluate" =>
    /\ DOMAIN process[p].after = DOMAIN process[p].before
    /\ \A a \in DOMAIN process[p].before :
         LET b == process[p].before[a]
             c == process[p].after[a]
         IN /\ c.sent = b.sent /\ c.until = b.until /\ b.until <= clock
            /\ c.state = "silenced" => b.state = "silenced"
            /\ b.state = "silenced" =>
                 /\ b.until > 0
                 /\ c.state = "silenced" \/ (alerts[a].until = b.until => a \in lapsed)

DeliveryInv ==
  /\ HistoryMatchesQueue /\ AttemptsBounded /\ ClaimsCurrent
  /\ SilencesStamped /\ EvaluationsDerived
=============================================================================
