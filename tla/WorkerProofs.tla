---------------------------- MODULE WorkerProofs ----------------------------
(***************************************************************************)
(* Proofs about the workers: the alert delivery queue, for any number of   *)
(* workers, alerts and hooks and any limits, the tasks of a scheduler      *)
(* tick, for any targets, methods, budget and limits, and the health       *)
(* rollup commands, for any bucket sizes of whole slots, statuses, nodes   *)
(* and overlapping commands.                                               *)
(*                                                                         *)
(* Every action of the queue is first reduced to its effect on the rows of *)
(* the queue, on the rows of the alerts and on what the processes hold;    *)
(* the parts of the invariant are then proved from these effects.          *)
(***************************************************************************)
EXTENDS AlertDelivery, SchedulerTasks, HealthRollups, FiniteSetTheorems, TLAPS

\* The constants, in the form the proofs use.
LEMMA Constants ==
  /\ Console \notin Workers /\ Console \in Processes /\ Workers \subseteq Processes
  /\ MaxAttempts \in Nat /\ MaxAttempts >= 1
  /\ MaxStamp \in Nat /\ 0 \in Stamps
  /\ \A t \in Stamps : t \in Nat
  BY DeliveryAssumption DEF Processes, Stamps

\* The idle process is well typed.
LEMMA IdleTyped ==
  /\ Idle \in Process
  /\ Idle.pc = "idle" /\ NoAlert \in AlertRow /\ NoEntries \in AlertRows
  <1>1. NoAlert \in AlertRow
    BY Constants, Zenon DEF NoAlert, AlertRow
  <1>2. NoEntries \in AlertRows
    <2>1. NoEntries \in [{} -> AlertRow] /\ {} \in SUBSET Alerts
      BY Zenon DEF NoEntries
    <2> QED
      BY <2>1, Zenon DEF AlertRows
  <1>3. NoItem \in Item \cup {NoItem} /\ {} \in SUBSET Item /\ [a \in Alerts |-> 0] \in [Alerts -> Nat]
    BY Zenon
  <1> QED
    BY <1>1, <1>2, <1>3, Zenon DEF Idle, Process, AttemptResult, ClaimStages

\* Rows of some alerts.
LEMMA RowsTyped ==
  ASSUME NEW f, DOMAIN f \subseteq Alerts, f \in [DOMAIN f -> AlertRow]
  PROVE  f \in AlertRows
  BY Zenon DEF AlertRows

\* The rows a process holds are rows of alerts.
LEMMA RowsFacts ==
  ASSUME NEW f \in AlertRows
  PROVE  DOMAIN f \subseteq Alerts /\ \A a \in DOMAIN f : f[a] \in AlertRow
  BY Zenon DEF AlertRows

\* The fields of an alert row.
LEMMA AlertFields ==
  ASSUME NEW row \in AlertRow
  PROVE  /\ row.state \in {"none", "open", "silenced", "resolved"}
         /\ row.born \in Stamps /\ row.seen \in Stamps /\ row.until \in Stamps
         /\ row.sent \in Nat
         /\ row.until \in Nat
  BY Constants, Zenon DEF AlertRow

\* A step of process p to a new local state.
LEMMA GotoFacts ==
  ASSUME process \in [Processes -> Process], NEW p \in Processes, NEW rec \in Process, Goto(p, rec)
  PROVE  /\ process' \in [Processes -> Process]
         /\ process'[p] = rec
         /\ \A q \in Processes \ {p} : process'[q] = process[q]
  BY Zenon DEF Goto

-----------------------------------------------------------------------------
(* Effects on the queue.                                                    *)

ClaimSame(p) ==
  process'[p].pc \in ClaimStages =>
    /\ process[p].pc \in ClaimStages
    /\ process'[p].item = process[p].item
    /\ process'[p].fence = process[p].fence
    /\ process'[p].tried = process[p].tried

\* Nothing of the row changed but its times.
RowSame(i) ==
  /\ i \in DOMAIN queue
  /\ queue'[i].status = queue[i].status
  /\ queue'[i].attempt_count = queue[i].attempt_count
  /\ queue'[i].owner = queue[i].owner
  /\ queue'[i].fence = queue[i].fence
  /\ attempts'[i] = attempts[i]

\* A claim ended without an attempt: by recovery or deferral.
RowFreed(i) ==
  /\ i \in DOMAIN queue
  /\ queue[i].status = "claimed"
  /\ queue'[i].status = "retry"
  /\ queue'[i].attempt_count = queue[i].attempt_count
  /\ attempts'[i] = attempts[i]

RowNew(i) == queue'[i] = PendingRow /\ attempts'[i] = <<>>

RowTaken(i, w) ==
  /\ i \in DOMAIN queue
  /\ queue[i].status \in {"pending", "retry", "claimed"}
  /\ queue'[i].status = "claimed" /\ queue'[i].owner = w
  /\ queue'[i].attempt_count = queue[i].attempt_count
  /\ attempts'[i] = attempts[i]
  /\ process'[w].item = i
  /\ process'[w].fence = queue'[i].fence
  /\ process'[w].tried = queue'[i].attempt_count

RowSettled(i, w) ==
  /\ process[w].pc = "outcome" /\ process[w].item = i /\ StillHeld(w)
  /\ queue'[i].attempt_count = process[w].tried + 1
  /\ queue'[i].status = outcome_status(process[w].result, process[w].tried + 1)
  /\ attempts'[i] = Append(attempts[i], process[w].result)

QueueEffect ==
  \/ /\ \A i \in DOMAIN queue' : RowSame(i) \/ RowFreed(i) \/ RowNew(i)
     /\ \A p \in Processes : ClaimSame(p)
  \/ \E w \in Workers : \E j \in DOMAIN queue' :
       /\ RowTaken(j, w)
       /\ \A i \in DOMAIN queue' \ {j} : RowSame(i) \/ RowFreed(i)
       /\ \A p \in Processes \ {w} : ClaimSame(p)
  \/ \E w \in Workers : \E j \in DOMAIN queue' :
       /\ RowSettled(j, w)
       /\ \A i \in DOMAIN queue' \ {j} : RowSame(i)
       /\ \A p \in Processes : ClaimSame(p)

\* A step that leaves the queue alone.
LEMMA QueueRests ==
  ASSUME UNCHANGED <<queue, attempts>>, \A p \in Processes : ClaimSame(p)
  PROVE  QueueEffect /\ ClaimsKeptStep
  <1>1. \A i \in DOMAIN queue' : RowSame(i)
    BY Zenon DEF RowSame
  <1>2. ClaimsKeptStep
    BY Zenon DEF ClaimsKeptStep
  <1> QED
    BY <1>1, <1>2, Zenon DEF QueueEffect

-----------------------------------------------------------------------------
(* Effects on the alerts.                                                   *)

EvalSame(p) ==
  process'[p].pc = "evaluate" =>
    /\ process[p].pc = "evaluate"
    /\ process'[p].before = process[p].before
    /\ process'[p].after = process[p].after

EvalNew(p) ==
  /\ DOMAIN process'[p].after = DOMAIN process'[p].before
  /\ DOMAIN process'[p].before \subseteq Alerts
  /\ \A a \in DOMAIN process'[p].before :
       /\ process'[p].before[a] = alerts[a]
       /\ process'[p].after[a] = candidate_record(a, clock + 1)

\* last_sent_at became the completion time of a send that is recorded now.
SentBySend(a) == \E p \in Processes : RecordsSend(p, a) /\ alerts'[a].sent = process[p].done

\* The row is the same, or only its state, its sight or the time of its
\* last delivery moved, and a silence that is not over stays.
AlertKept(a) ==
  /\ alerts'[a].until = alerts[a].until
  /\ alerts'[a].state = "silenced" => alerts[a].state = "silenced"
  /\ alert_is_silenced(a) => alerts'[a].state \in {"silenced", "resolved"}
  /\ alerts'[a].sent # alerts[a].sent => SentBySend(a)
  /\ a \in lapsed => a \in lapsed'

AlertSilenced(a) ==
  /\ clock' = clock + 1
  /\ alerts'[a].until = clock + 1 /\ alerts'[a].state = "silenced"
  /\ alerts'[a].sent = alerts[a].sent

AlertPruned(a) == alerts'[a] = NoAlert

AlertEffect ==
  /\ clock' \in {clock, clock + 1}
  /\ \A a \in Alerts : AlertKept(a) \/ AlertSilenced(a) \/ AlertPruned(a)
  /\ \/ \A p \in Processes : EvalSame(p)
     \/ /\ UNCHANGED <<alerts, lapsed>>
        /\ \A p \in Processes : EvalSame(p) \/ EvalNew(p)

\* A step that leaves the alerts alone.
LEMMA AlertsRest ==
  ASSUME DeliveryTypeOK, UNCHANGED <<alerts, lapsed>>, clock' \in {clock, clock + 1},
         \A p \in Processes : EvalSame(p) \/ EvalNew(p)
  PROVE  AlertEffect
  <1>1. \A a \in Alerts : AlertKept(a)
    BY Zenon DEF AlertKept, alert_is_silenced
  <1> QED
    BY <1>1, Zenon DEF AlertEffect

\* A process that moves to a state without a claim or an evaluation.
LEMMA Leaves ==
  ASSUME process \in [Processes -> Process], NEW p \in Processes, NEW rec \in Process, Goto(p, rec),
         rec.pc \notin ClaimStages, rec.pc # "evaluate"
  PROVE  /\ process' \in [Processes -> Process]
         /\ \A q \in Processes : ClaimSame(q) /\ EvalSame(q)
  BY GotoFacts, Zenon DEF ClaimSame, EvalSame

\* All processes stay.
LEMMA Stays ==
  ASSUME UNCHANGED process
  PROVE  \A q \in Processes : ClaimSame(q) /\ EvalSame(q)
  BY Zenon DEF ClaimSame, EvalSame

Step == DeliveryTypeOK' /\ QueueEffect /\ AlertEffect /\ ClaimsKeptStep

-----------------------------------------------------------------------------
(* The actions, one by one.                                                 *)

\* The claim loop goes on or ends; neither is a claim.
LEMMA NextClaimTyped ==
  ASSUME DeliveryTypeOK, NEW p \in Processes
  PROVE  /\ NextClaim(p) \in Process
         /\ NextClaim(p).pc \notin ClaimStages /\ NextClaim(p).pc # "evaluate"
  <1>1. process[p] \in Process /\ Idle \in Process /\ Idle.pc = "idle"
    BY IdleTyped, Zenon DEF DeliveryTypeOK
  <1>2. process[p].groups \in [Alerts -> Nat] /\ process[p].rounds \in Nat
    BY <1>1, Zenon DEF Process
  <1> DEFINE rec == [Idle EXCEPT !.pc = "claim", !.groups = process[p].groups, !.rounds = process[p].rounds]
  <1>3. rec \in Process /\ rec.pc = "claim"
    BY <1>1, <1>2, Zenon DEF Process
  <1>4. NextClaim(p) \in {rec, Idle}
    BY Zenon DEF NextClaim
  <1> HIDE DEF rec
  <1> QED
    BY <1>1, <1>3, <1>4, Zenon DEF ClaimStages

\* What an evaluation computes of a row is a row.
LEMMA CandidateTyped ==
  ASSUME DeliveryTypeOK, NEW a \in Alerts, clock < MaxStamp
  PROVE  candidate_record(a, clock + 1) \in AlertRow
  <1>1. alerts[a] \in AlertRow
    BY Zenon DEF DeliveryTypeOK
  <1>2. clock + 1 \in Stamps
    BY Constants DEF DeliveryTypeOK, Stamps
  <1> QED
    BY <1>1, <1>2, AlertFields, Zenon DEF candidate_record, AlertRow

\* ReadCandidates: the rows read are the rows of the moment.
LEMMA ReadCandidatesStep ==
  ASSUME DeliveryTypeOK, NEW p \in Processes, ReadCandidates(p)
  PROVE  Step
  <1>1. PICK firing \in alert_candidates :
          /\ firing # {} => clock < MaxStamp
          /\ clock' = IF firing = {} THEN clock ELSE clock + 1
          /\ Goto(p, [Idle EXCEPT !.pc = IF firing = {} THEN "list" ELSE "evaluate",
                            !.before = [a \in firing |-> alerts[a]],
                            !.after = [a \in firing |-> candidate_record(a, clock + 1)]])
          /\ UNCHANGED <<alerts, enabled, queue, attempts, lapsed, recent, sends, faults>>
    BY Zenon DEF ReadCandidates
  <1> DEFINE b == [a \in firing |-> alerts[a]]
             c == [a \in firing |-> candidate_record(a, clock + 1)]
             pc == IF firing = {} THEN "list" ELSE "evaluate"
             rec == [Idle EXCEPT !.pc = pc, !.before = b, !.after = c]
  <1>2. firing \subseteq Alerts
    BY Zenon DEF alert_candidates
  <1>3. b \in AlertRows
    <2>1. DOMAIN b \subseteq Alerts /\ b \in [DOMAIN b -> AlertRow]
      BY <1>2, Zenon DEF DeliveryTypeOK
    <2> HIDE DEF b
    <2> QED
      BY <2>1, RowsTyped, Zenon
  <1>4. c \in AlertRows
    <2>1. DOMAIN c \subseteq Alerts /\ c \in [DOMAIN c -> AlertRow]
      BY <1>1, <1>2, CandidateTyped, Zenon
    <2> HIDE DEF c
    <2> QED
      BY <2>1, RowsTyped
  <1>5. /\ DOMAIN c = DOMAIN b /\ DOMAIN b \subseteq Alerts
        /\ \A a \in DOMAIN b : b[a] = alerts[a] /\ c[a] = candidate_record(a, clock + 1)
    BY <1>2, Zenon
  <1>6. pc \in {"list", "evaluate"} /\ pc \notin ClaimStages
    BY Zenon DEF ClaimStages
  <1> HIDE DEF b, c, pc
  <1>7. rec \in Process /\ rec.pc = pc /\ rec.before = b /\ rec.after = c
    BY <1>3, <1>4, <1>6, IdleTyped, Zenon DEF Process
  <1>8. Goto(p, rec)
    BY <1>1, Zenon DEF b, c, pc
  <1> HIDE DEF rec
  <1>9. /\ process' \in [Processes -> Process] /\ process'[p] = rec
        /\ \A q \in Processes \ {p} : process'[q] = process[q]
    BY <1>7, <1>8, GotoFacts, Zenon DEF DeliveryTypeOK
  <1>10. EvalNew(p)
    BY <1>5, <1>7, <1>9, Zenon DEF EvalNew
  <1>11. \A q \in Processes : ClaimSame(q) /\ (EvalSame(q) \/ EvalNew(q))
    BY <1>6, <1>7, <1>9, <1>10, Zenon DEF ClaimSame, EvalSame
  <1>12. clock' \in {clock, clock + 1} /\ clock' \in Stamps
    BY <1>1, Constants DEF DeliveryTypeOK, Stamps
  <1>13. DeliveryTypeOK'
    BY <1>1, <1>9, <1>12, Zenon DEF DeliveryTypeOK
  <1> QED
    BY <1>1, <1>11, <1>12, <1>13, QueueRests, AlertsRest, Zenon DEF Step

\* Steps that move one process out of its claim or evaluation and leave the
\* queue and the alerts alone.
LEMMA LocalStep ==
  ASSUME DeliveryTypeOK, NEW p \in Processes, NEW rec \in Process, Goto(p, rec),
         rec.pc \notin ClaimStages, rec.pc # "evaluate",
         clock' \in {clock, clock + 1}, clock' \in Stamps, faults' \in Nat, sends' \in Nat,
         UNCHANGED <<alerts, enabled, queue, attempts, lapsed, recent>>
  PROVE  Step
  <1>1. process' \in [Processes -> Process] /\ \A q \in Processes : ClaimSame(q) /\ EvalSame(q)
    BY Leaves, Zenon DEF DeliveryTypeOK
  <1>2. DeliveryTypeOK'
    BY <1>1, Zenon DEF DeliveryTypeOK
  <1> QED
    BY <1>1, <1>2, QueueRests, AlertsRest, Zenon DEF Step

\* Upsert writes the rows computed from rows that were compared.
LEMMA WritesRows ==
  ASSUME DeliveryTypeOK, NEW f \in AlertRows, Upsert(f)
  PROVE  /\ alerts' \in [Alerts -> AlertRow]
         /\ \A a \in Alerts : alerts'[a] = IF a \in DOMAIN f THEN f[a] ELSE alerts[a]
  BY RowsFacts, Zenon DEF Upsert, DeliveryTypeOK

\* The rows a process holds.
LEMMA ProcessRows ==
  ASSUME DeliveryTypeOK, NEW p \in Processes
  PROVE  /\ process[p] \in Process
         /\ process[p].before \in AlertRows /\ process[p].after \in AlertRows
         /\ process[p].todo \subseteq Item
         /\ process[p].item \in Item \cup {NoItem}
         /\ process[p].fence \in Nat /\ process[p].tried \in Nat
         /\ process[p].result \in AttemptResult /\ process[p].done \in Nat
         /\ process[p].groups \in [Alerts -> Nat] /\ process[p].rounds \in Nat
  <1>1. process[p] \in Process
    BY Zenon DEF DeliveryTypeOK
  <1> QED
    BY <1>1, Zenon DEF Process

\* write_alert_evaluation: the comparison makes the row that was read the row
\* that is there.
LEMMA EvaluationStep ==
  ASSUME DeliveryTypeOK, EvaluationsDerived, NEW p \in Processes, write_alert_evaluation(p)
  PROVE  Step
  <1>1. process[p].pc = "evaluate" /\ UNCHANGED <<enabled, queue, attempts, lapsed, recent, clock, sends, faults>>
    BY Zenon DEF write_alert_evaluation
  <1>2. CASE RowsUnchanged(process[p].before)
    <2> DEFINE rec == [Idle EXCEPT !.pc = "list"]
               b == process[p].before
               c == process[p].after
    <2>1. Upsert(c) /\ Goto(p, rec)
      BY <1>2, Zenon DEF write_alert_evaluation
    <2>2. rec \in Process /\ rec.pc = "list"
      BY IdleTyped, Zenon DEF Process
    <2>3. process' \in [Processes -> Process] /\ \A q \in Processes : ClaimSame(q) /\ EvalSame(q)
      BY <2>1, <2>2, Leaves, Zenon DEF DeliveryTypeOK, ClaimStages
    <2>4. b \in AlertRows /\ c \in AlertRows
      BY ProcessRows, Zenon
    <2>5. /\ alerts' \in [Alerts -> AlertRow]
          /\ \A a \in Alerts : alerts'[a] = IF a \in DOMAIN c THEN c[a] ELSE alerts[a]
      BY <2>1, <2>4, WritesRows, Zenon
    <2>6. DeliveryTypeOK'
      BY <1>1, <2>3, <2>5, Zenon DEF DeliveryTypeOK
    <2>7. ASSUME NEW a \in Alerts
          PROVE  AlertKept(a)
      <3>1. CASE a \notin DOMAIN c
        <4>1. alerts'[a] = alerts[a]
          BY <2>5, <3>1, Zenon
        <4> QED
          BY <1>1, <4>1, Zenon DEF AlertKept, alert_is_silenced
      <3>2. CASE a \in DOMAIN c
        <4>1. a \in DOMAIN b /\ alerts'[a] = c[a] /\ alerts[a] = b[a]
          BY <1>1, <1>2, <2>5, <3>2, Zenon DEF EvaluationsDerived, RowsUnchanged
        <4>2. /\ c[a].sent = b[a].sent /\ c[a].until = b[a].until
              /\ c[a].state = "silenced" => b[a].state = "silenced"
              /\ b[a].state = "silenced" =>
                   c[a].state = "silenced" \/ (alerts[a].until = b[a].until => a \in lapsed)
          BY <1>1, <4>1, Zenon DEF EvaluationsDerived
        <4> QED
          BY <1>1, <4>1, <4>2, Zenon DEF AlertKept, alert_is_silenced
      <3> QED
        BY <3>1, <3>2, Zenon
    <2>8. AlertEffect
      BY <1>1, <2>3, <2>7, Zenon DEF AlertEffect
    <2> QED
      BY <1>1, <2>3, <2>6, <2>8, QueueRests, Zenon DEF Step
  <1>3. CASE ~RowsUnchanged(process[p].before)
    <2>1. UNCHANGED alerts /\ Goto(p, Idle)
      BY <1>3, Zenon DEF write_alert_evaluation
    <2>2. Idle \in Process /\ Idle.pc \notin ClaimStages /\ Idle.pc # "evaluate"
      BY IdleTyped, Zenon DEF ClaimStages
    <2>3. clock' \in {clock, clock + 1} /\ clock' \in Stamps /\ faults' \in Nat /\ sends' \in Nat
      BY <1>1, Zenon DEF DeliveryTypeOK
    <2> QED
      BY <1>1, <2>1, <2>2, <2>3, LocalStep, Zenon
  <1> QED
    BY <1>2, <1>3, Zenon

\* ListDue starts the enqueue loop with items of open alerts.
LEMMA ListDueStep ==
  ASSUME DeliveryTypeOK, NEW w \in Workers, ListDue(w)
  PROVE  Step
  <1> DEFINE due == {[alert |-> a, born |-> alerts[a].born, seen |-> alerts[a].seen, hook |-> h] :
                       a \in {b \in Alerts : alert_worker_alert_due(b)}, h \in enabled}
             rec == Enqueuing(Idle, due)
  <1>1. Goto(w, rec) /\ UNCHANGED <<alerts, enabled, queue, attempts, lapsed, recent, clock, sends, faults>>
    BY DEF ListDue
  <1>2. due \in SUBSET Item
    <2>1. \A a \in Alerts : alerts[a].born \in Stamps /\ alerts[a].seen \in Stamps
      BY AlertFields, Zenon DEF DeliveryTypeOK
    <2>2. enabled \subseteq Hooks
      BY Zenon DEF DeliveryTypeOK
    <2> QED
      BY <2>1, <2>2 DEF Item
  <1> HIDE DEF due
  <1>3. rec \in Process /\ rec.pc \in {"claim", "enqueue"}
    BY <1>2, IdleTyped, Zenon DEF Enqueuing, Process
  <1> HIDE DEF rec
  <1>4. w \in Processes /\ rec.pc \notin ClaimStages /\ rec.pc # "evaluate"
    BY <1>3, Constants, Zenon DEF ClaimStages
  <1>5. clock' \in {clock, clock + 1} /\ clock' \in Stamps /\ faults' \in Nat /\ sends' \in Nat
    BY <1>1, Zenon DEF DeliveryTypeOK
  <1> QED
    BY <1>1, <1>3, <1>4, <1>5, LocalStep, Zenon

\* The first row of an item.
LEMMA PendingTyped == PendingRow \in QueueRow
  BY Constants, Zenon DEF PendingRow, QueueRow, Unowned

\* write_alert_delivery_queue_enqueue adds a pending row without attempts, or none.
LEMMA EnqueueStep ==
  ASSUME DeliveryTypeOK, NEW w \in Workers, write_alert_delivery_queue_enqueue(w)
  PROVE  Step
  <1>1. PICK i \in process[w].todo : write_alert_delivery_queue_enqueue(w)!(i)
    BY Zenon DEF write_alert_delivery_queue_enqueue
  <1> DEFINE rest == Enqueuing(process[w], process[w].todo \ {i})
             new  == i \notin DOMAIN queue
  <1>2. /\ process[w].pc = "enqueue"
        /\ Goto(w, IF new /\ ~Enqueueable(i) THEN Idle ELSE rest)
        /\ UNCHANGED <<alerts, enabled, lapsed, recent, clock, sends, faults>>
    BY <1>1, Zenon
  <1>3. w \in Processes /\ i \in Item /\ process[w] \in Process /\ process[w].todo \subseteq Item
    BY Constants, ProcessRows, Zenon
  <1>4. rest \in Process /\ rest.pc \in {"claim", "enqueue"}
    <2>1. process[w].todo \ {i} \in SUBSET Item
      BY <1>3, Zenon
    <2> QED
      BY <1>3, <2>1, Zenon DEF Enqueuing, Process
  <1>5. Idle \in Process /\ Idle.pc = "idle"
    BY IdleTyped, Zenon
  <1>6. process' \in [Processes -> Process] /\ \A q \in Processes : ClaimSame(q) /\ EvalSame(q)
    <2> DEFINE rec == IF new /\ ~Enqueueable(i) THEN Idle ELSE rest
    <2> HIDE DEF rest
    <2>1. rec \in Process /\ rec.pc \notin ClaimStages /\ rec.pc # "evaluate"
      BY <1>4, <1>5, Zenon DEF ClaimStages
    <2>2. Goto(w, rec)
      BY <1>2, Zenon
    <2> HIDE DEF rec
    <2> QED
      BY <1>3, <2>1, <2>2, Leaves, Zenon DEF DeliveryTypeOK
  <1>7. AlertEffect
    BY <1>2, <1>6, AlertsRest, Zenon
  <1>8. CASE new /\ Enqueueable(i)
    <2>1. /\ queue' = [k \in DOMAIN queue \cup {i} |-> IF k = i THEN PendingRow ELSE queue[k]]
          /\ attempts' = [k \in DOMAIN queue \cup {i} |-> IF k = i THEN <<>> ELSE attempts[k]]
      BY <1>1, <1>8, Zenon
    <2>2. <<>> \in Seq(AttemptResult)
      OBVIOUS
    <2>3. /\ DOMAIN queue' = DOMAIN queue \cup {i}
          /\ queue' \in [DOMAIN queue' -> QueueRow]
          /\ attempts' \in [DOMAIN queue' -> Seq(AttemptResult)]
          /\ DOMAIN queue' \subseteq Item
      BY <1>3, <2>1, <2>2, PendingTyped, Zenon DEF DeliveryTypeOK
    <2>4. DeliveryTypeOK'
      BY <1>2, <1>6, <2>3, Zenon DEF DeliveryTypeOK
    <2>5. \A k \in DOMAIN queue' : RowSame(k) \/ RowNew(k)
      BY <2>1, Zenon DEF RowSame, RowNew
    <2>6. ClaimsKeptStep
      BY <1>8, <2>1, Zenon DEF ClaimsKeptStep
    <2> QED
      BY <1>6, <1>7, <2>4, <2>5, <2>6, Zenon DEF Step, QueueEffect
  <1>9. CASE ~(new /\ Enqueueable(i))
    <2>1. UNCHANGED <<queue, attempts>>
      BY <1>1, <1>9, Zenon
    <2>2. DeliveryTypeOK'
      BY <1>2, <1>6, <2>1, Zenon DEF DeliveryTypeOK
    <2> QED
      BY <1>6, <1>7, <2>1, <2>2, QueueRests, Zenon DEF Step
  <1> QED
    BY <1>8, <1>9, Zenon

\* The rows of the queue.
LEMMA QueueFacts ==
  ASSUME DeliveryTypeOK, NEW i \in DOMAIN queue
  PROVE  /\ queue[i] \in QueueRow /\ i \in Item
         /\ attempts[i] \in Seq(AttemptResult)
         /\ queue[i].fence \in Nat /\ queue[i].attempt_count \in Nat
         /\ queue[i].fence + 1 \in Nat
         /\ i.alert \in Alerts
  <1>1. queue[i] \in QueueRow /\ i \in Item /\ attempts[i] \in Seq(AttemptResult)
    BY Zenon DEF DeliveryTypeOK
  <1>2. queue[i].fence \in Nat /\ queue[i].attempt_count \in Nat
    BY <1>1, Zenon DEF QueueRow
  <1> QED
    BY <1>1, <1>2 DEF Item

\* A recovered row is a row in retry that keeps its attempt_count.
LEMMA RecoveredTyped ==
  ASSUME NEW row \in QueueRow
  PROVE  /\ recovered_row(row) \in QueueRow
         /\ recovered_row(row).status = "retry"
         /\ recovered_row(row).attempt_count = row.attempt_count
         /\ recovered_row(row).fence = row.fence
  BY Constants, Zenon DEF recovered_row, QueueRow, Unowned

\* A claimed row has a new fence and its owner.
LEMMA ClaimedTyped ==
  ASSUME NEW row \in QueueRow, NEW w \in Workers
  PROVE  /\ claimed_row(row, w) \in QueueRow
         /\ claimed_row(row, w).status = "claimed" /\ claimed_row(row, w).owner = w
         /\ claimed_row(row, w).attempt_count = row.attempt_count
         /\ claimed_row(row, w).fence = row.fence + 1
  <1>1. row.fence + 1 \in Nat /\ w \in Processes
    BY Constants DEF QueueRow
  <1> QED
    BY <1>1, Zenon DEF claimed_row, QueueRow

\* write_alert_delivery_queue_claim_next: only expired claims are recovered,
\* and the row taken is none that a live lease covers.
LEMMA ClaimStep ==
  ASSUME DeliveryTypeOK, NEW w \in Workers, write_alert_delivery_queue_claim_next(w)
  PROVE  Step
  <1>1. PICK rs \in SUBSET Recoverable : write_alert_delivery_queue_claim_next(w)!(rs)
    BY Zenon DEF write_alert_delivery_queue_claim_next
  <1> DEFINE q == recover_expired_alert_delivery_claims_tx(rs)
  <1>2. UNCHANGED <<alerts, enabled, attempts, lapsed, recent, clock, sends, faults>>
    BY <1>1, Zenon
  <1>3. /\ DOMAIN q = DOMAIN queue
        /\ \A i \in DOMAIN queue : q[i] = IF i \in rs THEN recovered_row(queue[i]) ELSE queue[i]
    BY Zenon DEF recover_expired_alert_delivery_claims_tx
  <1>4. \A i \in rs : i \in DOMAIN queue /\ queue[i].status = "claimed" /\ queue[i].late
    BY Zenon DEF Recoverable
  <1>5. \A i \in DOMAIN queue :
          /\ q[i] \in QueueRow /\ q[i].attempt_count = queue[i].attempt_count
          /\ i \in rs => q[i].status = "retry"
          /\ i \notin rs => q[i] = queue[i]
    BY <1>3, QueueFacts, RecoveredTyped, Zenon
  <1>6. w \in Processes /\ process[w] \in Process
    BY Constants, Zenon DEF DeliveryTypeOK
  <1>7. /\ \/ Claimable(q) = {} /\ queue' = q /\ Goto(w, Idle)
           \/ \E i \in Claimable(q) :
                /\ queue' = [q EXCEPT ![i] = claimed_row(q[i], w)]
                /\ Goto(w, [process[w] EXCEPT
                              !.pc = IF GroupFull(w, i) THEN "defer" ELSE "attempt",
                              !.item = i, !.fence = q[i].fence + 1, !.tried = q[i].attempt_count,
                              !.groups[i.alert] = IF GroupFull(w, i) THEN @ ELSE @ + 1,
                              !.rounds = @ + 1])
    BY <1>1, Zenon
  <1>8. \A i \in Claimable(q) : i \in DOMAIN q /\ q[i].status \in {"pending", "retry"}
    BY Zenon DEF Claimable
  <1> HIDE DEF q
  <1>9. CASE queue' = q /\ Goto(w, Idle)
    <2>1. process' \in [Processes -> Process] /\ \A p \in Processes : ClaimSame(p) /\ EvalSame(p)
      BY <1>6, <1>9, IdleTyped, Leaves, Zenon DEF DeliveryTypeOK, ClaimStages
    <2>2. DeliveryTypeOK'
      <3>1. queue' \in [DOMAIN queue' -> QueueRow]
        <4>1. q = [i \in DOMAIN queue |-> q[i]]
          BY <1>3, Zenon DEF q, recover_expired_alert_delivery_claims_tx
        <4> QED
          BY <1>3, <1>5, <1>9, <4>1, Zenon
      <3> QED
        BY <1>2, <1>3, <1>9, <2>1, <3>1, Zenon DEF DeliveryTypeOK
    <2>3. \A i \in DOMAIN queue' : RowSame(i) \/ RowFreed(i)
      BY <1>2, <1>3, <1>4, <1>5, <1>9, Zenon DEF RowSame, RowFreed
    <2>4. ClaimsKeptStep
      BY <1>3, <1>4, <1>5, <1>9, Zenon DEF ClaimsKeptStep
    <2>5. AlertEffect
      BY <1>2, <2>1, AlertsRest, Zenon
    <2> QED
      BY <2>1, <2>2, <2>3, <2>4, <2>5, Zenon DEF Step, QueueEffect
  <1>10. ASSUME NEW i \in Claimable(q),
                queue' = [q EXCEPT ![i] = claimed_row(q[i], w)],
                Goto(w, [process[w] EXCEPT
                           !.pc = IF GroupFull(w, i) THEN "defer" ELSE "attempt",
                           !.item = i, !.fence = q[i].fence + 1, !.tried = q[i].attempt_count,
                           !.groups[i.alert] = IF GroupFull(w, i) THEN @ ELSE @ + 1,
                           !.rounds = @ + 1])
         PROVE  Step
    <2> DEFINE pc  == IF GroupFull(w, i) THEN "defer" ELSE "attempt"
               grp == [process[w].groups EXCEPT ![i.alert] = IF GroupFull(w, i) THEN @ ELSE @ + 1]
               rec == [process[w] EXCEPT !.pc = pc, !.item = i, !.fence = q[i].fence + 1,
                                         !.tried = q[i].attempt_count, !.groups = grp,
                                         !.rounds = @ + 1]
    <2>1. i \in DOMAIN queue /\ i \in Item /\ i.alert \in Alerts /\ i \in DOMAIN q
      BY <1>3, <1>8, QueueFacts, Zenon
    <2>2. q[i] \in QueueRow /\ q[i].status \in {"pending", "retry"}
      BY <1>5, <1>8, <2>1, Zenon
    <2>3. q[i].fence \in Nat /\ q[i].attempt_count \in Nat /\ q[i].fence + 1 \in Nat
      BY <2>2 DEF QueueRow
    <2>4. Goto(w, rec)
      BY <1>10, Zenon
    <2>5. grp \in [Alerts -> Nat]
      <3>1. process[w].groups \in [Alerts -> Nat]
        BY <1>6, Zenon DEF Process
      <3> QED
        BY <2>1, <3>1
    <2>6. pc \in {"defer", "attempt"}
      BY Zenon
    <2> HIDE DEF grp, pc
    <2>7. process[w].rounds + 1 \in Nat
      BY <1>6 DEF Process
    <2>8. /\ rec \in Process /\ rec.pc = pc /\ rec.item = i /\ rec.fence = q[i].fence + 1
          /\ rec.tried = q[i].attempt_count
      BY <1>6, <2>1, <2>3, <2>5, <2>6, <2>7, Zenon DEF Process, ClaimStages
    <2> HIDE DEF rec
    <2>9. /\ process' \in [Processes -> Process] /\ process'[w] = rec
          /\ \A p \in Processes \ {w} : process'[p] = process[p]
      BY <1>6, <2>4, <2>8, GotoFacts, Zenon DEF DeliveryTypeOK
    <2>10. /\ \A p \in Processes \ {w} : ClaimSame(p)
           /\ \A p \in Processes : EvalSame(p)
      BY <2>6, <2>8, <2>9, Zenon DEF ClaimSame, EvalSame
    <2>11. claimed_row(q[i], w) \in QueueRow /\ claimed_row(q[i], w).status = "claimed"
           /\ claimed_row(q[i], w).owner = w
           /\ claimed_row(q[i], w).attempt_count = q[i].attempt_count
           /\ claimed_row(q[i], w).fence = q[i].fence + 1
      BY <2>2, ClaimedTyped, Zenon
    <2>12. /\ DOMAIN queue' = DOMAIN queue
           /\ queue'[i] = claimed_row(q[i], w)
           /\ \A k \in DOMAIN queue \ {i} : queue'[k] = q[k]
      BY <1>3, <1>10, <2>1, Zenon
    <2>13. queue' \in [DOMAIN queue' -> QueueRow]
      BY <1>3, <1>5, <1>10, <2>11, <2>12, Zenon
    <2>14. DeliveryTypeOK'
      BY <1>2, <2>9, <2>12, <2>13, Zenon DEF DeliveryTypeOK
    <2>15. RowTaken(i, w)
      <3>1. queue[i].status \in {"pending", "retry", "claimed"}
        BY <1>4, <1>5, <2>1, <2>2, Zenon
      <3> QED
        BY <1>2, <1>5, <2>1, <2>8, <2>9, <2>11, <2>12, <3>1, Zenon DEF RowTaken
    <2>16. \A k \in DOMAIN queue' \ {i} : RowSame(k) \/ RowFreed(k)
      BY <1>2, <1>4, <1>5, <2>12, Zenon DEF RowSame, RowFreed
    <2>17. ClaimsKeptStep
      BY <1>4, <1>5, <2>2, <2>12, Zenon DEF ClaimsKeptStep
    <2>18. AlertEffect
      BY <1>2, <2>10, AlertsRest, Zenon
    <2> QED
      BY <2>1, <2>10, <2>12, <2>14, <2>15, <2>16, <2>17, <2>18, Zenon DEF Step, QueueEffect
  <1> QED
    BY <1>7, <1>9, <1>10, Zenon

\* A refused write ends the pass and changes nothing else.
LEMMA RefusedStep ==
  ASSUME DeliveryTypeOK, NEW w \in Processes, Goto(w, Idle),
         UNCHANGED <<alerts, enabled, queue, attempts, lapsed, recent, clock, sends, faults>>
  PROVE  Step
  <1>1. Idle \in Process /\ Idle.pc \notin ClaimStages /\ Idle.pc # "evaluate"
    BY IdleTyped, Zenon DEF ClaimStages
  <1>2. clock' \in {clock, clock + 1} /\ clock' \in Stamps /\ faults' \in Nat /\ sends' \in Nat
    BY Zenon DEF DeliveryTypeOK
  <1> QED
    BY <1>1, <1>2, LocalStep, Zenon

\* A worker that writes under its claim ends the claim itself.
LEMMA OwnClaimEnds ==
  ASSUME DeliveryTypeOK, NEW w \in Processes, StillHeld(w), process[w].pc \in ClaimStages,
         process'[w].pc \notin ClaimStages,
         \A i \in DOMAIN queue \ {process[w].item} : i \in DOMAIN queue' => queue'[i] = queue[i]
  PROVE  ClaimsKeptStep
  BY Zenon DEF ClaimsKeptStep, Holds, StillHeld

\* write_alert_delivery_queue_defer gives a claim back without an attempt.
LEMMA DeferStep ==
  ASSUME DeliveryTypeOK, NEW w \in Workers, write_alert_delivery_queue_defer(w)
  PROVE  Step
  <1> DEFINE i == process[w].item
             row == [queue[i] EXCEPT !.status = "retry", !.owner = Unowned,
                                     !.due = FALSE, !.late = FALSE]
  <1>1. process[w].pc = "defer" /\ UNCHANGED <<alerts, enabled, attempts, lapsed, recent, clock, sends, faults>>
    BY Zenon DEF write_alert_delivery_queue_defer
  <1>2. w \in Processes
    BY Constants, Zenon
  <1>3. CASE UNCHANGED queue /\ Goto(w, Idle)
    BY <1>1, <1>2, <1>3, RefusedStep, Zenon
  <1>4. CASE /\ StillHeld(w) /\ Goto(w, NextClaim(w))
             /\ queue' = [queue EXCEPT ![process[w].item].status = "retry",
                                       ![process[w].item].owner = Unowned,
                                       ![process[w].item].due = FALSE,
                                       ![process[w].item].late = FALSE]
    <2>1. i \in DOMAIN queue /\ queue[i].status = "claimed" /\ queue[i] \in QueueRow
      BY <1>4, QueueFacts, Zenon DEF StillHeld
    <2>2. queue' = [queue EXCEPT ![i] = row]
      BY <1>4, <2>1, Zenon DEF DeliveryTypeOK
    <2>3. row \in QueueRow /\ row.status = "retry" /\ row.attempt_count = queue[i].attempt_count
      BY <2>1, Constants, Zenon DEF QueueRow, Unowned
    <2>4. /\ process' \in [Processes -> Process] /\ process'[w] = NextClaim(w)
          /\ \A p \in Processes : ClaimSame(p) /\ EvalSame(p)
      BY <1>2, <1>4, NextClaimTyped, Leaves, GotoFacts, Zenon DEF DeliveryTypeOK
    <2> HIDE DEF i, row
    <2>5. /\ DOMAIN queue' = DOMAIN queue /\ queue'[i] = row
          /\ \A k \in DOMAIN queue \ {i} : queue'[k] = queue[k]
          /\ queue' \in [DOMAIN queue' -> QueueRow]
      BY <2>1, <2>2, <2>3, Zenon DEF DeliveryTypeOK
    <2>6. DeliveryTypeOK'
      BY <1>1, <2>4, <2>5, Zenon DEF DeliveryTypeOK
    <2>7. \A k \in DOMAIN queue' : RowSame(k) \/ RowFreed(k)
      BY <1>1, <2>1, <2>3, <2>5, Zenon DEF RowSame, RowFreed
    <2>8. ClaimsKeptStep
      BY <1>1, <1>2, <1>4, <2>4, <2>5, NextClaimTyped, OwnClaimEnds, Zenon DEF i, ClaimStages
    <2>9. AlertEffect
      BY <1>1, <2>4, AlertsRest, Zenon
    <2> QED
      BY <2>4, <2>6, <2>7, <2>8, <2>9, Zenon DEF Step, QueueEffect
  <1> QED
    BY <1>3, <1>4, Zenon DEF write_alert_delivery_queue_defer

\* deliver_alert_queue_attempt moves the claim from attempt to outcome.
LEMMA AttemptStep ==
  ASSUME DeliveryTypeOK, NEW w \in Workers, deliver_alert_queue_attempt(w)
  PROVE  Step
  <1>1. /\ process[w].pc = "attempt"
        /\ UNCHANGED <<alerts, enabled, queue, attempts, lapsed, recent, clock, faults>>
    BY Zenon DEF deliver_alert_queue_attempt
  <1>2. w \in Processes /\ process[w] \in Process
    BY Constants, ProcessRows, Zenon
  <1>3. CASE Goto(w, Idle) /\ UNCHANGED sends
    BY <1>1, <1>2, <1>3, RefusedStep, Zenon
  <1>4. ASSUME NEW r \in AttemptResult, sends' = IF r = "succeeded" THEN sends + 1 ELSE sends,
               Goto(w, [process[w] EXCEPT !.pc = "outcome", !.result = r,
                                          !.done = IF r = "succeeded" THEN sends + 1 ELSE 0])
        PROVE  Step
    <2> DEFINE done == IF r = "succeeded" THEN sends + 1 ELSE 0
               rec == [process[w] EXCEPT !.pc = "outcome", !.result = r, !.done = done]
    <2>7. done \in Nat /\ sends' \in Nat
      BY <1>4 DEF DeliveryTypeOK
    <2>8. Goto(w, rec)
      BY <1>4, Zenon
    <2> HIDE DEF done
    <2>1. /\ rec \in Process /\ rec.pc = "outcome"
          /\ rec.item = process[w].item /\ rec.fence = process[w].fence
          /\ rec.tried = process[w].tried
      BY <1>2, <2>7, Zenon DEF Process, ClaimStages
    <2>2. Goto(w, rec)
      BY <2>8, Zenon
    <2> HIDE DEF rec
    <2>3. /\ process' \in [Processes -> Process] /\ process'[w] = rec
          /\ \A q \in Processes \ {w} : process'[q] = process[q]
      BY <1>2, <2>1, <2>2, GotoFacts, Zenon DEF DeliveryTypeOK
    <2>4. \A q \in Processes : ClaimSame(q) /\ EvalSame(q)
      BY <1>1, <2>1, <2>3, Zenon DEF ClaimSame, EvalSame, ClaimStages
    <2>5. DeliveryTypeOK'
      BY <1>1, <2>3, <2>7, Zenon DEF DeliveryTypeOK
    <2>6. clock' \in {clock, clock + 1}
      BY <1>1, Zenon
    <2> QED
      BY <1>1, <2>4, <2>5, <2>6, QueueRests, AlertsRest, Zenon DEF Step
  <1> QED
    BY <1>3, <1>4, Zenon DEF deliver_alert_queue_attempt

\* An alert that no step touches.
LEMMA Untouched ==
  ASSUME NEW a \in Alerts, alerts'[a] = alerts[a], a \in lapsed => a \in lapsed'
  PROVE  AlertKept(a)
  BY Zenon DEF AlertKept, alert_is_silenced

\* The record of a delivery: the alert's row but for the time.
LEMMA SentTyped ==
  ASSUME NEW row \in AlertRow, NEW t \in Nat
  PROVE  /\ [row EXCEPT !.sent = t] \in AlertRow
         /\ [row EXCEPT !.sent = t].sent = t
         /\ [row EXCEPT !.sent = t].state = row.state
         /\ [row EXCEPT !.sent = t].until = row.until
  BY Zenon DEF AlertRow

\* write_alert_delivery_queue_outcome, the one write of both the queue and an
\* alert.
LEMMA OutcomeStep ==
  ASSUME DeliveryTypeOK, NEW w \in Workers, write_alert_delivery_queue_outcome(w)
  PROVE  Step
  <1> DEFINE i == process[w].item
             r == process[w].result
             no == process[w].tried + 1
             done == process[w].done
             row == [queue[i] EXCEPT !.status = outcome_status(r, no), !.attempt_count = no,
                                     !.owner = Unowned, !.due = FALSE, !.late = FALSE]
  <1>1. process[w].pc = "outcome" /\ UNCHANGED <<enabled, lapsed, clock, sends, faults>>
    BY Zenon DEF write_alert_delivery_queue_outcome
  <1>2. w \in Processes /\ r \in AttemptResult /\ no \in Nat /\ done \in Nat
    BY Constants, ProcessRows
  <1>3. CASE Goto(w, Idle) /\ UNCHANGED <<alerts, queue, attempts, recent>>
    BY <1>1, <1>2, <1>3, RefusedStep, Zenon
  <1>4. CASE /\ StillHeld(w) /\ Goto(w, NextClaim(w))
             /\ queue' = [queue EXCEPT ![i] = row]
             /\ attempts' = [attempts EXCEPT ![i] = Append(@, r)]
             /\ IF r = "succeeded"
                  THEN /\ alerts' = [alerts EXCEPT ![i.alert].sent = done]
                       /\ recent' = recent \cup {i.alert}
                  ELSE UNCHANGED <<alerts, recent>>
    <2>1. i \in DOMAIN queue /\ queue[i] \in QueueRow /\ i.alert \in Alerts
          /\ attempts[i] \in Seq(AttemptResult)
      BY <1>4, QueueFacts, Zenon DEF StillHeld
    <2>2. outcome_status(r, no) \in {"succeeded", "retry", "dead_letter"}
      BY Zenon DEF outcome_status
    <2>3. row \in QueueRow /\ row.status = outcome_status(r, no) /\ row.attempt_count = no
      <3> HIDE DEF no, r, i
      <3> QED
        BY <1>2, <2>1, <2>2, Constants, Zenon DEF QueueRow, Unowned
    <2>4. Append(attempts[i], r) \in Seq(AttemptResult)
      BY <1>2, <2>1
    <2>5. /\ process' \in [Processes -> Process] /\ process'[w] = NextClaim(w)
          /\ \A p \in Processes : ClaimSame(p) /\ EvalSame(p)
      BY <1>2, <1>4, NextClaimTyped, Leaves, GotoFacts, Zenon DEF DeliveryTypeOK
    <2> HIDE DEF row
    <2>6. /\ DOMAIN queue' = DOMAIN queue /\ queue'[i] = row
          /\ \A k \in DOMAIN queue \ {i} : queue'[k] = queue[k]
          /\ queue' \in [DOMAIN queue' -> QueueRow]
      BY <1>4, <2>1, <2>3, Zenon DEF DeliveryTypeOK
    <2>7. /\ attempts'[i] = Append(attempts[i], r)
          /\ \A k \in DOMAIN queue \ {i} : attempts'[k] = attempts[k]
          /\ attempts' \in [DOMAIN queue' -> Seq(AttemptResult)]
      BY <1>4, <2>1, <2>4, <2>6, Zenon DEF DeliveryTypeOK
    <2>8. /\ alerts' \in [Alerts -> AlertRow] /\ recent' \subseteq Alerts
          /\ \A a \in Alerts :
               \/ alerts'[a] = alerts[a]
               \/ a = i.alert /\ r = "succeeded" /\ alerts'[a] = [alerts[a] EXCEPT !.sent = done]
      <3>1. CASE r = "succeeded"
        <4>1. alerts[i.alert] \in AlertRow
          BY <2>1, Zenon DEF DeliveryTypeOK
        <4>2. alerts' = [alerts EXCEPT ![i.alert] = [alerts[i.alert] EXCEPT !.sent = done]]
          BY <1>4, <2>1, <3>1, Zenon DEF DeliveryTypeOK
        <4>3. [alerts[i.alert] EXCEPT !.sent = done] \in AlertRow
          BY <1>2, <4>1, SentTyped, Zenon
        <4> QED
          BY <1>4, <2>1, <3>1, <4>2, <4>3, Zenon DEF DeliveryTypeOK
      <3>2. CASE r # "succeeded"
        BY <1>4, <3>2, Zenon DEF DeliveryTypeOK
      <3> QED
        BY <3>1, <3>2, Zenon
    <2>9. DeliveryTypeOK'
      BY <1>1, <2>5, <2>6, <2>7, <2>8, Zenon DEF DeliveryTypeOK
    <2>10. \A a \in Alerts : AlertKept(a)
      <3> TAKE a \in Alerts
      <3>1. alerts[a] \in AlertRow
        BY Zenon DEF DeliveryTypeOK
      <3>2. CASE alerts'[a] = alerts[a]
        BY <1>1, <3>2, Untouched, Zenon
      <3>3. CASE a = i.alert /\ r = "succeeded" /\ alerts'[a] = [alerts[a] EXCEPT !.sent = done]
        <4>1. /\ alerts'[a].sent = done /\ alerts'[a].state = alerts[a].state
              /\ alerts'[a].until = alerts[a].until
          BY <1>2, <3>1, <3>3 DEF AlertRow
        <4>2. process'[w].pc # "outcome"
          BY <1>2, <2>5, NextClaimTyped, Zenon DEF ClaimStages
        <4>3. RecordsSend(w, a)
          BY <1>1, <3>3, <4>2, Zenon DEF RecordsSend
        <4>4. SentBySend(a)
          BY <1>2, <4>1, <4>3, Zenon DEF SentBySend
        <4> QED
          BY <1>1, <4>1, <4>4, Zenon DEF AlertKept, alert_is_silenced
      <3> QED
        BY <2>8, <3>2, <3>3, Zenon
    <2>11. AlertEffect
      BY <1>1, <2>5, <2>10, Zenon DEF AlertEffect
    <2>12. RowSettled(i, w)
      BY <1>1, <1>4, <2>3, <2>6, <2>7, Zenon DEF RowSettled
    <2>13. \A k \in DOMAIN queue' \ {i} : RowSame(k)
      BY <2>6, <2>7, Zenon DEF RowSame
    <2>14. ClaimsKeptStep
      BY <1>1, <1>2, <1>4, <2>5, <2>6, NextClaimTyped, OwnClaimEnds, Zenon DEF ClaimStages
    <2>15. i \in DOMAIN queue'
      BY <2>1, <2>6, Zenon
    <2> HIDE DEF i
    <2> QED
      BY <2>5, <2>9, <2>11, <2>12, <2>13, <2>14, <2>15, Zenon DEF Step, QueueEffect
  <1> QED
    BY <1>3, <1>4, Zenon DEF write_alert_delivery_queue_outcome

\* A worker that stops leaves its claim in the queue.
LEMMA CrashStep ==
  ASSUME DeliveryTypeOK, NEW w \in Workers, Crash(w)
  PROVE  Step
  <1>1. /\ Goto(w, Idle) /\ faults' = faults + 1
        /\ UNCHANGED <<alerts, enabled, queue, attempts, lapsed, recent, clock, sends>>
    BY Zenon DEF Crash
  <1>2. Idle \in Process /\ Idle.pc \notin ClaimStages /\ Idle.pc # "evaluate" /\ w \in Processes
    BY IdleTyped, Constants, Zenon DEF ClaimStages
  <1>3. clock' \in {clock, clock + 1} /\ clock' \in Stamps /\ faults' \in Nat /\ sends' \in Nat
    BY <1>1 DEF DeliveryTypeOK
  <1> QED
    BY <1>1, <1>2, <1>3, LocalStep, Zenon

-----------------------------------------------------------------------------
(* The operator, retention and time.                                        *)

\* Steps of the operator and of time that leave the queue and the processes.
LEMMA AlertStep ==
  ASSUME DeliveryTypeOK, UNCHANGED <<queue, attempts, process>>,
         alerts' \in [Alerts -> AlertRow], enabled' \subseteq Hooks, lapsed' \subseteq Alerts,
         recent' \subseteq Alerts, clock' \in {clock, clock + 1}, clock' \in Stamps, faults' \in Nat, sends' \in Nat,
         \A a \in Alerts : AlertKept(a) \/ AlertSilenced(a)
  PROVE  Step
  <1>1. \A p \in Processes : ClaimSame(p) /\ EvalSame(p)
    BY Stays, Zenon
  <1>2. DeliveryTypeOK'
    BY Zenon DEF DeliveryTypeOK
  <1>3. AlertEffect
    BY <1>1, Zenon DEF AlertEffect
  <1> QED
    BY <1>1, <1>2, <1>3, QueueRests, Zenon DEF Step

\* The stamp of an operator's command.
LEMMA StampTyped ==
  ASSUME DeliveryTypeOK, clock < MaxStamp
  PROVE  clock + 1 \in Stamps
  BY Constants DEF DeliveryTypeOK, Stamps

\* run_alert_silence stamps the row it silences.
LEMMA SilenceStep ==
  ASSUME DeliveryTypeOK, NEW a \in Alerts, run_alert_silence(a)
  PROVE  Step
  <1> DEFINE row == [alerts[a] EXCEPT !.state = "silenced", !.until = clock + 1]
  <1>1. /\ clock < MaxStamp /\ clock' = clock + 1
        /\ alerts' = [alerts EXCEPT ![a].state = "silenced", ![a].until = clock + 1]
        /\ lapsed' = lapsed \ {a}
        /\ UNCHANGED <<enabled, queue, attempts, recent, process, sends, faults>>
    BY Zenon DEF run_alert_silence
  <1>2. clock + 1 \in Stamps /\ alerts[a] \in AlertRow
    BY <1>1, StampTyped, Zenon DEF DeliveryTypeOK
  <1>3. alerts' = [alerts EXCEPT ![a] = row]
    BY <1>1, Zenon DEF DeliveryTypeOK
  <1>4. /\ row \in AlertRow /\ row.state = "silenced" /\ row.until = clock + 1
        /\ row.sent = alerts[a].sent
    BY <1>2, Zenon DEF AlertRow
  <1> HIDE DEF row
  <1>5. /\ alerts' \in [Alerts -> AlertRow] /\ alerts'[a] = row
        /\ \A b \in Alerts \ {a} : alerts'[b] = alerts[b]
    BY <1>3, <1>4, Zenon DEF DeliveryTypeOK
  <1>6. AlertSilenced(a)
    BY <1>1, <1>4, <1>5, Zenon DEF AlertSilenced
  <1>7. \A b \in Alerts \ {a} : AlertKept(b)
    BY <1>1, <1>5, Untouched, Zenon
  <1>8. /\ enabled' \subseteq Hooks /\ lapsed' \subseteq Alerts /\ recent' \subseteq Alerts
        /\ faults' \in Nat /\ sends' \in Nat /\ clock' \in Stamps
    BY <1>1, <1>2, Zenon DEF DeliveryTypeOK
  <1> QED
    BY <1>1, <1>5, <1>6, <1>7, <1>8, AlertStep, Zenon

\* run_alert_resolve keeps the stamp of a silence and the deliveries.
LEMMA ResolveStep ==
  ASSUME DeliveryTypeOK, NEW a \in Alerts, run_alert_resolve(a)
  PROVE  Step
  <1> DEFINE row == [alerts[a] EXCEPT !.state = "resolved", !.seen = clock + 1]
  <1>1. /\ clock < MaxStamp /\ clock' = clock + 1
        /\ alerts' = [alerts EXCEPT ![a].state = "resolved", ![a].seen = clock + 1]
        /\ UNCHANGED <<enabled, queue, attempts, lapsed, recent, process, sends, faults>>
    BY Zenon DEF run_alert_resolve
  <1>2. clock + 1 \in Stamps /\ alerts[a] \in AlertRow
    BY <1>1, StampTyped, Zenon DEF DeliveryTypeOK
  <1>3. alerts' = [alerts EXCEPT ![a] = row]
    BY <1>1, Zenon DEF DeliveryTypeOK
  <1>4. /\ row \in AlertRow /\ row.state = "resolved" /\ row.until = alerts[a].until
        /\ row.sent = alerts[a].sent
    BY <1>2, Zenon DEF AlertRow
  <1> HIDE DEF row
  <1>5. /\ alerts' \in [Alerts -> AlertRow] /\ alerts'[a] = row
        /\ \A b \in Alerts \ {a} : alerts'[b] = alerts[b]
    BY <1>3, <1>4, Zenon DEF DeliveryTypeOK
  <1>6. AlertKept(a)
    BY <1>1, <1>4, <1>5, Zenon DEF AlertKept
  <1>7. \A b \in Alerts \ {a} : AlertKept(b)
    BY <1>1, <1>5, Untouched, Zenon
  <1>8. /\ enabled' \subseteq Hooks /\ lapsed' \subseteq Alerts /\ recent' \subseteq Alerts
        /\ faults' \in Nat /\ sends' \in Nat /\ clock' \in Stamps
    BY <1>1, <1>2, Zenon DEF DeliveryTypeOK
  <1> QED
    BY <1>1, <1>5, <1>6, <1>7, <1>8, AlertStep, Zenon

\* write_alert_webhook_hook_enabled touches neither the queue nor the alerts.
LEMMA HookStep ==
  ASSUME DeliveryTypeOK, NEW h \in Hooks, write_alert_webhook_hook_enabled(h)
  PROVE  Step
  <1>1. /\ clock < MaxStamp /\ clock' = clock + 1
        /\ enabled' = IF h \in enabled THEN enabled \ {h} ELSE enabled \cup {h}
        /\ UNCHANGED <<alerts, queue, attempts, lapsed, recent, process, sends, faults>>
    BY Zenon DEF write_alert_webhook_hook_enabled
  <1>2. /\ enabled' \subseteq Hooks /\ lapsed' \subseteq Alerts /\ recent' \subseteq Alerts
        /\ faults' \in Nat /\ sends' \in Nat /\ clock' \in Stamps /\ alerts' \in [Alerts -> AlertRow]
    BY <1>1, StampTyped, Zenon DEF DeliveryTypeOK
  <1>3. \A a \in Alerts : AlertKept(a)
    BY <1>1, Untouched, Zenon
  <1> QED
    BY <1>1, <1>2, <1>3, AlertStep, Zenon

\* A silence runs out, or the repeat interval of a success elapses.
LEMMA LapseStep ==
  ASSUME DeliveryTypeOK, NEW a \in Alerts, SilenceLapses(a) \/ RepeatElapses(a)
  PROVE  Step
  <1>1. /\ UNCHANGED <<alerts, enabled, queue, attempts, process, clock, sends, faults>>
        /\ lapsed \subseteq lapsed' /\ lapsed' \subseteq Alerts /\ recent' \subseteq Alerts
    BY Zenon DEF SilenceLapses, RepeatElapses, DeliveryTypeOK
  <1>2. \A b \in Alerts : AlertKept(b)
    BY <1>1, Untouched, Zenon
  <1>3. /\ enabled' \subseteq Hooks /\ faults' \in Nat /\ sends' \in Nat /\ clock' \in Stamps
        /\ alerts' \in [Alerts -> AlertRow]
    BY <1>1, Zenon DEF DeliveryTypeOK
  <1> QED
    BY <1>1, <1>2, <1>3, AlertStep, Zenon

\* run_alert_deliver only reads.
LEMMA ManualDeliverStep ==
  ASSUME DeliveryTypeOK, run_alert_deliver
  PROVE  Step
  <1> DEFINE open == {a \in Alerts : alerts[a].state = "open"}
             b == [a \in open |-> alerts[a]]
             rec == [Idle EXCEPT !.pc = "finalize", !.before = b, !.done = sends + 1]
  <1>1. UNCHANGED <<alerts, enabled, queue, attempts, lapsed, recent, faults>> /\ Console \in Processes
    BY Constants, Zenon DEF run_alert_deliver
  <1>2. CASE Goto(Console, Idle) /\ UNCHANGED <<clock, sends>>
    BY <1>1, <1>2, RefusedStep, Zenon
  <1>3. CASE clock < MaxStamp /\ clock' = clock + 1 /\ sends' = sends + 1 /\ Goto(Console, rec)
    <2>1. b \in AlertRows
      <3>1. DOMAIN b \subseteq Alerts /\ b \in [DOMAIN b -> AlertRow]
        BY Zenon DEF DeliveryTypeOK
      <3> HIDE DEF b
      <3> QED
        BY <3>1, RowsTyped, Zenon
    <2> HIDE DEF b
    <2>4. sends + 1 \in Nat
      BY DEF DeliveryTypeOK
    <2>2. rec \in Process /\ rec.pc = "finalize"
      BY <2>1, <2>4, IdleTyped, Zenon DEF Process
    <2> HIDE DEF rec
    <2>3. clock' \in Stamps /\ faults' \in Nat /\ sends' \in Nat
      BY <1>1, <1>3, <2>4, StampTyped, Zenon DEF DeliveryTypeOK
    <2> QED
      BY <1>1, <1>3, <2>2, <2>3, LocalStep, Zenon DEF ClaimStages
  <1> QED
    BY <1>2, <1>3, Zenon DEF run_alert_deliver

\* write_alert_delivery_finalize: the rows compared are the rows there, so only
\* the time of the last delivery moves.
LEMMA FinalizeStep ==
  ASSUME DeliveryTypeOK, write_alert_delivery_finalize
  PROVE  Step
  <1> DEFINE b == process[Console].before
             done == process[Console].done
             f == [a \in DOMAIN b |-> [b[a] EXCEPT !.sent = done]]
  <1>1. /\ Goto(Console, Idle) /\ Console \in Processes /\ process[Console].pc = "finalize"
        /\ UNCHANGED <<enabled, queue, attempts, lapsed, clock, sends, faults>>
    BY Constants, Zenon DEF write_alert_delivery_finalize
  <1>2. CASE UNCHANGED <<alerts, recent>>
    BY <1>1, <1>2, RefusedStep, Zenon
  <1>3. CASE RowsUnchanged(b) /\ Upsert(f) /\ recent' = recent \cup DOMAIN b
    <2>1. DOMAIN b \subseteq Alerts /\ (\A a \in DOMAIN b : b[a] \in AlertRow) /\ done \in Nat
      BY <1>1, ProcessRows, RowsFacts, Zenon
    <2>2. f \in AlertRows /\ DOMAIN f = DOMAIN b
      <3>1. DOMAIN f \subseteq Alerts /\ f \in [DOMAIN f -> AlertRow] /\ DOMAIN f = DOMAIN b
        BY <2>1, SentTyped, Zenon
      <3> HIDE DEF f
      <3> QED
        BY <3>1, RowsTyped, Zenon
    <2>3. \A a \in DOMAIN b : f[a] = [b[a] EXCEPT !.sent = done] /\ alerts[a] = b[a]
      BY <1>3, Zenon DEF RowsUnchanged
    <2>10. process'[Console] = Idle
      BY <1>1, IdleTyped, GotoFacts, Zenon DEF DeliveryTypeOK
    <2>11. \A a \in DOMAIN b : RecordsSend(Console, a)
      BY <1>1, <2>10, IdleTyped, Zenon DEF RecordsSend
    <2> HIDE DEF f, b
    <2>4. /\ alerts' \in [Alerts -> AlertRow]
          /\ \A a \in Alerts : alerts'[a] = IF a \in DOMAIN f THEN f[a] ELSE alerts[a]
      BY <1>3, <2>2, WritesRows, Zenon
    <2>5. process' \in [Processes -> Process] /\ \A q \in Processes : ClaimSame(q) /\ EvalSame(q)
      BY <1>1, IdleTyped, Leaves, Zenon DEF DeliveryTypeOK, ClaimStages
    <2>6. recent' \subseteq Alerts
      BY <1>3, <2>1, Zenon DEF DeliveryTypeOK
    <2>7. DeliveryTypeOK'
      BY <1>1, <2>4, <2>5, <2>6, Zenon DEF DeliveryTypeOK
    <2>8. \A a \in Alerts : AlertKept(a)
      <3> TAKE a \in Alerts
      <3>1. CASE a \in DOMAIN b
        <4>1. alerts'[a] = [alerts[a] EXCEPT !.sent = done] /\ alerts[a] \in AlertRow
          BY <2>1, <2>2, <2>3, <2>4, <3>1, Zenon
        <4>2. /\ alerts'[a].sent = done /\ alerts'[a].state = alerts[a].state
              /\ alerts'[a].until = alerts[a].until
          BY <2>1, <4>1 DEF AlertRow
        <4>3. SentBySend(a)
          BY <1>1, <2>11, <3>1, <4>2, Zenon DEF SentBySend
        <4> QED
          BY <1>1, <4>2, <4>3, Zenon DEF AlertKept, alert_is_silenced
      <3>2. CASE a \notin DOMAIN b
        BY <1>1, <2>2, <2>4, <3>2, Untouched, Zenon
      <3> QED
        BY <3>1, <3>2, Zenon
    <2>9. AlertEffect
      BY <1>1, <2>5, <2>8, Zenon DEF AlertEffect
    <2> QED
      BY <1>1, <2>5, <2>7, <2>9, QueueRests, Zenon DEF Step
  <1> QED
    BY <1>2, <1>3, Zenon DEF write_alert_delivery_finalize

\* Retention removes an alert and, by the cascade, its queue and attempt rows.
LEMMA PruneStep ==
  ASSUME DeliveryTypeOK, NEW a \in Alerts, PruneAlert(a)
  PROVE  Step
  <1> DEFINE kept == {i \in DOMAIN queue : i.alert # a}
  <1>1. /\ alerts' = [alerts EXCEPT ![a] = NoAlert]
        /\ queue' = [i \in kept |-> queue[i]] /\ attempts' = [i \in kept |-> attempts[i]]
        /\ recent' = recent \ {a} /\ lapsed' = lapsed \ {a}
        /\ UNCHANGED <<enabled, process, clock, sends, faults>>
    BY Zenon DEF PruneAlert
  <1>2. kept \subseteq DOMAIN queue
    BY Zenon
  <1> HIDE DEF kept
  <1>3. /\ DOMAIN queue' = kept
        /\ \A i \in kept : queue'[i] = queue[i] /\ attempts'[i] = attempts[i]
        /\ queue' \in [DOMAIN queue' -> QueueRow]
        /\ attempts' \in [DOMAIN queue' -> Seq(AttemptResult)]
    BY <1>1, <1>2, Zenon DEF DeliveryTypeOK
  <1>4. /\ alerts' \in [Alerts -> AlertRow] /\ alerts'[a] = NoAlert
        /\ \A b \in Alerts \ {a} : alerts'[b] = alerts[b]
    BY <1>1, IdleTyped, Zenon DEF DeliveryTypeOK
  <1>5. DeliveryTypeOK'
    BY <1>1, <1>2, <1>3, <1>4, Zenon DEF DeliveryTypeOK
  <1>6. \A p \in Processes : ClaimSame(p) /\ EvalSame(p)
    BY <1>1, Stays, Zenon
  <1>7. \A i \in DOMAIN queue' : RowSame(i)
    BY <1>2, <1>3, Zenon DEF RowSame
  <1>8. ClaimsKeptStep
    BY <1>3, Zenon DEF ClaimsKeptStep
  <1>9. \A b \in Alerts : AlertKept(b) \/ AlertPruned(b)
    BY <1>1, <1>4, Untouched, Zenon DEF AlertPruned
  <1>10. AlertEffect
    BY <1>1, <1>6, <1>9, Zenon DEF AlertEffect
  <1> QED
    BY <1>5, <1>6, <1>7, <1>8, <1>10, Zenon DEF Step, QueueEffect

\* A lease runs out or a retry comes due: only the times of a row move.
LEMMA TimesStep ==
  ASSUME DeliveryTypeOK, NEW i \in DOMAIN queue, LeaseEnds(i) \/ ComesDue(i)
  PROVE  Step
  <1>1. UNCHANGED <<alerts, enabled, attempts, lapsed, recent, process, clock, sends>> /\ faults' \in Nat /\ sends' \in Nat
    BY DEF LeaseEnds, ComesDue, DeliveryTypeOK
  <1>2. PICK row \in {[queue[i] EXCEPT !.late = TRUE], [queue[i] EXCEPT !.due = TRUE]} :
          queue' = [queue EXCEPT ![i] = row]
    BY Zenon DEF LeaseEnds, ComesDue, DeliveryTypeOK
  <1>3. queue[i] \in QueueRow
    BY QueueFacts, Zenon
  <1>4. /\ row \in QueueRow /\ row.status = queue[i].status /\ row.owner = queue[i].owner
        /\ row.attempt_count = queue[i].attempt_count /\ row.fence = queue[i].fence
    BY <1>2, <1>3, Zenon DEF QueueRow
  <1>5. /\ DOMAIN queue' = DOMAIN queue /\ queue'[i] = row
        /\ \A k \in DOMAIN queue \ {i} : queue'[k] = queue[k]
        /\ queue' \in [DOMAIN queue' -> QueueRow]
    BY <1>2, <1>4, Zenon DEF DeliveryTypeOK
  <1>6. DeliveryTypeOK'
    BY <1>1, <1>5, Zenon DEF DeliveryTypeOK
  <1>7. \A k \in DOMAIN queue' : RowSame(k)
    BY <1>1, <1>4, <1>5, Zenon DEF RowSame
  <1>8. \A p \in Processes : ClaimSame(p) /\ EvalSame(p)
    BY <1>1, Stays, Zenon
  <1>9. ClaimsKeptStep
    BY <1>4, <1>5, Zenon DEF ClaimsKeptStep
  <1>10. AlertEffect
    BY <1>1, <1>8, AlertsRest, Zenon
  <1> QED
    BY <1>6, <1>7, <1>8, <1>9, <1>10, Zenon DEF Step, QueueEffect

\* Every step of the specification has one of these effects.
LEMMA EveryStep ==
  ASSUME DeliveryTypeOK, EvaluationsDerived, [Next]_vars
  PROVE  Step
  <1>1. ASSUME NEW w \in Workers, WorkerStep(w) \/ Crash(w)
        PROVE  Step
    BY <1>1, Constants, ReadCandidatesStep, EvaluationStep, ListDueStep, EnqueueStep, ClaimStep,
       DeferStep, AttemptStep, OutcomeStep, CrashStep, Zenon DEF WorkerStep
  <1>2. CASE ConsoleStep
    BY <1>2, Constants, ReadCandidatesStep, EvaluationStep, ManualDeliverStep, FinalizeStep, Zenon
       DEF ConsoleStep
  <1>3. CASE OperatorStep
    BY <1>3, SilenceStep, ResolveStep, PruneStep, HookStep, Zenon DEF OperatorStep
  <1>4. CASE TimeStep
    BY <1>4, TimesStep, LapseStep, Zenon DEF TimeStep
  <1>5. CASE UNCHANGED vars
    <2>1. UNCHANGED <<alerts, enabled, queue, attempts, lapsed, recent, process, clock, sends, faults>>
      BY <1>5, Zenon DEF vars
    <2>2. DeliveryTypeOK'
      BY <2>1, Zenon DEF DeliveryTypeOK
    <2>3. \A p \in Processes : ClaimSame(p) /\ EvalSame(p)
      BY <2>1, Stays, Zenon
    <2> QED
      BY <2>1, <2>2, <2>3, QueueRests, AlertsRest, Zenon DEF Step
  <1> QED
    BY <1>1, <1>2, <1>3, <1>4, <1>5, Zenon DEF Next

-----------------------------------------------------------------------------
(* The invariant, from the effects.                                         *)

\* What HistoryMatchesQueue says of one row and its attempts.
HistoryOf(row, h) ==
  /\ row.attempt_count = Len(h)
  /\ \A k \in 1..(Len(h) - 1) : h[k] = "retryable"
  /\ row.status = "succeeded" <=> (Len(h) > 0 /\ h[Len(h)] = "succeeded")
  /\ row.status = "dead_letter" <=>
       (Len(h) > 0 /\ (h[Len(h)] = "permanent" \/ (h[Len(h)] = "retryable" /\ Len(h) = MaxAttempts)))

\* HistoryMatchesQueue, row by row.
LEMMA HistoryByRow == HistoryMatchesQueue <=> \A i \in DOMAIN queue : HistoryOf(queue[i], attempts[i])
  BY Zenon DEF HistoryMatchesQueue, HistoryOf

\* The same in the next state.
LEMMA HistoryByRowNext ==
  HistoryMatchesQueue' <=> \A i \in DOMAIN queue' : HistoryOf(queue'[i], attempts'[i])
  BY Zenon DEF HistoryMatchesQueue, HistoryOf

\* Claims, recoveries and deferrals move between the states that no attempt
\* decides, so the history still matches.
LEMMA HistoryStable ==
  ASSUME NEW row, NEW next, NEW h, HistoryOf(row, h),
         next.attempt_count = row.attempt_count,
         \/ next.status = row.status
         \/ {next.status, row.status} \subseteq {"pending", "retry", "claimed"}
  PROVE  HistoryOf(next, h)
  BY Zenon DEF HistoryOf

\* A claimed row has attempts left, and all its attempts failed retryably.
LEMMA ClaimedHistory ==
  ASSUME NEW row, NEW h \in Seq(AttemptResult), HistoryOf(row, h), row.status = "claimed",
         Len(h) <= MaxAttempts
  PROVE  Len(h) < MaxAttempts /\ \A k \in 1..Len(h) : h[k] = "retryable"
  <1>1. Len(h) \in Nat /\ MaxAttempts \in Nat /\ MaxAttempts >= 1
    BY Constants
  <1>2. CASE Len(h) = 0
    BY <1>1, <1>2
  <1>3. CASE Len(h) > 0
    <2>1. h[Len(h)] \in AttemptResult
      BY <1>1, <1>3
    <2>2. h[Len(h)] = "retryable" /\ Len(h) # MaxAttempts
      BY <1>3, <2>1, Zenon DEF HistoryOf, AttemptResult
    <2>3. \A k \in 1..(Len(h) - 1) : h[k] = "retryable"
      BY Zenon DEF HistoryOf
    <2>4. \A k \in 1..Len(h) : k \in 1..(Len(h) - 1) \/ k = Len(h)
      BY <1>1
    <2> QED
      BY <1>1, <2>2, <2>3, <2>4
  <1> QED
    BY <1>1, <1>2, <1>3

\* An outcome extends the history and sets the status the extended history
\* calls for.
LEMMA HistoryExtends ==
  ASSUME NEW row, NEW next, NEW h \in Seq(AttemptResult), NEW r \in AttemptResult,
         HistoryOf(row, h), row.status = "claimed", Len(h) <= MaxAttempts,
         next.attempt_count = Len(h) + 1, next.status = outcome_status(r, Len(h) + 1)
  PROVE  HistoryOf(next, Append(h, r)) /\ Len(Append(h, r)) <= MaxAttempts
  <1> DEFINE g == Append(h, r)
             n == Len(h)
  <1>1. n \in Nat /\ MaxAttempts \in Nat /\ n < MaxAttempts /\ \A k \in 1..n : h[k] = "retryable"
    BY ClaimedHistory, Constants
  <1>2. Len(g) = n + 1 /\ g[n + 1] = r /\ \A k \in 1..n : g[k] = h[k]
    OBVIOUS
  <1> HIDE DEF g, n
  <1>3. \A k \in 1..(Len(g) - 1) : g[k] = "retryable"
    <2>1. Len(g) - 1 = n
      BY <1>1, <1>2
    <2> QED
      BY <1>1, <1>2, <2>1, Zenon
  <1>4. n + 1 > 0 /\ n + 1 <= MaxAttempts /\ (n + 1 < MaxAttempts <=> n + 1 # MaxAttempts)
    BY <1>1
  <1>5. next.status = outcome_status(r, n + 1) /\ next.attempt_count = n + 1
    BY Zenon DEF n
  <1>6. next.status = "succeeded" <=> r = "succeeded"
    BY <1>5, Zenon DEF outcome_status, AttemptResult
  <1>7. next.status = "dead_letter" <=> (r = "permanent" \/ (r = "retryable" /\ n + 1 = MaxAttempts))
    BY <1>4, <1>5, Zenon DEF outcome_status, AttemptResult
  <1>8. HistoryOf(next, g)
    BY <1>2, <1>3, <1>4, <1>5, <1>6, <1>7, Zenon DEF HistoryOf
  <1> QED
    BY <1>2, <1>4, <1>8, Zenon DEF g

\* The new row of an item has no history.
LEMMA HistoryStarts == HistoryOf(PendingRow, <<>>) /\ Len(<<>>) <= MaxAttempts
  BY Constants DEF HistoryOf, PendingRow

\* Every effect on the queue keeps the histories; an outcome is recorded by the
\* worker whose claim is current.
LEMMA HistoryKept ==
  ASSUME DeliveryTypeOK, HistoryMatchesQueue, AttemptsBounded, ClaimsCurrent, QueueEffect
  PROVE  HistoryMatchesQueue' /\ AttemptsBounded'
  <1>1. SUFFICES ASSUME NEW i \in DOMAIN queue'
                 PROVE  HistoryOf(queue'[i], attempts'[i]) /\ Len(attempts'[i]) <= MaxAttempts
    BY HistoryByRowNext, Zenon DEF AttemptsBounded
  <1>2. i \in DOMAIN queue => HistoryOf(queue[i], attempts[i]) /\ Len(attempts[i]) <= MaxAttempts
    BY HistoryByRow, Zenon DEF AttemptsBounded
  <1>3. CASE RowSame(i)
    BY <1>2, <1>3, HistoryStable, Zenon DEF RowSame
  <1>4. CASE RowFreed(i)
    <2>1. {queue'[i].status, queue[i].status} \subseteq {"pending", "retry", "claimed"}
      BY <1>4, Zenon DEF RowFreed
    <2> QED
      BY <1>2, <1>4, <2>1, HistoryStable, Zenon DEF RowFreed
  <1>5. CASE RowNew(i)
    BY <1>5, HistoryStarts, Zenon DEF RowNew
  <1>6. ASSUME NEW w \in Workers, RowTaken(i, w)
        PROVE  HistoryOf(queue'[i], attempts'[i]) /\ Len(attempts'[i]) <= MaxAttempts
    <2>1. {queue'[i].status, queue[i].status} \subseteq {"pending", "retry", "claimed"}
      BY <1>6, Zenon DEF RowTaken
    <2> QED
      BY <1>2, <1>6, <2>1, HistoryStable, Zenon DEF RowTaken
  <1>7. ASSUME NEW w \in Workers, RowSettled(i, w)
        PROVE  HistoryOf(queue'[i], attempts'[i]) /\ Len(attempts'[i]) <= MaxAttempts
    <2>1. /\ i \in DOMAIN queue /\ queue[i].status = "claimed" /\ queue[i].owner = w
          /\ Holds(w, i) /\ w \in Processes
      BY <1>7, Constants, Zenon DEF RowSettled, StillHeld, Holds, ClaimStages
    <2>2. process[w].tried = Len(attempts[i])
      BY <1>2, <2>1, Zenon DEF ClaimsCurrent, HistoryOf
    <2>3. attempts[i] \in Seq(AttemptResult) /\ process[w].result \in AttemptResult
      BY <2>1, QueueFacts, ProcessRows, Zenon
    <2> QED
      BY <1>2, <1>7, <2>1, <2>2, <2>3, HistoryExtends, Zenon DEF RowSettled
  <1> QED
    BY <1>3, <1>4, <1>5, <1>6, <1>7, Zenon DEF QueueEffect

\* A worker that has its claim goes on knowing the fence and the count.
LEMMA ClaimsStayCurrent ==
  ASSUME DeliveryTypeOK, ClaimsCurrent, QueueEffect
  PROVE  ClaimsCurrent'
  <1>1. SUFFICES ASSUME NEW p \in Processes, NEW i \in DOMAIN queue',
                        process'[p].pc \in ClaimStages, process'[p].item = i,
                        queue'[i].status = "claimed", queue'[i].owner = p
                 PROVE  process'[p].fence = queue'[i].fence /\ process'[p].tried = queue'[i].attempt_count
    BY Zenon DEF ClaimsCurrent, Holds
  <1>2. CASE RowSame(i) /\ ClaimSame(p)
    BY <1>1, <1>2, Zenon DEF RowSame, ClaimSame, ClaimsCurrent, Holds
  <1>3. ~RowFreed(i) /\ ~RowNew(i)
    BY <1>1 DEF RowFreed, RowNew, PendingRow
  <1>4. ASSUME NEW w \in Workers, RowTaken(i, w)
        PROVE  process'[p].fence = queue'[i].fence /\ process'[p].tried = queue'[i].attempt_count
    BY <1>1, <1>4, Zenon DEF RowTaken
  <1>5. \A w \in Workers : ~RowSettled(i, w)
    BY <1>1, Zenon DEF RowSettled, outcome_status
  <1>6. ASSUME NEW w \in Workers, NEW j \in DOMAIN queue', RowTaken(j, w), i # j,
               RowSame(i), \A q \in Processes \ {w} : ClaimSame(q)
        PROVE  process'[p].fence = queue'[i].fence /\ process'[p].tried = queue'[i].attempt_count
    <2>1. p # w
      BY <1>1, <1>6, Zenon DEF RowTaken
    <2> QED
      BY <1>2, <1>6, <2>1, Zenon
  <1> QED
    BY <1>2, <1>3, <1>4, <1>5, <1>6, Zenon DEF QueueEffect

\* Every silence keeps or gets a stamp that is not in the future.
LEMMA SilencesStayStamped ==
  ASSUME DeliveryTypeOK, SilencesStamped, AlertEffect
  PROVE  SilencesStamped'
  <1>1. SUFFICES ASSUME NEW a \in Alerts
                 PROVE  /\ alerts'[a].until <= clock'
                        /\ alerts'[a].state = "silenced" => alerts'[a].until > 0
    BY Zenon DEF SilencesStamped
  <1>2. clock \in Nat /\ clock' \in {clock, clock + 1} /\ alerts[a].until \in Nat
    BY Constants, AlertFields, Zenon DEF DeliveryTypeOK, AlertEffect
  <1>3. alerts[a].until <= clock /\ (alerts[a].state = "silenced" => alerts[a].until > 0)
    BY Zenon DEF SilencesStamped
  <1>4. CASE AlertKept(a)
    BY <1>2, <1>3, <1>4 DEF AlertKept
  <1>5. CASE AlertSilenced(a)
    BY <1>2, <1>5 DEF AlertSilenced
  <1>6. CASE AlertPruned(a)
    BY <1>2, <1>6 DEF AlertPruned, NoAlert
  <1> QED
    BY <1>4, <1>5, <1>6, Zenon DEF AlertEffect

\* A silence found over stays over while its stamp stays, because every new
\* silence takes a stamp of its own.
LEMMA EvaluationsStayDerived ==
  ASSUME DeliveryTypeOK, SilencesStamped, EvaluationsDerived, AlertEffect
  PROVE  EvaluationsDerived'
  <1>1. clock \in Nat /\ clock' \in {clock, clock + 1}
    BY Constants, Zenon DEF DeliveryTypeOK, AlertEffect
  <1>2. SUFFICES ASSUME NEW p \in Processes, process'[p].pc = "evaluate"
                 PROVE  /\ DOMAIN process'[p].after = DOMAIN process'[p].before
                        /\ \A a \in DOMAIN process'[p].before :
                             LET b == process'[p].before[a]
                                 c == process'[p].after[a]
                             IN /\ c.sent = b.sent /\ c.until = b.until /\ b.until <= clock'
                                /\ c.state = "silenced" => b.state = "silenced"
                                /\ b.state = "silenced" =>
                                     /\ b.until > 0
                                     /\ c.state = "silenced" \/ (alerts'[a].until = b.until => a \in lapsed')
    BY Zenon DEF EvaluationsDerived
  <1>3. CASE EvalSame(p)
    <2>1. /\ process[p].pc = "evaluate" /\ process'[p].before = process[p].before
          /\ process'[p].after = process[p].after
      BY <1>2, <1>3, Zenon DEF EvalSame
    <2>2. DOMAIN process[p].after = DOMAIN process[p].before
      BY <2>1, Zenon DEF EvaluationsDerived
    <2>3. ASSUME NEW a \in DOMAIN process[p].before
          PROVE  LET b == process[p].before[a]
                     c == process[p].after[a]
                 IN /\ c.sent = b.sent /\ c.until = b.until /\ b.until <= clock'
                    /\ c.state = "silenced" => b.state = "silenced"
                    /\ b.state = "silenced" =>
                         /\ b.until > 0
                         /\ c.state = "silenced" \/ (alerts'[a].until = b.until => a \in lapsed')
      <3> DEFINE b == process[p].before[a]
                 c == process[p].after[a]
      <3>1. /\ c.sent = b.sent /\ c.until = b.until /\ b.until <= clock
            /\ c.state = "silenced" => b.state = "silenced"
            /\ b.state = "silenced" => b.until > 0
            /\ b.state = "silenced" =>
                 c.state = "silenced" \/ (alerts[a].until = b.until => a \in lapsed)
        BY <2>1, Zenon DEF EvaluationsDerived
      <3>2. a \in Alerts /\ b \in AlertRow
        BY ProcessRows, RowsFacts, Zenon
      <3> HIDE DEF b, c
      <3>3. b.until \in Nat
        BY <3>2, AlertFields, Zenon
      <3>4. b.until <= clock'
        BY <1>1, <3>1, <3>3
      <3>5. ASSUME b.until > 0, alerts[a].until = b.until => a \in lapsed, alerts'[a].until = b.until
            PROVE  a \in lapsed'
        <4>1. CASE AlertKept(a)
          BY <3>5, <4>1, Zenon DEF AlertKept
        <4>2. ~AlertSilenced(a)
          BY <1>1, <3>1, <3>3, <3>5 DEF AlertSilenced
        <4>3. ~AlertPruned(a)
          BY <3>3, <3>5 DEF AlertPruned, NoAlert
        <4> QED
          BY <3>2, <4>1, <4>2, <4>3, Zenon DEF AlertEffect
      <3>6. /\ c.sent = b.sent /\ c.until = b.until /\ b.until <= clock'
            /\ c.state = "silenced" => b.state = "silenced"
            /\ b.state = "silenced" =>
                 /\ b.until > 0
                 /\ c.state = "silenced" \/ (alerts'[a].until = b.until => a \in lapsed')
        BY <3>1, <3>4, <3>5, Zenon
      <3> QED
        BY <3>6, Zenon DEF b, c
    <2> QED
      BY <2>1, <2>2, <2>3, Zenon
  <1>4. CASE EvalNew(p) /\ UNCHANGED <<alerts, lapsed>>
    <2>1. DOMAIN process'[p].after = DOMAIN process'[p].before
      BY <1>4, Zenon DEF EvalNew
    <2>2. ASSUME NEW a \in DOMAIN process'[p].before
          PROVE  LET b == process'[p].before[a]
                     c == process'[p].after[a]
                 IN /\ c.sent = b.sent /\ c.until = b.until /\ b.until <= clock'
                    /\ c.state = "silenced" => b.state = "silenced"
                    /\ b.state = "silenced" =>
                         /\ b.until > 0
                         /\ c.state = "silenced" \/ (alerts'[a].until = b.until => a \in lapsed')
      <3> DEFINE b == process'[p].before[a]
                 c == process'[p].after[a]
      <3>1. a \in Alerts /\ b = alerts[a] /\ c = candidate_record(a, clock + 1)
        BY <1>4, Zenon DEF EvalNew
      <3>2. alerts[a].until \in Nat /\ alerts[a].until <= clock
            /\ (alerts[a].state = "silenced" => alerts[a].until > 0)
        BY <3>1, AlertFields, Zenon DEF DeliveryTypeOK, SilencesStamped
      <3>3. /\ c.sent = b.sent /\ c.until = b.until
            /\ c.state = "silenced" <=> (b.state = "silenced" /\ a \notin lapsed)
        BY <3>1 DEF candidate_record, alert_is_silenced
      <3>4. b.until <= clock'
        BY <1>1, <3>1, <3>2
      <3> HIDE DEF b, c
      <3>5. /\ c.sent = b.sent /\ c.until = b.until /\ b.until <= clock'
            /\ c.state = "silenced" => b.state = "silenced"
            /\ b.state = "silenced" =>
                 /\ b.until > 0
                 /\ c.state = "silenced" \/ (alerts'[a].until = b.until => a \in lapsed')
        BY <1>4, <3>1, <3>2, <3>3, <3>4, Zenon
      <3> QED
        BY <3>5, Zenon DEF b, c
    <2> QED
      BY <2>1, <2>2, Zenon
  <1> QED
    BY <1>3, <1>4, Zenon DEF AlertEffect

\* No effect on an alert row rolls a decision back.
LEMMA DecisionsKept ==
  ASSUME DeliveryTypeOK, AlertEffect
  PROVE  DecisionsKeptStep
  <1>1. SUFFICES ASSUME NEW a \in Alerts, alerts'[a] # NoAlert
                 PROVE  /\ alert_is_silenced(a) => alerts'[a].state \in {"silenced", "resolved"}
                        /\ alerts'[a].sent # alerts[a].sent => SentBySend(a)
    BY Zenon DEF DecisionsKeptStep, SentBySend
  <1> QED
    BY <1>1, Zenon DEF AlertEffect, AlertKept, AlertSilenced, AlertPruned

\* The initial state has neither rows nor claims.
LEMMA InitHolds ==
  ASSUME Init
  PROVE  DeliveryTypeOK /\ DeliveryInv
  <1>1. DOMAIN queue = {} /\ \A p \in Processes : process[p] = Idle
    BY Zenon DEF Init
  <1>2. DeliveryTypeOK
    BY IdleTyped, Constants, Zenon DEF Init, DeliveryTypeOK
  <1>3. HistoryMatchesQueue /\ AttemptsBounded /\ ClaimsCurrent
    BY <1>1, HistoryByRow, Zenon DEF AttemptsBounded, ClaimsCurrent
  <1>4. SilencesStamped
    BY DEF Init, SilencesStamped, NoAlert
  <1>5. EvaluationsDerived
    BY <1>1, IdleTyped, Zenon DEF EvaluationsDerived
  <1> QED
    BY <1>2, <1>3, <1>4, <1>5, Zenon DEF DeliveryInv

\* One step keeps the invariant and both step properties.
LEMMA StepHolds ==
  ASSUME DeliveryTypeOK, DeliveryInv, [Next]_vars
  PROVE  DeliveryTypeOK' /\ DeliveryInv' /\ ClaimsKeptStep /\ DecisionsKeptStep
  <1>1. DeliveryTypeOK' /\ QueueEffect /\ AlertEffect /\ ClaimsKeptStep
    BY EveryStep, Zenon DEF DeliveryInv, Step
  <1>2. HistoryMatchesQueue' /\ AttemptsBounded'
    BY <1>1, HistoryKept, Zenon DEF DeliveryInv
  <1>3. ClaimsCurrent'
    BY <1>1, ClaimsStayCurrent, Zenon DEF DeliveryInv
  <1>4. SilencesStamped'
    BY <1>1, SilencesStayStamped, Zenon DEF DeliveryInv
  <1>5. EvaluationsDerived'
    BY <1>1, EvaluationsStayDerived, Zenon DEF DeliveryInv
  <1> QED
    BY <1>1, <1>2, <1>3, <1>4, <1>5, DecisionsKept, Zenon DEF DeliveryInv

-----------------------------------------------------------------------------
(* The theorems.                                                            *)

\* The strengthened invariant of the queue holds in every reachable state.
THEOREM DeliveryInvariant == Spec => [](DeliveryTypeOK /\ DeliveryInv)
  <1>1. Init => DeliveryTypeOK /\ DeliveryInv
    BY InitHolds, Zenon
  <1>2. DeliveryTypeOK /\ DeliveryInv /\ [Next]_vars => (DeliveryTypeOK /\ DeliveryInv)'
    BY StepHolds, Zenon
  <1> QED
    BY <1>1, <1>2, PTL DEF Spec

\* The attempts recorded for an item and its queue row agree for any number of
\* workers, crashes and lost leases: no attempt is counted twice or dropped by
\* recovery, deferral or takeover, and the row is settled exactly when the last
\* attempt settles it.
THEOREM HistoriesMatch == Spec => []HistoryMatchesQueue
  <1>1. DeliveryTypeOK /\ DeliveryInv => HistoryMatchesQueue
    BY Zenon DEF DeliveryInv
  <1> QED
    BY <1>1, DeliveryInvariant, PTL

\* No item is attempted more than hook.max_attempts times, although a worker
\* numbers its attempt from the count it read when it claimed.
THEOREM AttemptsAreBounded == Spec => []AttemptsBounded
  <1>1. DeliveryTypeOK /\ DeliveryInv => AttemptsBounded
    BY Zenon DEF DeliveryInv
  <1> QED
    BY <1>1, DeliveryInvariant, PTL

\* A claim whose lease is running is ended by nobody but its owner or retention.
THEOREM ClaimsAreKept == Spec => LiveClaimsAreKept
  <1>1. DeliveryTypeOK /\ DeliveryInv /\ [Next]_vars => [ClaimsKeptStep]_vars
    BY StepHolds, Zenon
  <1> QED
    BY <1>1, DeliveryInvariant, PTL DEF Spec, LiveClaimsAreKept

\* No evaluation, delivery or outcome computed from an old row undoes a silence
\* that is not over or the record of a delivery.
THEOREM DecisionsAreKept == Spec => DecisionsSurvive
  <1>1. DeliveryTypeOK /\ DeliveryInv /\ [Next]_vars => [DecisionsKeptStep]_vars
    BY StepHolds, Zenon
  <1> QED
    BY <1>1, DeliveryInvariant, PTL DEF Spec, DecisionsSurvive

----------------------------------------------------------------------------
(* The tasks of a scheduler tick.                                          *)

\* Products grow with their factors, and a quotient fits.
LEMMA ProductFacts ==
    /\ \A a, b \in Int, c \in Nat : a <= b => a * c <= b * c
    /\ \A a \in Int, c \in Nat : (a + 1) * c = a * c + c
    /\ \A n, d \in Nat : d > 0 => n \div d \in Nat /\ (n \div d) * d <= n
  <1>1. ASSUME NEW a \in Int, NEW b \in Int, NEW c \in Nat, a <= b PROVE a * c <= b * c
    <2>1. b * c = a * c + (b - a) * c
      OBVIOUS
    <2>2. (b - a) * c >= 0
      BY <1>1
    <2> QED
      BY <2>1, <2>2
  <1>2. ASSUME NEW a \in Int, NEW c \in Nat PROVE (a + 1) * c = a * c + c
    OBVIOUS
  <1>3. ASSUME NEW n \in Nat, NEW d \in Nat, d > 0
        PROVE n \div d \in Nat /\ (n \div d) * d <= n
    BY <1>3
  <1> QED
    BY <1>1, <1>2, <1>3, Zenon

\* What is counted is finite.
LEMMA TaskSetsFinite ==
    /\ IsFiniteSet(Tasks)
    /\ IsFiniteSet(AttemptsLeft) /\ Cardinality(AttemptsLeft) \in Nat
    /\ IsFiniteSet(AdmittedTasks) /\ Cardinality(AdmittedTasks) \in Nat
  <1>1. IsFiniteSet(Tasks) /\ IsFiniteSet(1..MaxTaskAttempts)
    <2>1. 1 \in Int /\ MaxTaskAttempts \in Int /\ Len(NodeOf) \in Int
      BY TaskConstants
    <2> QED
      BY <2>1, TaskConstants, FS_Interval, Zenon
  <1>2. IsFiniteSet(Tasks \X (1..MaxTaskAttempts))
    BY <1>1, FS_Product, Zenon
  <1>3. AttemptsLeft \in SUBSET (Tasks \X (1..MaxTaskAttempts))
    BY Zenon DEF AttemptsLeft
  <1>4. AdmittedTasks \in SUBSET Tasks
    BY Zenon DEF AdmittedTasks
  <1>5. IsFiniteSet(AttemptsLeft) /\ IsFiniteSet(AdmittedTasks)
    BY <1>1, <1>2, <1>3, <1>4, FS_Subset, Zenon
  <1> QED
    BY <1>1, <1>5, FS_CardinalityType, Zenon

\* The rows a task has before it does anything.
AtStart ==
  /\ jobsLeft = JobsPerTick /\ budget = Budget /\ phase = "between" /\ rpcs = 0
  /\ stage = [t \in Tasks |-> "none"]
  /\ attempt = [t \in Tasks |-> 0]
  /\ audits = [t \in Tasks |-> <<>>]

\* A tick starts with its whole budget and no task.
LEMMA TasksStart == AtStart => TasksTypeOK /\ TasksInv
  <1> SUFFICES ASSUME AtStart PROVE TasksTypeOK /\ TasksInv
    BY Zenon
  <1> USE DEF AtStart
  <1>1. TasksTypeOK
    BY TaskConstants DEF TasksTypeOK
  <1>2. AttemptsLeft = {} /\ AdmittedTasks = {}
    BY DEF AttemptsLeft, AdmittedTasks, Working
  <1>3. Cardinality({}) = 0
    BY FS_EmptySet, Zenon
  <1>4. AttemptsCovered
    BY <1>2, <1>3, TaskConstants DEF AttemptsCovered
  <1>5. \A t \in Tasks : stage[t] = "none"
    BY Zenon
  <1> QED
    BY <1>1, <1>2, <1>3, <1>4, <1>5, TaskConstants DEF TasksInv, Working

\* limit_tasks_by_rpc_budget: the tasks admitted fit in what is left of the
\* budget, each with all its attempts.
LEMMA StartJobStep ==
    ASSUME TasksTypeOK, TasksInv, NEW targets \in 0..Len(NodeOf), StartJob(targets)
    PROVE  TasksTypeOK' /\ TasksInv'
  <1> DEFINE k == Admitted(targets)
  <1>1. k \in Nat /\ k <= Len(NodeOf) /\ k * MaxTaskAttempts <= budget
    <2>1. /\ budget \div MaxTaskAttempts \in Nat
          /\ (budget \div MaxTaskAttempts) * MaxTaskAttempts <= budget
      <3>1. budget \in Nat /\ MaxTaskAttempts \in Nat /\ MaxTaskAttempts > 0
        BY TaskConstants DEF TasksTypeOK
      <3> QED
        BY <3>1, ProductFacts, Zenon
    <2>2. k \in Nat /\ k <= Len(NodeOf) /\ k <= budget \div MaxTaskAttempts
      BY <2>1, TaskConstants DEF Admitted, SmallerOf, TaskCapacity
    <2>3. k * MaxTaskAttempts <= (budget \div MaxTaskAttempts) * MaxTaskAttempts
      BY <2>1, <2>2, ProductFacts, TaskConstants
    <2>4. /\ k * MaxTaskAttempts \in Nat /\ budget \in Nat
          /\ (budget \div MaxTaskAttempts) * MaxTaskAttempts \in Nat
      BY <2>1, <2>2, TaskConstants DEF TasksTypeOK
    <2> DEFINE x == k * MaxTaskAttempts
               y == (budget \div MaxTaskAttempts) * MaxTaskAttempts
    <2>5. x \in Nat /\ y \in Nat /\ x <= y /\ y <= budget /\ budget \in Nat
      BY <2>1, <2>3, <2>4, Zenon
    <2> HIDE DEF x, y
    <2>6. x <= budget
      BY <2>5
    <2> QED
      BY <2>2, <2>6, Zenon DEF x
  <1>2. budget' = budget - k * MaxTaskAttempts /\ budget' \in 0..Budget
    <2>1. k * MaxTaskAttempts \in Nat
      BY <1>1, TaskConstants
    <2> QED
      BY <2>1, <1>1, TaskConstants DEF TasksTypeOK, StartJob
  <1>3. stage' = [t \in Tasks |-> IF t <= k THEN "node" ELSE "none"]
    BY Zenon DEF StartJob
  <1> HIDE DEF k
  <1>4. TasksTypeOK'
    <2>1. stage' \in [Tasks -> Working \cup {"none", "done"}]
      BY <1>3, Zenon DEF Working
    <2>2. attempt' \in [Tasks -> 0..MaxTaskAttempts]
      BY TaskConstants DEF StartJob
    <2>3. audits' \in [Tasks -> Seq([method : Range(Methods), ok : BOOLEAN])]
      BY DEF StartJob
    <2> QED
      BY <1>2, <2>1, <2>2, <2>3 DEF StartJob, TasksTypeOK
  <1>5. AttemptsLeft = {}
    BY Zenon DEF TasksInv, StartJob, AttemptsLeft, Working
  <1>6. AttemptsLeft' = (1..k) \X (1..MaxTaskAttempts) /\ AdmittedTasks' = 1..k
    <2>1. \A t \in Tasks : attempt'[t] = 0 /\ stage'[t] = IF t <= k THEN "node" ELSE "none"
      BY <1>3, Zenon DEF StartJob
    <2>2. 1..k \subseteq Tasks /\ \A t \in Tasks : t \in Nat /\ (t <= k <=> t \in 1..k)
      BY <1>1, TaskConstants
    <2>3. AdmittedTasks' = 1..k
      BY <2>1, <2>2 DEF AdmittedTasks
    <2>4. AttemptsLeft' = {p \in Tasks \X (1..MaxTaskAttempts) : p[1] \in 1..k}
      BY <2>1, <2>2 DEF AttemptsLeft, Working
    <2>5. {p \in Tasks \X (1..MaxTaskAttempts) : p[1] \in 1..k} = (1..k) \X (1..MaxTaskAttempts)
      BY <2>2, Zenon
    <2> QED
      BY <2>3, <2>4, <2>5, Zenon
  <1>7. Cardinality(AttemptsLeft') = k * MaxTaskAttempts /\ Cardinality(AdmittedTasks') = k
    <2>1. 1 \in Int /\ k \in Int /\ MaxTaskAttempts \in Int
      BY <1>1, TaskConstants
    <2>2. IsFiniteSet(1..k) /\ IsFiniteSet(1..MaxTaskAttempts)
      BY <2>1, FS_Interval, Zenon
    <2>3. Cardinality(1..k) = IF 1 > k THEN 0 ELSE k - 1 + 1
      BY <2>1, FS_Interval, Zenon
    <2>4. Cardinality(1..MaxTaskAttempts)
            = IF 1 > MaxTaskAttempts THEN 0 ELSE MaxTaskAttempts - 1 + 1
      BY <2>1, FS_Interval, Zenon
    <2>5. Cardinality(1..k) = k /\ Cardinality(1..MaxTaskAttempts) = MaxTaskAttempts
      BY <2>3, <2>4, <1>1, TaskConstants
    <2>6. Cardinality((1..k) \X (1..MaxTaskAttempts))
            = Cardinality(1..k) * Cardinality(1..MaxTaskAttempts)
      BY <2>2, FS_Product, Zenon
    <2> QED
      BY <1>6, <2>5, <2>6, Zenon
  <1>8. rpcs' <= (Budget - budget' - Cardinality(AttemptsLeft')) * Len(Methods)
    <2>1. Cardinality(AttemptsLeft) = 0
      BY <1>5, FS_EmptySet, Zenon
    <2>2. rpcs <= (Budget - budget - 0) * Len(Methods)
      BY <2>1, Zenon DEF TasksInv
    <2>3. Budget - budget' - Cardinality(AttemptsLeft') = Budget - budget - 0
      <3>1. k * MaxTaskAttempts \in Nat
        BY <1>1, TaskConstants
      <3> QED
        BY <3>1, <1>2, <1>7, TaskConstants DEF TasksTypeOK
    <2> QED
      BY <2>2, <2>3, Zenon DEF StartJob
  <1>9. AttemptsCovered'
    <2>1. k * MaxTaskAttempts \in Nat
      BY <1>1, TaskConstants
    <2>2. Budget - budget' \in Int /\ Budget - budget' - Cardinality(AttemptsLeft') \in Int
          /\ Budget - budget' - Cardinality(AttemptsLeft') <= Budget - budget'
          /\ Cardinality(AdmittedTasks') * MaxTaskAttempts <= Budget - budget'
          /\ Budget - budget' <= Budget
      BY <2>1, <1>2, <1>7, TaskConstants DEF TasksTypeOK
    <2>3. (Budget - budget' - Cardinality(AttemptsLeft')) * Len(Methods)
            <= (Budget - budget') * Len(Methods)
      BY <2>2, ProductFacts, TaskConstants, Zenon
    <2>4. rpcs' <= (Budget - budget') * Len(Methods)
      <3> DEFINE x == (Budget - budget' - Cardinality(AttemptsLeft')) * Len(Methods)
                 y == (Budget - budget') * Len(Methods)
      <3>1. x \in Int /\ y \in Int /\ x <= y /\ rpcs' <= x
        BY <1>8, <2>2, <2>3, TaskConstants
      <3>2. rpcs' \in Nat
        BY <1>4, Zenon DEF TasksTypeOK
      <3> HIDE DEF x, y
      <3>3. rpcs' <= y
        BY <3>1, <3>2
      <3> QED
        BY <3>3, Zenon DEF y
    <2> QED
      BY <2>2, <2>4, Zenon DEF AttemptsCovered
  <1>10. \A t \in Tasks : stage'[t] \in Working =>
           /\ phase' = "executing" /\ attempt'[t] < MaxTaskAttempts
           /\ \A i \in DOMAIN audits'[t] : ~audits'[t][i].ok
    BY TaskConstants DEF StartJob
  <1>11. phase' # "between"
    BY Zenon DEF StartJob
  <1> QED
    BY <1>4, <1>8, <1>9, <1>10, <1>11, Zenon DEF TasksInv

\* A task that moves on, from permit to permit or out of its last attempt, and
\* the steps of the job itself, reserve and spend nothing.
LEMMA MoveStep ==
    ASSUME TasksTypeOK, TasksInv, UNCHANGED <<budget, attempt, audits, rpcs>>,
           jobsLeft' \in Nat, phase' \in {"between", "executing", "writing", "failed"},
           stage' \in [Tasks -> Working \cup {"none", "done"}],
           \A t \in Tasks : /\ stage'[t] \in Working <=> stage[t] \in Working
                            /\ stage'[t] \in Working => phase' = "executing"
                            /\ stage[t] = "none" => stage'[t] = "none"
                            /\ phase' = "between" => stage'[t] = "none"
    PROVE  TasksTypeOK' /\ TasksInv'
  <1>1. TasksTypeOK'
    BY Zenon DEF TasksTypeOK
  <1>2. AttemptsLeft' = AttemptsLeft
    BY Zenon DEF AttemptsLeft
  <1>3. AdmittedTasks' \in SUBSET AdmittedTasks
    BY Zenon DEF AdmittedTasks
  <1>4. /\ Cardinality(AdmittedTasks') <= Cardinality(AdmittedTasks)
        /\ Cardinality(AdmittedTasks) \in Nat /\ Cardinality(AdmittedTasks') \in Nat
    BY <1>3, TaskSetsFinite, FS_Subset, FS_CardinalityType, Zenon
  <1>5. AttemptsCovered'
    <2>1. Cardinality(AdmittedTasks') * MaxTaskAttempts <= Cardinality(AdmittedTasks) * MaxTaskAttempts
      BY <1>4, ProductFacts, TaskConstants
    <2>2. AttemptsCovered
      BY Zenon DEF TasksInv
    <2>3. Cardinality(AdmittedTasks') * MaxTaskAttempts \in Nat
          /\ Cardinality(AdmittedTasks) * MaxTaskAttempts \in Nat
      BY <1>4, TaskConstants
    <2> QED
      BY <2>1, <2>2, <2>3, TaskConstants DEF AttemptsCovered, TasksTypeOK
  <1>6. \A t \in Tasks : stage'[t] \in Working =>
           /\ phase' = "executing" /\ attempt'[t] < MaxTaskAttempts
           /\ \A i \in DOMAIN audits'[t] : ~audits'[t][i].ok
    BY Zenon DEF TasksInv
  <1>7. rpcs' <= (Budget - budget' - Cardinality(AttemptsLeft')) * Len(Methods)
    BY <1>2, Zenon DEF TasksInv
  <1> QED
    BY <1>1, <1>5, <1>6, <1>7, Zenon DEF TasksInv

\* What an attempt leaves: records of the methods it called, none of them a
\* success when it is to be retried.
LEMMA AttemptRecords ==
    ASSUME NEW results, results \in [DOMAIN Methods -> Result] \/ results = <<"transient">>
    PROVE  /\ Records(results) \in Seq([method : Range(Methods), ok : BOOLEAN])
           /\ Retryable(results) => \A i \in DOMAIN Records(results) : ~Records(results)[i].ok
  <1>1. \E n \in Nat : n <= Len(Methods) /\ DOMAIN results = 1..n
    <2>1. CASE results \in [DOMAIN Methods -> Result]
      <3>1. DOMAIN results = 1..Len(Methods) /\ Len(Methods) <= Len(Methods)
        BY <2>1, TaskConstants
      <3> QED
        BY <3>1, TaskConstants, Zenon
    <2>2. CASE results = <<"transient">>
      <3>1. DOMAIN results = 1..1 /\ 1 <= Len(Methods)
        BY <2>2, TaskConstants
      <3> QED
        BY <3>1, Zenon
    <2> QED
      BY <2>1, <2>2, Zenon
  <1> PICK n \in Nat : n <= Len(Methods) /\ DOMAIN results = 1..n
    BY <1>1, Zenon
  <1>2. \A i \in 1..n : Methods[i] \in Range(Methods)
    <2>1. \A i \in 1..n : i \in DOMAIN Methods
      <3> DEFINE m == Len(Methods)
      <3>1. DOMAIN Methods = 1..m /\ m \in Nat /\ n <= m
        BY TaskConstants, Zenon
      <3> HIDE DEF m
      <3>2. 1..n \subseteq 1..m
        BY <3>1
      <3> QED
        BY <3>1, <3>2, Zenon
    <2> QED
      BY <2>1, Zenon DEF Range
  <1>3. Records(results) \in [1..n -> [method : Range(Methods), ok : BOOLEAN]]
    BY <1>2, Zenon DEF Records
  <1>4. Records(results) \in Seq([method : Range(Methods), ok : BOOLEAN])
    <2> DEFINE Record == [method : Range(Methods), ok : BOOLEAN]
    <2>1. Records(results) \in [1..n -> Record]
      BY <1>3, Zenon
    <2> HIDE DEF Record
    <2>2. Records(results) \in Seq(Record)
      BY <2>1
    <2> QED
      BY <2>2, Zenon DEF Record
  <1>5. ASSUME Retryable(results), NEW i \in DOMAIN Records(results)
        PROVE ~Records(results)[i].ok
    <2>1. i \in DOMAIN results /\ Records(results)[i].ok = (results[i] = "ok")
      BY <1>5, Zenon DEF Records
    <2>2. results[i] = "transient"
      BY <1>5, <2>1, Zenon DEF Retryable, Range
    <2> QED
      BY <2>1, <2>2, Zenon
  <1> QED
    BY <1>4, <1>5, Zenon

\* execute_with_retry: an attempt spends one of those that were reserved; the
\* task goes on only after one in which nothing succeeded.
LEMMA AttemptEnds ==
    ASSUME TasksTypeOK, TasksInv, NEW t \in Tasks, NEW results, NEW sent \in 1..Len(Methods),
           results \in [DOMAIN Methods -> Result] \/ results = <<"transient">>,
           EndAttempt(t, results, sent)
    PROVE  /\ TasksTypeOK' /\ TasksInv'
           /\ \A i \in DOMAIN audits[t] : ~audits[t][i].ok
           /\ \A u \in Tasks : u # t => attempt'[u] = attempt[u]
  <1> DEFINE Record == [method : Range(Methods), ok : BOOLEAN]
  <1>1. /\ stage[t] = "attempt" /\ stage[t] \in Working
        /\ \A i \in DOMAIN audits[t] : ~audits[t][i].ok
        /\ attempt[t] < MaxTaskAttempts
    <2>1. stage[t] = "attempt"
      BY Zenon DEF EndAttempt, Move
    <2> QED
      BY <2>1, Zenon DEF TasksInv, Working
  <1>2. \E to \in {"backoff", "done"} :
          /\ stage' = [stage EXCEPT ![t] = to]
          /\ to = "backoff" => Retryable(results) /\ attempt[t] + 1 < MaxTaskAttempts
    BY Zenon DEF EndAttempt, Move
  <1> PICK to \in {"backoff", "done"} :
          /\ stage' = [stage EXCEPT ![t] = to]
          /\ to = "backoff" => Retryable(results) /\ attempt[t] + 1 < MaxTaskAttempts
    BY <1>2, Zenon
  <1>3. /\ attempt' = [attempt EXCEPT ![t] = attempt[t] + 1]
        /\ audits' = [audits EXCEPT ![t] = audits[t] \o Records(results)]
        /\ rpcs' = rpcs + sent /\ phase = "executing"
        /\ UNCHANGED <<jobsLeft, budget, phase>>
    BY Zenon DEF EndAttempt
  <1>4. /\ Records(results) \in Seq(Record)
        /\ Retryable(results) => \A i \in DOMAIN Records(results) : ~Records(results)[i].ok
    BY AttemptRecords, Zenon
  <1>5. /\ attempt[t] \in Nat /\ attempt'[t] = attempt[t] + 1 /\ stage'[t] = to
        /\ audits[t] \in Seq(Record) /\ audits'[t] = audits[t] \o Records(results)
        /\ \A u \in Tasks : u # t =>
             attempt'[u] = attempt[u] /\ stage'[u] = stage[u] /\ audits'[u] = audits[u]
    <2>1. /\ attempt \in [Tasks -> 0..MaxTaskAttempts] /\ audits \in [Tasks -> Seq(Record)]
          /\ DOMAIN stage = Tasks
      BY Zenon DEF TasksTypeOK
    <2> HIDE DEF Record
    <2>2. attempt[t] \in Nat /\ audits[t] \in Seq(Record)
      BY <2>1
    <2>3. attempt'[t] = attempt[t] + 1 /\ audits'[t] = audits[t] \o Records(results)
      BY <2>1, <1>3, Zenon
    <2>4. stage'[t] = to /\ \A u \in Tasks : u # t => stage'[u] = stage[u]
      BY <2>1, Zenon
    <2>5. \A u \in Tasks : u # t => attempt'[u] = attempt[u] /\ audits'[u] = audits[u]
      BY <2>1, <1>3, Zenon
    <2> QED
      BY <2>2, <2>3, <2>4, <2>5, Zenon
  <1> HIDE DEF Record
  <1>6. TasksTypeOK'
    <2>1. stage' \in [Tasks -> Working \cup {"none", "done"}]
      BY Zenon DEF TasksTypeOK, Working
    <2>2. attempt' \in [Tasks -> 0..MaxTaskAttempts]
      <3>1. attempt[t] + 1 \in 0..MaxTaskAttempts
        BY <1>1, <1>5, TaskConstants
      <3> QED
        BY <3>1, <1>3, Zenon DEF TasksTypeOK
    <2>3. audits' \in [Tasks -> Seq(Record)]
      <3>1. audits[t] \o Records(results) \in Seq(Record)
        BY <1>4, <1>5
      <3>2. audits \in [Tasks -> Seq(Record)]
        BY Zenon DEF TasksTypeOK, Record
      <3> QED
        BY <3>1, <3>2, <1>3, Zenon
    <2>4. rpcs' \in Nat
      BY <1>3, TaskConstants DEF TasksTypeOK
    <2> QED
      BY <1>3, <2>1, <2>2, <2>3, <2>4, Zenon DEF TasksTypeOK, Record
  <1>7. \A u \in Tasks : stage'[u] \in Working =>
           /\ phase' = "executing" /\ attempt'[u] < MaxTaskAttempts
           /\ \A i \in DOMAIN audits'[u] : ~audits'[u][i].ok
    <2> TAKE u \in Tasks
    <2>1. CASE u # t
      BY <2>1, <1>3, <1>5, Zenon DEF TasksInv
    <2>2. CASE u = t
      <3>1. ASSUME to = "backoff", NEW i \in DOMAIN audits'[t] PROVE ~audits'[t][i].ok
        <4>1. \/ i \in DOMAIN audits[t] /\ audits'[t][i] = audits[t][i]
              \/ \E j \in DOMAIN Records(results) : audits'[t][i] = Records(results)[j]
          <5>1. /\ Len(audits[t]) \in Nat /\ DOMAIN audits[t] = 1..Len(audits[t])
                /\ Len(Records(results)) \in Nat
                /\ DOMAIN Records(results) = 1..Len(Records(results))
            BY <1>4, <1>5
          <5>2. i \in 1..(Len(audits[t]) + Len(Records(results)))
            BY <1>4, <1>5, <3>1
          <5>3. CASE i <= Len(audits[t])
            BY <5>1, <5>2, <5>3, <1>4, <1>5
          <5>4. CASE i > Len(audits[t])
            <6>1. i - Len(audits[t]) \in DOMAIN Records(results)
              BY <5>1, <5>2, <5>4
            <6>2. audits'[t][i] = Records(results)[i - Len(audits[t])]
              BY <5>1, <5>2, <5>4, <1>4, <1>5
            <6> QED
              BY <6>1, <6>2, Zenon
          <5> QED
            BY <5>1, <5>2, <5>3, <5>4
        <4> QED
          BY <4>1, <3>1, <1>1, <1>4, Zenon
      <3>2. to # "backoff" => stage'[t] \notin Working
        BY <1>5, Zenon DEF Working
      <3>3. to = "backoff" => attempt'[t] < MaxTaskAttempts
        BY <1>5, Zenon
      <3> QED
        BY <2>2, <3>1, <3>2, <3>3, <1>3, Zenon
    <2> QED
      BY <2>1, <2>2, Zenon
  <1>8. AdmittedTasks' = AdmittedTasks
    <2>1. t \in AdmittedTasks /\ t \in AdmittedTasks'
      BY <1>1, <1>5, Zenon DEF AdmittedTasks
    <2>2. \A u \in Tasks : u # t => (u \in AdmittedTasks' <=> u \in AdmittedTasks)
      BY <1>5, Zenon DEF AdmittedTasks
    <2>3. AdmittedTasks \subseteq Tasks /\ AdmittedTasks' \subseteq Tasks
      BY Zenon DEF AdmittedTasks
    <2>4. \A u : u \in AdmittedTasks' <=> u \in AdmittedTasks
      BY <2>1, <2>2, <2>3, Zenon
    <2> QED
      BY <2>4, Zenon
  <1>9. /\ Cardinality(AttemptsLeft') + 1 <= Cardinality(AttemptsLeft)
        /\ Cardinality(AttemptsLeft') \in Nat /\ Cardinality(AttemptsLeft) \in Nat
    <2> DEFINE spent == <<t, attempt[t] + 1>>
    <2>1. spent \in AttemptsLeft
      BY <1>1, <1>5, TaskConstants DEF AttemptsLeft
    <2>2. AttemptsLeft' \subseteq AttemptsLeft /\ spent \notin AttemptsLeft'
      <3>1. spent \notin AttemptsLeft'
        BY <1>5 DEF AttemptsLeft
      <3>2. ASSUME NEW p \in AttemptsLeft' PROVE p \in AttemptsLeft
        <4>1. p \in Tasks \X (1..MaxTaskAttempts) /\ p[1] \in Tasks /\ p[2] \in Nat
              /\ stage'[p[1]] \in Working /\ attempt'[p[1]] < p[2]
          BY <3>2 DEF AttemptsLeft
        <4>2. stage[p[1]] \in Working /\ attempt[p[1]] < p[2]
          <5>1. CASE p[1] = t
            BY <5>1, <4>1, <1>1, <1>5
          <5>2. CASE p[1] # t
            BY <5>2, <4>1, <1>5, Zenon
          <5> QED
            BY <5>1, <5>2, Zenon
        <4> QED
          BY <4>1, <4>2, Zenon DEF AttemptsLeft
      <3> QED
        BY <3>1, <3>2, Zenon
    <2> HIDE DEF spent
    <2>3. AttemptsLeft' \in SUBSET (AttemptsLeft \ {spent})
      BY <2>2, Zenon
    <2>4. IsFiniteSet(AttemptsLeft) /\ Cardinality(AttemptsLeft) \in Nat
      BY TaskSetsFinite, Zenon
    <2>5. /\ IsFiniteSet(AttemptsLeft \ {spent})
          /\ Cardinality(AttemptsLeft \ {spent}) = Cardinality(AttemptsLeft) - 1
      BY <2>1, <2>4, FS_RemoveElement, Zenon
    <2>6. /\ IsFiniteSet(AttemptsLeft')
          /\ Cardinality(AttemptsLeft') <= Cardinality(AttemptsLeft \ {spent})
      BY <2>3, <2>5, FS_Subset, Zenon
    <2>7. Cardinality(AttemptsLeft') \in Nat
      BY <2>6, FS_CardinalityType, Zenon
    <2> QED
      BY <2>4, <2>5, <2>6, <2>7
  <1>10. rpcs' <= (Budget - budget' - Cardinality(AttemptsLeft')) * Len(Methods)
    <2> DEFINE a == Budget - budget - Cardinality(AttemptsLeft)
               b == Budget - budget - Cardinality(AttemptsLeft')
    <2>1. a \in Int /\ b \in Int /\ a + 1 <= b
      BY <1>9, TaskConstants DEF TasksTypeOK
    <2>2. rpcs <= a * Len(Methods)
      BY Zenon DEF TasksInv
    <2>3. rpcs \in Nat /\ sent \in Nat /\ sent <= Len(Methods)
      BY TaskConstants DEF TasksTypeOK
    <2> HIDE DEF a, b
    <2>4. (a + 1) * Len(Methods) = a * Len(Methods) + Len(Methods)
      BY <2>1, ProductFacts, TaskConstants, Zenon
    <2>5. (a + 1) * Len(Methods) <= b * Len(Methods)
      BY <2>1, ProductFacts, TaskConstants
    <2>6. a * Len(Methods) \in Int /\ b * Len(Methods) \in Int
      BY <2>1, TaskConstants
    <2>7. rpcs + sent <= b * Len(Methods)
      <3> DEFINE x == a * Len(Methods)
                 y == b * Len(Methods)
                 z == (a + 1) * Len(Methods)
      <3>1. x \in Int /\ y \in Int /\ z = x + Len(Methods) /\ z <= y /\ rpcs <= x
        BY <2>2, <2>4, <2>5, <2>6, Zenon
      <3> HIDE DEF x, y, z
      <3>2. rpcs + sent <= y
        BY <3>1, <2>3, TaskConstants
      <3> QED
        BY <3>2, Zenon DEF y
    <2> QED
      BY <2>7, <1>3, Zenon DEF b
  <1>11. AttemptsCovered'
    <2>1. /\ Budget - budget' \in Int
          /\ Budget - budget' - Cardinality(AttemptsLeft') \in Int
          /\ Budget - budget' - Cardinality(AttemptsLeft') <= Budget - budget'
      BY <1>3, <1>9, TaskConstants DEF TasksTypeOK
    <2>2. (Budget - budget' - Cardinality(AttemptsLeft')) * Len(Methods)
            <= (Budget - budget') * Len(Methods)
      BY <2>1, ProductFacts, TaskConstants, Zenon
    <2>3. rpcs' <= (Budget - budget') * Len(Methods)
      <3> DEFINE x == (Budget - budget' - Cardinality(AttemptsLeft')) * Len(Methods)
                 y == (Budget - budget') * Len(Methods)
      <3>1. x \in Int /\ y \in Int /\ x <= y /\ rpcs' <= x
        BY <1>10, <2>1, <2>2, TaskConstants
      <3>2. rpcs' \in Nat
        BY <1>6, Zenon DEF TasksTypeOK
      <3> HIDE DEF x, y
      <3>3. rpcs' <= y
        BY <3>1, <3>2
      <3> QED
        BY <3>3, Zenon DEF y
    <2>4. AttemptsCovered
      BY Zenon DEF TasksInv
    <2> QED
      BY <2>3, <2>4, <1>3, <1>8, Zenon DEF AttemptsCovered
  <1>12. phase' # "between"
    BY <1>3, Zenon
  <1> QED
    BY <1>1, <1>5, <1>6, <1>7, <1>10, <1>11, <1>12, Zenon DEF TasksInv

\* Every step keeps the accounts, and retries only what failed altogether.
LEMMA TasksStep ==
    ASSUME TasksTypeOK, TasksInv, [TasksNext]_taskVars
    PROVE  TasksTypeOK' /\ TasksInv' /\ RetryStep
  <1>0. attempt \in [Tasks -> Nat]
    BY DEF TasksTypeOK
  <1>1. ASSUME NEW targets \in 0..Len(NodeOf), StartJob(targets)
        PROVE TasksTypeOK' /\ TasksInv' /\ RetryStep
    <2>1. RetryStep
      BY <1>0, <1>1 DEF StartJob, RetryStep
    <2> QED
      BY <1>1, <2>1, StartJobStep, Zenon
  <1>2. ASSUME NEW t \in Tasks, TaskStep(t) PROVE TasksTypeOK' /\ TasksInv' /\ RetryStep
    <2>1. ASSUME NEW results, NEW sent \in 1..Len(Methods),
                 results \in [DOMAIN Methods -> Result] \/ results = <<"transient">>,
                 EndAttempt(t, results, sent)
          PROVE  TasksTypeOK' /\ TasksInv' /\ RetryStep
      <3>1. /\ TasksTypeOK' /\ TasksInv'
            /\ \A i \in DOMAIN audits[t] : ~audits[t][i].ok
            /\ \A u \in Tasks : u # t => attempt'[u] = attempt[u]
        BY <2>1, AttemptEnds, Zenon
      <3> QED
        BY <3>1, <1>0 DEF RetryStep
    <2>2. CASE Answered(t)
      <3>1. Len(Methods) \in 1..Len(Methods)
        BY TaskConstants
      <3> QED
        BY <2>1, <2>2, <3>1, Zenon DEF Answered
    <2>3. CASE TimedOut(t)
      BY <2>1, <2>3, TaskConstants, Zenon DEF TimedOut
    <2>4. CASE AcquireNode(t) \/ AcquireMethod(t) \/ AcquireGlobal(t) \/ Backoff(t)
      <3>1. UNCHANGED WorkVars
        BY <2>4, Zenon DEF AcquireNode, AcquireMethod, AcquireGlobal, Backoff
      <3>2. UNCHANGED <<jobsLeft, phase, budget, attempt, audits, rpcs>>
        BY <3>1, Zenon DEF WorkVars
      <3>3. \E to \in Working : stage' = [stage EXCEPT ![t] = to] /\ stage[t] \in Working
        BY <2>4, Zenon DEF AcquireNode, AcquireMethod, AcquireGlobal, Backoff, Move, Working
      <3> PICK to \in Working : stage' = [stage EXCEPT ![t] = to] /\ stage[t] \in Working
        BY <3>3, Zenon
      <3>4. stage' \in [Tasks -> Working \cup {"none", "done"}]
        BY Zenon DEF TasksTypeOK
      <3>5. \A u \in Tasks : /\ stage'[u] \in Working <=> stage[u] \in Working
                             /\ stage'[u] = "none" <=> stage[u] = "none"
        BY Zenon DEF TasksTypeOK, Working
      <3>6. \A u \in Tasks : /\ stage'[u] \in Working => phase' = "executing"
                             /\ phase' = "between" => stage'[u] = "none"
        BY <3>2, <3>5, Zenon DEF TasksInv
      <3>7. TasksTypeOK' /\ TasksInv'
        BY <3>2, <3>4, <3>5, <3>6, MoveStep, Zenon DEF TasksTypeOK
      <3>8. RetryStep
        BY <3>2, <1>0 DEF RetryStep
      <3> QED
        BY <3>7, <3>8, Zenon
    <2>5. CASE WriteOutcome(t)
      <3>1. UNCHANGED <<jobsLeft, budget, attempt, audits, rpcs>>
        BY <2>5, Zenon DEF WriteOutcome
      <3>2. phase = "writing" /\ phase' \in {"failed", "writing"}
        BY <2>5, Zenon DEF WriteOutcome
      <3>3. stage[t] = "done" /\ (stage' = stage \/ stage' = [stage EXCEPT ![t] = "none"])
        BY <2>5, Zenon DEF WriteOutcome, Move
      <3>4. stage' \in [Tasks -> Working \cup {"none", "done"}]
        BY <3>3, Zenon DEF TasksTypeOK
      <3>5. \A u \in Tasks : /\ stage'[u] \in Working <=> stage[u] \in Working
                             /\ stage[u] = "none" => stage'[u] = "none"
        BY <3>3, Zenon DEF TasksTypeOK, Working
      <3>6. \A u \in Tasks : stage[u] \notin Working
        BY <3>2, Zenon DEF TasksInv
      <3>7. TasksTypeOK' /\ TasksInv'
        BY <3>1, <3>2, <3>4, <3>5, <3>6, MoveStep, Zenon DEF TasksTypeOK
      <3>8. RetryStep
        BY <3>1, <1>0 DEF RetryStep
      <3> QED
        BY <3>7, <3>8, Zenon
    <2> QED
      BY <1>2, <2>2, <2>3, <2>4, <2>5, Zenon DEF TaskStep
  <1>3. CASE JoinAll \/ EndJob \/ Heartbeat \/ UNCHANGED taskVars
    <2>1. UNCHANGED <<jobsLeft, budget, stage, attempt, audits, rpcs>>
      BY <1>3, Zenon DEF JoinAll, EndJob, Heartbeat, taskVars
    <2>2. phase' \in {"between", "executing", "writing", "failed"}
      BY <1>3, Zenon DEF JoinAll, EndJob, Heartbeat, taskVars, TasksTypeOK
    <2>3. \A u \in Tasks : /\ stage[u] \in Working => phase' = "executing"
                           /\ phase' = "between" => stage[u] = "none"
      <3>1. CASE JoinAll
        BY <3>1, Zenon DEF JoinAll, Working
      <3>2. CASE EndJob
        BY <3>2, Zenon DEF EndJob, Working, Pending, TasksInv, TasksTypeOK
      <3>3. CASE Heartbeat \/ UNCHANGED taskVars
        <4>1. phase' = phase
          BY <3>3, Zenon DEF Heartbeat, taskVars
        <4> QED
          BY <4>1, Zenon DEF TasksInv
      <3> QED
        BY <1>3, <3>1, <3>2, <3>3, Zenon
    <2>4. TasksTypeOK' /\ TasksInv'
      BY <2>1, <2>2, <2>3, MoveStep, Zenon DEF TasksTypeOK
    <2>5. RetryStep
      BY <2>1, <1>0 DEF RetryStep
    <2> QED
      BY <2>4, <2>5, Zenon
  <1>4. CASE NextTick
    <2>1. AtStart'
      BY <1>4, Zenon DEF NextTick, AtStart
    <2>2. (AtStart => TasksTypeOK /\ TasksInv)'
      BY TasksStart, PTL
    <2>3. RetryStep
      BY <1>0, <1>4 DEF NextTick, RetryStep
    <2> QED
      BY <2>1, <2>2, <2>3, Zenon
  <1> QED
    BY <1>1, <1>2, <1>3, <1>4, Zenon DEF TasksNext

\* The inductive invariant of a tick: what its tasks may still do is reserved.
THEOREM TasksInvariant == TasksSpec => [](TasksTypeOK /\ TasksInv)
  <1>1. TasksInit => TasksTypeOK /\ TasksInv
    BY TasksStart, Zenon DEF TasksInit, AtStart
  <1>2. TasksTypeOK /\ TasksInv /\ [TasksNext]_taskVars => (TasksTypeOK /\ TasksInv)'
    BY TasksStep, Zenon
  <1> QED
    BY <1>1, <1>2, PTL DEF TasksSpec

\* limit_tasks_by_rpc_budget and execute_with_retry: whatever fails and is
\* retried, a tick sends no more RPCs than its budget reserved.
THEOREM AttemptsAreCovered == TasksSpec => []AttemptsCovered
  <1>1. TasksInv => AttemptsCovered
    BY Zenon DEF TasksInv
  <1> QED
    BY <1>1, TasksInvariant, PTL

\* scheduler_task_outcome_is_retryable: no attempt follows one in which some
\* call succeeded.
THEOREM PartialSuccessIsFinal == TasksSpec => PartialNotReplayed
  <1>1. TasksTypeOK /\ TasksInv /\ [TasksNext]_taskVars => RetryStep
    BY TasksStep, Zenon
  <1> QED
    BY <1>1, TasksInvariant, PTL DEF TasksSpec, PartialNotReplayed

-----------------------------------------------------------------------------
(* HealthRollups.                                                           *)

\* A finite set has an element of the greatest rank.
LEMMA GreatestRank ==
  ASSUME NEW S, IsFiniteSet(S), S # {}, NEW f \in [S -> Int]
  PROVE  \E x \in S : \A y \in S : f[y] <= f[x]
<1> DEFINE Above(x) == {y \in S : f[x] < f[y]}
           Aboves == {Above(x) : x \in S}
<1>1. IsWellFoundedOn(StrictSubsetOrdering(S), FiniteSubsetsOf(S))
  BY FS_StrictSubsetOrderingWellFounded, Zenon
<1>2. Aboves \subseteq FiniteSubsetsOf(S) /\ Aboves # {}
  <2>1. \A x \in S : IsFiniteSet(Above(x))
    BY FS_Subset, Zenon
  <2>2. \A x \in S : Above(x) \in FiniteSubsetsOf(S)
    BY <2>1, Zenon DEF FiniteSubsetsOf
  <2>3. PICK x : x \in S
    BY Zenon
  <2>4. Above(x) \in Aboves
    BY <2>3, Zenon
  <2> HIDE DEF Above
  <2> QED BY <2>2, <2>4, Zenon
<1>3. \E m \in Aboves : \A n \in Aboves : ~(<<n, m>> \in StrictSubsetOrdering(S))
  <2> HIDE DEF Aboves
  <2> QED BY <1>1, <1>2, WFMin, Zenon
<1>4. PICK x \in S : \A y \in S : ~(<<Above(y), Above(x)>> \in StrictSubsetOrdering(S))
  BY <1>3, Zenon
<1>5. ASSUME NEW y \in S, f[x] < f[y] PROVE FALSE
  <2>1. Above(y) \subseteq Above(x) /\ y \in Above(x) /\ y \notin Above(y)
    BY <1>5
  <2>2. Above(y) \in SUBSET S /\ Above(x) \in SUBSET S
    BY Zenon
  <2> HIDE DEF Above
  <2>3. <<Above(y), Above(x)>> \in StrictSubsetOrdering(S)
    BY <2>1, <2>2, Zenon DEF StrictSubsetOrdering
  <2> QED BY <2>3, <1>4, Zenon
<1> QED BY <1>5

\* A sum of finite sizes is finite.
LEMMA TotalFinite ==
  ASSUME NEW f, IsFiniteSet(DOMAIN f), \A x \in DOMAIN f : f[x] \in Nat
  PROVE  IsFiniteSet(UNION {{x} \X (1..f[x]) : x \in DOMAIN f}) /\ Total(f) \in Nat
<1> DEFINE Piece(x) == {x} \X (1..f[x])
           pieces == {Piece(x) : x \in DOMAIN f}
           g == [x \in DOMAIN f |-> Piece(x)]
<1>1. IsFiniteSet(pieces)
  <2>1. g \in Surjection(DOMAIN f, pieces)
    BY Zenon DEF Surjection
  <2> HIDE DEF g, pieces
  <2> QED BY <2>1, FS_Surjection, Zenon
<1>2. \A x \in DOMAIN f : IsFiniteSet(Piece(x))
  <2> TAKE x \in DOMAIN f
  <2>1. IsFiniteSet(1..f[x])
    BY FS_Interval
  <2>2. IsFiniteSet({x})
    BY FS_Singleton, Zenon
  <2> QED BY <2>1, <2>2, FS_Product, Zenon
<1>3. \A p \in pieces : IsFiniteSet(p)
  BY <1>2, Zenon
<1>4. Total(f) = Cardinality(UNION pieces)
  BY Zenon DEF Total
<1>5. IsFiniteSet(UNION pieces)
  <2> HIDE DEF pieces
  <2> QED BY <1>1, <1>3, FS_UNION, Zenon
<1> QED BY <1>4, <1>5, FS_CardinalityType, Zenon

\* A sum of the sizes of disjoint sets is the size of their union.
LEMMA TotalOfSizes ==
  ASSUME NEW D, IsFiniteSet(D), NEW A, NEW f, DOMAIN f = D,
         \A x \in D : IsFiniteSet(A[x]) /\ f[x] = Cardinality(A[x]),
         \A x, y \in D : x # y => A[x] \cap A[y] = {},
         NEW U, \A e : e \in U <=> \E x \in D : e \in A[x]
  PROVE  IsFiniteSet(U) /\ Total(f) = Cardinality(U)
<1> DEFINE W == UNION {{x} \X (1..f[x]) : x \in DOMAIN f}
           h == [x \in D |-> CHOOSE b : b \in Bijection(1..f[x], A[x])]
           F == [w \in W |-> h[w[1]][w[2]]]
<1>1. \A x \in D : f[x] \in Nat /\ h[x] \in Bijection(1..f[x], A[x])
  <2> TAKE x \in D
  <2>1. Cardinality(A[x]) \in Nat /\ ExistsBijection(1..Cardinality(A[x]), A[x])
    BY FS_CardinalityType, Zenon
  <2>2. \E b : b \in Bijection(1..f[x], A[x])
    BY <2>1, Zenon DEF ExistsBijection
  <2> QED BY <2>1, <2>2, Zenon
<1>2. IsFiniteSet(W) /\ Total(f) = Cardinality(W)
  BY <1>1, TotalFinite DEF Total
<1>3. \A w : w \in W <=> \E x \in D, i \in Int : i \in 1..f[x] /\ w = <<x, i>>
  BY <1>1
<1>4. \A x \in D, i \in Int : i \in 1..f[x] => <<x, i>> \in W /\ F[<<x, i>>] = h[x][i]
  <2> TAKE x \in D, i \in Int
  <2> HAVE i \in 1..f[x]
  <2>1. <<x, i>> \in W
    BY <1>3, Zenon
  <2> QED BY <2>1, Zenon
<1> HIDE DEF W, h, F
<1>5. F \in [W -> U]
  <2>1. ASSUME NEW w \in W PROVE F[w] \in U
    <3>1. PICK x \in D, i \in Int : i \in 1..f[x] /\ w = <<x, i>>
      BY <1>3, Zenon
    <3>2. F[w] = h[x][i]
      BY <3>1, <1>4, Zenon
    <3>3. h[x][i] \in A[x]
      BY <3>1, <1>1 DEF Bijection, Injection
    <3> QED BY <3>2, <3>3, Zenon
  <2> QED BY <2>1, Zenon DEF F
<1>6. ASSUME NEW v \in W, NEW w \in W, F[v] = F[w] PROVE v = w
  <2>1. PICK x \in D, i \in Int : i \in 1..f[x] /\ v = <<x, i>>
    BY <1>3, Zenon
  <2>2. PICK y \in D, j \in Int : j \in 1..f[y] /\ w = <<y, j>>
    BY <1>3, Zenon
  <2>3. F[v] = h[x][i] /\ F[w] = h[y][j]
    BY <2>1, <2>2, <1>4, Zenon
  <2>4. h[x][i] \in A[x] /\ h[y][j] \in A[y]
    BY <2>1, <2>2, <1>1 DEF Bijection, Injection
  <2>5. x = y
    BY <2>3, <2>4, <1>6, Zenon
  <2>6. i = j
    BY <2>1, <2>2, <2>3, <2>5, <1>1, <1>6 DEF Bijection, Injection, IsInjective
  <2> QED BY <2>1, <2>2, <2>5, <2>6, Zenon
<1>7. ASSUME NEW e \in U PROVE \E w \in W : F[w] = e
  <2>1. PICK x \in D : e \in A[x]
    BY Zenon
  <2>2. PICK i \in 1..f[x] : h[x][i] = e
    BY <2>1, <1>1, Zenon DEF Bijection, Surjection
  <2>3. i \in Int
    BY <1>1, <2>2
  <2>4. <<x, i>> \in W /\ F[<<x, i>>] = e
    BY <2>2, <2>3, <1>4, Zenon
  <2> QED BY <2>4, Zenon
<1>8. F \in Bijection(W, U)
  BY <1>5, <1>6, <1>7, Zenon DEF Bijection, Injection, Surjection, IsInjective
<1>9. IsFiniteSet(U) /\ Cardinality(U) = Cardinality(W)
  BY <1>2, <1>8, FS_Bijection, Zenon DEF ExistsBijection
<1> QED BY <1>2, <1>9, Zenon

\* Multiples and quotients.
LEMMA MultipleOf ==
  ASSUME NEW n \in Int, NEW d \in Nat \ {0}, n % d = 0
  PROVE  n \div d \in Int /\ n = d * (n \div d)
OBVIOUS

\* Multiplication associates.
LEMMA TimesTimes ==
  ASSUME NEW x \in Int, NEW y \in Int, NEW z \in Int
  PROVE  (x * y) * z = x * (y * z)
OBVIOUS

\* A number between two multiples of d has its quotient between them.
LEMMA QuotientWithin ==
  ASSUME NEW d \in Nat \ {0}, NEW t \in Int, NEW a \in Int, NEW b \in Int,
         d * a <= t, t < d * b
  PROVE  t \div d \in Int /\ a <= t \div d /\ t \div d < b
<1>1. PICK q \in Int : q = t \div d
  OBVIOUS
<1>2. d * q <= t /\ t < d * (q + 1)
  BY <1>1
<1>3. d * a < d * (q + 1) /\ d * q < d * b
  <2>1. d * a \in Int /\ d * b \in Int /\ d * q \in Int /\ d * (q + 1) \in Int
    OBVIOUS
  <2> QED BY <1>2, <2>1
<1>4. a < q + 1 /\ q < b
  BY <1>3
<1> QED BY <1>1, <1>4

\* Two different multiples of d are at least d apart.
LEMMA MultiplesApart ==
  ASSUME NEW d \in Nat \ {0}, NEW p \in Int, NEW q \in Int, p < q
  PROVE  d * p + d <= d * q
<1>1. PICK e \in Nat : q = p + 1 + e
  <2>1. q - p - 1 \in Nat /\ q = p + 1 + (q - p - 1)
    OBVIOUS
  <2> QED BY <2>1, Zenon
<1>2. d * q = d * p + d + d * e /\ d * e \in Nat
  BY <1>1
<1>3. d * p \in Int
  OBVIOUS
<1> QED BY <1>2, <1>3

\* A bucket size is a number of whole slots.
LEMMA SizesWhole ==
  ASSUME NEW size \in Sizes
  PROVE  /\ size \in Nat \ {0} /\ SlotSeconds \in Nat \ {0}
         /\ size \div SlotSeconds \in Nat
         /\ size = SlotSeconds * (size \div SlotSeconds)
<1>1. PICK i \in DOMAIN RollupBuckets : size = RollupBuckets[i]
  BY Zenon DEF Sizes, Range
<1>2. size \in Nat \ {0} /\ SlotSeconds \in Nat \ {0} /\ size % SlotSeconds = 0
  BY <1>1, RollupAssumption
<1>3. size \div SlotSeconds \in Nat
  BY <1>2
<1> QED BY <1>2, <1>3, MultipleOf

\* A cell: its first slot and its number of slots.
LEMMA CellSlots ==
  ASSUME NEW k, CellOK(k)
  PROVE  \E a \in Int, m \in Nat :
           /\ k[2] \in Nat \ {0} /\ k[3] \in Int /\ SlotSeconds \in Nat \ {0}
           /\ m = k[2] \div SlotSeconds
           /\ k[2] = SlotSeconds * m /\ k[3] = SlotSeconds * a
           /\ k[3] + k[2] = SlotSeconds * (a + m)
<1>1. k[2] \in Sizes /\ k[3] \in Int /\ k[3] % k[2] = 0
  BY Zenon DEF CellOK, Cell
<1>2. PICK m \in Nat : /\ m = k[2] \div SlotSeconds /\ k[2] = SlotSeconds * m
                       /\ k[2] \in Nat \ {0} /\ SlotSeconds \in Nat \ {0}
  BY <1>1, SizesWhole, Zenon
<1>3. PICK q \in Int : k[3] = k[2] * q
  BY <1>1, <1>2, MultipleOf, Zenon
<1>4. PICK a \in Int : a = m * q
  OBVIOUS
<1>5. k[3] = SlotSeconds * a
  <2>1. k[3] = (SlotSeconds * m) * q
    BY <1>2, <1>3, Zenon
  <2>2. SlotSeconds \in Int /\ m \in Int
    BY <1>2
  <2>3. (SlotSeconds * m) * q = SlotSeconds * (m * q)
    BY <2>2, TimesTimes, Zenon
  <2> QED BY <2>1, <2>3, <1>4, Zenon
<1>6. k[3] + k[2] = SlotSeconds * (a + m)
  BY <1>2, <1>5
<1> QED BY <1>1, <1>2, <1>5, <1>6, Zenon

\* A multiple leaves no remainder.
LEMMA NoRemainder ==
  ASSUME NEW d \in Nat \ {0}, NEW q \in Int
  PROVE  (d * q) % d = 0
OBVIOUS

\* The sources of a cell, in time: a sample that straddles no boundary is of
\* the seconds of its cell.
LEMMA InCell ==
  ASSUME SourcesOK, NEW k, CellOK(k), NEW r \in OfCell(sources, k)
  PROVE  /\ r \in Source /\ r \in sources /\ r.at \in Nat
         /\ r.kind = "sample" => r.value \in SampleStatuses
         /\ r.kind = "sample" /\ ~Straddles(r) => k[3] <= r.at /\ r.at < k[3] + k[2]
<1>1. r \in sources /\ InWindow(r, k[3], k[3] + k[2])
  BY Zenon DEF OfCell
<1>2. /\ r \in Source /\ r.at \in Nat /\ r.frac \in {0, 1}
      /\ r.kind = "sample" => r.value \in SampleStatuses
  BY <1>1, Zenon DEF SourcesOK, Source
<1>3. PICK a \in Int, m \in Nat :
        /\ k[3] \in Int /\ k[2] \in Int /\ SlotSeconds \in Nat \ {0}
        /\ k[3] + k[2] = SlotSeconds * (a + m)
  <2>1. \A z \in Nat \ {0} : z \in Int
    OBVIOUS
  <2> QED BY <2>1, CellSlots, Zenon
<1>4. ASSUME r.kind = "sample", ~Straddles(r) PROVE k[3] <= r.at /\ r.at < k[3] + k[2]
  <2>1. PICK b \in Int : b = k[3] + k[2] /\ b = SlotSeconds * (a + m)
    BY <1>3
  <2>2. b % SlotSeconds = 0
    <3>1. a + m \in Int
      OBVIOUS
    <3> QED BY <1>3, <2>1, <3>1, NoRemainder, Zenon
  <2>3. r.frac = 1 => r.at # b
    BY <1>4, <2>2, Zenon DEF Straddles
  <2>4. ~(r.at < k[3]) /\ (r.at < b \/ (r.at = b /\ r.frac = 1))
    BY <1>1, <2>1, Zenon DEF InWindow, TextBefore
  <2>5. r.at < b
    BY <2>3, <2>4, Zenon
  <2> QED BY <1>2, <1>3, <2>1, <2>4, <2>5
<1> QED BY <1>1, <1>2, <1>4, Zenon

\* The slot of a sample of a cell is one of the cell's.
LEMMA SlotInCell ==
  ASSUME SourcesOK, NEW k, CellOK(k), NEW a \in Int, NEW m \in Nat,
         k[3] = SlotSeconds * a, k[3] + k[2] = SlotSeconds * (a + m),
         NEW r \in OfCell(sources, k), r.kind = "sample", ~Straddles(r)
  PROVE  SlotOf(r) \in a..(a + m - 1)
<1>1. SlotSeconds \in Nat \ {0}
  BY RollupAssumption, Zenon
<1>2. r.at \in Int /\ SlotSeconds * a <= r.at /\ r.at < SlotSeconds * (a + m)
  BY InCell
<1>3. a + m \in Int
  OBVIOUS
<1>4. r.at \div SlotSeconds \in Int /\ a <= r.at \div SlotSeconds /\ r.at \div SlotSeconds < a + m
  BY <1>1, <1>2, <1>3, QuotientWithin, Zenon
<1> QED BY <1>4 DEF SlotOf

\* Two cells of a node and a size are apart.
LEMMA CellsApart ==
  ASSUME NEW k, CellOK(k), NEW j, CellOK(j), k[1] = j[1], k[2] = j[2], k # j
  PROVE  k[3] + k[2] <= j[3] \/ j[3] + j[2] <= k[3]
<1>1. /\ k \in Cell /\ j \in Cell /\ k[3] \in Int /\ j[3] \in Int /\ k[2] \in Sizes
      /\ k[3] % k[2] = 0 /\ j[3] % k[2] = 0
  BY Zenon DEF CellOK, Cell
<1>2. k[2] \in Nat \ {0}
  BY <1>1, SizesWhole, Zenon
<1>3. k[3] # j[3]
  <2>1. k = <<k[1], k[2], k[3]>> /\ j = <<j[1], j[2], j[3]>>
    BY <1>1 DEF Cell
  <2> QED BY <2>1, Zenon
<1>4. PICK p \in Int, q \in Int : k[3] = k[2] * p /\ j[3] = k[2] * q
  BY <1>1, <1>2, MultipleOf, Zenon
<1>5. p # q
  BY <1>3, <1>4, Zenon
<1>6. CASE p < q
  BY <1>2, <1>4, <1>6, MultiplesApart, Zenon
<1>7. CASE q < p
  BY <1>2, <1>4, <1>7, MultiplesApart, Zenon
<1> QED BY <1>5, <1>6, <1>7

\* A source is of one cell of a size: the windows of a text share no boundary.
LEMMA OneCell ==
  ASSUME SourcesOK, NEW k, CellOK(k), NEW j, CellOK(j), k[2] = j[2],
         NEW r \in OfCell(sources, k), r \in OfCell(sources, j)
  PROVE  k = j
<1>1. /\ r.node = k[1] /\ r.node = j[1] /\ r.at \in Nat
      /\ InWindow(r, k[3], k[3] + k[2]) /\ InWindow(r, j[3], j[3] + j[2])
  BY InCell, Zenon DEF OfCell
<1>2. /\ k[3] \in Int /\ k[2] \in Int /\ j[3] \in Int /\ j[2] \in Int
  BY CellSlots
<1>3. ASSUME NEW s \in Int, NEW t \in Int, s <= t, TextBefore(r, s) PROVE TextBefore(r, t)
  BY <1>1, <1>3 DEF TextBefore
<1>4. ~(k[3] + k[2] <= j[3]) /\ ~(j[3] + j[2] <= k[3])
  <2>1. k[3] + k[2] \in Int /\ j[3] + j[2] \in Int
    BY <1>2
  <2> QED BY <1>1, <1>2, <1>3, <2>1, Zenon DEF InWindow
<1> QED BY <1>1, <1>4, CellsApart, Zenon

\* A slot is of one cell of a node and a size.
LEMMA OneCellOfSlot ==
  ASSUME SourcesOK, NEW k, CellOK(k), NEW j, CellOK(j), k[1] = j[1], k[2] = j[2],
         NEW r \in OfCell(sources, k), r.kind = "sample", ~Straddles(r),
         NEW x \in OfCell(sources, j), x.kind = "sample", ~Straddles(x), SlotOf(r) = SlotOf(x)
  PROVE  k = j
<1>1. PICK a \in Int, m \in Nat :
        /\ k[3] = SlotSeconds * a /\ k[3] + k[2] = SlotSeconds * (a + m)
        /\ SlotSeconds \in Nat \ {0}
  BY CellSlots, Zenon
<1>2. PICK b \in Int, n \in Nat :
        /\ j[3] = SlotSeconds * b /\ j[3] + j[2] = SlotSeconds * (b + n)
  BY CellSlots, Zenon
<1>3. SlotOf(r) \in a..(a + m - 1)
  BY <1>1, SlotInCell, Zenon
<1>4. SlotOf(r) \in b..(b + n - 1)
  BY <1>2, SlotInCell, Zenon
<1>5. b < a + m /\ a < b + n
  BY <1>3, <1>4
<1>6. \A p, q \in Int : p < q => SlotSeconds * p < SlotSeconds * q
  <2> TAKE p, q \in Int
  <2> HAVE p < q
  <2>1. SlotSeconds * p + SlotSeconds <= SlotSeconds * q
    BY <1>1, MultiplesApart, Zenon
  <2>2. SlotSeconds * p \in Int /\ SlotSeconds * q \in Int
    BY <1>1
  <2> QED BY <2>1, <2>2, <1>1
<1>7. a + m \in Int /\ b + n \in Int
  OBVIOUS
<1>8. SlotSeconds * b < SlotSeconds * (a + m) /\ SlotSeconds * a < SlotSeconds * (b + n)
  BY <1>5, <1>6, <1>7, Zenon
<1>9. /\ SlotSeconds * b \in Int /\ SlotSeconds * a \in Int
      /\ SlotSeconds * (a + m) \in Int /\ SlotSeconds * (b + n) \in Int
  BY <1>1, <1>7
<1>10. ~(k[3] + k[2] <= j[3]) /\ ~(j[3] + j[2] <= k[3])
  BY <1>1, <1>2, <1>8, <1>9
<1> QED BY <1>10, CellsApart, Zenon

\* The last of the samples of a slot is one of them.
LEMMA LastIsOne ==
  ASSUME SourcesOK, NEW rs, rs \subseteq sources, rs # {}
  PROVE  LastSample(rs) \in rs
<1> DEFINE f == [r \in rs |-> TextRank(r)]
<1>1. f \in [rs -> Int]
  <2>1. \A r \in rs : r.at \in Nat /\ r.frac \in {0, 1}
    BY Zenon DEF SourcesOK, Source
  <2>2. \A r \in rs : TextRank(r) \in Int
    BY <2>1 DEF TextRank
  <2> QED BY <2>2, Zenon
<1>2. IsFiniteSet(rs)
  BY FS_Subset, Zenon DEF SourcesOK
<1>3. \E r \in rs : \A x \in rs : f[x] <= f[r]
  <2> HIDE DEF f
  <2> QED BY <1>1, <1>2, GreatestRank, Zenon
<1>4. \E r \in rs : \A x \in rs : TextRank(x) <= TextRank(r)
  BY <1>3, Zenon
<1> QED BY <1>4, Zenon DEF LastSample

\* Sets of samples, and the status of each of their slots.
SampleSet(S) == S \subseteq sources /\ \A r \in S : r.kind = "sample"

\* The slots of a set of samples are those of its members, each with a known status.
LEMMA SlotStatuses ==
  ASSUME SourcesOK, NEW S, SampleSet(S)
  PROVE  /\ IsFiniteSet(DOMAIN StatusBySlot(S))
         /\ \A i : i \in DOMAIN StatusBySlot(S) <=> \E r \in S : SlotOf(r) = i
         /\ \A i \in DOMAIN StatusBySlot(S) :
              /\ StatusBySlot(S)[i] = LastSample({r \in S : SlotOf(r) = i}).value
              /\ StatusBySlot(S)[i] \in SampleStatuses
<1> DEFINE slots == {SlotOf(r) : r \in S}
           g == [r \in S |-> SlotOf(r)]
<1>1. DOMAIN StatusBySlot(S) = slots
  BY Zenon DEF StatusBySlot
<1>2. IsFiniteSet(slots)
  <2>1. IsFiniteSet(S)
    BY FS_Subset, Zenon DEF SourcesOK, SampleSet
  <2>2. g \in Surjection(S, slots)
    BY Zenon DEF Surjection
  <2> HIDE DEF g, slots
  <2> QED BY <2>1, <2>2, FS_Surjection, Zenon
<1>3. ASSUME NEW i \in slots
      PROVE  /\ StatusBySlot(S)[i] = LastSample({r \in S : SlotOf(r) = i}).value
             /\ StatusBySlot(S)[i] \in SampleStatuses
  <2> DEFINE rs == {r \in S : SlotOf(r) = i}
  <2>1. rs \subseteq sources /\ rs # {} /\ \A r \in rs : r.kind = "sample"
    BY Zenon DEF SampleSet
  <2>2. StatusBySlot(S)[i] = LastSample(rs).value
    BY Zenon DEF StatusBySlot
  <2> HIDE DEF rs
  <2>3. LastSample(rs) \in rs
    BY <2>1, LastIsOne, Zenon
  <2>4. LastSample(rs).value \in SampleStatuses
    BY <2>1, <2>3, Zenon DEF SourcesOK
  <2> QED BY <2>2, <2>4, Zenon DEF rs
<1> QED BY <1>1, <1>2, <1>3, Zenon

\* A derived row, column by column.
LEMMA RowColumns ==
  ASSUME NEW k, NEW row, Derived(sources, k, row), NEW S, S = OfKind(row.watermark, "sample"),
         NEW P, P = OfKind(row.watermark, "probe")
  PROVE  /\ row.watermark = S \cup P
         /\ row.covered = Cardinality(DOMAIN StatusBySlot(S))
         /\ row.expected = k[2] \div SlotSeconds
         /\ DOMAIN row.counts = SampleStatuses
         /\ \A s \in SampleStatuses :
              row.counts[s] = Cardinality({i \in DOMAIN StatusBySlot(S) : StatusBySlot(S)[i] = s})
         /\ row.observations = Cardinality(P)
         /\ row.errors = Cardinality({r \in P : r.value = "failed"})
<1>1. row = BuildRollup(k[2], S, P)
  BY Zenon DEF Derived
<1> QED BY <1>1 DEF BuildRollup

\* The columns that the projection adds up, from what a row was derived from.
RowCounts(row, S, P) ==
  /\ row.covered = Cardinality(DOMAIN StatusBySlot(S))
  /\ \A s \in SampleStatuses :
       row.counts[s] = Cardinality({i \in DOMAIN StatusBySlot(S) : StatusBySlot(S)[i] = s})
  /\ row.errors = Cardinality({r \in P : r.value = "failed"})

\* Every derived row has them.
LEMMA RowsCount ==
  ASSUME NEW k, NEW row, Derived(sources, k, row)
  PROVE  RowCounts(row, OfKind(row.watermark, "sample"), OfKind(row.watermark, "probe"))
<1>1. PICK S, P : S = OfKind(row.watermark, "sample") /\ P = OfKind(row.watermark, "probe")
  BY Zenon
<1>2. row = BuildRollup(k[2], S, P)
  BY <1>1, Zenon DEF Derived
<1>3. RowCounts(row, S, P)
  BY <1>2 DEF BuildRollup, RowCounts
<1> QED BY <1>1, <1>3, Zenon

\* The samples of a row are samples of its cell.
LEMMA RowSources ==
  ASSUME SourcesOK, NEW k, CellOK(k), NEW row, Derived(sources, k, row)
  PROVE  /\ SampleSet(OfKind(row.watermark, "sample"))
         /\ OfKind(row.watermark, "sample") \subseteq OfCell(sources, k)
         /\ OfKind(row.watermark, "probe") \subseteq OfCell(sources, k)
         /\ IsFiniteSet(OfKind(row.watermark, "probe"))
<1>1. row.watermark \subseteq OfCell(sources, k) /\ OfCell(sources, k) \subseteq sources
  BY Zenon DEF Derived, OfCell
<1>2. OfKind(row.watermark, "probe") \in SUBSET sources
  BY <1>1, Zenon DEF OfKind
<1> QED BY <1>1, <1>2, FS_Subset, Zenon DEF SampleSet, OfKind, SourcesOK

\* build_health_rollup: the statuses of a row add up to its slots, which are
\* no more than its bucket has when no sample straddles a boundary.
LEMMA RowConsistent ==
  ASSUME SourcesOK, NEW k, CellOK(k), NEW row, Derived(sources, k, row),
         \A r \in row.watermark : ~Straddles(r)
  PROVE  CountersConsistent(row, k[2])
<1>1. PICK S, P : S = OfKind(row.watermark, "sample") /\ P = OfKind(row.watermark, "probe")
  BY Zenon
<1>2. PICK st : st = StatusBySlot(S)
  BY Zenon
<1>3. /\ row.covered = Cardinality(DOMAIN st)
      /\ row.expected = k[2] \div SlotSeconds
      /\ DOMAIN row.counts = SampleStatuses
      /\ \A s \in SampleStatuses : row.counts[s] = Cardinality({i \in DOMAIN st : st[i] = s})
      /\ row.observations = Cardinality(P)
      /\ row.errors = Cardinality({r \in P : r.value = "failed"})
  BY <1>1, <1>2, RowColumns
<1>4. SampleSet(S) /\ S \subseteq OfCell(sources, k) /\ P \subseteq OfCell(sources, k) /\ IsFiniteSet(P)
  BY <1>1, RowSources, Zenon
<1>5. /\ IsFiniteSet(DOMAIN st)
      /\ \A i : i \in DOMAIN st <=> \E r \in S : SlotOf(r) = i
      /\ \A i \in DOMAIN st : st[i] \in SampleStatuses
  BY <1>2, <1>4, SlotStatuses, Zenon
<1>6. row.covered <= row.expected
  <2>1. PICK a \in Int, m \in Nat :
          /\ m = k[2] \div SlotSeconds /\ k[3] = SlotSeconds * a
          /\ k[3] + k[2] = SlotSeconds * (a + m)
    BY CellSlots, Zenon
  <2>2. ASSUME NEW r \in S PROVE SlotOf(r) \in a..(a + m - 1)
    <3>1. r \in OfCell(sources, k) /\ r.kind = "sample" /\ ~Straddles(r)
      BY <1>1, <1>4, Zenon DEF SampleSet, OfKind
    <3> QED BY <2>1, <3>1, SlotInCell, Zenon
  <2>3. DOMAIN st \in SUBSET (a..(a + m - 1))
    BY <2>2, <1>5, Zenon
  <2>4. IsFiniteSet(a..(a + m - 1)) /\ Cardinality(a..(a + m - 1)) = m
    <3>1. a + m - 1 \in Int
      OBVIOUS
    <3>2. /\ IsFiniteSet(a..(a + m - 1))
          /\ Cardinality(a..(a + m - 1))
               = IF a > a + m - 1 THEN 0 ELSE (a + m - 1) - a + 1
      BY <3>1, FS_Interval, Zenon
    <3> QED BY <3>2
  <2>5. Cardinality(DOMAIN st) <= Cardinality(a..(a + m - 1))
    BY <2>3, <2>4, FS_Subset, Zenon
  <2> QED BY <2>1, <2>4, <2>5, <1>3, Zenon
<1>7. Total(row.counts) = row.covered
  <2> DEFINE A == [s \in SampleStatuses |-> {i \in DOMAIN st : st[i] = s}]
  <2>1. \A s \in SampleStatuses : IsFiniteSet(A[s]) /\ row.counts[s] = Cardinality(A[s])
    <3> TAKE s \in SampleStatuses
    <3>1. A[s] = {i \in DOMAIN st : st[i] = s} /\ A[s] \in SUBSET DOMAIN st
      BY Zenon
    <3> HIDE DEF A
    <3> QED BY <3>1, <1>3, <1>5, FS_Subset, Zenon
  <2>2. \A s, t \in SampleStatuses : s # t => A[s] \cap A[t] = {}
    BY Zenon
  <2>3. \A i : i \in DOMAIN st <=> \E s \in SampleStatuses : i \in A[s]
    BY <1>5, Zenon
  <2>4. IsFiniteSet(SampleStatuses)
    BY RollupAssumption, Zenon
  <2> HIDE DEF A
  <2>5. Total(row.counts) = Cardinality(DOMAIN st)
    BY <2>1, <2>2, <2>3, <2>4, <1>3, TotalOfSizes
  <2> QED BY <2>5, <1>3, Zenon
<1>8. row.errors <= row.observations
  <2>1. {r \in P : r.value = "failed"} \in SUBSET P
    BY Zenon
  <2>2. Cardinality({r \in P : r.value = "failed"}) <= Cardinality(P)
    BY <2>1, <1>4, FS_Subset, Zenon
  <2> QED BY <2>2, <1>3, Zenon
<1> QED BY <1>3, <1>6, <1>7, <1>8, Zenon DEF CountersConsistent, StatusTotal

\* The slots that have a status of T, and the failed probes of W.
SlotsWith(st, T) == Cardinality({i \in DOMAIN st : st[i] \in T})
Failures(W) == Cardinality({r \in OfKind(W, "probe") : r.value = "failed"})

\* The rows a projection reads and what they were derived from: each column
\* adds up to a number that depends on the sources alone.
LEMMA ColumnSums ==
  ASSUME SourcesOK, RowsOK(sources, rollups), NEW n, NEW size, NEW keys, IsFiniteSet(keys),
         keys \subseteq DOMAIN rollups, \A k \in keys : k[1] = n /\ k[2] = size,
         NEW W, W = Watermarks(keys), \A r \in W : ~Straddles(r)
  PROVE  /\ SumCovered(keys) = Cardinality(DOMAIN StatusBySlot(OfKind(W, "sample")))
         /\ \A T \in SUBSET SampleStatuses :
              SumCounts(keys, T) = SlotsWith(StatusBySlot(OfKind(W, "sample")), T)
         /\ SumErrors(keys) = Failures(W)
<1>0. PICK st : st = StatusBySlot(OfKind(W, "sample"))
  BY Zenon
<1> DEFINE S(k) == OfKind(rollups[k].watermark, "sample")
           P(k) == OfKind(rollups[k].watermark, "probe")
           sl(k) == StatusBySlot(S(k))
           all == OfKind(W, "sample")
<1>1. \A k \in keys : CellOK(k) /\ Derived(sources, k, rollups[k])
  BY Zenon DEF RowsOK
<1>2. \A k \in keys : SampleSet(S(k)) /\ S(k) \subseteq OfCell(sources, k) /\ P(k) \subseteq OfCell(sources, k)
                      /\ IsFiniteSet(P(k))
  BY <1>1, RowSources, Zenon
<1>3. /\ \A r : r \in all <=> \E k \in keys : r \in S(k)
      /\ \A r : r \in OfKind(W, "probe") <=> \E k \in keys : r \in P(k)
  BY Zenon DEF OfKind, Watermarks
<1>4. \A k \in keys :
        /\ rollups[k].covered = Cardinality(DOMAIN sl(k))
        /\ \A s \in SampleStatuses :
             rollups[k].counts[s] = Cardinality({i \in DOMAIN sl(k) : sl(k)[i] = s})
        /\ rollups[k].errors = Cardinality({r \in P(k) : r.value = "failed"})
  <2>1. \A k \in keys : RowCounts(rollups[k], S(k), P(k))
    BY <1>1, RowsCount, Zenon
  <2> QED BY <2>1, Zenon DEF RowCounts
<1>5. \A k \in keys :
        /\ IsFiniteSet(DOMAIN sl(k))
        /\ \A i : i \in DOMAIN sl(k) <=> \E r \in S(k) : SlotOf(r) = i
        /\ \A i \in DOMAIN sl(k) : sl(k)[i] = LastSample({r \in S(k) : SlotOf(r) = i}).value
  BY <1>2, SlotStatuses, Zenon
<1>6. SampleSet(all)
  BY <1>2, <1>3, Zenon DEF SampleSet
<1>7. /\ \A i : i \in DOMAIN st <=> \E r \in all : SlotOf(r) = i
      /\ \A i \in DOMAIN st : st[i] = LastSample({r \in all : SlotOf(r) = i}).value
      /\ \A i \in DOMAIN st : st[i] \in SampleStatuses
  <2>1. st = StatusBySlot(all)
    BY <1>0, Zenon
  <2> HIDE DEF all
  <2>2. /\ \A i : i \in DOMAIN StatusBySlot(all) <=> \E r \in all : SlotOf(r) = i
        /\ \A i \in DOMAIN StatusBySlot(all) :
             /\ StatusBySlot(all)[i] = LastSample({r \in all : SlotOf(r) = i}).value
             /\ StatusBySlot(all)[i] \in SampleStatuses
    BY <1>6, SlotStatuses, Zenon
  <2> QED BY <2>1, <2>2, Zenon
<1>8. ASSUME NEW k \in keys, NEW j \in keys, NEW r \in S(k), NEW x \in S(j), SlotOf(r) = SlotOf(x)
      PROVE  k = j
  <2>1. r \in OfCell(sources, k) /\ x \in OfCell(sources, j) /\ r.kind = "sample" /\ x.kind = "sample"
    BY <1>2, Zenon DEF OfKind
  <2>2. ~Straddles(r) /\ ~Straddles(x)
    BY Zenon DEF OfKind, Watermarks
  <2> QED BY <2>1, <2>2, <1>1, <1>8, OneCellOfSlot, Zenon
<1> HIDE DEF S, P, sl, all
<1>9. \A k, j \in keys : \A i : i \in DOMAIN sl(k) /\ i \in DOMAIN sl(j) => k = j
  BY <1>5, <1>8
<1>10. \A i : i \in DOMAIN st <=> \E k \in keys : i \in DOMAIN sl(k)
  BY <1>3, <1>5, <1>7, Zenon
<1>11. \A k \in keys : \A i : i \in DOMAIN sl(k) => i \in DOMAIN st /\ st[i] = sl(k)[i]
  <2> SUFFICES ASSUME NEW k \in keys, NEW i, i \in DOMAIN sl(k)
               PROVE  i \in DOMAIN st /\ st[i] = sl(k)[i]
    BY Zenon
  <2>1. i \in DOMAIN st
    BY <1>10, Zenon
  <2>2. {r \in all : SlotOf(r) = i} = {r \in S(k) : SlotOf(r) = i}
    <3>1. ASSUME NEW r \in all, SlotOf(r) = i PROVE r \in S(k)
      <4>1. PICK j \in keys : r \in S(j)
        BY <1>3, Zenon
      <4>2. PICK x \in S(k) : SlotOf(x) = i
        BY <1>5, Zenon
      <4>3. k = j
        BY <4>1, <4>2, <3>1, <1>8, Zenon
      <4> QED BY <4>1, <4>3, Zenon
    <3>2. ASSUME NEW r \in S(k) PROVE r \in all
      BY <1>3, Zenon
    <3> QED BY <3>1, <3>2, Zenon
  <2> QED BY <2>1, <2>2, <1>5, <1>7, Zenon
<1>12. Total([k \in keys |-> rollups[k].covered]) = Cardinality(DOMAIN st)
  <2>1. PICK f : f = [k \in keys |-> rollups[k].covered]
    BY Zenon
  <2>2. PICK A : A = [k \in keys |-> DOMAIN sl(k)]
    BY Zenon
  <2>3. DOMAIN f = keys
    BY <2>1, Zenon
  <2>4. \A k \in keys : IsFiniteSet(A[k]) /\ f[k] = Cardinality(A[k])
    BY <2>1, <2>2, <1>4, <1>5, Zenon
  <2>5. \A k, j \in keys : k # j => A[k] \cap A[j] = {}
    BY <2>2, <1>9, Zenon
  <2>6. \A i : i \in DOMAIN st <=> \E k \in keys : i \in A[k]
    BY <2>2, <1>10, Zenon
  <2>7. PICK D : D = keys
    BY Zenon
  <2>8. /\ \A k \in D : IsFiniteSet(A[k]) /\ f[k] = Cardinality(A[k])
        /\ \A k, j \in D : k # j => A[k] \cap A[j] = {}
        /\ \A i : i \in DOMAIN st <=> \E k \in D : i \in A[k]
        /\ IsFiniteSet(D) /\ DOMAIN f = D
    BY <2>3, <2>4, <2>5, <2>6, <2>7, Zenon
  <2>9. Total(f) = Cardinality(DOMAIN st)
    BY <2>8, TotalOfSizes
  <2> QED BY <2>1, <2>9, Zenon
<1>13. ASSUME NEW T \in SUBSET SampleStatuses
       PROVE  Total([c \in keys \X T |-> rollups[c[1]].counts[c[2]]])
                = Cardinality({i \in DOMAIN st : st[i] \in T})
  <2>1. PICK f : f = [c \in keys \X T |-> rollups[c[1]].counts[c[2]]]
    BY Zenon
  <2>2. PICK A : A = [c \in keys \X T |-> {i \in DOMAIN sl(c[1]) : sl(c[1])[i] = c[2]}]
    BY Zenon
  <2>3. PICK U : U = {i \in DOMAIN st : st[i] \in T}
    BY Zenon
  <2>4. IsFiniteSet(keys \X T)
    BY RollupAssumption, FS_Subset, FS_Product, Zenon
  <2>5. ASSUME NEW c \in keys \X T PROVE IsFiniteSet(A[c]) /\ f[c] = Cardinality(A[c])
    <3>1. c[1] \in keys /\ c[2] \in SampleStatuses
      BY Zenon
    <3>2. A[c] = {i \in DOMAIN sl(c[1]) : sl(c[1])[i] = c[2]}
      BY <2>2, Zenon
    <3>3. A[c] \in SUBSET DOMAIN sl(c[1])
      BY <3>2, Zenon
    <3>4. IsFiniteSet(A[c])
      BY <3>1, <3>3, <1>5, FS_Subset, Zenon
    <3>5. f[c] = rollups[c[1]].counts[c[2]]
      BY <2>1, Zenon
    <3> QED BY <3>1, <3>2, <3>4, <3>5, <1>4, Zenon
  <2>6. ASSUME NEW c \in keys \X T, NEW d \in keys \X T, c # d PROVE A[c] \cap A[d] = {}
    <3> SUFFICES ASSUME NEW i, i \in A[c], i \in A[d] PROVE FALSE
      BY Zenon
    <3>1. /\ c[1] \in keys /\ d[1] \in keys
          /\ i \in DOMAIN sl(c[1]) /\ sl(c[1])[i] = c[2]
          /\ i \in DOMAIN sl(d[1]) /\ sl(d[1])[i] = d[2]
      BY <2>2, Zenon
    <3>2. c[1] = d[1]
      BY <3>1, <1>9, Zenon
    <3>3. c[2] = d[2]
      BY <3>1, <3>2, Zenon
    <3>4. c = <<c[1], c[2]>> /\ d = <<d[1], d[2]>>
      OBVIOUS
    <3> QED BY <3>2, <3>3, <3>4, <2>6, Zenon
  <2>7. ASSUME NEW i PROVE i \in U <=> \E c \in keys \X T : i \in A[c]
    <3>1. ASSUME i \in U PROVE \E c \in keys \X T : i \in A[c]
      <4>1. i \in DOMAIN st /\ st[i] \in T
        BY <3>1, <2>3, Zenon
      <4>2. PICK k \in keys : i \in DOMAIN sl(k)
        BY <4>1, <1>10, Zenon
      <4>3. <<k, st[i]>> \in keys \X T
        BY <4>1, Zenon
      <4>4. i \in A[<<k, st[i]>>]
        BY <4>2, <4>3, <2>2, <1>11, Zenon
      <4> QED BY <4>3, <4>4, Zenon
    <3>2. ASSUME NEW c \in keys \X T, i \in A[c] PROVE i \in U
      <4>1. c[1] \in keys /\ c[2] \in T /\ i \in DOMAIN sl(c[1]) /\ sl(c[1])[i] = c[2]
        BY <3>2, <2>2, Zenon
      <4> QED BY <4>1, <1>11, <2>3, Zenon
    <3> QED BY <3>1, <3>2, Zenon
  <2>8. DOMAIN f = keys \X T
    BY <2>1, Zenon
  <2>9. PICK D : D = keys \X T
    BY Zenon
  <2>10. /\ \A c \in D : IsFiniteSet(A[c]) /\ f[c] = Cardinality(A[c])
         /\ \A c, d \in D : c # d => A[c] \cap A[d] = {}
         /\ \A i : i \in U <=> \E c \in D : i \in A[c]
         /\ IsFiniteSet(D) /\ DOMAIN f = D
    BY <2>4, <2>5, <2>6, <2>7, <2>8, <2>9, Zenon
  <2>11. Total(f) = Cardinality(U)
    BY <2>10, TotalOfSizes
  <2> QED BY <2>1, <2>3, <2>11, Zenon
<1>14. Total([k \in keys |-> rollups[k].errors])
         = Cardinality({r \in OfKind(W, "probe") : r.value = "failed"})
  <2>1. PICK f : f = [k \in keys |-> rollups[k].errors]
    BY Zenon
  <2>2. PICK A : A = [k \in keys |-> {r \in P(k) : r.value = "failed"}]
    BY Zenon
  <2>3. PICK U : U = {r \in OfKind(W, "probe") : r.value = "failed"}
    BY Zenon
  <2>4. DOMAIN f = keys
    BY <2>1, Zenon
  <2>5. ASSUME NEW k \in keys PROVE IsFiniteSet(A[k]) /\ f[k] = Cardinality(A[k])
    <3>1. A[k] = {r \in P(k) : r.value = "failed"}
      BY <2>2, Zenon
    <3>2. A[k] \in SUBSET P(k)
      BY <3>1, Zenon
    <3>3. IsFiniteSet(A[k])
      BY <3>2, <1>2, FS_Subset, Zenon
    <3> QED BY <3>1, <3>3, <2>1, <1>4, Zenon
  <2>6. \A k, j \in keys : k # j => A[k] \cap A[j] = {}
    <3> SUFFICES ASSUME NEW k \in keys, NEW j \in keys, NEW r, r \in A[k], r \in A[j] PROVE k = j
      BY Zenon
    <3>1. r \in OfCell(sources, k) /\ r \in OfCell(sources, j)
      BY <2>2, <1>2, Zenon
    <3>2. k[2] = j[2] /\ CellOK(k) /\ CellOK(j)
      BY <1>1
    <3> QED BY <3>1, <3>2, OneCell, Zenon
  <2>7. \A r : r \in U <=> \E k \in keys : r \in A[k]
    BY <2>2, <2>3, <1>3, Zenon
  <2>8. \A k \in keys : IsFiniteSet(A[k]) /\ f[k] = Cardinality(A[k])
    BY <2>5, Zenon
  <2>9. Total(f) = Cardinality(U)
    <3>1. PICK D : D = keys
      BY Zenon
    <3>2. /\ \A k \in D : IsFiniteSet(A[k]) /\ f[k] = Cardinality(A[k])
          /\ \A k, j \in D : k # j => A[k] \cap A[j] = {}
          /\ \A r : r \in U <=> \E k \in D : r \in A[k]
          /\ IsFiniteSet(D) /\ DOMAIN f = D
      BY <2>4, <2>6, <2>7, <2>8, <3>1, Zenon
    <3> QED BY <3>2, TotalOfSizes
  <2> QED BY <2>1, <2>3, <2>9, Zenon
<1> QED BY <1>0, <1>12, <1>13, <1>14, Zenon DEF SumCovered, SumCounts, SumErrors, SlotsWith, Failures

\* A number no less than a multiple of d has a quotient no less than its factor.
LEMMA QuotientAtLeast ==
  ASSUME NEW d \in Nat \ {0}, NEW t \in Int, NEW a \in Int, d * a <= t
  PROVE  t \div d \in Int /\ a <= t \div d
<1>1. PICK b \in Int : b = t \div d + 1
  OBVIOUS
<1>2. t < d * b
  BY <1>1
<1> QED BY <1>2, QuotientWithin, Zenon

\* A window has no more rows of a size than buckets: their starts differ.
LEMMA StoredRowsFit ==
  ASSUME RowsOK(sources, rollups), NEW n, NEW size \in Sizes, NEW from \in Int, NEW to \in Int,
         SloAligned(to, size)
  PROVE  LET keys == StoredRows(n, size, from, to)
         IN  \/ IsFiniteSet(keys) /\ Cardinality(keys) <= (to - from) \div size
             \/ keys = {}
<1> DEFINE keys == StoredRows(n, size, from, to)
<1>1. size \in Nat \ {0}
  BY SizesWhole, Zenon
<1>2. PICK q \in Int : to = size * q
  <2>1. to % size = 0
    BY Zenon DEF SloAligned
  <2> QED BY <1>1, <2>1, MultipleOf, Zenon
<1>3. PICK m \in Int : m = (to - from) \div size
  BY <1>1
<1>4. PICK g : g = [k \in keys |-> q - (k[3] \div size)]
  BY Zenon
<1>5. ASSUME NEW k \in keys
      PROVE  /\ k = <<n, size, k[3]>> /\ k[3] \in Int /\ k[3] \div size \in Int
             /\ k[3] = size * (k[3] \div size)
             /\ g[k] = q - (k[3] \div size) /\ g[k] \in 1..m
  <2>1. /\ CellOK(k) /\ k[1] = n /\ k[2] = size /\ from <= k[3] /\ k[3] < to
    BY Zenon DEF StoredRows, RowsOK
  <2>2. k \in Cell /\ k[3] \in Int /\ k[3] % size = 0
    BY <2>1, Zenon DEF CellOK, Cell
  <2>3. k = <<n, size, k[3]>>
    BY <2>1, <2>2 DEF Cell
  <2>4. PICK p \in Int : p = k[3] \div size /\ k[3] = size * p
    BY <2>2, <1>1, MultipleOf, Zenon
  <2>5. p < q
    <3>1. size * p < size * q
      BY <2>1, <2>4, <1>2, Zenon
    <3> QED BY <3>1, <1>1
  <2>6. q - p <= m
    <3>1. size * (q - p) = to - k[3]
      BY <2>4, <1>2, <1>1
    <3>2. size * (q - p) <= to - from
      BY <3>1, <2>1, <2>2
    <3>3. q - p \in Int /\ to - from \in Int
      OBVIOUS
    <3> QED BY <3>2, <3>3, <1>1, <1>3, QuotientAtLeast, Zenon
  <2>7. g[k] = q - p
    BY <1>4, <2>4, Zenon
  <2>8. q - p \in 1..m
    BY <2>5, <2>6
  <2> QED BY <2>2, <2>3, <2>4, <2>7, <2>8, Zenon
<1>6. CASE keys = {}
  BY <1>6, Zenon
<1>7. CASE keys # {}
  <2>1. m \in Nat
    <3>1. PICK k : k \in keys
      BY <1>7, Zenon
    <3>2. g[k] \in 1..m
      BY <3>1, <1>5, Zenon
    <3> QED BY <3>2
  <2>2. g \in Injection(keys, 1..m)
    <3>1. ASSUME NEW k \in keys, NEW j \in keys, g[k] = g[j] PROVE k = j
      <4>1. k[3] \div size = j[3] \div size
        BY <3>1, <1>5
      <4>2. k[3] = j[3]
        BY <4>1, <1>5
      <4>3. k = <<n, size, k[3]>> /\ j = <<n, size, j[3]>>
        BY <1>5, Zenon
      <4> QED BY <4>2, <4>3, Zenon
    <3>2. g \in [keys -> 1..m]
      BY <1>4, <1>5, Zenon
    <3> HIDE DEF keys
    <3> QED BY <3>1, <3>2, Zenon DEF Injection, IsInjective
  <2>3. IsFiniteSet(1..m) /\ Cardinality(1..m) = m
    <3>1. 1 \in Int
      OBVIOUS
    <3>2. IsFiniteSet(1..m) /\ Cardinality(1..m) = IF 1 > m THEN 0 ELSE m - 1 + 1
      BY <3>1, FS_Interval, Zenon
    <3> QED BY <3>2, <2>1
  <2>4. IsFiniteSet(keys) /\ Cardinality(keys) <= m
    <3> HIDE DEF keys
    <3> QED BY <2>2, <2>3, FS_Injection
  <2> QED BY <2>4, <1>3, Zenon
<1> QED BY <1>6, <1>7, Zenon

\* The projection of the slots and of the failed probes of W.
SloFrom(W, slots) ==
  LET st == StatusBySlot(OfKind(W, "sample"))
      covered == Cardinality(DOMAIN st)
  IN [missing |-> IF covered < slots THEN slots - covered ELSE 0,
      eligible |-> SlotsWith(st, Eligible),
      available |-> SlotsWith(st, Available),
      errors |-> Failures(W)]

\* project_health_slo: when no sample straddles a boundary, what it reports
\* depends on the sources of the rows and on the length of the window, not on
\* the size of the buckets.
LEMMA SloOfSources ==
  ASSUME SourcesOK, RowsOK(sources, rollups), NEW n, NEW size \in Sizes, NEW from \in Int, NEW to \in Int,
         SloAligned(to, size), NEW W, W = SloSources(n, size, from, to), \A r \in W : ~Straddles(r)
  PROVE  Slo(n, size, from, to) = SloFrom(W, (to - from) \div SlotSeconds)
<1>1. PICK keys : keys = StoredRows(n, size, from, to)
  BY Zenon
<1>2. IsFiniteSet(keys)
  BY <1>1, StoredRowsFit, FS_EmptySet, Zenon
<1>3. keys \subseteq DOMAIN rollups /\ \A k \in keys : k[1] = n /\ k[2] = size
  BY <1>1, Zenon DEF StoredRows
<1>4. W = Watermarks(keys)
  BY <1>1, Zenon DEF SloSources
<1>5. /\ SumCovered(keys) = Cardinality(DOMAIN StatusBySlot(OfKind(W, "sample")))
      /\ \A T \in SUBSET SampleStatuses :
           SumCounts(keys, T) = SlotsWith(StatusBySlot(OfKind(W, "sample")), T)
      /\ SumErrors(keys) = Failures(W)
  BY <1>2, <1>3, <1>4, ColumnSums, Zenon
<1>6. Eligible \in SUBSET SampleStatuses /\ Available \in SUBSET SampleStatuses
  BY Zenon DEF Eligible, Available
<1> QED BY <1>1, <1>5, <1>6, Zenon DEF Slo, Projection, SloFrom

\* The property, from what is stored and what commands hold.
LEMMA StoredRowsAgree == RollupInv => SloAgrees
<1> SUFFICES ASSUME RollupInv PROVE SloAgrees
  BY Zenon
<1>0. SourcesOK /\ RowsOK(sources, rollups) /\ \A k \in DOMAIN rollups : CountersConsistent(rollups[k], k[2])
  BY Zenon DEF RollupInv
<1>1. PICK span : span = RollupBuckets[Len(RollupBuckets)]
  BY Zenon
<1>2. span \in Nat
  <2>1. Len(RollupBuckets) \in DOMAIN RollupBuckets
    BY RollupAssumption
  <2> QED BY <1>1, <2>1, RollupAssumption
<1>3. ASSUME NEW n, NEW size \in Sizes, NEW from \in Int, SloAligned(from + span, size)
      PROVE  SloDefined(n, size, from, from + span)
  <2>1. PICK keys : keys = StoredRows(n, size, from, from + span)
    BY Zenon
  <2>2. from + span \in Int /\ (from + span) - from = span
    BY <1>2
  <2>3. Cardinality(keys) <= span \div size
    <3>1. (IsFiniteSet(keys) /\ Cardinality(keys) <= span \div size) \/ keys = {}
      BY <1>0, <1>3, <2>1, <2>2, StoredRowsFit, Zenon
    <3>2. span \div size \in Nat
      BY <1>2, SizesWhole
    <3> QED BY <3>1, <3>2, FS_EmptySet
  <2>4. \A k \in keys : CountersConsistent(rollups[k], size)
    BY <1>0, <2>1, Zenon DEF StoredRows
  <2> QED BY <2>1, <2>2, <2>3, <2>4, Zenon DEF SloDefined
<1>4. ASSUME NEW n, NEW x \in Sizes, NEW y \in Sizes, NEW from \in Int,
             SloAligned(from + span, x), SloAligned(from + span, y),
             SloSources(n, x, from, from + span) = SloSources(n, y, from, from + span),
             \A r \in SloSources(n, x, from, from + span) : ~Straddles(r)
      PROVE  Slo(n, x, from, from + span) = Slo(n, y, from, from + span)
  <2>1. from + span \in Int
    BY <1>2
  <2>2. PICK to \in Int : to = from + span
    BY <2>1, Zenon
  <2>3. PICK W : W = SloSources(n, x, from, to) /\ W = SloSources(n, y, from, to)
    BY <1>4, <2>2, Zenon
  <2>4. \A r \in W : ~Straddles(r)
    BY <1>4, <2>2, <2>3, Zenon
  <2>5. ASSUME NEW size \in Sizes, SloAligned(to, size), W = SloSources(n, size, from, to)
        PROVE  Slo(n, size, from, to) = SloFrom(W, (to - from) \div SlotSeconds)
    <3>1. SourcesOK /\ RowsOK(sources, rollups)
      BY <1>0, Zenon
    <3> QED BY <2>4, <2>5, <3>1, SloOfSources
  <2>6. SloAligned(to, x) /\ SloAligned(to, y)
    BY <1>4, <2>2, Zenon
  <2>7. Slo(n, x, from, to) = Slo(n, y, from, to)
    BY <2>3, <2>5, <2>6, Zenon
  <2> QED BY <2>2, <2>7, Zenon
<1>5. \A i \in DOMAIN RollupBuckets : RollupBuckets[i] \in Sizes
  BY Zenon DEF Sizes, Range
<1>6. \A from \in 0..MaxSourceTime : from \in Int
  BY RollupAssumption
<1>7. ASSUME NEW w \in Rollers, roller[w] # NoRoll, NEW k \in DOMAIN roller[w].rows,
             \A r \in roller[w].rows[k].watermark : ~Straddles(r)
      PROVE  CountersConsistent(roller[w].rows[k], k[2])
  <2>1. PICK q : q = roller[w]
    BY Zenon
  <2>2. RowsOK(sources, q.rows)
    BY <1>7, <2>1, Zenon DEF RollupInv, RollOK
  <2>3. CellOK(k) /\ Derived(sources, k, q.rows[k])
    BY <1>7, <2>1, <2>2, Zenon DEF RowsOK
  <2> QED BY <1>0, <1>7, <2>1, <2>3, RowConsistent, Zenon
<1>8. RowsAccepted
  BY <1>7, Zenon DEF RowsAccepted
<1> QED BY <1>1, <1>3, <1>4, <1>5, <1>6, <1>8, Zenon DEF SloAgrees

\* Rows stay derived when sources arrive.
LEMMA RowsStay ==
  ASSUME NEW src, NEW more, src \subseteq more, NEW rows, RowsOK(src, rows)
  PROVE  RowsOK(more, rows)
<1>1. \A k : OfCell(src, k) \subseteq OfCell(more, k)
  BY Zenon DEF OfCell
<1>2. \A k \in DOMAIN rows : Derived(more, k, rows[k])
  BY <1>1, Zenon DEF RowsOK, Derived
<1> QED BY <1>2, Zenon DEF RowsOK

\* What a command holds stays derived when sources arrive.
LEMMA RollStays ==
  ASSUME NEW src, NEW more, src \subseteq more, NEW r, RollOK(src, r)
  PROVE  RollOK(more, r)
<1>1. CASE r = NoRoll
  BY <1>1, Zenon DEF RollOK
<1>2. CASE r # NoRoll
  <2>1. RowsOK(more, r.rows)
    BY <1>2, RowsStay, Zenon DEF RollOK
  <2>2. OfKind(OfCell(src, r.cell), "sample") \subseteq OfKind(OfCell(more, r.cell), "sample")
    BY Zenon DEF OfKind, OfCell
  <2> QED BY <1>2, <2>1, <2>2, Zenon DEF RollOK
<1> QED BY <1>1, <1>2, Zenon

\* A command under way, by its step.
LEMMA RollFields ==
  ASSUME NEW src, NEW r, RollOK(src, r), r.step \in {"list", "history", "probes"}
  PROVE  /\ r \in [step : {"list", "history", "probes"}, windows : Seq(Windows) \ {<<>>},
                    nodes : SUBSET RollupNodes, rows : {r.rows}, cell : {r.cell},
                    samples : {r.samples}]
         /\ r.windows \in Seq(Windows) /\ r.windows # <<>>
         /\ r.nodes \in SUBSET RollupNodes
         /\ RowsOK(src, r.rows)
         /\ r.step = "probes" =>
              CellOK(r.cell) /\ r.samples \subseteq OfKind(OfCell(src, r.cell), "sample")
<1>1. r # NoRoll
  BY DEF NoRoll
<1> QED BY <1>1, Zenon DEF RollOK

\* A state of a command, from its fields.
LEMMA RollMade ==
  ASSUME NEW src, NEW rows, RowsOK(src, rows), NEW cell, NEW samples, NEW r,
         r \in [step : {"list", "history"}, windows : Seq(Windows) \ {<<>>},
                nodes : SUBSET RollupNodes, rows : {rows}, cell : {cell}, samples : {samples}]
  PROVE  RollOK(src, r)
<1>1. /\ r.step \in {"list", "history"} /\ r.rows = rows /\ r.cell = cell
      /\ r.samples = samples
  BY Zenon
<1>2. r \in [step : {"list", "history", "probes"}, windows : Seq(Windows) \ {<<>>},
             nodes : SUBSET RollupNodes, rows : {r.rows}, cell : {r.cell}, samples : {r.samples}]
  BY <1>1, Zenon
<1> QED BY <1>1, <1>2, Zenon DEF RollOK

\* A command that has built no row has none to be wrong.
LEMMA NoRows == \A src : RowsOK(src, <<>>)
BY DEF RowsOK

\* Only the command w moved.
LEMMA OneRoller ==
  ASSUME RollupInv, NEW w \in Rollers, NEW r, roller' = [roller EXCEPT ![w] = r],
         RollOK(sources, r), UNCHANGED <<sources, rollups>>
  PROVE  RollupInv'
<1>1. DOMAIN roller' = Rollers /\ \A v \in Rollers : roller'[v] = IF v = w THEN r ELSE roller[v]
  BY Zenon DEF RollupInv
<1>2. \A v \in Rollers : RollOK(sources', roller'[v])
  BY <1>1, Zenon DEF RollupInv
<1>3. SourcesOK' /\ RowsOK(sources', rollups')
  BY Zenon DEF RollupInv, SourcesOK
<1> QED BY <1>1, <1>2, <1>3, Zenon DEF RollupInv

\* The windows of a refresh and of a recompute.
LEMMA WindowsMade ==
  /\ \A at \in Int : ClosedWindows(at) \in Seq(Windows) /\ ClosedWindows(at) # <<>>
  /\ \A size \in Sizes, from, to \in Int, only \in SUBSET RollupNodes, id \in RecomputeIds :
       LET ws == <<Window(size, from, to, only, [source |-> "operator", id |-> id])>>
       IN  ws \in Seq(Windows) /\ ws # <<>>
<1>1. \A size \in Sizes : size \in Nat \ {0}
  BY SizesWhole, Zenon
<1>2. ASSUME NEW at \in Int PROVE ClosedWindows(at) \in Seq(Windows) /\ ClosedWindows(at) # <<>>
  <2>1. PICK n \in Nat : n = Len(RollupBuckets) /\ DOMAIN RollupBuckets = 1..n /\ n # 0
    BY RollupAssumption
  <2>2. \A i \in 1..n : RollupBuckets[i] \in Sizes
    BY <2>1, Zenon DEF Sizes, Range
  <2>3. \A i \in 1..n : ClosedWindows(at)[i] \in Windows
    <3> TAKE i \in 1..n
    <3>1. PICK size \in Sizes : size = RollupBuckets[i]
      BY <2>2, Zenon
    <3>2. Floor(at, size) \in Int
      BY <1>1 DEF Floor
    <3>3. ClosedWindows(at)[i]
            = Window(size, Floor(at, size) - size, Floor(at, size), {}, NoRollOp)
      BY <3>1, <2>1, Zenon DEF ClosedWindows
    <3> QED BY <3>2, <3>3, <1>1 DEF Window, Windows
  <2>4. ClosedWindows(at) = [i \in 1..n |-> ClosedWindows(at)[i]]
    BY <2>1, Zenon DEF ClosedWindows
  <2>5. ClosedWindows(at) \in [1..n -> Windows]
    BY <2>3, <2>4, Zenon
  <2>6. ClosedWindows(at) \in Seq(Windows) /\ DOMAIN ClosedWindows(at) = 1..n
    BY <2>5
  <2> QED BY <2>1, <2>6
<1>3. ASSUME NEW size \in Sizes, NEW from \in Int, NEW to \in Int, NEW only \in SUBSET RollupNodes,
             NEW id \in RecomputeIds
      PROVE  Window(size, from, to, only, [source |-> "operator", id |-> id]) \in Windows
  BY Zenon DEF Window, Windows
<1>4. ASSUME NEW x \in Windows PROVE <<x>> \in Seq(Windows) /\ <<x>> # <<>>
  OBVIOUS
<1> QED BY <1>2, <1>3, <1>4, Zenon

\* A command begins with its windows and no row.
LEMMA RollBeginsKeeps ==
  ASSUME RollupInv, NEW w \in Rollers, NEW windows \in Seq(Windows), windows # <<>>,
         RollBegins(w, windows)
  PROVE  RollupInv'
<1>1. PICK r : r = [step |-> "list", windows |-> windows, nodes |-> {}, rows |-> <<>>,
                    cell |-> <<>>, samples |-> {}]
  BY Zenon
<1>2. roller' = [roller EXCEPT ![w] = r] /\ UNCHANGED <<sources, rollups>>
  BY <1>1, Zenon DEF RollBegins
<1>3. r \in [step : {"list", "history"}, windows : Seq(Windows) \ {<<>>},
             nodes : SUBSET RollupNodes, rows : {<<>>}, cell : {<<>>}, samples : {{}}]
  BY <1>1, Zenon
<1>4. RollOK(sources, r)
  BY <1>3, RollMade, NoRows, Zenon
<1> QED BY <1>2, <1>4, OneRoller, Zenon

\* health_rollup_node_ids: the nodes of the window's sources, or the one asked for.
LEMMA ListsSourcesKeeps ==
  ASSUME RollupInv, NEW w \in Rollers, ListsSources(w)
  PROVE  RollupInv'
<1>1. PICK r : r = roller[w]
  BY Zenon
<1>2. PICK nodes : nodes = IF RollWindow(w).only = {}
                           THEN SourceNodes(RollWindow(w).from, RollWindow(w).to)
                           ELSE RollWindow(w).only
  BY Zenon
<1>3. r.step = "list" /\ RollOK(sources, r) /\ w \in DOMAIN roller
  BY <1>1, Zenon DEF ListsSources, RollAt, RollupInv
<1>4. /\ r \in [step : {"list", "history", "probes"}, windows : Seq(Windows) \ {<<>>},
                 nodes : SUBSET RollupNodes, rows : {r.rows}, cell : {r.cell},
                 samples : {r.samples}]
      /\ r.windows \in Seq(Windows) /\ r.windows # <<>>
  BY <1>3, RollFields, Zenon
<1>5. nodes \in SUBSET RollupNodes
  <2>1. RollWindow(w) \in Windows
    BY <1>1, <1>4 DEF RollWindow
  <2>2. RollWindow(w).only \in SUBSET RollupNodes
    BY <2>1, Zenon DEF Windows
  <2>3. \A from, to : SourceNodes(from, to) \in SUBSET RollupNodes
    BY Zenon DEF SourceNodes, RollupInv, SourcesOK, Source
  <2> QED BY <2>2, <2>3, <1>2, Zenon
<1>6. PICK q : q = [r EXCEPT !.step = "history", !.rows = <<>>, !.nodes = nodes]
  BY Zenon
<1>7. roller' = [roller EXCEPT ![w] = q]
  BY <1>1, <1>2, <1>6, Zenon DEF ListsSources
<1>8. q \in [step : {"list", "history"}, windows : Seq(Windows) \ {<<>>},
             nodes : SUBSET RollupNodes, rows : {<<>>}, cell : {r.cell}, samples : {r.samples}]
  BY <1>4, <1>5, <1>6, Zenon
<1>9. RollOK(sources, q)
  BY <1>8, RollMade, NoRows, Zenon
<1> QED BY <1>7, <1>9, OneRoller, Zenon DEF ListsSources

\* The cells of a window are buckets of its size.
LEMMA CellsLeftOK ==
  ASSUME RollupInv, NEW w \in Rollers, RollAt(w, "history"), NEW cell \in CellsLeft(w)
  PROVE  CellOK(cell)
<1>1. PICK r : r = roller[w]
  BY Zenon
<1>2. r.step = "history" /\ RollOK(sources, r)
  BY <1>1, Zenon DEF RollAt, RollupInv
<1>3. r.windows \in Seq(Windows) /\ r.windows # <<>> /\ r.nodes \in SUBSET RollupNodes
  BY <1>2, RollFields, Zenon
<1>4. PICK win \in Windows : win = RollWindow(w)
  BY <1>1, <1>3 DEF RollWindow
<1>5. win.size \in Sizes /\ win.from \in Int /\ win.to \in Int
  BY <1>4, Zenon DEF Windows
<1>6. PICK n \in r.nodes, s \in {s \in win.from..(win.to - 1) : s % win.size = 0} :
        cell = <<n, win.size, s>>
  BY <1>1, <1>4 DEF CellsLeft
<1>7. s \in Int /\ s % win.size = 0
  BY <1>5, <1>6
<1> QED BY <1>3, <1>5, <1>6, <1>7, Zenon DEF CellOK, Cell

\* The first query of a cell: the evaluations within the cell.
LEMMA ReadsHistoryKeeps ==
  ASSUME RollupInv, NEW w \in Rollers, NEW cell \in CellsLeft(w), ReadsHistory(w, cell)
  PROVE  RollupInv'
<1>1. PICK r : r = roller[w]
  BY Zenon
<1>2. r.step = "history" /\ RollOK(sources, r) /\ RollAt(w, "history")
  BY <1>1, Zenon DEF ReadsHistory, RollAt, RollupInv
<1>3. /\ r \in [step : {"list", "history", "probes"}, windows : Seq(Windows) \ {<<>>},
                 nodes : SUBSET RollupNodes, rows : {r.rows}, cell : {r.cell},
                 samples : {r.samples}]
      /\ RowsOK(sources, r.rows)
  BY <1>2, RollFields, Zenon
<1>4. CellOK(cell)
  BY <1>2, CellsLeftOK, Zenon
<1>5. PICK rs : rs = SourceRows("sample", cell[1], cell[3], cell[3] + cell[2])
  BY Zenon
<1>6. rs \subseteq OfKind(OfCell(sources, cell), "sample")
  BY <1>5, Zenon DEF SourceRows, OfKind, OfCell
<1>7. PICK q : q = [r EXCEPT !.step = "probes", !.cell = cell, !.samples = rs]
  BY Zenon
<1>8. roller' = [roller EXCEPT ![w] = q]
  BY <1>1, <1>5, <1>7, Zenon DEF ReadsHistory
<1>9. /\ q \in [step : {"list", "history", "probes"}, windows : Seq(Windows) \ {<<>>},
               nodes : SUBSET RollupNodes, rows : {r.rows}, cell : {cell}, samples : {rs}]
      /\ q.rows = r.rows /\ q.cell = cell /\ q.samples = rs
  BY <1>3, <1>7, Zenon
<1>10. RollOK(sources, q)
  BY <1>3, <1>4, <1>6, <1>9, Zenon DEF RollOK
<1> QED BY <1>8, <1>10, OneRoller, Zenon DEF ReadsHistory

\* build_health_rollup makes a row of what the two queries returned.
LEMMA ReadsProbesKeeps ==
  ASSUME RollupInv, NEW w \in Rollers, ReadsProbes(w)
  PROVE  RollupInv'
<1>1. PICK r : r = roller[w]
  BY Zenon
<1>2. r.step = "probes" /\ RollOK(sources, r)
  BY <1>1, Zenon DEF ReadsProbes, RollAt, RollupInv
<1>3. /\ r \in [step : {"list", "history", "probes"}, windows : Seq(Windows) \ {<<>>},
                 nodes : SUBSET RollupNodes, rows : {r.rows}, cell : {r.cell},
                 samples : {r.samples}]
      /\ RowsOK(sources, r.rows)
      /\ CellOK(r.cell) /\ r.samples \subseteq OfKind(OfCell(sources, r.cell), "sample")
  BY <1>2, RollFields, Zenon
<1>4. PICK cell : cell = r.cell
  BY Zenon
<1>5. PICK probes : probes = SourceRows("probe", cell[1], cell[3], cell[3] + cell[2])
  BY Zenon
<1>6. PICK row : row = BuildRollup(cell[2], r.samples, probes)
  BY Zenon
<1>7. PICK rows : rows = [k \in DOMAIN r.rows \cup {cell} |-> IF k = cell THEN row ELSE r.rows[k]]
  BY Zenon
<1>8. Derived(sources, cell, row)
  <2>1. row.watermark = r.samples \cup probes
    BY <1>6, Zenon DEF BuildRollup
  <2>2. probes \subseteq OfCell(sources, cell) /\ \A x \in probes : x.kind = "probe"
    BY <1>5, Zenon DEF SourceRows, OfCell
  <2>3. r.samples \subseteq OfCell(sources, cell) /\ \A x \in r.samples : x.kind = "sample"
    BY <1>3, <1>4, Zenon DEF OfKind
  <2>4. OfKind(row.watermark, "sample") = r.samples /\ OfKind(row.watermark, "probe") = probes
    BY <2>1, <2>2, <2>3, Zenon DEF OfKind
  <2> QED BY <2>1, <2>2, <2>3, <2>4, <1>6, Zenon DEF Derived
<1>9. RowsOK(sources, rows)
  BY <1>3, <1>4, <1>7, <1>8, Zenon DEF RowsOK
<1>10. PICK q : q = [r EXCEPT !.step = "history", !.cell = <<>>, !.samples = {}, !.rows = rows]
  BY Zenon
<1>11. roller' = [roller EXCEPT ![w] = q]
  BY <1>1, <1>4, <1>5, <1>6, <1>7, <1>10, Zenon DEF ReadsProbes
<1>12. q \in [step : {"list", "history"}, windows : Seq(Windows) \ {<<>>},
              nodes : SUBSET RollupNodes, rows : {rows}, cell : {<<>>}, samples : {{}}]
  BY <1>3, <1>10, Zenon
<1>13. RollOK(sources, q)
  BY <1>9, <1>12, RollMade, Zenon
<1> QED BY <1>11, <1>13, OneRoller, Zenon DEF ReadsProbes

\* The next window of a command, or its end.
LEMMA NextWindowOK ==
  ASSUME RollupInv, NEW w \in Rollers, RollAt(w, "history"), NextWindow(w)
  PROVE  \E q : roller' = [roller EXCEPT ![w] = q] /\ RollOK(sources, q)
<1>1. PICK r : r = roller[w]
  BY Zenon
<1>2. r.step = "history" /\ RollOK(sources, r)
  BY <1>1, Zenon DEF RollAt, RollupInv
<1>3. /\ r \in [step : {"list", "history", "probes"}, windows : Seq(Windows) \ {<<>>},
                 nodes : SUBSET RollupNodes, rows : {r.rows}, cell : {r.cell},
                 samples : {r.samples}]
      /\ r.windows \in Seq(Windows) /\ r.windows # <<>>
  BY <1>2, RollFields, Zenon
<1>4. PICK left : left = Tail(r.windows)
  BY Zenon
<1>5. left \in Seq(Windows)
  BY <1>3, <1>4
<1>6. CASE left = <<>>
  <2>1. roller' = [roller EXCEPT ![w] = NoRoll]
    BY <1>1, <1>4, <1>6, Zenon DEF NextWindow
  <2> QED BY <2>1, Zenon DEF RollOK
<1>7. CASE left # <<>>
  <2>1. PICK q : q = [r EXCEPT !.step = "list", !.windows = left, !.rows = <<>>, !.nodes = {}]
    BY Zenon
  <2>2. roller' = [roller EXCEPT ![w] = q]
    BY <1>1, <1>4, <1>7, <2>1, Zenon DEF NextWindow
  <2>3. q \in [step : {"list", "history"}, windows : Seq(Windows) \ {<<>>},
               nodes : SUBSET RollupNodes, rows : {<<>>}, cell : {r.cell}, samples : {r.samples}]
    BY <1>3, <1>5, <1>7, <2>1, Zenon
  <2>4. RollOK(sources, q)
    BY <2>3, RollMade, NoRows, Zenon
  <2> QED BY <2>2, <2>4, Zenon
<1> QED BY <1>6, <1>7, Zenon

\* A window without a source writes nothing and goes on.
LEMMA NoSourceKeeps ==
  ASSUME RollupInv, NEW w \in Rollers, NoSource(w)
  PROVE  RollupInv'
<1>1. PICK q : roller' = [roller EXCEPT ![w] = q] /\ RollOK(sources, q)
  BY NextWindowOK, Zenon DEF NoSource
<1> QED BY <1>1, OneRoller, Zenon DEF NoSource

\* write_health_rollups: new rows replace those of their cells, a replay and a
\* refused write replace none.
LEMMA WritesRollupsKeeps ==
  ASSUME RollupInv, NEW w \in Rollers, WritesRollups(w)
  PROVE  RollupInv'
<1>1. PICK rows : rows = roller[w].rows
  BY Zenon
<1>2. RowsOK(sources, rows)
  <2>1. PICK r : r = roller[w]
    BY Zenon
  <2>2. r.step = "history" /\ RollOK(sources, r)
    BY <2>1, Zenon DEF WritesRollups, RollAt, RollupInv
  <2> QED BY <2>1, <2>2, <1>1, RollFields, Zenon
<1>3. PICK q : roller' = [roller EXCEPT ![w] = q] /\ RollOK(sources, q)
  <2>1. CASE NextWindow(w)
    BY <2>1, NextWindowOK, Zenon DEF WritesRollups
  <2>2. CASE roller' = [roller EXCEPT ![w] = NoRoll]
    BY <2>2, Zenon DEF RollOK
  <2> QED BY <2>1, <2>2, Zenon DEF WritesRollups
<1>4. /\ UNCHANGED sources
      /\ \/ rollups' = rollups
         \/ /\ rollups' = UpsertRollups(rows)
            /\ \A k \in DOMAIN rows : CountersConsistent(rows[k], k[2])
  BY <1>1, Zenon DEF WritesRollups
<1>9. \A k \in DOMAIN rollups' : CountersConsistent(rollups'[k], k[2])
  <2>1. PICK old : old = rollups /\ \A k \in DOMAIN old : CountersConsistent(old[k], k[2])
    BY Zenon DEF RollupInv
  <2>2. PICK new : new = UpsertRollups(rows)
    BY Zenon
  <2>3. /\ DOMAIN new = DOMAIN old \cup DOMAIN rows
        /\ \A k \in DOMAIN new : new[k] = IF k \in DOMAIN rows THEN rows[k] ELSE old[k]
    BY <2>1, <2>2, Zenon DEF UpsertRollups
  <2>4. CASE rollups' = old
    BY <2>1, <2>4, Zenon
  <2>5. CASE rollups' = new /\ \A k \in DOMAIN rows : CountersConsistent(rows[k], k[2])
    <3>1. \A k \in DOMAIN new : CountersConsistent(new[k], k[2])
      BY <2>1, <2>3, <2>5, Zenon
    <3> QED BY <2>5, <3>1, Zenon
  <2> QED BY <1>4, <2>1, <2>2, <2>4, <2>5, Zenon
<1>5. RowsOK(sources', rollups')
  <2>1. RowsOK(sources, rollups)
    BY Zenon DEF RollupInv
  <2>2. RowsOK(sources, UpsertRollups(rows))
    BY <2>1, <1>2, Zenon DEF UpsertRollups, RowsOK
  <2> QED BY <2>1, <2>2, <1>4, Zenon
<1>6. DOMAIN roller' = Rollers /\ \A v \in Rollers : roller'[v] = IF v = w THEN q ELSE roller[v]
  BY <1>3, Zenon DEF RollupInv
<1>7. \A v \in Rollers : RollOK(sources', roller'[v])
  BY <1>3, <1>4, <1>6, Zenon DEF RollupInv
<1>8. SourcesOK'
  BY <1>4, Zenon DEF RollupInv, SourcesOK
<1> QED BY <1>5, <1>6, <1>7, <1>8, <1>9, Zenon DEF RollupInv

\* A source is added.
LEMMA SourceArrivesKeeps ==
  ASSUME RollupInv, NEW n \in RollupNodes, NEW at \in Nat, NEW kind, NEW frac \in {0, 1}, NEW value,
         \/ kind = "sample" /\ value \in SampleStatuses
         \/ kind = "probe" /\ value \in ProbeResults,
         SourceArrives(kind, n, at, frac, value)
  PROVE  RollupInv'
<1>1. PICK r : r = [kind |-> kind, key |-> Cardinality(sources), node |-> n, at |-> at,
                    frac |-> frac, value |-> value]
  BY Zenon
<1>2. sources' = sources \cup {r} /\ UNCHANGED <<rollups, roller>>
  BY <1>1, Zenon DEF SourceArrives
<1>3. SourcesOK
  BY Zenon DEF RollupInv
<1>4. Cardinality(sources) \in Nat
  BY <1>3, FS_CardinalityType, Zenon DEF SourcesOK
<1>5. r \in Source /\ (r.kind = "sample" => r.value \in SampleStatuses)
  BY <1>1, <1>4, Zenon DEF Source
<1>6. IsFiniteSet(sources')
  BY <1>2, <1>3, FS_AddElement, Zenon DEF SourcesOK
<1>7. SourcesOK'
  BY <1>2, <1>3, <1>5, <1>6, Zenon DEF SourcesOK
<1>8. sources \subseteq sources'
  BY <1>2, Zenon
<1>9. RowsOK(sources', rollups')
  <2>1. PICK src, more, rows : src = sources /\ more = sources' /\ rows = rollups
    BY Zenon
  <2>2. RowsOK(more, rows)
    BY <2>1, <1>8, RowsStay, Zenon DEF RollupInv
  <2> QED BY <2>1, <2>2, <1>2, Zenon
<1>10. \A w \in Rollers : RollOK(sources', roller'[w])
  <2> TAKE w \in Rollers
  <2>1. PICK src, more, q : src = sources /\ more = sources' /\ q = roller[w]
    BY Zenon
  <2>2. RollOK(more, q)
    BY <2>1, <1>8, RollStays, Zenon DEF RollupInv
  <2> QED BY <2>1, <2>2, <1>2, Zenon
<1> QED BY <1>2, <1>7, <1>9, <1>10, Zenon DEF RollupInv

\* A database without sources has no rows, and no command runs.
LEMMA RollupStarts == RollupInit => RollupInv
<1> SUFFICES ASSUME RollupInit PROVE RollupInv
  BY Zenon
<1>1. SourcesOK
  BY FS_EmptySet, Zenon DEF RollupInit, SourcesOK
<1>2. RowsOK(sources, rollups)
  BY NoRows, Zenon DEF RollupInit
<1>3. DOMAIN rollups = {}
  BY DEF RollupInit
<1> QED BY <1>1, <1>2, <1>3, Zenon DEF RollupInit, RollupInv, RollOK

\* Every step of a rollup command, and every source that arrives, keeps the
\* invariant.
LEMMA RollupStep == RollupInv /\ [RollupNext]_rollupVars => RollupInv'
<1> SUFFICES ASSUME RollupInv, [RollupNext]_rollupVars PROVE RollupInv'
  BY Zenon
<1>1. ASSUME NEW w \in Rollers, RollerStep(w) PROVE RollupInv'
  <2>1. ASSUME NEW at \in 1..(MaxSourceTime + 1), RefreshBegins(w, at) PROVE RollupInv'
    <3>1. at \in Int
      OBVIOUS
    <3>2. ClosedWindows(at) \in Seq(Windows) /\ ClosedWindows(at) # <<>>
      BY <3>1, WindowsMade, Zenon
    <3> QED BY <3>2, <2>1, RollBeginsKeeps, Zenon DEF RefreshBegins
  <2>2. ASSUME NEW size \in Range(RollupBuckets), NEW from \in 0..(MaxSourceTime + 1),
               NEW to \in 0..(MaxSourceTime + 1), NEW only \in SUBSET RollupNodes,
               NEW id \in RecomputeIds, RecomputeBegins(w, size, from, to, only, id)
        PROVE  RollupInv'
    <3>1. PICK ws : ws = <<Window(size, from, to, only, [source |-> "operator", id |-> id])>>
      BY Zenon
    <3>2. from \in Int /\ to \in Int /\ size \in Sizes
      BY DEF Sizes
    <3>3. ws \in Seq(Windows) /\ ws # <<>>
      BY <3>1, <3>2, WindowsMade, Zenon
    <3>4. RollBegins(w, ws)
      BY <3>1, <2>2, Zenon DEF RecomputeBegins
    <3> QED BY <3>3, <3>4, RollBeginsKeeps, Zenon
  <2>3. CASE ListsSources(w)
    BY <2>3, ListsSourcesKeeps, Zenon
  <2>4. CASE ReadsProbes(w)
    BY <2>4, ReadsProbesKeeps, Zenon
  <2>5. CASE NoSource(w)
    BY <2>5, NoSourceKeeps, Zenon
  <2>6. CASE WritesRollups(w)
    BY <2>6, WritesRollupsKeeps, Zenon
  <2>7. ASSUME NEW cell \in CellsLeft(w), ReadsHistory(w, cell) PROVE RollupInv'
    BY <2>7, ReadsHistoryKeeps, Zenon
  <2> QED BY <1>1, <2>1, <2>2, <2>3, <2>4, <2>5, <2>6, <2>7, Zenon DEF RollerStep
<1>2. ASSUME NEW n \in RollupNodes, NEW at \in SourceTimes, NEW frac \in {0, 1},
             \/ \E s \in SampleStatuses : SourceArrives("sample", n, at, frac, s)
             \/ \E r \in ProbeResults : SourceArrives("probe", n, at, frac, r)
      PROVE  RollupInv'
  <2>1. at \in Nat
    BY RollupAssumption
  <2> QED BY <1>2, <2>1, SourceArrivesKeeps, Zenon
<1>3. CASE UNCHANGED rollupVars
  BY <1>3, Zenon DEF rollupVars, RollupInv, SourcesOK
<1> QED BY <1>1, <1>2, <1>3, Zenon DEF RollupNext

\* The rollup commands: every row, stored or about to be, is what
\* build_health_rollup derives from sources of its cell, and a stored row has
\* consistent counters, however commands and arriving sources interleave.
THEOREM RollupInvariant == RollupSpec => []RollupInv
BY RollupStarts, RollupStep, PTL DEF RollupSpec

\* slo.rs: for every set of bucket sizes that hold whole slots, and samples
\* with and without a fraction, a projection of stored rows never fails; two
\* sizes derived from the same sources, of which no sample straddles a slot
\* boundary, give the same missing, eligible and available time and the same
\* errors; and rows of such sources are never refused.
THEOREM SloProjectionsAgree == RollupSpec => []SloAgrees
BY StoredRowsAgree, RollupInvariant, PTL
=============================================================================
