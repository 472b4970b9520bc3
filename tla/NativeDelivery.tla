--------------------------- MODULE NativeDelivery ---------------------------
(***************************************************************************)
(* Alerts and their delivery queue on the native Postgres store            *)
(* (crates/ocfleet-cli/src/postgres_native.rs).  AlertDelivery has the     *)
(* same tables on SQLite, where a store call is one step.  Here a call is  *)
(* a READ COMMITTED transaction of several statements, each of which takes *)
(* the row and table locks Postgres takes for it and keeps them to the     *)
(* end; retention locks whole tables, claims skip locked rows, and a lease *)
(* is compared with the clock of the database.                             *)
(*                                                                         *)
(* What a transaction writes becomes visible when it commits.  A refused   *)
(* call, a broken connection and the victim of a deadlock all roll back.   *)
(* A call repeated after its answer was lost finds its own audit event (or *)
(* queue row, or retention operation) and changes nothing: it is left out. *)
(*                                                                         *)
(* Callers are the passes of alerts.rs.  The rows they computed and the    *)
(* claims they were given stay theirs, and may be used at any later time.  *)
(***************************************************************************)
EXTENDS Integers, Sequences, FiniteSets

CONSTANTS
  DeliverySessions,  \* connections
  AlertKeys,         \* dedupe keys
  Webhooks,          \* registered hooks
  NoRow,
  SendTimes,         \* timestamps callers take when a send is complete
  AttemptLimit,      \* hook.max_attempts
  MaxAlertWrites,    \* bound: alert writes computed by callers
  MaxDeliveryFence,  \* bound: claims of one delivery
  MaxRenewals        \* bound: renewals of one claim

\* The columns of alert_events that matter here.  sent stands for last_sent_at,
\* 0 for none.
NativeAlertRow == [id : Nat, state : {"open", "silenced", "resolved"}, seen : Nat, sent : Nat]

ASSUME NativeDeliveryAssumption ==
  /\ NoRow \notin NativeAlertRow
  /\ SendTimes \subseteq Nat \ {0}
  /\ {AttemptLimit, MaxAlertWrites, MaxDeliveryFence, MaxRenewals} \subseteq Nat

VARIABLES
  alertRow,    \* alert_events, by dedupe key
  hooksOn,     \* alert_hooks with enabled
  delivery,    \* alert_delivery_queue, a function of the rows present
  outcomes,    \* alert_delivery_attempts of each delivery, in order
  claims,      \* claims returned to callers
  prepared,    \* alert writes callers have computed and not yet made
  writes,      \* alert writes computed so far; numbers rows and timestamps
  deliveryTx   \* session -> its transaction

deliveryVars == <<alertRow, hooksOn, delivery, outcomes, claims, prepared, writes, deliveryTx>>

Open == [op |-> "none", at |-> 1, held |-> {}, arg |-> NoRow, todo |-> {}, found |-> NoRow]

NewDelivery == [status |-> "pending", count |-> 0, fence |-> 0, lease |-> 0,
                late |-> FALSE, due |-> TRUE]

NativeDeliveryInit ==
  /\ alertRow = [k \in AlertKeys |-> NoRow]
  /\ hooksOn = Webhooks
  /\ delivery = [d \in {} |-> NewDelivery]
  /\ outcomes = [d \in {} |-> <<>>]
  /\ claims = {}
  /\ prepared = {}
  /\ writes = 0
  /\ deliveryTx = [s \in DeliverySessions |-> Open]

-----------------------------------------------------------------------------
(* Locks.  A lock is <<object, mode>>.                                      *)

\* Row locks: FOR KEY SHARE (a foreign key), FOR SHARE, FOR NO KEY UPDATE (an
\* UPDATE) and FOR UPDATE (also a DELETE and an upsert).  Table locks: ROW
\* EXCLUSIVE (any write) and SHARE ROW EXCLUSIVE.
Conflicting ==
  {{"key_share", "update"}, {"share", "no_key_update"}, {"share", "update"},
   {"no_key_update"}, {"no_key_update", "update"}, {"update"},
   {"row_exclusive", "share_row_exclusive"}, {"share_row_exclusive"}}

Grantable(s, locks) ==
  \A o \in DeliverySessions \ {s} : \A h \in deliveryTx[o].held, l \in locks :
    h[1] = l[1] => {h[2], l[2]} \notin Conflicting

AlertLock(k, mode) == <<<<"alert", k>>, mode>>
DeliveryLock(d) == <<<<"delivery", d>>, "update">>
HookLock(h, mode) == <<<<"hook", h>>, mode>>
TableLock(t, mode) == <<<<"table", t>>, mode>>
Writing(t) == TableLock(t, "row_exclusive")

\* lock_native_operation_tx: an advisory lock on the call's identity.
OperationLock(call, id) == <<<<call, id>>, "update">>

\* A statement waits for its locks, and leaves the transaction's record as rec.
Statement(s, op, at, locks, rec) ==
  /\ deliveryTx[s].op = op /\ deliveryTx[s].at = at
  /\ Grantable(s, locks)
  /\ deliveryTx' = [deliveryTx EXCEPT ![s] = [rec EXCEPT !.held = @ \cup locks]]
  /\ UNCHANGED <<alertRow, hooksOn, delivery, outcomes, claims, prepared, writes>>

Begins(s, op, arg, todo, locks) ==
  /\ deliveryTx[s] = Open
  /\ Grantable(s, locks)
  /\ deliveryTx' = [deliveryTx EXCEPT ![s] =
       [Open EXCEPT !.op = op, !.arg = arg, !.todo = todo, !.held = locks]]
  /\ UNCHANGED <<alertRow, hooksOn, delivery, outcomes, claims, prepared, writes>>

\* The last statement and COMMIT.
Commits(s, op, at, locks) ==
  /\ deliveryTx[s].op = op /\ deliveryTx[s].at = at
  /\ Grantable(s, locks)
  /\ deliveryTx' = [deliveryTx EXCEPT ![s] = Open]

DeliveryRollsBack(s) ==
  /\ deliveryTx[s] # Open
  /\ deliveryTx' = [deliveryTx EXCEPT ![s] = Open]
  /\ UNCHANGED <<alertRow, hooksOn, delivery, outcomes, claims, prepared, writes>>

-----------------------------------------------------------------------------
(* Alert writes: evaluation, operator transition, manual delivery.          *)

\* candidate_record: a new alert gets an identity of its own; a silence is kept
\* until it has run out.
EvaluatedRow(k, lapsed) ==
  IF alertRow[k] = NoRow
  THEN [id |-> writes + 1, state |-> "open", seen |-> writes + 1, sent |-> 0]
  ELSE [alertRow[k] EXCEPT !.state = IF @ = "silenced" /\ ~lapsed THEN @ ELSE "open",
                           !.seen = writes + 1]

\* The row an evaluation, a transition or a manual delivery leaves.
AfterRow(kind, k, at) ==
  CASE kind = "evaluate" -> EvaluatedRow(k, FALSE)
    [] kind = "lapsed" -> EvaluatedRow(k, TRUE)
    [] kind = "silence" -> [alertRow[k] EXCEPT !.state = "silenced"]
    [] kind = "resolve" -> [alertRow[k] EXCEPT !.state = "resolved", !.seen = writes + 1]
    [] kind = "deliver" -> [alertRow[k] EXCEPT !.sent = at]

\* The time a caller took when its send was complete, if there was one.  It is
\* the caller's clock, and the order of commits is not its order.
CompletedAt(sent) == IF sent THEN SendTimes ELSE {0}

\* A caller reads the alerts and computes the rows it will ask to be written;
\* only an evaluation may find no row.
ComputesWrite(kind, keys, at) ==
  /\ writes < MaxAlertWrites
  /\ kind # "evaluate" => \A k \in keys : alertRow[k] # NoRow
  /\ kind = "deliver" => \A k \in keys : alertRow[k].state = "open"
  /\ kind \in {"silence", "resolve"} => Cardinality(keys) = 1
  /\ writes' = writes + 1
  /\ prepared' = prepared \cup {[number |-> writes + 1, at |-> at,
       before |-> [k \in keys |-> alertRow[k]], after |-> [k \in keys |-> AfterRow(kind, k, at)]]}
  /\ UNCHANGED <<alertRow, hooksOn, delivery, outcomes, claims, deliveryTx>>

\* write_alert_evaluation, write_alert_state_transition and
\* write_alert_delivery_finalize all begin with native_audit_replay_tx.
BeginsWrite(s, w) ==
  Begins(s, "write", w, DOMAIN w.before, {OperationLock("write", w.number)})

\* The entry's row is locked and compared with the row the caller read.  Where
\* there is no row FOR UPDATE locks nothing, and does not wait for another
\* session's uncommitted one.
ReadsEntry(s, k) ==
  LET x == deliveryTx[s] IN
  /\ x.op = "write" /\ k \in x.todo
  /\ alertRow[k] = x.arg.before[k]
  /\ Statement(s, "write", 1, IF alertRow[k] = NoRow THEN {} ELSE {AlertLock(k, "update")},
               [x EXCEPT !.at = 2, !.found = k])

\* Deliveries and attempts refer to the alert by alert_id.
Referenced(k) == \E d \in DOMAIN delivery : d.key = k /\ d.id = alertRow[k].id

\* After the last entry: all rows, and the audit event that makes a repetition
\* of the call a replay.
CommitsWrite(s, locks) ==
  LET w == deliveryTx[s].arg IN
  /\ Commits(s, "write", 2, locks)
  /\ alertRow' = [k \in AlertKeys |-> IF k \in DOMAIN w.after THEN w.after[k] ELSE alertRow[k]]
  /\ prepared' = prepared \ {w}
  /\ UNCHANGED <<hooksOn, delivery, outcomes, claims, writes>>

\* INSERT ... ON CONFLICT (dedupe_key) DO UPDATE: waits for an uncommitted row
\* with this key, and replaces a committed one whatever it is, its alert_id
\* included unless something refers to that.
UpsertsEntry(s) ==
  LET x == deliveryTx[s]
      k == x.found
      locks == {Writing("alerts"), AlertLock(k, "update")}
  IN /\ x.op = "write" /\ x.at = 2
     /\ alertRow[k] # NoRow /\ alertRow[k].id # x.arg.after[k].id => ~Referenced(k)
     /\ IF x.todo = {k} THEN CommitsWrite(s, locks)
        ELSE Statement(s, "write", 2, locks, [x EXCEPT !.at = 1, !.todo = @ \ {k}])

\* write_alert_webhook_hook_enabled
TogglesHook(s, h) ==
  /\ deliveryTx[s] = Open
  /\ Grantable(s, {HookLock(h, "update")})
  /\ hooksOn' = IF h \in hooksOn THEN hooksOn \ {h} ELSE hooksOn \cup {h}
  /\ UNCHANGED <<alertRow, delivery, outcomes, claims, prepared, writes, deliveryTx>>

-----------------------------------------------------------------------------
(* The queue.                                                               *)

\* A pass lists an open alert; the idempotency key is of the alert_id, the
\* last_seen_at and the hook.
Listed(k, h) == [key |-> k, id |-> alertRow[k].id, seen |-> alertRow[k].seen, hook |-> h]

\* write_alert_delivery_queue_enqueue of a delivery that is not there yet: the
\* hook must be enabled and the alert open, each when its row is locked.
BeginsEnqueue(s, k, h) ==
  /\ alertRow[k] # NoRow /\ alertRow[k].state = "open"
  /\ Listed(k, h) \notin DOMAIN delivery
  /\ Begins(s, "enqueue", Listed(k, h), {}, {OperationLock("enqueue", Listed(k, h))})

SharesHook(s) ==
  LET x == deliveryTx[s] IN
  /\ x.op = "enqueue" /\ x.arg.hook \in hooksOn
  /\ Statement(s, "enqueue", 1, {HookLock(x.arg.hook, "share")}, [x EXCEPT !.at = 2])

SharesAlert(s) ==
  LET x == deliveryTx[s]
      row == alertRow[x.arg.key]
  IN /\ x.op = "enqueue" /\ row # NoRow /\ row.id = x.arg.id /\ row.state = "open"
     /\ Statement(s, "enqueue", 2, {AlertLock(x.arg.key, "share")}, [x EXCEPT !.at = 3])

With(f, d, v) == [e \in DOMAIN f \cup {d} |-> IF e = d THEN v ELSE f[e]]

InsertsDelivery(s) ==
  LET d == deliveryTx[s].arg IN
  /\ Commits(s, "enqueue", 3, {Writing("queue")})
  /\ delivery' = With(delivery, d, NewDelivery)
  /\ outcomes' = With(outcomes, d, <<>>)
  /\ UNCHANGED <<alertRow, hooksOn, claims, prepared, writes>>

\* Rows nobody else has locked (SKIP LOCKED).
Unlocked(s, rows) == {d \in rows : Grantable(s, {DeliveryLock(d)})}

Waiting(row) == row.status \in {"pending", "retry"} /\ row.due

\* recover_expired_alert_claims_postgres_tx
BeginsClaim(s) ==
  LET lost == Unlocked(s, {d \in DOMAIN delivery : delivery[d].status = "claimed" /\ delivery[d].late})
  IN Begins(s, "claim", NoRow, lost, {DeliveryLock(d) : d \in lost} \cup {Writing("queue")})

RecoveredDelivery(row) == [row EXCEPT !.status = "retry", !.late = FALSE, !.due = TRUE]

\* The queue as the claiming transaction sees it.
AfterRecovery(s) ==
  [d \in DOMAIN delivery |-> IF d \in deliveryTx[s].todo THEN RecoveredDelivery(delivery[d])
                             ELSE delivery[d]]

\* The rest of write_alert_delivery_queue_claim_next: one due row, if any.
ClaimsDelivery(s) ==
  LET q == AfterRecovery(s)
      due == Unlocked(s, {d \in DOMAIN q : Waiting(q[d])})
  IN /\ Commits(s, "claim", 1, {})
     /\ IF due = {} THEN delivery' = q /\ UNCHANGED claims
        ELSE \E d \in due :
               LET row == [q[d] EXCEPT !.status = "claimed", !.fence = @ + 1, !.lease = 0] IN
               /\ row.fence <= MaxDeliveryFence
               /\ delivery' = [q EXCEPT ![d] = row]
               /\ claims' = claims \cup
                    {[delivery |-> d, fence |-> row.fence, lease |-> 0, count |-> row.count]}
     /\ UNCHANGED <<alertRow, hooksOn, outcomes, prepared, writes>>

\* lock_live_alert_queue_claim_postgres_tx, and the WHERE of every write for a
\* claim: the row is as the claim says and the lease runs.
ClaimLive(c) ==
  /\ c.delivery \in DOMAIN delivery
  /\ LET row == delivery[c.delivery] IN
     /\ row.status = "claimed" /\ ~row.late
     /\ row.fence = c.fence /\ row.lease = c.lease /\ row.count = c.count

\* A call of one UPDATE.
UpdatesClaimed(s, c, row) ==
  /\ deliveryTx[s] = Open
  /\ ClaimLive(c)
  /\ Grantable(s, {Writing("queue"), DeliveryLock(c.delivery)})
  /\ delivery' = [delivery EXCEPT ![c.delivery] = row]
  /\ UNCHANGED <<alertRow, hooksOn, outcomes, prepared, writes, deliveryTx>>

\* write_alert_delivery_queue_renew: a new lease, and the claim that knows it.
RenewsDelivery(s, c) ==
  /\ c.lease < MaxRenewals
  /\ UpdatesClaimed(s, c, [delivery[c.delivery] EXCEPT !.lease = c.lease + 1])
  /\ claims' = claims \cup {[c EXCEPT !.lease = @ + 1]}

\* write_alert_delivery_queue_defer
DefersDelivery(s, c) ==
  /\ UpdatesClaimed(s, c, [delivery[c.delivery] EXCEPT !.status = "retry", !.due = FALSE])
  /\ UNCHANGED claims

AttemptResults == {"succeeded", "retryable", "permanent"}

OutcomeStatus(result, number) ==
  IF result = "succeeded" THEN "succeeded"
  ELSE IF result = "retryable" /\ number < AttemptLimit THEN "retry" ELSE "dead_letter"

\* write_alert_delivery_queue_outcome locks the claimed row, inserts the attempt
\* (whose foreign keys lock alert and hook), stamps the alert with completed_at
\* after a success, whatever stamp it has, and updates the claimed row, if the
\* lease still runs.
BeginsOutcome(s, c, result, at) ==
  /\ ClaimLive(c)
  /\ Begins(s, "outcome", [claim |-> c, result |-> result, at |-> at], {},
            {DeliveryLock(c.delivery)})

InsertsAttempt(s) ==
  LET x == deliveryTx[s]
      d == x.arg.claim.delivery
  IN /\ x.op = "outcome"
     /\ Statement(s, "outcome", 1,
          {Writing("attempts"), AlertLock(d.key, "key_share"), HookLock(d.hook, "key_share")},
          [x EXCEPT !.at = IF x.arg.result = "succeeded" THEN 2 ELSE 3])

StampsAlert(s) ==
  LET x == deliveryTx[s]
      d == x.arg.claim.delivery
  IN /\ x.op = "outcome"
     /\ alertRow[d.key] # NoRow /\ alertRow[d.key].id = d.id
     /\ Statement(s, "outcome", 2, {Writing("alerts"), AlertLock(d.key, "no_key_update")},
                  [x EXCEPT !.at = 3])

FinishesOutcome(s) ==
  LET c == deliveryTx[s].arg.claim
      d == c.delivery
      result == deliveryTx[s].arg.result
  IN /\ Commits(s, "outcome", 3, {Writing("queue")})
     /\ ClaimLive(c)
     /\ delivery' = [delivery EXCEPT ![d] =
          [@ EXCEPT !.status = OutcomeStatus(result, c.count + 1), !.count = c.count + 1,
                    !.due = FALSE]]
     /\ outcomes' = [outcomes EXCEPT ![d] = Append(@, result)]
     /\ alertRow' = IF result = "succeeded" THEN [alertRow EXCEPT ![d.key].sent = deliveryTx[s].arg.at]
                    ELSE alertRow
     /\ UNCHANGED <<hooksOn, claims, prepared, writes>>

-----------------------------------------------------------------------------
(* Retention of alert-events.                                               *)

\* Fault: the queue is not locked against writers.
PruneTablesAlertsOnly == <<"alerts", "attempts">>

\* lock_retention_target_tx locks the three tables one after the other.
PruneTables == <<"alerts", "queue", "attempts">>

Unsettled(k) == \E d \in DOMAIN delivery :
                  /\ d.key = k /\ d.id = alertRow[k].id
                  /\ delivery[d].status \in {"pending", "claimed", "retry"}

BeginsPrune(s) ==
  Begins(s, "prune", NoRow, {}, {TableLock("alerts", "share_row_exclusive")})

LocksTable(s) ==
  LET x == deliveryTx[s] IN
  /\ x.op = "prune" /\ x.at < Len(PruneTables)
  /\ Statement(s, "prune", x.at, {TableLock(PruneTables[x.at + 1], "share_row_exclusive")},
               [x EXCEPT !.at = @ + 1])

\* prune_retention_batch_tx: the statement sees which alerts have no unsettled
\* delivery and dooms the oldest of them, as many as cutoff, row count and
\* limit say; the batches of a call are one, as nothing changes between them.
\* It then waits for the rows it will delete.
DoomsAlerts(s) ==
  LET x == deliveryTx[s]
      eligible == {k \in AlertKeys : alertRow[k] # NoRow /\ ~Unsettled(k)}
  IN /\ x.op = "prune"
     /\ \E doomed \in (SUBSET eligible) \ {{}} :
          /\ \A k \in doomed, j \in eligible \ doomed : alertRow[k].seen <= alertRow[j].seen
          /\ Statement(s, "prune", Len(PruneTables), {},
                       [x EXCEPT !.at = @ + 1, !.arg = [k \in doomed |-> alertRow[k].id]])

\* The DELETE, with what refers to the alerts (ON DELETE CASCADE).
DeletesAlerts(s) ==
  LET ids == deliveryTx[s].arg
      gone == {d \in DOMAIN delivery : d.key \in DOMAIN ids /\ d.id = ids[d.key]}
      kept == DOMAIN delivery \ gone
  IN /\ deliveryTx[s].op = "prune"
     /\ Commits(s, "prune", Len(PruneTables) + 1,
          {AlertLock(k, "update") : k \in DOMAIN ids} \cup {DeliveryLock(d) : d \in gone})
     /\ alertRow' = [k \in AlertKeys |->
          IF k \in DOMAIN ids /\ alertRow[k] # NoRow /\ alertRow[k].id = ids[k] THEN NoRow
          ELSE alertRow[k]]
     /\ delivery' = [d \in kept |-> delivery[d]]
     /\ outcomes' = [d \in kept |-> outcomes[d]]
     /\ UNCHANGED <<hooksOn, claims, prepared, writes>>

-----------------------------------------------------------------------------
(* The clock of the database.                                               *)

DeliveryLeaseEnds(d) ==
  /\ delivery[d].status = "claimed" /\ ~delivery[d].late
  /\ delivery' = [delivery EXCEPT ![d].late = TRUE]
  /\ UNCHANGED <<alertRow, hooksOn, outcomes, claims, prepared, writes, deliveryTx>>

DeliveryComesDue(d) ==
  /\ delivery[d].status = "retry" /\ ~delivery[d].due
  /\ delivery' = [delivery EXCEPT ![d].due = TRUE]
  /\ UNCHANGED <<alertRow, hooksOn, outcomes, claims, prepared, writes, deliveryTx>>

-----------------------------------------------------------------------------
AlertWriteStep(s) ==
  (\E w \in prepared : BeginsWrite(s, w)) \/ (\E k \in AlertKeys : ReadsEntry(s, k))
    \/ UpsertsEntry(s) \/ \E h \in Webhooks : TogglesHook(s, h)

QueueStep(s) ==
  \/ \E k \in AlertKeys, h \in Webhooks : BeginsEnqueue(s, k, h)
  \/ SharesHook(s) \/ SharesAlert(s) \/ InsertsDelivery(s)
  \/ BeginsClaim(s) \/ ClaimsDelivery(s)
  \/ \E c \in claims : \/ RenewsDelivery(s, c) \/ DefersDelivery(s, c)
                       \/ \E r \in AttemptResults : \E at \in CompletedAt(r = "succeeded") :
                            BeginsOutcome(s, c, r, at)
  \/ InsertsAttempt(s) \/ StampsAlert(s) \/ FinishesOutcome(s)

PruneStep(s) == BeginsPrune(s) \/ LocksTable(s) \/ DoomsAlerts(s) \/ DeletesAlerts(s)

NativeDeliveryNext ==
  \/ \E kind \in {"evaluate", "lapsed", "silence", "resolve", "deliver"} :
       \E keys \in (SUBSET AlertKeys) \ {{}}, at \in CompletedAt(kind = "deliver") :
         ComputesWrite(kind, keys, at)
  \/ \E s \in DeliverySessions :
       AlertWriteStep(s) \/ QueueStep(s) \/ PruneStep(s) \/ DeliveryRollsBack(s)
  \/ \E d \in DOMAIN delivery : DeliveryLeaseEnds(d) \/ DeliveryComesDue(d)

NativeDeliverySpec == NativeDeliveryInit /\ [][NativeDeliveryNext]_deliveryVars

-----------------------------------------------------------------------------
(* Properties.                                                              *)

\* A delivery is settled, and how, exactly as its last attempt says.
SettledByHistory(d) ==
  LET n == Len(outcomes[d])
      last == outcomes[d][n]
  IN /\ delivery[d].count = n
     /\ \A i \in 1..(n - 1) : outcomes[d][i] = "retryable"
     /\ IF n > 0 /\ OutcomeStatus(last, n) # "retry"
        THEN delivery[d].status = OutcomeStatus(last, n)
        ELSE delivery[d].status \in {"pending", "claimed", "retry"}

\* A send of this alert is recorded by this commit: an outcome, or a manual
\* delivery computed from the row that is there.
SendRecorded(k) ==
  \/ \E s \in DeliverySessions :
       LET x == deliveryTx[s] IN
       /\ x.op = "outcome" /\ deliveryTx'[s] = Open /\ x.arg.result = "succeeded"
       /\ x.arg.claim.delivery.key = k /\ x.arg.claim.delivery.id = alertRow[k].id
       /\ alertRow'[k].sent = x.arg.at
  \/ \E w \in prepared \ prepared' :
       k \in DOMAIN w.before /\ w.before[k] = alertRow[k] /\ w.at # 0 /\ alertRow'[k].sent = w.at

\* What a step may do to deliveries, to the record of a delivery, and to the
\* alerts a write replaces.
DeliveriesKeptStep ==
  /\ \A d \in DOMAIN delivery \ DOMAIN delivery' : delivery[d].status \in {"succeeded", "dead_letter"}
  /\ \A k \in AlertKeys :
       alertRow[k] # NoRow /\ alertRow'[k] # NoRow /\ alertRow'[k].id = alertRow[k].id
         => alertRow'[k].sent = alertRow[k].sent \/ SendRecorded(k)
  /\ \A w \in prepared \ prepared' : \A k \in DOMAIN w.before :
       /\ w.before[k] # NoRow => alertRow[k] = w.before[k]
       /\ alertRow[k] # NoRow /\ Referenced(k) => alertRow[k] = w.before[k]

\* Whatever statements of sessions interleave, with leases running out between
\* them: a delivery agrees with its recorded attempts; retention "cannot erase
\* an unsent or recoverable delivery" (docs/c1-native-postgres-inventory.md:150),
\* although it decides before it has the rows it deletes; last_sent_at of an
\* alert changes only in the commit that records a send of that alert, to the
\* time that send was complete (which may be earlier than the one it replaces);
\* a write computed from a row replaces that row only; and an alert deliveries
\* refer to is replaced only by a write that was computed from it.  (A write
\* that was computed from no row locks none and is not compared: it replaces an
\* alert that was stored in between and that no delivery refers to.)
NativeDeliveriesKept ==
  /\ [](\A d \in DOMAIN delivery : SettledByHistory(d))
  /\ [][DeliveriesKeptStep]_deliveryVars

-----------------------------------------------------------------------------
(* The inductive invariant behind it.                                       *)

DeliveryKey == [key : AlertKeys, id : Nat, seen : Nat, hook : Webhooks]

DeliveryState ==
  [status : {"pending", "claimed", "retry", "succeeded", "dead_letter"}, count : Nat,
   fence : Nat, lease : Nat, late : BOOLEAN, due : BOOLEAN]

DeliveryClaim == [delivery : DeliveryKey, fence : Nat, lease : Nat, count : Nat]

\* A computed write: the row of an alert that was there keeps its identity and,
\* unless it records a send, its last_sent_at; a new one has the number of the
\* write.
PreparedOK(w) ==
  /\ w.number \in Nat /\ w.at \in Nat /\ DOMAIN w.before = DOMAIN w.after /\ DOMAIN w.after \subseteq AlertKeys
  /\ \A k \in DOMAIN w.after :
       /\ w.after[k] \in NativeAlertRow
       /\ w.before[k] = NoRow => w.after[k].id = w.number
       /\ w.before[k] # NoRow => /\ w.before[k] \in NativeAlertRow
                                 /\ w.after[k].id = w.before[k].id
                                 /\ w.after[k].sent = w.before[k].sent \/ (w.at # 0 /\ w.after[k].sent = w.at)

NativeDeliveryTypeOK ==
  /\ alertRow \in [AlertKeys -> NativeAlertRow \cup {NoRow}] /\ hooksOn \subseteq Webhooks
  /\ DOMAIN delivery \subseteq DeliveryKey /\ DOMAIN outcomes = DOMAIN delivery
  /\ \A d \in DOMAIN delivery :
       delivery[d] \in DeliveryState /\ outcomes[d] \in Seq(AttemptResults)
  /\ claims \subseteq DeliveryClaim /\ writes \in Nat
  /\ \A w \in prepared : PreparedOK(w)
  /\ DOMAIN deliveryTx = DeliverySessions
  /\ \A s \in DeliverySessions : DOMAIN deliveryTx[s] = DOMAIN Open

\* The number of a write that is still to be made is the identity of no alert.
NumbersApart ==
  /\ \A k \in AlertKeys : alertRow[k] # NoRow =>
       alertRow[k].id <= writes /\ \A w \in prepared : alertRow[k].id # w.number
  /\ \A v \in prepared : v.number <= writes
  /\ \A v, w \in prepared : v.number = w.number => v = w
  /\ \A v \in prepared : \A k \in DOMAIN v.before : v.before[k] # NoRow =>
       v.before[k].id <= writes /\ \A w \in prepared : v.before[k].id # w.number

\* No two sessions hold locks that conflict.
LocksCompatible ==
  \A s, o \in DeliverySessions : s # o =>
    \A h \in deliveryTx[o].held, l \in deliveryTx[s].held :
      h[1] = l[1] => {h[2], l[2]} \notin Conflicting

\* The rows a write has found are locked and as its caller read them; a row it
\* has put where there was none is locked, and nothing refers to one it meets.
WriteHolds(x) ==
  x.op = "write" =>
    /\ x.arg \in prepared /\ OperationLock("write", x.arg.number) \in x.held
    /\ x.todo \subseteq DOMAIN x.arg.before /\ (x.at = 2 => x.found \in x.todo)
    /\ \A k \in DOMAIN x.arg.before : k \notin x.todo =>
         /\ AlertLock(k, "update") \in x.held
         /\ x.arg.before[k] = NoRow => alertRow[k] = NoRow \/ ~Referenced(k)
    /\ \A k \in DOMAIN x.arg.before :
         x.arg.before[k] # NoRow /\ (k \notin x.todo \/ (x.at = 2 /\ k = x.found)) =>
           AlertLock(k, "update") \in x.held /\ alertRow[k] = x.arg.before[k]

\* The delivery to be inserted is not there, and its alert is shared.
EnqueueHolds(x) ==
  x.op = "enqueue" =>
    /\ x.arg \in DeliveryKey \ DOMAIN delivery /\ OperationLock("enqueue", x.arg) \in x.held
    /\ x.at = 3 => AlertLock(x.arg.key, "share") \in x.held

\* The claims to be recovered are still lost.
ClaimHolds(x) ==
  x.op = "claim" =>
    /\ Writing("queue") \in x.held
    /\ \A d \in x.todo : /\ DeliveryLock(d) \in x.held /\ d \in DOMAIN delivery
                         /\ delivery[d].status = "claimed" /\ delivery[d].late

\* The alert a success is recorded on is there.
OutcomeHolds(x) ==
  x.op = "outcome" =>
    /\ x.arg.claim \in DeliveryClaim /\ x.arg.result \in AttemptResults /\ x.arg.at \in Nat
    /\ x.at = 3 /\ x.arg.result = "succeeded" =>
         LET k == x.arg.claim.delivery.key
         IN /\ alertRow[k] # NoRow /\ alertRow[k].id = x.arg.claim.delivery.id
            /\ AlertLock(k, "no_key_update") \in x.held

\* The tables are locked one by one, and nothing that refers to a doomed alert
\* has become unsettled since.
PruneHolds(x) ==
  x.op = "prune" =>
    /\ x.at \in 1..(Len(PruneTables) + 1)
    /\ \A i \in 1..Len(PruneTables) : i <= x.at =>
         TableLock(PruneTables[i], "share_row_exclusive") \in x.held
    /\ x.at = Len(PruneTables) + 1 =>
         \A d \in DOMAIN delivery : d.key \in DOMAIN x.arg /\ d.id = x.arg[d.key] =>
           delivery[d].status \in {"succeeded", "dead_letter"}

TransactionHolds(x) ==
  WriteHolds(x) /\ EnqueueHolds(x) /\ ClaimHolds(x) /\ OutcomeHolds(x) /\ PruneHolds(x)

NativeDeliveryInv ==
  /\ NativeDeliveryTypeOK /\ NumbersApart /\ LocksCompatible
  /\ \A s \in DeliverySessions : TransactionHolds(deliveryTx[s])
  /\ \A d \in DOMAIN delivery : SettledByHistory(d)
=============================================================================
