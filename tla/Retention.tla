----------------------------- MODULE Retention ------------------------------
(***************************************************************************)
(* "retention set" and "retention apply"                                   *)
(* (crates/ocfleet-cli/src/retention.rs, apply_retention of store.rs).     *)
(*                                                                         *)
(* A command applies the policies scope by scope, one transaction each,    *)
(* under one operation id; it may be killed between two scopes, between    *)
(* two batches of a transaction, or after a commit it did not learn of,    *)
(* and be repeated with the same id.  The audit event of a transaction is  *)
(* what a repetition is recognised by.                                     *)
(***************************************************************************)
EXTENDS Integers, Sequences, FiniteSets

CONSTANTS
  RetentionScopes,    \* RETENTION_SCOPES, in order
  RetentionPolicies,  \* values a policy may have: [age, rows], NoLimit for none
  RetentionActors,
  RetentionOps,       \* operation ids
  RetentionLimits,    \* values of --limit, NoLimit for none
  RetentionCutoffs,   \* values of --before, NoLimit for none
  RetentionBatch,     \* --batch-size, at least 1
  MaxRetentionRows,   \* bound: rows ever inserted in any two tables
  MaxRetentionClock,  \* bound: clock
  MaxApplies          \* bound: commands

NoLimit == -1
OrNoLimit == Nat \cup {NoLimit}

ASSUME RetentionAssumption ==
  /\ RetentionScopes \in Seq(STRING) /\ RetentionScopes # <<>>
  /\ RetentionPolicies \subseteq [age : OrNoLimit, rows : OrNoLimit]
  /\ RetentionLimits \subseteq OrNoLimit /\ RetentionCutoffs \subseteq OrNoLimit
  /\ RetentionBatch \in Nat \ {0}
  /\ {MaxRetentionRows, MaxRetentionClock, MaxApplies} \subseteq Nat

VARIABLES
  retClock,
  retRows,    \* scope -> rows of its table: [id, at]
  retPolicy,  \* scope -> retention_policies, or its default
  retAudit,   \* retention.apply events: [op, scope, actor, input, result]
  retGone,    \* <<op, scope>> -> ids that transactions of this operation deleted
  applying,   \* the command under way, or NoApply
  retApplies  \* commands begun

retentionVars ==
  <<retClock, retRows, retPolicy, retAudit, retGone, applying, retApplies>>

Scopes == {RetentionScopes[i] : i \in DOMAIN RetentionScopes}
NoApply == [step |-> "idle"]

\* What a transaction has of a table and of its own progress.
NoTransaction == [rows |-> {}, cutoff |-> NoLimit, planned |-> 0, deleted |-> 0]

\* Transaction::new_unchecked(.., Immediate): no one else writes.
Locked == applying.step = "prune"

RetentionRow == [id : Nat, at : Nat]

Least(a, b) == IF a < b THEN a ELSE b

----------------------------------------------------------------------------
(* Which rows a policy gives up.                                           *)

\* The order of timestamp and rowid.
OlderRow(a, b) == a.at < b.at \/ (a.at = b.at /\ a.id < b.id)

\* ORDER BY timestamp DESC, rowid DESC LIMIT -1 OFFSET max_rows
BeyondNewest(rows, max) ==
  IF max = NoLimit THEN {} ELSE {r \in rows : Cardinality({x \in rows : OlderRow(r, x)}) >= max}

\* retention_candidate_report_for_target
Candidates(rows, cutoff, max) ==
  (IF cutoff = NoLimit THEN {} ELSE {r \in rows : r.at < cutoff}) \cup BeyondNewest(rows, max)

\* prune_retention_target_batch: the oldest candidates.
Batch(rows, cutoff, max, size) ==
  LET cand == Candidates(rows, cutoff, max)
  IN {r \in cand : Cardinality({x \in cand : OlderRow(x, r)}) < size}

----------------------------------------------------------------------------
(* Policies.                                                               *)

\* run_retention_set and set_retention_policy
SetRetentionPolicy(scope, policy) ==
  /\ ~Locked /\ policy # retPolicy[scope]
  /\ retPolicy' = [retPolicy EXCEPT ![scope] = policy]
  /\ UNCHANGED <<retClock, retRows, retAudit, retGone, applying, retApplies>>

----------------------------------------------------------------------------
(* retention apply.                                                        *)

ApplyBegins(op, actor, scopes, cutoff, limit) ==
  /\ applying = NoApply
  /\ retApplies < MaxApplies
  /\ retApplies' = retApplies + 1
  /\ applying' = [step |-> "policy", op |-> op, actor |-> actor, scopes |-> scopes,
                  cutoff |-> cutoff, limit |-> limit, policy |-> [age |-> NoLimit, rows |-> NoLimit],
                  tx |-> NoTransaction]
  /\ UNCHANGED <<retClock, retRows, retPolicy, retAudit, retGone>>

\* effective_retention_policy, read before the transaction.
ReadsRetentionPolicy ==
  /\ applying.step = "policy"
  /\ applying' = [applying EXCEPT !.step = "apply", !.policy = retPolicy[Head(applying.scopes)]]
  /\ UNCHANGED <<retClock, retRows, retPolicy, retAudit, retGone, retApplies>>

\* RetentionApplyInput
ApplyInput(a) ==
  [cutoff |-> a.cutoff, age |-> a.policy.age, rows |-> a.policy.rows, limit |-> a.limit]

\* Fault: an earlier event of the operation is not looked for.
NoEarlierEvents(op, scope) == {}

\* retention_apply_replay_tx: earlier events of this operation and scope.
EarlierEvents(op, scope) == {e \in retAudit : e.op = op /\ e.scope = scope}

ScopeDone ==
  applying' = IF Len(applying.scopes) = 1 THEN NoApply
              ELSE [applying EXCEPT !.step = "policy", !.scopes = Tail(@), !.tx = NoTransaction]

\* apply_retention opens its transaction.  A repetition with the same actor and
\* inputs returns the first report, one with others is refused; otherwise the
\* rows to be deleted are counted.
PlansRetention ==
  LET a == applying
      scope == Head(a.scopes)
      earlier == EarlierEvents(a.op, scope)
      cutoff == IF a.cutoff # NoLimit THEN a.cutoff
                ELSE IF a.policy.age # NoLimit THEN retClock - a.policy.age ELSE NoLimit
      matched == Cardinality(Candidates(retRows[scope], cutoff, a.policy.rows))
      planned == IF a.limit = NoLimit THEN matched ELSE Least(matched, a.limit)
  IN /\ a.step = "apply"
     /\ IF earlier = {}
        THEN applying' = [a EXCEPT !.step = "prune", !.tx =
               [rows |-> retRows[scope], cutoff |-> cutoff, planned |-> planned, deleted |-> 0]]
        ELSE IF \A e \in earlier : e.actor = a.actor /\ e.input = ApplyInput(a)
             THEN ScopeDone ELSE applying' = NoApply
     /\ UNCHANGED <<retClock, retRows, retPolicy, retAudit, retGone, retApplies>>

\* The next batch of the loop.
NextBatch(a) ==
  Batch(a.tx.rows, a.tx.cutoff, a.policy.rows, Least(a.tx.planned - a.tx.deleted, RetentionBatch))

\* while rows_deleted < planned_delete_count: a batch, of what the last one left.
PrunesBatch ==
  LET a == applying
      batch == NextBatch(a)
  IN /\ Locked /\ a.tx.deleted < a.tx.planned /\ batch # {}
     /\ applying' = [a EXCEPT !.tx.rows = @ \ batch, !.tx.deleted = @ + Cardinality(batch)]
     /\ UNCHANGED <<retClock, retRows, retPolicy, retAudit, retGone, retApplies>>

\* The planned number of rows is gone, or a batch found none: the event, and
\* COMMIT.
CommitsRetention ==
  LET a == applying
      scope == Head(a.scopes)
      event == [op |-> a.op, scope |-> scope, actor |-> a.actor, input |-> ApplyInput(a),
                result |-> [planned |-> a.tx.planned, deleted |-> a.tx.deleted]]
  IN /\ Locked /\ (a.tx.deleted >= a.tx.planned \/ NextBatch(a) = {})
     /\ retRows' = [retRows EXCEPT ![scope] = a.tx.rows]
     /\ retAudit' = retAudit \cup {event}
     /\ retGone' = [retGone EXCEPT ![<<a.op, scope>>] =
                      @ \cup {r.id : r \in retRows[scope] \ a.tx.rows}]
     /\ ScopeDone
     /\ UNCHANGED <<retClock, retPolicy, retApplies>>

\* Killed, before or after a commit, or in the transaction, which is rolled back.
ApplyDies ==
  /\ applying # NoApply
  /\ applying' = NoApply
  /\ UNCHANGED <<retClock, retRows, retPolicy, retAudit, retGone, retApplies>>

----------------------------------------------------------------------------

\* The rest of the controller inserts rows.
Inserted(scope) ==
  {r.id : r \in retRows[scope]} \cup UNION {retGone[<<op, scope>>] : op \in RetentionOps}

RowInserted(scope) ==
  /\ ~Locked
  /\ \A s \in Scopes \ {scope} :
       Cardinality(Inserted(s)) + Cardinality(Inserted(scope)) < MaxRetentionRows
  /\ Cardinality(Inserted(scope)) < MaxRetentionRows
  /\ retRows' = [retRows EXCEPT ![scope] =
       @ \cup {[id |-> Cardinality(Inserted(scope)), at |-> retClock]}]
  /\ UNCHANGED <<retClock, retPolicy, retAudit, retGone, applying, retApplies>>

RetentionTick ==
  /\ retClock < MaxRetentionClock
  /\ retClock' = retClock + 1
  /\ UNCHANGED <<retRows, retPolicy, retAudit, retGone, applying, retApplies>>

RetentionInit ==
  /\ retClock = 0
  /\ retRows = [s \in Scopes |-> {}]
  /\ retPolicy \in [Scopes -> RetentionPolicies]
  /\ retAudit = {}
  /\ retGone = [k \in RetentionOps \X Scopes |-> {}]
  /\ applying = NoApply
  /\ retApplies = 0

RetentionNext ==
  \/ \E s \in Scopes, policy \in RetentionPolicies : SetRetentionPolicy(s, policy)
  \/ \E op \in RetentionOps, actor \in RetentionActors, cutoff \in RetentionCutoffs,
        limit \in RetentionLimits, scopes \in {RetentionScopes} \cup {<<s>> : s \in Scopes} :
       ApplyBegins(op, actor, scopes, cutoff, limit)
  \/ ReadsRetentionPolicy \/ PlansRetention \/ PrunesBatch \/ CommitsRetention \/ ApplyDies
  \/ \E s \in Scopes : RowInserted(s)
  \/ RetentionTick

RetentionSpec == RetentionInit /\ [][RetentionNext]_retentionVars

----------------------------------------------------------------------------
(* Properties.                                                             *)

\* However often a command is killed and repeated under one operation id, each
\* of its scopes loses exactly the rows its first report planned, never more
\* than its limit, and the loop over batches neither stops short nor overruns.
\* docs/adr/ADR-retention-apply-atomicity.md "Retrying a limited apply could
\* also delete a second set of rows".
DeletedAsReported ==
  \A op \in RetentionOps, s \in Scopes :
    LET events == {e \in retAudit : e.op = op /\ e.scope = s}
    IN /\ Cardinality(events) <= 1
       /\ events = {} => retGone[<<op, s>>] = {}
       /\ \A e \in events :
            /\ Cardinality(retGone[<<op, s>>]) = e.result.deleted
            /\ e.result.deleted = e.result.planned
            /\ e.input.limit # NoLimit => e.result.deleted <= e.input.limit

----------------------------------------------------------------------------
(* The inductive invariant behind it.                                      *)

RetentionPolicy == [age : OrNoLimit, rows : OrNoLimit]

\* No row identifier is used twice in a table.
DistinctIds(rows) == \A r, x \in rows : r.id = x.id => r = x

ApplyUnderWay(a) ==
  /\ a.step \in {"policy", "apply", "prune"} /\ a.op \in RetentionOps
  /\ a.scopes \in Seq(Scopes) /\ a.scopes # <<>>
  /\ a.cutoff \in OrNoLimit /\ a.limit \in OrNoLimit /\ a.policy \in RetentionPolicy
  /\ DOMAIN a = {"step", "op", "actor", "scopes", "cutoff", "limit", "policy", "tx"}
  /\ DOMAIN a.tx = {"rows", "cutoff", "planned", "deleted"}

RetentionTypeOK ==
  /\ retClock \in Nat
  /\ retRows \in [Scopes -> SUBSET RetentionRow]
  /\ \A s \in Scopes : IsFiniteSet(retRows[s]) /\ DistinctIds(retRows[s])
  /\ retPolicy \in [Scopes -> RetentionPolicy]
  /\ retGone \in [RetentionOps \X Scopes -> SUBSET Nat]
  /\ applying = NoApply \/ ApplyUnderWay(applying)

\* The rows of a table were inserted one after the other.
InsertedInOrder ==
  \A s \in Scopes : /\ IsFiniteSet(Inserted(s))
                     /\ Inserted(s) = 0..(Cardinality(Inserted(s)) - 1)

\* In a transaction: the operation has no event yet, the rows deleted are those
\* counted, and no more are still planned than a batch can find.
PruneOnCourse(a) ==
  LET scope == Head(a.scopes)
      tx == a.tx
  IN /\ EarlierEvents(a.op, scope) = {}
     /\ tx.rows \subseteq retRows[scope] /\ tx.cutoff \in Int
     /\ tx.planned \in Nat /\ tx.deleted \in Nat /\ tx.deleted <= tx.planned
     /\ tx.deleted = Cardinality(retRows[scope] \ tx.rows)
     /\ tx.planned - tx.deleted <= Cardinality(Candidates(tx.rows, tx.cutoff, a.policy.rows))
     /\ a.limit # NoLimit => tx.planned <= a.limit

RetentionInv ==
  /\ RetentionTypeOK /\ InsertedInOrder
  /\ Locked => PruneOnCourse(applying)
  /\ DeletedAsReported
=============================================================================
