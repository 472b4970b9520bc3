-------------------------- MODULE ControlledWrites --------------------------
(***************************************************************************)
(* The controlled-write approval state of the controller (controlled_writes *)
(* .rs and the `change` commands of change.rs).  A command runs in its own  *)
(* process: it takes the time once, closes an overdue request in a          *)
(* transaction of its own, and then makes its transition in a second        *)
(* transaction that still uses the time it took, so other commands, the     *)
(* expiry of the request and a kill fall between its steps.  Nothing        *)
(* dispatches a change, so the states after `approved` are only reached by  *)
(* cancel and expiry.                                                       *)
(***************************************************************************)
EXTENDS Integers, Sequences, FiniteSets

CONSTANTS ChangeCommands, Principals, ChangeIds, Nonces, IntentKeys,
          AllowedActors, ApprovalIds, ChangeLifetimes, MaxChangeClock, MaxIntentLife,
          MaxTrail, SystemExpiry

ASSUME ChangeAssumption ==
  /\ AllowedActors \in [IntentKeys -> SUBSET Principals]
  /\ SystemExpiry \notin Principals
  /\ ChangeLifetimes \subseteq Nat

VARIABLES chgClock, changes, approvals, attempts, trail, command

changeVars == <<chgClock, changes, approvals, attempts, trail, command>>

NoChange == [state |-> "none"]

\* A signed intent: the detached signature covers the request, its nonce, its
\* expiry and the actor it was made for, and names the key that made it.
Intents == [id : ChangeIds, nonce : Nonces, expires : ChangeLifetimes,
            signedFor : Principals, key : IntentKeys \cup {"unknown"}]

NoCommand == [verb |-> "none"]

\* The states the commands store: those of a dispatch are never reached, and
\* `dry_run_pending` is left in the transaction that enters it.
StoredStates == {"draft", "dry_run_succeeded", "dry_run_failed", "approved", "rejected",
                 "cancelled", "expired"}

ChangeRow == [state : StoredStates, actor : Principals, nonce : Nonces, expires : ChangeLifetimes]

ApprovalRow == [approval : ApprovalIds, id : ChangeIds, by : Principals,
                decision : {"approved", "rejected"}]

AttemptRow == [id : ChangeIds, nth : Nat, ok : BOOLEAN]

AuditRow == [id : ChangeIds, from : StoredStates \cup {"none"}, to : StoredStates,
             actor : Principals \cup {SystemExpiry}, approval : ApprovalIds \cup {"none"}, at : Nat]

CreateCommand == [verb : {"create"}, who : Principals, id : ChangeIds, intent : Intents,
                  now : Nat, stage : {"write"}]

DryRunCommand == [verb : {"dry_run"}, who : Principals, id : ChangeIds, allowed : BOOLEAN,
                  now : Nat, stage : {"expiry", "write"}]

DecisionCommand == [verb : {"approve", "reject"}, who : Principals, id : ChangeIds,
                    approval : ApprovalIds, now : Nat, stage : {"expiry", "write"}]

CancelCommand == [verb : {"cancel"}, who : Principals, id : ChangeIds, now : Nat,
                  stage : {"expiry", "write"}]

Exists(id) == changes[id] # NoChange

ChangeInit ==
  /\ chgClock = 0
  /\ changes = [id \in ChangeIds |-> NoChange]
  /\ approvals = {}
  /\ attempts = {}
  /\ trail = <<>>
  /\ command = [c \in ChangeCommands |-> NoCommand]

-----------------------------------------------------------------------------
\* TrustedIntentKeyring::resolve.
Resolves(key, actor) == key \in IntentKeys /\ actor \in AllowedActors[key]

\* validate_create, validate_approval: an expiry after `now`, within a bound.
LifetimeValid(expires, now) == expires > now /\ expires - now <= MaxIntentLife

\* create_change_request: digest and signature, made over the actor of the
\* command, then the unique request, operation and nonce of the insert.
CreateAccepted(i, actor, now) ==
  /\ LifetimeValid(i.expires, now)
  /\ Resolves(i.key, actor)
  /\ i.signedFor = actor
  /\ ~Exists(i.id)
  /\ \A id \in ChangeIds : Exists(id) => changes[id].nonce # i.nonce

\* insert_record_audit.
Audit(id, from, to, actor, approval, now) ==
  trail' = Append(trail, [id |-> id, from |-> from, to |-> to, actor |-> actor,
                          approval |-> approval, at |-> now])

\* transition: the update applies to the state the transaction read.
Transition(id, to) == changes' = [changes EXCEPT ![id].state = to]

\* The terminal states of persist_expiry_if_needed; nothing writes those of a
\* dispatch, and `dry_run_pending` is only written inside a transaction.
Terminal == {"succeeded", "failed", "rejected", "cancelled", "expired", "rolled_back"}

Overdue(id, now) == changes[id].expires <= now

\* Fault: a draft, or a change whose dry-run failed, may be approved.
AwaitsApprovalLoosely(state) == state \notin Terminal \cup {"approved"}

\* approve_change, reject_change: what may be decided.
AwaitsApproval(state) == state \in {"dry_run_succeeded", "approval_pending"}

\* cancel_change: what may be withdrawn.
Cancellable(state) == state \in {"draft", "dry_run_pending", "dry_run_succeeded",
  "dry_run_failed", "approval_pending", "approved"}

-----------------------------------------------------------------------------
Finished(c) == command' = [command EXCEPT ![c] = NoCommand]

Room == Len(trail) < MaxTrail

\* A command reads its files, and takes `now`, when it starts.  The dry-run
\* looks the request up first, for the operation kind its policy must allow.
CreateStarts(c, who) ==
  \E i \in Intents :
    command' = [command EXCEPT ![c] =
      [verb |-> "create", who |-> who, id |-> i.id, intent |-> i, now |-> chgClock,
       stage |-> "write"]]

DryRunStarts(c, who) ==
  \E id \in ChangeIds, allowed \in BOOLEAN :
    /\ Exists(id)
    /\ command' = [command EXCEPT ![c] =
         [verb |-> "dry_run", who |-> who, id |-> id, allowed |-> allowed,
          now |-> chgClock, stage |-> "expiry"]]

\* approve_change and reject_change, with an approval whose own expiry is valid.
DecisionStarts(c, who) ==
  \E id \in ChangeIds, a \in ApprovalIds, verb \in {"approve", "reject"} :
    command' = [command EXCEPT ![c] =
      [verb |-> verb, who |-> who, id |-> id, approval |-> a, now |-> chgClock,
       stage |-> "expiry"]]

CancelStarts(c, who) ==
  \E id \in ChangeIds :
    command' = [command EXCEPT ![c] =
      [verb |-> "cancel", who |-> who, id |-> id, now |-> chgClock, stage |-> "expiry"]]

CommandStarts(c, who) ==
  /\ command[c] = NoCommand
  /\ Room
  /\ \/ CreateStarts(c, who) \/ DryRunStarts(c, who)
     \/ DecisionStarts(c, who) \/ CancelStarts(c, who)
  /\ UNCHANGED <<chgClock, changes, approvals, attempts, trail>>

\* persist_expiry_if_needed: an overdue request ends the command, and an open
\* one is closed by it.
PersistExpiryIfNeeded(c) ==
  LET cmd == command[c] IN
  /\ cmd.verb # "none" /\ cmd.stage = "expiry"
  /\ \/ /\ Exists(cmd.id) /\ ~Overdue(cmd.id, cmd.now)
        /\ command' = [command EXCEPT ![c].stage = "write"]
        /\ UNCHANGED <<changes, trail>>
     \/ /\ Exists(cmd.id) => Overdue(cmd.id, cmd.now) /\ changes[cmd.id].state \in Terminal
        /\ Finished(c)
        /\ UNCHANGED <<changes, trail>>
     \/ /\ Exists(cmd.id) /\ Overdue(cmd.id, cmd.now)
        /\ changes[cmd.id].state \notin Terminal
        /\ Transition(cmd.id, "expired")
        /\ Audit(cmd.id, changes[cmd.id].state, "expired", SystemExpiry, "none", cmd.now)
        /\ Finished(c)
  /\ UNCHANGED <<chgClock, approvals, attempts>>

\* create_change_request: the row and its first audit, or nothing.
CreateChangeRequest(c) ==
  LET cmd == command[c] IN
  /\ cmd.verb = "create"
  /\ IF CreateAccepted(cmd.intent, cmd.who, cmd.now)
     THEN /\ changes' = [changes EXCEPT ![cmd.id] =
               [state |-> "draft", actor |-> cmd.who, nonce |-> cmd.intent.nonce,
                expires |-> cmd.intent.expires]]
          /\ Audit(cmd.id, "none", "draft", cmd.who, "none", cmd.now)
     ELSE UNCHANGED <<changes, trail>>
  /\ Finished(c)
  /\ UNCHANGED <<chgClock, approvals, attempts>>

\* record_change_dry_run: through dry_run_pending inside one transaction.
RecordChangeDryRun(c) ==
  LET cmd == command[c]
      target == IF cmd.allowed THEN "dry_run_succeeded" ELSE "dry_run_failed"
  IN
  /\ cmd.verb = "dry_run" /\ cmd.stage = "write"
  /\ IF /\ ~Overdue(cmd.id, cmd.now)
        /\ changes[cmd.id].actor = cmd.who
        /\ changes[cmd.id].state \in {"draft", "dry_run_failed"}
     THEN /\ Transition(cmd.id, target)
          /\ attempts' = attempts \cup {[id |-> cmd.id, nth |-> Cardinality(attempts) + 1,
                                         ok |-> cmd.allowed]}
          /\ Audit(cmd.id, changes[cmd.id].state, target, cmd.who, "none", cmd.now)
     ELSE UNCHANGED <<changes, attempts, trail>>
  /\ Finished(c)
  /\ UNCHANGED <<chgClock, approvals>>

\* The schema's keys on change_approvals.
ApprovalInserts(cmd) ==
  \A a \in approvals : a.approval # cmd.approval /\ ~(a.id = cmd.id /\ a.by = cmd.who)

\* approve_change and reject_change.
DecideChange(c) ==
  LET cmd == command[c]
      to == IF cmd.verb = "approve" THEN "approved" ELSE "rejected"
  IN
  /\ cmd.verb \in {"approve", "reject"} /\ cmd.stage = "write"
  /\ IF /\ ~Overdue(cmd.id, cmd.now)
        /\ changes[cmd.id].actor # cmd.who
        /\ AwaitsApproval(changes[cmd.id].state)
        /\ ApprovalInserts(cmd)
     THEN /\ approvals' = approvals \cup {[approval |-> cmd.approval, id |-> cmd.id,
                                           by |-> cmd.who, decision |-> to]}
          /\ Transition(cmd.id, to)
          /\ Audit(cmd.id, changes[cmd.id].state, to, cmd.who, cmd.approval, cmd.now)
     ELSE UNCHANGED <<changes, approvals, trail>>
  /\ Finished(c)
  /\ UNCHANGED <<chgClock, attempts>>

\* cancel_change.
CancelChange(c) ==
  LET cmd == command[c] IN
  /\ cmd.verb = "cancel" /\ cmd.stage = "write"
  /\ IF /\ ~Overdue(cmd.id, cmd.now)
        /\ changes[cmd.id].actor = cmd.who
        /\ Cancellable(changes[cmd.id].state)
     THEN /\ Transition(cmd.id, "cancelled")
          /\ Audit(cmd.id, changes[cmd.id].state, "cancelled", cmd.who, "none", cmd.now)
     ELSE UNCHANGED <<changes, trail>>
  /\ Finished(c)
  /\ UNCHANGED <<chgClock, approvals, attempts>>

\* A command's process is killed between its transactions.
CommandKilled(c) ==
  /\ command[c] # NoCommand
  /\ Finished(c)
  /\ UNCHANGED <<chgClock, changes, approvals, attempts, trail>>

ChangeClockTicks ==
  /\ chgClock < MaxChangeClock
  /\ chgClock' = chgClock + 1
  /\ UNCHANGED <<changes, approvals, attempts, trail, command>>

ChangeNext ==
  \/ \E c \in ChangeCommands, who \in Principals : CommandStarts(c, who)
  \/ \E c \in ChangeCommands :
       \/ PersistExpiryIfNeeded(c) \/ CreateChangeRequest(c) \/ RecordChangeDryRun(c)
       \/ DecideChange(c) \/ CancelChange(c) \/ CommandKilled(c)
  \/ ChangeClockTicks

ChangeSpec == ChangeInit /\ [][ChangeNext]_changeVars

-----------------------------------------------------------------------------
ChangeTypeOK ==
  /\ chgClock \in Nat
  /\ changes \in [ChangeIds -> ChangeRow \cup {NoChange}]
  /\ approvals \in SUBSET ApprovalRow
  /\ attempts \in SUBSET AttemptRow /\ IsFiniteSet(attempts)
  /\ trail \in Seq(AuditRow)
  /\ command \in [ChangeCommands ->
       CreateCommand \cup DryRunCommand \cup DecisionCommand \cup CancelCommand \cup {NoCommand}]

\* The audit row before the k-th of the same request, and a request's last row.
Precedes(j, k) ==
  /\ j < k
  /\ trail[j].id = trail[k].id
  /\ \A i \in DOMAIN trail : j < i /\ i < k => trail[i].id # trail[k].id

LastRow(id, k) ==
  /\ trail[k].id = id
  /\ \A i \in DOMAIN trail : k < i => trail[i].id # id

\* The k-th audit row is the first of its request, or goes on from the row
\* before it, which did not end the request.
RowFollows(k) ==
  \/ /\ trail[k].from = "none"
     /\ \A j \in DOMAIN trail : j < k => trail[j].id # trail[k].id
  \/ \E j \in DOMAIN trail :
       /\ Precedes(j, k)
       /\ trail[k].from = trail[j].to
       /\ trail[j].to \notin {"rejected", "cancelled", "expired"}

\* An approval in the audit trail was earned.
RowEarned(k) ==
  LET row == trail[k] IN
  row.to = "approved" =>
    /\ row.from = "dry_run_succeeded"
    /\ row.actor # changes[row.id].actor
    /\ row.at < changes[row.id].expires
    /\ \E a \in approvals : /\ a.approval = row.approval /\ a.id = row.id
                            /\ a.by = row.actor /\ a.decision = "approved"

\* What the write_operation_audit rows of every request say is the life the
\* request had, whatever commands overlapped, were late or were killed: the
\* rows form one chain from its creation to the stored state; an approved
\* change had a dry-run that succeeded as the step before, was decided by
\* another principal than its actor, with an approval of that principal on
\* record and before the request expired; and nothing follows a rejection, a
\* cancellation or an expiry.
ApprovalsEarned ==
  /\ \A id \in ChangeIds :
       IF Exists(id)
       THEN \E k \in DOMAIN trail : LastRow(id, k) /\ trail[k].to = changes[id].state
       ELSE \A k \in DOMAIN trail : trail[k].id # id
  /\ \A k \in DOMAIN trail : RowFollows(k) /\ RowEarned(k)

\* A create command is about the request of its intent, and another command
\* that has passed persist_expiry_if_needed is about a request that exists.
RequestsKnown ==
  \A c \in ChangeCommands :
    /\ command[c].verb = "create" => command[c].id = command[c].intent.id
    /\ /\ command[c].verb \in {"dry_run", "approve", "reject", "cancel"}
       /\ command[c].stage = "write"
       => Exists(command[c].id)

\* The inductive invariant of the controlled writes.
ChangeInv == RequestsKnown /\ ApprovalsEarned
=============================================================================
