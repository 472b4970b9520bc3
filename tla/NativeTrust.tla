---------------------------- MODULE NativeTrust ----------------------------
(***************************************************************************)
(* The trust registry on the native Postgres store                         *)
(* (crates/ocfleet-cli/src/postgres_native.rs).  The tables are those of   *)
(* TrustRegistry; what is different is how a transaction runs.  SQLite     *)
(* serialises writers, so there an operation is one step.  Here sessions   *)
(* run at READ COMMITTED: every statement sees what is committed when it   *)
(* starts, SELECT ... FOR UPDATE waits for and locks the rows it finds and *)
(* locks nothing when it finds none, a plain SELECT locks nothing, and an  *)
(* INSERT waits for another session's uncommitted key and fails on a       *)
(* committed one.  Locks are kept to the end of the transaction.           *)
(*                                                                         *)
(* A session is at one statement of its operation's Script.  What it reads *)
(* goes into "seen"; its checks and the rows it writes use only that,      *)
(* however old it is by then, as the code's local variables do.  The       *)
(* writes become visible when it commits.  A refused operation, a broken   *)
(* connection and the victim of a deadlock all roll back.  Replays of an   *)
(* operation already applied change nothing and are left out.              *)
(*                                                                         *)
(* A key is a row <<table, id>>, a unique index entry ("node_at", "active")*)
(* or a query over many rows ("history", "assigned").                      *)
(***************************************************************************)
EXTENDS TrustRegistry

CONSTANTS
  DbSessions,    \* connections with a transaction of their own
  NativeOps      \* the operations, with their arguments, the sessions run

VARIABLE dbSession

nativeVars == <<nodes, trust, tokens, joins, audit, dbSession>>

NoTx == [op |-> None, at |-> 0, seen |-> <<>>, held |-> {}]

\* The operations: arguments an operation does not take are None.
NativeOp(name, n, e, to, r, t) ==
  [name |-> name, n |-> n, e |-> e, to |-> to, r |-> r, t |-> t]

\* The arguments the signatures require.
NativeArguments(o) ==
  /\ o \in [name : {"add", "disable", "enable", "remove", "revoked", "quarantined", "rotate",
                    "create", "revoke", "submit", "reject", "approve", "claim"},
            n : NodeIds \cup {None}, e : EndpointIds \cup {None}, to : EndpointIds \cup {None},
            r : RequestIds \cup {None}, t : TokenIds \cup {None}]
  /\ o.name \in {"add", "disable", "enable", "remove", "approve", "claim"} => o.n # None
  /\ o.name \in {"add", "revoked", "quarantined", "rotate", "approve", "claim"} => o.e # None
  /\ o.name = "rotate" => o.to # None /\ o.to # o.e
  /\ o.name \in {"submit", "reject", "approve", "claim"} => o.r # None
  /\ o.name \in {"create", "revoke", "submit"} => o.t # None

ASSUME NativeOpsAssumption == \A o \in NativeOps : NativeArguments(o)

----------------------------------------------------------------------------
(* Statements.                                                             *)

\* What a statement that asks for key k returns, from committed rows.
Committed(k) ==
  CASE k[1] = "node" -> nodes[k[2]]
    [] k[1] = "trust" -> trust[k[2]]
    [] k[1] = "token" -> tokens[k[2]]
    [] k[1] = "join" -> joins[k[2]]
    [] k[1] = "node_at" -> NodesAt(k[2])
    [] k[1] = "active" -> ActiveEndpoints(k[2])
    [] k[1] = "bound" -> trust[k[2]]
    [] k[1] = "history" -> ~NoTrustHistory(k[2])
    [] k[1] = "assigned" -> {r \in RequestIds : joins[r] # None /\ joins[r].status = "approved"
                                                 /\ joins[r].assigned_endpoint_id = k[2]}

\* Fault: endpoint rows are read without FOR UPDATE.
LockedRowsButTrust(k) ==
  CASE k[1] \in {"node", "token", "join"} -> IF Committed(k) = None THEN {} ELSE {k}
    [] k[1] = "node_at" -> {<<"node", n>> : n \in Committed(k)}
    [] OTHER -> {}

\* The rows FOR UPDATE locks: those found.  set_node_enabled's EXISTS ("bound")
\* and the two counts are plain reads.
LockedRows(k) ==
  CASE k[1] \in {"node", "trust", "token", "join"} -> IF Committed(k) = None THEN {} ELSE {k}
    [] k[1] = "node_at" -> {<<"node", n>> : n \in Committed(k)}
    [] k[1] = "active" -> {<<"trust", e>> : e \in Committed(k)}
    [] OTHER -> {}

Free(s, keys) == \A o \in DbSessions \ {s} : dbSession[o].held \cap keys = {}

\* The endpoint, node or predecessor a later statement asks for is the one an
\* earlier statement of the transaction returned.
Seen(x, k) == x.seen[k]
NodeOf(x) == IF Seen(x, <<"trust", x.op.e>>) = None THEN None
             ELSE Seen(x, <<"trust", x.op.e>>).node_id
PointerOf(x) == IF Seen(x, <<"node", x.op.n>>) = None THEN None
                ELSE Seen(x, <<"node", x.op.n>>).endpoint_id
PreviousOf(x) == IF Seen(x, <<"trust", x.op.e>>) = None THEN None
                 ELSE Seen(x, <<"trust", x.op.e>>).previous_endpoint_id

Ask(k) == [does |-> "select", keys |-> IF k[2] = None THEN {} ELSE {k}]
Put(keys) == [does |-> "insert", keys |-> keys]

\* The statements of each operation, in the order of the code.
Script(x) ==
  LET o == x.op
  IN CASE o.name = "add" ->
            <<Put({<<"node", o.n>>, <<"node_at", o.e>>}),
              Put({<<"trust", o.e>>, <<"active", o.n>>})>>
       [] o.name = "disable" -> <<Ask(<<"node", o.n>>)>>
       [] o.name = "enable" ->
            IF x.at < 2 THEN <<Ask(<<"node", o.n>>)>>
            ELSE <<Ask(<<"node", o.n>>), Ask(<<"bound", PointerOf(x)>>)>>
       [] o.name = "remove" ->
            IF x.at < 2 THEN <<Ask(<<"node", o.n>>)>>
            ELSE <<Ask(<<"node", o.n>>), Ask(<<"trust", PointerOf(x)>>)>>
       [] o.name \in {"revoked", "quarantined"} ->
            IF x.at < 2 THEN <<Ask(<<"trust", o.e>>)>>
            ELSE <<Ask(<<"trust", o.e>>), Ask(<<"node", NodeOf(x)>>)>>
       [] o.name = "rotate" ->
            IF x.at < 2 THEN <<Ask(<<"trust", o.e>>)>>
            ELSE <<Ask(<<"trust", o.e>>), Ask(<<"trust", o.to>>), Ask(<<"trust", PreviousOf(x)>>),
                   Ask(<<"node", NodeOf(x)>>), Ask(<<"active", NodeOf(x)>>),
                   Put({<<"trust", o.to>>, <<"active", NodeOf(x)>>}), Put({<<"node_at", o.to>>})>>
       [] o.name = "create" -> <<Put({<<"token", o.t>>})>>
       [] o.name = "revoke" -> <<Ask(<<"token", o.t>>)>>
       [] o.name = "submit" ->
            <<Ask(<<"token", o.t>>), Ask(<<"join", o.r>>), Put({<<"join", o.r>>})>>
       [] o.name = "reject" -> <<Ask(<<"join", o.r>>)>>
       [] o.name = "approve" ->
            <<Ask(<<"join", o.r>>), Ask(<<"node", o.n>>), Ask(<<"node_at", o.e>>),
              Ask(<<"trust", o.e>>), Ask(<<"history", o.n>>),
              Put({<<"node", o.n>>, <<"node_at", o.e>>}),
              Put({<<"trust", o.e>>, <<"active", o.n>>}), Ask(<<"assigned", o.e>>)>>
       [] o.name = "claim" ->
            <<Ask(<<"join", o.r>>), Ask(<<"assigned", o.e>>), Ask(<<"trust", o.e>>),
              Ask(<<"node", o.n>>), Ask(<<"node_at", o.e>>), Ask(<<"history", o.n>>),
              Put({<<"node", o.n>>, <<"node_at", o.e>>}), Put({<<"active", o.n>>})>>

BeginsTx(s, o) ==
  /\ dbSession[s] = NoTx
  /\ dbSession' = [dbSession EXCEPT ![s] = [op |-> o, at |-> 1, seen |-> <<>>, held |-> {}]]
  /\ UNCHANGED vars

AtStatement(s) == dbSession[s] # NoTx /\ dbSession[s].at <= Len(Script(dbSession[s]))

\* The session goes on to its next statement, with what it has seen and holds.
Advances(s, seen, held) ==
  dbSession' = [dbSession EXCEPT ![s] =
                  [op |-> @.op, at |-> @.at + 1, seen |-> seen, held |-> held]]

\* SELECT: it waits while another session holds one of the rows.
Selects(s) ==
  /\ AtStatement(s)
  /\ LET x == dbSession[s]
         stmt == Script(x)[x.at]
         rows == UNION {LockedRows(k) : k \in stmt.keys}
     IN /\ stmt.does = "select"
        /\ Free(s, rows)
        /\ Advances(s, [k \in stmt.keys \cup DOMAIN x.seen |->
                          IF k \in stmt.keys THEN Committed(k) ELSE x.seen[k]],
                    x.held \cup rows)
  /\ UNCHANGED vars

\* The key is taken by a committed row; the row a rotation has just retired no
\* longer counts for the partial index of active endpoints.
Taken(o, k) ==
  CASE k[1] = "active" -> Committed(k) \ {o.e} # {}
    [] k[1] = "node_at" -> Committed(k) # {}
    [] OTHER -> Committed(k) # None

\* INSERT, and the UPDATE that moves a unique column: a conflict is an error,
\* which leaves only the rollback.
Inserts(s) ==
  /\ AtStatement(s)
  /\ LET x == dbSession[s]
         stmt == Script(x)[x.at]
     IN /\ stmt.does = "insert"
        /\ Free(s, stmt.keys)
        /\ \A k \in stmt.keys : ~Taken(x.op, k)
        /\ Advances(s, x.seen, x.held \cup stmt.keys)
  /\ UNCHANGED vars

RollsBack(s) ==
  /\ dbSession[s] # NoTx
  /\ dbSession' = [dbSession EXCEPT ![s] = NoTx]
  /\ UNCHANGED vars

----------------------------------------------------------------------------
(* Commits: the checks on what was seen, and the rows written.             *)

Ready(s, name) ==
  /\ dbSession[s] # NoTx
  /\ dbSession[s].op.name = name
  /\ dbSession[s].at > Len(Script(dbSession[s]))

Commits(s) == dbSession' = [dbSession EXCEPT ![s] = NoTx]

\* transition_endpoint_status_tx on the row seen.
NativeTransition(row, status) == [row EXCEPT !.status = status, !.generation = @ + 1]

\* The previous row is absent from the check when the row has none.
NativeLineage(x, row) ==
  /\ row.rotated_to = None
  /\ row.previous_endpoint_id # None =>
       LET p == Seen(x, <<"trust", row.previous_endpoint_id>>)
       IN /\ p # None
          /\ p.status = "rotated" /\ p.rotated_to = x.op.e
          /\ p.node_id = row.node_id /\ p.fingerprint = row.fingerprint
          /\ p.generation <= row.generation

NativeAdd(s) ==
  /\ Ready(s, "add")
  /\ LET o == dbSession[s].op
     IN /\ nodes' = [nodes EXCEPT ![o.n] = [endpoint_id |-> o.e, enabled |-> TRUE]]
        /\ trust' = [trust EXCEPT ![o.e] = OriginalTrust(o.n, None)]
  /\ Commits(s)
  /\ UNCHANGED <<tokens, joins, audit>>

NativeSetEnabled(s, enabled) ==
  /\ Ready(s, IF enabled THEN "enable" ELSE "disable")
  /\ LET x == dbSession[s]
         row == Seen(x, <<"node", x.op.n>>)
     IN /\ row # None
        /\ enabled => LET e == Seen(x, <<"bound", row.endpoint_id>>)
                      IN e # None /\ e.node_id = x.op.n /\ e.status = "active"
        /\ nodes' = [nodes EXCEPT ![x.op.n] = [row EXCEPT !.enabled = enabled]]
  /\ Commits(s)
  /\ UNCHANGED <<trust, tokens, joins, audit>>

\* Only the endpoint the node points at is looked at.
NativeRemove(s) ==
  /\ Ready(s, "remove")
  /\ LET x == dbSession[s]
         row == Seen(x, <<"node", x.op.n>>)
         e == row.endpoint_id
         before == Seen(x, <<"trust", e>>)
     IN /\ row # None
        /\ IF before # None /\ before.status = "active"
           THEN /\ before.generation < MaxGeneration
                /\ trust' = [trust EXCEPT ![e] = NativeTransition(before, "revoked")]
           ELSE trust' = trust
        /\ nodes' = [nodes EXCEPT ![x.op.n] = None]
  /\ Commits(s)
  /\ UNCHANGED <<tokens, joins, audit>>

NativeUpdateStatus(s, status) ==
  /\ Ready(s, status)
  /\ LET x == dbSession[s]
         e == x.op.e
         before == Seen(x, <<"trust", e>>)
         n == before.node_id
     IN /\ before # None
        /\ AllowedStatusChange(before.status, status)
        /\ before.generation < MaxGeneration
        /\ trust' = [trust EXCEPT ![e] = NativeTransition(before, status)]
        /\ IF n # None /\ Seen(x, <<"node", n>>) # None
           THEN /\ Seen(x, <<"node", n>>).endpoint_id = e
                /\ nodes' = [nodes EXCEPT ![n] = [Seen(x, <<"node", n>>) EXCEPT !.enabled = FALSE]]
           ELSE nodes' = nodes
  /\ Commits(s)
  /\ UNCHANGED <<tokens, joins, audit>>

\* The node is updated WHERE endpoint_id is still the old one.
NativeRotate(s) ==
  /\ Ready(s, "rotate")
  /\ LET x == dbSession[s]
         o == x.op
         old == Seen(x, <<"trust", o.e>>)
         n == old.node_id
         row == Seen(x, <<"node", n>>)
     IN /\ old # None /\ old.status \in {"active", "quarantined"}
        /\ Seen(x, <<"trust", o.to>>) = None
        /\ NativeLineage(x, old)
        /\ n # None /\ row # None /\ row.endpoint_id = o.e
        /\ Seen(x, <<"active", n>>) = IF old.status = "active" THEN {o.e} ELSE {}
        /\ old.generation < MaxGeneration
        /\ nodes[n] # None /\ nodes[n].endpoint_id = o.e
        /\ trust' = [trust EXCEPT
             ![o.e] = [NativeTransition(old, "rotated") EXCEPT !.rotated_to = o.to],
             ![o.to] = [old EXCEPT !.status = "active", !.generation = @ + 1,
                                   !.previous_endpoint_id = o.e]]
        /\ nodes' = [nodes EXCEPT ![n] =
             [endpoint_id |-> o.to, enabled |-> row.enabled /\ old.status # "quarantined"]]
  /\ Commits(s)
  /\ UNCHANGED <<tokens, joins, audit>>

NativeCreateToken(s) ==
  /\ Ready(s, "create")
  /\ \E m \in 1..MaxTokenUses :
       tokens' = [tokens EXCEPT ![dbSession[s].op.t] =
                    [status |-> "active", max_uses |-> m, used_count |-> 0, lapsed |-> FALSE]]
  /\ Commits(s)
  /\ UNCHANGED <<nodes, trust, joins, audit>>

NativeRevokeToken(s) ==
  /\ Ready(s, "revoke")
  /\ LET x == dbSession[s]
         row == Seen(x, <<"token", x.op.t>>)
     IN /\ row # None /\ row.status = "active" /\ ~tokens[x.op.t].lapsed
        /\ tokens' = [tokens EXCEPT ![x.op.t].status = "revoked"]
  /\ Commits(s)
  /\ UNCHANGED <<nodes, trust, joins, audit>>

\* The count is updated WHERE it and the status are still what was read.
NativeSubmit(s) ==
  /\ Ready(s, "submit")
  /\ LET x == dbSession[s]
         o == x.op
         row == Seen(x, <<"token", o.t>>)
     IN /\ row # None /\ row.status = "active" /\ ~row.lapsed
        /\ row.used_count < row.max_uses
        /\ Seen(x, <<"join", o.r>>) = None
        /\ tokens[o.t].status = "active" /\ tokens[o.t].used_count = row.used_count
        /\ joins' = [joins EXCEPT ![o.r] =
             [token_id |-> o.t, status |-> "pending",
              requested_endpoint_id |-> o.e, assigned_endpoint_id |-> None]]
        /\ tokens' = [tokens EXCEPT ![o.t].used_count = @ + 1]
  /\ Commits(s)
  /\ UNCHANGED <<nodes, trust, audit>>

\* The refused submission that marks a lapsed token expired; it stops before
\* the insert.
NativeSubmitExpires(s) ==
  /\ dbSession[s] # NoTx /\ dbSession[s].op.name = "submit" /\ dbSession[s].at = 3
  /\ LET x == dbSession[s]
         t == x.op.t
     IN /\ Seen(x, <<"token", t>>) # None /\ Seen(x, <<"token", t>>).status = "active"
        /\ Seen(x, <<"join", x.op.r>>) = None
        /\ tokens[t].lapsed /\ tokens[t].status = "active"
        /\ tokens' = [tokens EXCEPT ![t].status = "expired"]
  /\ Commits(s)
  /\ UNCHANGED <<nodes, trust, joins, audit>>

NativeReject(s) ==
  /\ Ready(s, "reject")
  /\ LET x == dbSession[s]
         row == Seen(x, <<"join", x.op.r>>)
     IN /\ row # None /\ row.status = "pending"
        /\ joins' = [joins EXCEPT ![x.op.r].status = "rejected"]
  /\ Commits(s)
  /\ UNCHANGED <<nodes, trust, tokens, audit>>

NativeApprove(s) ==
  /\ Ready(s, "approve")
  /\ LET x == dbSession[s]
         o == x.op
         row == Seen(x, <<"join", o.r>>)
     IN /\ row # None /\ row.status = "pending"
        /\ row.requested_endpoint_id \in {None, o.e}
        /\ Seen(x, <<"node", o.n>>) = None
        /\ Seen(x, <<"node_at", o.e>>) = {}
        /\ Seen(x, <<"trust", o.e>>) = None
        /\ ~Seen(x, <<"history", o.n>>)
        /\ Seen(x, <<"assigned", o.e>>) = {}
        /\ joins[o.r].status = "pending"
        /\ nodes' = [nodes EXCEPT ![o.n] = [endpoint_id |-> o.e, enabled |-> TRUE]]
        /\ trust' = [trust EXCEPT ![o.e] = OriginalTrust(o.n, o.r)]
        /\ joins' = [joins EXCEPT ![o.r] =
             [row EXCEPT !.status = "approved", !.assigned_endpoint_id = o.e]]
        /\ audit' = [audit EXCEPT ![o.r] =
             Append(@, [event |-> "enrollment.approve", endpoint_id |-> o.e, node_id |-> o.n])]
  /\ Commits(s)
  /\ UNCHANGED tokens

\* validate_approved_join_provenance_tx: this request, and no other, was
\* approved for the endpoint.
ApprovedProvenance(x) ==
  LET row == Seen(x, <<"join", x.op.r>>)
  IN /\ row # None /\ row.status = "approved" /\ row.assigned_endpoint_id = x.op.e
     /\ row.requested_endpoint_id \in {None, x.op.e}
     /\ Seen(x, <<"assigned", x.op.e>>) = {x.op.r}

\* validate_enrollment_endpoint_origin: never rotated, bound or withdrawn.
EnrollmentOrigin(x) == Seen(x, <<"trust", x.op.e>>) = OriginalTrust(None, x.op.r)

\* The endpoint is updated WHERE it is still the unbound original row.
NativeClaim(s) ==
  /\ Ready(s, "claim")
  /\ LET x == dbSession[s]
         o == x.op
     IN /\ ApprovedProvenance(x)
        /\ ApprovedUnbound(o.r, o.e)
        /\ EnrollmentOrigin(x)
        /\ Seen(x, <<"node", o.n>>) = None
        /\ Seen(x, <<"node_at", o.e>>) = {}
        /\ ~Seen(x, <<"history", o.n>>)
        /\ trust[o.e] = OriginalTrust(None, o.r)
        /\ nodes' = [nodes EXCEPT ![o.n] = [endpoint_id |-> o.e, enabled |-> TRUE]]
        /\ trust' = [trust EXCEPT ![o.e].node_id = o.n]
        /\ audit' = [audit EXCEPT ![o.r] =
             Append(@, [event |-> "enrollment.claim", endpoint_id |-> o.e, node_id |-> o.n])]
  /\ Commits(s)
  /\ UNCHANGED <<tokens, joins>>

----------------------------------------------------------------------------
\* The native schema starts empty; the legacy approval is the shape that
\* claim_legacy_enrollment exists for.
NativeInit ==
  /\ FreshInit \/ UnboundApprovalInit
  /\ dbSession = [s \in DbSessions |-> NoTx]

NativeCommit(s) ==
  \/ NativeAdd(s)
  \/ \E enabled \in BOOLEAN : NativeSetEnabled(s, enabled)
  \/ NativeRemove(s)
  \/ \E status \in {"revoked", "quarantined"} : NativeUpdateStatus(s, status)
  \/ NativeRotate(s)
  \/ NativeCreateToken(s)
  \/ NativeRevokeToken(s)
  \/ NativeSubmit(s)
  \/ NativeSubmitExpires(s)
  \/ NativeReject(s)
  \/ NativeApprove(s)
  \/ NativeClaim(s)

NativeNext ==
  \/ \E s \in DbSessions :
       \/ \E o \in NativeOps : BeginsTx(s, o)
       \/ Selects(s)
       \/ Inserts(s)
       \/ NativeCommit(s)
       \/ RollsBack(s)
  \/ \E t \in TokenIds : Lapse(t) /\ UNCHANGED dbSession

NativeSpec == NativeInit /\ [][NativeNext]_nativeVars

----------------------------------------------------------------------------
(* Properties.                                                             *)

\* The registry that sessions build statement by statement is one the one-step
\* operations of the SQLite store could have built: pointers, active endpoints
\* and enabled nodes agree and lineage is sound after every commit, although
\* the transactions of two sessions interleave, read rows before the other
\* commits, and lock nodes and endpoints in opposite orders.
NativeRegistrySound ==
  RegistryInv /\ UniqueActiveEndpoint /\ EnabledDispatchable /\ LineageSound
    /\ TokenAccounting /\ FingerprintOrigin /\ BindingAudited

\* The inductive form: no row or index entry is locked by two sessions; a node
\* never points at a missing or rotated endpoint; and every open transaction
\* can still rely on what it has read and claimed.
LocksApart ==
  \A s1, s2 \in DbSessions : s1 # s2 => dbSession[s1].held \cap dbSession[s2].held = {}

PointerCurrent ==
  \A n \in NodeIds : nodes[n] # None =>
    trust[nodes[n].endpoint_id] # None /\ trust[nodes[n].endpoint_id].status # "rotated"

\* The statements a session has executed.
Executed(x) == {Script(x)[i] : i \in 1..(x.at - 1)}

\* A row that was found is locked and still as it was read; the clock may have
\* passed a token's expires_at.
Holds(x, k) == k \in DOMAIN x.seen /\ x.seen[k] # None

ReadsCurrent(x) ==
  /\ \A n \in NodeIds : Holds(x, <<"node", n>>) =>
       <<"node", n>> \in x.held /\ x.seen[<<"node", n>>] = nodes[n]
  /\ \A e \in EndpointIds : Holds(x, <<"trust", e>>) =>
       <<"trust", e>> \in x.held /\ x.seen[<<"trust", e>>] = trust[e]
  /\ \A r \in RequestIds : Holds(x, <<"join", r>>) =>
       <<"join", r>> \in x.held /\ x.seen[<<"join", r>>] = joins[r]
  /\ \A t \in TokenIds : Holds(x, <<"token", t>>) =>
       /\ <<"token", t>> \in x.held /\ tokens[t] # None
       /\ x.seen[<<"token", t>>].status = tokens[t].status
       /\ x.seen[<<"token", t>>].max_uses = tokens[t].max_uses
       /\ x.seen[<<"token", t>>].used_count = tokens[t].used_count

\* The keys an insert took are still taken by no committed row.
ClaimsFree(x, keys) ==
  /\ keys \subseteq x.held
  /\ \A n \in NodeIds : <<"node", n>> \in keys => nodes[n] = None
  /\ \A e \in EndpointIds : <<"trust", e>> \in keys => trust[e] = None
  /\ \A r \in RequestIds : <<"join", r>> \in keys => joins[r] = None
  /\ \A t \in TokenIds : <<"token", t>> \in keys => tokens[t] = None
  /\ \A e \in EndpointIds : <<"node_at", e>> \in keys => NodesAt(e) = {}
  /\ \A n \in NodeIds : <<"active", n>> \in keys => ActiveEndpoints(n) \subseteq {x.op.e}

\* What set_node_enabled read of the node's endpoint without locking it holds as
\* long as the node is locked.
BoundCurrent(x) ==
  x.op.name = "enable" =>
    \A e \in EndpointIds : <<"bound", e>> \in DOMAIN x.seen =>
      LET row == x.seen[<<"bound", e>>]
      IN /\ x.op.n \in NodesAt(e) /\ <<"node", x.op.n>> \in x.held
         /\ row # None /\ row.node_id = x.op.n /\ row.status = "active" => ActiveFor(x.op.n, e)

\* A node that update_endpoint_status did not find, and so could not lock, does
\* not come to point at the endpoint.
AbsentApart(x) ==
  x.op.name \in {"revoked", "quarantined"} =>
    \A n \in NodeIds : <<"node", n>> \in DOMAIN x.seen /\ x.seen[<<"node", n>>] = None =>
      <<"trust", x.op.e>> \in x.held /\ n \notin NodesAt(x.op.e)

\* remove_node found the endpoint the node points at.
RemovesFound(x) ==
  x.op.name = "remove" =>
    \A e \in EndpointIds : <<"trust", e>> \in DOMAIN x.seen => x.seen[<<"trust", e>>] # None

SessionInv(x) ==
  /\ x.op \in NativeOps /\ x.at \in Nat /\ x.at >= 1
  /\ \A c \in Executed(x) : c.does = "select" => c.keys \subseteq DOMAIN x.seen
  /\ \A c \in Executed(x) : c.does = "insert" => ClaimsFree(x, c.keys)
  /\ ReadsCurrent(x) /\ BoundCurrent(x) /\ AbsentApart(x) /\ RemovesFound(x)

SessionsInv ==
  /\ dbSession = [s \in DbSessions |-> dbSession[s]]
  /\ \A s \in DbSessions : dbSession[s] # NoTx => SessionInv(dbSession[s])

NativeInv == TypeOK /\ NativeRegistrySound /\ PointerCurrent /\ LocksApart /\ SessionsInv
============================================================================
