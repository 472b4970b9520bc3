--------------------------- MODULE TrustRegistry ---------------------------
(***************************************************************************)
(* The controller's trust registry: the SQLite tables nodes,               *)
(* endpoint_trust, enrollment_tokens and join_requests, and the store      *)
(* operations that write them (crates/ocfleet-cli/src/store.rs).           *)
(*                                                                         *)
(* Every operation of the store is one SQLite transaction that re-reads    *)
(* the rows it depends on, so each is one atomic action here; a deferred   *)
(* transaction whose snapshot went stale fails to upgrade to a writer and  *)
(* rolls back.  An operation that returns an error, and the replay of one  *)
(* already applied, leave the tables as they are: both are stuttering.     *)
(* Of the audit log only the enrollment.approve and enrollment.claim rows  *)
(* are kept, the ones a later operation reads.                             *)
(*                                                                         *)
(* Data that is abstracted: a token's credential is its identity; a join   *)
(* request's fingerprint is the request; the trust bundle of a row is a    *)
(* copy of its endpoint, generation and status and is left out; the wall   *)
(* clock is the flag "lapsed" (expires_at is not in the future).           *)
(*                                                                         *)
(* A definition introduced as a fault is not part of the specification: it *)
(* is what the definition after it would be with one mistake in the code,  *)
(* kept to show which property notices.                                    *)
(***************************************************************************)
EXTENDS Integers, FiniteSets, Sequences

CONSTANTS
  NodeIds, EndpointIds, TokenIds, RequestIds,
  None,             \* SQL NULL, and the absence of a row
  MaxGeneration,    \* i64::MAX, the last generation a row can hold
  MaxTokenUses      \* MAX_ENROLLMENT_TOKEN_USES

VARIABLES
  nodes,    \* node_id -> row of nodes, or None
  trust,    \* endpoint_id -> row of endpoint_trust, or None
  tokens,   \* token_id -> row of enrollment_tokens, or None
  joins,    \* request_id -> row of join_requests, or None
  audit     \* request_id -> its approve and claim audit rows, in order

vars == <<nodes, trust, tokens, joins, audit>>

EndpointStatus == {"active", "quarantined", "revoked", "rotated"}

NodeRow == [endpoint_id : EndpointIds, enabled : BOOLEAN]

EndpointTrustRecord ==
  [node_id : NodeIds \cup {None},
   fingerprint : RequestIds \cup {None},
   status : EndpointStatus,
   generation : 1..MaxGeneration,
   previous_endpoint_id : EndpointIds \cup {None},
   rotated_to : EndpointIds \cup {None}]

EnrollmentTokenRecord ==
  [status : {"active", "revoked", "expired"},
   max_uses : 1..MaxTokenUses,
   used_count : 0..MaxTokenUses,
   lapsed : BOOLEAN]

JoinRequestRecord ==
  [token_id : TokenIds,
   status : {"pending", "approved", "rejected"},
   requested_endpoint_id : EndpointIds \cup {None},
   assigned_endpoint_id : EndpointIds \cup {None}]

EnrollmentAudit ==
  [event : {"enrollment.approve", "enrollment.claim"},
   endpoint_id : EndpointIds,
   node_id : NodeIds \cup {None}]

\* The names are finite sets, apart from NULL and from every row; generations
\* start at 1.
ASSUME ConstantsAssumption ==
  /\ IsFiniteSet(RequestIds)
  /\ None \notin NodeIds \cup EndpointIds \cup TokenIds \cup RequestIds
  /\ None \notin NodeRow
  /\ None \notin EndpointTrustRecord
  /\ None \notin EnrollmentTokenRecord
  /\ None \notin JoinRequestRecord
  /\ None \notin [status : EndpointStatus, generation : 1..MaxGeneration,
                  owner : NodeIds \cup {None}]
  /\ MaxGeneration \in Nat /\ MaxGeneration >= 2
  /\ MaxTokenUses \in Nat /\ MaxTokenUses >= 1

----------------------------------------------------------------------------
(* The queries the operations share.                                       *)

\* The rows get_active_endpoint_trust_for_node_tx selects.
ActiveFor(n, e) == trust[e] # None /\ trust[e].node_id = n /\ trust[e].status = "active"

ActiveEndpoints(n) == {e \in EndpointIds : ActiveFor(n, e)}

\* get_node_by_endpoint_tx; nodes.endpoint_id is UNIQUE.
NodesAt(e) == {n \in NodeIds : nodes[n] # None /\ nodes[n].endpoint_id = e}

\* endpoint_trust_count_for_node_tx(n) = 0.
NoTrustHistory(n) ==
  \A e \in EndpointIds : trust[e] # None => trust[e].node_id # n

\* validate_unrotated_lineage
UnrotatedLineage(e) ==
  LET row == trust[e]
      p == row.previous_endpoint_id
  IN /\ row.rotated_to = None
     /\ p # None => /\ trust[p] # None
                    /\ trust[p].status = "rotated"
                    /\ trust[p].rotated_to = e
                    /\ trust[p].node_id = row.node_id
                    /\ trust[p].fingerprint = row.fingerprint
                    /\ trust[p].generation <= row.generation

\* validate_rotation_edge
RotationEdge(old, new) ==
  LET o == trust[old]
      c == trust[new]
      p == o.previous_endpoint_id
  IN /\ o.status = "rotated" /\ o.rotated_to = new
     /\ c.previous_endpoint_id = old
     /\ o.node_id = c.node_id
     /\ o.fingerprint = c.fingerprint
     /\ o.generation <= c.generation
     /\ c.status # "rotated" => UnrotatedLineage(new)
     /\ p # None => /\ trust[p] # None
                    /\ trust[p].status = "rotated"
                    /\ trust[p].rotated_to = old

\* validate_active_node_binding_tx
ActiveNodeBinding(n) ==
  LET e == nodes[n].endpoint_id
  IN /\ trust[e] # None
     /\ UnrotatedLineage(e)
     /\ trust[e].status = "active" /\ trust[e].node_id = n
     /\ ActiveEndpoints(n) = {e}

\* next_endpoint_generation does not report an exhausted generation.
HasNextGeneration(e) == trust[e].generation < MaxGeneration

\* transition_endpoint_status_tx: its checks, and the row it writes.
CanTransition(e) == UnrotatedLineage(e) /\ HasNextGeneration(e)

Transitioned(e, status) ==
  [trust[e] EXCEPT !.status = status, !.generation = @ + 1]

\* The trust row insert_endpoint_trust_tx writes for a first binding.
OriginalTrust(n, fp) ==
  [node_id |-> n, fingerprint |-> fp, status |-> "active", generation |-> 1,
   previous_endpoint_id |-> None, rotated_to |-> None]

\* The gate classify_endpoint_trust applies before a dispatch to (n, e).
Dispatchable(n, e) ==
  /\ trust[e] # None
  /\ trust[e].status = "active"
  /\ trust[e].node_id = n
  /\ nodes[n] # None
  /\ nodes[n].endpoint_id = e
  /\ nodes[n].enabled
  /\ ActiveEndpoints(n) = {e}

----------------------------------------------------------------------------
(* Node registry.                                                          *)

\* add_node: both inserts must succeed, under the primary keys of nodes and
\* endpoint_trust and the UNIQUE endpoint of nodes.
AddNode(n, e) ==
  /\ nodes[n] = None
  /\ NodesAt(e) = {}
  /\ trust[e] = None
  /\ nodes' = [nodes EXCEPT ![n] = [endpoint_id |-> e, enabled |-> TRUE]]
  /\ trust' = [trust EXCEPT ![e] = OriginalTrust(n, None)]
  /\ UNCHANGED <<tokens, joins, audit>>

\* set_node_enabled: only enabling looks at the binding.
SetNodeEnabled(n, enabled) ==
  /\ nodes[n] # None
  /\ enabled => ActiveNodeBinding(n)
  /\ nodes' = [nodes EXCEPT ![n].enabled = enabled]
  /\ UNCHANGED <<trust, tokens, joins, audit>>

\* Fault: removal looks only at the endpoint the node points at.
RemovalCandidatesPointerOnly(n) ==
  {e \in {nodes[n].endpoint_id} : trust[e] # None /\ trust[e].status = "active"}

\* remove_node: the Active rows bound to the node, and the row its pointer
\* names if that is Active; at most one, not current for another node.  It is
\* revoked and the node deleted; rows in other states stay as tombstones.
RemovalCandidates(n) ==
  ActiveEndpoints(n) \cup
    {e \in {nodes[n].endpoint_id} : trust[e] # None /\ trust[e].status = "active"}

RemoveNode(n) ==
  /\ nodes[n] # None
  /\ \A a, b \in RemovalCandidates(n) : a = b
  /\ \A e \in RemovalCandidates(n) : NodesAt(e) \subseteq {n} /\ CanTransition(e)
  /\ trust' = [e \in EndpointIds |->
                 IF e \in RemovalCandidates(n) THEN Transitioned(e, "revoked") ELSE trust[e]]
  /\ nodes' = [nodes EXCEPT ![n] = None]
  /\ UNCHANGED <<tokens, joins, audit>>

----------------------------------------------------------------------------
(* Enrollment tokens and join requests.                                    *)

\* create_enrollment_token
CreateToken(t, max_uses) ==
  /\ tokens[t] = None
  /\ tokens' = [tokens EXCEPT ![t] = [status |-> "active", max_uses |-> max_uses,
                                      used_count |-> 0, lapsed |-> FALSE]]
  /\ UNCHANGED <<nodes, trust, joins, audit>>

\* The clock passes the token's expires_at.
Lapse(t) ==
  /\ tokens[t] # None /\ ~tokens[t].lapsed
  /\ tokens' = [tokens EXCEPT ![t].lapsed = TRUE]
  /\ UNCHANGED <<nodes, trust, joins, audit>>

\* revoke_enrollment_token: an expired token, marked so or not, is refused.
RevokeToken(t) ==
  /\ tokens[t] # None
  /\ tokens[t].status = "active" /\ ~tokens[t].lapsed
  /\ tokens' = [tokens EXCEPT ![t].status = "revoked"]
  /\ UNCHANGED <<nodes, trust, joins, audit>>

\* Fault: a use count at its limit does not stop a submission.
TokenUsableUnlimited(t) ==
  tokens[t].status = "active" /\ ~tokens[t].lapsed /\ tokens[t].used_count < MaxTokenUses

\* The token checks of submit_join_request: active, in time, not used up.
TokenUsable(t) ==
  /\ tokens[t].status = "active" /\ ~tokens[t].lapsed
  /\ tokens[t].used_count < tokens[t].max_uses

\* submit_join_request records a pending request and counts the use.
SubmitJoin(r, t, requested) ==
  /\ tokens[t] # None
  /\ joins[r] = None
  /\ TokenUsable(t)
  /\ joins' = [joins EXCEPT ![r] =
                 [token_id |-> t, status |-> "pending",
                  requested_endpoint_id |-> requested, assigned_endpoint_id |-> None]]
  /\ tokens' = [tokens EXCEPT ![t].used_count = @ + 1]
  /\ UNCHANGED <<nodes, trust, audit>>

\* submit_join_request meets an active token whose time has passed: the lazy
\* expiry commits although the request is refused.
SubmitExpires(r, t) ==
  /\ tokens[t] # None
  /\ joins[r] = None
  /\ tokens[t].status = "active" /\ tokens[t].lapsed
  /\ tokens' = [tokens EXCEPT ![t].status = "expired"]
  /\ UNCHANGED <<nodes, trust, joins, audit>>

\* Fault: a request that was approved can still be rejected.
RejectJoinDecided(r) ==
  /\ joins[r] # None
  /\ joins[r].status # "rejected"
  /\ joins' = [joins EXCEPT ![r].status = "rejected"]
  /\ UNCHANGED <<nodes, trust, tokens, audit>>

\* reject_join_request
RejectJoin(r) ==
  /\ joins[r] # None
  /\ joins[r].status = "pending"
  /\ joins' = [joins EXCEPT ![r].status = "rejected"]
  /\ UNCHANGED <<nodes, trust, tokens, audit>>

\* The checks approve_join_request and claim_legacy_enrollment share: the
\* operator's node id is new and has no trust history, and no node points at
\* the endpoint.
FreshBinding(n, e) ==
  /\ nodes[n] = None
  /\ NodesAt(e) = {}
  /\ NoTrustHistory(n)

\* Requests other than r approved for e (approved_join_assignment_count_tx).
OtherAssignments(r, e) ==
  {q \in RequestIds \ {r} : /\ joins[q] # None
                            /\ joins[q].status = "approved"
                            /\ joins[q].assigned_endpoint_id = e}

\* approve_join_request on a pending request.
ApproveJoin(r, n, e) ==
  /\ joins[r] # None
  /\ joins[r].status = "pending"
  /\ joins[r].requested_endpoint_id \in {None, e}
  /\ FreshBinding(n, e)
  /\ trust[e] = None
  /\ OtherAssignments(r, e) = {}
  /\ nodes' = [nodes EXCEPT ![n] = [endpoint_id |-> e, enabled |-> TRUE]]
  /\ trust' = [trust EXCEPT ![e] = OriginalTrust(n, r)]
  /\ joins' = [joins EXCEPT ![r].status = "approved", ![r].assigned_endpoint_id = e]
  /\ audit' = [audit EXCEPT ![r] =
       Append(@, [event |-> "enrollment.approve", endpoint_id |-> e, node_id |-> n])]
  /\ UNCHANGED tokens

\* validate_approved_join_provenance_tx
ApprovedJoinProvenance(r, e) ==
  /\ joins[r].status = "approved"
  /\ joins[r].assigned_endpoint_id = e
  /\ joins[r].requested_endpoint_id \in {None, e}
  /\ OtherAssignments(r, e) = {}

\* validate_approved_join_audit_provenance_tx(.., None): exactly one approval
\* of the request is on record, and it named no node.
ApprovedUnbound(r, e) ==
  Cardinality({i \in DOMAIN audit[r] :
     audit[r][i] = [event |-> "enrollment.approve", endpoint_id |-> e, node_id |-> None]}) = 1

\* Fault: only the fingerprint of the endpoint is compared.
LegacyTrustAnyShape(r, e) == trust[e] # None /\ trust[e].fingerprint = r

\* validate_enrollment_endpoint_origin on a row that has no node: Active, first
\* generation, no lineage, the request's fingerprint.
LegacyUnboundTrust(r, e) == trust[e] = OriginalTrust(None, r)

\* claim_legacy_enrollment on a row an older binary approved without a node.
ClaimLegacy(r, n, e) ==
  /\ joins[r] # None
  /\ ApprovedJoinProvenance(r, e)
  /\ ApprovedUnbound(r, e)
  /\ LegacyUnboundTrust(r, e)
  /\ FreshBinding(n, e)
  /\ nodes' = [nodes EXCEPT ![n] = [endpoint_id |-> e, enabled |-> TRUE]]
  /\ trust' = [trust EXCEPT ![e].node_id = n]
  /\ audit' = [audit EXCEPT ![r] =
       Append(@, [event |-> "enrollment.claim", endpoint_id |-> e, node_id |-> n])]
  /\ UNCHANGED <<tokens, joins>>

----------------------------------------------------------------------------
(* Endpoint lifecycle.                                                     *)

\* validate_rotation_binding_tx
RotationBinding(e) ==
  LET n == trust[e].node_id
  IN /\ n # None
     /\ nodes[n] # None
     /\ nodes[n].endpoint_id = e
     /\ ActiveEndpoints(n) = IF trust[e].status = "active" THEN {e} ELSE {}

\* Fault: the successor starts again at generation 1.
SuccessorRestarts(old) ==
  [node_id |-> trust[old].node_id, fingerprint |-> trust[old].fingerprint,
   status |-> "active", generation |-> 1, previous_endpoint_id |-> old, rotated_to |-> None]

\* The row rotate_endpoint inserts for the new endpoint.
Successor(old) ==
  [node_id |-> trust[old].node_id, fingerprint |-> trust[old].fingerprint,
   status |-> "active", generation |-> trust[old].generation + 1,
   previous_endpoint_id |-> old, rotated_to |-> None]

\* rotate_endpoint on an Active or Quarantined row: the old row is retired,
\* its successor inserted Active, and the node's pointer moved; the node is
\* disabled if the old row was in quarantine.
RotateEndpoint(old, new) ==
  /\ old # new
  /\ trust[old] # None
  /\ trust[old].status \in {"active", "quarantined"}
  /\ trust[new] = None
  /\ UnrotatedLineage(old)
  /\ RotationBinding(old)
  /\ HasNextGeneration(old)
  /\ NodesAt(new) = {}
  /\ LET n == trust[old].node_id
     IN /\ trust' = [trust EXCEPT
              ![old] = [Transitioned(old, "rotated") EXCEPT !.rotated_to = new],
              ![new] = Successor(old)]
        /\ nodes' = [nodes EXCEPT ![n] =
              [endpoint_id |-> new, enabled |-> @.enabled /\ trust[old].status # "quarantined"]]
  /\ UNCHANGED <<tokens, joins, audit>>

\* validate_legacy_rotation_reconciliation_tx
DeterministicChild(n, new) ==
  /\ trust[new].status # "rotated"
  /\ ActiveEndpoints(n) = IF trust[new].status = "active" THEN {new} ELSE {}

\* Fault: the reconciliation forgets to disable.
ReconciledNodeStaysEnabled(n, new) == [endpoint_id |-> new, enabled |-> nodes[n].enabled]

\* The node row the reconciliation writes: it keeps the node enabled only on
\* an Active endpoint.
ReconciledNode(n, new) ==
  [endpoint_id |-> new, enabled |-> nodes[n].enabled /\ trust[new].status = "active"]

\* rotate_endpoint on a row already rotated to new: the one repair it makes is
\* to move a pointer an older binary left at the old endpoint.
ReconcileRotation(old, new) ==
  /\ old # new
  /\ trust[old] # None
  /\ trust[old].status = "rotated" /\ trust[old].rotated_to = new
  /\ trust[new] # None
  /\ RotationEdge(old, new)
  /\ LET n == trust[old].node_id
     IN /\ n # None
        /\ nodes[n] # None
        /\ DeterministicChild(n, new)
        /\ nodes[n].endpoint_id = old
        /\ NodesAt(new) = {}
        /\ nodes' = [nodes EXCEPT ![n] = ReconciledNode(n, new)]
  /\ UNCHANGED <<trust, tokens, joins, audit>>

\* Fault: a revoked endpoint can be moved to quarantine.
AllowedStatusChangeRevived(from, to) == from # "rotated" /\ from # to

\* The pairs update_endpoint_status lets through.
AllowedStatusChange(from, to) ==
  \/ from = "active" /\ to \in {"revoked", "quarantined"}
  \/ from = "quarantined" /\ to = "revoked"

\* update_endpoint_status: revoke_endpoint and quarantine_endpoint.  The node
\* is disabled when it currently points at the endpoint.
UpdateEndpointStatus(e, status) ==
  /\ trust[e] # None
  /\ AllowedStatusChange(trust[e].status, status)
  /\ CanTransition(e)
  /\ trust' = [trust EXCEPT ![e] = Transitioned(e, status)]
  /\ nodes' = [n \in NodeIds |->
                 IF n = trust[e].node_id /\ nodes[n] # None /\ nodes[n].endpoint_id = e
                 THEN [nodes[n] EXCEPT !.enabled = FALSE]
                 ELSE nodes[n]]
  /\ UNCHANGED <<tokens, joins, audit>>

----------------------------------------------------------------------------
(* Initial states: an empty database, or one of the shapes that databases  *)
(* written by older binaries contain and the operations provide for.       *)

EmptyTable(S) == [x \in S |-> None]

FreshInit ==
  /\ nodes = EmptyTable(NodeIds)
  /\ trust = EmptyTable(EndpointIds)
  /\ tokens = EmptyTable(TokenIds)
  /\ joins = EmptyTable(RequestIds)
  /\ audit = [r \in RequestIds |-> <<>>]

\* A node registered before schema 3 created endpoint_trust without filling it.
UntrustedNodeInit ==
  /\ \E n \in NodeIds, e \in EndpointIds, enabled \in BOOLEAN :
       nodes = [EmptyTable(NodeIds) EXCEPT ![n] = [endpoint_id |-> e, enabled |-> enabled]]
  /\ trust = EmptyTable(EndpointIds)
  /\ tokens = EmptyTable(TokenIds)
  /\ joins = EmptyTable(RequestIds)
  /\ audit = [r \in RequestIds |-> <<>>]

\* A request an older binary approved without naming a node.
UnboundApprovalInit ==
  \E t \in TokenIds, r \in RequestIds, e \in EndpointIds, requested \in {TRUE, FALSE} :
    /\ nodes = EmptyTable(NodeIds)
    /\ trust = [EmptyTable(EndpointIds) EXCEPT ![e] = OriginalTrust(None, r)]
    /\ tokens = [EmptyTable(TokenIds) EXCEPT ![t] =
                   [status |-> "active", max_uses |-> 1, used_count |-> 1, lapsed |-> FALSE]]
    /\ joins = [EmptyTable(RequestIds) EXCEPT ![r] =
                  [token_id |-> t, status |-> "approved",
                   requested_endpoint_id |-> IF requested THEN e ELSE None,
                   assigned_endpoint_id |-> e]]
    /\ audit = [q \in RequestIds |->
                  IF q = r THEN <<[event |-> "enrollment.approve", endpoint_id |-> e, node_id |-> None]>>
                  ELSE <<>>]

\* A rotation of an older binary that left the node's pointer behind.
StalePointerInit ==
  /\ \E n \in NodeIds, old, new \in EndpointIds, enabled \in BOOLEAN :
       /\ old # new
       /\ nodes = [EmptyTable(NodeIds) EXCEPT ![n] = [endpoint_id |-> old, enabled |-> enabled]]
       /\ trust = [EmptyTable(EndpointIds) EXCEPT
            ![old] = [node_id |-> n, fingerprint |-> None, status |-> "rotated", generation |-> 2,
                      previous_endpoint_id |-> None, rotated_to |-> new],
            ![new] = [node_id |-> n, fingerprint |-> None, status |-> "active", generation |-> 2,
                      previous_endpoint_id |-> old, rotated_to |-> None]]
  /\ tokens = EmptyTable(TokenIds)
  /\ joins = EmptyTable(RequestIds)
  /\ audit = [r \in RequestIds |-> <<>>]

Init == FreshInit \/ UntrustedNodeInit \/ UnboundApprovalInit \/ StalePointerInit

Next ==
  \/ \E n \in NodeIds, e \in EndpointIds : AddNode(n, e)
  \/ \E n \in NodeIds, enabled \in BOOLEAN : SetNodeEnabled(n, enabled)
  \/ \E n \in NodeIds : RemoveNode(n)
  \/ \E t \in TokenIds, m \in 1..MaxTokenUses : CreateToken(t, m)
  \/ \E t \in TokenIds : Lapse(t)
  \/ \E t \in TokenIds : RevokeToken(t)
  \/ \E r \in RequestIds, t \in TokenIds, q \in EndpointIds \cup {None} : SubmitJoin(r, t, q)
  \/ \E r \in RequestIds, t \in TokenIds : SubmitExpires(r, t)
  \/ \E r \in RequestIds : RejectJoin(r)
  \/ \E r \in RequestIds, n \in NodeIds, e \in EndpointIds : ApproveJoin(r, n, e)
  \/ \E r \in RequestIds, n \in NodeIds, e \in EndpointIds : ClaimLegacy(r, n, e)
  \/ \E old, new \in EndpointIds : RotateEndpoint(old, new)
  \/ \E old, new \in EndpointIds : ReconcileRotation(old, new)
  \/ \E e \in EndpointIds, s \in {"revoked", "quarantined"} : UpdateEndpointStatus(e, s)

Spec == Init /\ [][Next]_vars

----------------------------------------------------------------------------
(* Properties.                                                             *)

\* Every table holds well-formed rows, and generations and use counts stay in
\* the range of their columns.
TypeOK ==
  /\ nodes \in [NodeIds -> NodeRow \cup {None}]
  /\ trust \in [EndpointIds -> EndpointTrustRecord \cup {None}]
  /\ tokens \in [TokenIds -> EnrollmentTokenRecord \cup {None}]
  /\ joins \in [RequestIds -> JoinRequestRecord \cup {None}]
  /\ audit \in [RequestIds -> Seq(EnrollmentAudit)]

\* No node is ever bound to two Active endpoints: removal, re-registration,
\* rotation and reconciliation never leave a second one behind, so the
\* dispatch gate and remove_node never meet AmbiguousActiveEndpointBinding.
UniqueActiveEndpoint ==
  \A n \in NodeIds : \A a, b \in ActiveEndpoints(n) : a = b

\* An enabled node is always one the controller may dispatch to: the operation
\* that withdraws trust from a node's current endpoint disables the node in the
\* same transaction, so the gate never refuses a node its registry calls
\* enabled.  (A pointer without trust, or at a rotated endpoint, is a shape
\* only an older binary leaves.)
EnabledDispatchable ==
  \A n \in NodeIds :
    nodes[n] # None /\ nodes[n].enabled =>
      LET e == nodes[n].endpoint_id
      IN trust[e] = None \/ trust[e].status = "rotated" \/ Dispatchable(n, e)

\* The inductive form of the two invariants above: a node points at an endpoint
\* of its own (or one without trust), two nodes never at the same one, and an
\* Active endpoint bound to a node is the one that node points at, or the
\* successor of the rotated one it points at; an enabled node points neither
\* at a revoked nor at a quarantined endpoint.
PointerOwned ==
  \A n \in NodeIds : nodes[n] # None =>
    \/ trust[nodes[n].endpoint_id] = None
    \/ trust[nodes[n].endpoint_id].node_id = n

PointersDistinct ==
  \A m, n \in NodeIds :
    nodes[m] # None /\ nodes[n] # None /\ nodes[m].endpoint_id = nodes[n].endpoint_id => m = n

Reaches(n, e) ==
  /\ nodes[n] # None
  /\ LET p == nodes[n].endpoint_id
     IN p = e \/ (trust[p] # None /\ trust[p].status = "rotated" /\ trust[p].rotated_to = e)

ActiveReachable ==
  \A n \in NodeIds, e \in EndpointIds : ActiveFor(n, e) => Reaches(n, e)

EnabledNodeTrusted ==
  \A n \in NodeIds :
    nodes[n] # None /\ nodes[n].enabled =>
      \/ trust[nodes[n].endpoint_id] = None
      \/ /\ trust[nodes[n].endpoint_id].node_id = n
         /\ trust[nodes[n].endpoint_id].status \in {"active", "rotated"}

RegistryInv == PointerOwned /\ PointersDistinct /\ ActiveReachable /\ EnabledNodeTrusted

\* Rotation lineage: the forward and backward links of two rows agree, only
\* rotated rows have a successor, and along an edge node and fingerprint are
\* kept and the generation does not fall.  The lineage checks of the store
\* therefore never refuse a row the store wrote itself.
LineageSound ==
  \A e \in EndpointIds : trust[e] # None =>
    /\ trust[e].status = "rotated" <=> trust[e].rotated_to # None
    /\ \A f \in EndpointIds :
         trust[e].rotated_to = f =>
           /\ trust[f] # None /\ trust[f].previous_endpoint_id = e
           /\ trust[f].node_id = trust[e].node_id
           /\ trust[f].fingerprint = trust[e].fingerprint
           /\ trust[e].generation <= trust[f].generation
    /\ \A p \in EndpointIds :
         trust[e].previous_endpoint_id = p => trust[p] # None /\ trust[p].rotated_to = e

\* The requests submitted with a token.
SubmittedWith(t) == {r \in RequestIds : joins[r] # None /\ joins[r].token_id = t}

\* A token admits exactly the requests it has counted, and never more than
\* max_uses of them, however submissions, retries and expiry interleave.
TokenAccounting ==
  \A t \in TokenIds :
    IF tokens[t] = None
    THEN SubmittedWith(t) = {}
    ELSE /\ tokens[t].used_count = Cardinality(SubmittedWith(t))
         /\ tokens[t].used_count <= tokens[t].max_uses

\* Every endpoint that carries a request's fingerprint goes back, rotation by
\* rotation, to the one endpoint that request was approved for; so a decided
\* request is never decided again, and no second request adopts its endpoint.
FingerprintOrigin ==
  /\ \A e \in EndpointIds : \A r \in RequestIds :
       trust[e] # None /\ trust[e].fingerprint = r =>
         /\ joins[r] # None /\ joins[r].status = "approved"
         /\ trust[e].previous_endpoint_id = None => joins[r].assigned_endpoint_id = e
  /\ \A r \in RequestIds :
       joins[r] # None /\ joins[r].status = "approved" =>
         LET e == joins[r].assigned_endpoint_id
         IN e # None /\ trust[e] # None /\ trust[e].fingerprint = r

\* The node an enrolled endpoint is bound to is the one its audit trail names:
\* one approval per approved request, at most one later claim, and the last of
\* them names the node the endpoint is bound to (or none, before the claim).
BindingAudited ==
  \A r \in RequestIds :
    IF joins[r] # None /\ joins[r].status = "approved"
    THEN /\ Len(audit[r]) \in {1, 2}
         /\ audit[r][1].event = "enrollment.approve"
         /\ Len(audit[r]) = 2 => /\ audit[r][1].node_id = None
                                 /\ audit[r][2].event = "enrollment.claim"
                                 /\ audit[r][2].node_id # None
         /\ audit[r][Len(audit[r])].node_id = trust[joins[r].assigned_endpoint_id].node_id
    ELSE audit[r] = <<>>

\* What the endpoint lifecycle sees of the trust table.
Identities ==
  [e \in EndpointIds |->
     IF trust[e] = None THEN None
     ELSE [status |-> trust[e].status, generation |-> trust[e].generation,
           owner |-> trust[e].node_id]]

Lifecycle == INSTANCE EndpointLifecycle
  WITH Owners <- NodeIds, Endpoints <- EndpointIds, endpoint <- Identities

\* The registry implements the endpoint lifecycle: an identity is registered
\* once, is bound to one node for good, never becomes active again, and its
\* generation counts its status changes.
LifecycleSpec == Lifecycle!Spec
============================================================================
