------------------------- MODULE TrustRegistryProofs -------------------------
(***************************************************************************)
(* Theorems about TrustRegistry, for any sets of nodes, endpoints, tokens  *)
(* and requests and any limits.                                            *)
(***************************************************************************)
EXTENDS TrustRegistry, FiniteSetTheorems, TLAPS

----------------------------------------------------------------------------
(* The rows the operations write are well formed.                          *)

\* A node row for an endpoint.
LEMMA NodeRowType ==
  ASSUME NEW e \in EndpointIds, NEW b \in BOOLEAN
  PROVE  [endpoint_id |-> e, enabled |-> b] \in NodeRow
BY Zenon DEF NodeRow

\* The trust row of a first registration.
LEMMA OriginalTrustType ==
  ASSUME NEW n \in NodeIds \cup {None}, NEW fp \in RequestIds \cup {None}
  PROVE  OriginalTrust(n, fp) \in EndpointTrustRecord
BY ConstantsAssumption DEF OriginalTrust, EndpointTrustRecord, EndpointStatus

\* A revocation or quarantine writes a row of the next generation.
LEMMA TransitionedType ==
  ASSUME TypeOK, NEW e \in EndpointIds, trust[e] # None, HasNextGeneration(e),
         NEW s \in EndpointStatus
  PROVE  Transitioned(e, s) \in EndpointTrustRecord
<1>1. trust[e] \in EndpointTrustRecord
  BY Zenon DEF TypeOK
<1>2. trust[e].generation + 1 \in 1..MaxGeneration
  BY <1>1, ConstantsAssumption DEF HasNextGeneration, EndpointTrustRecord
<1> QED
  BY <1>1, <1>2, Zenon DEF Transitioned, EndpointTrustRecord

\* What transition_endpoint_status_tx keeps of the row it rewrites.
LEMMA TransitionedFields ==
  ASSUME TypeOK, NEW e \in EndpointIds, trust[e] # None, NEW s
  PROVE  /\ Transitioned(e, s).status = s
         /\ Transitioned(e, s).node_id = trust[e].node_id
         /\ Transitioned(e, s).generation = trust[e].generation + 1
         /\ Transitioned(e, s).fingerprint = trust[e].fingerprint
         /\ Transitioned(e, s).previous_endpoint_id = trust[e].previous_endpoint_id
         /\ Transitioned(e, s).rotated_to = trust[e].rotated_to
<1>1. trust[e] \in EndpointTrustRecord
  BY Zenon DEF TypeOK
<1> QED
  BY <1>1, Zenon DEF Transitioned, EndpointTrustRecord

\* The row of an endpoint that is rotated away.
LEMMA RotatedType ==
  ASSUME TypeOK, NEW e \in EndpointIds, trust[e] # None, HasNextGeneration(e),
         NEW f \in EndpointIds
  PROVE  [Transitioned(e, "rotated") EXCEPT !.rotated_to = f] \in EndpointTrustRecord
<1>1. Transitioned(e, "rotated") \in EndpointTrustRecord
  BY TransitionedType, Zenon DEF EndpointStatus
<1> QED
  BY <1>1, Zenon DEF EndpointTrustRecord

\* What a rotation changes in the row of the old endpoint, and what it keeps.
LEMMA RotatedFields ==
  ASSUME TypeOK, NEW e \in EndpointIds, trust[e] # None, NEW f
  PROVE  LET row == [Transitioned(e, "rotated") EXCEPT !.rotated_to = f]
         IN /\ row.status = "rotated" /\ row.rotated_to = f
            /\ row.node_id = trust[e].node_id
            /\ row.generation = trust[e].generation + 1
            /\ row.fingerprint = trust[e].fingerprint
            /\ row.previous_endpoint_id = trust[e].previous_endpoint_id
<1>1. trust[e] \in EndpointTrustRecord
  BY DEF TypeOK
<1> QED
  BY <1>1, Zenon DEF Transitioned, EndpointTrustRecord

\* The row of the endpoint a rotation brings in.
LEMMA SuccessorType ==
  ASSUME TypeOK, NEW e \in EndpointIds, trust[e] # None, HasNextGeneration(e)
  PROVE  Successor(e) \in EndpointTrustRecord
<1>1. trust[e] \in EndpointTrustRecord
  BY Zenon DEF TypeOK
<1> QED
  BY <1>1, ConstantsAssumption DEF Successor, HasNextGeneration, EndpointTrustRecord, EndpointStatus

----------------------------------------------------------------------------
(* The operations without the checks that the invariants do not rest on.   *)
(* A session of the native store makes these checks too, but on what it    *)
(* read before its last statement and does not hold: that the node has no  *)
(* trust history, that a submitted token has not lapsed, and that the      *)
(* request of a refused submission is new (see NativeTrust).               *)

LateSubmit(r, t, requested) ==
  /\ tokens[t] # None
  /\ joins[r] = None
  /\ tokens[t].status = "active" /\ tokens[t].used_count < tokens[t].max_uses
  /\ joins' = [joins EXCEPT ![r] =
                 [token_id |-> t, status |-> "pending",
                  requested_endpoint_id |-> requested, assigned_endpoint_id |-> None]]
  /\ tokens' = [tokens EXCEPT ![t].used_count = @ + 1]
  /\ UNCHANGED <<nodes, trust, audit>>

LateExpiry(t) ==
  /\ tokens[t] # None
  /\ tokens[t].status = "active" /\ tokens[t].lapsed
  /\ tokens' = [tokens EXCEPT ![t].status = "expired"]
  /\ UNCHANGED <<nodes, trust, joins, audit>>

LateApprove(r, n, e) ==
  /\ joins[r] # None
  /\ joins[r].status = "pending"
  /\ joins[r].requested_endpoint_id \in {None, e}
  /\ nodes[n] = None /\ NodesAt(e) = {}
  /\ trust[e] = None
  /\ OtherAssignments(r, e) = {}
  /\ nodes' = [nodes EXCEPT ![n] = [endpoint_id |-> e, enabled |-> TRUE]]
  /\ trust' = [trust EXCEPT ![e] = OriginalTrust(n, r)]
  /\ joins' = [joins EXCEPT ![r].status = "approved", ![r].assigned_endpoint_id = e]
  /\ audit' = [audit EXCEPT ![r] =
       Append(@, [event |-> "enrollment.approve", endpoint_id |-> e, node_id |-> n])]
  /\ UNCHANGED tokens

LateClaim(r, n, e) ==
  /\ joins[r] # None
  /\ ApprovedJoinProvenance(r, e)
  /\ ApprovedUnbound(r, e)
  /\ LegacyUnboundTrust(r, e)
  /\ nodes[n] = None /\ NodesAt(e) = {}
  /\ nodes' = [nodes EXCEPT ![n] = [endpoint_id |-> e, enabled |-> TRUE]]
  /\ trust' = [trust EXCEPT ![e].node_id = n]
  /\ audit' = [audit EXCEPT ![r] =
       Append(@, [event |-> "enrollment.claim", endpoint_id |-> e, node_id |-> n])]
  /\ UNCHANGED <<tokens, joins>>

LateNext ==
  \/ \E n \in NodeIds, e \in EndpointIds : AddNode(n, e)
  \/ \E n \in NodeIds, enabled \in BOOLEAN : SetNodeEnabled(n, enabled)
  \/ \E n \in NodeIds : RemoveNode(n)
  \/ \E t \in TokenIds, m \in 1..MaxTokenUses : CreateToken(t, m)
  \/ \E t \in TokenIds : Lapse(t)
  \/ \E t \in TokenIds : RevokeToken(t)
  \/ \E r \in RequestIds, t \in TokenIds, q \in EndpointIds \cup {None} : LateSubmit(r, t, q)
  \/ \E t \in TokenIds : LateExpiry(t)
  \/ \E r \in RequestIds : RejectJoin(r)
  \/ \E r \in RequestIds, n \in NodeIds, e \in EndpointIds : LateApprove(r, n, e)
  \/ \E r \in RequestIds, n \in NodeIds, e \in EndpointIds : LateClaim(r, n, e)
  \/ \E old, new \in EndpointIds : RotateEndpoint(old, new)
  \/ \E old, new \in EndpointIds : ReconcileRotation(old, new)
  \/ \E e \in EndpointIds, s \in {"revoked", "quarantined"} : UpdateEndpointStatus(e, s)

\* An operation that makes the check now is one that may have made it earlier.
LEMMA NextIsLate == [Next]_vars => [LateNext]_vars
<1>1. ASSUME NEW r \in RequestIds, NEW t \in TokenIds, NEW q \in EndpointIds \cup {None},
             SubmitJoin(r, t, q) PROVE LateSubmit(r, t, q)
  BY <1>1, Zenon DEF SubmitJoin, TokenUsable, LateSubmit
<1>2. ASSUME NEW r \in RequestIds, NEW t \in TokenIds, SubmitExpires(r, t) PROVE LateExpiry(t)
  BY <1>2, Zenon DEF SubmitExpires, LateExpiry
<1>3. ASSUME NEW r \in RequestIds, NEW n \in NodeIds, NEW e \in EndpointIds, ApproveJoin(r, n, e)
      PROVE  LateApprove(r, n, e)
  BY <1>3, Zenon DEF ApproveJoin, FreshBinding, LateApprove
<1>4. ASSUME NEW r \in RequestIds, NEW n \in NodeIds, NEW e \in EndpointIds, ClaimLegacy(r, n, e)
      PROVE  LateClaim(r, n, e)
  BY <1>4, Zenon DEF ClaimLegacy, FreshBinding, LateClaim
<1> QED
  BY <1>1, <1>2, <1>3, <1>4, Zenon DEF Next, LateNext

----------------------------------------------------------------------------
(* Type correctness.                                                       *)

\* The empty registry is well typed.
LEMMA InitType == Init => TypeOK
<1> USE ConstantsAssumption
<1>1. FreshInit => TypeOK
  BY DEF FreshInit, EmptyTable, TypeOK
<1>2. UntrustedNodeInit => TypeOK
  BY NodeRowType DEF UntrustedNodeInit, EmptyTable, TypeOK
<1>3. ASSUME UnboundApprovalInit PROVE TypeOK
  <2>1. PICK t \in TokenIds, r \in RequestIds, e \in EndpointIds, requested \in {TRUE, FALSE} :
          UnboundApprovalInit!(t, r, e, requested)
    BY <1>3, Zenon DEF UnboundApprovalInit
  <2>2. [status |-> "active", max_uses |-> 1, used_count |-> 1, lapsed |-> FALSE]
          \in EnrollmentTokenRecord
    BY DEF EnrollmentTokenRecord
  <2>3. [token_id |-> t, status |-> "approved",
         requested_endpoint_id |-> IF requested THEN e ELSE None,
         assigned_endpoint_id |-> e] \in JoinRequestRecord
    BY Zenon DEF JoinRequestRecord
  <2>4. <<[event |-> "enrollment.approve", endpoint_id |-> e, node_id |-> None]>>
          \in Seq(EnrollmentAudit)
    BY DEF EnrollmentAudit
  <2>5. OriginalTrust(None, r) \in EndpointTrustRecord
    BY OriginalTrustType, Zenon
  <2>6. nodes \in [NodeIds -> NodeRow \cup {None}] /\ trust \in [EndpointIds -> EndpointTrustRecord \cup {None}]
    BY <2>1, <2>5, Zenon DEF EmptyTable
  <2>7. tokens \in [TokenIds -> EnrollmentTokenRecord \cup {None}]
    BY <2>1, <2>2, Zenon DEF EmptyTable
  <2>8. joins \in [RequestIds -> JoinRequestRecord \cup {None}]
    BY <2>1, <2>3, Zenon DEF EmptyTable
  <2>9. audit \in [RequestIds -> Seq(EnrollmentAudit)]
    BY <2>1, <2>4
  <2> QED
    BY <2>6, <2>7, <2>8, <2>9, Zenon DEF TypeOK
<1>4. ASSUME StalePointerInit PROVE TypeOK
  <2>1. PICK n \in NodeIds, old \in EndpointIds, new \in EndpointIds, enabled \in BOOLEAN :
          StalePointerInit!1!(n, old, new, enabled)
    BY <1>4, Zenon DEF StalePointerInit
  <2>2. /\ [node_id |-> n, fingerprint |-> None, status |-> "rotated", generation |-> 2,
            previous_endpoint_id |-> None, rotated_to |-> new] \in EndpointTrustRecord
        /\ [node_id |-> n, fingerprint |-> None, status |-> "active", generation |-> 2,
            previous_endpoint_id |-> old, rotated_to |-> None] \in EndpointTrustRecord
    BY DEF EndpointTrustRecord, EndpointStatus
  <2>3. nodes \in [NodeIds -> NodeRow \cup {None}]
    BY <2>1, NodeRowType, Zenon DEF EmptyTable
  <2>4. trust \in [EndpointIds -> EndpointTrustRecord \cup {None}]
    BY <2>1, <2>2, Zenon DEF EmptyTable
  <2> QED
    BY <1>4, <2>3, <2>4 DEF StalePointerInit, EmptyTable, TypeOK
<1> QED
  BY <1>1, <1>2, <1>3, <1>4, Zenon DEF Init

\* Every operation of the registry keeps its types.
LEMMA LateType == TypeOK /\ [LateNext]_vars => TypeOK'
<1> SUFFICES ASSUME TypeOK, [LateNext]_vars PROVE TypeOK'
  BY Zenon
<1> USE ConstantsAssumption
<1>1. ASSUME NEW n \in NodeIds, NEW e \in EndpointIds, AddNode(n, e) PROVE TypeOK'
  BY <1>1, OriginalTrustType, NodeRowType, Zenon DEF AddNode, TypeOK
<1>2. ASSUME NEW n \in NodeIds, NEW b \in BOOLEAN, SetNodeEnabled(n, b) PROVE TypeOK'
  BY <1>2 DEF SetNodeEnabled, TypeOK, NodeRow
<1>3. ASSUME NEW n \in NodeIds, RemoveNode(n) PROVE TypeOK'
  <2>1. ASSUME NEW e \in RemovalCandidates(n)
        PROVE  e \in EndpointIds /\ Transitioned(e, "revoked") \in EndpointTrustRecord
    <3>1. e \in EndpointIds /\ trust[e] # None
      BY <1>3 DEF RemoveNode, RemovalCandidates, ActiveEndpoints, ActiveFor, TypeOK, NodeRow
    <3> QED
      BY <3>1, <1>3, TransitionedType, Zenon DEF RemoveNode, CanTransition, EndpointStatus
  <2> QED
    BY <1>3, <2>1, Zenon DEF RemoveNode, TypeOK
<1>4. ASSUME NEW t \in TokenIds, NEW m \in 1..MaxTokenUses, CreateToken(t, m) PROVE TypeOK'
  BY <1>4 DEF CreateToken, TypeOK, EnrollmentTokenRecord
<1>5. ASSUME NEW t \in TokenIds, Lapse(t) PROVE TypeOK'
  <2>1. tokens[t] \in EnrollmentTokenRecord
    BY <1>5, Zenon DEF Lapse, TypeOK
  <2>2. [tokens[t] EXCEPT !.lapsed = TRUE] \in EnrollmentTokenRecord
    BY <2>1, Zenon DEF EnrollmentTokenRecord
  <2> QED
    BY <1>5, <2>2, Zenon DEF Lapse, TypeOK
<1>6. ASSUME NEW t \in TokenIds, RevokeToken(t) PROVE TypeOK'
  <2>1. tokens[t] \in EnrollmentTokenRecord
    BY <1>6, Zenon DEF RevokeToken, TypeOK
  <2>2. [tokens[t] EXCEPT !.status = "revoked"] \in EnrollmentTokenRecord
    BY <2>1, Zenon DEF EnrollmentTokenRecord
  <2> QED
    BY <1>6, <2>2, Zenon DEF RevokeToken, TypeOK
<1>7. ASSUME NEW r \in RequestIds, NEW t \in TokenIds, NEW q \in EndpointIds \cup {None},
             LateSubmit(r, t, q) PROVE TypeOK'
  <2>1. [token_id |-> t, status |-> "pending",
         requested_endpoint_id |-> q, assigned_endpoint_id |-> None] \in JoinRequestRecord
    BY Zenon DEF JoinRequestRecord
  <2>2. [tokens[t] EXCEPT !.used_count = @ + 1] \in EnrollmentTokenRecord
    <3>1. tokens[t] \in EnrollmentTokenRecord
      BY <1>7, Zenon DEF LateSubmit, TypeOK
    <3>2. tokens[t].used_count + 1 \in 0..MaxTokenUses
      BY <3>1, <1>7 DEF LateSubmit, EnrollmentTokenRecord
    <3> QED
      BY <3>1, <3>2, Zenon DEF EnrollmentTokenRecord
  <2>3. tokens' = [tokens EXCEPT ![t] = [tokens[t] EXCEPT !.used_count = @ + 1]]
    BY <1>7, Zenon DEF LateSubmit
  <2> QED
    BY <1>7, <2>1, <2>2, <2>3 DEF LateSubmit, TypeOK
<1>8. ASSUME NEW t \in TokenIds, LateExpiry(t) PROVE TypeOK'
  <2>1. tokens[t] \in EnrollmentTokenRecord
    BY <1>8, Zenon DEF LateExpiry, TypeOK
  <2>2. [tokens[t] EXCEPT !.status = "expired"] \in EnrollmentTokenRecord
    BY <2>1, Zenon DEF EnrollmentTokenRecord
  <2> QED
    BY <1>8, <2>2, Zenon DEF LateExpiry, TypeOK
<1>9. ASSUME NEW r \in RequestIds, RejectJoin(r) PROVE TypeOK'
  <2>1. joins[r] \in JoinRequestRecord
    BY <1>9, Zenon DEF RejectJoin, TypeOK
  <2>2. [joins[r] EXCEPT !.status = "rejected"] \in JoinRequestRecord
    BY <2>1, Zenon DEF JoinRequestRecord
  <2> QED
    BY <1>9, <2>2, Zenon DEF RejectJoin, TypeOK
<1>10. ASSUME NEW r \in RequestIds, NEW n \in NodeIds, NEW e \in EndpointIds,
              LateApprove(r, n, e) PROVE TypeOK'
  <2>1. joins' \in [RequestIds -> JoinRequestRecord \cup {None}]
    <3>1. joins[r] \in JoinRequestRecord
      BY <1>10, Zenon DEF LateApprove, TypeOK
    <3>2. [joins[r] EXCEPT !.status = "approved", !.assigned_endpoint_id = e]
            \in JoinRequestRecord
      BY <3>1, Zenon DEF JoinRequestRecord
    <3>3. joins' = [joins EXCEPT ![r] =
                      [joins[r] EXCEPT !.status = "approved", !.assigned_endpoint_id = e]]
      BY <1>10, Zenon DEF LateApprove, TypeOK
    <3> QED
      BY <3>2, <3>3, Zenon DEF TypeOK
  <2>2. [event |-> "enrollment.approve", endpoint_id |-> e, node_id |-> n] \in EnrollmentAudit
    BY Zenon DEF EnrollmentAudit
  <2>3. audit' \in [RequestIds -> Seq(EnrollmentAudit)]
    BY <1>10, <2>2 DEF LateApprove, TypeOK
  <2> QED
    BY <1>10, <2>1, <2>3, OriginalTrustType, NodeRowType, Zenon DEF LateApprove, TypeOK
<1>11. ASSUME NEW r \in RequestIds, NEW n \in NodeIds, NEW e \in EndpointIds,
              LateClaim(r, n, e) PROVE TypeOK'
  <2>1. trust' \in [EndpointIds -> EndpointTrustRecord \cup {None}]
    <3>1. trust[e] \in EndpointTrustRecord
      BY <1>11, OriginalTrustType, Zenon DEF LateClaim, LegacyUnboundTrust
    <3>2. [trust[e] EXCEPT !.node_id = n] \in EndpointTrustRecord
      BY <3>1, Zenon DEF EndpointTrustRecord
    <3>3. trust' = [trust EXCEPT ![e] = [trust[e] EXCEPT !.node_id = n]]
      BY <1>11, Zenon DEF LateClaim
    <3> QED
      BY <3>2, <3>3, Zenon DEF TypeOK
  <2>2. [event |-> "enrollment.claim", endpoint_id |-> e, node_id |-> n] \in EnrollmentAudit
    BY Zenon DEF EnrollmentAudit
  <2>3. audit' \in [RequestIds -> Seq(EnrollmentAudit)]
    BY <1>11, <2>2 DEF LateClaim, TypeOK
  <2> QED
    BY <1>11, <2>1, <2>3, NodeRowType, Zenon DEF LateClaim, TypeOK
<1>12. ASSUME NEW old \in EndpointIds, NEW new \in EndpointIds, RotateEndpoint(old, new)
       PROVE TypeOK'
  <2>1. trust' \in [EndpointIds -> EndpointTrustRecord \cup {None}]
    BY <1>12, RotatedType, SuccessorType, Zenon DEF RotateEndpoint, TypeOK
  <2>2. nodes' \in [NodeIds -> NodeRow \cup {None}]
    BY <1>12, NodeRowType, Zenon DEF RotateEndpoint, TypeOK, NodeRow
  <2> QED
    BY <1>12, <2>1, <2>2, Zenon DEF RotateEndpoint, TypeOK
<1>13. ASSUME NEW old \in EndpointIds, NEW new \in EndpointIds, ReconcileRotation(old, new)
       PROVE TypeOK'
  BY <1>13, Zenon DEF ReconcileRotation, ReconciledNode, TypeOK, NodeRow
<1>14. ASSUME NEW e \in EndpointIds, NEW s \in {"revoked", "quarantined"},
              UpdateEndpointStatus(e, s) PROVE TypeOK'
  <2>1. trust' \in [EndpointIds -> EndpointTrustRecord \cup {None}]
    BY <1>14, TransitionedType, Zenon DEF UpdateEndpointStatus, CanTransition, TypeOK, EndpointStatus
  <2>2. nodes' \in [NodeIds -> NodeRow \cup {None}]
    BY <1>14 DEF UpdateEndpointStatus, TypeOK, NodeRow
  <2> QED
    BY <1>14, <2>1, <2>2, Zenon DEF UpdateEndpointStatus, TypeOK
<1>15. CASE UNCHANGED vars
  BY <1>15, Zenon DEF vars, TypeOK
<1> QED
  BY <1>1, <1>2, <1>3, <1>4, <1>5, <1>6, <1>7, <1>8, <1>9, <1>10, <1>11, <1>12, <1>13,
     <1>14, <1>15 DEF LateNext

\* The same for the operations that are one transaction on SQLite.
LEMMA StepType == TypeOK /\ [Next]_vars => TypeOK'
BY LateType, NextIsLate, Zenon

\* The operations of the store keep every table well formed; no generation and
\* no use count leaves the range of its column, whatever the limits are.
THEOREM TypeCorrect == Spec => []TypeOK
BY InitType, StepType, PTL DEF Spec

----------------------------------------------------------------------------
(* One Active endpoint per node, and enabled nodes only on trusted ones.   *)

\* Every operation keeps the registry invariant.
LEMMA LateRegistry == TypeOK /\ TypeOK' /\ RegistryInv /\ [LateNext]_vars => RegistryInv'
<1> SUFFICES ASSUME TypeOK, TypeOK', RegistryInv, [LateNext]_vars PROVE RegistryInv'
  BY Zenon
<1> USE ConstantsAssumption DEF RegistryInv
<1>1. ASSUME NEW n \in NodeIds, NEW e \in EndpointIds, AddNode(n, e) PROVE RegistryInv'
  <2>1. PointerOwned'
    BY <1>1, Zenon DEF AddNode, NodesAt, OriginalTrust, PointerOwned, TypeOK, NodeRow, EndpointTrustRecord
  <2>2. PointersDistinct'
    BY <1>1 DEF AddNode, NodesAt, OriginalTrust, PointersDistinct, PointerOwned, TypeOK, NodeRow, EndpointTrustRecord
  <2>3. ActiveReachable'
    <3> SUFFICES ASSUME NEW m \in NodeIds, NEW f \in EndpointIds, ActiveFor(m, f)'
                 PROVE  Reaches(m, f)'
      BY Zenon DEF ActiveReachable
    <3>1. CASE f = e
      BY <3>1, <1>1, NodeRowType DEF AddNode, OriginalTrust, ActiveFor, Reaches, TypeOK
    <3>2. CASE f # e
      <4>1. ActiveFor(m, f) /\ Reaches(m, f)
        BY <3>2, <1>1, Zenon DEF AddNode, OriginalTrust, ActiveFor, ActiveReachable, TypeOK
      <4>2. m # n /\ nodes'[m] = nodes[m]
        BY <4>1, <1>1, Zenon DEF AddNode, OriginalTrust, Reaches, TypeOK
      <4>3. nodes[m].endpoint_id # e /\ nodes[m].endpoint_id \in EndpointIds
        BY <4>1, <1>1, Zenon DEF AddNode, OriginalTrust, NodesAt, Reaches, TypeOK, NodeRow
      <4> QED
        BY <4>1, <4>2, <4>3, <1>1, Zenon DEF AddNode, OriginalTrust, Reaches, TypeOK
    <3> QED
      BY <3>1, <3>2, Zenon
  <2>4. EnabledNodeTrusted'
    BY <1>1 DEF AddNode, NodesAt, OriginalTrust, EnabledNodeTrusted, PointerOwned, PointersDistinct, TypeOK, NodeRow, EndpointTrustRecord
  <2> QED
    BY <2>1, <2>2, <2>3, <2>4, Zenon
<1>2. ASSUME NEW n \in NodeIds, NEW b \in BOOLEAN, SetNodeEnabled(n, b) PROVE RegistryInv'
  <2>1. PointerOwned'
    BY <1>2 DEF SetNodeEnabled, ActiveNodeBinding, PointerOwned, TypeOK, NodeRow, EndpointTrustRecord
  <2>2. PointersDistinct'
    BY <1>2 DEF SetNodeEnabled, ActiveNodeBinding, PointersDistinct, PointerOwned, TypeOK, NodeRow, EndpointTrustRecord
  <2>3. ActiveReachable'
    <3> SUFFICES ASSUME NEW m \in NodeIds, NEW f \in EndpointIds, ActiveFor(m, f)'
                 PROVE  Reaches(m, f)'
      BY Zenon DEF ActiveReachable
    <3>1. ActiveFor(m, f) /\ Reaches(m, f)
      BY <1>2, Zenon DEF SetNodeEnabled, ActiveFor, ActiveReachable
    <3> QED
      BY <3>1, <1>2 DEF SetNodeEnabled, Reaches, TypeOK, NodeRow
  <2>4. EnabledNodeTrusted'
    BY <1>2 DEF SetNodeEnabled, ActiveNodeBinding, EnabledNodeTrusted, PointerOwned, PointersDistinct, TypeOK, NodeRow, EndpointTrustRecord
  <2> QED
    BY <2>1, <2>2, <2>3, <2>4, Zenon
<1>3. ASSUME NEW n \in NodeIds, RemoveNode(n) PROVE RegistryInv'
  <2>1. PointerOwned'
    BY <1>3, Zenon DEF RemoveNode, RemovalCandidates, ActiveFor, NodesAt, CanTransition, Transitioned, PointerOwned, TypeOK, NodeRow, EndpointTrustRecord
  <2>2. PointersDistinct'
    BY <1>3, Zenon DEF RemoveNode, RemovalCandidates, ActiveFor, NodesAt, CanTransition, Transitioned, PointersDistinct, PointerOwned, TypeOK, NodeRow, EndpointTrustRecord
  <2>3. ActiveReachable'
    <3> SUFFICES ASSUME NEW m \in NodeIds, NEW f \in EndpointIds, ActiveFor(m, f)'
                 PROVE  Reaches(m, f)'
      BY Zenon DEF ActiveReachable
    <3>1. f \notin RemovalCandidates(n) /\ trust'[f] = trust[f]
      <4>1. \A x \in RemovalCandidates(n) : x \in EndpointIds /\ trust[x] # None
        BY <1>3 DEF RemoveNode, RemovalCandidates, ActiveEndpoints, ActiveFor, TypeOK, NodeRow
      <4> QED
        BY <4>1, <1>3, TransitionedFields DEF RemoveNode, ActiveFor
    <3>2. ActiveFor(m, f) /\ Reaches(m, f)
      BY <3>1, Zenon DEF ActiveFor, ActiveReachable
    <3>3. m # n
      BY <3>1, <3>2, Zenon DEF RemovalCandidates, ActiveEndpoints
    <3>4. nodes'[m] = nodes[m] /\ nodes[m].endpoint_id \in EndpointIds
      BY <3>2, <3>3, <1>3 DEF RemoveNode, Reaches, TypeOK, NodeRow
    <3>5. ASSUME trust[nodes[m].endpoint_id].status = "rotated"
          PROVE  nodes[m].endpoint_id \notin RemovalCandidates(n)
      BY <3>5, Zenon DEF RemovalCandidates, ActiveEndpoints, ActiveFor
    <3> QED
      BY <3>2, <3>4, <3>5, <1>3, Zenon DEF RemoveNode, Reaches
  <2>4. EnabledNodeTrusted'
    <3> SUFFICES ASSUME NEW m \in NodeIds, nodes'[m] # None, nodes'[m].enabled
                 PROVE  \/ trust'[nodes'[m].endpoint_id] = None
                        \/ /\ trust'[nodes'[m].endpoint_id].node_id = m
                           /\ trust'[nodes'[m].endpoint_id].status \in {"active", "rotated"}
      BY Zenon DEF EnabledNodeTrusted
    <3>1. m # n /\ nodes'[m] = nodes[m] /\ nodes[m].endpoint_id \in EndpointIds
      BY <1>3, Zenon DEF RemoveNode, TypeOK, NodeRow
    <3>2. nodes[m].endpoint_id \notin RemovalCandidates(n)
      BY <3>1, <1>3 DEF RemoveNode, NodesAt
    <3> QED
      BY <3>1, <3>2, <1>3 DEF RemoveNode, EnabledNodeTrusted
  <2> QED
    BY <2>1, <2>2, <2>3, <2>4, Zenon
<1>4. ASSUME NEW r \in RequestIds, NEW n \in NodeIds, NEW e \in EndpointIds, LateApprove(r, n, e) PROVE RegistryInv'
  <2>1. PointerOwned'
    BY <1>4, Zenon DEF LateApprove, NodesAt, OriginalTrust, PointerOwned, TypeOK, NodeRow, EndpointTrustRecord
  <2>2. PointersDistinct'
    BY <1>4 DEF LateApprove, NodesAt, OriginalTrust, PointersDistinct, PointerOwned, TypeOK, NodeRow, EndpointTrustRecord
  <2>3. ActiveReachable'
    <3> SUFFICES ASSUME NEW m \in NodeIds, NEW f \in EndpointIds, ActiveFor(m, f)'
                 PROVE  Reaches(m, f)'
      BY Zenon DEF ActiveReachable
    <3>1. CASE f = e
      <4>1. m = n
        BY <3>1, <1>4, Zenon DEF LateApprove, OriginalTrust, ActiveFor, TypeOK
      <4> QED
        BY <4>1, <3>1, <1>4, NodeRowType DEF LateApprove, Reaches, TypeOK
    <3>2. CASE f # e
      <4>1. ActiveFor(m, f) /\ Reaches(m, f)
        BY <3>2, <1>4 DEF LateApprove, OriginalTrust, ActiveFor, ActiveReachable, TypeOK
      <4>2. m # n /\ nodes'[m] = nodes[m]
        BY <4>1, <1>4, Zenon DEF LateApprove, OriginalTrust, Reaches, TypeOK
      <4>3. nodes[m].endpoint_id # e /\ nodes[m].endpoint_id \in EndpointIds
        BY <4>1, <1>4, Zenon DEF LateApprove, OriginalTrust, NodesAt, Reaches, TypeOK, NodeRow
      <4> QED
        BY <4>1, <4>2, <4>3, <1>4 DEF LateApprove, OriginalTrust, Reaches, TypeOK
    <3> QED
      BY <3>1, <3>2, Zenon
  <2>4. EnabledNodeTrusted'
    BY <1>4 DEF LateApprove, NodesAt, OriginalTrust, EnabledNodeTrusted, PointerOwned, PointersDistinct, TypeOK, NodeRow, EndpointTrustRecord
  <2> QED
    BY <2>1, <2>2, <2>3, <2>4, Zenon
<1>5. ASSUME NEW r \in RequestIds, NEW n \in NodeIds, NEW e \in EndpointIds, LateClaim(r, n, e) PROVE RegistryInv'
  <2>1. PointerOwned'
    BY <1>5 DEF LateClaim, NodesAt, LegacyUnboundTrust, OriginalTrust, PointerOwned, TypeOK, NodeRow, EndpointTrustRecord
  <2>2. PointersDistinct'
    BY <1>5 DEF LateClaim, NodesAt, LegacyUnboundTrust, OriginalTrust, PointersDistinct, PointerOwned, TypeOK, NodeRow, EndpointTrustRecord
  <2>3. ActiveReachable'
    <3> SUFFICES ASSUME NEW m \in NodeIds, NEW f \in EndpointIds, ActiveFor(m, f)'
                 PROVE  Reaches(m, f)'
      BY DEF ActiveReachable
    <3>1. CASE f = e
      <4>1. m = n
        BY <3>1, <1>5, Zenon DEF LateClaim, LegacyUnboundTrust, OriginalTrust, ActiveFor, TypeOK
      <4> QED
        BY <4>1, <3>1, <1>5, NodeRowType, Zenon DEF LateClaim, Reaches, TypeOK
    <3>2. CASE f # e
      <4>1. ActiveFor(m, f) /\ Reaches(m, f)
        BY <3>2, <1>5, Zenon DEF LateClaim, LegacyUnboundTrust, OriginalTrust, ActiveFor, ActiveReachable, TypeOK
      <4>2. m # n /\ nodes'[m] = nodes[m]
        BY <4>1, <1>5, Zenon DEF LateClaim, LegacyUnboundTrust, OriginalTrust, Reaches, TypeOK
      <4>3. nodes[m].endpoint_id # e /\ nodes[m].endpoint_id \in EndpointIds
        BY <4>1, <1>5, Zenon DEF LateClaim, LegacyUnboundTrust, OriginalTrust, NodesAt, Reaches, TypeOK, NodeRow
      <4> QED
        BY <4>1, <4>2, <4>3, <1>5, Zenon DEF LateClaim, LegacyUnboundTrust, OriginalTrust, Reaches, TypeOK
    <3> QED
      BY <3>1, <3>2
  <2>4. EnabledNodeTrusted'
    BY <1>5 DEF LateClaim, NodesAt, LegacyUnboundTrust, OriginalTrust, EnabledNodeTrusted, PointerOwned, PointersDistinct, TypeOK, NodeRow, EndpointTrustRecord
  <2> QED
    BY <2>1, <2>2, <2>3, <2>4
<1>6. ASSUME NEW old \in EndpointIds, NEW new \in EndpointIds, RotateEndpoint(old, new) PROVE RegistryInv'
  <2>1. PointerOwned'
    <3> DEFINE n == trust[old].node_id
    <3>1. n \in NodeIds /\ nodes[n] # None /\ nodes[n].endpoint_id = old
      BY <1>6, Zenon DEF RotateEndpoint, RotationBinding, TypeOK, EndpointTrustRecord
    <3>2. trust'[new].node_id = n
      BY <1>6, Zenon DEF RotateEndpoint, Successor, TypeOK
    <3>3. ASSUME NEW m \in NodeIds, m # n, nodes[m] # None
          PROVE  /\ nodes[m].endpoint_id \in EndpointIds
                 /\ nodes[m].endpoint_id \notin {old, new}
      BY <3>1, <3>3, <1>6 DEF RotateEndpoint, NodesAt, PointersDistinct, TypeOK, NodeRow
    <3> QED
      BY <3>1, <3>2, <3>3, <1>6 DEF RotateEndpoint, PointerOwned, TypeOK, NodeRow
  <2>2. PointersDistinct'
    BY <1>6 DEF RotateEndpoint, RotationBinding, ActiveFor, NodesAt, Transitioned, Successor, UnrotatedLineage, PointersDistinct, PointerOwned, TypeOK, NodeRow, EndpointTrustRecord
  <2>3. ActiveReachable'
    <3> SUFFICES ASSUME NEW m \in NodeIds, NEW f \in EndpointIds, ActiveFor(m, f)'
                 PROVE  Reaches(m, f)'
      BY Zenon DEF ActiveReachable
    <3> DEFINE n == trust[old].node_id
    <3>1. n \in NodeIds /\ nodes[n] # None /\ nodes[n].endpoint_id = old
      BY <1>6, Zenon DEF RotateEndpoint, RotationBinding, TypeOK, EndpointTrustRecord
    <3>2. f # old
      BY <1>6, RotatedFields DEF RotateEndpoint, ActiveFor, TypeOK
    <3>3. CASE f = new
      <4>1. m = n
        BY <3>3, <1>6, Zenon DEF RotateEndpoint, Successor, ActiveFor, TypeOK
      <4>2. nodes'[m].endpoint_id = new /\ nodes'[m].enabled \in BOOLEAN
        BY <4>1, <3>1, <1>6, Zenon DEF RotateEndpoint, TypeOK
      <4>3. nodes'[m] = [endpoint_id |-> new, enabled |-> nodes'[m].enabled]
        BY <4>1, <3>1, <1>6, Zenon DEF RotateEndpoint, TypeOK
      <4> QED
        BY <4>2, <4>3, <3>3, NodeRowType, Zenon DEF Reaches
    <3>4. CASE f # new
      <4>1. ActiveFor(m, f) /\ Reaches(m, f)
        BY <3>2, <3>4, <1>6 DEF RotateEndpoint, ActiveFor, ActiveReachable, TypeOK
      <4>2. m # n
        BY <4>1, <3>2, <1>6 DEF RotateEndpoint, RotationBinding, ActiveEndpoints
      <4>3. nodes'[m] = nodes[m] /\ nodes[m].endpoint_id \in EndpointIds
        BY <4>1, <4>2, <3>1, <1>6, Zenon DEF RotateEndpoint, Reaches, TypeOK, NodeRow
      <4>4. nodes[m].endpoint_id \notin {old, new}
        BY <4>1, <4>2, <3>1, <1>6, Zenon DEF RotateEndpoint, NodesAt, Reaches, PointersDistinct
      <4> QED
        BY <4>1, <4>3, <4>4, <1>6 DEF RotateEndpoint, Reaches, TypeOK
    <3> QED
      BY <3>3, <3>4, Zenon
  <2>4. EnabledNodeTrusted'
    BY <1>6 DEF RotateEndpoint, RotationBinding, ActiveFor, NodesAt, Transitioned, Successor, UnrotatedLineage, EnabledNodeTrusted, PointerOwned, PointersDistinct, TypeOK, NodeRow, EndpointTrustRecord
  <2> QED
    BY <2>1, <2>2, <2>3, <2>4, Zenon
<1>7. ASSUME NEW old \in EndpointIds, NEW new \in EndpointIds, ReconcileRotation(old, new) PROVE RegistryInv'
  <2>1. PointerOwned'
    BY <1>7, Zenon DEF ReconcileRotation, ReconciledNode, RotationEdge, DeterministicChild, ActiveFor, NodesAt, PointerOwned, TypeOK, NodeRow, EndpointTrustRecord
  <2>2. PointersDistinct'
    BY <1>7 DEF ReconcileRotation, ReconciledNode, RotationEdge, DeterministicChild, ActiveFor, NodesAt, PointersDistinct, PointerOwned, TypeOK, NodeRow, EndpointTrustRecord
  <2>3. ActiveReachable'
    <3> SUFFICES ASSUME NEW m \in NodeIds, NEW f \in EndpointIds, ActiveFor(m, f)'
                 PROVE  Reaches(m, f)'
      BY DEF ActiveReachable
    <3>1. ActiveFor(m, f) /\ Reaches(m, f)
      BY <1>7, Zenon DEF ReconcileRotation, ActiveFor, ActiveReachable
    <3>2. CASE m = trust[old].node_id
      <4>1. f = new
        BY <3>1, <3>2, <1>7, Zenon DEF ReconcileRotation, DeterministicChild, ActiveEndpoints
      <4>2. ReconciledNode(m, new) \in NodeRow
        <5>1. (nodes[m].enabled /\ trust[new].status = "active") \in BOOLEAN
          BY Zenon
        <5> QED
          BY <5>1, NodeRowType, Zenon DEF ReconciledNode
      <4>3. nodes'[m] = ReconciledNode(m, new)
        BY <3>2, <1>7, Zenon DEF ReconcileRotation, TypeOK
      <4> QED
        BY <4>1, <4>2, <4>3 DEF ReconciledNode, Reaches
    <3>3. CASE m # trust[old].node_id
      BY <3>1, <3>3, <1>7, Zenon DEF ReconcileRotation, Reaches, TypeOK
    <3> QED
      BY <3>2, <3>3, Zenon
  <2>4. EnabledNodeTrusted'
    <3> DEFINE n == trust[old].node_id
    <3>1. n \in NodeIds /\ trust[new].node_id = n
      BY <1>7, Zenon DEF ReconcileRotation, RotationEdge, TypeOK, EndpointTrustRecord
    <3>2. nodes'[n].endpoint_id = new /\ (nodes'[n].enabled => trust[new].status = "active")
      BY <3>1, <1>7, Zenon DEF ReconcileRotation, ReconciledNode, TypeOK, NodeRow
    <3>3. \A m \in NodeIds : m # n => nodes'[m] = nodes[m]
      BY <1>7, Zenon DEF ReconcileRotation, TypeOK
    <3> QED
      BY <3>1, <3>2, <3>3, <1>7 DEF ReconcileRotation, EnabledNodeTrusted
  <2> QED
    BY <2>1, <2>2, <2>3, <2>4
<1>8. ASSUME NEW e \in EndpointIds, NEW s \in {"revoked", "quarantined"}, UpdateEndpointStatus(e, s) PROVE RegistryInv'
  <2>1. PointerOwned'
    BY <1>8 DEF UpdateEndpointStatus, AllowedStatusChange, CanTransition, Transitioned, PointerOwned, TypeOK, NodeRow, EndpointTrustRecord
  <2>2. PointersDistinct'
    BY <1>8 DEF UpdateEndpointStatus, AllowedStatusChange, CanTransition, Transitioned, PointersDistinct, PointerOwned, TypeOK, NodeRow, EndpointTrustRecord
  <2>3. ActiveReachable'
    <3> SUFFICES ASSUME NEW m \in NodeIds, NEW f \in EndpointIds, ActiveFor(m, f)'
                 PROVE  Reaches(m, f)'
      BY Zenon DEF ActiveReachable
    <3>1. f # e /\ trust'[f] = trust[f]
      BY <1>8 DEF UpdateEndpointStatus, Transitioned, ActiveFor, TypeOK, EndpointTrustRecord
    <3>2. ActiveFor(m, f) /\ Reaches(m, f)
      BY <3>1, Zenon DEF ActiveFor, ActiveReachable
    <3>3. nodes'[m] # None /\ nodes'[m].endpoint_id = nodes[m].endpoint_id
      BY <3>2, <1>8 DEF UpdateEndpointStatus, Reaches, TypeOK, NodeRow
    <3>4. trust[e].status # "rotated"
      BY <1>8, Zenon DEF UpdateEndpointStatus, AllowedStatusChange
    <3> QED
      BY <3>2, <3>3, <3>4, <1>8, Zenon DEF UpdateEndpointStatus, Reaches, TypeOK, NodeRow
  <2>4. EnabledNodeTrusted'
    BY <1>8 DEF UpdateEndpointStatus, AllowedStatusChange, CanTransition, Transitioned, EnabledNodeTrusted, PointerOwned, PointersDistinct, TypeOK, NodeRow, EndpointTrustRecord
  <2> QED
    BY <2>1, <2>2, <2>3, <2>4, Zenon
<1>9. CASE UNCHANGED <<nodes, trust>>
  BY <1>9 DEF ActiveFor, Reaches, PointerOwned, PointersDistinct, ActiveReachable, EnabledNodeTrusted
<1> QED
  BY <1>1, <1>2, <1>3, <1>4, <1>5, <1>6, <1>7, <1>8, <1>9, Zenon
  DEF LateNext, vars, CreateToken, Lapse, RevokeToken, LateSubmit, LateExpiry, RejectJoin
\* The empty registry satisfies the registry invariant.
LEMMA InitRegistry == Init => RegistryInv
<1> USE ConstantsAssumption DEF RegistryInv, PointerOwned, PointersDistinct, ActiveReachable,
                                EnabledNodeTrusted, ActiveFor, Reaches, EmptyTable
<1>1. FreshInit => RegistryInv
  BY DEF FreshInit
<1>2. UntrustedNodeInit => RegistryInv
  BY NodeRowType DEF UntrustedNodeInit
<1>3. UnboundApprovalInit => RegistryInv
  BY DEF UnboundApprovalInit, OriginalTrust
<1>4. ASSUME StalePointerInit PROVE RegistryInv
  <2>0. PICK n \in NodeIds, old \in EndpointIds, new \in EndpointIds, enabled \in BOOLEAN :
          StalePointerInit!1!(n, old, new, enabled)
    BY <1>4, Zenon DEF StalePointerInit
  <2>1. /\ nodes[n] = [endpoint_id |-> old, enabled |-> enabled] /\ nodes[n] # None
        /\ \A m \in NodeIds : m # n => nodes[m] = None
    BY <2>0, NodeRowType, Zenon
  <2>2. /\ trust[old].node_id = n /\ trust[old].status = "rotated" /\ trust[old].rotated_to = new
        /\ trust[new].node_id = n
        /\ \A e \in EndpointIds : e \notin {old, new} => trust[e] = None
    BY <2>0, Zenon
  <2>3. trust[old] # None
    <3>1. trust[old] \in EndpointTrustRecord
      BY <2>0 DEF EndpointTrustRecord, EndpointStatus
    <3> QED
      BY <3>1, Zenon
  <2>4. PointerOwned
    BY <2>1, <2>2
  <2>5. PointersDistinct
    BY <2>1, Zenon
  <2>6. ActiveReachable
    BY <2>1, <2>2, <2>3
  <2>7. EnabledNodeTrusted
    BY <2>1, <2>2
  <2> QED
    BY <2>4, <2>5, <2>6, <2>7, Zenon
<1> QED
  BY <1>1, <1>2, <1>3, <1>4, Zenon DEF Init

\* The same for the operations that are one transaction on SQLite.
LEMMA StepRegistry == TypeOK /\ TypeOK' /\ RegistryInv /\ [Next]_vars => RegistryInv'
BY LateRegistry, NextIsLate, Zenon

\* A node's active endpoints are all the one its pointer reaches, so there is at
\* most one.
LEMMA RegistryUnique == TypeOK /\ RegistryInv => UniqueActiveEndpoint
BY DEF TypeOK, RegistryInv, ActiveReachable, Reaches, ActiveEndpoints, ActiveFor,
       UniqueActiveEndpoint

\* An enabled node's endpoint in service is its one active endpoint.
LEMMA RegistryDispatchable == TypeOK /\ RegistryInv => EnabledDispatchable
<1> SUFFICES ASSUME TypeOK, RegistryInv, NEW n \in NodeIds, nodes[n] # None, nodes[n].enabled,
                    trust[nodes[n].endpoint_id] # None,
                    trust[nodes[n].endpoint_id].status # "rotated"
             PROVE  Dispatchable(n, nodes[n].endpoint_id)
  BY Zenon DEF EnabledDispatchable
<1> DEFINE e == nodes[n].endpoint_id
<1>1. e \in EndpointIds /\ ActiveFor(n, e)
  BY DEF RegistryInv, EnabledNodeTrusted, ActiveFor, TypeOK, NodeRow
<1>2. ActiveEndpoints(n) = {e}
  BY <1>1 DEF RegistryInv, ActiveReachable, Reaches, ActiveEndpoints, ActiveFor
<1> QED
  BY <1>1, <1>2, Zenon DEF Dispatchable, ActiveFor

\* The inductive invariant holds in every state the store can reach.
THEOREM RegistryInvariant == Spec => [](TypeOK /\ RegistryInv)
<1>1. TypeOK /\ RegistryInv /\ [Next]_vars => (TypeOK /\ RegistryInv)'
  BY StepType, StepRegistry, Zenon
<1> QED
  BY InitType, InitRegistry, <1>1, PTL DEF Spec

\* No sequence of registrations, approvals, claims, rotations, repairs, status
\* changes and removals leaves a node with two Active endpoints.
THEOREM UniqueActive == Spec => []UniqueActiveEndpoint
BY RegistryUnique, RegistryInvariant, PTL

\* The dispatch gate never refuses an enabled node that points at an endpoint
\* in service.
THEOREM EnabledNodesDispatchable == Spec => []EnabledDispatchable
BY RegistryDispatchable, RegistryInvariant, PTL

----------------------------------------------------------------------------
(* Rotation lineage.                                                       *)

\* A write that keeps the links, node and fingerprint of every row, and the
\* generation of rotated ones, keeps the lineage.
LEMMA LineageKept ==
  ASSUME TypeOK, TypeOK', LineageSound,
         \A e \in EndpointIds :
           \/ trust'[e] = trust[e]
           \/ /\ trust[e] # None /\ trust'[e] # None
              /\ trust[e].status # "rotated" /\ trust'[e].status # "rotated"
              /\ trust'[e].rotated_to = trust[e].rotated_to
              /\ trust'[e].previous_endpoint_id = trust[e].previous_endpoint_id
              /\ trust'[e].node_id = trust[e].node_id
              /\ trust'[e].fingerprint = trust[e].fingerprint
              /\ trust'[e].generation >= trust[e].generation
  PROVE  LineageSound'
<1> SUFFICES ASSUME NEW e \in EndpointIds, trust'[e] # None
             PROVE  /\ trust'[e].status = "rotated" <=> trust'[e].rotated_to # None
                    /\ \A f \in EndpointIds :
                         trust'[e].rotated_to = f =>
                           /\ trust'[f] # None /\ trust'[f].previous_endpoint_id = e
                           /\ trust'[f].node_id = trust'[e].node_id
                           /\ trust'[f].fingerprint = trust'[e].fingerprint
                           /\ trust'[e].generation <= trust'[f].generation
                    /\ \A p \in EndpointIds :
                         trust'[e].previous_endpoint_id = p =>
                           trust'[p] # None /\ trust'[p].rotated_to = e
  BY Zenon DEF LineageSound
<1> USE ConstantsAssumption
<1>1. trust[e] # None
  BY Zenon
<1>2. trust'[e].status = "rotated" <=> trust'[e].rotated_to # None
  BY <1>1, Zenon DEF LineageSound
<1>3. ASSUME NEW f \in EndpointIds, trust'[e].rotated_to = f
      PROVE  /\ trust'[f] # None /\ trust'[f].previous_endpoint_id = e
             /\ trust'[f].node_id = trust'[e].node_id
             /\ trust'[f].fingerprint = trust'[e].fingerprint
             /\ trust'[e].generation <= trust'[f].generation
  <2>1. trust'[e] = trust[e]
    BY <1>1, <1>2, <1>3, Zenon
  <2>2. /\ trust[f] # None /\ trust[f].previous_endpoint_id = e
        /\ trust[f].node_id = trust[e].node_id /\ trust[f].fingerprint = trust[e].fingerprint
        /\ trust[e].generation <= trust[f].generation
    BY <1>1, <1>3, <2>1, Zenon DEF LineageSound
  <2>3. trust'[f] # None
    BY <2>2, Zenon
  <2>4. trust[e].generation \in Int /\ trust[f].generation \in Int /\ trust'[f].generation \in Int
    BY <1>1, <2>2, <2>3 DEF TypeOK, EndpointTrustRecord
  <2> QED
    BY <2>1, <2>2, <2>3, <2>4
<1>4. ASSUME NEW p \in EndpointIds, trust'[e].previous_endpoint_id = p
      PROVE  trust'[p] # None /\ trust'[p].rotated_to = e
  BY <1>1, <1>4 DEF LineageSound
<1> QED
  BY <1>2, <1>3, <1>4, Zenon

\* So does the row of an endpoint that had none and is linked to none.
LEMMA LineageAdded ==
  ASSUME TypeOK, TypeOK', LineageSound, NEW e \in EndpointIds, trust[e] = None,
         NEW n, NEW fp, trust' = [trust EXCEPT ![e] = OriginalTrust(n, fp)]
  PROVE  LineageSound'
BY ConstantsAssumption DEF LineageSound, TypeOK, EndpointTrustRecord, OriginalTrust

\* Every operation keeps the rotation chains sound.
LEMMA LateLineage == TypeOK /\ TypeOK' /\ LineageSound /\ [LateNext]_vars => LineageSound'
<1> SUFFICES ASSUME TypeOK, TypeOK', LineageSound, [LateNext]_vars PROVE LineageSound'
  OBVIOUS
<1> USE ConstantsAssumption
<1>1. ASSUME NEW n \in NodeIds, NEW e \in EndpointIds, AddNode(n, e) PROVE LineageSound'
  BY <1>1, LineageAdded, Zenon DEF AddNode
<1>2. ASSUME NEW r \in RequestIds, NEW n \in NodeIds, NEW e \in EndpointIds,
             LateApprove(r, n, e) PROVE LineageSound'
  BY <1>2, LineageAdded, Zenon DEF LateApprove
<1>3. ASSUME NEW n \in NodeIds, RemoveNode(n) PROVE LineageSound'
  <2>1. ASSUME NEW e \in RemovalCandidates(n)
        PROVE  e \in EndpointIds /\ trust[e] # None /\ trust[e].status = "active"
    BY <1>3 DEF RemoveNode, RemovalCandidates, ActiveEndpoints, ActiveFor, TypeOK, NodeRow
  <2>2. ASSUME NEW e \in RemovalCandidates(n)
        PROVE  trust'[e] = Transitioned(e, "revoked") /\ trust[e].generation \in Int
    BY <1>3, <2>1 DEF RemoveNode, TypeOK, EndpointTrustRecord
  <2>3. ASSUME NEW e \in EndpointIds, e \notin RemovalCandidates(n) PROVE trust'[e] = trust[e]
    BY <1>3, <2>3, Zenon DEF RemoveNode
  <2>4. ASSUME NEW e \in RemovalCandidates(n) PROVE trust'[e] # None
    BY <1>3, <2>1, <2>2, TransitionedType, Zenon DEF RemoveNode, CanTransition, EndpointStatus
  <2> QED
    BY <2>1, <2>2, <2>3, <2>4, TransitionedFields, LineageKept
<1>4. ASSUME NEW e \in EndpointIds, NEW s \in {"revoked", "quarantined"},
             UpdateEndpointStatus(e, s) PROVE LineageSound'
  <2>1. /\ trust[e] # None /\ trust[e].status # "rotated" /\ trust[e].generation \in Int
        /\ trust'[e] = Transitioned(e, s)
        /\ \A f \in EndpointIds : f # e => trust'[f] = trust[f]
    BY <1>4 DEF UpdateEndpointStatus, AllowedStatusChange, TypeOK, EndpointTrustRecord
  <2>2. trust'[e] # None
    BY <1>4, <2>1, TransitionedType, Zenon DEF UpdateEndpointStatus, CanTransition, EndpointStatus
  <2> QED
    BY <2>1, <2>2, TransitionedFields, LineageKept
<1>5. ASSUME NEW r \in RequestIds, NEW n \in NodeIds, NEW e \in EndpointIds,
             LateClaim(r, n, e) PROVE LineageSound'
  BY <1>5 DEF LateClaim, LegacyUnboundTrust, OriginalTrust, LineageSound, TypeOK, EndpointTrustRecord
<1>6. ASSUME NEW old \in EndpointIds, NEW new \in EndpointIds, RotateEndpoint(old, new)
      PROVE LineageSound'
  <2> DEFINE o == [Transitioned(old, "rotated") EXCEPT !.rotated_to = new]
  <2>1. /\ trust'[old] = o /\ trust'[new] = Successor(old) /\ old # new
        /\ \A e \in EndpointIds : e \notin {old, new} => trust'[e] = trust[e]
        /\ trust[old] # None /\ trust[old].status # "rotated" /\ trust[new] = None
    BY <1>6 DEF RotateEndpoint, TypeOK
  <2>2. /\ o.status = "rotated" /\ o.rotated_to = new /\ o.node_id = trust[old].node_id
        /\ o.generation = trust[old].generation + 1 /\ o.fingerprint = trust[old].fingerprint
        /\ o.previous_endpoint_id = trust[old].previous_endpoint_id
    BY <2>1, RotatedFields
  <2> HIDE DEF o
  <2>3. o # None /\ Successor(old) # None
    BY <1>6, RotatedType, SuccessorType DEF RotateEndpoint, o
  <2>4. /\ trust[old].generation \in Int /\ trust[old].rotated_to = None
        /\ \A e \in EndpointIds : trust[e] # None => trust[e].rotated_to # new
                                                  /\ trust[e].previous_endpoint_id # new
    <3>1. trust[old].generation \in Int
      BY <2>1 DEF TypeOK, EndpointTrustRecord
    <3> QED
      BY <2>1, <3>1, Zenon DEF LineageSound
  <2>5. ASSUME NEW e \in EndpointIds, trust[e] # None, e # old
        PROVE  trust'[e] = trust[e] /\ trust[e].generation \in Int /\ e # new
    BY <2>1, <2>5 DEF TypeOK, EndpointTrustRecord
  <2>6. /\ Successor(old).previous_endpoint_id = old /\ Successor(old).rotated_to = None
        /\ Successor(old).status = "active" /\ Successor(old).node_id = trust[old].node_id
        /\ Successor(old).fingerprint = trust[old].fingerprint
        /\ Successor(old).generation = trust[old].generation + 1
    BY Zenon DEF Successor
  <2> SUFFICES ASSUME NEW e \in EndpointIds, trust'[e] # None
               PROVE  /\ trust'[e].status = "rotated" <=> trust'[e].rotated_to # None
                      /\ \A f \in EndpointIds :
                           trust'[e].rotated_to = f =>
                             /\ trust'[f] # None /\ trust'[f].previous_endpoint_id = e
                             /\ trust'[f].node_id = trust'[e].node_id
                             /\ trust'[f].fingerprint = trust'[e].fingerprint
                             /\ trust'[e].generation <= trust'[f].generation
                      /\ \A p \in EndpointIds :
                           trust'[e].previous_endpoint_id = p =>
                             trust'[p] # None /\ trust'[p].rotated_to = e
    BY Zenon DEF LineageSound
  <2>7. CASE e = old
    BY <2>7, <2>1, <2>2, <2>3, <2>4, <2>5, <2>6 DEF LineageSound
  <2>8. CASE e = new
    BY <2>8, <2>1, <2>2, <2>3, <2>4, <2>5, <2>6 DEF LineageSound
  <2>9. CASE e \notin {old, new}
    BY <2>9, <2>1, <2>2, <2>3, <2>4, <2>5, <2>6 DEF LineageSound
  <2> QED
    BY <2>7, <2>8, <2>9, Zenon
<1>7. CASE UNCHANGED trust
  BY <1>7 DEF LineageSound
<1> QED
  BY <1>1, <1>2, <1>3, <1>4, <1>5, <1>6, <1>7, Zenon
  DEF LateNext, vars, SetNodeEnabled, CreateToken, Lapse, RevokeToken, LateSubmit, LateExpiry,
      RejectJoin, ReconcileRotation

\* The same for the operations that are one transaction on SQLite.
LEMMA StepLineage == TypeOK /\ TypeOK' /\ LineageSound /\ [Next]_vars => LineageSound'
BY LateLineage, NextIsLate, Zenon

\* The empty registry has no rotation chains.
LEMMA InitLineage == Init => LineageSound
<1> USE ConstantsAssumption DEF LineageSound, EmptyTable
<1>1. FreshInit \/ UntrustedNodeInit => LineageSound
  BY Zenon DEF FreshInit, UntrustedNodeInit
<1>2. UnboundApprovalInit => LineageSound
  BY DEF UnboundApprovalInit, OriginalTrust
<1>3. ASSUME StalePointerInit PROVE LineageSound
  <2>1. PICK n \in NodeIds, old \in EndpointIds, new \in EndpointIds, enabled \in BOOLEAN :
          StalePointerInit!1!(n, old, new, enabled)
    BY <1>3 DEF StalePointerInit
  <2>2. trust[old] # None /\ trust[new] # None
    <3>1. trust[old] \in EndpointTrustRecord /\ trust[new] \in EndpointTrustRecord
      BY <2>1 DEF EndpointTrustRecord, EndpointStatus
    <3> QED
      BY <3>1, Zenon
  <2>3. /\ trust[old].node_id = n /\ trust[old].status = "rotated" /\ trust[old].rotated_to = new
        /\ trust[old].fingerprint = None /\ trust[old].generation = 2
        /\ trust[old].previous_endpoint_id = None
        /\ trust[new].node_id = n /\ trust[new].status = "active" /\ trust[new].rotated_to = None
        /\ trust[new].fingerprint = None /\ trust[new].generation = 2
        /\ trust[new].previous_endpoint_id = old
        /\ \A e \in EndpointIds : e \notin {old, new} => trust[e] = None
    BY <2>1, Zenon
  <2> QED
    BY <2>2, <2>3
<1> QED
  BY <1>1, <1>2, <1>3, Zenon DEF Init

\* Rotation links never dangle, fork or lose the node, the fingerprint or the
\* order of generations, in whatever order endpoints are registered, claimed,
\* rotated, repaired and withdrawn.
THEOREM LineageIsSound == Spec => []LineageSound
<1>1. TypeOK /\ LineageSound /\ [Next]_vars => (TypeOK /\ LineageSound)'
  BY StepType, StepLineage
<1> QED
  BY InitType, InitLineage, <1>1, PTL DEF Spec

----------------------------------------------------------------------------
(* Enrollment provenance.                                                  *)

\* A step that decides no request and keeps every row's fingerprint and origin
\* keeps the provenance of every fingerprint.
LEMMA OriginKept ==
  ASSUME FingerprintOrigin, TypeOK, joins' = joins,
         \A e \in EndpointIds :
           /\ trust'[e] = None <=> trust[e] = None
           /\ trust[e] # None =>
                /\ trust'[e].fingerprint = trust[e].fingerprint
                /\ trust'[e].previous_endpoint_id = trust[e].previous_endpoint_id
  PROVE  FingerprintOrigin'
<1>1. \A r \in RequestIds : joins[r] # None =>
        joins[r].assigned_endpoint_id \in EndpointIds \cup {None}
  BY Zenon DEF TypeOK, JoinRequestRecord
<1>2. ASSUME NEW e \in EndpointIds, NEW r \in RequestIds, trust'[e] # None, trust'[e].fingerprint = r
      PROVE  /\ joins'[r] # None /\ joins'[r].status = "approved"
             /\ trust'[e].previous_endpoint_id = None => joins'[r].assigned_endpoint_id = e
  BY <1>2 DEF FingerprintOrigin
<1>3. ASSUME NEW r \in RequestIds, joins'[r] # None, joins'[r].status = "approved"
      PROVE  /\ joins'[r].assigned_endpoint_id # None
             /\ trust'[joins'[r].assigned_endpoint_id] # None
             /\ trust'[joins'[r].assigned_endpoint_id].fingerprint = r
  BY <1>1, <1>3, Zenon DEF FingerprintOrigin
<1> QED
  BY <1>2, <1>3, Zenon DEF FingerprintOrigin

\* The rows a status transition rewrites keep all but status and generation.
LEMMA TransitionsKeep ==
  ASSUME TypeOK, NEW S \in SUBSET EndpointIds, NEW s \in EndpointStatus,
         \A e \in S : trust[e] # None /\ CanTransition(e) /\ trust'[e] = Transitioned(e, s),
         \A e \in EndpointIds \ S : trust'[e] = trust[e]
  PROVE  \A e \in EndpointIds :
           /\ trust'[e] = None <=> trust[e] = None
           /\ trust[e] # None =>
                /\ trust'[e].fingerprint = trust[e].fingerprint
                /\ trust'[e].previous_endpoint_id = trust[e].previous_endpoint_id
                /\ trust'[e].node_id = trust[e].node_id
<1> USE ConstantsAssumption
<1> SUFFICES ASSUME NEW e \in S
             PROVE  /\ trust'[e] # None
                    /\ trust'[e].fingerprint = trust[e].fingerprint
                    /\ trust'[e].previous_endpoint_id = trust[e].previous_endpoint_id
                    /\ trust'[e].node_id = trust[e].node_id
  BY Zenon
<1>1. Transitioned(e, s) # None
  BY TransitionedType DEF CanTransition
<1> QED
  BY <1>1, TransitionedFields

\* Which rows an operation that only changes their status rewrites.
LEMMA StatusStepsKeep ==
  ASSUME TypeOK,
         (\E n \in NodeIds : RemoveNode(n)) \/
         (\E e \in EndpointIds, s \in {"revoked", "quarantined"} : UpdateEndpointStatus(e, s))
  PROVE  /\ joins' = joins /\ audit' = audit
         /\ \A e \in EndpointIds :
              /\ trust'[e] = None <=> trust[e] = None
              /\ trust[e] # None =>
                   /\ trust'[e].fingerprint = trust[e].fingerprint
                   /\ trust'[e].previous_endpoint_id = trust[e].previous_endpoint_id
                   /\ trust'[e].node_id = trust[e].node_id
<1> USE ConstantsAssumption DEF EndpointStatus
<1>1. CASE \E n \in NodeIds : RemoveNode(n)
  <2>1. PICK n \in NodeIds : RemoveNode(n)
    BY <1>1, Zenon
  <2> DEFINE S == RemovalCandidates(n)
  <2>2. S \in SUBSET EndpointIds /\ \A e \in S : trust[e] # None
    BY <2>1 DEF RemoveNode, RemovalCandidates, ActiveEndpoints, ActiveFor, TypeOK, NodeRow
  <2>3. \A e \in S : CanTransition(e) /\ trust'[e] = Transitioned(e, "revoked")
    BY <2>1, <2>2, Zenon DEF RemoveNode
  <2>4. \A e \in EndpointIds \ S : trust'[e] = trust[e]
    BY <2>1, Zenon DEF RemoveNode
  <2> QED
    BY <2>1, <2>2, <2>3, <2>4, TransitionsKeep, Zenon DEF RemoveNode
<1>2. CASE \E e \in EndpointIds, s \in {"revoked", "quarantined"} : UpdateEndpointStatus(e, s)
  <2>1. PICK e \in EndpointIds, s \in {"revoked", "quarantined"} : UpdateEndpointStatus(e, s)
    BY <1>2, Zenon
  <2>2. /\ trust[e] # None /\ CanTransition(e) /\ trust'[e] = Transitioned(e, s)
        /\ \A f \in EndpointIds \ {e} : trust'[f] = trust[f]
    BY <2>1, Zenon DEF UpdateEndpointStatus, TypeOK
  <2> DEFINE S == {e}
  <2>3. /\ \A f \in S : trust[f] # None /\ CanTransition(f) /\ trust'[f] = Transitioned(f, s)
        /\ \A f \in EndpointIds \ S : trust'[f] = trust[f]
    BY <2>2, Zenon
  <2>4. S \in SUBSET EndpointIds /\ s \in EndpointStatus
    BY Zenon
  <2> HIDE DEF EndpointStatus, S
  <2> QED
    BY <2>1, <2>3, <2>4, TransitionsKeep, ZenonT(40) DEF UpdateEndpointStatus
<1> QED
  BY <1>1, <1>2, Zenon

\* Every operation preserves the provenance of fingerprints.
LEMMA LateOrigin == TypeOK /\ FingerprintOrigin /\ [LateNext]_vars => FingerprintOrigin'
<1> SUFFICES ASSUME TypeOK, FingerprintOrigin, [LateNext]_vars PROVE FingerprintOrigin'
  BY Zenon
<1> USE ConstantsAssumption
<1>1. ASSUME NEW n \in NodeIds, NEW e \in EndpointIds, AddNode(n, e) PROVE FingerprintOrigin'
  <2>1. /\ joins' = joins /\ trust[e] = None /\ trust'[e] = OriginalTrust(n, None)
        /\ OriginalTrust(n, None).fingerprint = None
        /\ \A f \in EndpointIds : f # e => trust'[f] = trust[f]
    BY <1>1, Zenon DEF AddNode, OriginalTrust, TypeOK
  <2>2. \A q \in RequestIds : joins[q] # None =>
          joins[q].assigned_endpoint_id \in EndpointIds \cup {None}
    BY Zenon DEF TypeOK, JoinRequestRecord
  <2> QED
    BY <2>1, <2>2 DEF FingerprintOrigin
<1>2. ASSUME (\E n \in NodeIds : RemoveNode(n)) \/
             (\E e \in EndpointIds, s \in {"revoked", "quarantined"} : UpdateEndpointStatus(e, s))
      PROVE FingerprintOrigin'
  BY <1>2, StatusStepsKeep, OriginKept, Zenon
<1>3. ASSUME NEW r \in RequestIds, NEW t \in TokenIds, NEW q \in EndpointIds \cup {None},
             LateSubmit(r, t, q) PROVE FingerprintOrigin'
  <2>1. /\ trust' = trust /\ joins[r] = None /\ joins'[r].status = "pending"
        /\ \A p \in RequestIds : p # r => joins'[p] = joins[p]
    BY <1>3, Zenon DEF LateSubmit, TypeOK
  <2> QED
    BY <2>1 DEF FingerprintOrigin
<1>4. ASSUME NEW r \in RequestIds, RejectJoin(r) PROVE FingerprintOrigin'
  <2>1. /\ trust' = trust /\ joins[r].status = "pending" /\ joins'[r].status = "rejected"
        /\ \A p \in RequestIds : p # r => joins'[p] = joins[p]
    BY <1>4, Zenon DEF RejectJoin, TypeOK, JoinRequestRecord
  <2> QED
    BY <2>1 DEF FingerprintOrigin
<1>5. ASSUME NEW r \in RequestIds, NEW n \in NodeIds, NEW e \in EndpointIds, LateApprove(r, n, e)
      PROVE FingerprintOrigin'
  <2>1. /\ joins[r] # None /\ joins[r].status = "pending" /\ trust[e] = None
        /\ joins'[r].status = "approved" /\ joins'[r].assigned_endpoint_id = e
        /\ \A p \in RequestIds : p # r => joins'[p] = joins[p]
    BY <1>5 DEF LateApprove, TypeOK, JoinRequestRecord
  <2>2. /\ trust'[e].fingerprint = r /\ trust'[e] # None
        /\ \A f \in EndpointIds : f # e => trust'[f] = trust[f]
    <3>1. OriginalTrust(n, r) # None
      BY OriginalTrustType, Zenon
    <3> QED
      BY <1>5, <3>1, Zenon DEF LateApprove, OriginalTrust, TypeOK
  <2>3. joins'[r] # None
    <3>1. joins[r] \in JoinRequestRecord
      BY <2>1, Zenon DEF TypeOK
    <3>2. [joins[r] EXCEPT !.status = "approved", !.assigned_endpoint_id = e] \in JoinRequestRecord
      BY <3>1, Zenon DEF JoinRequestRecord
    <3>3. joins'[r] = [joins[r] EXCEPT !.status = "approved", !.assigned_endpoint_id = e]
      BY <1>5, Zenon DEF LateApprove, TypeOK
    <3> QED
      BY <3>2, <3>3, Zenon
  <2>4. ASSUME NEW f \in EndpointIds, NEW q \in RequestIds, trust'[f] # None, trust'[f].fingerprint = q
        PROVE  /\ joins'[q] # None /\ joins'[q].status = "approved"
               /\ trust'[f].previous_endpoint_id = None => joins'[q].assigned_endpoint_id = f
    BY <2>1, <2>2, <2>3, <2>4 DEF FingerprintOrigin
  <2>5. ASSUME NEW q \in RequestIds, joins'[q] # None, joins'[q].status = "approved"
        PROVE  /\ joins'[q].assigned_endpoint_id # None
               /\ trust'[joins'[q].assigned_endpoint_id] # None
               /\ trust'[joins'[q].assigned_endpoint_id].fingerprint = q
    <3>1. CASE q = r
      BY <3>1, <2>1, <2>2, Zenon
    <3>2. CASE q # r
      <4>1. /\ joins[q].assigned_endpoint_id \in EndpointIds
            /\ trust[joins[q].assigned_endpoint_id] # None
            /\ trust[joins[q].assigned_endpoint_id].fingerprint = q
        BY <3>2, <2>1, <2>5 DEF FingerprintOrigin, TypeOK, JoinRequestRecord
      <4> QED
        BY <3>2, <4>1, <2>1, <2>2
    <3> QED
      BY <3>1, <3>2, Zenon
  <2> QED
    BY <2>4, <2>5, Zenon DEF FingerprintOrigin
<1>6. ASSUME NEW r \in RequestIds, NEW n \in NodeIds, NEW e \in EndpointIds, LateClaim(r, n, e)
      PROVE FingerprintOrigin'
  <2>1. /\ joins' = joins /\ trust[e] \in EndpointTrustRecord
        /\ trust' = [trust EXCEPT ![e].node_id = n]
    BY <1>6, OriginalTrustType, Zenon DEF LateClaim, LegacyUnboundTrust
  <2>2. /\ trust'[e] # None /\ trust[e] # None /\ trust'[e].fingerprint = trust[e].fingerprint
        /\ trust'[e].previous_endpoint_id = trust[e].previous_endpoint_id
        /\ \A f \in EndpointIds : f # e => trust'[f] = trust[f]
    <3>1. trust'[e] = [trust[e] EXCEPT !.node_id = n] /\ \A f \in EndpointIds : f # e => trust'[f] = trust[f]
      BY <2>1, Zenon DEF TypeOK
    <3>2. [trust[e] EXCEPT !.node_id = n] \in EndpointTrustRecord
      BY <2>1, Zenon DEF EndpointTrustRecord
    <3> QED
      BY <2>1, <3>1, <3>2 DEF EndpointTrustRecord
  <2> QED
    BY <2>1, <2>2, OriginKept, Zenon
<1>7. ASSUME NEW old \in EndpointIds, NEW new \in EndpointIds, RotateEndpoint(old, new)
      PROVE FingerprintOrigin'
  <2> DEFINE o == [Transitioned(old, "rotated") EXCEPT !.rotated_to = new]
  <2>1. /\ trust'[old] = o /\ trust'[new] = Successor(old) /\ old # new
        /\ \A e \in EndpointIds : e \notin {old, new} => trust'[e] = trust[e]
        /\ trust[old] # None /\ trust[new] = None /\ joins' = joins
    BY <1>7, Zenon DEF RotateEndpoint, TypeOK
  <2>2. /\ o.fingerprint = trust[old].fingerprint
        /\ o.previous_endpoint_id = trust[old].previous_endpoint_id
        /\ Successor(old).fingerprint = trust[old].fingerprint
        /\ Successor(old).previous_endpoint_id # None
    BY <2>1, RotatedFields DEF Successor
  <2>3. o # None
    BY <1>7, RotatedType DEF RotateEndpoint
  <2> HIDE DEF o
  <2>4. ASSUME NEW f \in EndpointIds, NEW q \in RequestIds, trust'[f] # None, trust'[f].fingerprint = q
        PROVE  /\ joins'[q] # None /\ joins'[q].status = "approved"
               /\ trust'[f].previous_endpoint_id = None => joins'[q].assigned_endpoint_id = f
    BY <2>1, <2>2, <2>4 DEF FingerprintOrigin
  <2>5. ASSUME NEW q \in RequestIds, joins'[q] # None, joins'[q].status = "approved"
        PROVE  /\ joins'[q].assigned_endpoint_id # None
               /\ trust'[joins'[q].assigned_endpoint_id] # None
               /\ trust'[joins'[q].assigned_endpoint_id].fingerprint = q
    <3>1. /\ joins[q].assigned_endpoint_id \in EndpointIds
          /\ trust[joins[q].assigned_endpoint_id] # None
          /\ trust[joins[q].assigned_endpoint_id].fingerprint = q
      BY <2>1, <2>5, Zenon DEF FingerprintOrigin, TypeOK, JoinRequestRecord
    <3> QED
      BY <3>1, <2>1, <2>2, <2>3, Zenon
  <2> QED
    BY <2>4, <2>5, Zenon DEF FingerprintOrigin
<1>8. CASE UNCHANGED <<trust, joins>>
  BY <1>8, Zenon DEF FingerprintOrigin
<1> QED
  BY <1>1, <1>2, <1>3, <1>4, <1>5, <1>6, <1>7, <1>8, Zenon
  DEF LateNext, vars, SetNodeEnabled, CreateToken, Lapse, RevokeToken, LateExpiry, ReconcileRotation

\* The same for the operations that are one transaction on SQLite.
LEMMA StepOrigin == TypeOK /\ FingerprintOrigin /\ [Next]_vars => FingerprintOrigin'
BY LateOrigin, NextIsLate, Zenon

\* The provenance holds in the empty database and in those of older binaries.
LEMMA InitOrigin == Init => FingerprintOrigin
<1> USE ConstantsAssumption DEF FingerprintOrigin, EmptyTable
<1>1. FreshInit \/ UntrustedNodeInit => FingerprintOrigin
  BY Zenon DEF FreshInit, UntrustedNodeInit
<1>2. ASSUME UnboundApprovalInit PROVE FingerprintOrigin
  <2>1. PICK t \in TokenIds, r \in RequestIds, e \in EndpointIds, requested \in {TRUE, FALSE} :
          UnboundApprovalInit!(t, r, e, requested)
    BY <1>2, Zenon DEF UnboundApprovalInit
  <2>2. /\ joins[r].status = "approved" /\ joins[r].assigned_endpoint_id = e
        /\ \A q \in RequestIds : q # r => joins[q] = None
        /\ trust[e] = OriginalTrust(None, r)
        /\ \A f \in EndpointIds : f # e => trust[f] = None
    BY <2>1, Zenon
  <2>3. trust[e] # None /\ trust[e].fingerprint = r /\ joins[r] # None
    <3>1. joins \in [RequestIds -> JoinRequestRecord \cup {None}] /\ joins[r] \in JoinRequestRecord
      BY <2>1, Zenon DEF JoinRequestRecord
    <3> QED
      BY <2>2, <3>1, OriginalTrustType DEF OriginalTrust
  <2> QED
    BY <2>2, <2>3
<1>3. ASSUME StalePointerInit PROVE FingerprintOrigin
  <2>1. PICK n \in NodeIds, old \in EndpointIds, new \in EndpointIds, enabled \in BOOLEAN :
          StalePointerInit!1!(n, old, new, enabled)
    BY <1>3 DEF StalePointerInit
  <2>2. /\ trust[old].fingerprint = None /\ trust[new].fingerprint = None
        /\ \A e \in EndpointIds : e \notin {old, new} => trust[e] = None
    BY <2>1, Zenon
  <2> QED
    BY <1>3, <2>2 DEF StalePointerInit
<1> QED
  BY <1>1, <1>2, <1>3, Zenon DEF Init

\* In every order of submissions, approvals, rejections, claims, rotations and
\* withdrawals, a fingerprint is traced to the one request approved for it,
\* and an approved request to its endpoint.
THEOREM FingerprintsTraced == Spec => []FingerprintOrigin
<1>1. TypeOK /\ FingerprintOrigin /\ [Next]_vars => (TypeOK /\ FingerprintOrigin)'
  BY StepType, StepOrigin, Zenon
<1> QED
  BY InitType, InitOrigin, <1>1, PTL DEF Spec

\* A step that writes no request and no audit row and moves no endpoint to
\* another node keeps the audit trail true.
LEMMA BindingKept ==
  ASSUME TypeOK, FingerprintOrigin, BindingAudited, joins' = joins, audit' = audit,
         \A e \in EndpointIds : trust[e] # None => trust'[e].node_id = trust[e].node_id
  PROVE  BindingAudited'
<1>1. \A r \in RequestIds : joins[r] # None /\ joins[r].status = "approved" =>
        /\ joins[r].assigned_endpoint_id \in EndpointIds
        /\ trust[joins[r].assigned_endpoint_id] # None
  BY Zenon DEF FingerprintOrigin, TypeOK, JoinRequestRecord
<1> QED
  BY <1>1, Zenon DEF BindingAudited

\* Only approve_join_request and claim_legacy_enrollment write the trail: the
\* first to an empty one, the second to one whose approval named no node.
LEMMA LateBinding ==
  TypeOK /\ FingerprintOrigin /\ BindingAudited /\ [LateNext]_vars => BindingAudited'
<1> SUFFICES ASSUME TypeOK, FingerprintOrigin, BindingAudited, [LateNext]_vars PROVE BindingAudited'
  BY Zenon
<1> USE ConstantsAssumption
<1>0. ASSUME NEW r \in RequestIds, joins[r] # None, joins[r].status = "approved"
      PROVE  /\ joins[r].assigned_endpoint_id \in EndpointIds
             /\ trust[joins[r].assigned_endpoint_id] # None
             /\ trust[joins[r].assigned_endpoint_id].fingerprint = r
  BY <1>0, Zenon DEF FingerprintOrigin, TypeOK, JoinRequestRecord
<1>1. ASSUME NEW n \in NodeIds, NEW e \in EndpointIds, AddNode(n, e) PROVE BindingAudited'
  BY <1>1, BindingKept, Zenon DEF AddNode, TypeOK
<1>2. ASSUME (\E n \in NodeIds : RemoveNode(n)) \/
             (\E e \in EndpointIds, s \in {"revoked", "quarantined"} : UpdateEndpointStatus(e, s))
      PROVE BindingAudited'
  BY <1>2, StatusStepsKeep, BindingKept, Zenon
<1>3. ASSUME NEW r \in RequestIds, NEW t \in TokenIds, NEW q \in EndpointIds \cup {None},
             LateSubmit(r, t, q) PROVE BindingAudited'
  <2>1. /\ trust' = trust /\ audit' = audit /\ joins[r] = None /\ joins'[r].status = "pending"
        /\ \A p \in RequestIds : p # r => joins'[p] = joins[p]
    BY <1>3, Zenon DEF LateSubmit, TypeOK
  <2> QED
    BY <2>1 DEF BindingAudited
<1>4. ASSUME NEW r \in RequestIds, RejectJoin(r) PROVE BindingAudited'
  <2>1. /\ trust' = trust /\ audit' = audit /\ joins[r].status = "pending"
        /\ joins'[r].status = "rejected"
        /\ \A p \in RequestIds : p # r => joins'[p] = joins[p]
    BY <1>4, Zenon DEF RejectJoin, TypeOK, JoinRequestRecord
  <2> QED
    BY <2>1 DEF BindingAudited
<1>5. ASSUME NEW r \in RequestIds, NEW n \in NodeIds, NEW e \in EndpointIds, LateApprove(r, n, e)
      PROVE BindingAudited'
  <2> DEFINE row == [event |-> "enrollment.approve", endpoint_id |-> e, node_id |-> n]
  <2>1. /\ joins[r] # None /\ joins[r].status = "pending" /\ trust[e] = None
        /\ joins'[r].status = "approved" /\ joins'[r].assigned_endpoint_id = e
        /\ \A p \in RequestIds : p # r => joins'[p] = joins[p]
    BY <1>5 DEF LateApprove, TypeOK, JoinRequestRecord
  <2>0. joins'[r] # None
    <3>0. joins[r] \in JoinRequestRecord
      BY <2>1, Zenon DEF TypeOK
    <3>1. [joins[r] EXCEPT !.status = "approved", !.assigned_endpoint_id = e] \in JoinRequestRecord
      BY <3>0, Zenon DEF JoinRequestRecord
    <3>2. joins'[r] = [joins[r] EXCEPT !.status = "approved", !.assigned_endpoint_id = e]
      BY <1>5, Zenon DEF LateApprove, TypeOK
    <3> QED
      BY <3>1, <3>2, Zenon
  <2>2. trust'[e].node_id = n /\ \A f \in EndpointIds : f # e => trust'[f] = trust[f]
    BY <1>5, Zenon DEF LateApprove, OriginalTrust, TypeOK
  <2>3. audit[r] = <<>>
    BY <2>1, Zenon DEF BindingAudited
  <2>4. audit'[r] = <<row>> /\ \A p \in RequestIds : p # r => audit'[p] = audit[p]
    BY <1>5, <2>3 DEF LateApprove, TypeOK
  <2>5. Len(audit'[r]) = 1 /\ audit'[r][1] = row
    BY <2>4
  <2>6. row.event = "enrollment.approve" /\ row.node_id = n
    BY Zenon
  <2> HIDE DEF row
  <2>7. ASSUME NEW p \in RequestIds, p # r PROVE BindingAudited!(p)'
    BY <1>0, <2>1, <2>2, <2>4, <2>7 DEF BindingAudited
  <2>8. BindingAudited!(r)'
    BY <2>0, <2>1, <2>2, <2>5, <2>6
  <2> QED
    BY <2>7, <2>8, Zenon DEF BindingAudited
<1>6. ASSUME NEW r \in RequestIds, NEW n \in NodeIds, NEW e \in EndpointIds, LateClaim(r, n, e)
      PROVE BindingAudited'
  <2> DEFINE row == [event |-> "enrollment.claim", endpoint_id |-> e, node_id |-> n]
  <2>1. /\ joins' = joins /\ joins[r] # None /\ joins[r].status = "approved"
        /\ joins[r].assigned_endpoint_id = e
    BY <1>6, Zenon DEF LateClaim, ApprovedJoinProvenance
  <2>2. /\ trust[e].node_id = None /\ trust[e].fingerprint = r /\ trust'[e].node_id = n
        /\ \A f \in EndpointIds : f # e => trust'[f] = trust[f]
    <3>1. trust[e] = OriginalTrust(None, r) /\ trust[e] \in EndpointTrustRecord
      BY <1>6, OriginalTrustType, Zenon DEF LateClaim, LegacyUnboundTrust
    <3>2. trust'[e] = [trust[e] EXCEPT !.node_id = n]
          /\ \A f \in EndpointIds : f # e => trust'[f] = trust[f]
      BY <1>6, Zenon DEF LateClaim, TypeOK
    <3> QED
      BY <3>1, <3>2 DEF OriginalTrust, EndpointTrustRecord
  <2>3. /\ Len(audit[r]) = 1 /\ audit[r][1].event = "enrollment.approve"
        /\ audit[r][1].node_id = None /\ audit[r] \in Seq(EnrollmentAudit)
    BY <2>1, <2>2, Zenon DEF BindingAudited, TypeOK
  <2>4. /\ audit'[r] = Append(audit[r], row)
        /\ \A p \in RequestIds : p # r => audit'[p] = audit[p]
    BY <1>6, Zenon DEF LateClaim, TypeOK
  <2>5. Len(audit'[r]) = 2 /\ audit'[r][1] = audit[r][1] /\ audit'[r][2] = row
    BY <2>3, <2>4
  <2>6. row.event = "enrollment.claim" /\ row.node_id = n /\ n # None
    BY Zenon
  <2> HIDE DEF row
  <2>7. ASSUME NEW p \in RequestIds, p # r PROVE BindingAudited!(p)'
    BY <1>0, <2>1, <2>2, <2>4, <2>7 DEF BindingAudited
  <2>8. BindingAudited!(r)'
    BY <2>1, <2>2, <2>3, <2>5, <2>6, Zenon
  <2> QED
    BY <2>7, <2>8 DEF BindingAudited
<1>7. ASSUME NEW old \in EndpointIds, NEW new \in EndpointIds, RotateEndpoint(old, new)
      PROVE BindingAudited'
  <2>1. /\ trust'[old] = [Transitioned(old, "rotated") EXCEPT !.rotated_to = new]
        /\ \A e \in EndpointIds : e \notin {old, new} => trust'[e] = trust[e]
        /\ trust[old] # None /\ trust[new] = None /\ joins' = joins /\ audit' = audit
    BY <1>7, Zenon DEF RotateEndpoint, TypeOK
  <2>2. trust'[old].node_id = trust[old].node_id
    BY <2>1, RotatedFields
  <2> QED
    BY <2>1, <2>2, BindingKept, Zenon
<1>8. CASE UNCHANGED <<trust, joins, audit>>
  BY <1>8, Zenon DEF BindingAudited
<1> QED
  BY <1>1, <1>2, <1>3, <1>4, <1>5, <1>6, <1>7, <1>8
  DEF LateNext, vars, SetNodeEnabled, CreateToken, Lapse, RevokeToken, LateExpiry, ReconcileRotation

\* The same for the operations that are one transaction on SQLite.
LEMMA StepBinding ==
  TypeOK /\ FingerprintOrigin /\ BindingAudited /\ [Next]_vars => BindingAudited'
BY LateBinding, NextIsLate, Zenon

\* The empty registry has no bindings to account for.
LEMMA InitBinding == Init => BindingAudited
<1> USE ConstantsAssumption DEF BindingAudited, EmptyTable
<1>1. FreshInit \/ UntrustedNodeInit \/ StalePointerInit => BindingAudited
  BY Zenon DEF FreshInit, UntrustedNodeInit, StalePointerInit
<1>2. ASSUME UnboundApprovalInit PROVE BindingAudited
  <2>1. PICK t \in TokenIds, r \in RequestIds, e \in EndpointIds, requested \in {TRUE, FALSE} :
          UnboundApprovalInit!(t, r, e, requested)
    BY <1>2 DEF UnboundApprovalInit
  <2>2. /\ joins[r].status = "approved" /\ joins[r].assigned_endpoint_id = e
        /\ \A q \in RequestIds : q # r => joins[q] = None /\ audit[q] = <<>>
        /\ trust[e].node_id = None
    BY <2>1, Zenon DEF OriginalTrust
  <2>3. audit[r] = <<[event |-> "enrollment.approve", endpoint_id |-> e, node_id |-> None]>>
    BY <2>1, Zenon
  <2>4. /\ Len(audit[r]) = 1 /\ audit[r][1].event = "enrollment.approve"
        /\ audit[r][1].node_id = None
    BY <2>3
  <2>5. joins[r] # None
    <3>1. joins[r] \in JoinRequestRecord
      BY <2>1, Zenon DEF JoinRequestRecord
    <3> QED
      BY <3>1, Zenon
  <2> QED
    BY <2>2, <2>4, <2>5
<1> QED
  BY <1>1, <1>2, Zenon DEF Init

\* Whatever operations follow an enrollment, the last audit row of its request
\* names the node its endpoint is bound to.  FingerprintOrigin is what tells
\* that a claim of one request rewrites no other request's endpoint.
THEOREM BindingsAudited == Spec => []BindingAudited
<1> DEFINE Inv == TypeOK /\ FingerprintOrigin /\ BindingAudited
<1>1. Inv /\ [Next]_vars => Inv'
  BY StepType, StepOrigin, StepBinding, Zenon
<1>2. Init => Inv
  BY InitType, InitOrigin, InitBinding, Zenon
<1> QED
  BY <1>1, <1>2, PTL DEF Spec

----------------------------------------------------------------------------

(* Enrollment tokens.                                                      *)

\* One element is counted once.
LEMMA SingletonCount == \A x : Cardinality({x}) = 1
<1> SUFFICES ASSUME NEW x PROVE Cardinality({x}) = 1
  BY Zenon
<1>1. Cardinality({}) = 0 /\ IsFiniteSet({})
  BY FS_EmptySet, Zenon
<1>2. Cardinality({} \cup {x}) = IF x \in {} THEN 0 ELSE 0 + 1
  BY <1>1, FS_AddElement, Zenon
<1>3. {x} = {} \cup {x}
  BY Zenon
<1> QED
  BY <1>2, <1>3

\* The requests a token was used for are finitely many.
LEMMA SubmittedFinite == \A t \in TokenIds : IsFiniteSet(SubmittedWith(t))
BY ConstantsAssumption, FS_Subset, Zenon DEF SubmittedWith

\* A step that submits nothing, issues no token and keeps the counts.
LEMMA CountsKept ==
  ASSUME TokenAccounting,
         \A t \in TokenIds : SubmittedWith(t)' = SubmittedWith(t),
         \A t \in TokenIds : /\ tokens'[t] = None <=> tokens[t] = None
                             /\ tokens[t] # None =>
                                  /\ tokens'[t].used_count = tokens[t].used_count
                                  /\ tokens'[t].max_uses = tokens[t].max_uses
  PROVE  TokenAccounting'
BY Zenon DEF TokenAccounting

\* submit_join_request is the one operation that adds a request, and it counts
\* it; the others keep which token a request was submitted with.
LEMMA LateTokens == TypeOK /\ TokenAccounting /\ [LateNext]_vars => TokenAccounting'
<1> SUFFICES ASSUME TypeOK, TokenAccounting, [LateNext]_vars PROVE TokenAccounting'
  OBVIOUS
<1> USE ConstantsAssumption
<1>1. ASSUME NEW t \in TokenIds, NEW m \in 1..MaxTokenUses, CreateToken(t, m) PROVE TokenAccounting'
  <2>1. /\ joins' = joins /\ tokens[t] = None
        /\ tokens'[t].used_count = 0 /\ tokens'[t].max_uses = m
        /\ \A s \in TokenIds : s # t => tokens'[s] = tokens[s]
    BY <1>1, Zenon DEF CreateToken, TypeOK
  <2>2. \A s \in TokenIds : SubmittedWith(s)' = SubmittedWith(s)
    BY <2>1, Zenon DEF SubmittedWith
  <2>3. SubmittedWith(t) = {} /\ Cardinality(SubmittedWith(t)) = 0
    BY <2>1, FS_EmptySet, Zenon DEF TokenAccounting
  <2>4. ASSUME NEW s \in TokenIds PROVE TokenAccounting!(s)'
    <3>1. CASE s = t
      BY <3>1, <2>1, <2>2, <2>3
    <3>2. CASE s # t
      BY <3>2, <2>1, <2>2, Zenon DEF TokenAccounting
    <3> QED
      BY <3>1, <3>2, Zenon
  <2> QED
    BY <2>4, Zenon DEF TokenAccounting
<1>2. ASSUME NEW t \in TokenIds, Lapse(t) \/ RevokeToken(t) \/ LateExpiry(t)
      PROVE TokenAccounting'
  <2>1. joins' = joins /\ tokens[t] # None /\ tokens[t] \in EnrollmentTokenRecord
    BY <1>2, Zenon DEF Lapse, RevokeToken, LateExpiry, TypeOK
  <2>2. PICK row : /\ tokens' = [tokens EXCEPT ![t] = row] /\ row \in EnrollmentTokenRecord
                   /\ row.used_count = tokens[t].used_count /\ row.max_uses = tokens[t].max_uses
    <3>1. CASE Lapse(t)
      <4> DEFINE w == [tokens[t] EXCEPT !.lapsed = TRUE]
      <4>1. w \in EnrollmentTokenRecord /\ w.used_count = tokens[t].used_count /\ w.max_uses = tokens[t].max_uses
        BY <2>1, Zenon DEF EnrollmentTokenRecord
      <4>2. tokens' = [tokens EXCEPT ![t] = w]
        BY <3>1, Zenon DEF Lapse
      <4> QED
        BY <4>1, <4>2, Zenon
    <3>2. CASE RevokeToken(t)
      <4> DEFINE w == [tokens[t] EXCEPT !.status = "revoked"]
      <4>1. w \in EnrollmentTokenRecord /\ w.used_count = tokens[t].used_count /\ w.max_uses = tokens[t].max_uses
        BY <2>1, Zenon DEF EnrollmentTokenRecord
      <4>2. tokens' = [tokens EXCEPT ![t] = w]
        BY <3>2, Zenon DEF RevokeToken
      <4> QED
        BY <4>1, <4>2, Zenon
    <3>3. CASE LateExpiry(t)
      <4> DEFINE w == [tokens[t] EXCEPT !.status = "expired"]
      <4>1. w \in EnrollmentTokenRecord /\ w.used_count = tokens[t].used_count /\ w.max_uses = tokens[t].max_uses
        BY <2>1, Zenon DEF EnrollmentTokenRecord
      <4>2. tokens' = [tokens EXCEPT ![t] = w]
        BY <3>3, Zenon DEF LateExpiry
      <4> QED
        BY <4>1, <4>2, Zenon
    <3> QED
      BY <1>2, <3>1, <3>2, <3>3, Zenon
  <2>3. \A s \in TokenIds : SubmittedWith(s)' = SubmittedWith(s)
    BY <2>1, Zenon DEF SubmittedWith
  <2>4. row # None /\ tokens'[t] = row /\ \A s \in TokenIds : s # t => tokens'[s] = tokens[s]
    BY <2>2, Zenon DEF TypeOK
  <2> QED
    BY <2>1, <2>2, <2>3, <2>4, CountsKept, Zenon
<1>3. ASSUME NEW r \in RequestIds, NEW t \in TokenIds, NEW q \in EndpointIds \cup {None},
             LateSubmit(r, t, q) PROVE TokenAccounting'
  <2> DEFINE row == [token_id |-> t, status |-> "pending",
                     requested_endpoint_id |-> q, assigned_endpoint_id |-> None]
  <2>1. /\ joins[r] = None /\ joins'[r] = row /\ tokens[t] # None
        /\ \A p \in RequestIds : p # r => joins'[p] = joins[p]
        /\ \A s \in TokenIds : s # t => tokens'[s] = tokens[s]
        /\ tokens[t].used_count < tokens[t].max_uses
    BY <1>3 DEF LateSubmit, TypeOK
  <2>2. row # None /\ row.token_id = t
    <3>1. row \in JoinRequestRecord
      BY Zenon DEF JoinRequestRecord
    <3> QED
      BY <3>1, Zenon
  <2> HIDE DEF row
  <2>3. tokens[t] \in EnrollmentTokenRecord /\ tokens' = [tokens EXCEPT ![t].used_count = @ + 1]
    BY <1>3, <2>1, Zenon DEF LateSubmit, TypeOK
  <2>4. /\ tokens'[t].used_count = tokens[t].used_count + 1
        /\ tokens'[t].max_uses = tokens[t].max_uses
        /\ tokens[t].used_count \in Int /\ tokens[t].max_uses \in Int
    BY <2>3 DEF EnrollmentTokenRecord, TypeOK
  <2>5. SubmittedWith(t)' = SubmittedWith(t) \cup {r} /\ r \notin SubmittedWith(t)
    BY <2>1, <2>2 DEF SubmittedWith
  <2>6. Cardinality(SubmittedWith(t)') = Cardinality(SubmittedWith(t)) + 1
    BY <2>5, SubmittedFinite, FS_AddElement, Zenon
  <2>7. \A s \in TokenIds : s # t => SubmittedWith(s)' = SubmittedWith(s)
    BY <2>1, <2>2 DEF SubmittedWith
  <2>8. tokens'[t] # None
    <3>1. tokens[t].used_count + 1 \in 0..MaxTokenUses
      BY <2>1, <2>3 DEF EnrollmentTokenRecord
    <3>2. [tokens[t] EXCEPT !.used_count = @ + 1] \in EnrollmentTokenRecord
      BY <2>3, <3>1, Zenon DEF EnrollmentTokenRecord
    <3>3. tokens'[t] = [tokens[t] EXCEPT !.used_count = @ + 1]
      BY <2>3, Zenon DEF TypeOK
    <3> QED
      BY <3>2, <3>3, Zenon
  <2>9. ASSUME NEW s \in TokenIds PROVE TokenAccounting!(s)'
    <3>1. CASE s = t
      <4>1. tokens[t].used_count = Cardinality(SubmittedWith(t))
        BY <2>1, Zenon DEF TokenAccounting
      <4> QED
        BY <3>1, <4>1, <2>1, <2>4, <2>6, <2>8
    <3>2. CASE s # t
      BY <3>2, <2>1, <2>7, Zenon DEF TokenAccounting
    <3> QED
      BY <3>1, <3>2, Zenon
  <2> QED
    BY <2>9, Zenon DEF TokenAccounting
<1>4. ASSUME NEW r \in RequestIds, RejectJoin(r) PROVE TokenAccounting'
  <2>1. /\ tokens' = tokens /\ joins[r] # None /\ joins[r] \in JoinRequestRecord
        /\ joins' = [joins EXCEPT ![r].status = "rejected"]
    BY <1>4, Zenon DEF RejectJoin, TypeOK
  <2>2. /\ joins'[r] # None /\ joins'[r].token_id = joins[r].token_id
        /\ \A p \in RequestIds : p # r => joins'[p] = joins[p]
    <3> DEFINE w == [joins[r] EXCEPT !.status = "rejected"]
    <3>1. w \in JoinRequestRecord /\ w.token_id = joins[r].token_id
      BY <2>1, Zenon DEF JoinRequestRecord
    <3>2. joins'[r] = w /\ \A p \in RequestIds : p # r => joins'[p] = joins[p]
      BY <2>1, Zenon DEF TypeOK
    <3> QED
      BY <3>1, <3>2, Zenon
  <2>3. \A s \in TokenIds : SubmittedWith(s)' = SubmittedWith(s)
    BY <2>1, <2>2 DEF SubmittedWith
  <2> QED
    BY <2>1, <2>3, CountsKept, Zenon
<1>5. ASSUME NEW r \in RequestIds, NEW n \in NodeIds, NEW e \in EndpointIds, LateApprove(r, n, e)
      PROVE TokenAccounting'
  <2>1. tokens' = tokens /\ joins[r] # None /\ joins[r] \in JoinRequestRecord
    BY <1>5, Zenon DEF LateApprove, TypeOK
  <2>2. /\ joins'[r] # None /\ joins'[r].token_id = joins[r].token_id
        /\ \A p \in RequestIds : p # r => joins'[p] = joins[p]
    <3> DEFINE w == [joins[r] EXCEPT !.status = "approved", !.assigned_endpoint_id = e]
    <3>1. w \in JoinRequestRecord /\ w.token_id = joins[r].token_id
      BY <2>1, Zenon DEF JoinRequestRecord
    <3>2. joins'[r] = w /\ \A p \in RequestIds : p # r => joins'[p] = joins[p]
      BY <1>5, Zenon DEF LateApprove, TypeOK
    <3> QED
      BY <3>1, <3>2, Zenon
  <2>3. \A s \in TokenIds : SubmittedWith(s)' = SubmittedWith(s)
    BY <2>1, <2>2, Zenon DEF SubmittedWith
  <2> QED
    BY <2>1, <2>3, CountsKept, Zenon
<1>6. CASE UNCHANGED <<tokens, joins>>
  BY <1>6, CountsKept, Zenon DEF SubmittedWith
<1> QED
  BY <1>1, <1>2, <1>3, <1>4, <1>5, <1>6
  DEF LateNext, vars, SetNodeEnabled, AddNode, RemoveNode, LateClaim, RotateEndpoint,
      ReconcileRotation, UpdateEndpointStatus

\* The same for the operations that are one transaction on SQLite.
LEMMA StepTokens == TypeOK /\ TokenAccounting /\ [Next]_vars => TokenAccounting'
BY LateTokens, NextIsLate, Zenon

\* No token is used or accounted for at first.
LEMMA InitTokens == Init => TokenAccounting
<1> USE ConstantsAssumption DEF TokenAccounting, EmptyTable
<1>1. FreshInit \/ UntrustedNodeInit \/ StalePointerInit => TokenAccounting
  BY DEF FreshInit, UntrustedNodeInit, StalePointerInit, SubmittedWith
<1>2. ASSUME UnboundApprovalInit PROVE TokenAccounting
  <2>1. PICK t \in TokenIds, r \in RequestIds, e \in EndpointIds, requested \in {TRUE, FALSE} :
          UnboundApprovalInit!(t, r, e, requested)
    BY <1>2 DEF UnboundApprovalInit
  <2>2. /\ joins[r].token_id = t /\ \A q \in RequestIds : q # r => joins[q] = None
        /\ tokens[t].used_count = 1 /\ tokens[t].max_uses = 1
        /\ \A s \in TokenIds : s # t => tokens[s] = None
    BY <2>1, Zenon
  <2>3. joins[r] # None /\ tokens[t] # None
    <3>1. joins[r] \in JoinRequestRecord /\ tokens[t] \in EnrollmentTokenRecord
      BY <2>1 DEF JoinRequestRecord, EnrollmentTokenRecord
    <3> QED
      BY <3>1, Zenon
  <2>4. SubmittedWith(t) = {r} /\ \A s \in TokenIds : s # t => SubmittedWith(s) = {}
    BY <2>2, <2>3 DEF SubmittedWith
  <2>5. Cardinality({r}) = 1
    BY SingletonCount, Zenon
  <2> QED
    BY <2>2, <2>3, <2>4, <2>5, SMTT(20)
<1> QED
  BY <1>1, <1>2, Zenon DEF Init

\* A token's use count is the number of requests submitted with it and never
\* exceeds max_uses, for any number of tokens, requests and uses.
THEOREM TokensAccounted == Spec => []TokenAccounting
<1>1. TypeOK /\ TokenAccounting /\ [Next]_vars => (TypeOK /\ TokenAccounting)'
  BY StepType, StepTokens
<1> QED
  BY InitType, InitTokens, <1>1, PTL DEF Spec

----------------------------------------------------------------------------
(* The registry implements the endpoint lifecycle.                         *)


\* What the abstract lifecycle sees of a trust row.
LEMMA IdentityOf ==
  ASSUME TypeOK, NEW e \in EndpointIds
  PROVE  /\ trust[e] = None => Identities[e] = None
         /\ trust[e] # None =>
              /\ Identities[e] # None
              /\ Identities[e] = [status |-> trust[e].status, generation |-> trust[e].generation,
                                  owner |-> trust[e].node_id]
<1>1. trust[e] # None =>
        [status |-> trust[e].status, generation |-> trust[e].generation,
         owner |-> trust[e].node_id]
          \in [status : EndpointStatus, generation : 1..MaxGeneration, owner : NodeIds \cup {None}]
  BY Zenon DEF TypeOK, EndpointTrustRecord
<1> QED
  BY <1>1, ConstantsAssumption, Zenon DEF Identities

\* The lifecycle's view of a row of endpoint_trust.
IdentityRow(row) ==
  [status |-> row.status, generation |-> row.generation, owner |-> row.node_id]

\* Writing one trust row changes one identity.
LEMMA IdentityStep ==
  ASSUME TypeOK, NEW e \in EndpointIds, NEW row \in EndpointTrustRecord,
         trust' = [trust EXCEPT ![e] = row]
  PROVE  Identities' = [Identities EXCEPT ![e] = IdentityRow(row)]
<1>1. trust'[e] = row /\ row # None /\ \A f \in EndpointIds : f # e => trust'[f] = trust[f]
  BY ConstantsAssumption, Zenon DEF TypeOK
<1> QED
  BY <1>1, Zenon DEF Identities, IdentityRow

\* A first registration is a registration of the lifecycle.
LEMMA RegisterStep ==
  ASSUME TypeOK, NEW e \in EndpointIds, NEW n \in NodeIds, NEW fp \in RequestIds \cup {None},
         trust[e] = None, trust' = [trust EXCEPT ![e] = OriginalTrust(n, fp)]
  PROVE  Lifecycle!Register(e)
<1>1. Identities' = [Identities EXCEPT ![e] = IdentityRow(OriginalTrust(n, fp))]
  BY OriginalTrustType, IdentityStep, Zenon
<1>2. IdentityRow(OriginalTrust(n, fp)) = [status |-> "active", generation |-> 1, owner |-> n]
  BY Zenon DEF IdentityRow, OriginalTrust
<1>3. Identities[e] = None
  BY IdentityOf, Zenon
<1> QED
  BY <1>1, <1>2, <1>3, Zenon DEF Lifecycle!Register

\* A revocation or quarantine is a withdrawal of the lifecycle.
LEMMA WithdrawStep ==
  ASSUME TypeOK, NEW e \in EndpointIds, NEW s \in {"revoked", "quarantined"}, trust[e] # None,
         \/ trust[e].status = "active"
         \/ trust[e].status = "quarantined" /\ s = "revoked",
         HasNextGeneration(e), trust' = [trust EXCEPT ![e] = Transitioned(e, s)]
  PROVE  Lifecycle!Withdraw(e, s)
<1>1. Identities' = [Identities EXCEPT ![e] = IdentityRow(Transitioned(e, s))]
  BY TransitionedType, IdentityStep, Zenon DEF EndpointStatus
<1>2. /\ Identities[e] # None
      /\ Identities[e] = [status |-> trust[e].status, generation |-> trust[e].generation,
                          owner |-> trust[e].node_id]
  BY IdentityOf, Zenon
<1>3. IdentityRow(Transitioned(e, s)) = [status |-> s, generation |-> trust[e].generation + 1,
                                         owner |-> trust[e].node_id]
  BY TransitionedFields, Zenon DEF IdentityRow
<1>4. /\ Identities[e].status = trust[e].status
      /\ Identities[e].generation = trust[e].generation
      /\ Identities[e].owner = trust[e].node_id
  BY <1>2
<1> QED
  BY <1>1, <1>2, <1>3, <1>4, Zenon DEF HasNextGeneration, Lifecycle!Withdraw, Identities

\* A well-typed registry shows a state the lifecycle may start in.
LEMMA InitLifecycle == TypeOK => Lifecycle!Init
BY Zenon DEF TypeOK, EndpointTrustRecord, EndpointStatus, Identities, Lifecycle!Init, Lifecycle!Identity

\* A step that leaves the trust table alone is a stutter of the lifecycle.
LEMMA SameTrust == ASSUME UNCHANGED trust PROVE UNCHANGED Identities
BY DEF Identities

\* Every operation is a step of the lifecycle, or a stutter.
LEMMA LateLifecycle == TypeOK /\ TypeOK' /\ [LateNext]_vars => [Lifecycle!Next]_Identities
<1> SUFFICES ASSUME TypeOK, TypeOK', LateNext PROVE Lifecycle!Next \/ UNCHANGED Identities
  BY SameTrust, Zenon DEF vars
<1> USE ConstantsAssumption
<1>1. ASSUME NEW n \in NodeIds, NEW e \in EndpointIds, AddNode(n, e) PROVE Lifecycle!Next
  <2>1. Lifecycle!Register(e)
    BY <1>1, RegisterStep, Zenon DEF AddNode
  <2> QED
    BY <2>1, Zenon DEF Lifecycle!Next
<1>2. ASSUME NEW r \in RequestIds, NEW n \in NodeIds, NEW e \in EndpointIds,
             LateApprove(r, n, e) PROVE Lifecycle!Next
  <2>1. Lifecycle!Register(e)
    BY <1>2, RegisterStep, Zenon DEF LateApprove
  <2> QED
    BY <2>1, Zenon DEF Lifecycle!Next
<1>3. ASSUME NEW r \in RequestIds, NEW n \in NodeIds, NEW e \in EndpointIds,
             LateClaim(r, n, e) PROVE Lifecycle!Next
  <2>1. trust[e] # None /\ trust[e] \in EndpointTrustRecord
    BY <1>3, OriginalTrustType, Zenon DEF LateClaim, LegacyUnboundTrust
  <2>2. [trust[e] EXCEPT !.node_id = n] \in EndpointTrustRecord
    BY <2>1, Zenon DEF EndpointTrustRecord
  <2>3. Identities' = [Identities EXCEPT ![e] = IdentityRow([trust[e] EXCEPT !.node_id = n])]
    BY <1>3, <2>2, IdentityStep, Zenon DEF LateClaim
  <2>4. /\ Identities[e] # None
        /\ Identities[e] = [status |-> "active", generation |-> 1, owner |-> None]
        /\ IdentityRow([trust[e] EXCEPT !.node_id = n])
             = [status |-> "active", generation |-> 1, owner |-> n]
    BY <1>3, <2>1, IdentityOf
    DEF LateClaim, LegacyUnboundTrust, OriginalTrust, IdentityRow
  <2>5. Lifecycle!Bind(e)
    <3>1. [Identities[e] EXCEPT !.owner = n] = [status |-> "active", generation |-> 1, owner |-> n]
      BY <2>4
    <3>2. Identities' = [Identities EXCEPT ![e].owner = n]
      BY <2>3, <2>4, <3>1, Zenon DEF Identities
    <3>3. Identities[e].status = "active" /\ Identities[e].owner = None
      BY <2>4
    <3> QED
      BY <2>4, <3>2, <3>3, Zenon DEF Lifecycle!Bind
  <2> QED
    BY <2>5, Zenon DEF Lifecycle!Next
<1>4. ASSUME NEW n \in NodeIds, RemoveNode(n) PROVE Lifecycle!Next \/ UNCHANGED Identities
  <2>1. CASE RemovalCandidates(n) = {}
    BY <2>1, <1>4, SameTrust, Zenon DEF RemoveNode, TypeOK
  <2>2. CASE RemovalCandidates(n) # {}
    <3>1. PICK e : RemovalCandidates(n) = {e}
      <4>1. PICK e \in RemovalCandidates(n) : TRUE
        BY <2>2, Zenon
      <4>2. \A f \in RemovalCandidates(n) : f = e
        BY <4>1, <1>4, Zenon DEF RemoveNode
      <4> QED
        BY <4>1, <4>2, Zenon
    <3>2. e \in EndpointIds /\ trust[e] # None /\ trust[e].status = "active"
      BY <3>1, <1>4 DEF RemoveNode, RemovalCandidates, ActiveEndpoints, ActiveFor, TypeOK, NodeRow
    <3>3. HasNextGeneration(e) /\ trust' = [trust EXCEPT ![e] = Transitioned(e, "revoked")]
      BY <3>1, <3>2, <1>4, Zenon DEF RemoveNode, CanTransition, TypeOK
    <3>4. Lifecycle!Withdraw(e, "revoked")
      BY <3>2, <3>3, WithdrawStep, Zenon DEF EndpointStatus
    <3> QED
      BY <3>2, <3>4, Zenon DEF Lifecycle!Next
  <2> QED
    BY <2>1, <2>2, Zenon
<1>5. ASSUME NEW e \in EndpointIds, NEW s \in {"revoked", "quarantined"},
             UpdateEndpointStatus(e, s) PROVE Lifecycle!Next
  <2>1. Lifecycle!Withdraw(e, s)
    BY <1>5, WithdrawStep, Zenon DEF UpdateEndpointStatus, AllowedStatusChange, CanTransition
  <2> QED
    BY <2>1, Zenon DEF Lifecycle!Next
<1>6. ASSUME NEW old \in EndpointIds, NEW new \in EndpointIds, RotateEndpoint(old, new)
      PROVE Lifecycle!Next
  <2> DEFINE o == [Transitioned(old, "rotated") EXCEPT !.rotated_to = new]
             g == trust[old].generation + 1
             n == trust[old].node_id
  <2>1. /\ trust' = [trust EXCEPT ![old] = o, ![new] = Successor(old)]
        /\ old # new /\ trust[old] # None /\ trust[new] = None /\ HasNextGeneration(old)
        /\ trust[old].status \in {"active", "quarantined"} /\ n # None
    BY <1>6, Zenon DEF RotateEndpoint, RotationBinding
  <2>2. o \in EndpointTrustRecord /\ o # None /\ Successor(old) \in EndpointTrustRecord /\ Successor(old) # None
    BY <2>1, RotatedType, SuccessorType
  <2>3. Identities' = [Identities EXCEPT ![old] = IdentityRow(o), ![new] = IdentityRow(Successor(old))]
    <3>1. trust'[old] = o /\ trust'[new] = Successor(old)
          /\ \A f \in EndpointIds : f \notin {old, new} => trust'[f] = trust[f]
      BY <2>1 DEF TypeOK
    <3> HIDE DEF o
    <3> QED
      BY <3>1, <2>1, <2>2, Zenon DEF Identities, IdentityRow
  <2>4. /\ IdentityRow(o) = [status |-> "rotated", generation |-> g, owner |-> n]
        /\ IdentityRow(Successor(old)) = [status |-> "active", generation |-> g, owner |-> n]
    BY <2>1, RotatedFields DEF IdentityRow, Successor
  <2>5. /\ Identities[old] # None /\ Identities[new] = None
        /\ Identities[old] = [status |-> trust[old].status, generation |-> trust[old].generation,
                              owner |-> n]
    BY <2>1, IdentityOf, Zenon
  <2> HIDE DEF o
  <2>6. /\ Identities[old].status = trust[old].status
        /\ Identities[old].generation = trust[old].generation
        /\ Identities[old].owner = n
    BY <2>5
  <2>7. Lifecycle!Replace(old, new)
    BY <2>1, <2>3, <2>4, <2>5, <2>6, Zenon DEF HasNextGeneration, Lifecycle!Replace, Identities
  <2> QED
    BY <2>7, Zenon DEF Lifecycle!Next
<1> QED
  BY <1>1, <1>2, <1>3, <1>4, <1>5, <1>6, SameTrust
  DEF LateNext, SetNodeEnabled, CreateToken, Lapse, RevokeToken, LateSubmit, LateExpiry,
      RejectJoin, ReconcileRotation

\* The same for the operations that are one transaction on SQLite.
LEMMA StepLifecycle == TypeOK /\ TypeOK' /\ [Next]_vars => [Lifecycle!Next]_Identities
BY LateLifecycle, NextIsLate, Zenon

\* Every behaviour of the store's trust operations is, seen through one
\* endpoint's status, generation and node, a behaviour of the lifecycle.
THEOREM ImplementsLifecycle == Spec => LifecycleSpec
<1>1. Init => Lifecycle!Init
  BY InitType, InitLifecycle, Zenon
<1> QED
  BY <1>1, TypeCorrect, StepLifecycle, PTL DEF Spec, LifecycleSpec, Lifecycle!Spec
=============================================================================
