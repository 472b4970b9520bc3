----------------------------- MODULE TrustPolicy -----------------------------
(***************************************************************************)
(* The review chain of trust_policy.rs: a policy document is signed, a plan *)
(* of its differences from the controller's registry is written, a reviewer *)
(* approves that plan, and both are recorded in the append-only history.    *)
(* Every command is a process of its own that works on files, so the        *)
(* document, the registry and the plan may be replaced between two of them, *)
(* recorders overlap, and a recorder may be killed while it appends.  A     *)
(* hash or a signature is modelled by the value it was made over.           *)
(***************************************************************************)
EXTENDS Integers, Sequences, FiniteSets

CONSTANTS PolicyDocs, PolicyRegistries, Reviewers, ReviewKeys,
          ReviewerKeyring, Recorders, MaxDiffItems, MaxHistoryEntries,
          MaxRecords,  \* bound: record commands
          NoFile

ASSUME PolicyAssumption ==
  /\ ReviewerKeyring \in [ReviewKeys -> Reviewers]
  /\ MaxDiffItems \in Nat /\ MaxHistoryEntries \in Nat
  /\ NoFile \notin Recorders

\* Every node of a document names an endpoint and a lifecycle; an authorised
\* probe of a stored bundle is a pair of a controller and a target.
ASSUME PolicyShapes ==
  /\ \A doc \in PolicyDocs : \A id \in DOMAIN doc.nodes :
       "unset" \notin {doc.nodes[id].endpoint, doc.nodes[id].lifecycle}
  /\ \A reg \in PolicyRegistries : \A e \in DOMAIN reg.endpoints :
       \A pair \in reg.endpoints[e].probes : pair = <<pair[1], pair[2]>>

VARIABLES document, signature, registry, planFile, approvalFile, history, historyLock, recorder,
          records  \* record commands begun

policyVars == <<document, signature, registry, planFile, approvalFile, history,
                historyLock, recorder, records>>

-----------------------------------------------------------------------------
(* A document has `revision`, `nodes` (a function from node ids to rows with  *)
(* endpoint, lifecycle, enabled (yes, no or unset) and labels or unset),      *)
(* `controllers`, `peers` (pairs of node ids) and `probes` (pairs with their  *)
(* enabled flag).  A registry has `nodes` (endpoint, enabled, labels) and     *)
(* `endpoints` (status and the stored trust bundle).                          *)

On(flag) == flag # "no"

Operational(n) == n.lifecycle = "active" /\ On(n.enabled)

\* validate_policy.
ValidPolicy(doc) ==
  LET ids == DOMAIN doc.nodes
      endpoints == {doc.nodes[i].endpoint : i \in ids}
  IN
  /\ \A i \in ids : doc.nodes[i].lifecycle # "active" => doc.nodes[i].enabled = "no"
  /\ Cardinality(endpoints) = Cardinality(ids)
  /\ doc.controllers \cap endpoints = {}
  /\ \A p \in doc.peers : /\ p[1] \in ids /\ p[2] \in ids /\ p[1] # p[2]
                          /\ Operational(doc.nodes[p[1]]) /\ Operational(doc.nodes[p[2]])
  /\ \A p \in doc.probes : /\ p.pair \in doc.peers
                           /\ On(p.enabled) => doc.controllers # {}

Diff(code, node, endpoint, field, desired, current) ==
  [code |-> code, node |-> node, endpoint |-> endpoint, field |-> field,
   desired |-> desired, current |-> current]

\* compare_field, and compare_node_metadata for a field the policy may leave out.
FieldDiff(code, id, n, field, desired, current) ==
  IF desired \in {"unset", current} THEN {}
  ELSE {Diff(code, id, n.endpoint, field, desired, current)}

\* compare_node and compare_node_metadata.
NodeDiffs(id, n, current) ==
  FieldDiff("NODE_ENDPOINT_MISMATCH", id, n, "endpoint_id", n.endpoint, current.endpoint)
  \cup FieldDiff("NODE_ENABLED_MISMATCH", id, n, "enabled", n.enabled, current.enabled)
  \cup FieldDiff("NODE_METADATA_MISMATCH", id, n, "labels", n.labels, current.labels)

\* compare_endpoint.
EndpointDiffs(id, n, current) ==
  FieldDiff("ENDPOINT_LIFECYCLE_MISMATCH", id, n, "lifecycle", n.lifecycle, current.status)

\* add_set_diffs: what the policy wants and the bundle lacks, and the reverse.
SetDiffs(id, n, field, desired, current) ==
  {Diff("MISSING", id, n.endpoint, field, v, "absent") : v \in desired \ current}
  \cup {Diff("UNEXPECTED", id, n.endpoint, field, "absent", v) : v \in current \ desired}

\* Fault: a node out of operation is still to trust the policy's controllers.
ControllersAlways(doc, n) == doc.controllers

\* compare_trust_bundle_allowlists: a node out of operation is to trust nobody.
ExpectedControllers(doc, n) == IF Operational(n) THEN doc.controllers ELSE {}

ExpectedPeers(doc, id) ==
  IF ~Operational(doc.nodes[id]) THEN {}
  ELSE {doc.nodes[p[2]].endpoint : p \in {q \in doc.peers : q[1] = id}}

ExpectedProbes(doc, id) ==
  IF ~Operational(doc.nodes[id]) THEN {}
  ELSE UNION {{<<c, doc.nodes[p.pair[2]].endpoint>> : c \in doc.controllers} :
              p \in {q \in doc.probes : q.pair[1] = id /\ On(q.enabled)}}

AllowlistDiffs(doc, id, bundle) ==
  LET n == doc.nodes[id] IN
  SetDiffs(id, n, "trusted_controllers", ExpectedControllers(doc, n), bundle.controllers)
  \cup SetDiffs(id, n, "trusted_peers", ExpectedPeers(doc, id), bundle.peers)
  \cup SetDiffs(id, n, "authorized_path_probes", ExpectedProbes(doc, id), bundle.probes)

\* compute_policy_diff.
PolicyDiff(doc, reg) ==
  LET ids == DOMAIN doc.nodes
      known == DOMAIN reg.endpoints
  IN
  (UNION {IF id \in DOMAIN reg.nodes
          THEN NodeDiffs(id, doc.nodes[id], reg.nodes[id])
          ELSE {Diff("NODE_MISSING", id, doc.nodes[id].endpoint, "none", "present", "absent")} :
          id \in ids})
  \cup (UNION {IF doc.nodes[id].endpoint \in known
               THEN EndpointDiffs(id, doc.nodes[id], reg.endpoints[doc.nodes[id].endpoint])
                    \cup AllowlistDiffs(doc, id, reg.endpoints[doc.nodes[id].endpoint])
               ELSE {Diff("ENDPOINT_MISSING", id, doc.nodes[id].endpoint, "lifecycle",
                          doc.nodes[id].lifecycle, "absent")} :
               id \in ids})
  \cup {Diff("NODE_EXTRA", id, reg.nodes[id].endpoint, "none", "absent", "present") :
        id \in DOMAIN reg.nodes \ ids}
  \cup {Diff("ENDPOINT_EXTRA", "none", e, "none", "absent", reg.endpoints[e].status) :
        e \in known \ {doc.nodes[id].endpoint : id \in ids}}

-----------------------------------------------------------------------------
\* run_trust_policy_plan: the sorted changes are cut at a limit, the count is not.
PlanOf(doc, reg) ==
  LET diffs == PolicyDiff(doc, reg)
      truncated == Cardinality(diffs) > MaxDiffItems
  IN
  [revision |-> doc.revision, policy |-> doc, total |-> Cardinality(diffs),
   truncated |-> truncated,
   changes |-> IF truncated
               THEN CHOOSE S \in SUBSET diffs : Cardinality(S) = MaxDiffItems
               ELSE diffs]

Resting == [at |-> "idle"]

PolicyInit ==
  /\ document \in {d \in PolicyDocs : ValidPolicy(d)}
  /\ registry \in PolicyRegistries
  /\ signature = NoFile /\ planFile = NoFile /\ approvalFile = NoFile
  /\ history = <<>> /\ historyLock = NoFile
  /\ recorder = [r \in Recorders |-> Resting]
  /\ records = 0

\* The document is edited, or the registry changed by the audited commands.
DocumentEdited(doc) ==
  /\ doc # document
  /\ document' = doc
  /\ UNCHANGED <<signature, registry, planFile, approvalFile, history, historyLock, recorder, records>>

RegistryChanged(reg) ==
  /\ reg # registry
  /\ registry' = reg
  /\ UNCHANGED <<document, signature, planFile, approvalFile, history, historyLock, recorder, records>>

\* The operator removes an artifact, so that its path can be written again.
ArtifactRemoved ==
  /\ \/ planFile # NoFile /\ planFile' = NoFile /\ UNCHANGED approvalFile
     \/ approvalFile # NoFile /\ approvalFile' = NoFile /\ UNCHANGED planFile
  /\ UNCHANGED <<document, signature, registry, history, historyLock, recorder, records>>

\* run_trust_policy_sign: over the revision and the digest of the document.
PolicySign ==
  /\ ValidPolicy(document)
  /\ signature # document
  /\ signature' = document
  /\ UNCHANGED <<document, registry, planFile, approvalFile, history, historyLock, recorder, records>>

\* verify_policy_signature.
SignatureMatches == signature = document

\* run_trust_policy_plan: outputs are created, never replaced.
PolicyPlan ==
  /\ ValidPolicy(document) /\ SignatureMatches
  /\ planFile = NoFile
  /\ planFile' = PlanOf(document, registry)
  /\ UNCHANGED <<document, signature, registry, approvalFile, history, historyLock, recorder, records>>

\* load_reviewer_keyring binds every key to one actor; trusted_reviewer_key
\* accepts that actor only.
TrustedReviewer(key, who) == ReviewerKeyring[key] = who

\* run_trust_policy_approve: the key must be bound to the approver.
PolicyApprove(who, key) ==
  /\ planFile # NoFile /\ ~planFile.truncated
  /\ TrustedReviewer(key, who)
  /\ approvalFile = NoFile
  /\ approvalFile' = [plan |-> planFile, revision |-> planFile.revision, by |-> who, key |-> key]
  /\ UNCHANGED <<document, signature, registry, planFile, history, historyLock, recorder, records>>

-----------------------------------------------------------------------------
\* Fault: an approval is taken for any plan of its revision.
ApprovesRevision(approval, plan) ==
  approval.revision = plan.revision /\ ~plan.truncated
  /\ TrustedReviewer(approval.key, approval.by)

\* validate_approval.
ApprovalValid(approval, plan) ==
  /\ approval.revision = plan.revision
  /\ approval.plan = plan
  /\ ~plan.truncated
  /\ TrustedReviewer(approval.key, approval.by)

RecorderAt(r, where) == recorder' = [recorder EXCEPT ![r].at = where]

\* run_trust_policy_history_record: the plan, and the approval if one is named.
RecordStarts(r, withApproval) ==
  /\ recorder[r].at = "idle"
  /\ records < MaxRecords /\ records' = records + 1
  /\ planFile # NoFile
  /\ withApproval => approvalFile # NoFile /\ ApprovalValid(approvalFile, planFile)
  /\ recorder' = [recorder EXCEPT ![r] =
       [at |-> "validated",
        entry |-> [revision |-> planFile.revision, plan |-> planFile, whole |-> TRUE,
                   approval |-> IF withApproval THEN approvalFile ELSE NoFile]]]
  /\ UNCHANGED <<document, signature, registry, planFile, approvalFile, history, historyLock>>

\* lock_history_exclusive: waits for the other recorders.
RecordLocks(r) ==
  /\ recorder[r].at = "validated"
  /\ historyLock = NoFile
  /\ historyLock' = r
  /\ RecorderAt(r, "locked")
  /\ UNCHANGED <<document, signature, registry, planFile, approvalFile, history, records>>

\* parse_history_entries: a line that is not an entry fails the reading.
HistoryReads == \A k \in DOMAIN history : history[k].whole

Released(r) ==
  /\ historyLock' = NoFile
  /\ recorder' = [recorder EXCEPT ![r] = Resting]

\* Under the lock: the history is read, and a revision it has, or a full
\* history, ends the command.
RecordReads(r) ==
  /\ recorder[r].at = "locked"
  /\ IF /\ HistoryReads
        /\ \A k \in DOMAIN history : history[k].revision # recorder[r].entry.revision
        /\ Len(history) < MaxHistoryEntries
     THEN RecorderAt(r, "append") /\ UNCHANGED historyLock
     ELSE Released(r)
  /\ UNCHANGED <<document, signature, registry, planFile, approvalFile, history, records>>

RecordAppends(r) ==
  /\ recorder[r].at = "append"
  /\ history' = Append(history, recorder[r].entry)
  /\ Released(r)
  /\ UNCHANGED <<document, signature, registry, planFile, approvalFile, records>>

\* The machine stops while a record is under way; the kernel drops the lock,
\* and what was being appended may be cut short.
RecordKilled(r) ==
  /\ recorder[r].at # "idle"
  /\ recorder' = [recorder EXCEPT ![r] = Resting]
  /\ historyLock' = IF historyLock = r THEN NoFile ELSE historyLock
  /\ \/ UNCHANGED history
     \/ /\ recorder[r].at = "append"
        /\ history' = Append(history, [recorder[r].entry EXCEPT !.whole = FALSE])
  /\ UNCHANGED <<document, signature, registry, planFile, approvalFile, records>>

PolicyNext ==
  \/ \E doc \in PolicyDocs : DocumentEdited(doc)
  \/ \E reg \in PolicyRegistries : RegistryChanged(reg)
  \/ ArtifactRemoved \/ PolicySign \/ PolicyPlan
  \/ \E who \in Reviewers, key \in ReviewKeys : PolicyApprove(who, key)
  \/ \E r \in Recorders :
       \/ \E with \in BOOLEAN : RecordStarts(r, with)
       \/ RecordLocks(r) \/ RecordReads(r) \/ RecordAppends(r) \/ RecordKilled(r)

PolicySpec == PolicyInit /\ [][PolicyNext]_policyVars

-----------------------------------------------------------------------------
\* What the diff is for, stated from the allowlists a fleet that follows the
\* policy has: a node in operation trusts exactly the policy's controllers, its
\* declared peers and each controller with the target of each of its enabled
\* probes, while a node out of operation trusts nobody.
BundleFollows(doc, id, bundle) ==
  LET up == doc.nodes[id].lifecycle = "active" /\ doc.nodes[id].enabled # "no"
      ep(j) == doc.nodes[j].endpoint
  IN
  /\ \A e \in doc.controllers \cup bundle.controllers :
       e \in bundle.controllers <=> up /\ e \in doc.controllers
  /\ \A e \in {ep(j) : j \in DOMAIN doc.nodes} \cup bundle.peers :
       e \in bundle.peers <=> \E p \in doc.peers : p[1] = id /\ ep(p[2]) = e
  /\ \A pair \in bundle.probes : pair[1] \in doc.controllers
  /\ \A c \in doc.controllers, e \in {ep(j) : j \in DOMAIN doc.nodes} \cup
                                      {pair[2] : pair \in bundle.probes} :
       <<c, e>> \in bundle.probes <=>
         \E p \in doc.probes : p.pair[1] = id /\ ep(p.pair[2]) = e /\ p.enabled # "no"

\* And it has the policy's nodes and no others, each at its endpoint with its
\* lifecycle.
FollowsPolicy(doc, reg) ==
  LET ep(id) == doc.nodes[id].endpoint IN
  /\ DOMAIN reg.nodes = DOMAIN doc.nodes
  /\ DOMAIN reg.endpoints = {ep(id) : id \in DOMAIN doc.nodes}
  /\ \A id \in DOMAIN doc.nodes :
       /\ reg.nodes[id].endpoint = ep(id)
       /\ doc.nodes[id].enabled # "unset" => reg.nodes[id].enabled = doc.nodes[id].enabled
       /\ doc.nodes[id].labels # "unset" => reg.nodes[id].labels = doc.nodes[id].labels
       /\ reg.endpoints[ep(id)].status = doc.nodes[id].lifecycle
       /\ BundleFollows(doc, id, reg.endpoints[ep(id)])

\* compute_policy_diff reports nothing exactly for a registry that follows a
\* valid policy: neither an allowlist entry nobody declared nor a declared one
\* that is missing is passed over, for a node in or out of operation.
DiffExact ==
  ValidPolicy(document) =>
    (PolicyDiff(document, registry) = {} <=> FollowsPolicy(document, registry))

\* The history vouches for what it says, whatever was edited, replaced or
\* interrupted between the commands: at most one entry for a revision, and an
\* approved entry was approved, by the reviewer its key is bound to, as the
\* very plan it records, with every change of the plan shown.
HistoryVouches ==
  /\ \A j, k \in DOMAIN history :
       history[j].whole /\ history[k].whole /\ history[j].revision = history[k].revision => j = k
  /\ \A k \in DOMAIN history :
       LET e == history[k] IN
       e.approval # NoFile => /\ e.approval.plan = e.plan
                              /\ Cardinality(e.plan.changes) = e.plan.total
                              /\ ReviewerKeyring[e.approval.key] = e.approval.by

-----------------------------------------------------------------------------
(* The inductive invariant behind the two.                                  *)

Plans == {PlanOf(doc, reg) : doc \in PolicyDocs, reg \in PolicyRegistries}

Approval == [plan : Plans, revision : {plan.revision : plan \in Plans}, by : Reviewers, key : ReviewKeys]

HistoryEntry ==
  [revision : {plan.revision : plan \in Plans}, plan : Plans, whole : BOOLEAN,
   approval : Approval \cup {NoFile}]

\* Every file holds what the command that writes it produces, however old.
PolicyTypeOK ==
  /\ document \in PolicyDocs /\ registry \in PolicyRegistries
  /\ signature \in PolicyDocs \cup {NoFile}
  /\ planFile \in Plans \cup {NoFile} /\ approvalFile \in Approval \cup {NoFile}
  /\ history \in Seq(HistoryEntry) /\ historyLock \in Recorders \cup {NoFile}
  /\ recorder \in [Recorders -> {Resting} \cup
                                [at : {"validated", "locked", "append"}, entry : HistoryEntry]]
  /\ records \in Nat

\* An entry with an approval passed validate_approval.
EntryValid(e) == e.approval # NoFile => ApprovalValid(e.approval, e.plan)

\* One recorder at a time is past the lock, and what it read of the history
\* still holds when it appends: whole entries only, and not its revision.
RecordersExclude ==
  /\ \A r \in Recorders : recorder[r].at \in {"locked", "append"} => historyLock = r
  /\ \A r \in Recorders : recorder[r].at = "append" =>
       HistoryReads /\ \A k \in DOMAIN history : history[k].revision # recorder[r].entry.revision

PolicyInv ==
  /\ RecordersExclude
  /\ \A r \in Recorders : recorder[r] # Resting => EntryValid(recorder[r].entry)
  /\ \A k \in DOMAIN history : EntryValid(history[k])
  /\ HistoryVouches
=============================================================================
