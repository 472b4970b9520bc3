----------------------------- MODULE MCServices -----------------------------
(***************************************************************************)
(* The services of the controller around its registry, on small instances: *)
(* calls to the agents, health evaluation and rollups, retention,          *)
(* controlled writes and the trust policy review.  They share no variable; *)
(* a behaviour moves one of them, so that TLC explores the sum of their    *)
(* state spaces and not the product.                                       *)
(***************************************************************************)
EXTENDS Dispatch, HealthRuns, HealthRollups, Retention, ControlledWrites, TrustPolicy, TLC

VARIABLE part  \* the component that moves

-----------------------------------------------------------------------------
(* Health: two policies, a node that may be untrusted or gone.             *)

MCHealthActor == [p \in Evaluators |-> "timer"]
MCHealthPolicies == {[stale |-> 1, failures |-> 1], [stale |-> 2, failures |-> 1]}
MCObservationKinds == {<<"ping", "unreachable">>}
MCFleetRows == {NoNode}
MCRollupBuckets == <<2, 4>>

-----------------------------------------------------------------------------
(* Retention: by age alone, or by age and number.                          *)

MCRetentionScopes == <<"runs", "alerts">>
MCRetentionPolicies == {[age |-> 1, rows |-> NoLimit], [age |-> 1, rows |-> 1]}
MCRetentionLimits == {NoLimit, 1}
MCRetentionCutoffs == {NoLimit}

MCAllowedActors == [k \in IntentKeys |-> {"alice"}]

-----------------------------------------------------------------------------
(* Policy documents and registries.  The review works on few; the diff is  *)
(* taken of more, with nothing but edits of either (part "diff").          *)

MCReviewerKeyring == [k \in ReviewKeys |-> "rev"]

PolicyNode(e, lifecycle, enabled, labels) ==
  [endpoint |-> e, lifecycle |-> lifecycle, enabled |-> enabled, labels |-> labels]
Doc(revision, rows, peers, probes) ==
  [revision |-> revision, nodes |-> rows, controllers |-> {"c"}, peers |-> peers, probes |-> probes]

MCPolicyDocs ==
  {Doc("v1", "a" :> PolicyNode("e1", "active", "no", "unset"), {}, {}),
   Doc("v2", "a" :> PolicyNode("e1", "active", "no", "y"), {}, {})}

DiffDocs ==
  {Doc("v1",
       ("a" :> PolicyNode("e1", "active", enabled, "unset"))
         @@ ("b" :> PolicyNode("e2", "active", "unset", "x")),
       {<<"a", "b">>}, probes) :
     enabled \in {"yes", "unset"},
     probes \in {{}} \cup {{[pair |-> <<"a", "b">>, enabled |-> on]} : on \in {"yes", "no"}}}
  \cup {Doc("v1", "a" :> PolicyNode("e1", lifecycle, "no", "unset"), {}, {}) :
          lifecycle \in {"active", "revoked"}}

RegistryOf(rows, endpoints) == [nodes |-> rows, endpoints |-> endpoints]
RegistryNode(e, enabled) == [endpoint |-> e, enabled |-> enabled, labels |-> "x"]
StoredTrust(status, controllers, peers, probes) ==
  [status |-> status, controllers |-> controllers, peers |-> peers, probes |-> probes]

\* A fleet of one disabled node.
OneNode(status, controllers) ==
  RegistryOf("a" :> RegistryNode("e1", "no"), "e1" :> StoredTrust(status, controllers, {}, {}))

MCPolicyRegistries == {OneNode("active", c) : c \in {{}, {"c"}}}

DiffRegistries ==
  {RegistryOf(("a" :> RegistryNode("e1", "yes")) @@ ("b" :> RegistryNode("e2", "yes")),
              ("e1" :> StoredTrust("active", {"c"}, {"e2"}, probes))
                @@ ("e2" :> StoredTrust("active", {"c"}, {}, {}))) :
     probes \in {{}, {<<"c", "e2">>}}}
  \cup {OneNode(status, c) : status \in {"active", "revoked"}, c \in {{}, {"c"}}}

-----------------------------------------------------------------------------
\* Where a component that does not move rests.
Rests ==
  /\ part # "dispatch" => FreshInit
  /\ part # "health" => hPolicy.stale = 1
  /\ part # "retention" => \A s \in Scopes : retPolicy[s].rows = NoLimit
  /\ part # "policy" => document.revision = "v1" /\ registry = OneNode("active", {})

ServicesInit ==
  /\ part \in {"dispatch", "health", "rollups", "retention", "changes", "policy", "diff"}
  /\ DispatchInit /\ HealthInit /\ RollupInit /\ RetentionInit /\ ChangeInit /\ PolicyInit
  /\ Rests

ServicesNext ==
  \/ /\ part = "dispatch" /\ DispatchNext
     /\ UNCHANGED <<healthVars, rollupVars, retentionVars, changeVars, policyVars, part>>
  \/ /\ part = "health" /\ HealthNext
     /\ UNCHANGED <<dispatchVars, rollupVars, retentionVars, changeVars, policyVars, part>>
  \/ /\ part = "rollups" /\ RollupNext
     /\ UNCHANGED <<dispatchVars, healthVars, retentionVars, changeVars, policyVars, part>>
  \/ /\ part = "retention" /\ RetentionNext
     /\ UNCHANGED <<dispatchVars, healthVars, rollupVars, changeVars, policyVars, part>>
  \/ /\ part = "changes" /\ ChangeNext
     /\ UNCHANGED <<dispatchVars, healthVars, rollupVars, retentionVars, policyVars, part>>
  \/ /\ \/ part = "policy" /\ PolicyNext
        \/ part = "diff" /\ \E doc \in DiffDocs : DocumentEdited(doc)
        \/ part = "diff" /\ \E reg \in DiffRegistries : RegistryChanged(reg)
     /\ UNCHANGED <<dispatchVars, healthVars, rollupVars, retentionVars, changeVars, part>>

ServicesSpec ==
  ServicesInit /\ [][ServicesNext]_<<dispatchVars, healthVars, rollupVars, retentionVars,
                                     changeVars, policyVars, part>>

\* Evaluators, rollup commands, change commands and recorders are the same two
\* processes, so that one permutation serves them all.
ServicesSymmetry ==
  Permutations(Evaluators) \cup Permutations(NodeIds)
=============================================================================
