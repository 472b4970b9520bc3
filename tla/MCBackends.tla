----------------------------- MODULE MCBackends -----------------------------
(***************************************************************************)
(* What the store stands on, on small instances: restore and migration of  *)
(* the SQLite file, the Postgres snapshot backend, the native Postgres     *)
(* registry, and the API that pages through the rows.  The components      *)
(* share no variable; a behaviour moves one of them, so that TLC explores  *)
(* the sum of their state spaces and not the product.  The native registry *)
(* moves three times: with the node and endpoint operations, with one      *)
(* enrollment, and with the requests of a token that admits several.       *)
(***************************************************************************)
EXTENDS NativeTrust, Restore, Migrations, SnapshotBackend, ApiPages, TLC

VARIABLE part  \* the component that moves

-----------------------------------------------------------------------------
(* Operations of the native registry.                                      *)

RegistryOps ==
  {NativeOp("add", n, e, None, None, None) : n \in NodeIds, e \in EndpointIds}
    \cup {NativeOp(o, n, None, None, None, None) : o \in {"enable", "disable", "remove"}, n \in NodeIds}
    \cup {NativeOp(o, None, e, None, None, None) : o \in {"revoked", "quarantined"}, e \in EndpointIds}
    \cup {NativeOp("rotate", None, p[1], p[2], None, None) :
            p \in {q \in EndpointIds \X EndpointIds : q[1] # q[2]}}

\* Requests of one token, and what becomes of them.
TokenOps ==
  {NativeOp(o, None, None, None, None, t) : o \in {"create", "revoke"}, t \in TokenIds}
    \cup {NativeOp("submit", None, None, None, r, t) : r \in RequestIds, t \in TokenIds}
    \cup {NativeOp("reject", None, None, None, r, None) : r \in RequestIds}
    \cup {NativeOp("approve", n, e, None, r, None) : n \in NodeIds, e \in EndpointIds, r \in RequestIds}

\* One request from its submission to the node it is bound to.
FirstRequest == CHOOSE r \in RequestIds : TRUE
EnrollmentOps ==
  {o \in RegistryOps : o.name \in {"add", "remove"}}
    \cup {o \in TokenOps : o.name \in {"create", "submit", "approve"} /\ o.r \in {None, FirstRequest}}
    \cup {NativeOp("claim", n, e, None, FirstRequest, None) : n \in NodeIds, e \in EndpointIds}

MCNativeOps == RegistryOps \cup EnrollmentOps \cup TokenOps

\* The operations a session has begun are all of one kind.
Runs(ops) == \A s \in DbSessions : dbSession'[s] # NoTx => dbSession'[s].op \in ops

-----------------------------------------------------------------------------
(* Key files, listings and queries of the API.                             *)

OldKey == [id |-> "a", secret |-> 1]
NewKey == [id |-> "b", secret |-> 2]

MCKeyFiles == {[current |-> OldKey, previous |-> NoKey], [current |-> NewKey, previous |-> OldKey]}

AllUp == [i \in ApiRowIds |-> [at |-> 0, status |-> "up"]]

MCStartRows == {AllUp, [AllUp EXCEPT ![2] = NoApiRow]}

Query(resource, status, to) == [resource |-> resource, status |-> status, from |-> 0, to |-> to]

MCQueries ==
  {Query("nodes", "any", 0), Query("health-history", "up", MaxApiClock + 1),
   Query("alerts", "any", MaxApiClock + 1)}

-----------------------------------------------------------------------------
\* Where a component that does not move rests.
Rests ==
  /\ part # "restore" => target = NoFiles
  /\ part # "migrate" => ~file
  /\ part # "enrollment" => FreshInit
  /\ \A r \in RequestIds : joins[r] # None => r = FirstRequest
  /\ part # "api" =>
       /\ apiRows["nodes"] = AllUp
       /\ server.keys.current = OldKey
       /\ \A c \in ApiClients : walk[c].query.resource = "nodes"

BackendsInit ==
  /\ part \in {"restore", "migrate", "snapshot", "registry", "enrollment", "tokens", "api"}
  /\ RestoreInit /\ MigrateInit /\ BackendInit /\ NativeInit /\ ApiInit
  /\ Rests

BackendsNext ==
  \/ /\ part = "restore" /\ RestoreNext
     /\ UNCHANGED <<migrateVars, backendVars, nativeVars, apiVars, part>>
  \/ /\ part = "migrate" /\ MigrateNext
     /\ UNCHANGED <<restoreVars, backendVars, nativeVars, apiVars, part>>
  \/ /\ part = "snapshot" /\ BackendNext
     /\ UNCHANGED <<restoreVars, migrateVars, nativeVars, apiVars, part>>
  \/ /\ part = "registry" /\ NativeNext /\ Runs(RegistryOps)
     /\ UNCHANGED <<restoreVars, migrateVars, backendVars, apiVars, part>>
  \/ /\ part = "enrollment" /\ NativeNext /\ Runs(EnrollmentOps)
     /\ UNCHANGED <<restoreVars, migrateVars, backendVars, apiVars, part>>
  \/ /\ part = "tokens" /\ NativeNext /\ Runs(TokenOps)
     /\ UNCHANGED <<restoreVars, migrateVars, backendVars, apiVars, part>>
  \/ /\ part = "api" /\ ApiNext
     /\ UNCHANGED <<restoreVars, migrateVars, backendVars, nativeVars, part>>

BackendsSpec ==
  BackendsInit /\ [][BackendsNext]_<<restoreVars, migrateVars, backendVars, nativeVars, apiVars, part>>

\* The components take their processes and connections from the same sets,
\* so that one permutation of each set serves them all.
MCSymmetry == Permutations(Owners) \cup Permutations(Sessions) \cup Permutations(EndpointIds)
=============================================================================
