------------------------- MODULE EndpointLifecycle -------------------------
(***************************************************************************)
(* What the registry promises about one endpoint identity, whatever else   *)
(* the database holds: an identity is registered once, belongs to at most  *)
(* one node ever, leaves "active" for good, and counts every change of its *)
(* status in its generation.  Revoked and rotated are terminal.  This is   *)
(* the transition table of the endpoint lifecycle; TrustRegistry is shown  *)
(* to implement it.                                                        *)
(***************************************************************************)
EXTENDS Integers

CONSTANTS Owners, Endpoints, None, MaxGeneration

VARIABLE endpoint   \* endpoint -> [status, generation, owner], or None

Identity == [status : {"active", "quarantined", "revoked", "rotated"},
             generation : 1..MaxGeneration,
             owner : Owners \cup {None}]

Init == endpoint \in [Endpoints -> Identity \cup {None}]

\* An identity enters service, already owned.
Register(e) ==
  /\ endpoint[e] = None
  /\ \E n \in Owners :
       endpoint' = [endpoint EXCEPT ![e] =
                      [status |-> "active", generation |-> 1, owner |-> n]]

\* An active identity without an owner gets one.
Bind(e) ==
  /\ endpoint[e] # None
  /\ endpoint[e].status = "active" /\ endpoint[e].owner = None
  /\ \E n \in Owners : endpoint' = [endpoint EXCEPT ![e].owner = n]

\* An identity in service is revoked, or an active one quarantined.
Withdraw(e, status) ==
  /\ endpoint[e] # None
  /\ \/ endpoint[e].status = "active" /\ status \in {"quarantined", "revoked"}
     \/ endpoint[e].status = "quarantined" /\ status = "revoked"
  /\ endpoint[e].generation < MaxGeneration
  /\ endpoint' = [endpoint EXCEPT ![e] =
       [status |-> status, generation |-> @.generation + 1, owner |-> @.owner]]

\* An owned identity in service is replaced by a new one of the same owner.
Replace(old, new) ==
  /\ endpoint[old] # None
  /\ endpoint[old].status \in {"active", "quarantined"}
  /\ endpoint[old].owner # None
  /\ endpoint[old].generation < MaxGeneration
  /\ endpoint[new] = None
  /\ LET g == endpoint[old].generation + 1
     IN endpoint' = [endpoint EXCEPT
          ![old] = [status |-> "rotated", generation |-> g, owner |-> @.owner],
          ![new] = [status |-> "active", generation |-> g, owner |-> endpoint[old].owner]]

Next ==
  \/ \E e \in Endpoints : Register(e) \/ Bind(e)
  \/ \E e \in Endpoints, s \in {"quarantined", "revoked"} : Withdraw(e, s)
  \/ \E old, new \in Endpoints : Replace(old, new)

Spec == Init /\ [][Next]_endpoint
============================================================================
