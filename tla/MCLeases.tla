------------------------------ MODULE MCLeases ------------------------------
(***************************************************************************)
(* Work that is claimed under a lease with a fence, on small instances: an *)
(* alert delivery on SQLite, a scheduler job and an alert delivery on the  *)
(* native Postgres store.  The three share no variable; a behaviour moves  *)
(* one of them, so that TLC explores the sum of their state spaces and not *)
(* the product.                                                            *)
(***************************************************************************)
EXTENDS MCAlertDelivery, NativeScheduler, NativeDelivery

VARIABLE part  \* the component that moves

LeasesInit ==
  /\ part \in {"alerts", "native jobs", "native alerts"}
  /\ Init /\ NativeSchedInit /\ NativeDeliveryInit

LeasesNext ==
  \/ part = "alerts" /\ Next /\ UNCHANGED <<schedVars, deliveryVars, part>>
  \/ part = "native jobs" /\ NativeSchedNext /\ UNCHANGED <<vars, deliveryVars, part>>
  \/ part = "native alerts" /\ NativeDeliveryNext /\ UNCHANGED <<vars, schedVars, part>>

LeasesSpec == LeasesInit /\ [][LeasesNext]_<<vars, schedVars, deliveryVars, part>>

(* The alert workers are also the owners of the native claims, and the two  *)
(* native parts have the same connections.                                  *)
LeaseSymmetry ==
  Permutations(Workers) \cup Permutations(ClaimSessions) \cup Permutations(SchedRuns)
=============================================================================
