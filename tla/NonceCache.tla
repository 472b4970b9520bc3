----------------------------- MODULE NonceCache -----------------------------
(***************************************************************************)
(* The cache of used nonces of the agent (nonce.rs).  Live nonces are kept *)
(* per remote endpoint, and once more in a heap ordered by the time they   *)
(* expire; live_total counts them.  The three are changed by hand in       *)
(* register_at and prune_expired_at, under one mutex.                      *)
(***************************************************************************)
EXTENDS Integers, FiniteSets

CONSTANTS
  MaxLiveGlobal,  \* max_live_nonces_global
  MaxLivePerPeer  \* max_live_nonces_per_controller

ASSUME NonceAssumption == {MaxLiveGlobal, MaxLivePerPeer} \subseteq Nat \ {0}

VARIABLES
  peers,        \* the nonces of every peer with their expiry, as a set of entries
  expirations,  \* the heap of ExpiryEntry
  live_total    \* the count of live nonces

nonceVars == <<peers, expirations, live_total>>

NonceInit == peers = {} /\ expirations = {} /\ live_total = 0

ExpiryEntry(peer, nonce, at) == [peer |-> peer, nonce |-> nonce, expires_at |-> at]

(* The heap entries that are popped: the loop stops at the first entry that *)
(* is later than now, and the heap yields them in order.                    *)
Popped(now) == {e \in expirations : e.expires_at <= now}

(* A popped entry removes the nonce only when the map holds the same expiry. *)
Pruned(now) == peers \cap Popped(now)

MonusOne(total, removed) == IF total < removed THEN 0 ELSE total - removed

(* What register_at answers after the pruning.                              *)
NonceDecision(peer, nonce, now) ==
  LET live == peers \ Pruned(now)
      mine == {e \in live : e.peer = peer}
  IN  IF \E e \in mine : e.nonce = nonce THEN "ReplayedNonce"
      ELSE IF Cardinality(mine) >= MaxLivePerPeer
             \/ MonusOne(live_total, Cardinality(Pruned(now))) >= MaxLiveGlobal
           THEN "ResourceExhausted"
           ELSE "Accepted"

(* Fault: the pruning forgets to lower live_total.                          *)
RegisterUncounted(peer, nonce, ttl, now) ==
  LET entry == ExpiryEntry(peer, nonce, now + ttl)
      new   == IF NonceDecision(peer, nonce, now) = "Accepted" THEN {entry} ELSE {}
  IN  /\ peers' = (peers \ Pruned(now)) \cup new
      /\ expirations' = (expirations \ Popped(now)) \cup new
      /\ live_total' = live_total + Cardinality(new)

(* register_at: prune, decide, and record an accepted nonce.                *)
Register(peer, nonce, ttl, now) ==
  LET entry == ExpiryEntry(peer, nonce, now + ttl)
      new   == IF NonceDecision(peer, nonce, now) = "Accepted" THEN {entry} ELSE {}
  IN  /\ peers' = (peers \ Pruned(now)) \cup new
      /\ expirations' = (expirations \ Popped(now)) \cup new
      /\ live_total' = MonusOne(live_total, Cardinality(Pruned(now))) + Cardinality(new)

(* The three copies of what is live agree, and neither limit is passed: the *)
(* total that register_at compares with its limit, and that the metrics     *)
(* report, is the number of nonces in the map, each of which is in the heap *)
(* and so will be pruned.                                                   *)
NonceBookkeeping ==
  /\ live_total = Cardinality(peers)
  /\ peers = expirations
  /\ live_total <= MaxLiveGlobal
  /\ \A e \in peers : Cardinality({f \in peers : f.peer = e.peer}) <= MaxLivePerPeer
  /\ \A e, f \in peers : e.peer = f.peer /\ e.nonce = f.nonce => e = f
=============================================================================
