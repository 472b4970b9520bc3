---------------------------- MODULE NativeTrustProofs ----------------------------
(***************************************************************************)
(* Proofs about NativeTrust: the trust registry that the transactions of   *)
(* the native PostgreSQL store build statement by statement is one the     *)
(* one-step operations of the SQLite store could have built.  Each commit  *)
(* is shown to be one operation of TrustRegistry on the committed tables   *)
(* (LateNext of TrustRegistryProofs, where a submission, approval or claim *)
(* may also commit after the clock passed the token's expiry it had        *)
(* checked), so the step lemmas of the registry apply.  That a commit is   *)
(* one operation rests on the session invariant: a row found under a lock  *)
(* is as it was read, a key claimed by an insert is still free, and what   *)
(* was read without a lock is pinned by a lock held elsewhere.             *)
(***************************************************************************)
EXTENDS NativeTrust, TrustRegistryProofs

----------------------------------------------------------------------------
(* The statements of a transaction.                                        *)

\* What a statement that asks for a row, or for an index entry, is given.
LEMMA CommittedIs ==
  ASSUME NEW i
  PROVE  /\ Committed(<<"node", i>>) = nodes[i]
         /\ Committed(<<"trust", i>>) = trust[i]
         /\ Committed(<<"token", i>>) = tokens[i]
         /\ Committed(<<"join", i>>) = joins[i]
         /\ Committed(<<"bound", i>>) = trust[i]
         /\ Committed(<<"node_at", i>>) = NodesAt(i)
         /\ Committed(<<"active", i>>) = ActiveEndpoints(i)
BY DEF Committed

\* FOR UPDATE locks the row it finds.
LEMMA LockedIs ==
  ASSUME NEW i
  PROVE  /\ nodes[i] # None => LockedRows(<<"node", i>>) = {<<"node", i>>}
         /\ trust[i] # None => LockedRows(<<"trust", i>>) = {<<"trust", i>>}
         /\ tokens[i] # None => LockedRows(<<"token", i>>) = {<<"token", i>>}
         /\ joins[i] # None => LockedRows(<<"join", i>>) = {<<"join", i>>}
BY CommittedIs, Zenon DEF LockedRows

\* What an insert that meets no conflict knows of its keys.
LEMMA TakenIs ==
  ASSUME NEW o, NEW i
  PROVE  /\ ~Taken(o, <<"node", i>>) => nodes[i] = None
         /\ ~Taken(o, <<"trust", i>>) => trust[i] = None
         /\ ~Taken(o, <<"token", i>>) => tokens[i] = None
         /\ ~Taken(o, <<"join", i>>) => joins[i] = None
         /\ ~Taken(o, <<"node_at", i>>) => NodesAt(i) = {}
         /\ ~Taken(o, <<"active", i>>) => ActiveEndpoints(i) \subseteq {o.e}
BY CommittedIs, Zenon DEF Taken

\* The script of each operation.
LEMMA ScriptIs ==
  ASSUME NEW x
  PROVE  /\ x.op.name = "add" => Script(x) =
              <<Put({<<"node", x.op.n>>, <<"node_at", x.op.e>>}),
                Put({<<"trust", x.op.e>>, <<"active", x.op.n>>})>>
         /\ x.op.name = "disable" => Script(x) = <<Ask(<<"node", x.op.n>>)>>
         /\ x.op.name = "enable" => Script(x) =
              IF x.at < 2 THEN <<Ask(<<"node", x.op.n>>)>>
              ELSE <<Ask(<<"node", x.op.n>>), Ask(<<"bound", PointerOf(x)>>)>>
         /\ x.op.name = "remove" => Script(x) =
              IF x.at < 2 THEN <<Ask(<<"node", x.op.n>>)>>
              ELSE <<Ask(<<"node", x.op.n>>), Ask(<<"trust", PointerOf(x)>>)>>
         /\ x.op.name \in {"revoked", "quarantined"} => Script(x) =
              IF x.at < 2 THEN <<Ask(<<"trust", x.op.e>>)>>
              ELSE <<Ask(<<"trust", x.op.e>>), Ask(<<"node", NodeOf(x)>>)>>
         /\ x.op.name = "rotate" => Script(x) =
              IF x.at < 2 THEN <<Ask(<<"trust", x.op.e>>)>>
              ELSE <<Ask(<<"trust", x.op.e>>), Ask(<<"trust", x.op.to>>),
                     Ask(<<"trust", PreviousOf(x)>>), Ask(<<"node", NodeOf(x)>>),
                     Ask(<<"active", NodeOf(x)>>),
                     Put({<<"trust", x.op.to>>, <<"active", NodeOf(x)>>}),
                     Put({<<"node_at", x.op.to>>})>>
         /\ x.op.name = "create" => Script(x) = <<Put({<<"token", x.op.t>>})>>
         /\ x.op.name = "revoke" => Script(x) = <<Ask(<<"token", x.op.t>>)>>
         /\ x.op.name = "submit" => Script(x) =
              <<Ask(<<"token", x.op.t>>), Ask(<<"join", x.op.r>>), Put({<<"join", x.op.r>>})>>
         /\ x.op.name = "reject" => Script(x) = <<Ask(<<"join", x.op.r>>)>>
         /\ x.op.name = "approve" => Script(x) =
              <<Ask(<<"join", x.op.r>>), Ask(<<"node", x.op.n>>), Ask(<<"node_at", x.op.e>>),
                Ask(<<"trust", x.op.e>>), Ask(<<"history", x.op.n>>),
                Put({<<"node", x.op.n>>, <<"node_at", x.op.e>>}),
                Put({<<"trust", x.op.e>>, <<"active", x.op.n>>}), Ask(<<"assigned", x.op.e>>)>>
         /\ x.op.name = "claim" => Script(x) =
              <<Ask(<<"join", x.op.r>>), Ask(<<"assigned", x.op.e>>), Ask(<<"trust", x.op.e>>),
                Ask(<<"node", x.op.n>>), Ask(<<"node_at", x.op.e>>), Ask(<<"history", x.op.n>>),
                Put({<<"node", x.op.n>>, <<"node_at", x.op.e>>}), Put({<<"active", x.op.n>>})>>
BY DEF Script

\* The arguments of an operation a session runs.
LEMMA Arguments == ASSUME NEW o \in NativeOps PROVE NativeArguments(o)
BY NativeOpsAssumption

\* A later statement of a transaction does not change what the earlier ones
\* were, because the row they depend on is still as it was read.
SameFirst(x, y) ==
  /\ x.op.name \in {"enable", "remove"} => PointerOf(y) = PointerOf(x)
  /\ x.op.name \in {"revoked", "quarantined", "rotate"} =>
       NodeOf(y) = NodeOf(x) /\ PreviousOf(y) = PreviousOf(x)

\* The script of a transaction is the same whatever it has read since.
LEMMA ScriptKept ==
  ASSUME NEW x, NEW y, NativeArguments(x.op), x.at \in Nat, x.at >= 1,
         y.op = x.op, y.at = x.at + 1, x.at >= 2 => SameFirst(x, y)
  PROVE  \A i \in 1..x.at : Script(y)[i] = Script(x)[i]
<1>0. x.op.name \in {"add", "disable", "enable", "remove", "revoked", "quarantined", "rotate",
                    "create", "revoke", "submit", "reject", "approve", "claim"}
  BY Zenon DEF NativeArguments
<1>1. CASE x.op.name \in {"add", "disable", "create", "revoke", "submit", "reject", "approve", "claim"}
  <2>1. Script(y) = Script(x)
    <3>1. CASE x.op.name = "add"
      BY <3>1, ScriptIs, Zenon
    <3>2. CASE x.op.name = "disable"
      BY <3>2, ScriptIs, Zenon
    <3>3. CASE x.op.name = "create"
      BY <3>3, ScriptIs, Zenon
    <3>4. CASE x.op.name = "revoke"
      BY <3>4, ScriptIs, Zenon
    <3>5. CASE x.op.name = "submit"
      BY <3>5, ScriptIs, Zenon
    <3>6. CASE x.op.name = "reject"
      BY <3>6, ScriptIs, Zenon
    <3>7. CASE x.op.name = "approve"
      BY <3>7, ScriptIs, Zenon
    <3>8. CASE x.op.name = "claim"
      BY <3>8, ScriptIs, Zenon
    <3> QED
      BY <1>1, <3>1, <3>2, <3>3, <3>4, <3>5, <3>6, <3>7, <3>8, Zenon
  <2> QED
    BY <2>1, Zenon
<1>2. CASE x.op.name \in {"enable", "remove", "revoked", "quarantined", "rotate"} /\ x.at = 1
  <2>1. ~(y.at < 2) /\ x.at < 2
    BY <1>2
  <2>2. Script(y)[1] = Script(x)[1]
    <3>1. CASE x.op.name = "enable"
      <4>1. Script(x) = <<Ask(<<"node", x.op.n>>)>>
        BY <3>1, <2>1, ScriptIs, Zenon
      <4>2. Script(y) = <<Ask(<<"node", x.op.n>>), Ask(<<"bound", PointerOf(y)>>)>>
        BY <3>1, <2>1, ScriptIs, Zenon
      <4> QED
        BY <4>1, <4>2
    <3>2. CASE x.op.name = "remove"
      <4>1. Script(x) = <<Ask(<<"node", x.op.n>>)>>
        BY <3>2, <2>1, ScriptIs, Zenon
      <4>2. Script(y) = <<Ask(<<"node", x.op.n>>), Ask(<<"trust", PointerOf(y)>>)>>
        BY <3>2, <2>1, ScriptIs, Zenon
      <4> QED
        BY <4>1, <4>2
    <3>3. CASE x.op.name \in {"revoked", "quarantined"}
      <4>1. Script(x) = <<Ask(<<"trust", x.op.e>>)>>
        BY <3>3, <2>1, ScriptIs, Zenon
      <4>2. Script(y) = <<Ask(<<"trust", x.op.e>>), Ask(<<"node", NodeOf(y)>>)>>
        BY <3>3, <2>1, ScriptIs, Zenon
      <4> QED
        BY <4>1, <4>2
    <3>4. CASE x.op.name = "rotate"
      <4>1. Script(x) = <<Ask(<<"trust", x.op.e>>)>>
        BY <3>4, <2>1, ScriptIs, Zenon
      <4>2. Script(y) = <<Ask(<<"trust", x.op.e>>), Ask(<<"trust", x.op.to>>),
                     Ask(<<"trust", PreviousOf(y)>>), Ask(<<"node", NodeOf(y)>>),
                     Ask(<<"active", NodeOf(y)>>),
                     Put({<<"trust", x.op.to>>, <<"active", NodeOf(y)>>}),
                     Put({<<"node_at", x.op.to>>})>>
        BY <3>4, <2>1, ScriptIs, Zenon
      <4> QED
        BY <4>1, <4>2
    <3> QED
      BY <1>2, <3>1, <3>2, <3>3, <3>4, Zenon
  <2> QED
    BY <1>2, <2>2
<1>3. CASE x.op.name \in {"enable", "remove", "revoked", "quarantined", "rotate"} /\ x.at >= 2
  <2>1. ~(y.at < 2) /\ ~(x.at < 2)
    BY <1>3
  <2>2. Script(y) = Script(x)
    <3>1. CASE x.op.name = "enable"
      <4>1. Script(x) = <<Ask(<<"node", x.op.n>>), Ask(<<"bound", PointerOf(x)>>)>>
        BY <3>1, <2>1, ScriptIs, Zenon
      <4>2. Script(y) = <<Ask(<<"node", x.op.n>>), Ask(<<"bound", PointerOf(y)>>)>>
        BY <3>1, <2>1, ScriptIs, Zenon
      <4>3. PointerOf(y) = PointerOf(x)
        BY <1>3, <3>1, Zenon DEF SameFirst
      <4> QED
        BY <4>1, <4>2, <4>3, Zenon
    <3>2. CASE x.op.name = "remove"
      <4>1. Script(x) = <<Ask(<<"node", x.op.n>>), Ask(<<"trust", PointerOf(x)>>)>>
        BY <3>2, <2>1, ScriptIs, Zenon
      <4>2. Script(y) = <<Ask(<<"node", x.op.n>>), Ask(<<"trust", PointerOf(y)>>)>>
        BY <3>2, <2>1, ScriptIs, Zenon
      <4>3. PointerOf(y) = PointerOf(x)
        BY <1>3, <3>2, Zenon DEF SameFirst
      <4> QED
        BY <4>1, <4>2, <4>3, Zenon
    <3>3. CASE x.op.name \in {"revoked", "quarantined"}
      <4>1. Script(x) = <<Ask(<<"trust", x.op.e>>), Ask(<<"node", NodeOf(x)>>)>>
        BY <3>3, <2>1, ScriptIs, Zenon
      <4>2. Script(y) = <<Ask(<<"trust", x.op.e>>), Ask(<<"node", NodeOf(y)>>)>>
        BY <3>3, <2>1, ScriptIs, Zenon
      <4>3. NodeOf(y) = NodeOf(x)
        BY <1>3, <3>3, Zenon DEF SameFirst
      <4> QED
        BY <4>1, <4>2, <4>3, Zenon
    <3>4. CASE x.op.name = "rotate"
      <4>1. Script(x) = <<Ask(<<"trust", x.op.e>>), Ask(<<"trust", x.op.to>>),
                     Ask(<<"trust", PreviousOf(x)>>), Ask(<<"node", NodeOf(x)>>),
                     Ask(<<"active", NodeOf(x)>>),
                     Put({<<"trust", x.op.to>>, <<"active", NodeOf(x)>>}),
                     Put({<<"node_at", x.op.to>>})>>
        BY <3>4, <2>1, ScriptIs, Zenon
      <4>2. Script(y) = <<Ask(<<"trust", x.op.e>>), Ask(<<"trust", x.op.to>>),
                     Ask(<<"trust", PreviousOf(y)>>), Ask(<<"node", NodeOf(y)>>),
                     Ask(<<"active", NodeOf(y)>>),
                     Put({<<"trust", x.op.to>>, <<"active", NodeOf(y)>>}),
                     Put({<<"node_at", x.op.to>>})>>
        BY <3>4, <2>1, ScriptIs, Zenon
      <4>3. NodeOf(y) = NodeOf(x) /\ PreviousOf(y) = PreviousOf(x)
        BY <1>3, <3>4, Zenon DEF SameFirst
      <4> QED
        BY <4>1, <4>2, <4>3, Zenon
    <3> QED
      BY <1>3, <3>1, <3>2, <3>3, <3>4, Zenon
  <2> QED
    BY <2>2, Zenon
<1> QED
  BY <1>0, <1>1, <1>2, <1>3

\* A statement adds itself to those the transaction has executed.
LEMMA ExecutedKept ==
  ASSUME NEW x, NEW y, NativeArguments(x.op), x.at \in Nat, x.at >= 1,
         y.op = x.op, y.at = x.at + 1, x.at >= 2 => SameFirst(x, y)
  PROVE  Executed(y) = Executed(x) \cup {Script(x)[x.at]}
<1>1. \A i \in 1..x.at : Script(y)[i] = Script(x)[i]
  BY ScriptKept
<1>2. 1..(y.at - 1) = 1..x.at /\ 1..x.at = 1..(x.at - 1) \cup {x.at}
  OBVIOUS
<1>3. Executed(y) = {Script(y)[i] : i \in 1..x.at}
  BY <1>2, Zenon DEF Executed
<1>4. Executed(y) = {Script(x)[i] : i \in 1..x.at}
  BY <1>1, <1>3, Zenon
<1> QED
  BY <1>2, <1>4, Zenon DEF Executed

\* A transaction can rely on what it has read as long as the tables stand still.
LEMMA SessionUnchanged ==
  ASSUME NEW x, UNCHANGED vars, SessionInv(x)
  PROVE  SessionInv(x)'
BY DEF SessionInv, ReadsCurrent, Holds, ClaimsFree, NodesAt, ActiveEndpoints, ActiveFor,
       BoundCurrent, AbsentApart, RemovesFound, vars

\* The first statement of an operation that later ones depend on found its key.
LEMMA FirstSeen ==
  ASSUME NEW x, SessionInv(x), x.at >= 2
  PROVE  /\ x.op.name \in {"enable", "remove"} => <<"node", x.op.n>> \in DOMAIN x.seen
         /\ x.op.name \in {"revoked", "quarantined", "rotate"} => <<"trust", x.op.e>> \in DOMAIN x.seen
<1>1. x.at \in Nat /\ ~(x.at < 2) /\ Script(x)[1] \in Executed(x)
  BY DEF SessionInv, Executed
<1>2. NativeArguments(x.op)
  BY Arguments, Zenon DEF SessionInv
<1>3. ASSUME NEW k, k[2] # None, Script(x)[1] = Ask(k) PROVE k \in DOMAIN x.seen
  <2>1. Ask(k).does = "select" /\ Ask(k).keys = {k}
    BY <1>3 DEF Ask
  <2> QED
    BY <1>1, <1>3, <2>1 DEF SessionInv
<1>4. ASSUME x.op.name \in {"enable", "remove"} PROVE <<"node", x.op.n>> \in DOMAIN x.seen
  <2>1. x.op.n # None
    BY <1>2, <1>4, Zenon DEF NativeArguments
  <2>2. \E a : Script(x) = <<Ask(<<"node", x.op.n>>), a>>
    BY <1>1, <1>4, ScriptIs, Zenon
  <2>3. Script(x)[1] = Ask(<<"node", x.op.n>>)
    BY <2>2
  <2> QED
    BY <2>1, <2>3, <1>3
<1>5. ASSUME x.op.name \in {"revoked", "quarantined", "rotate"}
      PROVE  <<"trust", x.op.e>> \in DOMAIN x.seen
  <2>1. x.op.e # None
    BY <1>2, <1>5, Zenon DEF NativeArguments
  <2>2. Script(x)[1] = Ask(<<"trust", x.op.e>>)
    <3>1. CASE x.op.name \in {"revoked", "quarantined"}
      <4>1. \E a : Script(x) = <<Ask(<<"trust", x.op.e>>), a>>
        BY <1>1, <3>1, ScriptIs, Zenon
      <4> QED
        BY <4>1
    <3>2. CASE x.op.name = "rotate"
      <4>1. Script(x) = <<Ask(<<"trust", x.op.e>>), Ask(<<"trust", x.op.to>>),
                     Ask(<<"trust", PreviousOf(x)>>), Ask(<<"node", NodeOf(x)>>),
                     Ask(<<"active", NodeOf(x)>>),
                     Put({<<"trust", x.op.to>>, <<"active", NodeOf(x)>>}),
                     Put({<<"node_at", x.op.to>>})>>
        BY <1>1, <3>2, ScriptIs, Zenon
      <4> QED
        BY <4>1
    <3> QED
      BY <1>5, <3>1, <3>2, Zenon
  <2> QED
    BY <2>1, <2>2, <1>3
<1> QED
  BY <1>4, <1>5, Zenon

\* The row the statements of a transaction depend on is as it was read first.
LEMMA SelectSame ==
  ASSUME TypeOK, NEW x, SessionInv(x), x.at >= 2, x.at <= Len(Script(x)),
         NEW y, y.op = x.op,
         y.seen = [k \in Script(x)[x.at].keys \cup DOMAIN x.seen |->
                     IF k \in Script(x)[x.at].keys THEN Committed(k) ELSE x.seen[k]]
  PROVE  SameFirst(x, y)
<1>1. x.at \in Nat /\ ~(x.at < 2)
  BY DEF SessionInv
<1>2. NativeArguments(x.op)
  BY Arguments, Zenon DEF SessionInv
<1>3. \A k : Ask(k).keys \subseteq {k}
  BY DEF Ask
<1>4. ASSUME x.op.name \in {"enable", "remove"} PROVE PointerOf(y) = PointerOf(x)
  <2>1. \E t \in {"bound", "trust"} : Script(x) = <<Ask(<<"node", x.op.n>>), Ask(<<t, PointerOf(x)>>)>>
    BY <1>1, <1>4, ScriptIs, Zenon
  <2>2. x.at = 2 /\ \E t \in {"bound", "trust"} : Script(x)[x.at] = Ask(<<t, PointerOf(x)>>)
    BY <1>1, <2>1
  <2>3. <<"node", x.op.n>> \notin Script(x)[x.at].keys
    BY <1>3, <2>2
  <2>4. y.seen[<<"node", x.op.n>>] = x.seen[<<"node", x.op.n>>]
    BY <1>4, <2>3, FirstSeen, Zenon
  <2> QED
    BY <2>4, Zenon DEF PointerOf, Seen
<1>5. ASSUME y.seen[<<"trust", x.op.e>>] = x.seen[<<"trust", x.op.e>>]
      PROVE  NodeOf(y) = NodeOf(x) /\ PreviousOf(y) = PreviousOf(x)
  BY <1>5, Zenon DEF NodeOf, PreviousOf, Seen
<1>6. ASSUME x.op.name \in {"revoked", "quarantined"}
      PROVE  y.seen[<<"trust", x.op.e>>] = x.seen[<<"trust", x.op.e>>]
  <2>1. Script(x) = <<Ask(<<"trust", x.op.e>>), Ask(<<"node", NodeOf(x)>>)>>
    BY <1>1, <1>6, ScriptIs, Zenon
  <2>2. Script(x)[x.at] = Ask(<<"node", NodeOf(x)>>)
    BY <1>1, <2>1
  <2>3. <<"trust", x.op.e>> \notin Script(x)[x.at].keys
    BY <1>3, <2>2
  <2> QED
    BY <1>6, <2>3, FirstSeen, Zenon
<1>7. ASSUME x.op.name = "rotate"
      PROVE  y.seen[<<"trust", x.op.e>>] = x.seen[<<"trust", x.op.e>>]
  <2>1. Script(x) = <<Ask(<<"trust", x.op.e>>), Ask(<<"trust", x.op.to>>),
                     Ask(<<"trust", PreviousOf(x)>>), Ask(<<"node", NodeOf(x)>>),
                     Ask(<<"active", NodeOf(x)>>),
                     Put({<<"trust", x.op.to>>, <<"active", NodeOf(x)>>}),
                     Put({<<"node_at", x.op.to>>})>>
    BY <1>1, <1>7, ScriptIs, Zenon
  <2>2. <<"trust", x.op.e>> \in DOMAIN x.seen
    BY <1>7, FirstSeen, Zenon
  <2>3. CASE x.at = 3 /\ PreviousOf(x) # None
    <3>1. Holds(x, <<"trust", x.op.e>>) /\ x.op.e \in EndpointIds
      BY <1>2, <1>7, <2>2, <2>3, Zenon DEF PreviousOf, Seen, Holds, NativeArguments
    <3>2. x.seen[<<"trust", x.op.e>>] = Committed(<<"trust", x.op.e>>)
      BY <3>1, CommittedIs, Zenon DEF SessionInv, ReadsCurrent
    <3> QED
      BY <2>2, <3>2, Zenon
  <2>4. CASE ~(x.at = 3 /\ PreviousOf(x) # None)
    <3>1. <<"trust", x.op.e>> \notin Script(x)[x.at].keys
      <4>1. x.op.to # x.op.e
        BY <1>2, <1>7, Zenon DEF NativeArguments
      <4>2. x.at \in {2, 3, 4, 5, 6, 7}
        BY <1>1, <2>1
      <4>3. CASE x.at = 2
        BY <4>1, <4>3, <2>1, <1>3
      <4>4. CASE x.at = 3
        BY <4>4, <2>4, <2>1 DEF Ask
      <4>5. CASE x.at \in {4, 5}
        BY <4>5, <2>1, <1>3
      <4>6. CASE x.at \in {6, 7}
        BY <4>1, <4>6, <2>1 DEF Put
      <4> QED
        BY <4>2, <4>3, <4>4, <4>5, <4>6
    <3> QED
      BY <2>2, <3>1, Zenon
  <2> QED
    BY <2>3, <2>4, Zenon
<1> QED
  BY <1>4, <1>5, <1>6, <1>7, Zenon DEF SameFirst

\* A SELECT: what it found is locked, and everything relied on before still is.
LEMMA SelectKeeps ==
  ASSUME TypeOK, PointerCurrent, NEW x, SessionInv(x), x.at <= Len(Script(x)), Script(x)[x.at].does = "select",
         NEW y, y.op = x.op, y.at = x.at + 1,
         y.seen = [k \in Script(x)[x.at].keys \cup DOMAIN x.seen |->
                     IF k \in Script(x)[x.at].keys THEN Committed(k) ELSE x.seen[k]],
         y.held = x.held \cup (UNION {LockedRows(k) : k \in Script(x)[x.at].keys})
  PROVE  SessionInv(y)
<1>0. x.at \in Nat /\ x.at >= 1 /\ y.at \in Nat /\ y.at >= 1 /\ x.op \in NativeOps
  BY DEF SessionInv
<1>1. NativeArguments(x.op)
  BY <1>0, Arguments, Zenon
<1>2. x.at >= 2 => SameFirst(x, y)
  BY SelectSame, Zenon
<1>3. PICK c : c = Script(x)[x.at]
  BY Zenon
<1>4. Executed(y) = Executed(x) \cup {c}
  BY <1>0, <1>1, <1>2, <1>3, ExecutedKept
<1>5. /\ DOMAIN y.seen = c.keys \cup DOMAIN x.seen
      /\ \A k \in c.keys : y.seen[k] = Committed(k)
      /\ \A k \in DOMAIN x.seen : k \notin c.keys => y.seen[k] = x.seen[k]
  BY <1>3, Zenon
<1>6. x.held \subseteq y.held /\ \A k \in c.keys : LockedRows(k) \subseteq y.held
  BY <1>3, Zenon
<1>7. \A d \in Executed(y) : d.does = "select" => d.keys \subseteq DOMAIN y.seen
  BY <1>4, <1>5, Zenon DEF SessionInv
<1>8. \A d \in Executed(y) : d.does = "insert" => ClaimsFree(y, d.keys)
  <2>1. c.does # "insert"
    BY <1>3
  <2>2. ASSUME NEW keys, ClaimsFree(x, keys) PROVE ClaimsFree(y, keys)
    BY <1>6, <2>2, Zenon DEF ClaimsFree
  <2> QED
    BY <1>4, <2>1, <2>2, Zenon DEF SessionInv
<1>9. ReadsCurrent(y)
  <2>0. ReadsCurrent(x)
    BY Zenon DEF SessionInv
  <2>1. ASSUME NEW k, Holds(y, k), k \notin c.keys
        PROVE  Holds(x, k) /\ y.seen[k] = x.seen[k]
    BY <1>5, <2>1, Zenon DEF Holds
  <2>2. ASSUME NEW k, Holds(y, k), k \in c.keys
        PROVE  y.seen[k] = Committed(k) /\ Committed(k) # None /\ LockedRows(k) \subseteq y.held
    BY <1>5, <1>6, <2>2, Zenon DEF Holds
  <2>3. ASSUME NEW n \in NodeIds, Holds(y, <<"node", n>>)
        PROVE  <<"node", n>> \in y.held /\ y.seen[<<"node", n>>] = nodes[n]
    <3>1. CASE <<"node", n>> \in c.keys
      <4>1. y.seen[<<"node", n>>] = nodes[n] /\ nodes[n] # None
        BY <2>2, <2>3, <3>1, CommittedIs, Zenon
      <4> QED
        BY <2>2, <2>3, <3>1, <4>1, LockedIs, Zenon
    <3>2. CASE <<"node", n>> \notin c.keys
      BY <1>6, <2>0, <2>1, <2>3, <3>2, Zenon DEF ReadsCurrent
    <3> QED
      BY <3>1, <3>2, Zenon
  <2>4. ASSUME NEW e \in EndpointIds, Holds(y, <<"trust", e>>)
        PROVE  <<"trust", e>> \in y.held /\ y.seen[<<"trust", e>>] = trust[e]
    <3>1. CASE <<"trust", e>> \in c.keys
      <4>1. y.seen[<<"trust", e>>] = trust[e] /\ trust[e] # None
        BY <2>2, <2>4, <3>1, CommittedIs, Zenon
      <4> QED
        BY <2>2, <2>4, <3>1, <4>1, LockedIs, Zenon
    <3>2. CASE <<"trust", e>> \notin c.keys
      BY <1>6, <2>0, <2>1, <2>4, <3>2, Zenon DEF ReadsCurrent
    <3> QED
      BY <3>1, <3>2, Zenon
  <2>5. ASSUME NEW r \in RequestIds, Holds(y, <<"join", r>>)
        PROVE  <<"join", r>> \in y.held /\ y.seen[<<"join", r>>] = joins[r]
    <3>1. CASE <<"join", r>> \in c.keys
      <4>1. y.seen[<<"join", r>>] = joins[r] /\ joins[r] # None
        BY <2>2, <2>5, <3>1, CommittedIs, Zenon
      <4> QED
        BY <2>2, <2>5, <3>1, <4>1, LockedIs, Zenon
    <3>2. CASE <<"join", r>> \notin c.keys
      BY <1>6, <2>0, <2>1, <2>5, <3>2, Zenon DEF ReadsCurrent
    <3> QED
      BY <3>1, <3>2, Zenon
  <2>6. ASSUME NEW t \in TokenIds, Holds(y, <<"token", t>>)
        PROVE  /\ <<"token", t>> \in y.held /\ tokens[t] # None
               /\ y.seen[<<"token", t>>].status = tokens[t].status
               /\ y.seen[<<"token", t>>].max_uses = tokens[t].max_uses
               /\ y.seen[<<"token", t>>].used_count = tokens[t].used_count
    <3>1. CASE <<"token", t>> \in c.keys
      <4>1. y.seen[<<"token", t>>] = tokens[t] /\ tokens[t] # None
        BY <2>2, <2>6, <3>1, CommittedIs, Zenon
      <4> QED
        BY <2>2, <2>6, <3>1, <4>1, LockedIs, Zenon
    <3>2. CASE <<"token", t>> \notin c.keys
      BY <1>6, <2>0, <2>1, <2>6, <3>2, Zenon DEF ReadsCurrent
    <3> QED
      BY <3>1, <3>2, Zenon
  <2> QED
    BY <2>3, <2>4, <2>5, <2>6, Zenon DEF ReadsCurrent
<1>10. BoundCurrent(y)
  <2> SUFFICES ASSUME x.op.name = "enable", NEW e \in EndpointIds, <<"bound", e>> \in DOMAIN y.seen
               PROVE  /\ x.op.n \in NodesAt(e) /\ <<"node", x.op.n>> \in y.held
                      /\ y.seen[<<"bound", e>>] # None /\ y.seen[<<"bound", e>>].node_id = x.op.n
                           /\ y.seen[<<"bound", e>>].status = "active" => ActiveFor(x.op.n, e)
    BY Zenon DEF BoundCurrent
  <2>1. CASE <<"bound", e>> \in c.keys
    <3>1. x.at >= 2 /\ c = Ask(<<"bound", PointerOf(x)>>)
      <4>1. CASE x.at < 2
        <5>1. Script(x) = <<Ask(<<"node", x.op.n>>)>>
          BY <4>1, ScriptIs, Zenon
        <5>2. c = Ask(<<"node", x.op.n>>)
          BY <1>0, <1>3, <5>1
        <5> QED
          BY <2>1, <5>2 DEF Ask
      <4>2. CASE ~(x.at < 2)
        <5>1. Script(x) = <<Ask(<<"node", x.op.n>>), Ask(<<"bound", PointerOf(x)>>)>>
          BY <4>2, ScriptIs, Zenon
        <5> QED
          BY <1>0, <1>3, <4>2, <5>1
      <4> QED
        BY <4>1, <4>2, Zenon
    <3>2. e = PointerOf(x) /\ e # None
      BY <2>1, <3>1 DEF Ask
    <3>3. Holds(x, <<"node", x.op.n>>) /\ x.seen[<<"node", x.op.n>>].endpoint_id = e
      BY <3>1, <3>2, FirstSeen, Zenon DEF PointerOf, Seen, Holds
    <3>4. x.op.n \in NodeIds
      BY <1>1, Zenon DEF NativeArguments
    <3>5. <<"node", x.op.n>> \in x.held /\ nodes[x.op.n].endpoint_id = e /\ nodes[x.op.n] # None
      BY <3>3, <3>4, Zenon DEF SessionInv, ReadsCurrent, Holds
    <3>6. y.seen[<<"bound", e>>] = trust[e]
      BY <1>5, <2>1, CommittedIs, Zenon
    <3> QED
      BY <1>6, <3>4, <3>5, <3>6, Zenon DEF NodesAt, ActiveFor
  <2>2. CASE <<"bound", e>> \notin c.keys
    BY <1>5, <1>6, <2>2, Zenon DEF SessionInv, BoundCurrent
  <2> QED
    BY <2>1, <2>2, Zenon
<1>11. AbsentApart(y)
  <2> SUFFICES ASSUME x.op.name \in {"revoked", "quarantined"}, NEW n \in NodeIds,
                      <<"node", n>> \in DOMAIN y.seen, y.seen[<<"node", n>>] = None
               PROVE  <<"trust", x.op.e>> \in y.held /\ n \notin NodesAt(x.op.e)
    BY Zenon DEF AbsentApart
  <2>1. CASE <<"node", n>> \in c.keys
    <3>1. x.at >= 2 /\ c = Ask(<<"node", NodeOf(x)>>)
      <4>1. CASE x.at < 2
        <5>1. Script(x) = <<Ask(<<"trust", x.op.e>>)>>
          BY <4>1, ScriptIs, Zenon
        <5>2. c = Ask(<<"trust", x.op.e>>)
          BY <1>0, <1>3, <5>1
        <5> QED
          BY <2>1, <5>2 DEF Ask
      <4>2. CASE ~(x.at < 2)
        <5>1. Script(x) = <<Ask(<<"trust", x.op.e>>), Ask(<<"node", NodeOf(x)>>)>>
          BY <4>2, ScriptIs, Zenon
        <5> QED
          BY <1>0, <1>3, <4>2, <5>1
      <4> QED
        BY <4>1, <4>2, Zenon
    <3>2. NodeOf(x) # None
      BY <2>1, <3>1 DEF Ask
    <3>3. Holds(x, <<"trust", x.op.e>>)
      BY <3>1, <3>2, FirstSeen, Zenon DEF NodeOf, Seen, Holds
    <3>4. x.op.e \in EndpointIds
      BY <1>1, Zenon DEF NativeArguments
    <3>5. <<"trust", x.op.e>> \in x.held
      BY <3>3, <3>4, Zenon DEF SessionInv, ReadsCurrent
    <3>6. nodes[n] = None
      BY <1>5, <2>1, CommittedIs, Zenon
    <3> QED
      BY <1>6, <3>5, <3>6, Zenon DEF NodesAt
  <2>2. CASE <<"node", n>> \notin c.keys
    BY <1>5, <1>6, <2>2, Zenon DEF SessionInv, AbsentApart
  <2> QED
    BY <2>1, <2>2, Zenon
<1>12. RemovesFound(y)
  <2> SUFFICES ASSUME x.op.name = "remove", NEW e \in EndpointIds, <<"trust", e>> \in DOMAIN y.seen
               PROVE  y.seen[<<"trust", e>>] # None
    BY Zenon DEF RemovesFound
  <2>1. CASE <<"trust", e>> \in c.keys
    <3>1. x.at >= 2 /\ c = Ask(<<"trust", PointerOf(x)>>)
      <4>1. CASE x.at < 2
        <5>1. Script(x) = <<Ask(<<"node", x.op.n>>)>>
          BY <4>1, ScriptIs, Zenon
        <5>2. c = Ask(<<"node", x.op.n>>)
          BY <1>0, <1>3, <5>1
        <5> QED
          BY <2>1, <5>2 DEF Ask
      <4>2. CASE ~(x.at < 2)
        <5>1. Script(x) = <<Ask(<<"node", x.op.n>>), Ask(<<"trust", PointerOf(x)>>)>>
          BY <4>2, ScriptIs, Zenon
        <5> QED
          BY <1>0, <1>3, <4>2, <5>1
      <4> QED
        BY <4>1, <4>2, Zenon
    <3>2. e = PointerOf(x) /\ e # None
      BY <2>1, <3>1 DEF Ask
    <3>3. Holds(x, <<"node", x.op.n>>) /\ x.seen[<<"node", x.op.n>>].endpoint_id = e
      BY <3>1, <3>2, FirstSeen, Zenon DEF PointerOf, Seen, Holds
    <3>4. x.op.n \in NodeIds
      BY <1>1, Zenon DEF NativeArguments
    <3>5. nodes[x.op.n].endpoint_id = e /\ nodes[x.op.n] # None
      BY <3>3, <3>4, Zenon DEF SessionInv, ReadsCurrent, Holds
    <3>6. trust[e] # None
      BY <3>4, <3>5, Zenon DEF PointerCurrent
    <3> QED
      BY <1>5, <2>1, <3>6, CommittedIs, Zenon
  <2>2. CASE <<"trust", e>> \notin c.keys
    BY <1>5, <2>2, Zenon DEF SessionInv, RemovesFound
  <2> QED
    BY <2>1, <2>2, Zenon
<1> QED
  BY <1>0, <1>7, <1>8, <1>9, <1>10, <1>11, <1>12, Zenon DEF SessionInv

\* An INSERT: the keys it took are free and locked.
LEMMA InsertKeeps ==
  ASSUME NEW x, SessionInv(x), Script(x)[x.at].does = "insert",
         \A k \in Script(x)[x.at].keys : ~Taken(x.op, k),
         NEW y, y.op = x.op, y.at = x.at + 1, y.seen = x.seen,
         y.held = x.held \cup Script(x)[x.at].keys
  PROVE  SessionInv(y)
<1>0. x.at \in Nat /\ x.at >= 1 /\ y.at \in Nat /\ y.at >= 1 /\ x.op \in NativeOps
  BY DEF SessionInv
<1>1. NativeArguments(x.op)
  BY <1>0, Arguments, Zenon
<1>2. SameFirst(x, y)
  BY Zenon DEF SameFirst, PointerOf, NodeOf, PreviousOf, Seen
<1>3. PICK c : c = Script(x)[x.at]
  BY Zenon
<1>4. Executed(y) = Executed(x) \cup {c}
  BY <1>0, <1>1, <1>2, <1>3, ExecutedKept
<1>5. \A d \in Executed(y) : d.does = "select" => d.keys \subseteq DOMAIN y.seen
  <2>1. c.does # "select"
    BY <1>3
  <2> QED
    BY <1>4, <2>1, Zenon DEF SessionInv
<1>6. \A d \in Executed(y) : d.does = "insert" => ClaimsFree(y, d.keys)
  <2>1. ASSUME NEW keys, ClaimsFree(x, keys) PROVE ClaimsFree(y, keys)
    BY <2>1, Zenon DEF ClaimsFree
  <2>2. ClaimsFree(y, c.keys)
    BY <1>3, TakenIs, Zenon DEF ClaimsFree
  <2> QED
    BY <1>4, <2>1, <2>2, Zenon DEF SessionInv
<1>7. ReadsCurrent(y) /\ BoundCurrent(y) /\ AbsentApart(y) /\ RemovesFound(y)
  BY Zenon DEF SessionInv, ReadsCurrent, Holds, BoundCurrent, AbsentApart, RemovesFound
<1> QED
  BY <1>0, <1>5, <1>6, <1>7, Zenon DEF SessionInv

\* BEGIN: nothing has been read.
LEMMA BeginKeeps ==
  ASSUME NEW o \in NativeOps, NEW y, y = [op |-> o, at |-> 1, seen |-> <<>>, held |-> {}]
  PROVE  SessionInv(y)
<1>1. Executed(y) = {}
  BY DEF Executed
<1>2. DOMAIN y.seen = {}
  OBVIOUS
<1>3. ReadsCurrent(y) /\ BoundCurrent(y) /\ AbsentApart(y) /\ RemovesFound(y)
  BY <1>2, Zenon DEF ReadsCurrent, Holds, BoundCurrent, AbsentApart, RemovesFound
<1>4. y.op \in NativeOps /\ y.at \in Nat /\ y.at >= 1
  OBVIOUS
<1> QED
  BY <1>1, <1>3, <1>4, Zenon DEF SessionInv

\* One session of several is replaced, and the tables stay as they are.
LEMMA SessionReplaced ==
  ASSUME SessionsInv, LocksApart, UNCHANGED vars, NEW s \in DbSessions,
         NEW y, dbSession' = [dbSession EXCEPT ![s] = y], y = NoTx \/ SessionInv(y),
         \A o \in DbSessions \ {s} : dbSession[o].held \cap y.held = {}
  PROVE  SessionsInv' /\ LocksApart'
<1>1. dbSession'[s] = y /\ \A o \in DbSessions \ {s} : dbSession'[o] = dbSession[o]
  BY Zenon DEF SessionsInv
<1>2. LocksApart'
  BY <1>1, Zenon DEF LocksApart
<1>3. ASSUME NEW o \in DbSessions, dbSession'[o] # NoTx PROVE SessionInv(dbSession[o])'
  <2>1. PICK x : x = dbSession'[o]
    BY Zenon
  <2>2. SessionInv(x)
    BY <1>1, <1>3, <2>1, Zenon DEF SessionsInv
  <2>3. SessionInv(x)'
    BY <2>2, SessionUnchanged, Zenon
  <2> QED
    BY <2>1, <2>3, Zenon
<1>4. dbSession' = [o \in DbSessions |-> dbSession'[o]]
  BY Zenon DEF SessionsInv
<1> QED
  BY <1>2, <1>3, <1>4, Zenon DEF SessionsInv

\* A statement, a BEGIN and a ROLLBACK keep the locks apart and leave every
\* transaction what it relies on.
LEMMA StatementStep ==
  ASSUME TypeOK, PointerCurrent, SessionsInv, LocksApart, NEW s \in DbSessions,
         (\E o \in NativeOps : BeginsTx(s, o)) \/ Selects(s) \/ Inserts(s) \/ RollsBack(s)
  PROVE  SessionsInv' /\ LocksApart' /\ UNCHANGED vars
<1>0. UNCHANGED vars
  BY Zenon DEF BeginsTx, Selects, Inserts, RollsBack
<1>1. ASSUME NEW o \in NativeOps, BeginsTx(s, o) PROVE SessionsInv' /\ LocksApart'
  <2>1. PICK y : y = [op |-> o, at |-> 1, seen |-> <<>>, held |-> {}]
    BY Zenon
  <2>2. SessionInv(y) /\ y.held = {}
    BY <2>1, BeginKeeps
  <2>3. dbSession' = [dbSession EXCEPT ![s] = y]
    BY <1>1, <2>1, Zenon DEF BeginsTx
  <2> QED
    BY <1>0, <2>2, <2>3, SessionReplaced, Zenon
<1>2. ASSUME Selects(s) PROVE SessionsInv' /\ LocksApart'
  <2>1. PICK x : x = dbSession[s]
    BY Zenon
  <2>2. SessionInv(x) /\ x.at <= Len(Script(x)) /\ Script(x)[x.at].does = "select"
    BY <1>2, <2>1, Zenon DEF Selects, AtStatement, SessionsInv
  <2>3. PICK rows : rows = (UNION {LockedRows(k) : k \in Script(x)[x.at].keys})
    BY Zenon
  <2>4. PICK y : y = [op |-> x.op, at |-> x.at + 1,
                      seen |-> [k \in Script(x)[x.at].keys \cup DOMAIN x.seen |->
                          IF k \in Script(x)[x.at].keys THEN Committed(k) ELSE x.seen[k]],
                      held |-> x.held \cup rows]
    BY Zenon
  <2>5. Free(s, rows) /\ dbSession' = [dbSession EXCEPT ![s] = y]
    BY <1>2, <2>1, <2>3, <2>4, Zenon DEF Selects, Advances
  <2>6. SessionInv(y)
    BY <2>2, <2>3, <2>4, SelectKeeps, Zenon
  <2>7. \A o \in DbSessions \ {s} : dbSession[o].held \cap y.held = {}
    <3>1. y.held = x.held \cup rows
      BY <2>4, Zenon
    <3> QED
      BY <2>1, <2>5, <3>1, Zenon DEF Free, LocksApart
  <2> QED
    BY <1>0, <2>5, <2>6, <2>7, SessionReplaced, Zenon
<1>3. ASSUME Inserts(s) PROVE SessionsInv' /\ LocksApart'
  <2>1. PICK x : x = dbSession[s]
    BY Zenon
  <2>2. /\ SessionInv(x) /\ Script(x)[x.at].does = "insert"
        /\ \A k \in Script(x)[x.at].keys : ~Taken(x.op, k)
    BY <1>3, <2>1, Zenon DEF Inserts, AtStatement, SessionsInv
  <2>3. PICK keys : keys = Script(x)[x.at].keys
    BY Zenon
  <2>4. PICK y : y = [op |-> x.op, at |-> x.at + 1, seen |-> x.seen, held |-> x.held \cup keys]
    BY Zenon
  <2>5. Free(s, keys) /\ dbSession' = [dbSession EXCEPT ![s] = y]
    BY <1>3, <2>1, <2>3, <2>4, Zenon DEF Inserts, Advances
  <2>6. SessionInv(y)
    BY <2>2, <2>3, <2>4, InsertKeeps, Zenon
  <2>7. \A o \in DbSessions \ {s} : dbSession[o].held \cap y.held = {}
    <3>1. y.held = x.held \cup keys
      BY <2>4, Zenon
    <3> QED
      BY <2>1, <2>5, <3>1, Zenon DEF Free, LocksApart
  <2> QED
    BY <1>0, <2>5, <2>6, <2>7, SessionReplaced, Zenon
<1>4. ASSUME RollsBack(s) PROVE SessionsInv' /\ LocksApart'
  <2>1. NoTx.held = {}
    BY DEF NoTx
  <2>2. dbSession' = [dbSession EXCEPT ![s] = NoTx]
    BY <1>4, Zenon DEF RollsBack
  <2> QED
    BY <1>0, <2>1, <2>2, SessionReplaced, Zenon
<1> QED
  BY <1>0, <1>1, <1>2, <1>3, <1>4, Zenon

----------------------------------------------------------------------------
(* What a commit may change, given the locks its session holds.            *)

Footprint(h) ==
  /\ \A n \in NodeIds : <<"node", n>> \notin h => nodes'[n] = nodes[n]
  /\ \A e \in EndpointIds : <<"trust", e>> \notin h => trust'[e] = trust[e]
  /\ \A r \in RequestIds : <<"join", r>> \notin h => joins'[r] = joins[r]
  /\ \A t \in TokenIds : <<"token", t>> \notin h => tokens'[t] = tokens[t]
  /\ \A n \in NodeIds, e \in EndpointIds :
       n \in NodesAt(e)' /\ n \notin NodesAt(e) => <<"node_at", e>> \in h /\ <<"trust", e>> \in h
  /\ \A n \in NodeIds, e \in EndpointIds :
       ActiveFor(n, e)' /\ ~ActiveFor(n, e) => <<"active", n>> \in h
  /\ \A n \in NodeIds, e \in EndpointIds :
       n \in NodesAt(e) /\ ActiveFor(n, e) /\ ~ActiveFor(n, e)' => <<"node", n>> \in h

\* A transaction whose locks are apart from those of the one that commits can
\* still rely on what it has read and claimed.
LEMMA OthersKept ==
  ASSUME NEW x, SessionInv(x), NEW h, x.held \cap h = {}, Footprint(h)
  PROVE  SessionInv(x)'
<1>1. \A k : k \in x.held => k \notin h
  BY Zenon
<1>2. ReadsCurrent(x)'
  BY <1>1, Zenon DEF SessionInv, ReadsCurrent, Holds, Footprint
<1>3. ASSUME NEW keys, ClaimsFree(x, keys) PROVE ClaimsFree(x, keys)'
  <2>1. keys \subseteq x.held
    BY <1>3, Zenon DEF ClaimsFree
  <2>2. /\ \A n \in NodeIds : <<"node", n>> \in keys => nodes'[n] = None
        /\ \A e \in EndpointIds : <<"trust", e>> \in keys => trust'[e] = None
        /\ \A r \in RequestIds : <<"join", r>> \in keys => joins'[r] = None
        /\ \A t \in TokenIds : <<"token", t>> \in keys => tokens'[t] = None
    BY <1>1, <1>3, <2>1, Zenon DEF ClaimsFree, Footprint
  <2>3. ASSUME NEW e \in EndpointIds, <<"node_at", e>> \in keys PROVE NodesAt(e)' = {}
    <3>1. NodesAt(e) = {} /\ <<"node_at", e>> \notin h
      BY <1>1, <1>3, <2>1, <2>3, Zenon DEF ClaimsFree
    <3>2. ASSUME NEW n \in NodesAt(e)' PROVE FALSE
      <4>1. n \in NodeIds
        BY <3>2, Zenon DEF NodesAt
      <4> QED
        BY <3>1, <3>2, <4>1, Zenon DEF Footprint
    <3> QED
      BY <3>2, Zenon
  <2>4. ASSUME NEW n \in NodeIds, <<"active", n>> \in keys PROVE ActiveEndpoints(n)' \subseteq {x.op.e}
    <3>1. ActiveEndpoints(n) \subseteq {x.op.e} /\ <<"active", n>> \notin h
      BY <1>1, <1>3, <2>1, <2>4, Zenon DEF ClaimsFree
    <3>2. ASSUME NEW e \in ActiveEndpoints(n)' PROVE e = x.op.e
      <4>1. e \in EndpointIds /\ ActiveFor(n, e)'
        BY <3>2, Zenon DEF ActiveEndpoints
      <4>2. ActiveFor(n, e)
        BY <3>1, <4>1, Zenon DEF Footprint
      <4> QED
        BY <3>1, <4>1, <4>2, Zenon DEF ActiveEndpoints
    <3> QED
      BY <3>2, Zenon
  <2> QED
    BY <2>1, <2>2, <2>3, <2>4, Zenon DEF ClaimsFree
<1>4. BoundCurrent(x)'
  <2> SUFFICES ASSUME x.op.name = "enable", NEW e \in EndpointIds, <<"bound", e>> \in DOMAIN x.seen
               PROVE  /\ x.op.n \in NodesAt(e)' /\ <<"node", x.op.n>> \in x.held
                      /\ x.seen[<<"bound", e>>] # None /\ x.seen[<<"bound", e>>].node_id = x.op.n
                           /\ x.seen[<<"bound", e>>].status = "active" => ActiveFor(x.op.n, e)'
    BY Zenon DEF BoundCurrent
  <2>1. /\ x.op.n \in NodesAt(e) /\ <<"node", x.op.n>> \in x.held /\ <<"node", x.op.n>> \notin h
        /\ x.seen[<<"bound", e>>] # None /\ x.seen[<<"bound", e>>].node_id = x.op.n
             /\ x.seen[<<"bound", e>>].status = "active" => ActiveFor(x.op.n, e)
    BY <1>1, Zenon DEF SessionInv, BoundCurrent
  <2>2. x.op.n \in NodeIds
    BY <2>1, Zenon DEF NodesAt
  <2>3. x.op.n \in NodesAt(e)'
    BY <2>1, <2>2, Zenon DEF NodesAt, Footprint
  <2> QED
    BY <2>1, <2>2, <2>3, Zenon DEF Footprint
<1>5. AbsentApart(x)'
  <2> SUFFICES ASSUME x.op.name \in {"revoked", "quarantined"}, NEW n \in NodeIds,
                      <<"node", n>> \in DOMAIN x.seen, x.seen[<<"node", n>>] = None
               PROVE  <<"trust", x.op.e>> \in x.held /\ n \notin NodesAt(x.op.e)'
    BY Zenon DEF AbsentApart
  <2>1. <<"trust", x.op.e>> \in x.held /\ n \notin NodesAt(x.op.e) /\ <<"trust", x.op.e>> \notin h
    BY <1>1, Zenon DEF SessionInv, AbsentApart
  <2>2. x.op.e \in EndpointIds
    BY Arguments, Zenon DEF SessionInv, NativeArguments
  <2> QED
    BY <2>1, <2>2, Zenon DEF Footprint
<1>6. RemovesFound(x)'
  BY Zenon DEF SessionInv, RemovesFound
<1> QED
  BY <1>2, <1>3, <1>4, <1>5, <1>6, Zenon DEF SessionInv

\* A commit within the locks of its session keeps the invariant of the sessions.
LEMMA CommitStep ==
  ASSUME SessionsInv, LocksApart, NEW s \in DbSessions, Commits(s), Footprint(dbSession[s].held)
  PROVE  SessionsInv' /\ LocksApart'
<1>1. dbSession'[s] = NoTx /\ \A o \in DbSessions \ {s} : dbSession'[o] = dbSession[o]
  BY Zenon DEF Commits, SessionsInv
<1>2. LocksApart'
  <2>1. NoTx.held = {}
    BY DEF NoTx
  <2> QED
    BY <1>1, <2>1, Zenon DEF LocksApart
<1>3. ASSUME NEW o \in DbSessions, dbSession'[o] # NoTx PROVE SessionInv(dbSession[o])'
  <2>1. PICK x : x = dbSession'[o]
    BY Zenon
  <2>2. SessionInv(x) /\ x.held \cap dbSession[s].held = {}
    BY <1>1, <1>3, <2>1, Zenon DEF SessionsInv, LocksApart
  <2>3. SessionInv(x)'
    BY <2>2, OthersKept, Zenon
  <2> QED
    BY <2>1, <2>3, Zenon
<1>4. dbSession' = [o \in DbSessions |-> dbSession'[o]]
  BY Zenon DEF SessionsInv, Commits
<1> QED
  BY <1>2, <1>3, <1>4, Zenon DEF SessionsInv

\* The clock changes nothing that a transaction relies on.
LEMMA LapseStep ==
  ASSUME TypeOK, SessionsInv, LocksApart, NEW t \in TokenIds, Lapse(t), UNCHANGED dbSession
  PROVE  SessionsInv' /\ LocksApart'
<1>1. tokens[t] \in EnrollmentTokenRecord
  BY Zenon DEF Lapse, TypeOK
<1>2. \A u \in TokenIds :
        /\ tokens[u] = None => tokens'[u] = None
        /\ tokens[u] # None => /\ tokens'[u] # None
                               /\ tokens'[u].status = tokens[u].status
                               /\ tokens'[u].max_uses = tokens[u].max_uses
                               /\ tokens'[u].used_count = tokens[u].used_count
  <2>1. tokens' = [tokens EXCEPT ![t] = [tokens[t] EXCEPT !.lapsed = TRUE]]
    BY Zenon DEF Lapse
  <2>2. [tokens[t] EXCEPT !.lapsed = TRUE] \in EnrollmentTokenRecord
    BY <1>1, Zenon DEF EnrollmentTokenRecord
  <2>3. /\ [tokens[t] EXCEPT !.lapsed = TRUE].status = tokens[t].status
        /\ [tokens[t] EXCEPT !.lapsed = TRUE].max_uses = tokens[t].max_uses
        /\ [tokens[t] EXCEPT !.lapsed = TRUE].used_count = tokens[t].used_count
    BY <1>1, Zenon DEF EnrollmentTokenRecord
  <2> QED
    BY <1>1, <2>1, <2>2, <2>3, ConstantsAssumption, Zenon DEF TypeOK
<1>3. nodes' = nodes /\ trust' = trust /\ joins' = joins
  BY Zenon DEF Lapse
<1>4. ASSUME NEW x, SessionInv(x) PROVE SessionInv(x)'
  <2>1. ReadsCurrent(x)'
    <3>1. ReadsCurrent(x)
      BY <1>4, Zenon DEF SessionInv
    <3>2. ASSUME NEW u \in TokenIds, Holds(x, <<"token", u>>)
          PROVE  /\ <<"token", u>> \in x.held /\ tokens'[u] # None
                 /\ x.seen[<<"token", u>>].status = tokens'[u].status
                 /\ x.seen[<<"token", u>>].max_uses = tokens'[u].max_uses
                 /\ x.seen[<<"token", u>>].used_count = tokens'[u].used_count
      <4>1. /\ <<"token", u>> \in x.held /\ tokens[u] # None
            /\ x.seen[<<"token", u>>].status = tokens[u].status
            /\ x.seen[<<"token", u>>].max_uses = tokens[u].max_uses
            /\ x.seen[<<"token", u>>].used_count = tokens[u].used_count
        BY <3>1, <3>2, Zenon DEF ReadsCurrent
      <4> QED
        BY <1>2, <4>1, Zenon
    <3> QED
      BY <1>3, <3>1, <3>2, Zenon DEF ReadsCurrent, Holds
  <2>2. ASSUME NEW keys, ClaimsFree(x, keys) PROVE ClaimsFree(x, keys)'
    <3>1. \A u \in TokenIds : <<"token", u>> \in keys => tokens'[u] = None
      BY <1>2, <2>2, Zenon DEF ClaimsFree
    <3>2. (\A e \in EndpointIds : NodesAt(e)' = NodesAt(e))
          /\ \A n \in NodeIds : ActiveEndpoints(n)' = ActiveEndpoints(n)
      BY <1>3, Zenon DEF NodesAt, ActiveEndpoints, ActiveFor
    <3> QED
      BY <1>3, <2>2, <3>1, <3>2, Zenon DEF ClaimsFree
  <2>3. BoundCurrent(x)' /\ AbsentApart(x)' /\ RemovesFound(x)'
    BY <1>3, <1>4, Zenon DEF SessionInv, BoundCurrent, AbsentApart, RemovesFound, NodesAt, ActiveFor
  <2> QED
    BY <1>4, <2>1, <2>2, <2>3, Zenon DEF SessionInv
<1>5. ASSUME NEW o \in DbSessions, dbSession'[o] # NoTx PROVE SessionInv(dbSession[o])'
  <2>1. PICK x : x = dbSession'[o]
    BY Zenon
  <2>2. SessionInv(x)
    BY <1>5, <2>1, Zenon DEF SessionsInv
  <2> QED
    BY <1>4, <2>1, <2>2, Zenon
<1> QED
  BY <1>5, Zenon DEF SessionsInv, LocksApart

\* No operation leaves a node at a missing or rotated endpoint.
LEMMA LatePointer ==
  TypeOK /\ PointersDistinct /\ PointerCurrent /\ [LateNext]_vars => PointerCurrent'
<1> SUFFICES ASSUME TypeOK, PointersDistinct, PointerCurrent, [LateNext]_vars PROVE PointerCurrent'
  BY Zenon
<1> USE ConstantsAssumption
<1>0. ASSUME NEW n \in NodeIds, nodes[n] # None
      PROVE  nodes[n] \in NodeRow /\ nodes[n].endpoint_id \in EndpointIds
  BY <1>0, Zenon DEF TypeOK, NodeRow
<1>1. ASSUME NEW n \in NodeIds, NEW e \in EndpointIds, NEW row \in EndpointTrustRecord,
             row.status = "active", nodes' = [nodes EXCEPT ![n] = [endpoint_id |-> e, enabled |-> TRUE]],
             trust' = [trust EXCEPT ![e] = row]
      PROVE  PointerCurrent'
  <2>1. row # None
    BY Zenon
  <2>2. ASSUME NEW m \in NodeIds, nodes'[m] # None
        PROVE  trust'[nodes'[m].endpoint_id] # None /\ trust'[nodes'[m].endpoint_id].status # "rotated"
    <3>1. CASE m = n
      BY <1>1, <2>1, <3>1 DEF TypeOK
    <3>2. CASE m # n
      <4>1. nodes'[m] = nodes[m] /\ nodes[m] # None
        BY <1>1, <2>2, <3>2, Zenon DEF TypeOK
      <4> QED
        BY <1>0, <1>1, <2>1, <4>1 DEF TypeOK, PointerCurrent
    <3> QED
      BY <3>1, <3>2, Zenon
  <2> QED
    BY <2>2, Zenon DEF PointerCurrent
<1>2. ASSUME NEW n \in NodeIds, NEW e \in EndpointIds, AddNode(n, e) PROVE PointerCurrent'
  <2>1. OriginalTrust(n, None).status = "active"
    BY Zenon DEF OriginalTrust
  <2> QED
    BY <1>1, <1>2, <2>1, OriginalTrustType, Zenon DEF AddNode
<1>3. ASSUME NEW r \in RequestIds, NEW n \in NodeIds, NEW e \in EndpointIds, LateApprove(r, n, e)
      PROVE  PointerCurrent'
  <2>1. OriginalTrust(n, r).status = "active"
    BY Zenon DEF OriginalTrust
  <2> QED
    BY <1>1, <1>3, <2>1, OriginalTrustType, Zenon DEF LateApprove
<1>4. ASSUME NEW r \in RequestIds, NEW n \in NodeIds, NEW e \in EndpointIds, LateClaim(r, n, e)
      PROVE  PointerCurrent'
  <2>1. trust[e] \in EndpointTrustRecord /\ trust[e].status = "active"
    <3>1. trust[e] = OriginalTrust(None, r)
      BY <1>4, Zenon DEF LateClaim, LegacyUnboundTrust
    <3>2. OriginalTrust(None, r) \in EndpointTrustRecord
      BY OriginalTrustType, Zenon
    <3>3. OriginalTrust(None, r).status = "active"
      BY Zenon DEF OriginalTrust
    <3> QED
      BY <3>1, <3>2, <3>3
  <2>2. [trust[e] EXCEPT !.node_id = n] \in EndpointTrustRecord
        /\ [trust[e] EXCEPT !.node_id = n].status = "active"
    BY <2>1, Zenon DEF EndpointTrustRecord
  <2>3. trust' = [trust EXCEPT ![e] = [trust[e] EXCEPT !.node_id = n]]
    BY <1>4, Zenon DEF LateClaim
  <2> QED
    BY <1>1, <1>4, <2>2, <2>3, Zenon DEF LateClaim
<1>5. ASSUME UNCHANGED trust,
             \A m \in NodeIds : nodes'[m] # None => nodes[m] # None /\ nodes'[m].endpoint_id = nodes[m].endpoint_id
      PROVE  PointerCurrent'
  BY <1>5, Zenon DEF PointerCurrent
<1>6. ASSUME NEW n \in NodeIds, NEW b \in BOOLEAN, SetNodeEnabled(n, b) PROVE PointerCurrent'
  <2>1. \A m \in NodeIds : nodes'[m] # None => nodes[m] # None /\ nodes'[m].endpoint_id = nodes[m].endpoint_id
    BY <1>6, <1>0 DEF SetNodeEnabled, TypeOK, NodeRow
  <2> QED
    BY <1>5, <1>6, <2>1, Zenon DEF SetNodeEnabled
<1>7. ASSUME NEW n \in NodeIds, RemoveNode(n) PROVE PointerCurrent'
  <2>1. \A x \in RemovalCandidates(n) : x \in EndpointIds /\ trust[x] # None
    BY <1>7 DEF RemoveNode, RemovalCandidates, ActiveEndpoints, ActiveFor, TypeOK, NodeRow
  <2>2. ASSUME NEW x \in RemovalCandidates(n)
        PROVE  Transitioned(x, "revoked") # None /\ Transitioned(x, "revoked").status = "revoked"
    <3>1. "revoked" \in EndpointStatus /\ HasNextGeneration(x)
      BY <1>7, <2>2, Zenon DEF RemoveNode, CanTransition, EndpointStatus
    <3>2. Transitioned(x, "revoked") \in EndpointTrustRecord
      BY <2>1, <2>2, <3>1, TransitionedType, Zenon
    <3>3. x \in EndpointIds /\ trust[x] # None
      BY <2>1, <2>2, Zenon
    <3>4. Transitioned(x, "revoked").status = "revoked"
      BY <3>3, TransitionedFields, Zenon
    <3> QED
      BY <3>2, <3>4
  <2>3. ASSUME NEW x \in EndpointIds, trust[x] # None, trust[x].status # "rotated"
        PROVE  trust'[x] # None /\ trust'[x].status # "rotated"
    <3>1. CASE x \in RemovalCandidates(n)
      <4>1. trust'[x] = Transitioned(x, "revoked")
        BY <1>7, <2>3, <3>1, Zenon DEF RemoveNode
      <4> QED
        BY <2>2, <3>1, <4>1
    <3>2. CASE x \notin RemovalCandidates(n)
      BY <1>7, <2>3, <3>2, Zenon DEF RemoveNode
    <3> QED
      BY <3>1, <3>2, Zenon
  <2>4. \A m \in NodeIds : nodes'[m] # None => nodes[m] # None /\ nodes'[m] = nodes[m]
    BY <1>7, Zenon DEF RemoveNode, TypeOK
  <2> QED
    BY <1>0, <2>3, <2>4, Zenon DEF PointerCurrent
<1>8. ASSUME NEW old \in EndpointIds, NEW new \in EndpointIds, RotateEndpoint(old, new)
      PROVE  PointerCurrent'
  <2>1. PICK n : n = trust[old].node_id
    BY Zenon
  <2>2. /\ n \in NodeIds /\ nodes[n] # None /\ nodes[n].endpoint_id = old
        /\ \A m \in NodeIds : m # n => nodes'[m] = nodes[m]
        /\ nodes'[n].endpoint_id = new
    BY <1>8, <2>1 DEF RotateEndpoint, RotationBinding, TypeOK, EndpointTrustRecord
  <2>3. trust'[new] = Successor(old) /\ \A x \in EndpointIds : x \notin {old, new} => trust'[x] = trust[x]
    BY <1>8, Zenon DEF RotateEndpoint, TypeOK
  <2>4. Successor(old) # None /\ Successor(old).status = "active"
    BY <1>8, SuccessorType, Zenon DEF RotateEndpoint, Successor
  <2>5. ASSUME NEW m \in NodeIds, nodes'[m] # None
        PROVE  trust'[nodes'[m].endpoint_id] # None /\ trust'[nodes'[m].endpoint_id].status # "rotated"
    <3>1. CASE m = n
      <4>1. "active" # "rotated"
        OBVIOUS
      <4> QED
        BY <2>2, <2>3, <2>4, <3>1, <4>1, Zenon
    <3>2. CASE m # n
      <4>1. nodes'[m] = nodes[m] /\ nodes[m] # None /\ nodes[m].endpoint_id \in EndpointIds
        BY <1>0, <2>2, <2>5, <3>2, Zenon
      <4>2. nodes[m].endpoint_id # old
        BY <2>2, <3>2, <4>1, Zenon DEF PointersDistinct
      <4>3. nodes[m].endpoint_id # new
        BY <1>8, <4>1, Zenon DEF RotateEndpoint, NodesAt
      <4> QED
        BY <2>3, <4>1, <4>2, <4>3, Zenon DEF PointerCurrent
    <3> QED
      BY <3>1, <3>2, Zenon
  <2> QED
    BY <2>5, Zenon DEF PointerCurrent
<1>9. ASSUME NEW old \in EndpointIds, NEW new \in EndpointIds, ReconcileRotation(old, new)
      PROVE  PointerCurrent'
  <2>1. PICK n : n = trust[old].node_id
    BY Zenon
  <2>2. /\ n # None /\ nodes[n] # None /\ nodes' = [nodes EXCEPT ![n] = ReconciledNode(n, new)]
        /\ trust[new] # None /\ trust[new].status # "rotated" /\ trust' = trust
        /\ trust[old] # None
    BY <1>9, <2>1, Zenon DEF ReconcileRotation, DeterministicChild
  <2>3. n \in NodeIds
    BY <2>1, <2>2, Zenon DEF TypeOK, EndpointTrustRecord
  <2>4. ReconciledNode(n, new).endpoint_id = new
    BY Zenon DEF ReconciledNode
  <2>5. nodes'[n] = ReconciledNode(n, new) /\ \A m \in NodeIds : m # n => nodes'[m] = nodes[m]
    BY <2>2, <2>3, Zenon DEF TypeOK
  <2> QED
    BY <2>2, <2>4, <2>5, Zenon DEF PointerCurrent
<1>10. ASSUME NEW e \in EndpointIds, NEW s \in {"revoked", "quarantined"},
              UpdateEndpointStatus(e, s) PROVE PointerCurrent'
  <2>1. \A m \in NodeIds : nodes'[m] # None => nodes[m] # None /\ nodes'[m].endpoint_id = nodes[m].endpoint_id
    BY <1>10, <1>0 DEF UpdateEndpointStatus, NodeRow
  <2>2. Transitioned(e, s) # None /\ Transitioned(e, s).status = s /\ s # "rotated"
    <3>1. s \in EndpointStatus /\ s # "rotated"
      BY DEF EndpointStatus
    <3> QED
      BY <1>10, <3>1, TransitionedType, TransitionedFields, Zenon DEF UpdateEndpointStatus, CanTransition
  <2>3. \A x \in EndpointIds : trust[x] # None /\ trust[x].status # "rotated" =>
                              trust'[x] # None /\ trust'[x].status # "rotated"
    BY <1>10, <2>2, Zenon DEF UpdateEndpointStatus, TypeOK
  <2> QED
    BY <1>0, <2>1, <2>3, Zenon DEF PointerCurrent
<1>11. CASE UNCHANGED <<nodes, trust>>
  BY <1>11, Zenon DEF PointerCurrent
<1> QED
  BY <1>2, <1>3, <1>4, <1>6, <1>7, <1>8, <1>9, <1>10, <1>11, Zenon
  DEF LateNext, vars, CreateToken, Lapse, RevokeToken, LateSubmit, LateExpiry, RejectJoin


\* A session about to commit has executed its whole script.
LEMMA Done ==
  ASSUME NEW x, SessionInv(x), NEW i \in Nat, i >= 1, i < x.at
  PROVE  /\ Script(x)[i].does = "select" => Script(x)[i].keys \subseteq DOMAIN x.seen
         /\ Script(x)[i].does = "insert" => ClaimsFree(x, Script(x)[i].keys)
<1>1. Script(x)[i] \in Executed(x)
  BY DEF Executed, SessionInv
<1> QED
  BY <1>1, Zenon DEF SessionInv

\* It has read the row each SELECT of the script asks for.
LEMMA DoneAsk ==
  ASSUME NEW x, SessionInv(x), NEW i \in Nat, i >= 1, i < x.at, NEW k, Script(x)[i] = Ask(k),
         k[2] # None
  PROVE  k \in DOMAIN x.seen
<1>1. Ask(k).does = "select" /\ Ask(k).keys = {k}
  BY DEF Ask
<1> QED
  BY <1>1, Done

\* The keys each INSERT of the script took are still free.
LEMMA DonePut ==
  ASSUME NEW x, SessionInv(x), NEW i \in Nat, i >= 1, i < x.at, NEW keys, Script(x)[i] = Put(keys)
  PROVE  ClaimsFree(x, keys)
<1>1. Put(keys).does = "insert" /\ Put(keys).keys = keys
  BY DEF Put
<1> QED
  BY <1>1, Done


\* The session behind a commit.
LEMMA ReadySession ==
  ASSUME SessionsInv, NEW s \in DbSessions, NEW name, Ready(s, name), NEW x, x = dbSession[s]
  PROVE  /\ SessionInv(x) /\ NativeArguments(x.op) /\ x.op.name = name
         /\ x.at \in Nat /\ x.at > Len(Script(x))
<1>1. SessionInv(x) /\ x.op.name = name /\ x.at > Len(Script(x))
  BY Zenon DEF Ready, SessionsInv
<1> QED
  BY <1>1, Arguments, Zenon DEF SessionInv

\* The rows of a first binding stay within the keys its inserts took.
LEMMA BindingFootprint ==
  ASSUME TypeOK, NEW h, NEW n \in NodeIds, NEW e \in EndpointIds,
         <<"node", n>> \in h, <<"node_at", e>> \in h, <<"trust", e>> \in h, <<"active", n>> \in h,
         nodes' = [nodes EXCEPT ![n] = [endpoint_id |-> e, enabled |-> TRUE]],
         NEW row, row.node_id = n, trust' = [trust EXCEPT ![e] = row],
         trust[e] = None \/ trust[e].node_id = None,
         \A r \in RequestIds : <<"join", r>> \notin h => joins'[r] = joins[r],
         tokens' = tokens
  PROVE  Footprint(h)
<1>1. nodes'[n] = [endpoint_id |-> e, enabled |-> TRUE] /\ \A m \in NodeIds : m # n => nodes'[m] = nodes[m]
  BY Zenon DEF TypeOK
<1>2. trust'[e] = row /\ \A f \in EndpointIds : f # e => trust'[f] = trust[f]
  BY Zenon DEF TypeOK
<1>3. nodes'[n].endpoint_id = e
  BY <1>1
<1>4. ASSUME NEW m \in NodeIds, NEW f \in EndpointIds, m \in NodesAt(f)', m \notin NodesAt(f)
      PROVE  <<"node_at", f>> \in h /\ <<"trust", f>> \in h
  <2>1. m = n
    BY <1>1, <1>4, Zenon DEF NodesAt
  <2>2. f = e
    BY <1>3, <1>4, <2>1, Zenon DEF NodesAt
  <2> QED
    BY <2>2, Zenon
<1>5. ASSUME NEW m \in NodeIds, NEW f \in EndpointIds, ActiveFor(m, f)', ~ActiveFor(m, f)
      PROVE  <<"active", m>> \in h
  <2>1. f = e
    BY <1>2, <1>5, Zenon DEF ActiveFor
  <2>2. m = n
    BY <1>2, <1>5, <2>1, Zenon DEF ActiveFor
  <2> QED
    BY <2>2, Zenon
<1>6. ASSUME NEW m \in NodeIds, NEW f \in EndpointIds, ActiveFor(m, f), ~ActiveFor(m, f)'
      PROVE  FALSE
  <2>1. f = e
    BY <1>2, <1>6, Zenon DEF ActiveFor
  <2>2. m # None
    BY ConstantsAssumption
  <2> QED
    BY <1>6, <2>1, <2>2, Zenon DEF ActiveFor
<1> QED
  BY <1>1, <1>2, <1>4, <1>5, <1>6, Zenon DEF Footprint

\* add_node commits the step of the one-transaction add_node.
LEMMA AddCommits ==
  ASSUME NativeInv, NEW s \in DbSessions, NativeAdd(s)
  PROVE  Footprint(dbSession[s].held) /\ LateNext
<1>1. TypeOK /\ SessionsInv /\ Ready(s, "add")
  BY Zenon DEF NativeInv, NativeAdd
<1>2. PICK x : x = dbSession[s]
  BY Zenon
<1>3. SessionInv(x) /\ NativeArguments(x.op) /\ x.op.name = "add" /\ x.at \in Nat /\ x.at > Len(Script(x))
  BY <1>1, <1>2, ReadySession, Zenon
<1>4. PICK n \in NodeIds, e \in EndpointIds : n = x.op.n /\ e = x.op.e
  BY <1>3, Zenon DEF NativeArguments
<1>5. Script(x) = <<Put({<<"node", n>>, <<"node_at", e>>}), Put({<<"trust", e>>, <<"active", n>>})>>
  BY <1>3, <1>4, ScriptIs, Zenon
<1>6. /\ 1 < x.at /\ Script(x)[1] = Put({<<"node", n>>, <<"node_at", e>>})
      /\ 2 < x.at /\ Script(x)[2] = Put({<<"trust", e>>, <<"active", n>>})
  BY <1>3, <1>5
<1>7. ClaimsFree(x, {<<"node", n>>, <<"node_at", e>>}) /\ ClaimsFree(x, {<<"trust", e>>, <<"active", n>>})
  BY <1>3, <1>6, DonePut
<1>8. nodes[n] = None /\ NodesAt(e) = {} /\ trust[e] = None
  BY <1>7, Zenon DEF ClaimsFree
<1>9. /\ nodes' = [nodes EXCEPT ![n] = [endpoint_id |-> e, enabled |-> TRUE]]
      /\ trust' = [trust EXCEPT ![e] = OriginalTrust(n, None)]
      /\ UNCHANGED <<tokens, joins, audit>>
  BY <1>2, <1>4, Zenon DEF NativeAdd
<1>10. AddNode(n, e)
  BY <1>8, <1>9, Zenon DEF AddNode
<1>11. Footprint(x.held)
  <2>1. OriginalTrust(n, None).node_id = n
    BY Zenon DEF OriginalTrust
  <2>2. {<<"node", n>>, <<"node_at", e>>} \subseteq x.held /\ {<<"trust", e>>, <<"active", n>>} \subseteq x.held
    BY <1>7, Zenon DEF ClaimsFree
  <2> QED
    BY <1>1, <1>8, <1>9, <2>1, <2>2, BindingFootprint, Zenon
<1> QED
  BY <1>2, <1>10, <1>11, Zenon DEF LateNext

\* approve_join_request commits an approval.
LEMMA ApproveCommits ==
  ASSUME NativeInv, NEW s \in DbSessions, NativeApprove(s)
  PROVE  Footprint(dbSession[s].held) /\ LateNext
<1>1. TypeOK /\ SessionsInv /\ FingerprintOrigin /\ Ready(s, "approve")
  BY Zenon DEF NativeInv, NativeRegistrySound, NativeApprove
<1>2. PICK x : x = dbSession[s]
  BY Zenon
<1>3. SessionInv(x) /\ NativeArguments(x.op) /\ x.op.name = "approve" /\ x.at \in Nat /\ x.at > Len(Script(x))
  BY <1>1, <1>2, ReadySession, Zenon
<1>4. PICK r \in RequestIds, n \in NodeIds, e \in EndpointIds : r = x.op.r /\ n = x.op.n /\ e = x.op.e
  BY <1>3, Zenon DEF NativeArguments
<1>5. Script(x) =
        <<Ask(<<"join", r>>), Ask(<<"node", n>>), Ask(<<"node_at", e>>),
          Ask(<<"trust", e>>), Ask(<<"history", n>>),
          Put({<<"node", n>>, <<"node_at", e>>}),
          Put({<<"trust", e>>, <<"active", n>>}), Ask(<<"assigned", e>>)>>
  BY <1>3, <1>4, ScriptIs, Zenon
<1>6. /\ 1 < x.at /\ Script(x)[1] = Ask(<<"join", r>>)
      /\ 6 < x.at /\ Script(x)[6] = Put({<<"node", n>>, <<"node_at", e>>})
      /\ 7 < x.at /\ Script(x)[7] = Put({<<"trust", e>>, <<"active", n>>})
  BY <1>3, <1>5
<1>7. ClaimsFree(x, {<<"node", n>>, <<"node_at", e>>}) /\ ClaimsFree(x, {<<"trust", e>>, <<"active", n>>})
  BY <1>3, <1>6, DonePut
<1>8. nodes[n] = None /\ NodesAt(e) = {} /\ trust[e] = None
  BY <1>7, Zenon DEF ClaimsFree
<1>9. /\ x.seen[<<"join", r>>] # None /\ x.seen[<<"join", r>>].status = "pending"
      /\ x.seen[<<"join", r>>].requested_endpoint_id \in {None, e}
      /\ nodes' = [nodes EXCEPT ![n] = [endpoint_id |-> e, enabled |-> TRUE]]
      /\ trust' = [trust EXCEPT ![e] = OriginalTrust(n, r)]
      /\ joins' = [joins EXCEPT ![r] =
             [x.seen[<<"join", r>>] EXCEPT !.status = "approved", !.assigned_endpoint_id = e]]
      /\ audit' = [audit EXCEPT ![r] =
             Append(@, [event |-> "enrollment.approve", endpoint_id |-> e, node_id |-> n])]
      /\ UNCHANGED tokens
  BY <1>2, <1>4, Zenon DEF NativeApprove, Seen
<1>10. <<"join", r>> \in x.held /\ x.seen[<<"join", r>>] = joins[r]
  <2>1. <<"join", r>>[2] # None
    BY ConstantsAssumption
  <2>2. <<"join", r>> \in DOMAIN x.seen
    BY <1>3, <1>6, <2>1, DoneAsk
  <2> QED
    BY <1>3, <1>9, <2>2, Zenon DEF SessionInv, ReadsCurrent, Holds
<1>11. OtherAssignments(r, e) = {}
  BY <1>1, <1>8, Zenon DEF FingerprintOrigin, OtherAssignments
<1>12. joins' = [joins EXCEPT ![r].status = "approved", ![r].assigned_endpoint_id = e]
  BY <1>1, <1>9, <1>10, Zenon DEF TypeOK
<1>13. LateApprove(r, n, e)
  BY <1>8, <1>9, <1>10, <1>11, <1>12, Zenon DEF LateApprove
<1>14. Footprint(x.held)
  <2>1. OriginalTrust(n, r).node_id = n
    BY Zenon DEF OriginalTrust
  <2>2. {<<"node", n>>, <<"node_at", e>>} \subseteq x.held /\ {<<"trust", e>>, <<"active", n>>} \subseteq x.held
    BY <1>7, Zenon DEF ClaimsFree
  <2>3. \A q \in RequestIds : <<"join", q>> \notin x.held => joins'[q] = joins[q]
    BY <1>1, <1>9, <1>10, Zenon DEF TypeOK
  <2> QED
    BY <1>1, <1>8, <1>9, <2>1, <2>2, <2>3, BindingFootprint, Zenon
<1> QED
  BY <1>2, <1>13, <1>14, Zenon DEF LateNext

\* claim_legacy_enrollment commits a claim.
LEMMA ClaimCommits ==
  ASSUME NativeInv, NEW s \in DbSessions, NativeClaim(s)
  PROVE  Footprint(dbSession[s].held) /\ LateNext
<1>1. TypeOK /\ SessionsInv /\ FingerprintOrigin /\ Ready(s, "claim")
  BY Zenon DEF NativeInv, NativeRegistrySound, NativeClaim
<1>2. PICK x : x = dbSession[s]
  BY Zenon
<1>3. SessionInv(x) /\ NativeArguments(x.op) /\ x.op.name = "claim" /\ x.at \in Nat /\ x.at > Len(Script(x))
  BY <1>1, <1>2, ReadySession, Zenon
<1>4. PICK r \in RequestIds, n \in NodeIds, e \in EndpointIds : r = x.op.r /\ n = x.op.n /\ e = x.op.e
  BY <1>3, Zenon DEF NativeArguments
<1>5. Script(x) =
        <<Ask(<<"join", r>>), Ask(<<"assigned", e>>), Ask(<<"trust", e>>),
          Ask(<<"node", n>>), Ask(<<"node_at", e>>), Ask(<<"history", n>>),
          Put({<<"node", n>>, <<"node_at", e>>}), Put({<<"active", n>>})>>
  BY <1>3, <1>4, ScriptIs, Zenon
<1>6. /\ 1 < x.at /\ Script(x)[1] = Ask(<<"join", r>>)
      /\ 3 < x.at /\ Script(x)[3] = Ask(<<"trust", e>>)
      /\ 7 < x.at /\ Script(x)[7] = Put({<<"node", n>>, <<"node_at", e>>})
      /\ 8 < x.at /\ Script(x)[8] = Put({<<"active", n>>})
  BY <1>3, <1>5
<1>7. ClaimsFree(x, {<<"node", n>>, <<"node_at", e>>}) /\ ClaimsFree(x, {<<"active", n>>})
  BY <1>3, <1>6, DonePut
<1>8. nodes[n] = None /\ NodesAt(e) = {}
  BY <1>7, Zenon DEF ClaimsFree
<1>9. /\ x.seen[<<"join", r>>] # None /\ x.seen[<<"join", r>>].status = "approved"
      /\ x.seen[<<"join", r>>].assigned_endpoint_id = e
      /\ x.seen[<<"join", r>>].requested_endpoint_id \in {None, e}
      /\ ApprovedUnbound(r, e)
      /\ x.seen[<<"trust", e>>] = OriginalTrust(None, r)
      /\ trust[e] = OriginalTrust(None, r)
      /\ nodes' = [nodes EXCEPT ![n] = [endpoint_id |-> e, enabled |-> TRUE]]
      /\ trust' = [trust EXCEPT ![e].node_id = n]
      /\ audit' = [audit EXCEPT ![r] =
             Append(@, [event |-> "enrollment.claim", endpoint_id |-> e, node_id |-> n])]
      /\ UNCHANGED <<tokens, joins>>
  BY <1>2, <1>4, Zenon DEF NativeClaim, ApprovedProvenance, EnrollmentOrigin, Seen
<1>10. OriginalTrust(None, r) \in EndpointTrustRecord /\ OriginalTrust(None, r) # None
  <2>1. OriginalTrust(None, r) \in EndpointTrustRecord
    BY OriginalTrustType, Zenon
  <2> QED
    BY <2>1, ConstantsAssumption, Zenon
<1>11. /\ x.seen[<<"join", r>>] = joins[r] /\ <<"trust", e>> \in x.held
  <2>1. <<"join", r>>[2] # None /\ <<"trust", e>>[2] # None
    BY ConstantsAssumption
  <2>2. <<"join", r>> \in DOMAIN x.seen /\ <<"trust", e>> \in DOMAIN x.seen
    BY <1>3, <1>6, <2>1, DoneAsk
  <2> QED
    BY <1>3, <1>9, <1>10, <2>2, Zenon DEF SessionInv, ReadsCurrent, Holds
<1>12. OtherAssignments(r, e) = {}
  <2>1. trust[e].fingerprint = r
    <3>1. OriginalTrust(None, r).fingerprint = r
      BY Zenon DEF OriginalTrust
    <3> QED
      BY <1>9, <3>1
  <2> QED
    BY <1>1, <2>1, Zenon DEF FingerprintOrigin, OtherAssignments
<1>13. LateClaim(r, n, e)
  BY <1>8, <1>9, <1>11, <1>12, Zenon DEF LateClaim, ApprovedJoinProvenance, LegacyUnboundTrust
<1>14. Footprint(x.held)
  <2>1. trust' = [trust EXCEPT ![e] = [trust[e] EXCEPT !.node_id = n]]
    BY <1>9, Zenon
  <2>2. trust[e].node_id = None /\ [trust[e] EXCEPT !.node_id = n].node_id = n
    <3>1. OriginalTrust(None, r).node_id = None /\ [OriginalTrust(None, r) EXCEPT !.node_id = n].node_id = n
      BY Zenon DEF OriginalTrust
    <3> QED
      BY <1>9, <3>1, Zenon
  <2>3. {<<"node", n>>, <<"node_at", e>>} \subseteq x.held /\ {<<"active", n>>} \subseteq x.held
    BY <1>7, Zenon DEF ClaimsFree
  <2>4. \A q \in RequestIds : <<"join", q>> \notin x.held => joins'[q] = joins[q]
    BY <1>9, Zenon
  <2>5. PICK row : row = [trust[e] EXCEPT !.node_id = n]
    BY Zenon
  <2>6. row.node_id = n /\ trust' = [trust EXCEPT ![e] = row]
    BY <2>1, <2>2, <2>5, Zenon
  <2>7. /\ <<"node", n>> \in x.held /\ <<"node_at", e>> \in x.held
        /\ <<"trust", e>> \in x.held /\ <<"active", n>> \in x.held
    BY <1>11, <2>3, Zenon
  <2>8. nodes' = [nodes EXCEPT ![n] = [endpoint_id |-> e, enabled |-> TRUE]] /\ tokens' = tokens
    BY <1>9, Zenon
  <2>9. trust[e] = None \/ trust[e].node_id = None
    BY <2>2, Zenon
  <2> QED
    BY <1>1, <2>4, <2>6, <2>7, <2>8, <2>9, BindingFootprint, Zenon
<1> QED
  BY <1>2, <1>13, <1>14, Zenon DEF LateNext


\* A row that is not rotated has a sound lineage: the checks of the store pass.
LEMMA CurrentLineage ==
  ASSUME TypeOK, LineageSound, NEW e \in EndpointIds, trust[e] # None, trust[e].status # "rotated"
  PROVE  UnrotatedLineage(e)
<1>1. trust[e].rotated_to = None
  BY Zenon DEF LineageSound
<1>2. ASSUME NEW p, p = trust[e].previous_endpoint_id, p # None
      PROVE  /\ p \in EndpointIds /\ trust[p] # None
             /\ trust[p].status = "rotated"
             /\ trust[p].rotated_to = e
             /\ trust[p].node_id = trust[e].node_id
             /\ trust[p].fingerprint = trust[e].fingerprint
             /\ trust[p].generation <= trust[e].generation
  <2>1. p \in EndpointIds
    BY <1>2, Zenon DEF TypeOK, EndpointTrustRecord
  <2>2. trust[p] # None /\ trust[p].rotated_to = e
    BY <1>2, <2>1, Zenon DEF LineageSound
  <2>3. e # None
    BY ConstantsAssumption
  <2> QED
    BY <1>2, <2>1, <2>2, <2>3, Zenon DEF LineageSound
<1> QED
  BY <1>1, <1>2, Zenon DEF UnrotatedLineage

\* The endpoint a node points at is the only one that can be Active for it.
LEMMA OnlyPointerActive ==
  ASSUME TypeOK, RegistryInv, PointerCurrent, NEW n \in NodeIds, nodes[n] # None
  PROVE  ActiveEndpoints(n) \subseteq {nodes[n].endpoint_id}
<1>1. ASSUME NEW e \in ActiveEndpoints(n) PROVE e = nodes[n].endpoint_id
  <2>1. e \in EndpointIds /\ ActiveFor(n, e)
    BY <1>1, Zenon DEF ActiveEndpoints
  <2>2. Reaches(n, e)
    BY <2>1, Zenon DEF RegistryInv, ActiveReachable
  <2> QED
    BY <2>2, Zenon DEF Reaches, PointerCurrent
<1> QED
  BY <1>1, Zenon

\* A commit that touches no binding.
LEMMA EnrollmentFootprint ==
  ASSUME NEW h, nodes' = nodes, trust' = trust,
         \A r \in RequestIds : <<"join", r>> \notin h => joins'[r] = joins[r],
         \A t \in TokenIds : <<"token", t>> \notin h => tokens'[t] = tokens[t]
  PROVE  Footprint(h)
BY Zenon DEF Footprint, NodesAt, ActiveFor

\* An operation whose later statements depend on the first has executed more
\* than one.
LEMMA PastFirst ==
  ASSUME NEW x, SessionInv(x), x.at \in Nat, x.at > Len(Script(x)),
         x.op.name \in {"enable", "remove", "revoked", "quarantined", "rotate"}
  PROVE  ~(x.at < 2)
<1> SUFFICES ASSUME x.at < 2 PROVE FALSE
  BY Zenon
<1>1. \E a : Script(x) = <<a>>
  <2>1. CASE x.op.name = "enable"
    BY <2>1, ScriptIs, Zenon
  <2>2. CASE x.op.name = "remove"
    BY <2>2, ScriptIs, Zenon
  <2>3. CASE x.op.name \in {"revoked", "quarantined"}
    BY <2>3, ScriptIs, Zenon
  <2>4. CASE x.op.name = "rotate"
    BY <2>4, ScriptIs, Zenon
  <2> QED
    BY <2>1, <2>2, <2>3, <2>4, Zenon
<1>2. Len(Script(x)) = 1
  BY <1>1
<1> QED
  BY <1>2

\* set_node_enabled, which reads the endpoint it enables the node on without
\* locking it, commits the enabling or disabling of the node.
LEMMA EnabledCommits ==
  ASSUME NativeInv, NEW s \in DbSessions, NEW b \in BOOLEAN, NativeSetEnabled(s, b)
  PROVE  Footprint(dbSession[s].held) /\ LateNext
<1>1. TypeOK /\ SessionsInv /\ RegistryInv /\ LineageSound /\ PointerCurrent
  BY Zenon DEF NativeInv, NativeRegistrySound
<1>2. PICK x : x = dbSession[s]
  BY Zenon
<1>3. /\ SessionInv(x) /\ NativeArguments(x.op) /\ x.at \in Nat /\ x.at > Len(Script(x))
      /\ x.op.name = IF b THEN "enable" ELSE "disable"
  BY <1>1, <1>2, ReadySession, Zenon DEF NativeSetEnabled
<1>4. PICK n \in NodeIds : n = x.op.n
  BY <1>3 DEF NativeArguments
<1>5. n # None
  BY ConstantsAssumption
<1>6. <<"node", n>> \in DOMAIN x.seen
  <2>1. CASE b
    <3>1. x.op.name = "enable"
      BY <1>3, <2>1, Zenon
    <3>2. x.at >= 2
      BY <1>3, <3>1, PastFirst
    <3> QED
      BY <1>3, <1>4, <3>1, <3>2, FirstSeen
  <2>2. CASE ~b
    <3>1. x.op.name = "disable"
      BY <1>3, <2>2, Zenon
    <3>2. Script(x) = <<Ask(<<"node", n>>)>>
      BY <1>4, <3>1, ScriptIs, Zenon
    <3>3. Script(x)[1] = Ask(<<"node", n>>) /\ 1 < x.at /\ <<"node", n>>[2] # None
      BY <1>3, <1>5, <3>2
    <3> QED
      BY <1>3, <3>3, DoneAsk
  <2> QED
    BY <2>1, <2>2, Zenon
<1>7. /\ x.seen[<<"node", n>>] # None
      /\ b => LET f == x.seen[<<"bound", x.seen[<<"node", n>>].endpoint_id>>]
              IN f # None /\ f.node_id = n /\ f.status = "active"
      /\ nodes' = [nodes EXCEPT ![n] = [x.seen[<<"node", n>>] EXCEPT !.enabled = b]]
      /\ UNCHANGED <<trust, tokens, joins, audit>>
  BY <1>2, <1>4, Zenon DEF NativeSetEnabled, Seen
<1>8. <<"node", n>> \in x.held /\ x.seen[<<"node", n>>] = nodes[n] /\ nodes[n] # None
  BY <1>3, <1>6, <1>7, Zenon DEF SessionInv, ReadsCurrent, Holds
<1>9. PICK e \in EndpointIds : e = nodes[n].endpoint_id
  BY <1>1, <1>8, Zenon DEF TypeOK, NodeRow
<1>10. ASSUME b PROVE ActiveNodeBinding(n)
  <2>1. x.op.name = "enable"
    BY <1>3, <1>10, Zenon
  <2>2. ~(x.at < 2)
    BY <1>3, <2>1, PastFirst, Zenon
  <2>3. PointerOf(x) = e
    BY <1>4, <1>8, <1>9, Zenon DEF PointerOf, Seen
  <2>4. Script(x) = <<Ask(<<"node", n>>), Ask(<<"bound", e>>)>>
    BY <1>4, <2>1, <2>2, <2>3, ScriptIs, Zenon
  <2>5. Script(x)[2] = Ask(<<"bound", e>>) /\ 2 < x.at /\ <<"bound", e>>[2] # None
    BY <1>3, <2>4, ConstantsAssumption
  <2>6. <<"bound", e>> \in DOMAIN x.seen
    BY <1>3, <2>5, DoneAsk
  <2>7. ActiveFor(n, e)
    BY <1>3, <1>4, <1>7, <1>8, <1>9, <1>10, <2>1, <2>6, Zenon DEF SessionInv, BoundCurrent
  <2>8. trust[e] # None /\ trust[e].status = "active" /\ trust[e].node_id = n
    BY <2>7, Zenon DEF ActiveFor
  <2>9. UnrotatedLineage(e)
    <3>1. trust[e].status # "rotated"
      BY <2>8
    <3> QED
      BY <1>1, <2>8, <3>1, CurrentLineage, Zenon
  <2>10. ActiveEndpoints(n) = {e}
    <3>1. ActiveEndpoints(n) \subseteq {e}
      BY <1>1, <1>8, <1>9, OnlyPointerActive, Zenon
    <3>2. e \in ActiveEndpoints(n)
      BY <2>7, Zenon DEF ActiveEndpoints
    <3> QED
      BY <3>1, <3>2, Zenon
  <2> QED
    BY <1>9, <2>8, <2>9, <2>10, Zenon DEF ActiveNodeBinding
<1>11. nodes' = [nodes EXCEPT ![n].enabled = b]
  BY <1>7, <1>8, Zenon
<1>12. SetNodeEnabled(n, b)
  BY <1>7, <1>8, <1>10, <1>11, Zenon DEF SetNodeEnabled
<1>13. Footprint(x.held)
  <2>1. \A m \in NodeIds : m # n => nodes'[m] = nodes[m]
    BY <1>1, <1>11, Zenon DEF TypeOK
  <2>2. nodes'[n].endpoint_id = nodes[n].endpoint_id
    BY <1>1, <1>8, <1>11 DEF TypeOK, NodeRow
  <2>3. \A m \in NodeIds, f \in EndpointIds : m \in NodesAt(f)' => m \in NodesAt(f)
    BY <1>8, <2>1, <2>2, Zenon DEF NodesAt
  <2>4. \A m \in NodeIds, f \in EndpointIds : ActiveFor(m, f)' <=> ActiveFor(m, f)
    BY <1>7, Zenon DEF ActiveFor
  <2> QED
    BY <1>7, <1>8, <2>1, <2>3, <2>4, Zenon DEF Footprint
<1> QED
  BY <1>2, <1>12, <1>13, Zenon DEF LateNext

\* remove_node commits a removal, though it looks only at the endpoint the node
\* points at.
LEMMA RemoveCommits ==
  ASSUME NativeInv, NEW s \in DbSessions, NativeRemove(s)
  PROVE  Footprint(dbSession[s].held) /\ LateNext
<1>1. TypeOK /\ SessionsInv /\ RegistryInv /\ LineageSound /\ PointerCurrent /\ Ready(s, "remove")
  BY Zenon DEF NativeInv, NativeRegistrySound, NativeRemove
<1>2. PICK x : x = dbSession[s]
  BY Zenon
<1>3. /\ SessionInv(x) /\ NativeArguments(x.op) /\ x.at \in Nat /\ x.at > Len(Script(x))
      /\ x.op.name = "remove"
  BY <1>1, <1>2, ReadySession, Zenon
<1>4. PICK n \in NodeIds : n = x.op.n
  BY <1>3, Zenon DEF NativeArguments
<1>5. ~(x.at < 2)
  BY <1>3, PastFirst, Zenon
<1>6. <<"node", n>> \in DOMAIN x.seen
  <2>1. x.at >= 2
    BY <1>3, <1>5
  <2> QED
    BY <1>3, <1>4, <2>1, FirstSeen, Zenon
<1>7. PICK row : row = x.seen[<<"node", n>>]
  BY Zenon
<1>8. row # None /\ nodes' = [nodes EXCEPT ![n] = None] /\ UNCHANGED <<tokens, joins, audit>>
  BY <1>2, <1>4, <1>7, Zenon DEF NativeRemove, Seen
<1>9. <<"node", n>> \in x.held /\ row = nodes[n] /\ nodes[n] # None
  BY <1>3, <1>6, <1>7, <1>8, Zenon DEF SessionInv, ReadsCurrent, Holds
<1>10. PICK e \in EndpointIds : e = nodes[n].endpoint_id
  BY <1>1, <1>9, Zenon DEF TypeOK, NodeRow
<1>11. <<"trust", e>> \in DOMAIN x.seen
  <2>1. PointerOf(x) = e
    BY <1>4, <1>7, <1>9, <1>10, Zenon DEF PointerOf, Seen
  <2>2. Script(x) = <<Ask(<<"node", n>>), Ask(<<"trust", e>>)>>
    BY <1>3, <1>4, <1>5, <2>1, ScriptIs, Zenon
  <2>3. Script(x)[2] = Ask(<<"trust", e>>) /\ 2 < x.at /\ <<"trust", e>>[2] # None
    BY <1>3, <2>2, ConstantsAssumption
  <2> QED
    BY <1>3, <2>3, DoneAsk
<1>12. <<"trust", e>> \in x.held /\ x.seen[<<"trust", e>>] = trust[e] /\ trust[e] # None
  BY <1>3, <1>11, Zenon DEF SessionInv, ReadsCurrent, Holds, RemovesFound
<1>13. IF trust[e].status = "active"
       THEN trust[e].generation < MaxGeneration /\ trust' = [trust EXCEPT ![e] = Transitioned(e, "revoked")]
       ELSE trust' = trust
  <2>1. PICK before : before = x.seen[<<"trust", e>>]
    BY Zenon
  <2>2. row.endpoint_id = e
    BY <1>9, <1>10, Zenon
  <2>3. IF before # None /\ before.status = "active"
        THEN /\ before.generation < MaxGeneration
             /\ trust' = [trust EXCEPT ![e] = NativeTransition(before, "revoked")]
        ELSE trust' = trust
    BY <1>2, <1>4, <1>7, <2>1, <2>2, Zenon DEF NativeRemove, Seen
  <2>4. before = trust[e] /\ before # None
    BY <1>12, <2>1, Zenon
  <2>5. NativeTransition(before, "revoked") = Transitioned(e, "revoked")
    BY <2>4, Zenon DEF NativeTransition, Transitioned
  <2> QED
    BY <2>3, <2>4, <2>5, Zenon
<1>14. /\ \A f \in RemovalCandidates(n) : f = e /\ trust[e].status = "active"
       /\ trust[e].status = "active" => e \in RemovalCandidates(n)
  <2>1. ActiveEndpoints(n) \subseteq {e}
    BY <1>1, <1>9, <1>10, OnlyPointerActive, Zenon
  <2> QED
    BY <1>10, <1>12, <2>1, Zenon DEF RemovalCandidates, ActiveEndpoints, ActiveFor
<1>15. NodesAt(e) \subseteq {n}
  BY <1>1, <1>9, <1>10, Zenon DEF NodesAt, RegistryInv, PointersDistinct
<1>16. ASSUME trust[e].status = "active" PROVE CanTransition(e)
  <2>1. trust[e].status # "rotated"
    BY <1>16
  <2>2. UnrotatedLineage(e)
    BY <1>1, <1>12, <2>1, CurrentLineage, Zenon
  <2> QED
    BY <1>13, <1>16, <2>2, Zenon DEF CanTransition, HasNextGeneration
<1>17. trust' = [f \in EndpointIds |->
                   IF f \in RemovalCandidates(n) THEN Transitioned(f, "revoked") ELSE trust[f]]
  <2>1. CASE trust[e].status = "active"
    <3>1. RemovalCandidates(n) = {e}
      BY <1>14, <2>1, Zenon
    <3> QED
      BY <1>1, <1>13, <2>1, <3>1, Zenon DEF TypeOK
  <2>2. CASE trust[e].status # "active"
    <3>1. RemovalCandidates(n) = {}
      BY <1>14, <2>2, Zenon
    <3> QED
      BY <1>1, <1>13, <2>2, <3>1, Zenon DEF TypeOK
  <2> QED
    BY <2>1, <2>2, Zenon
<1>18. RemoveNode(n)
  BY <1>8, <1>9, <1>14, <1>15, <1>16, <1>17, Zenon DEF RemoveNode
<1>19. Footprint(x.held)
  <2>1. nodes'[n] = None /\ \A m \in NodeIds : m # n => nodes'[m] = nodes[m]
    BY <1>1, <1>8, Zenon DEF TypeOK
  <2>2. \A f \in EndpointIds : f # e => trust'[f] = trust[f]
    BY <1>1, <1>13, Zenon DEF TypeOK
  <2>3. ASSUME NEW m \in NodeIds, ActiveFor(m, e)' PROVE ActiveFor(m, e)
    <3>1. CASE trust[e].status = "active"
      <4>1. trust'[e] = Transitioned(e, "revoked")
        BY <1>1, <1>13, <3>1, Zenon DEF TypeOK
      <4>2. Transitioned(e, "revoked").status = "revoked"
        BY <1>1, <1>12, TransitionedFields, Zenon
      <4> QED
        BY <2>3, <4>1, <4>2 DEF ActiveFor
    <3>2. CASE trust[e].status # "active"
      BY <1>13, <2>3, <3>2, Zenon DEF ActiveFor
    <3> QED
      BY <3>1, <3>2, Zenon
  <2>4. \A m \in NodeIds, f \in EndpointIds : m \in NodesAt(f)' => m \in NodesAt(f)
    BY <2>1, Zenon DEF NodesAt
  <2>5. \A m \in NodeIds, f \in EndpointIds : ActiveFor(m, f)' => ActiveFor(m, f)
    BY <2>2, <2>3, Zenon DEF ActiveFor
  <2>6. \A m \in NodeIds, f \in EndpointIds :
          m \in NodesAt(f) /\ ActiveFor(m, f) /\ ~ActiveFor(m, f)' => <<"node", m>> \in x.held
    BY <1>9, <1>15, <2>2, Zenon DEF ActiveFor
  <2> QED
    BY <1>8, <1>9, <1>12, <2>1, <2>2, <2>4, <2>5, <2>6, Zenon DEF Footprint
<1> QED
  BY <1>2, <1>18, <1>19, Zenon DEF LateNext


\* revoke_endpoint and quarantine_endpoint commit a status change that disables
\* the node at the endpoint, whether or not there was a node to lock.
LEMMA StatusCommits ==
  ASSUME NativeInv, NEW s \in DbSessions, NEW status \in {"revoked", "quarantined"},
         NativeUpdateStatus(s, status)
  PROVE  Footprint(dbSession[s].held) /\ LateNext
<1>1. TypeOK /\ SessionsInv /\ RegistryInv /\ LineageSound /\ Ready(s, status)
  BY Zenon DEF NativeInv, NativeRegistrySound, NativeUpdateStatus
<1>2. PICK x : x = dbSession[s]
  BY Zenon
<1>3. /\ SessionInv(x) /\ NativeArguments(x.op) /\ x.at \in Nat /\ x.at > Len(Script(x))
      /\ x.op.name = status /\ x.op.name \in {"revoked", "quarantined"}
  BY <1>1, <1>2, ReadySession, Zenon
<1>4. PICK e \in EndpointIds : e = x.op.e
  BY <1>3, Zenon DEF NativeArguments
<1>5. ~(x.at < 2)
  BY <1>3, PastFirst, Zenon
<1>6. <<"trust", e>> \in DOMAIN x.seen
  <2>1. x.at >= 2
    BY <1>3, <1>5
  <2> QED
    BY <1>3, <1>4, <2>1, FirstSeen, Zenon
<1>7. PICK before : before = x.seen[<<"trust", e>>]
  BY Zenon
<1>8. PICK n : n = before.node_id
  BY Zenon
<1>9. /\ before # None /\ AllowedStatusChange(before.status, status)
      /\ before.generation < MaxGeneration
      /\ trust' = [trust EXCEPT ![e] = NativeTransition(before, status)]
      /\ IF n # None /\ x.seen[<<"node", n>>] # None
         THEN /\ x.seen[<<"node", n>>].endpoint_id = e
              /\ nodes' = [nodes EXCEPT ![n] = [x.seen[<<"node", n>>] EXCEPT !.enabled = FALSE]]
         ELSE nodes' = nodes
      /\ UNCHANGED <<tokens, joins, audit>>
  BY <1>2, <1>4, <1>7, <1>8, Zenon DEF NativeUpdateStatus, Seen
<1>10. <<"trust", e>> \in x.held /\ before = trust[e] /\ trust[e] # None
  BY <1>3, <1>6, <1>7, <1>9, Zenon DEF SessionInv, ReadsCurrent, Holds
<1>11. n \in NodeIds \cup {None}
  BY <1>1, <1>8, <1>10, Zenon DEF TypeOK, EndpointTrustRecord
<1>12. n # None => <<"node", n>> \in DOMAIN x.seen
  <2> SUFFICES ASSUME n # None PROVE <<"node", n>> \in DOMAIN x.seen
    BY Zenon
  <2>1. NodeOf(x) = n
    BY <1>4, <1>7, <1>8, <1>9, Zenon DEF NodeOf, Seen
  <2>2. Script(x) = <<Ask(<<"trust", e>>), Ask(<<"node", n>>)>>
    BY <1>3, <1>4, <1>5, <2>1, ScriptIs, Zenon
  <2>3. Script(x)[2] = Ask(<<"node", n>>) /\ 2 < x.at /\ <<"node", n>>[2] # None
    BY <1>3, <2>2
  <2> QED
    BY <1>3, <2>3, DoneAsk
<1>13. CanTransition(e)
  <2>1. trust[e].status # "rotated"
    BY <1>9, <1>10 DEF AllowedStatusChange
  <2>2. UnrotatedLineage(e)
    BY <1>1, <1>10, <2>1, CurrentLineage, Zenon
  <2> QED
    BY <1>9, <1>10, <2>2, Zenon DEF CanTransition, HasNextGeneration
<1>14. trust' = [trust EXCEPT ![e] = Transitioned(e, status)]
  BY <1>9, <1>10, Zenon DEF NativeTransition, Transitioned
<1>15. trust'[e] = Transitioned(e, status) /\ \A f \in EndpointIds : f # e => trust'[f] = trust[f]
  BY <1>1, <1>14, Zenon DEF TypeOK
<1>16. Transitioned(e, status).status # "active"
  <2>1. Transitioned(e, status).status = status
    BY <1>1, <1>10, TransitionedFields, Zenon
  <2> QED
    BY <2>1
<1>17. CASE n # None /\ x.seen[<<"node", n>>] # None
  <2>1. n \in NodeIds
    BY <1>11, <1>17, Zenon
  <2>2. <<"node", n>> \in x.held /\ x.seen[<<"node", n>>] = nodes[n] /\ nodes[n] # None
    BY <1>3, <1>12, <1>17, <2>1, Zenon DEF SessionInv, ReadsCurrent, Holds
  <2>3. nodes[n].endpoint_id = e /\ nodes' = [nodes EXCEPT ![n] = [nodes[n] EXCEPT !.enabled = FALSE]]
    BY <1>9, <1>17, <2>2, Zenon
  <2>4. nodes' = [m \in NodeIds |->
                   IF m = trust[e].node_id /\ nodes[m] # None /\ nodes[m].endpoint_id = e
                   THEN [nodes[m] EXCEPT !.enabled = FALSE]
                   ELSE nodes[m]]
    BY <1>1, <1>8, <1>10, <2>1, <2>2, <2>3, Zenon DEF TypeOK
  <2>5. UpdateEndpointStatus(e, status)
    BY <1>9, <1>10, <1>13, <1>14, <2>4, Zenon DEF UpdateEndpointStatus
  <2>6. \A m \in NodeIds : m # n => nodes'[m] = nodes[m]
    BY <1>1, <2>3, Zenon DEF TypeOK
  <2>7. nodes'[n].endpoint_id = e
    BY <1>1, <2>1, <2>2, <2>3 DEF TypeOK, NodeRow
  <2>8. \A m \in NodeIds, f \in EndpointIds : m \in NodesAt(f)' => m \in NodesAt(f)
    BY <2>1, <2>2, <2>3, <2>6, <2>7, Zenon DEF NodesAt
  <2>9. \A m \in NodeIds, f \in EndpointIds : ActiveFor(m, f)' => ActiveFor(m, f)
    BY <1>15, <1>16, Zenon DEF ActiveFor
  <2>10. \A m \in NodeIds, f \in EndpointIds : ActiveFor(m, f) /\ ~ActiveFor(m, f)' => m = n
    BY <1>8, <1>10, <1>15, Zenon DEF ActiveFor
  <2>11. Footprint(x.held)
    BY <1>9, <1>10, <1>15, <2>2, <2>6, <2>8, <2>9, <2>10, Zenon DEF Footprint
  <2> QED
    BY <1>2, <2>5, <2>11, Zenon DEF LateNext
<1>18. CASE ~(n # None /\ x.seen[<<"node", n>>] # None)
  <2>1. nodes' = nodes
    BY <1>9, <1>18, Zenon
  <2>2. n \notin NodesAt(e)
    <3>1. CASE n = None
      <4>1. None \notin NodeIds
        BY ConstantsAssumption, Zenon
      <4> QED
        BY <3>1, <4>1, Zenon DEF NodesAt
    <3>2. CASE n # None
      BY <1>3, <1>4, <1>11, <1>12, <1>18, <3>2, Zenon DEF SessionInv, AbsentApart
    <3> QED
      BY <3>1, <3>2, Zenon
  <2>3. \A m \in NodeIds : ~(m = trust[e].node_id /\ nodes[m] # None /\ nodes[m].endpoint_id = e)
    BY <1>8, <1>10, <2>2, Zenon DEF NodesAt
  <2>4. nodes' = [m \in NodeIds |->
                   IF m = trust[e].node_id /\ nodes[m] # None /\ nodes[m].endpoint_id = e
                   THEN [nodes[m] EXCEPT !.enabled = FALSE]
                   ELSE nodes[m]]
    BY <1>1, <2>1, <2>3, Zenon DEF TypeOK
  <2>5. UpdateEndpointStatus(e, status)
    BY <1>9, <1>10, <1>13, <1>14, <2>4, Zenon DEF UpdateEndpointStatus
  <2>6. \A m \in NodeIds, f \in EndpointIds : m \in NodesAt(f)' => m \in NodesAt(f)
    BY <2>1, Zenon DEF NodesAt
  <2>7. \A m \in NodeIds, f \in EndpointIds : ActiveFor(m, f)' => ActiveFor(m, f)
    BY <1>15, <1>16, Zenon DEF ActiveFor
  <2>8. \A m \in NodeIds, f \in EndpointIds : ActiveFor(m, f) /\ ~ActiveFor(m, f)' => m = n /\ f = e
    BY <1>8, <1>10, <1>15, Zenon DEF ActiveFor
  <2>9. Footprint(x.held)
    BY <1>9, <1>10, <1>15, <2>1, <2>2, <2>6, <2>7, <2>8, Zenon DEF Footprint
  <2> QED
    BY <1>2, <2>5, <2>9, Zenon DEF LateNext
<1> QED
  BY <1>17, <1>18, Zenon

\* rotate_endpoint commits a rotation: the keys of the new row and of the
\* pointer are claimed before either is written.
LEMMA RotateCommits ==
  ASSUME NativeInv, NEW s \in DbSessions, NativeRotate(s)
  PROVE  Footprint(dbSession[s].held) /\ LateNext
<1>1. TypeOK /\ SessionsInv /\ RegistryInv /\ LineageSound /\ PointerCurrent /\ Ready(s, "rotate")
  BY Zenon DEF NativeInv, NativeRegistrySound, NativeRotate
<1>2. PICK x : x = dbSession[s]
  BY Zenon
<1>3. /\ SessionInv(x) /\ NativeArguments(x.op) /\ x.at \in Nat /\ x.at > Len(Script(x))
      /\ x.op.name = "rotate"
  BY <1>1, <1>2, ReadySession, Zenon
<1>4. PICK e \in EndpointIds, to \in EndpointIds : e = x.op.e /\ to = x.op.to /\ e # to
  BY <1>3, Zenon DEF NativeArguments
<1>5. ~(x.at < 2)
  BY <1>3, PastFirst, Zenon
<1>6. <<"trust", e>> \in DOMAIN x.seen
  <2>1. x.at >= 2
    BY <1>3, <1>5
  <2> QED
    BY <1>3, <1>4, <2>1, FirstSeen, Zenon
<1>7. PICK old : old = x.seen[<<"trust", e>>]
  BY Zenon
<1>8. PICK n : n = old.node_id
  BY Zenon
<1>9. PICK row : row = x.seen[<<"node", n>>]
  BY Zenon
<1>10. /\ old # None /\ old.status \in {"active", "quarantined"}
       /\ n # None /\ row # None /\ row.endpoint_id = e
       /\ old.generation < MaxGeneration
       /\ trust' = [trust EXCEPT
             ![e] = [NativeTransition(old, "rotated") EXCEPT !.rotated_to = to],
             ![to] = [old EXCEPT !.status = "active", !.generation = @ + 1, !.previous_endpoint_id = e]]
       /\ nodes' = [nodes EXCEPT ![n] =
             [endpoint_id |-> to, enabled |-> row.enabled /\ old.status # "quarantined"]]
       /\ UNCHANGED <<tokens, joins, audit>>
  BY <1>2, <1>4, <1>7, <1>8, <1>9, Zenon DEF NativeRotate, Seen
<1>11. <<"trust", e>> \in x.held /\ old = trust[e] /\ trust[e] # None
  BY <1>3, <1>6, <1>7, <1>10, Zenon DEF SessionInv, ReadsCurrent, Holds
<1>12. n \in NodeIds
  BY <1>1, <1>8, <1>10, <1>11, Zenon DEF TypeOK, EndpointTrustRecord
<1>13. NodeOf(x) = n
  BY <1>4, <1>7, <1>8, <1>10, Zenon DEF NodeOf, Seen
<1>14. Script(x) = <<Ask(<<"trust", e>>), Ask(<<"trust", to>>),
                     Ask(<<"trust", PreviousOf(x)>>), Ask(<<"node", n>>), Ask(<<"active", n>>),
                     Put({<<"trust", to>>, <<"active", n>>}), Put({<<"node_at", to>>})>>
  BY <1>3, <1>4, <1>5, <1>13, ScriptIs, Zenon
<1>15. /\ 4 < x.at /\ Script(x)[4] = Ask(<<"node", n>>) /\ <<"node", n>>[2] # None
       /\ 6 < x.at /\ Script(x)[6] = Put({<<"trust", to>>, <<"active", n>>})
       /\ 7 < x.at /\ Script(x)[7] = Put({<<"node_at", to>>})
  BY <1>3, <1>10, <1>14
<1>16. ClaimsFree(x, {<<"trust", to>>, <<"active", n>>}) /\ ClaimsFree(x, {<<"node_at", to>>})
  BY <1>3, <1>15, DonePut
<1>17. trust[to] = None /\ NodesAt(to) = {}
  BY <1>16, Zenon DEF ClaimsFree
<1>18. <<"trust", to>> \in x.held /\ <<"active", n>> \in x.held /\ <<"node_at", to>> \in x.held
  <2>1. {<<"trust", to>>, <<"active", n>>} \subseteq x.held /\ {<<"node_at", to>>} \subseteq x.held
    BY <1>16, Zenon DEF ClaimsFree
  <2> QED
    BY <2>1, Zenon
<1>19. <<"node", n>> \in x.held /\ row = nodes[n] /\ nodes[n] # None
  <2>1. <<"node", n>> \in DOMAIN x.seen
    BY <1>3, <1>15, DoneAsk
  <2> QED
    BY <1>3, <1>9, <1>10, <1>12, <2>1, Zenon DEF SessionInv, ReadsCurrent, Holds
<1>20. UnrotatedLineage(e)
  <2>1. trust[e].status # "rotated"
    BY <1>10, <1>11
  <2> QED
    BY <1>1, <1>11, <2>1, CurrentLineage, Zenon
<1>21. ActiveEndpoints(n) = IF trust[e].status = "active" THEN {e} ELSE {}
  <2>1. ActiveEndpoints(n) \subseteq {e}
    BY <1>1, <1>10, <1>12, <1>19, OnlyPointerActive, Zenon
  <2>2. e \in ActiveEndpoints(n) <=> trust[e].status = "active"
    BY <1>8, <1>11, Zenon DEF ActiveEndpoints, ActiveFor
  <2> QED
    BY <2>1, <2>2, Zenon
<1>22. [NativeTransition(old, "rotated") EXCEPT !.rotated_to = to]
         = [Transitioned(e, "rotated") EXCEPT !.rotated_to = to]
  BY <1>11, Zenon DEF NativeTransition, Transitioned
<1>23. [old EXCEPT !.status = "active", !.generation = @ + 1, !.previous_endpoint_id = e] = Successor(e)
  <2>1. old \in EndpointTrustRecord
    BY <1>1, <1>11, Zenon DEF TypeOK
  <2>2. old.rotated_to = None
    BY <1>11, <1>20, Zenon DEF UnrotatedLineage
  <2>3. PICK m, fp, st, g, p : old = [node_id |-> m, fingerprint |-> fp, status |-> st, generation |-> g,
                                      previous_endpoint_id |-> p, rotated_to |-> None]
    <3>1. old = [node_id |-> old.node_id, fingerprint |-> old.fingerprint, status |-> old.status,
                 generation |-> old.generation, previous_endpoint_id |-> old.previous_endpoint_id,
                 rotated_to |-> old.rotated_to]
      BY <2>1 DEF EndpointTrustRecord
    <3> QED
      BY <2>2, <3>1, Zenon
  <2>4. old.node_id = m /\ old.fingerprint = fp /\ old.generation = g
    BY <2>3
  <2>5. Successor(e) = [node_id |-> m, fingerprint |-> fp, status |-> "active", generation |-> g + 1,
                        previous_endpoint_id |-> e, rotated_to |-> None]
    BY <1>11, <2>4, Zenon DEF Successor
  <2>6. PICK a : a = [old EXCEPT !.status = "active"]
    BY Zenon
  <2>7. PICK b : b = [a EXCEPT !.generation = @ + 1]
    BY Zenon
  <2>8. a = [node_id |-> m, fingerprint |-> fp, status |-> "active", generation |-> g,
             previous_endpoint_id |-> p, rotated_to |-> None]
    BY <2>3, <2>6
  <2>9. b = [node_id |-> m, fingerprint |-> fp, status |-> "active", generation |-> g + 1,
             previous_endpoint_id |-> p, rotated_to |-> None]
    BY <2>7, <2>8
  <2>10. [b EXCEPT !.previous_endpoint_id = e] = Successor(e)
    BY <2>5, <2>9
  <2>11. [old EXCEPT !.status = "active", !.generation = @ + 1, !.previous_endpoint_id = e]
           = [b EXCEPT !.previous_endpoint_id = e]
    BY <2>6, <2>7
  <2> QED
    BY <2>10, <2>11, Zenon
<1>24. trust' = [trust EXCEPT ![e] = [Transitioned(e, "rotated") EXCEPT !.rotated_to = to],
                              ![to] = Successor(e)]
  BY <1>10, <1>22, <1>23, Zenon
<1>25. nodes' = [nodes EXCEPT ![n] =
                   [endpoint_id |-> to, enabled |-> @.enabled /\ trust[e].status # "quarantined"]]
  BY <1>10, <1>11, <1>19, Zenon
<1>26. RotateEndpoint(e, to)
  <2>1. RotationBinding(e)
    BY <1>8, <1>10, <1>11, <1>19, <1>21, Zenon DEF RotationBinding
  <2>2. HasNextGeneration(e)
    BY <1>10, <1>11, Zenon DEF HasNextGeneration
  <2>3. trust[e].status \in {"active", "quarantined"} /\ trust[e].node_id = n
    BY <1>8, <1>10, <1>11, Zenon
  <2> QED
    BY <1>4, <1>10, <1>11, <1>17, <1>20, <1>24, <1>25, <2>1, <2>2, <2>3, Zenon DEF RotateEndpoint
<1>27. Footprint(x.held)
  <2>1. /\ nodes'[n].endpoint_id = to
        /\ \A m \in NodeIds : m # n => nodes'[m] = nodes[m]
    BY <1>1, <1>10, <1>12 DEF TypeOK
  <2>2. /\ trust'[e] = [Transitioned(e, "rotated") EXCEPT !.rotated_to = to]
        /\ trust'[to] = Successor(e)
        /\ \A f \in EndpointIds : f \notin {e, to} => trust'[f] = trust[f]
    BY <1>1, <1>4, <1>24, Zenon DEF TypeOK
  <2>3. trust'[e].status # "active"
    BY <1>1, <1>11, <2>2, RotatedFields
  <2>4. trust'[to].node_id = n
    <3>1. Successor(e).node_id = trust[e].node_id
      BY Zenon DEF Successor
    <3> QED
      BY <1>8, <1>11, <2>2, <3>1, Zenon
  <2>5. \A f \in EndpointIds : <<"trust", f>> \notin x.held => trust'[f] = trust[f]
    BY <1>11, <1>18, <2>2, Zenon
  <2>6. \A m \in NodeIds, f \in EndpointIds :
          m \in NodesAt(f)' /\ m \notin NodesAt(f) => m = n /\ f = to
    BY <2>1, Zenon DEF NodesAt
  <2>7. \A m \in NodeIds, f \in EndpointIds : ActiveFor(m, f)' /\ ~ActiveFor(m, f) => m = n
    BY <2>2, <2>3, <2>4, Zenon DEF ActiveFor
  <2>8. \A m \in NodeIds, f \in EndpointIds : ActiveFor(m, f) /\ ~ActiveFor(m, f)' => m = n
    BY <1>8, <1>11, <1>17, <2>2, Zenon DEF ActiveFor
  <2> QED
    BY <1>10, <1>18, <1>19, <2>1, <2>5, <2>6, <2>7, <2>8, Zenon DEF Footprint
<1> QED
  BY <1>2, <1>26, <1>27, Zenon DEF LateNext

\* create_enrollment_token commits a new token.
LEMMA CreateCommits ==
  ASSUME NativeInv, NEW s \in DbSessions, NativeCreateToken(s)
  PROVE  Footprint(dbSession[s].held) /\ LateNext
<1>1. TypeOK /\ SessionsInv /\ Ready(s, "create")
  BY Zenon DEF NativeInv, NativeCreateToken
<1>2. PICK x : x = dbSession[s]
  BY Zenon
<1>3. SessionInv(x) /\ NativeArguments(x.op) /\ x.op.name = "create" /\ x.at \in Nat /\ x.at > Len(Script(x))
  BY <1>1, <1>2, ReadySession, Zenon
<1>4. PICK t \in TokenIds : t = x.op.t
  BY <1>3, Zenon DEF NativeArguments
<1>5. Script(x) = <<Put({<<"token", t>>})>>
  BY <1>3, <1>4, ScriptIs, Zenon
<1>6. 1 < x.at /\ Script(x)[1] = Put({<<"token", t>>})
  BY <1>3, <1>5
<1>7. ClaimsFree(x, {<<"token", t>>})
  BY <1>3, <1>6, DonePut
<1>8. tokens[t] = None /\ <<"token", t>> \in x.held
  BY <1>7, Zenon DEF ClaimsFree
<1>9. PICK m \in 1..MaxTokenUses :
        /\ tokens' = [tokens EXCEPT ![t] =
             [status |-> "active", max_uses |-> m, used_count |-> 0, lapsed |-> FALSE]]
        /\ UNCHANGED <<nodes, trust, joins, audit>>
  BY <1>2, <1>4, Zenon DEF NativeCreateToken
<1>11. CreateToken(t, m)
  BY <1>8, <1>9, Zenon DEF CreateToken
<1>12. \A u \in TokenIds : <<"token", u>> \notin x.held => tokens'[u] = tokens[u]
  BY <1>1, <1>8, <1>9, Zenon DEF TypeOK
<1>13. \A r \in RequestIds : <<"join", r>> \notin x.held => joins'[r] = joins[r]
  BY <1>9, Zenon
<1>14. Footprint(x.held)
  BY <1>9, <1>12, <1>13, EnrollmentFootprint, Zenon
<1> QED
  BY <1>2, <1>11, <1>14, Zenon DEF LateNext

\* revoke_enrollment_token commits the revocation of an active token.
LEMMA RevokeCommits ==
  ASSUME NativeInv, NEW s \in DbSessions, NativeRevokeToken(s)
  PROVE  Footprint(dbSession[s].held) /\ LateNext
<1>1. TypeOK /\ SessionsInv /\ Ready(s, "revoke")
  BY Zenon DEF NativeInv, NativeRevokeToken
<1>2. PICK x : x = dbSession[s]
  BY Zenon
<1>3. SessionInv(x) /\ NativeArguments(x.op) /\ x.op.name = "revoke" /\ x.at \in Nat /\ x.at > Len(Script(x))
  BY <1>1, <1>2, ReadySession, Zenon
<1>4. PICK t \in TokenIds : t = x.op.t
  BY <1>3, Zenon DEF NativeArguments
<1>5. Script(x) = <<Ask(<<"token", t>>)>>
  BY <1>3, <1>4, ScriptIs, Zenon
<1>6. 1 < x.at /\ Script(x)[1] = Ask(<<"token", t>>) /\ <<"token", t>>[2] # None
  BY <1>3, <1>5, ConstantsAssumption
<1>7. <<"token", t>> \in DOMAIN x.seen
  BY <1>3, <1>6, DoneAsk
<1>8. /\ x.seen[<<"token", t>>] # None /\ x.seen[<<"token", t>>].status = "active"
      /\ ~tokens[t].lapsed
      /\ tokens' = [tokens EXCEPT ![t].status = "revoked"]
      /\ UNCHANGED <<nodes, trust, joins, audit>>
  BY <1>2, <1>4, Zenon DEF NativeRevokeToken, Seen
<1>9. <<"token", t>> \in x.held /\ tokens[t] # None /\ tokens[t].status = "active"
  BY <1>3, <1>7, <1>8, Zenon DEF SessionInv, ReadsCurrent, Holds
<1>10. RevokeToken(t)
  BY <1>8, <1>9, Zenon DEF RevokeToken
<1>11. \A u \in TokenIds : <<"token", u>> \notin x.held => tokens'[u] = tokens[u]
  BY <1>1, <1>8, <1>9, Zenon DEF TypeOK
<1>12. \A r \in RequestIds : <<"join", r>> \notin x.held => joins'[r] = joins[r]
  BY <1>8, Zenon
<1>13. Footprint(x.held)
  BY <1>8, <1>11, <1>12, EnrollmentFootprint, Zenon
<1> QED
  BY <1>2, <1>10, <1>13, Zenon DEF LateNext

\* submit_join_request commits a submission: no other transaction has taken the
\* last use of the token since it was read.
LEMMA SubmitCommits ==
  ASSUME NativeInv, NEW s \in DbSessions, NativeSubmit(s)
  PROVE  Footprint(dbSession[s].held) /\ LateNext
<1>1. TypeOK /\ SessionsInv /\ Ready(s, "submit")
  BY Zenon DEF NativeInv, NativeSubmit
<1>2. PICK x : x = dbSession[s]
  BY Zenon
<1>3. SessionInv(x) /\ NativeArguments(x.op) /\ x.op.name = "submit" /\ x.at \in Nat /\ x.at > Len(Script(x))
  BY <1>1, <1>2, ReadySession, Zenon
<1>4. PICK r \in RequestIds, t \in TokenIds, q \in EndpointIds \cup {None} :
        r = x.op.r /\ t = x.op.t /\ q = x.op.e
  BY <1>3, Zenon DEF NativeArguments
<1>5. Script(x) = <<Ask(<<"token", t>>), Ask(<<"join", r>>), Put({<<"join", r>>})>>
  BY <1>3, <1>4, ScriptIs, Zenon
<1>6. /\ 1 < x.at /\ Script(x)[1] = Ask(<<"token", t>>) /\ <<"token", t>>[2] # None
      /\ 3 < x.at /\ Script(x)[3] = Put({<<"join", r>>})
  BY <1>3, <1>5, ConstantsAssumption
<1>7. <<"token", t>> \in DOMAIN x.seen /\ ClaimsFree(x, {<<"join", r>>})
  BY <1>3, <1>6, DoneAsk, DonePut
<1>8. PICK row : row = x.seen[<<"token", t>>]
  BY Zenon
<1>9. /\ row # None /\ row.status = "active" /\ row.used_count < row.max_uses
      /\ joins' = [joins EXCEPT ![r] =
             [token_id |-> t, status |-> "pending",
              requested_endpoint_id |-> q, assigned_endpoint_id |-> None]]
      /\ tokens' = [tokens EXCEPT ![t].used_count = @ + 1]
      /\ UNCHANGED <<nodes, trust, audit>>
  BY <1>2, <1>4, <1>8, Zenon DEF NativeSubmit, Seen
<1>10. /\ <<"token", t>> \in x.held /\ tokens[t] # None /\ tokens[t].status = row.status
       /\ tokens[t].used_count = row.used_count /\ tokens[t].max_uses = row.max_uses
  BY <1>3, <1>7, <1>8, <1>9, Zenon DEF SessionInv, ReadsCurrent, Holds
<1>11. joins[r] = None /\ <<"join", r>> \in x.held
  BY <1>7, Zenon DEF ClaimsFree
<1>12. LateSubmit(r, t, q)
  BY <1>9, <1>10, <1>11, Zenon DEF LateSubmit
<1>13. \A u \in TokenIds : <<"token", u>> \notin x.held => tokens'[u] = tokens[u]
  BY <1>1, <1>9, <1>10, Zenon DEF TypeOK
<1>14. \A p \in RequestIds : <<"join", p>> \notin x.held => joins'[p] = joins[p]
  BY <1>1, <1>9, <1>11, Zenon DEF TypeOK
<1>15. Footprint(x.held)
  BY <1>9, <1>13, <1>14, EnrollmentFootprint, Zenon
<1> QED
  BY <1>2, <1>12, <1>15, Zenon DEF LateNext

\* The submission that is refused because its token has lapsed commits the
\* expiry of the token.
LEMMA ExpiresCommits ==
  ASSUME NativeInv, NEW s \in DbSessions, NativeSubmitExpires(s)
  PROVE  Footprint(dbSession[s].held) /\ LateNext
<1>1. TypeOK /\ SessionsInv
  BY Zenon DEF NativeInv
<1>2. PICK x : x = dbSession[s]
  BY Zenon
<1>3. SessionInv(x) /\ NativeArguments(x.op) /\ x.op.name = "submit" /\ x.at = 3
  <2>1. SessionInv(x) /\ x.op.name = "submit" /\ x.at = 3
    BY <1>1, <1>2, Zenon DEF NativeSubmitExpires, SessionsInv
  <2> QED
    BY <2>1, Arguments, Zenon DEF SessionInv
<1>4. PICK t \in TokenIds : t = x.op.t
  BY <1>3, Zenon DEF NativeArguments
<1>5. Script(x) = <<Ask(<<"token", t>>), Ask(<<"join", x.op.r>>), Put({<<"join", x.op.r>>})>>
  BY <1>3, <1>4, ScriptIs, Zenon
<1>6. 1 < x.at /\ Script(x)[1] = Ask(<<"token", t>>) /\ <<"token", t>>[2] # None
  BY <1>3, <1>5, ConstantsAssumption
<1>7. <<"token", t>> \in DOMAIN x.seen
  BY <1>3, <1>6, DoneAsk
<1>8. /\ x.seen[<<"token", t>>] # None
      /\ tokens[t].lapsed /\ tokens[t].status = "active"
      /\ tokens' = [tokens EXCEPT ![t].status = "expired"]
      /\ UNCHANGED <<nodes, trust, joins, audit>>
  BY <1>2, <1>4, Zenon DEF NativeSubmitExpires, Seen
<1>9. <<"token", t>> \in x.held /\ tokens[t] # None
  BY <1>3, <1>7, <1>8, Zenon DEF SessionInv, ReadsCurrent, Holds
<1>10. LateExpiry(t)
  BY <1>8, <1>9, Zenon DEF LateExpiry
<1>11. \A u \in TokenIds : <<"token", u>> \notin x.held => tokens'[u] = tokens[u]
  BY <1>1, <1>8, <1>9, Zenon DEF TypeOK
<1>12. \A r \in RequestIds : <<"join", r>> \notin x.held => joins'[r] = joins[r]
  BY <1>8, Zenon
<1>13. Footprint(x.held)
  BY <1>8, <1>11, <1>12, EnrollmentFootprint, Zenon
<1> QED
  BY <1>2, <1>10, <1>13, Zenon DEF LateNext

\* reject_join_request commits the rejection of a request still pending.
LEMMA RejectCommits ==
  ASSUME NativeInv, NEW s \in DbSessions, NativeReject(s)
  PROVE  Footprint(dbSession[s].held) /\ LateNext
<1>1. TypeOK /\ SessionsInv /\ Ready(s, "reject")
  BY Zenon DEF NativeInv, NativeReject
<1>2. PICK x : x = dbSession[s]
  BY Zenon
<1>3. SessionInv(x) /\ NativeArguments(x.op) /\ x.op.name = "reject" /\ x.at \in Nat /\ x.at > Len(Script(x))
  BY <1>1, <1>2, ReadySession, Zenon
<1>4. PICK r \in RequestIds : r = x.op.r
  BY <1>3, Zenon DEF NativeArguments
<1>5. Script(x) = <<Ask(<<"join", r>>)>>
  BY <1>3, <1>4, ScriptIs, Zenon
<1>6. 1 < x.at /\ Script(x)[1] = Ask(<<"join", r>>) /\ <<"join", r>>[2] # None
  BY <1>3, <1>5, ConstantsAssumption
<1>7. <<"join", r>> \in DOMAIN x.seen
  BY <1>3, <1>6, DoneAsk
<1>8. /\ x.seen[<<"join", r>>] # None /\ x.seen[<<"join", r>>].status = "pending"
      /\ joins' = [joins EXCEPT ![r].status = "rejected"]
      /\ UNCHANGED <<nodes, trust, tokens, audit>>
  BY <1>2, <1>4, Zenon DEF NativeReject, Seen
<1>9. <<"join", r>> \in x.held /\ joins[r] # None /\ joins[r].status = "pending"
  BY <1>3, <1>7, <1>8, Zenon DEF SessionInv, ReadsCurrent, Holds
<1>10. RejectJoin(r)
  BY <1>8, <1>9, Zenon DEF RejectJoin
<1>11. \A q \in RequestIds : <<"join", q>> \notin x.held => joins'[q] = joins[q]
  BY <1>1, <1>8, <1>9, Zenon DEF TypeOK
<1>12. \A t \in TokenIds : <<"token", t>> \notin x.held => tokens'[t] = tokens[t]
  BY <1>8, Zenon
<1>13. Footprint(x.held)
  BY <1>8, <1>11, <1>12, EnrollmentFootprint, Zenon
<1> QED
  BY <1>2, <1>10, <1>13, Zenon DEF LateNext


----------------------------------------------------------------------------
(* The inductive invariant.                                                *)

\* Every commit writes only what its transaction has locked or claimed, and is
\* one operation of the registry.
LEMMA CommitIsOperation ==
  ASSUME NativeInv, NEW s \in DbSessions, NativeCommit(s)
  PROVE  Footprint(dbSession[s].held) /\ LateNext /\ Commits(s)
<1>1. Footprint(dbSession[s].held) /\ LateNext
  BY AddCommits, EnabledCommits, RemoveCommits, StatusCommits, RotateCommits, CreateCommits,
     RevokeCommits, SubmitCommits, ExpiresCommits, RejectCommits, ApproveCommits, ClaimCommits,
     Zenon DEF NativeCommit
<1>2. Commits(s)
  BY Zenon DEF NativeCommit, NativeAdd, NativeSetEnabled, NativeRemove, NativeUpdateStatus,
               NativeRotate, NativeCreateToken, NativeRevokeToken, NativeSubmit,
               NativeSubmitExpires, NativeReject, NativeApprove, NativeClaim
<1> QED
  BY <1>1, <1>2, Zenon

\* A step of the sessions or of the clock keeps the locks and what the sessions
\* rely on, and is a step of the registry's operations or leaves its tables alone.
LEMMA NativeStepIsLate ==
  ASSUME NativeInv, [NativeNext]_nativeVars
  PROVE  SessionsInv' /\ LocksApart' /\ [LateNext]_vars
<1>1. TypeOK /\ PointerCurrent /\ SessionsInv /\ LocksApart
  BY Zenon DEF NativeInv
<1>2. CASE UNCHANGED nativeVars
  <2>1. UNCHANGED vars /\ dbSession' = dbSession
    BY <1>2, Zenon DEF nativeVars, vars
  <2>2. LocksApart'
    BY <1>1, <2>1, Zenon DEF LocksApart
  <2>3. ASSUME NEW s \in DbSessions, dbSession'[s] # NoTx PROVE SessionInv(dbSession[s])'
    <3>1. PICK x : x = dbSession[s]
      BY Zenon
    <3>2. x = dbSession'[s] /\ SessionInv(x)
      BY <1>1, <2>1, <2>3, <3>1, Zenon DEF SessionsInv
    <3>3. SessionInv(x)'
      BY <2>1, <3>2, SessionUnchanged, Zenon
    <3> QED
      BY <3>2, <3>3, Zenon
  <2>4. SessionsInv'
    BY <1>1, <2>1, <2>3, Zenon DEF SessionsInv
  <2> QED
    BY <2>1, <2>2, <2>4, Zenon
<1>3. ASSUME NEW s \in DbSessions,
             (\E o \in NativeOps : BeginsTx(s, o)) \/ Selects(s) \/ Inserts(s) \/ RollsBack(s)
      PROVE  SessionsInv' /\ LocksApart' /\ [LateNext]_vars
  BY <1>1, <1>3, StatementStep, Zenon
<1>4. ASSUME NEW s \in DbSessions, NativeCommit(s)
      PROVE  SessionsInv' /\ LocksApart' /\ [LateNext]_vars
  BY <1>1, <1>4, CommitIsOperation, CommitStep, Zenon
<1>5. ASSUME NEW t \in TokenIds, Lapse(t), UNCHANGED dbSession
      PROVE  SessionsInv' /\ LocksApart' /\ [LateNext]_vars
  <2>1. LateNext
    BY <1>5, Zenon DEF LateNext
  <2> QED
    BY <1>1, <1>5, <2>1, LapseStep, Zenon
<1> QED
  BY <1>2, <1>3, <1>4, <1>5, Zenon DEF NativeNext

\* Every step of the native store keeps the inductive invariant.
LEMMA NativeStep == NativeInv /\ [NativeNext]_nativeVars => NativeInv'
<1> SUFFICES ASSUME NativeInv, [NativeNext]_nativeVars PROVE NativeInv'
  BY Zenon
<1>1. SessionsInv' /\ LocksApart' /\ [LateNext]_vars
  BY NativeStepIsLate, Zenon
<1>2. /\ TypeOK /\ PointerCurrent /\ RegistryInv /\ LineageSound /\ TokenAccounting
      /\ FingerprintOrigin /\ BindingAudited
  BY Zenon DEF NativeInv, NativeRegistrySound
<1>3. TypeOK'
  BY <1>1, <1>2, LateType, Zenon
<1>4. RegistryInv' /\ LineageSound'
  BY <1>1, <1>2, <1>3, LateRegistry, LateLineage, Zenon
<1>5. TokenAccounting' /\ FingerprintOrigin' /\ BindingAudited'
  BY <1>1, <1>2, LateTokens, LateOrigin, LateBinding, Zenon
<1>6. UniqueActiveEndpoint' /\ EnabledDispatchable'
  BY <1>3, <1>4, RegistryUnique, RegistryDispatchable, PTL
<1>7. PointerCurrent'
  <2>1. PointersDistinct
    BY <1>2, Zenon DEF RegistryInv
  <2> QED
    BY <1>1, <1>2, <2>1, LatePointer, Zenon
<1> QED
  BY <1>1, <1>3, <1>4, <1>5, <1>6, <1>7, Zenon DEF NativeInv, NativeRegistrySound

\* The native store starts as the SQLite store does, with no transaction open.
LEMMA NativeStart == NativeInit => NativeInv
<1> SUFFICES ASSUME NativeInit PROVE NativeInv
  BY Zenon
<1>1. Init
  BY Zenon DEF NativeInit, Init
<1>2. TypeOK /\ RegistryInv
  BY <1>1, InitType, InitRegistry, Zenon
<1>3. NativeRegistrySound
  BY <1>1, <1>2, RegistryUnique, RegistryDispatchable, InitLineage, InitTokens, InitOrigin,
     InitBinding, Zenon DEF NativeRegistrySound
<1>4. \A n \in NodeIds : nodes[n] = None
  BY Zenon DEF NativeInit, FreshInit, UnboundApprovalInit, EmptyTable
<1>5. PointerCurrent
  BY <1>4, Zenon DEF PointerCurrent
<1>6. \A s \in DbSessions : dbSession[s] = NoTx
  BY Zenon DEF NativeInit
<1>7. LocksApart
  <2>1. NoTx.held = {}
    BY Zenon DEF NoTx
  <2> QED
    BY <1>6, <2>1, Zenon DEF LocksApart
<1>8. SessionsInv
  BY <1>6, Zenon DEF NativeInit, SessionsInv
<1> QED
  BY <1>2, <1>3, <1>5, <1>7, <1>8, Zenon DEF NativeInv

\* Any number of sessions, whose transactions read, lock, claim and commit in any
\* interleaving, keep the registry sound and the locks apart, and what an open
\* transaction has read under a lock or claimed by an insert stays true.
THEOREM NativeInvariant == NativeSpec => []NativeInv
BY NativeStart, NativeStep, PTL DEF NativeSpec

\* What the statement-by-statement transactions of the native store build is
\* a registry the one-step operations of the SQLite store could have built:
\* pointers, active endpoints, enabled nodes, lineage, token uses, fingerprints
\* and the audit trail agree after every commit.
THEOREM NativeRegistryIsSound == NativeSpec => []NativeRegistrySound
<1>1. NativeInv => NativeRegistrySound
  BY Zenon DEF NativeInv
<1> QED
  BY <1>1, NativeInvariant, PTL

\* Interleaved transactions are serializable: each commit is one whole operation
\* of the store on the committed tables, and nothing else changes them.
THEOREM NativeCommitsAreOperations == NativeSpec => [][LateNext]_vars
<1>1. NativeInv /\ [NativeNext]_nativeVars => [LateNext]_vars
  BY NativeStepIsLate, Zenon
<1> QED
  BY <1>1, NativeInvariant, PTL DEF NativeSpec

\* The native store implements the endpoint lifecycle, as the SQLite store does.
THEOREM NativeImplementsLifecycle == NativeSpec => LifecycleSpec
<1>1. NativeInv => TypeOK
  BY Zenon DEF NativeInv
<1>2. NativeInit => Lifecycle!Init
  BY <1>1, NativeStart, InitLifecycle, Zenon
<1> QED
  BY <1>1, <1>2, NativeInvariant, NativeCommitsAreOperations, LateLifecycle, PTL
     DEF NativeSpec, LifecycleSpec, Lifecycle!Spec
=============================================================================
