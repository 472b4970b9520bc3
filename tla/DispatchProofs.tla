--------------------------- MODULE DispatchProofs ---------------------------
(***************************************************************************)
(* Theorems about Dispatch, for any registry, any number of callers, any   *)
(* size of a bundle and any number of retries.                             *)
(***************************************************************************)
EXTENDS Dispatch, TrustRegistryProofs

-----------------------------------------------------------------------------
(* The calls' side.                                                        *)

\* A call under way, told from none.
LEMMA CallFacts ==
  ASSUME DispatchTypeOK, NEW w \in Callers, call[w] # Idle
  PROVE  call[w] \in CallRow
  BY Zenon DEF DispatchTypeOK

\* No call is the idle one.
LEMMA CallNotIdle == Idle \notin CallRow
  <1>1. ASSUME NEW c \in CallRow PROVE c.kind # "idle"
    BY Zenon DEF CallRow
  <1> QED
    BY <1>1, Zenon DEF Idle

\* The fields of a call.
LEMMA CallFields ==
  ASSUME NEW c \in CallRow
  PROVE  /\ c.todo \in Seq(StepRow) /\ c.results \in Seq(Results) /\ c.attempt \in Nat
         /\ c.rows \in [Sides -> NodeRow \cup {None}]
         /\ c.ends \in [source : NodeIds, target : NodeIds]
         /\ c.kind \in {"node", "capabilities", "status", "path", "job_node", "job_status", "job_path"}
  BY Zenon DEF CallRow

\* Both ends of a call are names of nodes.
LEMMA EndTyped ==
  ASSUME NEW c \in CallRow, NEW s \in Sides
  PROVE  NodeOn(c, s) \in NodeIds
  <1>1. c.ends \in [source : NodeIds, target : NodeIds]
    BY CallFields, Zenon
  <1>2. s = "source" \/ s = "target"
    BY Zenon DEF Sides
  <1> QED
    BY <1>1, <1>2, Zenon DEF NodeOn

\* Steps in a row that no gate and no request is among, and in which every row read is
\* checked.
Checks(q) ==
  /\ q \in Seq(StepRow)
  /\ \A i \in 1..Len(q) : q[i].op \notin {"gate", "send"}
  /\ \A i \in 1..Len(q) : q[i].op = "row" =>
       \E k \in 1..Len(q) : k > i /\ q[k] = Step("usable", q[i].side)

\* The steps of a method: gates, and the request.
Requests(q) ==
  /\ q \in Seq(StepRow) /\ Len(q) > 0
  /\ \A i \in 1..Len(q) : q[i].op \in {"gate", "send"}
  /\ \A i \in 1..Len(q) : q[i].op = "send" <=> i = Len(q)

\* A step of a call.
LEMMA StepTyped ==
  ASSUME NEW s \in Sides, NEW op \in {"row", "usable", "window", "trust", "gate", "send"}
  PROVE  Step(op, s) \in StepRow /\ Step(op, s).op = op /\ Step(op, s).side = s
  BY Zenon DEF Step, StepRow

\* Sequences of steps, one after the other.
LEMMA ConcatFacts ==
  ASSUME NEW p \in Seq(StepRow), NEW q \in Seq(StepRow)
  PROVE  /\ p \o q \in Seq(StepRow) /\ Len(p \o q) = Len(p) + Len(q)
         /\ Len(p) \in Nat /\ Len(q) \in Nat
         /\ \A i \in 1..Len(p) : (p \o q)[i] = p[i]
         /\ \A i \in 1..Len(q) : (p \o q)[Len(p) + i] = q[i]
         /\ \A i \in 1..Len(p \o q) : i \notin 1..Len(p) =>
              \E k \in 1..Len(q) : i = Len(p) + k
  <1>1. /\ p \o q \in Seq(StepRow) /\ Len(p \o q) = Len(p) + Len(q)
        /\ Len(p) \in Nat /\ Len(q) \in Nat
    OBVIOUS
  <1>2. \A i \in 1..Len(p) : (p \o q)[i] = p[i]
    OBVIOUS
  <1>3. \A i \in 1..Len(q) : (p \o q)[Len(p) + i] = q[i]
    OBVIOUS
  <1>4. ASSUME NEW i \in 1..Len(p \o q), i \notin 1..Len(p)
        PROVE  \E k \in 1..Len(q) : i = Len(p) + k
    <2>1. i - Len(p) \in 1..Len(q) /\ i = Len(p) + (i - Len(p))
      BY <1>1, <1>4
    <2> QED
      BY <2>1, Zenon
  <1> QED
    BY <1>1, <1>2, <1>3, <1>4, Zenon

\* Checks one after the other are checks.
LEMMA ChecksConcat ==
  ASSUME NEW p, NEW q, Checks(p), Checks(q)
  PROVE  Checks(p \o q)
  <1>1. p \in Seq(StepRow) /\ q \in Seq(StepRow)
    BY Zenon DEF Checks
  <1> DEFINE pq == p \o q
  <1>2. /\ pq \in Seq(StepRow) /\ Len(pq) = Len(p) + Len(q) /\ Len(p) \in Nat /\ Len(q) \in Nat
        /\ \A i \in 1..Len(p) : pq[i] = p[i]
        /\ \A i \in 1..Len(q) : pq[Len(p) + i] = q[i]
        /\ \A i \in 1..Len(pq) : i \notin 1..Len(p) => \E k \in 1..Len(q) : i = Len(p) + k
    BY <1>1, ConcatFacts, Zenon
  <1> HIDE DEF pq
  <1>3. ASSUME NEW i \in 1..Len(pq)
        PROVE  /\ pq[i].op \notin {"gate", "send"}
               /\ pq[i].op = "row" =>
                    \E k \in 1..Len(pq) : k > i /\ pq[k] = Step("usable", pq[i].side)
    <2>1. CASE i \in 1..Len(p)
      <3>1. pq[i] = p[i] /\ p[i].op \notin {"gate", "send"}
        BY <1>2, <2>1, Zenon DEF Checks
      <3>2. ASSUME p[i].op = "row"
            PROVE  \E k \in 1..Len(pq) : k > i /\ pq[k] = Step("usable", p[i].side)
        <4>1. PICK k \in 1..Len(p) : k > i /\ p[k] = Step("usable", p[i].side)
          BY <2>1, <3>2, Zenon DEF Checks
        <4>2. k \in 1..Len(pq) /\ pq[k] = p[k]
          BY <1>2, <4>1
        <4> QED
          BY <4>1, <4>2, Zenon
      <3> QED
        BY <3>1, <3>2, Zenon
    <2>2. CASE i \notin 1..Len(p)
      <3>1. PICK j \in 1..Len(q) : i = Len(p) + j
        BY <1>2, <2>2, Zenon
      <3>2. pq[i] = q[j] /\ q[j].op \notin {"gate", "send"}
        BY <1>2, <3>1, Zenon DEF Checks
      <3>3. ASSUME q[j].op = "row"
            PROVE  \E k \in 1..Len(pq) : k > i /\ pq[k] = Step("usable", q[j].side)
        <4>1. PICK k \in 1..Len(q) : k > j /\ q[k] = Step("usable", q[j].side)
          BY <3>3, Zenon DEF Checks
        <4>2. Len(p) + k \in 1..Len(pq) /\ Len(p) + k > i /\ pq[Len(p) + k] = q[k]
          BY <1>2, <3>1, <4>1
        <4> QED
          BY <4>1, <4>2, Zenon
      <3> QED
        BY <3>2, <3>3, Zenon
    <2> QED
      BY <2>1, <2>2, Zenon
  <1>4. Checks(pq)
    BY <1>2, <1>3, Zenon DEF Checks
  <1> QED
    BY <1>4, Zenon DEF pq

\* load_fixed_rpc_node reads the row and checks it.
LEMMA LoadsChecks ==
  ASSUME NEW s \in Sides
  PROVE  Checks(Loads(s)) /\ Loads(s)[2] = Step("usable", s) /\ Len(Loads(s)) = 3
  <1> DEFINE a == Step("row", s)
             b == Step("usable", s)
             c == Step("trust", s)
  <1>1. /\ a \in StepRow /\ b \in StepRow /\ c \in StepRow
        /\ a.op = "row" /\ a.side = s /\ b.op = "usable" /\ c.op = "trust"
    BY StepTyped, Zenon
  <1>2. Loads(s) = <<a, b, c>> /\ b = Step("usable", s)
    BY Zenon DEF Loads
  <1> HIDE DEF a, b, c
  <1>3. /\ <<a, b, c>> \in Seq(StepRow) /\ Len(<<a, b, c>>) = 3
        /\ <<a, b, c>>[1] = a /\ <<a, b, c>>[2] = b /\ <<a, b, c>>[3] = c
    BY <1>1
  <1>4. \A i \in 1..3 : i = 1 \/ i = 2 \/ i = 3
    OBVIOUS
  <1> QED
    BY <1>1, <1>2, <1>3, <1>4 DEF Checks

\* What a call does first is checks, and they include that of every end.
LEMMA PreflightChecks ==
  ASSUME NEW k \in {"node", "capabilities", "status", "path", "job_node", "job_status", "job_path"}
  PROVE  /\ Checks(Preflight(k))
         /\ \A s \in Sides : s = "source" \/ IsPath(k) =>
              \E i \in 1..Len(Preflight(k)) : Preflight(k)[i] = Step("usable", s)
  <1>1. "source" \in Sides /\ "target" \in Sides /\ \A s \in Sides : s = "source" \/ s = "target"
    BY Zenon DEF Sides
  <1>2. CASE k \in {"node", "capabilities", "status"}
    <2>1. Preflight(k) = Loads("source")
      BY <1>2, Zenon DEF Preflight
    <2>2. ~IsPath(k)
      BY <1>2, Zenon DEF IsPath
    <2> QED
      BY <1>1, <2>1, <2>2, LoadsChecks
  <1>3. CASE k = "path"
    <2> DEFINE p == Loads("source")
               q == Loads("target")
    <2>1. Preflight(k) = p \o q
      BY <1>3, Zenon DEF Preflight, PathPreflight
    <2>2. /\ Checks(p) /\ p[2] = Step("usable", "source") /\ Len(p) = 3
          /\ Checks(q) /\ q[2] = Step("usable", "target") /\ Len(q) = 3
      BY <1>1, LoadsChecks, Zenon
    <2> HIDE DEF p, q
    <2>3. Checks(p \o q)
      BY <2>2, ChecksConcat, Zenon
    <2>4. p \in Seq(StepRow) /\ q \in Seq(StepRow)
      BY <2>2, Zenon DEF Checks
    <2>5. /\ Len(p \o q) = 6 /\ (p \o q)[2] = Step("usable", "source")
          /\ (p \o q)[5] = Step("usable", "target")
      <3>1. /\ Len(p \o q) = Len(p) + Len(q)
            /\ \A i \in 1..Len(p) : (p \o q)[i] = p[i]
            /\ \A i \in 1..Len(q) : (p \o q)[Len(p) + i] = q[i]
        BY <2>4, ConcatFacts, Zenon
      <3>2. /\ Len(p \o q) = 6 /\ (p \o q)[2] = p[2] /\ (p \o q)[3 + 2] = q[2]
        BY <2>2, <3>1
      <3> QED
        BY <2>2, <3>2
    <2> QED
      BY <1>1, <2>1, <2>3, <2>5
  <1>4. CASE k \in {"job_node", "job_status"}
    <2> DEFINE a == Step("window", "source")
               p == <<a>>
               q == Loads("source")
    <2>1. Preflight(k) = p \o q
      BY <1>4, Zenon DEF Preflight, JobPreflight
    <2>2. ~IsPath(k)
      BY <1>4, Zenon DEF IsPath
    <2>3. a \in StepRow /\ a.op = "window"
      BY <1>1, StepTyped, Zenon
    <2> HIDE DEF a
    <2>4. p \in Seq(StepRow) /\ Len(p) = 1 /\ p[1] = a
      BY <2>3
    <2>5. Checks(p)
      BY <2>3, <2>4 DEF Checks
    <2>6. Checks(q) /\ q[2] = Step("usable", "source") /\ Len(q) = 3
      BY <1>1, LoadsChecks, Zenon
    <2> HIDE DEF p, q
    <2>7. Checks(p \o q)
      BY <2>5, <2>6, ChecksConcat, Zenon
    <2>8. q \in Seq(StepRow)
      BY <2>6, Zenon DEF Checks
    <2>9. Len(p \o q) = 4 /\ (p \o q)[3] = Step("usable", "source")
      <3>1. /\ Len(p \o q) = Len(p) + Len(q)
            /\ \A i \in 1..Len(q) : (p \o q)[Len(p) + i] = q[i]
        BY <2>5, <2>8, ConcatFacts, Zenon DEF Checks
      <3>2. Len(p \o q) = 4 /\ (p \o q)[1 + 2] = q[2]
        BY <2>4, <2>6, <3>1
      <3> QED
        BY <2>6, <3>2
    <2> QED
      BY <1>1, <2>1, <2>2, <2>7, <2>9
  <1>5. CASE k = "job_path"
    <2> DEFINE a == Step("row", "source")
               b == Step("row", "target")
               c == Step("usable", "source")
               d == Step("window", "source")
               e == Step("trust", "source")
               f == Step("usable", "target")
               g == Step("window", "target")
               h == Step("trust", "target")
               q == <<a, b, c, d, e, f, g, h>>
    <2>1. Preflight(k) = q
      BY <1>5, Zenon DEF Preflight, JobPathPreflight
    <2>2. /\ a \in StepRow /\ a.op = "row" /\ a.side = "source"
          /\ b \in StepRow /\ b.op = "row" /\ b.side = "target"
          /\ c \in StepRow /\ c.op = "usable" /\ c = Step("usable", "source")
          /\ d \in StepRow /\ d.op = "window"
          /\ e \in StepRow /\ e.op = "trust"
          /\ f \in StepRow /\ f.op = "usable" /\ f = Step("usable", "target")
          /\ g \in StepRow /\ g.op = "window"
          /\ h \in StepRow /\ h.op = "trust"
      BY <1>1, StepTyped
    <2> HIDE DEF a, b, c, d, e, f, g, h
    <2>3. /\ q \in Seq(StepRow) /\ Len(q) = 8 /\ q[1] = a /\ q[2] = b /\ q[3] = c /\ q[4] = d
          /\ q[5] = e /\ q[6] = f /\ q[7] = g /\ q[8] = h
      BY <2>2
    <2>4. \A i \in 1..8 : i = 1 \/ i = 2 \/ i = 3 \/ i = 4 \/ i = 5 \/ i = 6 \/ i = 7 \/ i = 8
      OBVIOUS
    <2> HIDE DEF q
    <2>5. Checks(q)
      <3>1. \A i \in 1..Len(q) : q[i].op \notin {"gate", "send"}
        BY <2>2, <2>3, <2>4, Zenon
      <3>2. ASSUME NEW i \in 1..Len(q), q[i].op = "row"
            PROVE  \E j \in 1..Len(q) : j > i /\ q[j] = Step("usable", q[i].side)
        <4>1. (i = 1 /\ q[i].side = "source") \/ (i = 2 /\ q[i].side = "target")
          BY <2>2, <2>3, <2>4, <3>2, Zenon
        <4>2. 3 \in 1..Len(q) /\ 6 \in 1..Len(q) /\ 3 > 1 /\ 6 > 2
          BY <2>3
        <4> QED
          BY <2>2, <2>3, <4>1, <4>2, Zenon
      <3> QED
        BY <2>3, <3>1, <3>2, Zenon DEF Checks
    <2> QED
      BY <1>1, <2>1, <2>2, <2>3, <2>5
  <1> QED
    BY <1>2, <1>3, <1>4, <1>5, Zenon

\* One step after another.
LEMMA SnocFacts ==
  ASSUME NEW p \in Seq(StepRow), NEW c \in StepRow
  PROVE  /\ p \o <<c>> \in Seq(StepRow) /\ Len(p \o <<c>>) = Len(p) + 1
         /\ \A i \in 1..Len(p) : (p \o <<c>>)[i] = p[i]
         /\ (p \o <<c>>)[Len(p) + 1] = c
  <1> DEFINE q == <<c>>
  <1>1. q \in Seq(StepRow) /\ Len(q) = 1 /\ q[1] = c /\ 1 \in 1..1
    OBVIOUS
  <1> HIDE DEF q
  <1>2. /\ p \o q \in Seq(StepRow) /\ Len(p \o q) = Len(p) + Len(q)
        /\ \A i \in 1..Len(p) : (p \o q)[i] = p[i]
        /\ \A i \in 1..Len(q) : (p \o q)[Len(p) + i] = q[i]
    BY <1>1, ConcatFacts, Zenon
  <1>3. /\ p \o q \in Seq(StepRow) /\ Len(p \o q) = Len(p) + 1
        /\ \A i \in 1..Len(p) : (p \o q)[i] = p[i]
        /\ (p \o q)[Len(p) + 1] = c
    BY <1>1, <1>2, Zenon
  <1> QED
    BY <1>3, Zenon DEF q

\* Two steps.
LEMMA PairFacts ==
  ASSUME NEW a \in StepRow, NEW b \in StepRow
  PROVE  /\ <<a>> \o <<b>> \in Seq(StepRow) /\ Len(<<a>> \o <<b>>) = 2
         /\ (<<a>> \o <<b>>)[1] = a /\ (<<a>> \o <<b>>)[2] = b
  <1> DEFINE p == <<a>>
  <1>1. p \in Seq(StepRow) /\ Len(p) = 1 /\ p[1] = a
    OBVIOUS
  <1> HIDE DEF p
  <1>2. /\ p \o <<b>> \in Seq(StepRow) /\ Len(p \o <<b>>) = 2
        /\ (p \o <<b>>)[1] = a /\ (p \o <<b>>)[2] = b
    <2>1. Len(p) + 1 = 2 /\ 1 \in 1..Len(p)
      BY <1>1
    <2> QED
      BY <1>1, <2>1, SnocFacts
  <1> QED
    BY <1>2, Zenon DEF p

\* The steps of a method gate every end, and the request comes last.
LEMMA MethodRequests ==
  ASSUME NEW k, NEW first \in BOOLEAN
  PROVE  /\ Requests(MethodSteps(k, first))
         /\ \A s \in Sides : s = "source" \/ IsPath(k) =>
              \E i \in 1..Len(MethodSteps(k, first)) : MethodSteps(k, first)[i] = Step("gate", s)
  <1> DEFINE a == Step("gate", "source")
             b == Step("gate", "target")
             c == Step("send", "source")
  <1>1. "source" \in Sides /\ "target" \in Sides /\ \A s \in Sides : s = "source" \/ s = "target"
    BY Zenon DEF Sides
  <1>2. /\ a \in StepRow /\ a.op = "gate" /\ b \in StepRow /\ b.op = "gate"
        /\ c \in StepRow /\ c.op = "send"
    BY <1>1, StepTyped, Zenon
  <1>3. CASE IsPath(k)
    <2> DEFINE p == <<a>> \o <<b>>
               q == p \o <<c>>
    <2>1. MethodSteps(k, first) = q
      BY <1>3, Zenon DEF MethodSteps
    <2>2. a = Step("gate", "source") /\ b = Step("gate", "target")
      BY Zenon
    <2> HIDE DEF a, b, c
    <2>3. p \in Seq(StepRow) /\ Len(p) = 2 /\ p[1] = a /\ p[2] = b
      BY <1>2, PairFacts
    <2> HIDE DEF p
    <2>4. q \in Seq(StepRow) /\ Len(q) = 3 /\ q[1] = a /\ q[2] = b /\ q[3] = c
      <3>1. /\ q \in Seq(StepRow) /\ Len(q) = Len(p) + 1
            /\ \A i \in 1..Len(p) : q[i] = p[i]
            /\ q[Len(p) + 1] = c
        BY <1>2, <2>3, SnocFacts, Zenon
      <3> HIDE DEF q
      <3> QED
        BY <2>3, <3>1
    <2> HIDE DEF q
    <2>5. \A i \in 1..3 : i = 1 \/ i = 2 \/ i = 3
      OBVIOUS
    <2> QED
      BY <1>1, <1>2, <2>1, <2>2, <2>4, <2>5 DEF Requests
  <1>4. CASE ~IsPath(k)
    <2> DEFINE p == <<a>> \o <<>>
               q == p \o <<c>>
    <2>1. MethodSteps(k, first) = q
      BY <1>4, Zenon DEF MethodSteps
    <2>2. a = Step("gate", "source")
      BY Zenon
    <2> HIDE DEF a, b, c
    <2>3. p = <<a>>
      BY <1>2
    <2>4. q = <<a>> \o <<c>>
      BY <2>3, Zenon
    <2> HIDE DEF p, q
    <2>5. q \in Seq(StepRow) /\ Len(q) = 2 /\ q[1] = a /\ q[2] = c
      BY <1>2, <2>4, PairFacts
    <2>6. \A i \in 1..2 : i = 1 \/ i = 2
      OBVIOUS
    <2> QED
      BY <1>1, <1>2, <1>4, <2>1, <2>2, <2>5, <2>6 DEF Requests
  <1> QED
    BY <1>3, <1>4, Zenon

\* A method alone is steps in order, and so is a method after checks.
LEMMA MethodOrdered ==
  ASSUME NEW q, Requests(q)
  PROVE  StepsOrdered(q)
  BY DEF Requests, StepsOrdered

\* The steps of a whole call: its checks, then its first method.
LEMMA PlanOrdered ==
  ASSUME NEW p, NEW q, Checks(p), Requests(q)
  PROVE  /\ p \o q \in Seq(StepRow) /\ StepsOrdered(p \o q)
         /\ \A i \in 1..Len(p) : i \in 1..Len(p \o q) /\ (p \o q)[i] = p[i]
  <1>1. p \in Seq(StepRow) /\ q \in Seq(StepRow) /\ Len(q) > 0
    BY Zenon DEF Checks, Requests
  <1> DEFINE pq == p \o q
  <1>2. /\ pq \in Seq(StepRow) /\ Len(pq) = Len(p) + Len(q) /\ Len(p) \in Nat /\ Len(q) \in Nat
        /\ \A i \in 1..Len(p) : pq[i] = p[i]
        /\ \A i \in 1..Len(q) : pq[Len(p) + i] = q[i]
        /\ \A i \in 1..Len(pq) : i \notin 1..Len(p) => \E k \in 1..Len(q) : i = Len(p) + k
    BY <1>1, ConcatFacts, Zenon
  <1> HIDE DEF pq
  <1>3. \A i \in 1..Len(p) : i \in 1..Len(pq)
    BY <1>2
  <1>4. ASSUME NEW i \in 1..Len(pq)
        PROVE  /\ pq[i].op = "send" <=> i = Len(pq)
               /\ i \in 1..Len(p) => pq[i].op # "gate"
               /\ i \notin 1..Len(p) => pq[i].op \in {"gate", "send"}
               /\ pq[i].op = "row" =>
                    \E k \in 1..Len(pq) : k > i /\ pq[k] = Step("usable", pq[i].side)
    <2>1. CASE i \in 1..Len(p)
      <3>1. pq[i] = p[i] /\ p[i].op \notin {"gate", "send"} /\ i # Len(pq)
        BY <1>1, <1>2, <2>1 DEF Checks
      <3>2. ASSUME p[i].op = "row"
            PROVE  \E k \in 1..Len(pq) : k > i /\ pq[k] = Step("usable", p[i].side)
        <4>1. PICK k \in 1..Len(p) : k > i /\ p[k] = Step("usable", p[i].side)
          BY <2>1, <3>2, Zenon DEF Checks
        <4>2. k \in 1..Len(pq) /\ pq[k] = p[k]
          BY <1>2, <1>3, <4>1, Zenon
        <4> QED
          BY <4>1, <4>2, Zenon
      <3> QED
        BY <2>1, <3>1, <3>2, Zenon
    <2>2. CASE i \notin 1..Len(p)
      <3>1. PICK j \in 1..Len(q) : i = Len(p) + j
        BY <1>2, <2>2, Zenon
      <3>2. pq[i] = q[j] /\ q[j].op \in {"gate", "send"} /\ (q[j].op = "send" <=> j = Len(q))
        BY <1>2, <3>1, Zenon DEF Requests
      <3>3. j = Len(q) <=> i = Len(pq)
        <4>1. \A a, b, c \in Nat : b = c <=> a + b = a + c
          OBVIOUS
        <4>2. j \in Nat
          OBVIOUS
        <4>3. Len(p) \in Nat /\ Len(q) \in Nat /\ Len(pq) = Len(p) + Len(q)
          BY <1>2, Zenon
        <4> QED
          BY <3>1, <4>1, <4>2, <4>3
      <3> QED
        BY <2>2, <3>2, <3>3, Zenon
    <2> QED
      BY <2>1, <2>2, Zenon
  <1>5. DOMAIN pq = 1..Len(pq) /\ Len(pq) > 0
    BY <1>1, <1>2
  <1>6. ASSUME NEW i \in 1..Len(pq), NEW k \in 1..Len(pq), pq[i].op = "gate", k > i
        PROVE  pq[k].op \in {"gate", "send"}
    <2>1. k \notin 1..Len(p)
      BY <1>2, <1>4, <1>6
    <2> QED
      BY <1>4, <2>1, Zenon
  <1>7. StepsOrdered(pq)
    BY <1>4, <1>5, <1>6, Zenon DEF StepsOrdered
  <1> QED
    BY <1>2, <1>3, <1>7, Zenon DEF pq

\* What is left of a call's steps after the first of them, which is no request.
LEMMA TailFacts ==
  ASSUME NEW q \in Seq(StepRow), StepsOrdered(q), Head(q).op # "send"
  PROVE  /\ Tail(q) \in Seq(StepRow) /\ StepsOrdered(Tail(q)) /\ Head(q) = q[1] /\ 1 \in DOMAIN q
         /\ \A x : x # Head(q) /\ (\E i \in DOMAIN q : q[i] = x) =>
              \E i \in DOMAIN Tail(q) : Tail(q)[i] = x
         /\ Head(q).op = "row" =>
              \E i \in DOMAIN Tail(q) : Tail(q)[i] = Step("usable", Head(q).side)
         /\ \A i \in DOMAIN Tail(q) : i + 1 \in DOMAIN q /\ Tail(q)[i] = q[i + 1]
  <1> DEFINE t == Tail(q)
             n == Len(q)
  <1>1. n \in Nat /\ n > 0 /\ DOMAIN q = 1..n
    BY DEF StepsOrdered
  <1>2. /\ t \in Seq(StepRow) /\ Len(t) = n - 1 /\ DOMAIN t = 1..(n - 1) /\ Head(q) = q[1]
        /\ \A i \in 1..(n - 1) : t[i] = q[i + 1]
    BY <1>1
  <1>3. /\ \A i \in 1..n : q[i].op = "send" <=> i = n
        /\ \A i, k \in 1..n : q[i].op = "gate" /\ k > i => q[k].op \in {"gate", "send"}
        /\ \A i \in 1..n : q[i].op = "row" =>
             \E k \in 1..n : k > i /\ q[k] = Step("usable", q[i].side)
    BY <1>1, Zenon DEF StepsOrdered
  <1> HIDE DEF t, n
  <1>4. n > 1
    BY <1>1, <1>2, <1>3
  <1>5. ASSUME NEW k \in 1..n, k > 1 PROVE k - 1 \in 1..(n - 1) /\ t[k - 1] = q[k]
    BY <1>1, <1>2, <1>5
  <1>6. ASSUME NEW i \in 1..(n - 1)
        PROVE  /\ i + 1 \in 1..n /\ t[i] = q[i + 1]
               /\ t[i].op = "send" <=> i = Len(t)
               /\ t[i].op = "row" =>
                    \E k \in 1..(n - 1) : k > i /\ t[k] = Step("usable", t[i].side)
    <2>1. i + 1 \in 1..n /\ t[i] = q[i + 1] /\ (i + 1 = n <=> i = Len(t))
      BY <1>1, <1>2
    <2>2. ASSUME t[i].op = "row"
          PROVE  \E k \in 1..(n - 1) : k > i /\ t[k] = Step("usable", t[i].side)
      <3>1. PICK k \in 1..n : k > i + 1 /\ q[k] = Step("usable", q[i + 1].side)
        BY <1>3, <2>1, <2>2, Zenon
      <3>2. k - 1 \in 1..(n - 1) /\ k - 1 > i /\ t[k - 1] = q[k]
        BY <1>1, <1>5, <3>1
      <3> QED
        BY <2>1, <3>1, <3>2, Zenon
    <2> QED
      BY <1>3, <2>1, <2>2, Zenon
  <1>7. StepsOrdered(t)
    <2>1. Len(t) > 0
      BY <1>1, <1>2, <1>4
    <2>2. ASSUME NEW i \in 1..(n - 1), NEW k \in 1..(n - 1), t[i].op = "gate", k > i
          PROVE  t[k].op \in {"gate", "send"}
      <3>1. i + 1 \in 1..n /\ k + 1 \in 1..n /\ k + 1 > i + 1
        BY <1>1, <2>2
      <3> QED
        BY <1>3, <1>6, <2>2, <3>1
    <2> QED
      BY <1>2, <1>6, <2>1, <2>2, Zenon DEF StepsOrdered
  <1>8. ASSUME NEW x, x # Head(q), \E i \in DOMAIN q : q[i] = x
        PROVE  \E i \in DOMAIN t : t[i] = x
    <2>1. PICK k \in 1..n : q[k] = x
      BY <1>1, <1>8, Zenon
    <2>2. k > 1
      BY <1>1, <1>2, <1>8, <2>1
    <2> QED
      BY <1>2, <1>5, <2>1, <2>2, Zenon
  <1>9. ASSUME Head(q).op = "row"
        PROVE  \E i \in DOMAIN t : t[i] = Step("usable", Head(q).side)
    <2>1. PICK k \in 1..n : k > 1 /\ q[k] = Step("usable", q[1].side)
      BY <1>1, <1>2, <1>3, <1>9
    <2> QED
      BY <1>2, <1>5, <2>1, Zenon
  <1>10. 1 \in DOMAIN q
    BY <1>1
  <1> QED
    BY <1>1, <1>2, <1>6, <1>7, <1>8, <1>9, <1>10, Zenon DEF t

-----------------------------------------------------------------------------
(* The steps of a call.                                                    *)

\* Trust in an end of a call is a matter of the registry alone.
LEMMA TrustKept ==
  ASSUME UNCHANGED <<nodes, trust>>, NEW v \in Callers, NEW s \in Sides
  PROVE  Trusted(call[v], s)' <=> Trusted(call'[v], s)
  BY Zenon DEF Trusted, Dispatchable, ActiveEndpoints, ActiveFor, NodeOn, EndpointOn

\* Caller w's call becomes c and nothing the other calls look at changes.
LEMMA CallMoves ==
  ASSUME DispatchTypeOK, DispatchInv, NEW w \in Callers, NEW c \in CallRow \cup {Idle},
         call' = [call EXCEPT ![w] = c], UNCHANGED <<nodes, trust>>,
         late' \in [Callers -> [Sides -> Nat]],
         \A v \in Callers \ {w} : late'[v] = late[v],
         \A s \in Sides : late'[w][s] <= 1,
         c # Idle => /\ StepsOrdered(c.todo) /\ RowsLoaded(c)
                     /\ \A s \in Sides : late'[w][s] # 0 => HeldBack(c, s)
  PROVE  DispatchInv' /\ call' \in [Callers -> CallRow \cup {Idle}]
  <1>1. /\ call' \in [Callers -> CallRow \cup {Idle}] /\ call'[w] = c
        /\ \A v \in Callers \ {w} : call'[v] = call[v]
    BY Zenon DEF DispatchTypeOK
  <1>3. CallsPlanned'
    <2>1. ASSUME NEW v \in Callers, call'[v] # Idle
          PROVE  StepsOrdered(call'[v].todo) /\ RowsLoaded(call'[v])
      BY <1>1, <2>1, Zenon DEF DispatchInv, CallsPlanned
    <2> QED
      BY <2>1, Zenon DEF CallsPlanned, StepsOrdered, RowsLoaded, HasEnd
  <1>4. LateHeldBack'
    <2>1. ASSUME NEW v \in Callers, NEW s \in Sides, call'[v] # Idle, late'[v][s] # 0
          PROVE  HeldBack(call'[v], s)
      BY <1>1, <2>1, Zenon DEF DispatchInv, LateHeldBack
    <2>2. ASSUME NEW v \in Callers, NEW s \in Sides, call'[v] # Idle, late'[v][s] # 0
          PROVE  HeldBack(call[v], s)'
      <3>1. HeldBack(call'[v], s)
        BY <2>1, <2>2, Zenon
      <3> QED
        BY <3>1, TrustKept, Zenon DEF HeldBack, HasEnd
    <2> QED
      BY <2>2, Zenon DEF LateHeldBack
  <1>5. WithdrawalStopsCalls'
    <2>1. ASSUME NEW v \in Callers, NEW s \in Sides PROVE late'[v][s] <= 1
      BY Zenon DEF DispatchInv, WithdrawalStopsCalls
    <2> QED
      BY <2>1, Zenon DEF WithdrawalStopsCalls
  <1> QED
    BY <1>1, <1>3, <1>4, <1>5, Zenon DEF DispatchInv

\* The step a call is at.
LEMMA HeadFacts ==
  ASSUME DispatchTypeOK, DispatchInv, NEW w \in Callers, call[w] # Idle
  PROVE  /\ call[w] \in CallRow /\ StepsOrdered(call[w].todo) /\ RowsLoaded(call[w])
         /\ Head(call[w].todo) \in StepRow /\ Side(w) \in Sides
         /\ Head(call[w].todo) = call[w].todo[1] /\ 1 \in DOMAIN call[w].todo
         /\ Head(call[w].todo) = Step(Head(call[w].todo).op, Side(w))
         /\ Head(call[w].todo).op = "send" => DOMAIN call[w].todo = {1}
         /\ Head(call[w].todo).op \in {"gate", "send"} =>
              \A i \in DOMAIN call[w].todo : call[w].todo[i].op \in {"gate", "send"}
  <1>1. /\ call[w] \in CallRow /\ call[w].todo \in Seq(StepRow)
        /\ StepsOrdered(call[w].todo) /\ RowsLoaded(call[w])
    BY CallFacts, CallFields, Zenon DEF DispatchInv, CallsPlanned
  <1> DEFINE q == call[w].todo
  <1>2. q \in Seq(StepRow) /\ StepsOrdered(q)
    BY <1>1, Zenon
  <1> HIDE DEF q
  <1>3. Head(q) = q[1] /\ 1 \in DOMAIN q /\ Head(q) \in StepRow
    BY <1>2 DEF StepsOrdered
  <1>4. Head(q).side \in Sides /\ Head(q) = Step(Head(q).op, Head(q).side)
    BY <1>3, Zenon DEF StepRow, Step
  <1>5. ASSUME Head(q).op = "send" PROVE DOMAIN q = {1}
    <2>1. Len(q) = 1
      BY <1>2, <1>3, <1>5, Zenon DEF StepsOrdered
    <2> QED
      BY <1>2, <2>1
  <1>6. ASSUME Head(q).op \in {"gate", "send"}, NEW i \in DOMAIN q
        PROVE  q[i].op \in {"gate", "send"}
    <2>1. CASE i = 1
      BY <1>3, <1>6, <2>1, Zenon
    <2>2. CASE i # 1
      <3>1. Head(q).op = "gate" /\ i > 1
        BY <1>2, <1>5, <1>6, <2>2
      <3> QED
        BY <1>2, <1>3, <3>1, Zenon DEF StepsOrdered
    <2> QED
      BY <2>1, <2>2, Zenon
  <1> QED
    BY <1>1, <1>3, <1>4, <1>5, <1>6, Zenon DEF q, Side

\* The registry and the rest keep their types when only calls move.
LEMMA OthersTyped ==
  ASSUME DispatchTypeOK, UNCHANGED maintained,
         call' \in [Callers -> CallRow \cup {Idle}],
         late' \in [Callers -> [Sides -> Nat]],
         report' \in [Callers -> [segment_failed : BOOLEAN, ok : BOOLEAN]],
         capability' \in [NodeIds -> EndpointIds \cup {None}]
  PROVE  DispatchTypeOK'
  BY Zenon DEF DispatchTypeOK

\* A call begins with nothing sent.
LEMMA BeginStep ==
  ASSUME DispatchTypeOK, DispatchInv, NEW w \in Callers, NEW n \in NodeIds, NEW m \in NodeIds,
         NEW kind \in {"node", "capabilities", "status", "path", "job_node", "job_status", "job_path"},
         Begin(w, kind, n, m)
  PROVE  DispatchTypeOK' /\ DispatchInv'
  <1> DEFINE q == Preflight(kind) \o MethodSteps(kind, TRUE)
             ends == [source |-> n, target |-> m]
             rows == [s \in Sides |-> None]
             c == [kind |-> kind, ends |-> ends, rows |-> rows, todo |-> q,
                   attempt |-> 1, results |-> <<>>]
  <1>1. /\ call' = [call EXCEPT ![w] = c]
        /\ late' = [late EXCEPT ![w] = [s \in Sides |-> 0]]
        /\ report' = [report EXCEPT ![w] = NoReport]
        /\ UNCHANGED <<nodes, trust, maintained, capability>>
    BY Zenon DEF Begin
  <1>2. /\ q \in Seq(StepRow) /\ StepsOrdered(q)
        /\ \A s \in Sides : s = "source" \/ IsPath(kind) =>
             \E i \in DOMAIN q : q[i] = Step("usable", s)
    <2>1. Checks(Preflight(kind)) /\ Requests(MethodSteps(kind, TRUE))
      BY PreflightChecks, MethodRequests, Zenon
    <2>2. /\ q \in Seq(StepRow) /\ StepsOrdered(q)
          /\ \A i \in 1..Len(Preflight(kind)) : i \in 1..Len(q) /\ q[i] = Preflight(kind)[i]
      BY <2>1, PlanOrdered, Zenon
    <2>3. DOMAIN q = 1..Len(q)
      BY <2>2
    <2> HIDE DEF q
    <2>4. ASSUME NEW s \in Sides, s = "source" \/ IsPath(kind)
          PROVE  \E i \in DOMAIN q : q[i] = Step("usable", s)
      <3>1. PICK i \in 1..Len(Preflight(kind)) : Preflight(kind)[i] = Step("usable", s)
        BY <2>4, PreflightChecks, Zenon
      <3> QED
        BY <2>2, <2>3, <3>1, Zenon
    <2> QED
      BY <2>2, <2>4, Zenon
  <1> HIDE DEF q
  <1>3. /\ ends \in [source : NodeIds, target : NodeIds]
        /\ rows \in [Sides -> NodeRow \cup {None}] /\ <<>> \in Seq(Results) /\ 1 \in Nat
    OBVIOUS
  <1> HIDE DEF ends, rows
  <1>4. c \in CallRow /\ c.todo = q /\ c.kind = kind
    BY <1>2, <1>3, Zenon DEF CallRow
  <1> HIDE DEF c
  <1>5. StepsOrdered(c.todo) /\ RowsLoaded(c)
    BY <1>2, <1>4, Zenon DEF RowsLoaded, HasEnd
  <1>6. /\ late' \in [Callers -> [Sides -> Nat]] /\ \A v \in Callers \ {w} : late'[v] = late[v]
        /\ \A s \in Sides : late'[w][s] = 0
    BY <1>1, Zenon DEF DispatchTypeOK
  <1>7. \A s \in Sides : late'[w][s] <= 1
    BY <1>6
  <1>8. DispatchInv' /\ call' \in [Callers -> CallRow \cup {Idle}]
    BY <1>1, <1>4, <1>5, <1>6, <1>7, CallMoves, Zenon
  <1>9. report' \in [Callers -> [segment_failed : BOOLEAN, ok : BOOLEAN]]
    BY <1>1, Zenon DEF DispatchTypeOK, NoReport, Report
  <1>10. capability' \in [NodeIds -> EndpointIds \cup {None}]
    BY <1>1, Zenon DEF DispatchTypeOK
  <1> QED
    BY <1>1, <1>6, <1>8, <1>9, <1>10, OthersTyped, Zenon

\* A step of a call that is no request, after which the rest of the steps are
\* ahead, with rows that still hold what the checks found.
LEMMA AdvanceStep ==
  ASSUME DispatchTypeOK, DispatchInv, NEW w \in Callers, call[w] # Idle,
         Head(call[w].todo).op # "send",
         NEW rows \in [Sides -> NodeRow \cup {None}],
         call' = [call EXCEPT ![w] = [call[w] EXCEPT !.todo = Tail(@), !.rows = rows]],
         Head(call[w].todo).op = "usable" => rows[Side(w)] # None,
         Head(call[w].todo).op = "gate" => Trusted(call[w], Side(w)),
         \A s \in Sides :
           rows[s] = call[w].rows[s] \/ (Head(call[w].todo).op = "row" /\ s = Side(w)),
         UNCHANGED <<nodes, trust, maintained, late, report, capability>>
  PROVE  DispatchTypeOK' /\ DispatchInv'
  <1> DEFINE c == call[w]
             q == c.todo
             d == [c EXCEPT !.todo = Tail(@), !.rows = rows]
  <1>1. /\ c \in CallRow /\ StepsOrdered(q) /\ RowsLoaded(c) /\ Head(q) \in StepRow /\ Side(w) \in Sides
        /\ Head(q) = q[1] /\ 1 \in DOMAIN q /\ Head(q) = Step(Head(q).op, Side(w))
    BY HeadFacts, Zenon
  <1>2. q \in Seq(StepRow)
    BY <1>1, CallFields, Zenon
  <1>3. /\ Tail(q) \in Seq(StepRow) /\ StepsOrdered(Tail(q))
        /\ \A x : x # Head(q) /\ (\E i \in DOMAIN q : q[i] = x) =>
             \E i \in DOMAIN Tail(q) : Tail(q)[i] = x
        /\ Head(q).op = "row" =>
             \E i \in DOMAIN Tail(q) : Tail(q)[i] = Step("usable", Head(q).side)
        /\ \A i \in DOMAIN Tail(q) : i + 1 \in DOMAIN q /\ Tail(q)[i] = q[i + 1]
    BY <1>1, <1>2, TailFacts, Zenon
  <1>4. d \in CallRow /\ d.todo = Tail(q) /\ d.rows = rows /\ d.kind = c.kind /\ d.ends = c.ends
    BY <1>1, <1>3, Zenon DEF CallRow
  <1> HIDE DEF d
  <1>5. RowsLoaded(d)
    <2> SUFFICES ASSUME NEW s \in Sides, HasEnd(c, s)
                 PROVE  rows[s] # None \/ \E i \in DOMAIN Tail(q) : Tail(q)[i] = Step("usable", s)
      BY <1>4, Zenon DEF RowsLoaded, HasEnd
    <2>1. CASE Head(q).op = "row" /\ s = Side(w)
      BY <1>3, <2>1, Zenon DEF Side
    <2>2. CASE Head(q).op = "usable" /\ s = Side(w)
      BY <2>2, Zenon
    <2>3. CASE /\ ~(Head(q).op = "row" /\ s = Side(w)) /\ ~(Head(q).op = "usable" /\ s = Side(w))
      <3>1. rows[s] = c.rows[s]
        BY <2>3, Zenon
      <3>2. Step("usable", s) # Head(q)
        <4>1. Step("usable", s).op = "usable" /\ Step("usable", s).side = s
          BY Zenon DEF Step
        <4> QED
          BY <2>3, <4>1, Zenon DEF Side
      <3>3. c.rows[s] # None \/ \E i \in DOMAIN q : q[i] = Step("usable", s)
        BY <1>1, Zenon DEF RowsLoaded
      <3> QED
        BY <1>3, <3>1, <3>2, <3>3, Zenon
    <2> QED
      BY <2>1, <2>2, <2>3, Zenon
  <1>6. ASSUME NEW s \in Sides, late[w][s] # 0
        PROVE  HeldBack(d, s)
    <2>1. HeldBack(c, s)
      BY <1>6, Zenon DEF DispatchInv, LateHeldBack
    <2>2. Head(q).op = "gate" /\ HasEnd(d, s)
      BY <1>1, <1>4, <2>1, Zenon DEF HeldBack, HasEnd
    <2>3. rows[s] = c.rows[s]
      BY <2>2, Zenon
    <2>4. Trusted(d, s) = Trusted(c, s)
      BY <1>4, <2>3, Zenon DEF Trusted, NodeOn, EndpointOn
    <2>5. Step("gate", s) # Head(q)
      <3>1. SUFFICES ASSUME Step("gate", s) = Head(q) PROVE FALSE
        BY Zenon
      <3>2. Side(w) = s
        BY <3>1 DEF Side, Step
      <3> QED
        BY <2>1, <2>2, <3>2, Zenon DEF HeldBack
    <2>6. \E i \in DOMAIN Tail(q) : Tail(q)[i] = Step("gate", s)
      BY <1>3, <2>1, <2>5, Zenon DEF HeldBack
    <2>7. \A i \in DOMAIN Tail(q) : Tail(q)[i].op \in {"gate", "send"}
      BY <1>3, <2>1, Zenon DEF HeldBack
    <2> QED
      BY <1>4, <2>1, <2>2, <2>3, <2>4, <2>6, <2>7, Zenon DEF HeldBack
  <1>7. /\ late' \in [Callers -> [Sides -> Nat]] /\ \A v \in Callers \ {w} : late'[v] = late[v]
        /\ \A s \in Sides : late'[w][s] <= 1
    BY Zenon DEF DispatchTypeOK, DispatchInv, WithdrawalStopsCalls
  <1>8. call' = [call EXCEPT ![w] = d]
    BY Zenon DEF d
  <1>9. DispatchInv' /\ call' \in [Callers -> CallRow \cup {Idle}]
    <2>1. StepsOrdered(d.todo) /\ \A s \in Sides : late'[w][s] # 0 => HeldBack(d, s)
      BY <1>3, <1>4, <1>6, Zenon
    <2> QED
      BY <1>4, <1>5, <1>7, <1>8, <2>1, CallMoves, Zenon
  <1>10. /\ report' \in [Callers -> [segment_failed : BOOLEAN, ok : BOOLEAN]]
         /\ capability' \in [NodeIds -> EndpointIds \cup {None}]
    BY Zenon DEF DispatchTypeOK
  <1> QED
    BY <1>7, <1>9, <1>10, OthersTyped, Zenon

\* get_node
LEMMA LoadRowStep ==
  ASSUME TypeOK, DispatchTypeOK, DispatchInv, NEW w \in Callers, LoadRow(w)
  PROVE  DispatchTypeOK' /\ DispatchInv'
  <1> DEFINE c == call[w]
             row == nodes[NodeOn(c, Side(w))]
             rows == [c.rows EXCEPT ![Side(w)] = row]
  <1>1. /\ c # Idle /\ Head(c.todo).op = "row"
        /\ call' = [call EXCEPT ![w].todo = Tail(@), ![w].rows[Side(w)] = row]
        /\ UNCHANGED <<nodes, trust, maintained, late, report, capability>>
    BY Zenon DEF LoadRow, Doing, RegistryUnchanged
  <1>2. c \in CallRow /\ Side(w) \in Sides
    BY <1>1, HeadFacts, Zenon
  <1>3. row \in NodeRow \cup {None}
    BY <1>2, EndTyped, Zenon DEF TypeOK
  <1>4. rows \in [Sides -> NodeRow \cup {None}] /\ \A s \in Sides : s # Side(w) => rows[s] = c.rows[s]
    BY <1>2, <1>3, CallFields, Zenon
  <1>5. call' = [call EXCEPT ![w] = [c EXCEPT !.todo = Tail(@), !.rows = rows]]
    <2>1. call \in [Callers -> CallRow \cup {Idle}]
      BY Zenon DEF DispatchTypeOK
    <2> QED
      BY <1>1, <1>2, <2>1, Zenon DEF CallRow
  <1> HIDE DEF rows
  <1> QED
    <2>1. /\ Head(c.todo).op # "send" /\ Head(c.todo).op # "usable" /\ Head(c.todo).op # "gate"
          /\ \A s \in Sides : rows[s] = c.rows[s] \/ (Head(c.todo).op = "row" /\ s = Side(w))
      BY <1>1, <1>4, Zenon
    <2> QED
      BY <1>1, <1>4, <1>5, <2>1, AdvanceStep, Zenon

\* A check that passes.
LEMMA PassStep ==
  ASSUME DispatchTypeOK, DispatchInv, NEW w \in Callers, call[w] # Idle,
         Head(call[w].todo).op \in {"usable", "window", "trust", "gate"},
         Passes(w), Advance(w),
         UNCHANGED <<nodes, trust, maintained, late, report, capability>>
  PROVE  DispatchTypeOK' /\ DispatchInv'
  <1> DEFINE c == call[w]
             rows == c.rows
  <1>1. c \in CallRow /\ Side(w) \in Sides /\ rows \in [Sides -> NodeRow \cup {None}]
    BY HeadFacts, CallFields, Zenon
  <1>2. call' = [call EXCEPT ![w] = [c EXCEPT !.todo = Tail(@), !.rows = rows]]
    <2>1. call \in [Callers -> CallRow \cup {Idle}]
      BY Zenon DEF DispatchTypeOK
    <2> QED
      BY <1>1, <2>1, Zenon DEF CallRow, Advance
  <1>3. /\ Head(c.todo).op = "usable" => rows[Side(w)] # None
        /\ Head(c.todo).op = "gate" => Trusted(c, Side(w))
    BY Zenon DEF Passes
  <1>4. Head(c.todo).op # "send"
    BY Zenon
  <1> QED
    BY <1>1, <1>2, <1>3, <1>4, AdvanceStep, Zenon

\* The call of w is over.
LEMMA EndStep ==
  ASSUME DispatchTypeOK, DispatchInv, NEW w \in Callers, call' = [call EXCEPT ![w] = Idle],
         UNCHANGED <<nodes, trust, maintained>>,
         late' \in [Callers -> [Sides -> Nat]],
         \A v \in Callers \ {w} : late'[v] = late[v],
         \A s \in Sides : late'[w][s] <= 1,
         report' \in [Callers -> [segment_failed : BOOLEAN, ok : BOOLEAN]],
         capability' \in [NodeIds -> EndpointIds \cup {None}]
  PROVE  DispatchTypeOK' /\ DispatchInv'
  <1>1. Idle \in CallRow \cup {Idle}
    BY Zenon
  <1>2. DispatchInv' /\ call' \in [Callers -> CallRow \cup {Idle}]
    BY <1>1, CallMoves, Zenon
  <1> QED
    BY <1>2, OthersTyped, Zenon

\* The preflight of a call.
LEMMA PreflightedStep ==
  ASSUME DispatchTypeOK, DispatchInv, NEW w \in Callers, Preflighted(w)
  PROVE  DispatchTypeOK' /\ DispatchInv'
  <1>1. /\ call[w] # Idle /\ Head(call[w].todo).op \in {"usable", "window", "trust", "gate"}
        /\ UNCHANGED <<nodes, trust, maintained, late, capability>>
    BY Zenon DEF Preflighted, Doing, RegistryUnchanged
  <1>2. CASE Passes(w)
    BY <1>1, <1>2, PassStep, Zenon DEF Preflighted
  <1>3. CASE ~Passes(w)
    <2>1. report' = [report EXCEPT ![w] = NoReport] /\ call' = [call EXCEPT ![w] = Idle]
      BY <1>3, Zenon DEF Preflighted
    <2>2. /\ late' \in [Callers -> [Sides -> Nat]] /\ \A v \in Callers \ {w} : late'[v] = late[v]
          /\ \A s \in Sides : late'[w][s] <= 1
          /\ capability' \in [NodeIds -> EndpointIds \cup {None}]
      BY <1>1, Zenon DEF DispatchTypeOK, DispatchInv, WithdrawalStopsCalls
    <2>3. report' \in [Callers -> [segment_failed : BOOLEAN, ok : BOOLEAN]]
      BY <2>1, Zenon DEF DispatchTypeOK, NoReport, Report
    <2> QED
      BY <1>1, <2>1, <2>2, <2>3, EndStep, Zenon
  <1> QED
    BY <1>2, <1>3, Zenon

\* The snapshot a call stores is of an endpoint of the registry.
LEMMA CapabilityTyped ==
  ASSUME TypeOK, DispatchTypeOK, NEW c \in CallRow, NEW result, WritesCapability(c, result)
  PROVE  /\ capability' \in [NodeIds -> EndpointIds \cup {None}]
         /\ \/ UNCHANGED capability
            \/ \E n \in NodeIds : /\ nodes[n] # None
                                  /\ capability' = [capability EXCEPT ![n] = nodes[n].endpoint_id]
  <1> DEFINE n == NodeOn(c, "source")
             e == EndpointOn(c, "source")
  <1>1. n \in NodeIds
    BY EndTyped, Zenon DEF Sides
  <1>2. CASE UNCHANGED capability
    BY <1>2, Zenon DEF DispatchTypeOK
  <1>3. CASE ~UNCHANGED capability
    <2>1. /\ nodes[n] # None /\ nodes[n].endpoint_id = e
          /\ capability' = [capability EXCEPT ![n] = e]
      BY <1>3, Zenon DEF WritesCapability, CapabilityCurrent
    <2>2. e \in EndpointIds
      BY <1>1, <2>1, Zenon DEF TypeOK, NodeRow
    <2> QED
      BY <1>1, <2>1, <2>2, Zenon DEF DispatchTypeOK
  <1> QED
    BY <1>2, <1>3, Zenon

\* A method of a call is over, refused or answered.  The call is at a gate or a
\* request, so that its rows are loaded; whatever it sent late it sent to an end
\* that is withdrawn.
LEMMA MethodEndsStep ==
  ASSUME TypeOK, DispatchTypeOK, DispatchInv, NEW w \in Callers, call[w] # Idle,
         Head(call[w].todo).op \in {"gate", "send"},
         NEW result \in Results, MethodEnds(w, result),
         UNCHANGED <<nodes, trust, maintained>>,
         late' \in [Callers -> [Sides -> Nat]],
         \A v \in Callers \ {w} : late'[v] = late[v],
         \A s \in Sides : late'[w][s] <= 1,
         \A s \in Sides : late'[w][s] # 0 =>
           HasEnd(call[w], s) /\ call[w].rows[s] # None /\ ~Trusted(call[w], s)
  PROVE  DispatchTypeOK' /\ DispatchInv'
  <1> DEFINE c == call[w]
             results == Append(c.results, result)
  <1>1. /\ c \in CallRow /\ RowsLoaded(c) /\ c.results \in Seq(Results) /\ c.attempt \in Nat
        /\ \A i \in DOMAIN c.todo : c.todo[i].op \in {"gate", "send"}
    BY HeadFacts, CallFields, Zenon
  <1>2. \A s \in Sides : HasEnd(c, s) => c.rows[s] # None
    <2>1. \A s : Step("usable", s).op \notin {"gate", "send"}
      BY Zenon DEF Step
    <2> QED
      BY <1>1, <2>1, Zenon DEF RowsLoaded
  <1>3. results \in Seq(Results) /\ <<>> \in Seq(Results) /\ c.attempt + 1 \in Nat
    BY <1>1
  <1>4. ASSUME NEW rs \in Seq(Results), NEW a \in Nat, NextMethod(w, rs, a)
        PROVE  DispatchTypeOK' /\ DispatchInv'
    <2> DEFINE q == MethodSteps(c.kind, FALSE)
               d == [c EXCEPT !.results = rs, !.attempt = a, !.todo = q]
    <2>1. /\ Requests(q)
          /\ \A s \in Sides : s = "source" \/ IsPath(c.kind) =>
               \E i \in 1..Len(q) : q[i] = Step("gate", s)
      <3>1. Requests(MethodSteps(c.kind, FALSE))
        BY MethodRequests, Zenon
      <3>2. ASSUME NEW s \in Sides, s = "source" \/ IsPath(c.kind)
            PROVE  \E i \in 1..Len(q) : q[i] = Step("gate", s)
        <4>1. \A t \in Sides : t = "source" \/ IsPath(c.kind) =>
                \E i \in 1..Len(MethodSteps(c.kind, FALSE)) :
                  MethodSteps(c.kind, FALSE)[i] = Step("gate", t)
          BY MethodRequests, Zenon
        <4> QED
          BY <3>2, <4>1, Zenon
      <3> QED
        BY <3>1, <3>2, Zenon
    <2> HIDE DEF q
    <2>2. /\ q \in Seq(StepRow) /\ DOMAIN q = 1..Len(q) /\ StepsOrdered(q)
          /\ \A i \in DOMAIN q : q[i].op \in {"gate", "send"}
      <3>1. q \in Seq(StepRow) /\ \A i \in 1..Len(q) : q[i].op \in {"gate", "send"}
        BY <2>1, Zenon DEF Requests
      <3>2. DOMAIN q = 1..Len(q)
        BY <3>1
      <3>3. StepsOrdered(q)
        BY <2>1, MethodOrdered, Zenon
      <3> QED
        BY <3>1, <3>2, <3>3, Zenon
    <2>3. call' = [call EXCEPT ![w] = d] /\ UNCHANGED <<report, capability>>
      <3>1. call \in [Callers -> CallRow \cup {Idle}]
        BY Zenon DEF DispatchTypeOK
      <3> QED
        BY <1>1, <1>4, <3>1, Zenon DEF NextMethod, CallRow, q
    <2>4. d \in CallRow /\ d.todo = q /\ d.rows = c.rows /\ d.kind = c.kind /\ d.ends = c.ends
      BY <1>1, <2>2, Zenon DEF CallRow
    <2> HIDE DEF d
    <2>5. RowsLoaded(d)
      BY <1>2, <2>4, Zenon DEF RowsLoaded, HasEnd
    <2>6. ASSUME NEW s \in Sides, late'[w][s] # 0
          PROVE  HeldBack(d, s)
      <3>1. HasEnd(c, s) /\ c.rows[s] # None /\ ~Trusted(c, s)
        BY <2>6, Zenon
      <3>2. Trusted(d, s) = Trusted(c, s)
        BY <2>4, Zenon DEF Trusted, NodeOn, EndpointOn
      <3> QED
        BY <2>1, <2>2, <2>4, <3>1, <3>2, Zenon DEF HeldBack, HasEnd
    <2>7. DispatchInv' /\ call' \in [Callers -> CallRow \cup {Idle}]
      <3>1. StepsOrdered(d.todo) /\ \A s \in Sides : late'[w][s] # 0 => HeldBack(d, s)
        BY <2>2, <2>4, <2>6, Zenon
      <3> QED
        BY <2>3, <2>4, <2>5, <3>1, CallMoves
    <2>8. /\ report' \in [Callers -> [segment_failed : BOOLEAN, ok : BOOLEAN]]
          /\ capability' \in [NodeIds -> EndpointIds \cup {None}]
      BY <2>3, Zenon DEF DispatchTypeOK
    <2> QED
      BY <2>7, <2>8, OthersTyped, Zenon
  <1>5. ASSUME CallEnds(w, results)
        PROVE  DispatchTypeOK' /\ DispatchInv'
    <2>1. WritesCapability(c, results[Len(results)]) /\ call' = [call EXCEPT ![w] = Idle]
      BY <1>5, Zenon DEF CallEnds
    <2>2. capability' \in [NodeIds -> EndpointIds \cup {None}]
      BY <1>1, <2>1, CapabilityTyped, Zenon
    <2>3. report' \in [Callers -> [segment_failed : BOOLEAN, ok : BOOLEAN]]
      <3> DEFINE f == \E i \in DOMAIN results : results[i] = "path_failed"
                 o == ObservedOk(c.kind, results)
      <3>1. report' = [report EXCEPT ![w] = Report(f, o)]
        BY <1>5, Zenon DEF CallEnds
      <3>2. f \in BOOLEAN /\ o \in BOOLEAN
        <4>1. /\ StatusOk(results) \in BOOLEAN /\ JobStatusOk(results) \in BOOLEAN
              /\ JobPathOk(results[1]) \in BOOLEAN /\ PathOk(results[1]) \in BOOLEAN
              /\ (results[1] = "ok") \in BOOLEAN
          BY DEF StatusOk, JobStatusOk, JobPathOk, PathOk
        <4> HIDE DEF results
        <4> QED
          BY <4>1, Zenon DEF ObservedOk
      <3> HIDE DEF f, o
      <3>3. Report(f, o) \in [segment_failed : BOOLEAN, ok : BOOLEAN]
        BY <3>2, Zenon DEF Report
      <3> QED
        BY <3>1, <3>3, Zenon DEF DispatchTypeOK
    <2> QED
      BY <2>1, <2>2, <2>3, EndStep, Zenon
  <1>6. \/ NextMethod(w, results, c.attempt) \/ NextMethod(w, <<>>, c.attempt + 1)
        \/ CallEnds(w, results)
    BY Zenon DEF MethodEnds
  <1> HIDE DEF results, c
  <1> QED
    BY <1>1, <1>3, <1>4, <1>5, <1>6, Zenon

\* ensure_fixed_rpc_trust
LEMMA GateStep ==
  ASSUME TypeOK, DispatchTypeOK, DispatchInv, NEW w \in Callers, Gate(w)
  PROVE  DispatchTypeOK' /\ DispatchInv'
  <1>1. /\ call[w] # Idle /\ Head(call[w].todo).op = "gate"
        /\ UNCHANGED <<nodes, trust, maintained, late>>
    BY Zenon DEF Gate, Doing, RegistryUnchanged
  <1>2. CASE Passes(w)
    <2>1. Advance(w) /\ UNCHANGED <<report, capability>>
      BY <1>2, Zenon DEF Gate
    <2> QED
      BY <1>1, <1>2, <2>1, PassStep, Zenon
  <1>3. CASE ~Passes(w)
    <2>1. MethodEnds(w, "refused") /\ "refused" \in Results
      BY <1>3, Zenon DEF Gate, Results
    <2>2. /\ late' \in [Callers -> [Sides -> Nat]] /\ \A v \in Callers \ {w} : late'[v] = late[v]
          /\ \A s \in Sides : late'[w][s] <= 1
      BY <1>1, Zenon DEF DispatchTypeOK, DispatchInv, WithdrawalStopsCalls
    <2>3. ASSUME NEW s \in Sides, late'[w][s] # 0
          PROVE  HasEnd(call[w], s) /\ call[w].rows[s] # None /\ ~Trusted(call[w], s)
      <3>1. HeldBack(call[w], s)
        BY <1>1, <2>3, Zenon DEF DispatchInv, LateHeldBack
      <3> QED
        BY <3>1, Zenon DEF HeldBack
    <2> QED
      BY <1>1, <2>1, <2>2, <2>3, MethodEndsStep, Zenon
  <1> QED
    BY <1>2, <1>3, Zenon

\* A request is sent with no gate ahead of it, so that none before it was late.
LEMMA SendStep ==
  ASSUME TypeOK, DispatchTypeOK, DispatchInv, NEW w \in Callers, NEW result \in Results,
         SendRequest(w, result)
  PROVE  DispatchTypeOK' /\ DispatchInv'
  <1> DEFINE c == call[w]
             count == [s \in Sides |-> IF (s = "target" /\ ~IsPath(c.kind)) \/ Trusted(c, s) THEN 0
                                       ELSE late[w][s] + 1]
  <1>1. /\ c # Idle /\ Head(c.todo).op = "send" /\ MethodEnds(w, result)
        /\ late' = [late EXCEPT ![w] = count]
        /\ UNCHANGED <<nodes, trust, maintained>>
    BY Zenon DEF SendRequest, Doing, RegistryUnchanged, DispatchTypeOK
  <1>2. /\ c \in CallRow /\ RowsLoaded(c) /\ DOMAIN c.todo = {1} /\ Head(c.todo) = c.todo[1]
    BY <1>1, HeadFacts, Zenon
  <1>3. ASSUME NEW s \in Sides PROVE late[w][s] = 0
    <2>1. ASSUME late[w][s] # 0 PROVE FALSE
      <3>1. PICK i \in DOMAIN c.todo : c.todo[i] = Step("gate", s)
        BY <1>1, <2>1, Zenon DEF DispatchInv, LateHeldBack, HeldBack
      <3> QED
        BY <1>1, <1>2, <3>1 DEF Step
    <2> QED
      BY <2>1, Zenon
  <1>4. \A s \in Sides : count[s] \in {0, 1} /\ (count[s] # 0 => HasEnd(c, s) /\ ~Trusted(c, s))
    BY <1>3 DEF HasEnd, Sides
  <1>5. count \in [Sides -> Nat]
    BY <1>4
  <1> HIDE DEF count
  <1>6. /\ late' \in [Callers -> [Sides -> Nat]] /\ \A v \in Callers \ {w} : late'[v] = late[v]
        /\ late'[w] = count
    BY <1>1, <1>5, Zenon DEF DispatchTypeOK
  <1>7. \A s \in Sides : late'[w][s] <= 1
    BY <1>4, <1>6
  <1>8. ASSUME NEW s \in Sides, late'[w][s] # 0
        PROVE  HasEnd(c, s) /\ c.rows[s] # None /\ ~Trusted(c, s)
    <2>1. HasEnd(c, s) /\ ~Trusted(c, s)
      BY <1>4, <1>6, <1>8, Zenon
    <2>2. c.rows[s] # None
      <3>1. \A x : Step("usable", x).op # "send"
        BY Zenon DEF Step
      <3> QED
        BY <1>1, <1>2, <2>1, <3>1, Zenon DEF RowsLoaded
    <2> QED
      BY <2>1, <2>2, Zenon
  <1> QED
    BY <1>1, <1>6, <1>7, <1>8, MethodEndsStep, Zenon

-----------------------------------------------------------------------------
(* The registry's side.                                                    *)

\* A retired endpoint stays retired for its node, and a node's pointer moves
\* only away from an endpoint that is retired for it.
Retired(n, e) == trust[e] # None /\ trust[e].status = "rotated" /\ trust[e].node_id = n

\* The same after the step, of an endpoint named before it.
RetiredNext(n, e) == trust'[e] # None /\ trust'[e].status = "rotated" /\ trust'[e].node_id = n

PointersFollow ==
  /\ \A n \in NodeIds, e \in EndpointIds : Retired(n, e) => RetiredNext(n, e)
  /\ \A n \in NodeIds : nodes[n] # None /\ nodes'[n] # None =>
       \/ nodes'[n].endpoint_id = nodes[n].endpoint_id
       \/ RetiredNext(n, nodes[n].endpoint_id)

\* Trust rows change only where they are not retired, and pointers stay.
LEMMA PointersStay ==
  ASSUME TypeOK,
         \A e \in EndpointIds :
           trust'[e] = trust[e] \/ trust[e] = None \/ trust[e].status # "rotated",
         \A n \in NodeIds : nodes[n] # None /\ nodes'[n] # None =>
           nodes'[n].endpoint_id = nodes[n].endpoint_id
  PROVE  PointersFollow
  <1>1. ASSUME NEW n \in NodeIds, NEW e \in EndpointIds, Retired(n, e) PROVE RetiredNext(n, e)
    BY <1>1 DEF Retired, RetiredNext
  <1> QED
    BY <1>1, Zenon DEF PointersFollow

\* Every operation of the registry moves pointers so.
LEMMA StepPointers == TypeOK /\ [Next]_vars => PointersFollow
  <1> SUFFICES ASSUME TypeOK, [Next]_vars PROVE PointersFollow
    BY Zenon
  <1>1. ASSUME NEW n \in NodeIds, NEW e \in EndpointIds, AddNode(n, e) PROVE PointersFollow
    <2>1. /\ trust[e] = None /\ \A f \in EndpointIds \ {e} : trust'[f] = trust[f]
          /\ \A m \in NodeIds : nodes[m] # None => nodes'[m] = nodes[m]
      BY <1>1, Zenon DEF AddNode, TypeOK
    <2> QED
      BY <2>1, PointersStay, Zenon
  <1>2. ASSUME NEW n \in NodeIds, NEW b \in BOOLEAN, SetNodeEnabled(n, b) PROVE PointersFollow
    <2>1. trust' = trust /\ \A m \in NodeIds \ {n} : nodes'[m] = nodes[m]
      BY <1>2, Zenon DEF SetNodeEnabled, TypeOK
    <2>2. nodes'[n].endpoint_id = nodes[n].endpoint_id
      <3>1. nodes[n] \in NodeRow /\ nodes'[n] = [nodes[n] EXCEPT !.enabled = b]
        BY <1>2, Zenon DEF SetNodeEnabled, TypeOK
      <3> QED
        BY <3>1, Zenon DEF NodeRow
    <2> QED
      BY <2>1, <2>2, PointersStay, Zenon
  <1>3. ASSUME NEW n \in NodeIds, RemoveNode(n) PROVE PointersFollow
    <2>1. /\ nodes'[n] = None /\ \A m \in NodeIds \ {n} : nodes'[m] = nodes[m]
          /\ \A e \in EndpointIds : e \notin RemovalCandidates(n) => trust'[e] = trust[e]
      BY <1>3, Zenon DEF RemoveNode, TypeOK
    <2>2. \A e \in EndpointIds : e \in RemovalCandidates(n) => trust[e].status # "rotated"
      BY Zenon DEF RemovalCandidates, ActiveEndpoints, ActiveFor
    <2> QED
      BY <2>1, <2>2, PointersStay, Zenon
  <1>4. ASSUME NEW r \in RequestIds, NEW n \in NodeIds, NEW e \in EndpointIds, ApproveJoin(r, n, e)
        PROVE  PointersFollow
    <2>1. /\ trust[e] = None /\ \A f \in EndpointIds \ {e} : trust'[f] = trust[f]
          /\ \A m \in NodeIds : nodes[m] # None => nodes'[m] = nodes[m]
      BY <1>4, Zenon DEF ApproveJoin, FreshBinding, TypeOK
    <2> QED
      BY <2>1, PointersStay, Zenon
  <1>5. ASSUME NEW r \in RequestIds, NEW n \in NodeIds, NEW e \in EndpointIds, ClaimLegacy(r, n, e)
        PROVE  PointersFollow
    <2>1. /\ trust[e] = OriginalTrust(None, r) /\ \A f \in EndpointIds \ {e} : trust'[f] = trust[f]
          /\ \A m \in NodeIds : nodes[m] # None => nodes'[m] = nodes[m]
      BY <1>5, Zenon DEF ClaimLegacy, LegacyUnboundTrust, FreshBinding, TypeOK
    <2>2. trust[e].status # "rotated"
      BY <2>1 DEF OriginalTrust
    <2> QED
      BY <2>1, <2>2, PointersStay, Zenon
  <1>6. ASSUME NEW old \in EndpointIds, NEW new \in EndpointIds, RotateEndpoint(old, new)
        PROVE  PointersFollow
    <2> DEFINE k == trust[old].node_id
               row == [Transitioned(old, "rotated") EXCEPT !.rotated_to = new]
    <2>1. /\ old # new /\ trust[old] # None /\ trust[old].status \in {"active", "quarantined"}
          /\ trust[new] = None /\ k # None /\ nodes[k] # None /\ nodes[k].endpoint_id = old
          /\ \A e \in EndpointIds \ {old, new} : trust'[e] = trust[e]
          /\ trust'[old] = row
          /\ \A m \in NodeIds \ {k} : nodes'[m] = nodes[m]
      BY <1>6, Zenon DEF RotateEndpoint, RotationBinding, TypeOK
    <2>2. row \in EndpointTrustRecord /\ row.status = "rotated" /\ row.node_id = k
      BY <1>6, <2>1, RotatedType, RotatedFields DEF RotateEndpoint
    <2>3. row # None
      BY <2>2, ConstantsAssumption, Zenon
    <2> HIDE DEF row, k
    <2>4. RetiredNext(k, old)
      BY <2>1, <2>2, <2>3, Zenon DEF Retired, RetiredNext
    <2>5. ASSUME NEW n \in NodeIds, NEW e \in EndpointIds, Retired(n, e) PROVE RetiredNext(n, e)
      <3>1. e # old /\ e # new
        BY <2>1, <2>5, Zenon DEF Retired, RetiredNext
      <3> QED
        BY <2>1, <2>5, <3>1, Zenon DEF Retired, RetiredNext
    <2>6. ASSUME NEW n \in NodeIds, nodes[n] # None, nodes'[n] # None
          PROVE  nodes'[n].endpoint_id = nodes[n].endpoint_id \/ RetiredNext(n, nodes[n].endpoint_id)
      <3>1. CASE n = k
        BY <2>1, <2>4, <3>1, Zenon
      <3>2. CASE n # k
        BY <2>1, <3>2, Zenon
      <3> QED
        BY <3>1, <3>2, Zenon
    <2> QED
      BY <2>5, <2>6, Zenon DEF PointersFollow
  <1>7. ASSUME NEW old \in EndpointIds, NEW new \in EndpointIds, ReconcileRotation(old, new)
        PROVE  PointersFollow
    <2> DEFINE k == trust[old].node_id
    <2>1. /\ trust[old] # None /\ trust[old].status = "rotated" /\ nodes[k].endpoint_id = old
          /\ trust' = trust /\ \A m \in NodeIds \ {k} : nodes'[m] = nodes[m]
      BY <1>7, Zenon DEF ReconcileRotation, TypeOK
    <2>2. \A n \in NodeIds, e \in EndpointIds : RetiredNext(n, e) = Retired(n, e)
      BY <2>1, Zenon DEF Retired, RetiredNext
    <2>3. ASSUME NEW n \in NodeIds, nodes[n] # None, nodes'[n] # None
          PROVE  nodes'[n].endpoint_id = nodes[n].endpoint_id \/ RetiredNext(n, nodes[n].endpoint_id)
      BY <2>1, Zenon DEF Retired, RetiredNext
    <2> QED
      BY <2>2, <2>3, Zenon DEF PointersFollow
  <1>8. ASSUME NEW e \in EndpointIds, NEW s \in {"revoked", "quarantined"}, UpdateEndpointStatus(e, s)
        PROVE  PointersFollow
    <2>1. /\ trust[e].status # "rotated" /\ \A f \in EndpointIds \ {e} : trust'[f] = trust[f]
          /\ nodes' = [n \in NodeIds |->
                 IF n = trust[e].node_id /\ nodes[n] # None /\ nodes[n].endpoint_id = e
                 THEN [nodes[n] EXCEPT !.enabled = FALSE]
                 ELSE nodes[n]]
      BY <1>8, Zenon DEF UpdateEndpointStatus, AllowedStatusChange, TypeOK
    <2>2. ASSUME NEW m \in NodeIds, nodes[m] # None
          PROVE  nodes'[m].endpoint_id = nodes[m].endpoint_id
      <3>1. nodes[m] \in NodeRow
        BY <2>2, Zenon DEF TypeOK
      <3>2. [nodes[m] EXCEPT !.enabled = FALSE].endpoint_id = nodes[m].endpoint_id
        BY <3>1, Zenon DEF NodeRow
      <3> QED
        BY <2>1, <3>2, Zenon
    <2> QED
      BY <2>1, <2>2, PointersStay, Zenon
  <1>9. ASSUME UNCHANGED <<nodes, trust>> PROVE PointersFollow
    BY <1>9, Zenon DEF PointersFollow, Retired, RetiredNext
  <1> QED
    BY <1>1, <1>2, <1>3, <1>4, <1>5, <1>6, <1>7, <1>8, <1>9, SMTT(20)
    DEF Next, vars, CreateToken, Lapse, RevokeToken, SubmitJoin, SubmitExpires, RejectJoin

\* What the operator does to the registry, beside the calls under way: an end that
\* is trusted again starts a new count.
LEMMA RegistryStep ==
  ASSUME TypeOK, DispatchTypeOK, DispatchInv, RegistryChanges
  PROVE  DispatchTypeOK' /\ DispatchInv'
  <1>1. /\ UNCHANGED <<maintained, call, report>>
        /\ capability' = [n \in NodeIds |-> IF nodes'[n] = None THEN None ELSE capability[n]]
        /\ late' = [w \in Callers |-> [s \in Sides |->
             IF call[w] # Idle /\ call[w].rows[s] # None /\ Trusted(call[w], s)'
             THEN 0 ELSE late[w][s]]]
    BY Zenon DEF RegistryChanges
  <1>2. \A w \in Callers, s \in Sides :
          /\ late'[w][s] = 0 \/ late'[w][s] = late[w][s]
          /\ call[w] # Idle /\ call[w].rows[s] # None /\ Trusted(call[w], s)' => late'[w][s] = 0
    BY <1>1, Zenon
  <1>3. late' \in [Callers -> [Sides -> Nat]]
    BY <1>1, Zenon DEF DispatchTypeOK
  <1>4. DispatchTypeOK'
    BY <1>1, <1>3, Zenon DEF DispatchTypeOK
  <1>5. CallsPlanned'
    BY <1>1, Zenon DEF DispatchInv, CallsPlanned
  <1>6. LateHeldBack'
    <2>1. ASSUME NEW w \in Callers, NEW s \in Sides, call[w] # Idle, late'[w][s] # 0
          PROVE  HeldBack(call[w], s)'
      <3>1. HeldBack(call[w], s)
        BY <1>2, <2>1, Zenon DEF DispatchInv, LateHeldBack
      <3>2. ~Trusted(call[w], s)'
        BY <1>2, <2>1, <3>1, Zenon DEF HeldBack
      <3> QED
        BY <1>1, <3>1, <3>2, Zenon DEF HeldBack, HasEnd
    <2> QED
      BY <1>1, <2>1, Zenon DEF LateHeldBack
  <1>7. WithdrawalStopsCalls'
    <2>1. \A w \in Callers, s \in Sides : late[w][s] <= 1
      BY Zenon DEF DispatchInv, WithdrawalStopsCalls
    <2>2. \A w \in Callers, s \in Sides : late'[w][s] <= 1
      BY <1>2, <2>1
    <2> QED
      BY <2>2, Zenon DEF WithdrawalStopsCalls
  <1> QED
    BY <1>4, <1>5, <1>6, <1>7, Zenon DEF DispatchInv

\* A step that changes neither the registry nor the calls.
LEMMA IdleStep ==
  ASSUME DispatchTypeOK, DispatchInv, maintained' \in SUBSET NodeIds,
         UNCHANGED <<nodes, trust, call, late, report, capability>>
  PROVE  DispatchTypeOK' /\ DispatchInv'
  <1>1. DispatchTypeOK'
    BY Zenon DEF DispatchTypeOK
  <1>2. CallsPlanned' /\ WithdrawalStopsCalls'
    BY Zenon DEF DispatchInv, CallsPlanned, WithdrawalStopsCalls
  <1>3. LateHeldBack'
    <2>1. ASSUME NEW w \in Callers, NEW s \in Sides, call'[w] # Idle, late'[w][s] # 0
          PROVE  HeldBack(call[w], s)'
      <3>1. HeldBack(call[w], s) /\ call'[w] = call[w]
        BY <2>1, Zenon DEF DispatchInv, LateHeldBack
      <3> QED
        BY <3>1, TrustKept, Zenon DEF HeldBack, HasEnd
    <2> QED
      BY <2>1, Zenon DEF LateHeldBack
  <1> QED
    BY <1>1, <1>2, <1>3, Zenon DEF DispatchInv

\* Calls never write the registry.
LEMMA CallsReadOnly ==
  ASSUME [DispatchNext]_dispatchVars
  PROVE  [Next]_vars
  <1>1. ASSUME NEW w \in Callers, CallStep(w) PROVE UNCHANGED <<nodes, trust, tokens, joins, audit>>
    BY <1>1, Zenon DEF CallStep, RunNodeRpcCommand, RunOcservStatusCommand, RunOcservCertCommand,
                RunOcservSessionsSummaryCommand, RunPathProbeCommand, RunJobTask, Begin,
                LoadRow, Preflighted, Gate, SendRequest, RegistryUnchanged
  <1>2. ASSUME NEW n \in NodeIds, MaintenanceChanges(n)
        PROVE  UNCHANGED <<nodes, trust, tokens, joins, audit>>
    BY <1>2, Zenon DEF MaintenanceChanges
  <1>3. CASE RegistryChanges
    BY <1>3, Zenon DEF RegistryChanges
  <1>4. CASE UNCHANGED dispatchVars
    BY <1>4 DEF dispatchVars, vars
  <1> QED
    BY <1>1, <1>2, <1>3, <1>4, Zenon DEF DispatchNext, vars

\* Every step keeps the invariant.
LEMMA DispatchStep ==
  ASSUME TypeOK, DispatchTypeOK, DispatchInv, [DispatchNext]_dispatchVars
  PROVE  DispatchTypeOK' /\ DispatchInv'
  <1>1. ASSUME NEW w \in Callers, CallStep(w) PROVE DispatchTypeOK' /\ DispatchInv'
    <2>1. ASSUME NEW n \in NodeIds, NEW m \in NodeIds, NEW kind, Begin(w, kind, n, m),
                 kind \in {"node", "capabilities", "status", "path", "job_node", "job_status",
                           "job_path"}
          PROVE  DispatchTypeOK' /\ DispatchInv'
      BY <2>1, BeginStep, Zenon
    <2>2. ASSUME NEW result \in Results, SendRequest(w, result) PROVE DispatchTypeOK' /\ DispatchInv'
      BY <2>2, SendStep, Zenon
    <2>3. CASE LoadRow(w) \/ Preflighted(w) \/ Gate(w)
      BY <2>3, LoadRowStep, PreflightedStep, GateStep, Zenon
    <2> QED
      BY <1>1, <2>1, <2>2, <2>3, Zenon
      DEF CallStep, RunNodeRpcCommand, RunOcservStatusCommand, RunOcservCertCommand,
          RunOcservSessionsSummaryCommand, RunPathProbeCommand, RunJobTask
  <1>2. ASSUME NEW n \in NodeIds, MaintenanceChanges(n) PROVE DispatchTypeOK' /\ DispatchInv'
    <2>1. /\ maintained' \in SUBSET NodeIds
          /\ UNCHANGED <<nodes, trust, call, late, report, capability>>
      BY <1>2, Zenon DEF MaintenanceChanges, DispatchTypeOK
    <2> QED
      BY <2>1, IdleStep, Zenon
  <1>3. CASE UNCHANGED dispatchVars
    <2>1. /\ maintained' \in SUBSET NodeIds
          /\ UNCHANGED <<nodes, trust, call, late, report, capability>>
      BY <1>3, Zenon DEF dispatchVars, DispatchTypeOK
    <2> QED
      BY <2>1, IdleStep, Zenon
  <1> QED
    BY <1>1, <1>2, <1>3, RegistryStep, Zenon DEF DispatchNext

\* No call is under way when the controller starts.
LEMMA DispatchStarts ==
  ASSUME DispatchInit
  PROVE  DispatchTypeOK /\ DispatchInv /\ CapabilityOfBinding
  <1>1. DispatchTypeOK
    BY Zenon DEF DispatchInit, DispatchTypeOK, NoReport, Report
  <1>2. (\A w \in Callers : call[w] = Idle) /\ \A w \in Callers, s \in Sides : late[w][s] = 0
    BY Zenon DEF DispatchInit
  <1>3. DispatchInv
    <2>1. WithdrawalStopsCalls
      BY <1>2 DEF WithdrawalStopsCalls
    <2> QED
      BY <1>2, <2>1, Zenon DEF DispatchInv, CallsPlanned, LateHeldBack
  <1>4. CapabilityOfBinding
    BY Zenon DEF DispatchInit, CapabilityOfBinding
  <1> QED
    BY <1>1, <1>3, <1>4, Zenon

\* A snapshot is stored for the endpoint the node points at, and the node's pointer
\* then moves only away from retired endpoints.
LEMMA CapabilityStep ==
  ASSUME TypeOK, DispatchTypeOK, DispatchInv, CapabilityOfBinding, [DispatchNext]_dispatchVars
  PROVE  CapabilityOfBinding'
  <1>1. CASE RegistryChanges
    <2>1. PointersFollow
      BY <1>1, StepPointers, Zenon DEF RegistryChanges
    <2>2. capability' = [n \in NodeIds |-> IF nodes'[n] = None THEN None ELSE capability[n]]
      BY <1>1, Zenon DEF RegistryChanges
    <2>3. ASSUME NEW n \in NodeIds, capability'[n] # None
          PROVE  /\ nodes'[n] # None
                 /\ nodes'[n].endpoint_id = capability'[n] \/ RetiredNext(n, capability'[n])
      <3>1. nodes'[n] # None /\ capability'[n] = capability[n] /\ capability[n] # None
        BY <2>2, <2>3, Zenon
      <3>2. nodes[n] # None /\ (nodes[n].endpoint_id = capability[n] \/ Retired(n, capability[n]))
        BY <3>1, Zenon DEF CapabilityOfBinding, Retired, RetiredNext
      <3>3. capability[n] \in EndpointIds
        BY <3>1, Zenon DEF DispatchTypeOK
      <3>4. \/ nodes'[n].endpoint_id = capability[n]
            \/ RetiredNext(n, capability[n])
        BY <2>1, <3>1, <3>2, <3>3, Zenon DEF PointersFollow, Retired, RetiredNext
      <3> QED
        BY <3>1, <3>4, Zenon DEF Retired, RetiredNext
    <2> QED
      BY <2>3, Zenon DEF CapabilityOfBinding, Retired, RetiredNext
  <1>2. ASSUME UNCHANGED <<nodes, trust>>,
               \/ UNCHANGED capability
               \/ \E n \in NodeIds : /\ nodes[n] # None
                                     /\ capability' = [capability EXCEPT ![n] = nodes[n].endpoint_id]
        PROVE  CapabilityOfBinding'
    <2>1. CASE UNCHANGED capability
      BY <1>2, <2>1 DEF CapabilityOfBinding
    <2>2. ASSUME NEW n \in NodeIds, nodes[n] # None,
                 capability' = [capability EXCEPT ![n] = nodes[n].endpoint_id]
          PROVE  CapabilityOfBinding'
      <3>1. /\ capability'[n] = nodes[n].endpoint_id
            /\ \A m \in NodeIds \ {n} : capability'[m] = capability[m]
        BY <2>2, Zenon DEF DispatchTypeOK
      <3> QED
        BY <1>2, <2>2, <3>1, Zenon DEF CapabilityOfBinding
    <2> QED
      BY <1>2, <2>1, <2>2, Zenon
  <1>3. ASSUME NEW w \in Callers, NEW result \in Results, call[w] # Idle, MethodEnds(w, result),
               UNCHANGED <<nodes, trust>>
        PROVE  CapabilityOfBinding'
    <2>1. UNCHANGED capability \/ \E x : WritesCapability(call[w], x)
      BY <1>3, Zenon DEF MethodEnds, NextMethod, CallEnds
    <2>2. call[w] \in CallRow
      BY <1>3, CallFacts, Zenon
    <2> QED
      BY <1>2, <1>3, <2>1, <2>2, CapabilityTyped, Zenon
  <1>4. ASSUME NEW w \in Callers, CallStep(w) PROVE CapabilityOfBinding'
    <2>1. CASE UNCHANGED <<nodes, trust, capability>>
      BY <1>2, <2>1, Zenon
    <2>2. CASE Gate(w)
      <3>1. /\ call[w] # Idle /\ UNCHANGED <<nodes, trust>> /\ "refused" \in Results
            /\ UNCHANGED capability \/ MethodEnds(w, "refused")
        BY <2>2, Zenon DEF Gate, Doing, RegistryUnchanged, Results
      <3> QED
        BY <1>2, <1>3, <3>1, Zenon
    <2>3. ASSUME NEW result \in Results, SendRequest(w, result) PROVE CapabilityOfBinding'
      <3>1. call[w] # Idle /\ UNCHANGED <<nodes, trust>> /\ MethodEnds(w, result)
        BY <2>3, Zenon DEF SendRequest, Doing, RegistryUnchanged
      <3> QED
        BY <1>3, <3>1, Zenon
    <2>4. \/ UNCHANGED <<nodes, trust, capability>> \/ Gate(w)
          \/ \E result \in Results : SendRequest(w, result)
      BY <1>4, Zenon DEF CallStep, RunNodeRpcCommand, RunOcservStatusCommand, RunOcservCertCommand,
                  RunOcservSessionsSummaryCommand, RunPathProbeCommand, RunJobTask, Begin,
                  LoadRow, Preflighted, RegistryUnchanged
    <2> QED
      BY <2>1, <2>2, <2>3, <2>4
  <1>5. ASSUME NEW n \in NodeIds, MaintenanceChanges(n) PROVE CapabilityOfBinding'
    BY <1>2, <1>5, Zenon DEF MaintenanceChanges
  <1>6. CASE UNCHANGED dispatchVars
    BY <1>2, <1>6, Zenon DEF dispatchVars
  <1> QED
    BY <1>1, <1>4, <1>5, <1>6, Zenon DEF DispatchNext

-----------------------------------------------------------------------------
(* The theorems.                                                           *)

\* Calls read the registry and never write it: a controller that dispatches
\* implements the registry alone, so that every theorem about Spec holds of it.
THEOREM DispatchKeepsRegistry == DispatchSpec => Spec
  <1>1. DispatchInit => Init
    BY Zenon DEF DispatchInit
  <1>2. [DispatchNext]_dispatchVars => [Next]_vars
    BY CallsReadOnly, Zenon
  <1> QED
    BY <1>1, <1>2, PTL DEF DispatchSpec, Spec

\* Every call keeps its steps in order and its rows loaded, and one that sent a
\* request late is held back by a gate.
THEOREM DispatchInvariant == DispatchSpec => [](TypeOK /\ DispatchTypeOK /\ DispatchInv)
  <1>1. DispatchInit => DispatchTypeOK /\ DispatchInv
    BY DispatchStarts, Zenon
  <1>2. TypeOK /\ DispatchTypeOK /\ DispatchInv /\ [DispatchNext]_dispatchVars
          => (DispatchTypeOK /\ DispatchInv)'
    BY DispatchStep, Zenon
  <1> QED
    BY <1>1, <1>2, DispatchKeepsRegistry, TypeCorrect, PTL DEF DispatchSpec

\* However registry operations and calls interleave, a call sends at most one
\* request to an end after its trust was withdrawn: the one that had passed its
\* gate (ensure_fixed_rpc_trust).
THEOREM WithdrawalsStopCalls == DispatchSpec => []WithdrawalStopsCalls
  <1>1. DispatchInv => WithdrawalStopsCalls
    BY Zenon DEF DispatchInv
  <1> QED
    BY <1>1, DispatchInvariant, PTL

\* The capabilities on record for a node are those of the endpoint it points at,
\* or of one rotated away from it (upsert_node_capability_snapshot_with_audit).
THEOREM CapabilitiesOfBinding == DispatchSpec => []CapabilityOfBinding
  <1>1. DispatchInit => CapabilityOfBinding
    BY DispatchStarts, Zenon
  <1>2. TypeOK /\ DispatchTypeOK /\ DispatchInv /\ CapabilityOfBinding
          /\ [DispatchNext]_dispatchVars => CapabilityOfBinding'
    BY CapabilityStep, Zenon
  <1> QED
    BY <1>1, <1>2, DispatchInvariant, PTL DEF DispatchSpec
=============================================================================
