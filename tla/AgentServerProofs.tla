-------------------------- MODULE AgentServerProofs --------------------------
(***************************************************************************)
(* Proofs about the agent's RPC server, for any number of connections,     *)
(* streams, endpoints and requests and any limits, about its audit writer  *)
(* (AgentAudit), for any events, limits, crashes and outages, and about    *)
(* its limiter of audit events (AuditLimiter), for any limits.             *)
(***************************************************************************)
EXTENDS AgentServer, AgentAudit, FiniteSetTheorems, TLAPS

\* A set with one element has one.
LEMMA OneElement ==
  ASSUME NEW x
  PROVE  IsFiniteSet({x}) /\ Cardinality({x}) = 1
  <1>1. IsFiniteSet({}) /\ Cardinality({}) = 0
    BY FS_EmptySet, Zenon
  <1>2. x \notin {} /\ {} \cup {x} = {x}
    BY Zenon
  <1>3. IsFiniteSet({} \cup {x}) /\ Cardinality({} \cup {x}) = Cardinality({}) + 1
    BY <1>1, <1>2, FS_AddElement, Zenon
  <1> QED
    BY <1>1, <1>2, <1>3

-----------------------------------------------------------------------------
(* The nonce cache.                                                         *)

\* Pruning lowers the total by what it removed.
LEMMA PruneCounts ==
  ASSUME NonceBookkeeping, IsFiniteSet(peers), NEW now
  PROVE  LET live == peers \ Pruned(now) IN
         /\ IsFiniteSet(live)
         /\ Pruned(now) \subseteq peers
         /\ live = expirations \ Popped(now)
         /\ MonusOne(live_total, Cardinality(Pruned(now))) = Cardinality(live)
         /\ Cardinality(live) \in Nat
  <1> DEFINE live == peers \ Pruned(now)
             gone == Pruned(now)
  <1>1. peers = expirations /\ live_total = Cardinality(peers)
    BY Zenon DEF NonceBookkeeping
  <1>2. gone = Popped(now) /\ gone \subseteq peers
    BY <1>1, Zenon DEF Pruned, Popped
  <1>3. IsFiniteSet(gone) /\ Cardinality(gone) <= Cardinality(peers)
    BY <1>2, FS_Subset, Zenon
  <1> HIDE DEF gone
  <1>4. IsFiniteSet(peers \ gone) /\ Cardinality(peers \ gone) = Cardinality(peers) - Cardinality(peers \cap gone)
    BY FS_Difference, Zenon
  <1>5. peers \cap gone = gone
    BY <1>2, Zenon
  <1>6. Cardinality(peers) \in Nat /\ Cardinality(gone) \in Nat
    BY <1>3, FS_CardinalityType, Zenon
  <1>7. MonusOne(live_total, Cardinality(gone)) = Cardinality(peers \ gone)
    BY <1>1, <1>3, <1>4, <1>5, <1>6 DEF MonusOne
  <1>8. Cardinality(peers \ gone) \in Nat
    BY <1>4, FS_CardinalityType, Zenon
  <1>9. peers \ gone = expirations \ Popped(now)
    BY <1>1, <1>2, Zenon
  <1> QED
    BY <1>2, <1>4, <1>7, <1>8, <1>9, Zenon DEF gone

\* register_at keeps the map, the heap and the total in agreement and within
\* both limits, whether it accepts the nonce or not.
LEMMA RegisterKeeps ==
  ASSUME NonceBookkeeping, IsFiniteSet(peers), NEW p, NEW n, NEW ttl, NEW now,
         Register(p, n, ttl, now)
  PROVE  /\ NonceBookkeeping' /\ IsFiniteSet(peers')
         /\ live_total' \in Nat
  <1> DEFINE live  == peers \ Pruned(now)
             mine  == {e \in live : e.peer = p}
             entry == ExpiryEntry(p, n, now + ttl)
  <1>1. /\ IsFiniteSet(live) /\ Pruned(now) \subseteq peers
        /\ live = expirations \ Popped(now)
        /\ MonusOne(live_total, Cardinality(Pruned(now))) = Cardinality(live)
        /\ Cardinality(live) \in Nat
    BY PruneCounts, Zenon
  <1>2. live \subseteq peers
    BY Zenon
  <1>3. /\ live_total = Cardinality(peers) /\ live_total <= MaxLiveGlobal
        /\ \A e \in peers : Cardinality({f \in peers : f.peer = e.peer}) <= MaxLivePerPeer
        /\ \A e, f \in peers : e.peer = f.peer /\ e.nonce = f.nonce => e = f
    BY Zenon DEF NonceBookkeeping
  <1>4. MaxLiveGlobal \in Nat /\ MaxLivePerPeer \in Nat /\ Cardinality(peers) \in Nat
    BY NonceAssumption, FS_CardinalityType, Zenon
  <1>5. Cardinality(live) <= Cardinality(peers)
    BY <1>2, FS_Subset, Zenon
  <1>6. ASSUME NEW r
        PROVE  /\ IsFiniteSet({f \in live : f.peer = r})
               /\ Cardinality({f \in live : f.peer = r}) <= Cardinality({f \in peers : f.peer = r})
               /\ Cardinality({f \in live : f.peer = r}) \in Nat
               /\ Cardinality({f \in peers : f.peer = r}) \in Nat
    <2>1. {f \in peers : f.peer = r} \subseteq peers
      BY Zenon
    <2>2. IsFiniteSet({f \in peers : f.peer = r})
      BY <2>1, FS_Subset, Zenon
    <2>3. {f \in live : f.peer = r} \subseteq {f \in peers : f.peer = r}
      BY <1>2, Zenon
    <2>4. /\ IsFiniteSet({f \in live : f.peer = r})
          /\ Cardinality({f \in live : f.peer = r}) <= Cardinality({f \in peers : f.peer = r})
      BY <2>2, <2>3, FS_Subset, Zenon
    <2> QED
      BY <2>2, <2>4, FS_CardinalityType, Zenon
  <1>7. ASSUME NEW e \in live
        PROVE  Cardinality({f \in live : f.peer = e.peer}) <= MaxLivePerPeer
    <2>1. Cardinality({f \in peers : f.peer = e.peer}) <= MaxLivePerPeer
      BY <1>2, <1>3, Zenon
    <2>2. /\ Cardinality({f \in live : f.peer = e.peer}) <= Cardinality({f \in peers : f.peer = e.peer})
          /\ Cardinality({f \in live : f.peer = e.peer}) \in Nat
          /\ Cardinality({f \in peers : f.peer = e.peer}) \in Nat
      BY <1>6, Zenon
    <2> QED
      BY <1>4, <2>1, <2>2
  <1>8. CASE NonceDecision(p, n, now) # "Accepted"
    <2>1. peers' = live \cup {} /\ expirations' = live \cup {} /\ live_total' = Cardinality(live) + Cardinality({})
      BY <1>1, <1>8, Zenon DEF Register
    <2>2. peers' = live /\ expirations' = live /\ live_total' = Cardinality(live)
      BY <1>1, <2>1, FS_EmptySet
    <2>3. Cardinality(live) <= MaxLiveGlobal
      BY <1>1, <1>3, <1>4, <1>5
    <2>4. \A e, f \in live : e.peer = f.peer /\ e.nonce = f.nonce => e = f
      BY <1>2, <1>3, Zenon
    <2> HIDE DEF live
    <2> QED
      BY <1>1, <1>7, <2>2, <2>3, <2>4, Zenon DEF NonceBookkeeping
  <1>9. CASE NonceDecision(p, n, now) = "Accepted"
    <2>1. /\ ~\E e \in mine : e.nonce = n
          /\ ~(Cardinality(mine) >= MaxLivePerPeer)
          /\ ~(Cardinality(live) >= MaxLiveGlobal)
      BY <1>1, <1>9, Zenon DEF NonceDecision
    <2>2. entry.peer = p /\ entry.nonce = n
      BY Zenon DEF ExpiryEntry
    <2> HIDE DEF entry
    <2>3. entry \notin live
      BY <2>1, <2>2, Zenon
    <2>4. /\ peers' = live \cup {entry} /\ expirations' = live \cup {entry}
          /\ live_total' = Cardinality(live) + 1
      <3>1. /\ peers' = live \cup {entry}
            /\ expirations' = (expirations \ Popped(now)) \cup {entry}
            /\ live_total' = MonusOne(live_total, Cardinality(Pruned(now))) + Cardinality({entry})
        BY <1>9, Zenon DEF Register, entry
      <3> QED
        BY <1>1, <3>1, OneElement, Zenon
    <2>5. IsFiniteSet(live \cup {entry}) /\ Cardinality(live \cup {entry}) = Cardinality(live) + 1
      BY <1>1, <2>3, FS_AddElement, Zenon
    <2>6. Cardinality(live) + 1 <= MaxLiveGlobal
      BY <1>1, <1>4, <2>1
    <2>7. \A e, f \in live \cup {entry} : e.peer = f.peer /\ e.nonce = f.nonce => e = f
      BY <1>2, <1>3, <2>1, <2>2, Zenon
    <2>8. ASSUME NEW e \in live \cup {entry}
          PROVE  Cardinality({f \in live \cup {entry} : f.peer = e.peer}) <= MaxLivePerPeer
      <3>1. CASE e.peer = p
        <4>1. {f \in live \cup {entry} : f.peer = e.peer} = mine \cup {entry}
          BY <2>2, <3>1, Zenon
        <4>2. IsFiniteSet(mine) /\ Cardinality(mine) \in Nat
          BY <1>6, Zenon
        <4>3. entry \notin mine
          BY <2>3, Zenon
        <4>4. Cardinality(mine \cup {entry}) = Cardinality(mine) + 1
          BY <4>2, <4>3, FS_AddElement, Zenon
        <4>5. Cardinality(mine) + 1 <= MaxLivePerPeer
          BY <1>4, <2>1, <4>2
        <4> QED
          BY <4>1, <4>4, <4>5, Zenon
      <3>2. CASE e.peer # p
        <4>1. e \in live /\ {f \in live \cup {entry} : f.peer = e.peer} = {f \in live : f.peer = e.peer}
          BY <2>2, <3>2, Zenon
        <4> QED
          BY <1>7, <4>1, Zenon
      <3> QED
        BY <3>1, <3>2, Zenon
    <2>9. peers' = expirations' /\ live_total' = Cardinality(peers') /\ IsFiniteSet(peers')
      BY <2>4, <2>5, Zenon
    <2>10. live_total' <= MaxLiveGlobal /\ live_total' \in Nat
      BY <1>1, <2>4, <2>6
    <2>11. \A e \in peers' : Cardinality({f \in peers' : f.peer = e.peer}) <= MaxLivePerPeer
      <3> HIDE DEF live
      <3> QED
        BY <2>4, <2>8, Zenon
    <2>12. \A e, f \in peers' : e.peer = f.peer /\ e.nonce = f.nonce => e = f
      <3> HIDE DEF live
      <3> QED
        BY <2>4, <2>7, Zenon
    <2> QED
      BY <2>9, <2>10, <2>11, <2>12, Zenon DEF NonceBookkeeping
  <1> QED
    BY <1>8, <1>9, Zenon

-----------------------------------------------------------------------------
(* The answers of the checks.                                               *)

\* The first failed field check exists, and is one of the codes.
LEMMA FirstFlaw ==
  ASSUME NEW failed \in SUBSET (DOMAIN FieldChecks), failed # {}
  PROVE  FieldChecks[Min(failed)] \in ReplyCode /\ FieldChecks[Min(failed)] # None
  <1>1. DOMAIN FieldChecks = 1..6
    BY DEF FieldChecks
  <1>2. failed \subseteq {1, 2, 3, 4, 5, 6}
    BY <1>1
  <1>3. \E x \in failed : \A y \in failed : x <= y
    BY <1>2
  <1>4. Min(failed) \in failed
    BY <1>3, Zenon DEF Min
  <1>5. Min(failed) \in {1, 2, 3, 4, 5, 6}
    BY <1>2, <1>4, Zenon
  <1>6. \A i \in {1, 2, 3, 4, 5, 6} : FieldChecks[i] \in ReplyCode /\ FieldChecks[i] # "none"
    BY DEF FieldChecks, ReplyCode
  <1> QED
    BY <1>5, <1>6, Zenon DEF None

\* A request that passes validation was not issued further ahead of the clock
\* than the skew allows.
LEMMA ValidationFacts ==
  ASSUME clock \in Nat, NEW q \in Requests
  PROVE  /\ Validation(q) \in ReplyCode
         /\ Validation(q) = None => q.issued <= clock + Skew
  <1> DEFINE failed == {i \in DOMAIN FieldChecks : FieldChecks[i] \in q.flaws}
  <1>1. AgeCheck(q) \in ReplyCode /\ (AgeCheck(q) = None => ~(q.issued > clock + Skew))
    BY Zenon DEF AgeCheck, ReplyCode, None
  <1>2. q.issued \in Nat /\ Skew \in Nat
    BY ServerAssumption, Zenon
  <1>3. CASE failed # {}
    <2>1. Validation(q) = FieldChecks[Min(failed)]
      BY <1>3, Zenon DEF Validation
    <2>2. failed \in SUBSET (DOMAIN FieldChecks)
      BY Zenon
    <2> HIDE DEF failed
    <2> QED
      BY <1>3, <2>1, <2>2, FirstFlaw, Zenon
  <1>4. CASE failed = {}
    BY <1>1, <1>2, <1>4 DEF Validation
  <1> QED
    BY <1>3, <1>4, Zenon

\* Neither the nonce nor the authorization answers Ok.
LEMMA DecisionCodes ==
  ASSUME NEW r, NEW q
  PROVE  /\ Authorization(r, q) \in {"EndpointNotAllowed", "MethodNotAllowed", "MethodNotFound",
                                     "ParamsInvalid", "Allowed"}
         /\ NonceDecision(r, q.nonce, clock) \in {"ReplayedNonce", "ResourceExhausted", "Accepted"}
  <1>1. PathProbe(r, q) \in {"EndpointNotAllowed", "ParamsInvalid", "Allowed"}
    BY Zenon DEF PathProbe, PathProbeDecision
  <1>2. Authorization(r, q) \in {"EndpointNotAllowed", "MethodNotAllowed", "MethodNotFound",
                                 "ParamsInvalid", "Allowed"}
    BY <1>1, Zenon DEF Authorization
  <1>3. NonceDecision(r, q.nonce, clock) \in {"ReplayedNonce", "ResourceExhausted", "Accepted"}
    BY Zenon DEF NonceDecision
  <1> QED
    BY <1>2, <1>3, Zenon

-----------------------------------------------------------------------------
(* What a step does: a permit moves with the task that takes or drops it.   *)

Held(holds) == IF holds THEN 1 ELSE 0

Serving(t) == t.pc \notin {"free", "admitted"}

\* The permits and gauges of connections follow the step of connection c.
ConnBalance(c) ==
  LET was == conn[c]
      is  == conn'[c]
  IN
  /\ \A d \in Conns \ {c} : conn'[d] = conn[d]
  /\ permits'.handshake = permits.handshake + Held(was.pc = "handshake") - Held(is.pc = "handshake")
  /\ permits'.connection = permits.connection + Held(was.pc \in {"admitted", "open"})
                                              - Held(is.pc \in {"admitted", "open"})
  /\ \A r \in Remotes :
       permits'.connections_per[r] = permits.connections_per[r]
           + Held(was.pc = "open" /\ was.remote = r) - Held(is.pc = "open" /\ is.remote = r)
  /\ active'.handshake = active.handshake - Held(was.pc = "handshake") + Held(is.pc = "handshake")
  /\ active'.connection = active.connection - Held(was.pc = "open") + Held(is.pc = "open")
  /\ permits'.stream = permits.stream /\ permits'.streams_per = permits.streams_per
  /\ active'.stream = active.stream

\* The permits and the gauge of streams follow the step of stream s.
StreamBalance(s) ==
  LET was == stream[s]
      is  == stream'[s]
  IN
  /\ \A t \in Streams \ {s} : stream'[t] = stream[t]
  /\ permits'.stream = permits.stream + Held(was.pc # "free") - Held(is.pc # "free")
  /\ \A r \in Remotes :
       permits'.streams_per[r] = permits.streams_per[r]
           + Held(Serving(was) /\ was.remote = r) - Held(Serving(is) /\ is.remote = r)
  /\ active'.stream = active.stream - Held(Serving(was)) + Held(Serving(is))
  /\ permits'.handshake = permits.handshake /\ permits'.connection = permits.connection
  /\ permits'.connections_per = permits.connections_per
  /\ active'.handshake = active.handshake /\ active'.connection = active.connection

\* What the invariant says of the task of one stream.
StreamOK(t, now) ==
  /\ t.pc = "valid" => t.request \in Requests /\ t.request.issued <= now + Skew
  /\ t.pc \in {"admitted", "reading"} => t.request = NoRequest
  /\ t.pc = "reply" /\ t.reply = "Ok" /\ t.request.method = PathEcho => "peer_echo" \in t.trail
  /\ t.pc = "writing" =>
       /\ t.reply # "AuditWriteFailed" => t.reply \in t.trail
       /\ t.reply = "Ok" /\ t.request.method = PathEcho => "peer_echo" \in t.trail

\* The types a step can change.
PermitTypes ==
  /\ permits \in [handshake : Nat, connection : Nat, connections_per : [Remotes -> Nat],
                  stream : Nat, streams_per : [Remotes -> Nat]]
  /\ active \in [handshake : Int, connection : Int, stream : Int]

ConnTypes ==
  /\ conn \in [Conns -> ConnTask]
  /\ \A c \in Conns : conn[c].pc \in {"admitted", "open"} => conn[c].remote \in Remotes

StreamTypes ==
  /\ stream \in [Streams -> StreamTask]
  /\ \A s \in Streams : stream[s].pc # "free" => stream[s].remote \in Remotes

StreamsOK == \A s \in Streams : StreamOK(stream[s], clock)

\* The fields of the permits and gauges.
LEMMA PermitFields ==
  ASSUME PermitTypes
  PROVE  /\ permits.handshake \in Nat /\ permits.connection \in Nat /\ permits.stream \in Nat
         /\ permits.connections_per \in [Remotes -> Nat]
         /\ permits.streams_per \in [Remotes -> Nat]
         /\ active.handshake \in Int /\ active.connection \in Int /\ active.stream \in Int
  BY Zenon DEF PermitTypes

\* Rewriting the task of one connection.
LEMMA ConnRewritten ==
  ASSUME ConnTypes, NEW c \in Conns, NEW rec \in ConnTask,
         rec.pc \in {"admitted", "open"} => rec.remote \in Remotes,
         conn' = [conn EXCEPT ![c] = rec]
  PROVE  ConnTypes' /\ conn'[c] = rec /\ \A d \in Conns \ {c} : conn'[d] = conn[d]
  <1>1. conn \in [Conns -> ConnTask]
    BY Zenon DEF ConnTypes
  <1>2. conn' \in [Conns -> ConnTask] /\ conn'[c] = rec /\ \A d \in Conns \ {c} : conn'[d] = conn[d]
    BY <1>1, Zenon
  <1> QED
    BY <1>2, Zenon DEF ConnTypes

\* Rewriting the task of one stream.
LEMMA StreamRewritten ==
  ASSUME StreamTypes, NEW s \in Streams, NEW rec \in StreamTask,
         rec.pc # "free" => rec.remote \in Remotes,
         stream' = [stream EXCEPT ![s] = rec]
  PROVE  StreamTypes' /\ stream'[s] = rec /\ \A t \in Streams \ {s} : stream'[t] = stream[t]
  <1>1. stream \in [Streams -> StreamTask]
    BY Zenon DEF StreamTypes
  <1>2. /\ stream' \in [Streams -> StreamTask] /\ stream'[s] = rec
        /\ \A t \in Streams \ {s} : stream'[t] = stream[t]
    BY <1>1, Zenon
  <1> QED
    BY <1>2, Zenon DEF StreamTypes

\* The two free tasks.
LEMMA FreeTasks ==
  /\ FreeConn \in ConnTask /\ FreeConn.pc = "free"
  /\ FreeStream \in StreamTask /\ FreeStream.pc = "free"
  /\ FreeStream.request = NoRequest /\ NoRequest.method = "none"
  BY Zenon DEF FreeConn, ConnTask, FreeStream, StreamTask, NoRequest, ReplyCode, None

-----------------------------------------------------------------------------
(* The steps of a connection.                                               *)

\* Handshakes, admission and the end of a connection keep the balance, also
\* when the second of two permits is missing.
LEMMA ConnStep ==
  ASSUME ConnTypes, PermitTypes, NEW c \in Conns,
         \/ Incoming(c) \/ HandshakeFails(c) \/ HandshakeTimeout(c)
         \/ \E r \in Remotes : HookRejects(c, r) \/ HandshakeDone(c, r)
         \/ AcquireController(c) \/ ConnectionClosed(c) \/ IdleTimeout(c)
  PROVE  /\ ConnTypes' /\ PermitTypes' /\ ConnBalance(c)
         /\ UNCHANGED <<clock, stream, accepted, nonceVars>>
  <1>0. /\ permits.handshake \in Nat /\ permits.connection \in Nat
        /\ permits.connections_per \in [Remotes -> Nat]
        /\ active.handshake \in Int /\ active.connection \in Int
        /\ FreeConn \in ConnTask /\ FreeConn.pc = "free"
    BY PermitFields, FreeTasks, Zenon
  <1>1. CASE Incoming(c)
    <2> DEFINE rec == [pc |-> "handshake", remote |-> None]
    <2>1. /\ conn[c].pc = "free" /\ permits.handshake > 0
          /\ conn' = [conn EXCEPT ![c] = rec]
          /\ permits' = [permits EXCEPT !.handshake = @ - 1]
          /\ active' = [active EXCEPT !.handshake = @ + 1]
          /\ UNCHANGED <<clock, stream, accepted, nonceVars>>
      BY <1>1, Zenon DEF Incoming
    <2>2. rec \in ConnTask /\ rec.pc = "handshake"
      BY Zenon DEF ConnTask
    <2>3. ConnTypes' /\ conn'[c] = rec /\ \A d \in Conns \ {c} : conn'[d] = conn[d]
      BY <2>1, <2>2, ConnRewritten, Zenon
    <2>4. PermitTypes'
      BY <1>0, <2>1 DEF PermitTypes
    <2>5. ConnBalance(c)
      BY <1>0, <2>1, <2>2, <2>3 DEF ConnBalance, Held, PermitTypes
    <2> QED
      BY <2>1, <2>3, <2>4, <2>5, Zenon
  <1>2. ASSUME EndHandshake(c, FreeConn), permits' = ReleaseHandshake
        PROVE  /\ ConnTypes' /\ PermitTypes' /\ ConnBalance(c)
               /\ UNCHANGED <<clock, stream, accepted, nonceVars>>
    <2>1. /\ conn[c].pc = "handshake"
          /\ conn' = [conn EXCEPT ![c] = FreeConn]
          /\ permits' = [permits EXCEPT !.handshake = @ + 1]
          /\ active' = [active EXCEPT !.handshake = @ - 1]
          /\ UNCHANGED <<clock, stream, accepted, nonceVars>>
      BY <1>2, Zenon DEF EndHandshake, ReleaseHandshake
    <2>2. ConnTypes' /\ conn'[c] = FreeConn /\ \A d \in Conns \ {c} : conn'[d] = conn[d]
      BY <1>0, <2>1, ConnRewritten, Zenon
    <2>3. PermitTypes'
      BY <1>0, <2>1 DEF PermitTypes
    <2>4. ConnBalance(c)
      BY <1>0, <2>1, <2>2 DEF ConnBalance, Held, PermitTypes
    <2> QED
      BY <2>1, <2>2, <2>3, <2>4, Zenon
  <1>3. CASE HandshakeFails(c) \/ HandshakeTimeout(c) \/ \E r \in Remotes : HookRejects(c, r)
    BY <1>2, <1>3, Zenon DEF HandshakeFails, HandshakeTimeout, HookRejects
  <1>4. ASSUME NEW r \in Remotes, HandshakeDone(c, r)
        PROVE  /\ ConnTypes' /\ PermitTypes' /\ ConnBalance(c)
               /\ UNCHANGED <<clock, stream, accepted, nonceVars>>
    <2>1. CASE permits.connection > 0
      <3> DEFINE rec == [pc |-> "admitted", remote |-> r]
      <3>1. /\ conn[c].pc = "handshake"
            /\ conn' = [conn EXCEPT ![c] = rec]
            /\ permits' = [[permits EXCEPT !.handshake = @ + 1] EXCEPT !.connection = @ - 1]
            /\ active' = [active EXCEPT !.handshake = @ - 1]
            /\ UNCHANGED <<clock, stream, accepted, nonceVars>>
        BY <1>4, <2>1, Zenon DEF HandshakeDone, EndHandshake, ReleaseHandshake
      <3>2. rec \in ConnTask /\ rec.pc = "admitted" /\ rec.remote = r
        BY Zenon DEF ConnTask
      <3>3. ConnTypes' /\ conn'[c] = rec /\ \A d \in Conns \ {c} : conn'[d] = conn[d]
        BY <3>1, <3>2, ConnRewritten, Zenon
      <3>4. PermitTypes'
        <4> DEFINE p == [permits EXCEPT !.handshake = @ + 1]
        <4>1. /\ p \in [handshake : Nat, connection : Nat, connections_per : [Remotes -> Nat],
                         stream : Nat, streams_per : [Remotes -> Nat]]
              /\ p.connection = permits.connection
          BY <1>0 DEF PermitTypes
        <4>2. permits' = [p EXCEPT !.connection = @ - 1]
          BY <3>1, Zenon
        <4> HIDE DEF p
        <4>3. p.connection - 1 \in Nat
          BY <1>0, <2>1, <4>1
        <4> QED
          BY <1>0, <3>1, <4>1, <4>2, <4>3 DEF PermitTypes
      <3>5. ConnBalance(c)
        BY <1>0, <3>1, <3>2, <3>3 DEF ConnBalance, Held, PermitTypes
      <3> QED
        BY <3>1, <3>3, <3>4, <3>5, Zenon
    <2>2. CASE ~(permits.connection > 0)
      BY <1>2, <1>4, <2>2, Zenon DEF HandshakeDone
    <2> QED
      BY <2>1, <2>2, Zenon
  <1>5. CASE AcquireController(c)
    <2> DEFINE r == conn[c].remote
    <2>0. conn[c].pc = "admitted" /\ r \in Remotes /\ conn[c] \in ConnTask
      BY <1>5, Zenon DEF AcquireController, ConnTypes
    <2>1. CASE permits.connections_per[r] > 0
      <3> DEFINE rec == [conn[c] EXCEPT !.pc = "open"]
      <3>1. /\ conn' = [conn EXCEPT ![c] = rec]
            /\ permits' = [permits EXCEPT !.connections_per[r] = @ - 1]
            /\ active' = [active EXCEPT !.connection = @ + 1]
            /\ UNCHANGED <<clock, stream, accepted, nonceVars>>
        BY <1>5, <2>1, Zenon DEF AcquireController
      <3>2. rec \in ConnTask /\ rec.pc = "open" /\ rec.remote = r
        BY <2>0, Zenon DEF ConnTask
      <3> HIDE DEF rec
      <3>3. ConnTypes' /\ conn'[c] = rec /\ \A d \in Conns \ {c} : conn'[d] = conn[d]
        BY <2>0, <3>1, <3>2, ConnRewritten, Zenon
      <3>4. /\ permits'.connections_per = [permits.connections_per EXCEPT ![r] = @ - 1]
            /\ permits'.connections_per \in [Remotes -> Nat]
            /\ permits'.handshake = permits.handshake /\ permits'.connection = permits.connection
            /\ permits'.stream = permits.stream /\ permits'.streams_per = permits.streams_per
        BY <1>0, <2>0, <2>1, <3>1 DEF PermitTypes
      <3>5. PermitTypes'
        BY <1>0, <2>0, <2>1, <3>1 DEF PermitTypes
      <3>6. ConnBalance(c)
        BY <1>0, <2>0, <3>1, <3>2, <3>3, <3>4 DEF ConnBalance, Held, PermitTypes
      <3> QED
        BY <3>1, <3>3, <3>5, <3>6, Zenon
    <2>2. CASE ~(permits.connections_per[r] > 0)
      <3>1. /\ conn' = [conn EXCEPT ![c] = FreeConn]
            /\ permits' = [permits EXCEPT !.connection = @ + 1]
            /\ active' = active
            /\ UNCHANGED <<clock, stream, accepted, nonceVars>>
        BY <1>5, <2>2, Zenon DEF AcquireController
      <3>2. ConnTypes' /\ conn'[c] = FreeConn /\ \A d \in Conns \ {c} : conn'[d] = conn[d]
        BY <1>0, <3>1, ConnRewritten, Zenon
      <3>3. PermitTypes'
        BY <1>0, <3>1 DEF PermitTypes
      <3>4. ConnBalance(c)
        BY <1>0, <2>0, <3>1, <3>2 DEF ConnBalance, Held, PermitTypes
      <3> QED
        BY <3>1, <3>2, <3>3, <3>4, Zenon
    <2> QED
      BY <2>1, <2>2, Zenon
  <1>6. CASE EndConnection(c)
    <2> DEFINE r == conn[c].remote
    <2>1. /\ conn[c].pc = "open"
          /\ conn' = [conn EXCEPT ![c] = FreeConn]
          /\ permits' = [permits EXCEPT !.connection = @ + 1, !.connections_per[r] = @ + 1]
          /\ active' = [active EXCEPT !.connection = @ - 1]
          /\ UNCHANGED <<clock, stream, accepted, nonceVars>>
      BY <1>6, Zenon DEF EndConnection
    <2>2. r \in Remotes
      BY <2>1, Zenon DEF ConnTypes
    <2>3. ConnTypes' /\ conn'[c] = FreeConn /\ \A d \in Conns \ {c} : conn'[d] = conn[d]
      BY <1>0, <2>1, ConnRewritten, Zenon
    <2>4. /\ permits'.connections_per = [permits.connections_per EXCEPT ![r] = @ + 1]
          /\ permits'.handshake = permits.handshake /\ permits'.connection = permits.connection + 1
          /\ permits'.stream = permits.stream /\ permits'.streams_per = permits.streams_per
      BY <1>0, <2>1, <2>2, Zenon DEF PermitTypes
    <2>5. PermitTypes'
      <3> DEFINE g == [permits.connections_per EXCEPT ![r] = @ + 1]
      <3>1. g \in [Remotes -> Nat]
        BY <1>0, <2>2
      <3> DEFINE p == [permits EXCEPT !.connection = @ + 1]
      <3>2. p \in [handshake : Nat, connection : Nat, connections_per : [Remotes -> Nat],
                   stream : Nat, streams_per : [Remotes -> Nat]]
        BY <1>0 DEF PermitTypes
      <3>3. permits' = [p EXCEPT !.connections_per = g]
        BY <2>1, Zenon
      <3>4. active' \in [handshake : Int, connection : Int, stream : Int]
        BY <1>0, <2>1 DEF PermitTypes
      <3> HIDE DEF g, p
      <3> QED
        BY <3>1, <3>2, <3>3, <3>4, Zenon DEF PermitTypes
    <2>6. ConnBalance(c)
      BY <1>0, <2>1, <2>2, <2>3, <2>4 DEF ConnBalance, Held, PermitTypes
    <2> QED
      BY <2>1, <2>3, <2>5, <2>6, Zenon
  <1> QED
    BY <1>1, <1>3, <1>4, <1>5, <1>6, Zenon DEF ConnectionClosed, IdleTimeout

-----------------------------------------------------------------------------
(* The steps of a stream.                                                   *)

\* Taking and dropping the permits of a stream keeps the balance, also when
\* the permit of the controller is missing.
LEMMA StreamPermits ==
  ASSUME ConnTypes, StreamTypes, PermitTypes, NEW s \in Streams,
         \/ \E c \in Conns : AcceptStream(c, s)
         \/ AcquireStream(s) \/ StreamEnds(s),
         StreamOK(stream[s], clock)
  PROVE  /\ StreamTypes' /\ PermitTypes' /\ StreamBalance(s) /\ StreamOK(stream'[s], clock)
         /\ UNCHANGED <<clock, conn, accepted, nonceVars>>
  <1>0. /\ permits.stream \in Nat /\ permits.streams_per \in [Remotes -> Nat]
        /\ active.stream \in Int
        /\ FreeStream \in StreamTask /\ FreeStream.pc = "free" /\ FreeStream.request = NoRequest
        /\ stream[s] \in StreamTask
        /\ stream[s].pc # "free" => stream[s].remote \in Remotes
    BY PermitFields, FreeTasks, Zenon DEF StreamTypes
  <1>1. ASSUME NEW c \in Conns, AcceptStream(c, s)
        PROVE  /\ StreamTypes' /\ PermitTypes' /\ StreamBalance(s) /\ StreamOK(stream'[s], clock)
               /\ UNCHANGED <<clock, conn, accepted, nonceVars>>
    <2> DEFINE rec == [FreeStream EXCEPT !.pc = "admitted", !.remote = conn[c].remote]
    <2>1. /\ stream[s].pc = "free" /\ permits.stream > 0 /\ conn[c].pc = "open"
          /\ stream' = [stream EXCEPT ![s] = rec]
          /\ permits' = [permits EXCEPT !.stream = @ - 1]
          /\ UNCHANGED <<clock, conn, active, accepted, nonceVars>>
      BY <1>1, Zenon DEF AcceptStream
    <2>2. conn[c].remote \in Remotes
      BY <2>1, Zenon DEF ConnTypes
    <2>3. rec \in StreamTask /\ rec.pc = "admitted" /\ rec.remote \in Remotes /\ rec.request = NoRequest
      BY <1>0, <2>2, Zenon DEF StreamTask
    <2> HIDE DEF rec
    <2>4. StreamTypes' /\ stream'[s] = rec /\ \A t \in Streams \ {s} : stream'[t] = stream[t]
      BY <2>1, <2>3, StreamRewritten, Zenon
    <2>5. PermitTypes'
      BY <1>0, <2>1 DEF PermitTypes
    <2>6. StreamBalance(s)
      BY <1>0, <2>1, <2>3, <2>4 DEF StreamBalance, Serving, Held, PermitTypes
    <2>7. StreamOK(stream'[s], clock)
      BY <2>3, <2>4, Zenon DEF StreamOK
    <2> QED
      BY <2>1, <2>3, <2>4, <2>5, <2>6, <2>7, Zenon
  <1>2. CASE AcquireStream(s)
    <2> DEFINE r == stream[s].remote
    <2>0. stream[s].pc = "admitted" /\ r \in Remotes
      BY <1>0, <1>2, Zenon DEF AcquireStream
    <2>1. CASE permits.streams_per[r] > 0
      <3> DEFINE rec == [stream[s] EXCEPT !.pc = "reading"]
      <3>1. /\ stream' = [stream EXCEPT ![s] = rec]
            /\ permits' = [permits EXCEPT !.streams_per[r] = @ - 1]
            /\ active' = [active EXCEPT !.stream = @ + 1]
            /\ UNCHANGED <<clock, conn, accepted, nonceVars>>
        BY <1>2, <2>1, Zenon DEF AcquireStream
      <3>2. rec \in StreamTask /\ rec.pc = "reading" /\ rec.remote = r /\ rec.request = stream[s].request
        BY <1>0, Zenon DEF StreamTask
      <3> HIDE DEF rec
      <3>3. StreamTypes' /\ stream'[s] = rec /\ \A t \in Streams \ {s} : stream'[t] = stream[t]
        BY <2>0, <3>1, <3>2, StreamRewritten, Zenon
      <3>4. /\ permits'.streams_per = [permits.streams_per EXCEPT ![r] = @ - 1]
            /\ permits'.handshake = permits.handshake /\ permits'.connection = permits.connection
            /\ permits'.stream = permits.stream /\ permits'.connections_per = permits.connections_per
        BY <1>0, <2>0, <2>1, <3>1, Zenon DEF PermitTypes
      <3>5. PermitTypes'
        BY <1>0, <2>0, <2>1, <3>1 DEF PermitTypes
      <3>6. StreamBalance(s)
        BY <1>0, <2>0, <3>1, <3>2, <3>3, <3>4 DEF StreamBalance, Serving, Held, PermitTypes
      <3>7. StreamOK(stream'[s], clock)
        BY <2>0, <3>2, <3>3, Zenon DEF StreamOK
      <3> QED
        BY <3>1, <3>2, <3>3, <3>5, <3>6, <3>7, Zenon
    <2>2. CASE ~(permits.streams_per[r] > 0)
      <3>1. /\ stream' = [stream EXCEPT ![s] = FreeStream]
            /\ permits' = [permits EXCEPT !.stream = @ + 1]
            /\ active' = active
            /\ UNCHANGED <<clock, conn, accepted, nonceVars>>
        BY <1>2, <2>2, Zenon DEF AcquireStream
      <3>2. StreamTypes' /\ stream'[s] = FreeStream /\ \A t \in Streams \ {s} : stream'[t] = stream[t]
        BY <1>0, <3>1, StreamRewritten, Zenon
      <3>3. PermitTypes'
        BY <1>0, <3>1 DEF PermitTypes
      <3>4. StreamBalance(s)
        BY <1>0, <2>0, <3>1, <3>2 DEF StreamBalance, Serving, Held, PermitTypes
      <3>5. StreamOK(stream'[s], clock)
        BY <1>0, <3>2, Zenon DEF StreamOK
      <3> QED
        BY <1>0, <3>1, <3>2, <3>3, <3>4, <3>5, Zenon
    <2> QED
      BY <2>1, <2>2, Zenon
  <1>3. CASE StreamEnds(s)
    <2> DEFINE r == stream[s].remote
    <2>1. /\ stream[s].pc = "writing"
          /\ stream' = [stream EXCEPT ![s] = FreeStream]
          /\ permits' = [permits EXCEPT !.stream = @ + 1, !.streams_per[r] = @ + 1]
          /\ active' = [active EXCEPT !.stream = @ - 1]
          /\ UNCHANGED <<clock, conn, accepted, nonceVars>>
      BY <1>3, Zenon DEF StreamEnds
    <2>2. r \in Remotes
      BY <1>0, <2>1, Zenon
    <2>3. StreamTypes' /\ stream'[s] = FreeStream /\ \A t \in Streams \ {s} : stream'[t] = stream[t]
      BY <1>0, <2>1, StreamRewritten, Zenon
    <2>4. /\ permits'.streams_per = [permits.streams_per EXCEPT ![r] = @ + 1]
          /\ permits'.handshake = permits.handshake /\ permits'.connection = permits.connection
          /\ permits'.stream = permits.stream + 1 /\ permits'.connections_per = permits.connections_per
      BY <1>0, <2>1, <2>2, Zenon DEF PermitTypes
    <2>5. PermitTypes'
      <3> DEFINE g == [permits.streams_per EXCEPT ![r] = @ + 1]
      <3>1. g \in [Remotes -> Nat]
        BY <1>0, <2>2
      <3> DEFINE p == [permits EXCEPT !.stream = @ + 1]
      <3>2. p \in [handshake : Nat, connection : Nat, connections_per : [Remotes -> Nat],
                   stream : Nat, streams_per : [Remotes -> Nat]]
        BY <1>0 DEF PermitTypes
      <3>3. permits' = [p EXCEPT !.streams_per = g]
        BY <2>1, Zenon
      <3>4. active' \in [handshake : Int, connection : Int, stream : Int]
        BY <1>0, <2>1 DEF PermitTypes
      <3> HIDE DEF g, p
      <3> QED
        BY <3>1, <3>2, <3>3, <3>4, Zenon DEF PermitTypes
    <2>6. StreamBalance(s)
      BY <1>0, <2>1, <2>2, <2>3, <2>4 DEF StreamBalance, Serving, Held, PermitTypes
    <2>7. StreamOK(stream'[s], clock)
      BY <1>0, <2>3 DEF StreamOK
    <2> QED
      BY <1>0, <2>1, <2>3, <2>5, <2>6, <2>7, Zenon
  <1> QED
    BY <1>1, <1>2, <1>3, Zenon

\* A stream that keeps its permits while its task goes on.
LEMMA StreamWorks ==
  ASSUME StreamTypes, PermitTypes, NEW s \in Streams, NEW rec \in StreamTask,
         stream[s].pc \notin {"free", "admitted"}, rec.pc \notin {"free", "admitted"},
         rec.remote = stream[s].remote,
         stream' = [stream EXCEPT ![s] = rec], StreamStep
  PROVE  /\ StreamTypes' /\ PermitTypes' /\ StreamBalance(s) /\ stream'[s] = rec
         /\ UNCHANGED <<clock, conn>>
  <1>1. stream[s].remote \in Remotes
    BY Zenon DEF StreamTypes
  <1>2. StreamTypes' /\ stream'[s] = rec /\ \A t \in Streams \ {s} : stream'[t] = stream[t]
    BY <1>1, StreamRewritten, Zenon
  <1>3. UNCHANGED <<clock, conn, permits, active>>
    BY Zenon DEF StreamStep
  <1>4. PermitTypes'
    BY <1>3, Zenon DEF PermitTypes
  <1>5. /\ permits.stream \in Nat /\ permits.streams_per \in [Remotes -> Nat] /\ active.stream \in Int
    BY PermitFields, Zenon
  <1>6. StreamBalance(s)
    BY <1>2, <1>3, <1>5 DEF StreamBalance, Serving, Held
  <1> QED
    BY <1>2, <1>3, <1>4, <1>6, Zenon

\* Answering with a code, and adding an event to the trail.
LEMMA ReplyFacts ==
  ASSUME StreamTypes, NEW s \in Streams, NEW code \in ReplyCode
  PROVE  LET rec == [stream[s] EXCEPT !.pc = "reply", !.reply = code] IN
         /\ rec \in StreamTask /\ rec.pc = "reply" /\ rec.reply = code
         /\ rec.remote = stream[s].remote /\ rec.request = stream[s].request
         /\ rec.trail = stream[s].trail
         /\ Reply(s, code) = [stream EXCEPT ![s] = rec]
  <1>1. stream[s] \in StreamTask
    BY Zenon DEF StreamTypes
  <1>2. Reply(s, code) = [stream EXCEPT ![s] = [stream[s] EXCEPT !.pc = "reply", !.reply = code]]
    BY Zenon DEF Reply
  <1> QED
    BY <1>1, <1>2, Zenon DEF StreamTask

\* The codes that the server itself answers with.
LEMMA OwnCodes ==
  {"FrameReadFailed", "RpcTimeout", "AuditWriteFailed", "ResponseTooLarge", "Ok", "ProviderError",
   "ReplayedNonce", "ResourceExhausted", "EndpointNotAllowed", "MethodNotAllowed",
   "MethodNotFound", "ParamsInvalid"} \subseteq ReplyCode
  BY Zenon DEF ReplyCode

\* A stream that answers with a code, and may have logged its outbound call.
LEMMA StreamReplies ==
  ASSUME StreamTypes, PermitTypes, NEW s \in Streams, NEW code \in ReplyCode,
         stream[s].pc \notin {"free", "admitted"},
         code # "Ok" \/ stream[s].request.method # PathEcho,
         stream' = Reply(s, code), StreamStep
  PROVE  /\ StreamTypes' /\ PermitTypes' /\ StreamBalance(s) /\ StreamOK(stream'[s], clock)
         /\ UNCHANGED <<clock, conn>>
  <1> DEFINE rec == [stream[s] EXCEPT !.pc = "reply", !.reply = code]
  <1>1. /\ rec \in StreamTask /\ rec.pc = "reply" /\ rec.reply = code
        /\ rec.remote = stream[s].remote /\ rec.request = stream[s].request
        /\ stream' = [stream EXCEPT ![s] = rec]
    BY ReplyFacts, Zenon
  <1> HIDE DEF rec
  <1>2. /\ StreamTypes' /\ PermitTypes' /\ StreamBalance(s) /\ stream'[s] = rec
        /\ UNCHANGED <<clock, conn>>
    BY <1>1, StreamWorks, Zenon
  <1>3. StreamOK(rec, clock)
    BY <1>1, Zenon DEF StreamOK
  <1> QED
    BY <1>2, <1>3, Zenon

\* The steps of a request between reading and writing: every answer but Ok to
\* a path echo is free, and that one is given after the echo was logged.
LEMMA RequestStep ==
  ASSUME clock \in Nat, StreamTypes, PermitTypes, NEW s \in Streams, StreamOK(stream[s], clock),
         \/ ReadFails(s) \/ \E q \in Requests : ReadRequest(s, q)
         \/ PeerAnswers(s) \/ \E written \in BOOLEAN : PeerAudit(s, written)
         \/ DispatchTimeout(s) \/ \E written, fits \in BOOLEAN : AuditReply(s, written, fits)
  PROVE  /\ StreamTypes' /\ PermitTypes' /\ StreamBalance(s) /\ StreamOK(stream'[s], clock)
         /\ UNCHANGED <<clock, conn, accepted, nonceVars>>
  <1>0. /\ stream[s] \in StreamTask /\ stream[s].trail \subseteq ReplyCode \cup {"peer_echo"}
        /\ stream[s].reply \in ReplyCode
        /\ stream[s].pc = "reading" => stream[s].request = NoRequest
        /\ NoRequest.method = "none" /\ PathEcho # "none"
    <2>1. stream[s] \in StreamTask
      BY Zenon DEF StreamTypes
    <2> QED
      BY <2>1, FreeTasks, Zenon DEF StreamTask, StreamOK, PathEcho
  <1>1. CASE ReadFails(s)
    <2>1. stream[s].pc = "reading" /\ stream' = Reply(s, "FrameReadFailed") /\ StreamStep
          /\ UNCHANGED <<accepted, nonceVars>>
      BY <1>1, Zenon DEF ReadFails
    <2> QED
      BY <2>1, StreamReplies, OwnCodes, Zenon
  <1>2. ASSUME NEW q \in Requests, ReadRequest(s, q)
        PROVE  /\ StreamTypes' /\ PermitTypes' /\ StreamBalance(s) /\ StreamOK(stream'[s], clock)
               /\ UNCHANGED <<clock, conn, accepted, nonceVars>>
    <2>1. stream[s].pc = "reading" /\ StreamStep /\ UNCHANGED <<accepted, nonceVars>>
      BY <1>2, Zenon DEF ReadRequest
    <2>2. Validation(q) \in ReplyCode /\ (Validation(q) = None => q.issued <= clock + Skew)
      BY ValidationFacts, Zenon
    <2>3. CASE Validation(q) = None
      <3> DEFINE rec == [stream[s] EXCEPT !.pc = "valid", !.request = q]
      <3>1. stream' = [stream EXCEPT ![s] = rec]
        BY <1>2, <2>3, Zenon DEF ReadRequest
      <3>2. rec \in StreamTask /\ rec.pc = "valid" /\ rec.remote = stream[s].remote /\ rec.request = q
        BY <1>0, Zenon DEF StreamTask
      <3> HIDE DEF rec
      <3>3. /\ StreamTypes' /\ PermitTypes' /\ StreamBalance(s) /\ stream'[s] = rec
            /\ UNCHANGED <<clock, conn>>
        BY <2>1, <3>1, <3>2, StreamWorks, Zenon
      <3>4. StreamOK(rec, clock)
        BY <2>2, <2>3, <3>2, Zenon DEF StreamOK
      <3> QED
        BY <2>1, <3>3, <3>4, Zenon
    <2>4. CASE Validation(q) # None
      <3>1. stream' = Reply(s, Validation(q))
        BY <1>2, <2>4, Zenon DEF ReadRequest
      <3>2. stream[s].request.method # PathEcho
        BY <1>0, <2>1, Zenon
      <3> QED
        BY <2>1, <2>2, <3>1, <3>2, StreamReplies, Zenon
    <2> QED
      BY <2>3, <2>4, Zenon
  <1>3. CASE PeerAnswers(s)
    <2> DEFINE rec == [stream[s] EXCEPT !.pc = "peer_audit"]
    <2>1. /\ stream[s].pc = "peer" /\ stream' = [stream EXCEPT ![s] = rec] /\ StreamStep
          /\ UNCHANGED <<accepted, nonceVars>>
      BY <1>3, Zenon DEF PeerAnswers
    <2>2. rec \in StreamTask /\ rec.pc = "peer_audit" /\ rec.remote = stream[s].remote
      BY <1>0, Zenon DEF StreamTask
    <2> HIDE DEF rec
    <2>3. /\ StreamTypes' /\ PermitTypes' /\ StreamBalance(s) /\ stream'[s] = rec
          /\ UNCHANGED <<clock, conn>>
      BY <2>1, <2>2, StreamWorks, Zenon
    <2>4. StreamOK(rec, clock)
      BY <2>2, Zenon DEF StreamOK
    <2> QED
      BY <2>1, <2>3, <2>4, Zenon
  <1>4. ASSUME NEW written \in BOOLEAN, PeerAudit(s, written)
        PROVE  /\ StreamTypes' /\ PermitTypes' /\ StreamBalance(s) /\ StreamOK(stream'[s], clock)
               /\ UNCHANGED <<clock, conn, accepted, nonceVars>>
    <2>1. stream[s].pc = "peer_audit" /\ StreamStep /\ UNCHANGED <<accepted, nonceVars>>
      BY <1>4, Zenon DEF PeerAudit
    <2>2. CASE written
      <3> DEFINE rep == [stream[s] EXCEPT !.pc = "reply", !.reply = "Ok"]
                 rec == [rep EXCEPT !.trail = @ \cup {"peer_echo"}]
      <3>1. /\ rep \in StreamTask /\ rep.pc = "reply" /\ rep.remote = stream[s].remote
            /\ rep.trail = stream[s].trail
            /\ Reply(s, "Ok") = [stream EXCEPT ![s] = rep]
        BY ReplyFacts, OwnCodes, ZenonT(40)
      <3>2. stream' = [Reply(s, "Ok") EXCEPT ![s].trail = @ \cup {"peer_echo"}]
        BY <1>4, <2>2, Zenon DEF PeerAudit
      <3>3. stream \in [Streams -> StreamTask]
        BY Zenon DEF StreamTypes
      <3> HIDE DEF rep
      <3>4. stream' = [stream EXCEPT ![s] = rec]
        BY <3>1, <3>2, <3>3, Zenon
      <3>5. /\ rec \in StreamTask /\ rec.pc = "reply" /\ rec.remote = stream[s].remote
            /\ "peer_echo" \in rec.trail
        BY <1>0, <3>1, Zenon DEF StreamTask
      <3> HIDE DEF rec
      <3>6. /\ StreamTypes' /\ PermitTypes' /\ StreamBalance(s) /\ stream'[s] = rec
            /\ UNCHANGED <<clock, conn>>
        BY <2>1, <3>4, <3>5, StreamWorks, Zenon
      <3>7. StreamOK(rec, clock)
        BY <3>5, Zenon DEF StreamOK
      <3> QED
        BY <2>1, <3>6, <3>7, ZenonT(40)
    <2>3. CASE ~written
      <3>1. stream' = Reply(s, "AuditWriteFailed")
        BY <1>4, <2>3, Zenon DEF PeerAudit
      <3> QED
        BY <2>1, <3>1, StreamReplies, OwnCodes, Zenon
    <2> QED
      BY <2>2, <2>3, Zenon
  <1>5. CASE DispatchTimeout(s)
    <2>1. /\ stream[s].pc \in {"peer", "peer_audit"} /\ stream' = Reply(s, "RpcTimeout")
          /\ StreamStep /\ UNCHANGED <<accepted, nonceVars>>
      BY <1>5, Zenon DEF DispatchTimeout
    <2> QED
      BY <2>1, StreamReplies, OwnCodes, Zenon
  <1>6. ASSUME NEW written \in BOOLEAN, NEW fits \in BOOLEAN, AuditReply(s, written, fits)
        PROVE  /\ StreamTypes' /\ PermitTypes' /\ StreamBalance(s) /\ StreamOK(stream'[s], clock)
               /\ UNCHANGED <<clock, conn, accepted, nonceVars>>
    <2> DEFINE code == IF fits THEN stream[s].reply ELSE "ResponseTooLarge"
               sent == IF written THEN code ELSE "AuditWriteFailed"
               trail == IF written THEN stream[s].trail \cup {code} ELSE stream[s].trail
               rec == [stream[s] EXCEPT !.pc = "writing", !.reply = sent, !.trail = trail]
    <2>1. stream[s].pc = "reply" /\ StreamStep /\ UNCHANGED <<accepted, nonceVars>>
      BY <1>6, Zenon DEF AuditReply
    <2>2. stream' = [stream EXCEPT ![s] = rec]
      BY <1>6, Zenon DEF AuditReply
    <2>3. code \in ReplyCode /\ sent \in ReplyCode /\ trail \subseteq ReplyCode \cup {"peer_echo"}
      BY <1>0, OwnCodes, Zenon
    <2>4. sent # "AuditWriteFailed" => sent \in trail
      BY Zenon
    <2>5. sent = "Ok" => stream[s].reply = "Ok" /\ stream[s].trail \subseteq trail
      BY Zenon
    <2> HIDE DEF sent, trail
    <2>6. /\ rec \in StreamTask /\ rec.pc = "writing" /\ rec.remote = stream[s].remote
          /\ rec.reply = sent /\ rec.trail = trail /\ rec.request = stream[s].request
      BY <1>0, <2>3, Zenon DEF StreamTask
    <2> HIDE DEF rec
    <2>7. /\ StreamTypes' /\ PermitTypes' /\ StreamBalance(s) /\ stream'[s] = rec
          /\ UNCHANGED <<clock, conn>>
      BY <2>1, <2>2, <2>6, StreamWorks, Zenon
    <2>8. StreamOK(rec, clock)
      BY <2>1, <2>4, <2>5, <2>6, Zenon DEF StreamOK
    <2> QED
      BY <2>1, <2>7, <2>8, Zenon
  <1> QED
    BY <1>1, <1>2, <1>3, <1>4, <1>5, <1>6, Zenon

\* What registering the nonce of the request of stream s does to the nonces.
Registers(s) ==
  LET q == stream[s].request
      r == stream[s].remote
  IN /\ q \in Requests /\ r \in Remotes
     /\ q.issued <= clock + Skew
     /\ Register(r, q.nonce, NonceTtl(q), clock)
     /\ accepted' = IF NonceDecision(r, q.nonce, clock) = "Accepted"
                    THEN accepted \cup {<<r, q, clock>>} ELSE accepted

\* Registration, authorization and the first poll of the method.
LEMMA RegisterStep ==
  ASSUME clock \in Nat, StreamTypes, PermitTypes, NEW s \in Streams, StreamOK(stream[s], clock),
         RegisterNonce(s)
  PROVE  /\ StreamTypes' /\ PermitTypes' /\ StreamBalance(s) /\ StreamOK(stream'[s], clock)
         /\ UNCHANGED <<clock, conn>>
         /\ Registers(s)
  <1> DEFINE q == stream[s].request
             r == stream[s].remote
             decision == NonceDecision(r, q.nonce, clock)
  <1>1. stream[s].pc = "valid" /\ Register(r, q.nonce, NonceTtl(q), clock) /\ StreamStep
    BY Zenon DEF RegisterNonce
  <1>2. /\ stream[s] \in StreamTask /\ q \in Requests /\ r \in Remotes
        /\ q.issued <= clock + Skew
    BY <1>1, Zenon DEF StreamTypes, StreamOK
  <1>3. /\ Authorization(r, q) \in {"EndpointNotAllowed", "MethodNotAllowed", "MethodNotFound",
                                    "ParamsInvalid", "Allowed"}
        /\ decision \in {"ReplayedNonce", "ResourceExhausted", "Accepted"}
    BY DecisionCodes, Zenon
  <1>4. Registers(s)
    BY <1>1, <1>2, Zenon DEF RegisterNonce, Registers
  <1>5. CASE decision # "Accepted"
    <2>1. stream' = Reply(s, decision)
      BY <1>5, Zenon DEF RegisterNonce
    <2> HIDE DEF decision
    <2>2. decision \in ReplyCode /\ decision # "Ok"
      BY <1>3, <1>5, OwnCodes, Zenon
    <2> QED
      BY <1>1, <1>4, <2>1, <2>2, StreamReplies, Zenon
  <1>6. CASE decision = "Accepted" /\ Authorization(r, q) # "Allowed"
    <2>1. stream' = Reply(s, Authorization(r, q))
      BY <1>6, Zenon DEF RegisterNonce
    <2>2. Authorization(r, q) \in ReplyCode /\ Authorization(r, q) # "Ok"
      BY <1>3, <1>6, OwnCodes, Zenon
    <2> QED
      BY <1>1, <1>4, <2>1, <2>2, StreamReplies, Zenon
  <1>7. CASE decision = "Accepted" /\ Authorization(r, q) = "Allowed" /\ q.method = PathEcho
    <2> DEFINE rec == [stream[s] EXCEPT !.pc = "peer"]
    <2>1. stream' = [stream EXCEPT ![s] = rec]
      BY <1>7, Zenon DEF RegisterNonce, StartPeerEcho
    <2>2. rec \in StreamTask /\ rec.pc = "peer" /\ rec.remote = r
      BY <1>2, Zenon DEF StreamTask
    <2> HIDE DEF rec
    <2>3. /\ StreamTypes' /\ PermitTypes' /\ StreamBalance(s) /\ stream'[s] = rec
          /\ UNCHANGED <<clock, conn>>
      BY <1>1, <2>1, <2>2, StreamWorks, Zenon
    <2>4. StreamOK(rec, clock)
      BY <2>2, Zenon DEF StreamOK
    <2> QED
      BY <1>4, <2>3, <2>4, Zenon
  <1>8. CASE decision = "Accepted" /\ Authorization(r, q) = "Allowed" /\ q.method # PathEcho
    <2>1. PICK code \in Immediate(q) : stream' = Reply(s, code)
      BY <1>8, Zenon DEF RegisterNonce
    <2>2. code \in ReplyCode
      BY OwnCodes, Zenon DEF Immediate
    <2> QED
      BY <1>1, <1>4, <1>8, <2>1, <2>2, StreamReplies, Zenon
  <1> QED
    BY <1>5, <1>6, <1>7, <1>8, Zenon

-----------------------------------------------------------------------------
(* Permits and gauges count the tasks.                                      *)

\* When one task of a finite set moves, a count changes by that task alone.
LEMMA CountMoves ==
  ASSUME NEW S, IsFiniteSet(S), NEW x \in S, NEW A \in SUBSET S, NEW B \in SUBSET S,
         \A y \in S \ {x} : y \in B <=> y \in A
  PROVE  /\ Cardinality(A) \in Nat /\ Cardinality(B) \in Nat
         /\ Cardinality(B) = Cardinality(A) - Held(x \in A) + Held(x \in B)
  <1>1. IsFiniteSet(A) /\ IsFiniteSet(B)
    BY FS_Subset, Zenon
  <1>2. Cardinality(A) \in Nat /\ Cardinality(B) \in Nat
    BY <1>1, FS_CardinalityType, Zenon
  <1>3. CASE x \in A <=> x \in B
    <2>1. A = B
      BY <1>3
    <2> QED
      BY <1>2, <1>3, <2>1 DEF Held
  <1>4. CASE x \in B /\ x \notin A
    <2>1. B = A \cup {x}
      BY <1>4, Zenon
    <2>2. Cardinality(A \cup {x}) = Cardinality(A) + 1
      BY <1>1, <1>4, FS_AddElement, Zenon
    <2> QED
      BY <1>2, <1>4, <2>1, <2>2 DEF Held
  <1>5. CASE x \in A /\ x \notin B
    <2>1. A = B \cup {x}
      BY <1>5, Zenon
    <2>2. Cardinality(B \cup {x}) = Cardinality(B) + 1
      BY <1>1, <1>5, FS_AddElement, Zenon
    <2> QED
      BY <1>2, <1>5, <2>1, <2>2 DEF Held
  <1> QED
    BY <1>3, <1>4, <1>5, Zenon

\* A step of a connection keeps the permits conserved.
LEMMA ConnConserves ==
  ASSUME PermitTypes, PermitTypes', PermitsConserved, NEW c \in Conns, ConnBalance(c),
         UNCHANGED stream
  PROVE  PermitsConserved'
  <1>0. /\ IsFiniteSet(Conns)
        /\ {MaxHandshakes, MaxConnections, MaxConnectionsPer} \subseteq Nat
        /\ \A d \in Conns \ {c} : conn'[d] = conn[d]
    BY ServerAssumption, Zenon DEF ConnBalance
  <1>1. ASSUME NEW pcs
        PROVE  /\ Cardinality(ConnsAt(pcs)) \in Nat /\ Cardinality(ConnsAt(pcs)') \in Nat
               /\ Cardinality(ConnsAt(pcs)') = Cardinality(ConnsAt(pcs))
                    - Held(conn[c].pc \in pcs) + Held(conn'[c].pc \in pcs)
    <2> DEFINE A == {d \in Conns : conn[d].pc \in pcs}
               B == {d \in Conns : conn'[d].pc \in pcs}
    <2>1. A \in SUBSET Conns /\ B \in SUBSET Conns /\ \A d \in Conns \ {c} : d \in B <=> d \in A
      BY <1>0, Zenon
    <2>2. (c \in A <=> conn[c].pc \in pcs) /\ (c \in B <=> conn'[c].pc \in pcs)
      BY Zenon
    <2> HIDE DEF A, B
    <2>3. /\ Cardinality(A) \in Nat /\ Cardinality(B) \in Nat
          /\ Cardinality(B) = Cardinality(A) - Held(c \in A) + Held(c \in B)
      BY <1>0, <2>1, CountMoves, Zenon
    <2>4. Cardinality(B) = Cardinality(A) - Held(conn[c].pc \in pcs) + Held(conn'[c].pc \in pcs)
      BY <2>2, <2>3, Zenon DEF Held
    <2> QED
      BY <2>3, <2>4, Zenon DEF ConnsAt, A, B
  <1>2. ASSUME NEW r \in Remotes
        PROVE  LET A == Of(r, ConnsAt({"open"}), conn) IN
               /\ Cardinality(A) \in Nat /\ Cardinality(A') \in Nat
               /\ Cardinality(A') = Cardinality(A)
                    - Held(conn[c].pc = "open" /\ conn[c].remote = r)
                    + Held(conn'[c].pc = "open" /\ conn'[c].remote = r)
    <2> DEFINE A == {d \in Conns : conn[d].pc = "open" /\ conn[d].remote = r}
               B == {d \in Conns : conn'[d].pc = "open" /\ conn'[d].remote = r}
    <2>1. A \in SUBSET Conns /\ B \in SUBSET Conns /\ \A d \in Conns \ {c} : d \in B <=> d \in A
      BY <1>0, Zenon
    <2>2. /\ c \in A <=> conn[c].pc = "open" /\ conn[c].remote = r
          /\ c \in B <=> conn'[c].pc = "open" /\ conn'[c].remote = r
      BY Zenon
    <2>0. A = Of(r, ConnsAt({"open"}), conn) /\ B = Of(r, ConnsAt({"open"}), conn)'
      BY Zenon DEF Of, ConnsAt
    <2> HIDE DEF A, B
    <2>3. /\ Cardinality(A) \in Nat /\ Cardinality(B) \in Nat
          /\ Cardinality(B) = Cardinality(A) - Held(c \in A) + Held(c \in B)
      BY <1>0, <2>1, CountMoves, Zenon
    <2>4. Cardinality(B) = Cardinality(A) - Held(conn[c].pc = "open" /\ conn[c].remote = r)
                             + Held(conn'[c].pc = "open" /\ conn'[c].remote = r)
      BY <2>2, <2>3, Zenon DEF Held
    <2> QED
      BY <2>0, <2>3, <2>4, Zenon
  <1>3. /\ permits.handshake \in Nat /\ permits.connection \in Nat
        /\ permits.connections_per \in [Remotes -> Nat]
        /\ active.handshake \in Int /\ active.connection \in Int
    BY PermitFields, Zenon
  <1>4. permits'.handshake + Cardinality(ConnsAt({"handshake"})') = MaxHandshakes
    <2>1. permits.handshake + Cardinality(ConnsAt({"handshake"})) = MaxHandshakes
      BY Zenon DEF PermitsConserved
    <2>2. permits'.handshake = permits.handshake + Held(conn[c].pc = "handshake")
                                                 - Held(conn'[c].pc = "handshake")
      BY Zenon DEF ConnBalance
    <2>3. /\ Cardinality(ConnsAt({"handshake"})') = Cardinality(ConnsAt({"handshake"}))
               - Held(conn[c].pc \in {"handshake"}) + Held(conn'[c].pc \in {"handshake"})
          /\ Cardinality(ConnsAt({"handshake"})) \in Nat
      BY <1>1, Zenon
    <2> QED
      BY <1>3, <2>1, <2>2, <2>3 DEF Held
  <1>5. permits'.connection + Cardinality(ConnsAt({"admitted", "open"})') = MaxConnections
    <2>1. permits.connection + Cardinality(ConnsAt({"admitted", "open"})) = MaxConnections
      BY Zenon DEF PermitsConserved
    <2>2. permits'.connection = permits.connection + Held(conn[c].pc \in {"admitted", "open"})
                                                   - Held(conn'[c].pc \in {"admitted", "open"})
      BY Zenon DEF ConnBalance
    <2>3. /\ Cardinality(ConnsAt({"admitted", "open"})') = Cardinality(ConnsAt({"admitted", "open"}))
               - Held(conn[c].pc \in {"admitted", "open"}) + Held(conn'[c].pc \in {"admitted", "open"})
          /\ Cardinality(ConnsAt({"admitted", "open"})) \in Nat
      BY <1>1, Zenon
    <2> QED
      BY <1>3, <2>1, <2>2, <2>3 DEF Held
  <1>6. ASSUME NEW r \in Remotes
        PROVE  permits'.connections_per[r] + Cardinality(Of(r, ConnsAt({"open"}), conn)') = MaxConnectionsPer
    <2>1. permits.connections_per[r] + Cardinality(Of(r, ConnsAt({"open"}), conn)) = MaxConnectionsPer
      BY Zenon DEF PermitsConserved
    <2>2. permits'.connections_per[r] = permits.connections_per[r]
            + Held(conn[c].pc = "open" /\ conn[c].remote = r)
            - Held(conn'[c].pc = "open" /\ conn'[c].remote = r)
      BY Zenon DEF ConnBalance
    <2>3. permits.connections_per[r] \in Nat
      BY <1>3, Zenon
    <2> QED
      BY <1>2, <2>1, <2>2, <2>3 DEF Held
  <1>7. /\ active'.handshake = Cardinality(ConnsAt({"handshake"})')
        /\ active'.connection = Cardinality(ConnsAt({"open"})')
    <2>1. /\ active.handshake = Cardinality(ConnsAt({"handshake"}))
          /\ active.connection = Cardinality(ConnsAt({"open"}))
      BY Zenon DEF PermitsConserved
    <2>2. /\ active'.handshake = active.handshake - Held(conn[c].pc = "handshake")
                                                  + Held(conn'[c].pc = "handshake")
          /\ active'.connection = active.connection - Held(conn[c].pc = "open")
                                                    + Held(conn'[c].pc = "open")
      BY Zenon DEF ConnBalance
    <2>3. /\ Cardinality(ConnsAt({"handshake"})') = Cardinality(ConnsAt({"handshake"}))
               - Held(conn[c].pc \in {"handshake"}) + Held(conn'[c].pc \in {"handshake"})
          /\ Cardinality(ConnsAt({"open"})') = Cardinality(ConnsAt({"open"}))
               - Held(conn[c].pc \in {"open"}) + Held(conn'[c].pc \in {"open"})
      BY <1>1, Zenon
    <2> QED
      BY <1>3, <2>1, <2>2, <2>3, Zenon DEF Held
  <1>8. /\ permits'.stream = permits.stream /\ permits'.streams_per = permits.streams_per
        /\ active'.stream = active.stream
    BY Zenon DEF ConnBalance
  <1>9. /\ permits'.stream + Cardinality({s \in Streams : stream'[s].pc # "free"}) = MaxStreams
        /\ \A r \in Remotes : permits'.streams_per[r] + Cardinality(Of(r, Reading, stream)') = MaxStreamsPer
        /\ active'.stream = Cardinality(Reading')
    BY <1>8, Zenon DEF PermitsConserved, Reading, Of
  <1>10. active' = [handshake |-> Cardinality(ConnsAt({"handshake"})'),
                    connection |-> Cardinality(ConnsAt({"open"})'),
                    stream |-> Cardinality(Reading')]
    BY <1>7, <1>9, Zenon DEF PermitTypes
  <1> QED
    BY <1>4, <1>5, <1>6, <1>9, <1>10, Zenon DEF PermitsConserved

\* A step of a stream keeps the permits conserved.
LEMMA StreamConserves ==
  ASSUME PermitTypes, PermitTypes', PermitsConserved, NEW s \in Streams, StreamBalance(s),
         UNCHANGED conn
  PROVE  PermitsConserved'
  <1>0. /\ IsFiniteSet(Streams)
        /\ {MaxStreams, MaxStreamsPer} \subseteq Nat
        /\ \A t \in Streams \ {s} : stream'[t] = stream[t]
    BY ServerAssumption, Zenon DEF StreamBalance
  <1>1. LET A == {t \in Streams : stream[t].pc # "free"} IN
        /\ Cardinality(A) \in Nat
        /\ Cardinality(A') = Cardinality(A) - Held(stream[s].pc # "free") + Held(stream'[s].pc # "free")
    <2> DEFINE A == {t \in Streams : stream[t].pc # "free"}
               B == {t \in Streams : stream'[t].pc # "free"}
    <2>1. A \in SUBSET Streams /\ B \in SUBSET Streams /\ \A t \in Streams \ {s} : t \in B <=> t \in A
      BY <1>0, Zenon
    <2>2. (s \in A <=> stream[s].pc # "free") /\ (s \in B <=> stream'[s].pc # "free")
      BY Zenon
    <2> HIDE DEF A, B
    <2>3. /\ Cardinality(A) \in Nat
          /\ Cardinality(B) = Cardinality(A) - Held(s \in A) + Held(s \in B)
      BY <1>0, <2>1, CountMoves, Zenon
    <2>4. Cardinality(B) = Cardinality(A) - Held(stream[s].pc # "free") + Held(stream'[s].pc # "free")
      BY <2>2, <2>3, Zenon DEF Held
    <2> QED
      BY <2>3, <2>4, Zenon DEF A, B
  <1>2. /\ Cardinality(Reading) \in Nat
        /\ Cardinality(Reading') = Cardinality(Reading) - Held(Serving(stream[s])) + Held(Serving(stream'[s]))
    <2> DEFINE A == {t \in Streams : Serving(stream[t])}
               B == {t \in Streams : Serving(stream'[t])}
    <2>0. A = Reading /\ B = Reading'
      BY Zenon DEF Reading, Serving
    <2>1. A \in SUBSET Streams /\ B \in SUBSET Streams /\ \A t \in Streams \ {s} : t \in B <=> t \in A
      BY <1>0, Zenon
    <2>2. (s \in A <=> Serving(stream[s])) /\ (s \in B <=> Serving(stream'[s]))
      BY Zenon
    <2> HIDE DEF A, B
    <2>3. /\ Cardinality(A) \in Nat
          /\ Cardinality(B) = Cardinality(A) - Held(s \in A) + Held(s \in B)
      BY <1>0, <2>1, CountMoves, Zenon
    <2>4. Cardinality(B) = Cardinality(A) - Held(Serving(stream[s])) + Held(Serving(stream'[s]))
      BY <2>2, <2>3, Zenon DEF Held
    <2> QED
      BY <2>0, <2>3, <2>4, Zenon
  <1>3. ASSUME NEW r \in Remotes
        PROVE  LET A == Of(r, Reading, stream) IN
               /\ Cardinality(A) \in Nat
               /\ Cardinality(A') = Cardinality(A)
                    - Held(Serving(stream[s]) /\ stream[s].remote = r)
                    + Held(Serving(stream'[s]) /\ stream'[s].remote = r)
    <2> DEFINE A == {t \in Streams : Serving(stream[t]) /\ stream[t].remote = r}
               B == {t \in Streams : Serving(stream'[t]) /\ stream'[t].remote = r}
    <2>0. A = Of(r, Reading, stream) /\ B = Of(r, Reading, stream)'
      BY Zenon DEF Of, Reading, Serving
    <2>1. A \in SUBSET Streams /\ B \in SUBSET Streams /\ \A t \in Streams \ {s} : t \in B <=> t \in A
      BY <1>0, Zenon
    <2>2. /\ s \in A <=> Serving(stream[s]) /\ stream[s].remote = r
          /\ s \in B <=> Serving(stream'[s]) /\ stream'[s].remote = r
      BY Zenon
    <2> HIDE DEF A, B
    <2>3. /\ Cardinality(A) \in Nat
          /\ Cardinality(B) = Cardinality(A) - Held(s \in A) + Held(s \in B)
      BY <1>0, <2>1, CountMoves, Zenon
    <2>4. Cardinality(B) = Cardinality(A) - Held(Serving(stream[s]) /\ stream[s].remote = r)
                             + Held(Serving(stream'[s]) /\ stream'[s].remote = r)
      BY <2>2, <2>3, Zenon DEF Held
    <2> QED
      BY <2>0, <2>3, <2>4, Zenon
  <1>4. /\ permits.stream \in Nat /\ permits.streams_per \in [Remotes -> Nat] /\ active.stream \in Int
    BY PermitFields, Zenon
  <1>5. permits'.stream + Cardinality({t \in Streams : stream'[t].pc # "free"}) = MaxStreams
    <2>1. permits.stream + Cardinality({t \in Streams : stream[t].pc # "free"}) = MaxStreams
      BY Zenon DEF PermitsConserved
    <2>2. permits'.stream = permits.stream + Held(stream[s].pc # "free") - Held(stream'[s].pc # "free")
      BY Zenon DEF StreamBalance
    <2> QED
      BY <1>1, <1>4, <2>1, <2>2 DEF Held
  <1>6. ASSUME NEW r \in Remotes
        PROVE  permits'.streams_per[r] + Cardinality(Of(r, Reading, stream)') = MaxStreamsPer
    <2>1. permits.streams_per[r] + Cardinality(Of(r, Reading, stream)) = MaxStreamsPer
      BY Zenon DEF PermitsConserved
    <2>2. permits'.streams_per[r] = permits.streams_per[r]
            + Held(Serving(stream[s]) /\ stream[s].remote = r)
            - Held(Serving(stream'[s]) /\ stream'[s].remote = r)
      BY Zenon DEF StreamBalance
    <2>3. permits.streams_per[r] \in Nat
      BY <1>4, Zenon
    <2> QED
      BY <1>3, <2>1, <2>2, <2>3 DEF Held
  <1>7. active'.stream = Cardinality(Reading')
    <2>1. active.stream = Cardinality(Reading)
      BY Zenon DEF PermitsConserved
    <2>2. active'.stream = active.stream - Held(Serving(stream[s])) + Held(Serving(stream'[s]))
      BY Zenon DEF StreamBalance
    <2> QED
      BY <1>2, <1>4, <2>1, <2>2, Zenon DEF Held
  <1>8. /\ permits'.handshake = permits.handshake /\ permits'.connection = permits.connection
        /\ permits'.connections_per = permits.connections_per
        /\ active'.handshake = active.handshake /\ active'.connection = active.connection
    BY Zenon DEF StreamBalance
  <1>9. /\ permits'.handshake + Cardinality(ConnsAt({"handshake"})') = MaxHandshakes
        /\ permits'.connection + Cardinality(ConnsAt({"admitted", "open"})') = MaxConnections
        /\ \A r \in Remotes :
             permits'.connections_per[r] + Cardinality(Of(r, ConnsAt({"open"}), conn)') = MaxConnectionsPer
        /\ active'.handshake = Cardinality(ConnsAt({"handshake"})')
        /\ active'.connection = Cardinality(ConnsAt({"open"})')
    BY <1>8, Zenon DEF PermitsConserved, ConnsAt, Of
  <1>10. active' = [handshake |-> Cardinality(ConnsAt({"handshake"})'),
                    connection |-> Cardinality(ConnsAt({"open"})'),
                    stream |-> Cardinality(Reading')]
    BY <1>7, <1>9, Zenon DEF PermitTypes
  <1> QED
    BY <1>5, <1>6, <1>9, <1>10, Zenon DEF PermitsConserved

-----------------------------------------------------------------------------
(* Nonces outlive the requests they came with.                              *)

NonceTypes ==
  /\ accepted \subseteq Remotes \X Requests \X Nat
  /\ peers \subseteq [peer : Remotes, nonce : Nonces, expires_at : Nat]
  /\ IsFiniteSet(peers)
  /\ live_total \in Nat

\* register_at, called for a validated request, keeps the bookkeeping, keeps
\* the nonce of every accepted request live as long as it must be, and so
\* does not accept a request again before its deadline.
LEMMA RegisterNonces ==
  ASSUME clock \in Nat, NonceTypes, NonceBookkeeping, NoncesLive, AcceptedOnce,
         NEW s \in Streams, Registers(s), UNCHANGED clock
  PROVE  NonceTypes' /\ NonceBookkeeping' /\ NoncesLive' /\ AcceptedOnce'
  <1> DEFINE q == stream[s].request
             r == stream[s].remote
             ttl == NonceTtl(q)
             new == ExpiryEntry(r, q.nonce, clock + ttl)
             live == peers \ Pruned(clock)
             decision == NonceDecision(r, q.nonce, clock)
  <1>1. /\ q \in Requests /\ r \in Remotes /\ q.issued <= clock + Skew
        /\ Register(r, q.nonce, ttl, clock)
        /\ accepted' = IF decision = "Accepted" THEN accepted \cup {<<r, q, clock>>} ELSE accepted
    BY Zenon DEF Registers
  <1>2. NonceBookkeeping' /\ IsFiniteSet(peers') /\ live_total' \in Nat
    <2>1. IsFiniteSet(peers)
      BY Zenon DEF NonceTypes
    <2> QED
      BY <1>1, <2>1, RegisterKeeps, Zenon
  <1>3. Skew \in Nat /\ \A p \in Requests : p.issued \in Nat /\ p.deadline \in Nat /\ NonceTtl(p) \in Nat
                                           /\ NonceTtl(p) = p.deadline + Skew
    <2>1. Skew \in Nat /\ \A p \in Requests : p.issued \in Nat /\ p.deadline \in Nat
      BY ServerAssumption, Zenon
    <2> QED
      BY <2>1 DEF NonceTtl
  <1>4. peers' = live \cup (IF decision = "Accepted" THEN {new} ELSE {})
    BY <1>1, Zenon DEF Register
  <1>5. \A e \in peers \ live : e.expires_at <= clock
    BY Zenon DEF Pruned, Popped
  <1>6. new \in [peer : Remotes, nonce : Nonces, expires_at : Nat]
    <2>1. clock + ttl \in Nat
      BY <1>1, <1>3
    <2>2. q.nonce \in Nonces
      BY <1>1, Zenon DEF Nonces
    <2> QED
      BY <1>1, <2>1, <2>2, Zenon DEF ExpiryEntry
  <1>7. NonceTypes'
    <2>1. peers' \subseteq [peer : Remotes, nonce : Nonces, expires_at : Nat]
      <3> HIDE DEF new, decision
      <3> QED
        BY <1>4, <1>6, Zenon DEF NonceTypes
    <2>2. accepted' \subseteq Remotes \X Requests \X Nat
      BY <1>1 DEF NonceTypes
    <2> QED
      BY <1>2, <2>1, <2>2, Zenon DEF NonceTypes
  <1>8. ASSUME NEW a \in accepted
        PROVE  /\ a[1] \in Remotes /\ a[2] \in Requests /\ a[3] \in Nat
               /\ a[3] <= clock /\ a[2].issued <= a[3] + Skew
               /\ \/ ExpiryEntry(a[1], a[2].nonce, a[3] + NonceTtl(a[2])) \in live
                  \/ a[3] + NonceTtl(a[2]) <= clock
    <2> DEFINE entry == ExpiryEntry(a[1], a[2].nonce, a[3] + NonceTtl(a[2]))
    <2>1. a[1] \in Remotes /\ a[2] \in Requests /\ a[3] \in Nat
      BY Zenon DEF NonceTypes
    <2>2. /\ a[3] <= clock /\ a[2].issued <= a[3] + Skew
          /\ entry \in peers \/ a[3] + NonceTtl(a[2]) <= clock
      BY Zenon DEF NoncesLive
    <2>3. entry.expires_at = a[3] + NonceTtl(a[2])
      BY Zenon DEF ExpiryEntry
    <2> HIDE DEF entry
    <2>4. entry \in live \/ a[3] + NonceTtl(a[2]) <= clock
      BY <1>5, <2>2, <2>3, Zenon
    <2> QED
      BY <2>1, <2>2, <2>4, Zenon DEF entry
  <1>9. ASSUME NEW a \in accepted'
        PROVE  LET until == a[3] + NonceTtl(a[2]) IN
               /\ a[3] <= clock
               /\ a[2].issued <= a[3] + Skew
               /\ ExpiryEntry(a[1], a[2].nonce, until) \in peers' \/ until <= clock
    <2>1. CASE a \in accepted
      BY <1>4, <1>8, <2>1, Zenon
    <2>2. CASE a \notin accepted
      <3>1. decision = "Accepted" /\ a = <<r, q, clock>>
        BY <1>1, <2>2, Zenon
      <3>2. a[1] = r /\ a[2] = q /\ a[3] = clock
        BY <3>1, Zenon
      <3>3. ExpiryEntry(a[1], a[2].nonce, a[3] + NonceTtl(a[2])) \in peers'
        BY <1>4, <3>1, <3>2, Zenon
      <3> QED
        BY <1>1, <3>2, <3>3
    <2> QED
      BY <2>1, <2>2, Zenon
  <1>10. NoncesLive'
    BY <1>9, Zenon DEF NoncesLive, NonceTtl, ExpiryEntry
  <1>11. ASSUME NEW a \in accepted', NEW b \in accepted', a[1] = b[1], a[2] = b[2], a[3] < b[3]
         PROVE  b[3] >= a[2].issued + a[2].deadline
    <2>1. CASE a \in accepted /\ b \in accepted
      BY <1>11, <2>1, Zenon DEF AcceptedOnce
    <2>2. CASE a \notin accepted
      <3>1. a = <<r, q, clock>>
        BY <1>1, <2>2, Zenon
      <3>2. a[3] = clock /\ b[3] <= clock
        BY <1>9, <3>1, Zenon
      <3>3. b[3] \in Nat
        BY <1>7, Zenon DEF NonceTypes
      <3> QED
        BY <1>11, <3>2, <3>3
    <2>3. CASE a \in accepted /\ b \notin accepted
      <3>1. decision = "Accepted" /\ b = <<r, q, clock>>
        BY <1>1, <2>3, Zenon
      <3>2. a[1] = r /\ a[2] = q /\ b[3] = clock
        BY <1>11, <3>1, Zenon
      <3> DEFINE entry == ExpiryEntry(a[1], a[2].nonce, a[3] + NonceTtl(a[2]))
      <3>3. entry.peer = r /\ entry.nonce = q.nonce
        BY <3>2, Zenon DEF ExpiryEntry
      <3>4. ~\E e \in live : e.peer = r /\ e.nonce = q.nonce
        BY <3>1, Zenon DEF NonceDecision
      <3>5. a[3] + NonceTtl(a[2]) <= clock
        <4> HIDE DEF entry, live
        <4>1. entry \notin live
          BY <3>3, <3>4, Zenon
        <4> QED
          BY <1>8, <2>3, <4>1, Zenon DEF entry
      <3>6. /\ a[3] \in Nat /\ a[2].issued <= a[3] + Skew /\ a[2] \in Requests
        BY <1>8, <2>3, Zenon
      <3>7. a[2].issued \in Nat /\ a[2].deadline \in Nat /\ NonceTtl(a[2]) = a[2].deadline + Skew
        BY <1>3, <3>6, Zenon
      <3> QED
        BY <1>3, <3>2, <3>5, <3>6, <3>7
    <2> QED
      BY <2>1, <2>2, <2>3, Zenon
  <1>12. AcceptedOnce'
    BY <1>11, Zenon DEF AcceptedOnce
  <1> QED
    BY <1>2, <1>7, <1>10, <1>12, Zenon

-----------------------------------------------------------------------------
(* The invariant.                                                           *)

AllTypes == clock \in Nat /\ ConnTypes /\ StreamTypes /\ PermitTypes /\ NonceTypes

AllInv == StreamsOK /\ PermitsConserved /\ NonceBookkeeping /\ NoncesLive /\ AcceptedOnce

\* The invariant of the module, in the parts the proofs use.
LEMMA Parts ==
  /\ ServerTypeOK <=> AllTypes
  /\ ServerInv <=> AllInv
  <1>1. ServerTypeOK <=> AllTypes
    BY Zenon DEF ServerTypeOK, AllTypes, ConnTypes, StreamTypes, PermitTypes, NonceTypes
  <1>2. StreamsOK <=> RequestsChecked /\ EchoesTrailed /\ ResponseAudited
    BY Zenon DEF StreamsOK, StreamOK, RequestsChecked, EchoesTrailed, ResponseAudited
  <1>3. ServerInv <=> AllInv
    BY <1>2, Zenon DEF ServerInv, AllInv
  <1> QED
    BY <1>1, <1>3, Zenon

\* It holds when the server starts.
LEMMA InitServer ==
  ASSUME ServerInit
  PROVE  AllTypes /\ AllInv
  <1>1. /\ \A c \in Conns : conn[c] = FreeConn
        /\ \A s \in Streams : stream[s] = FreeStream
    BY Zenon DEF ServerInit
  <1>2. /\ FreeConn \in ConnTask /\ FreeConn.pc = "free"
        /\ FreeStream \in StreamTask /\ FreeStream.pc = "free"
    BY FreeTasks, Zenon
  <1>3. ConnTypes /\ StreamTypes
    BY <1>1, <1>2, Zenon DEF ServerInit, ConnTypes, StreamTypes
  <1>4. PermitTypes
    BY ServerAssumption DEF ServerInit, PermitTypes
  <1>5. IsFiniteSet({}) /\ Cardinality({}) = 0
    BY FS_EmptySet, Zenon
  <1>6. peers = {} /\ expirations = {} /\ live_total = 0 /\ accepted = {}
    BY Zenon DEF ServerInit, NonceInit
  <1>7. NonceTypes
    BY <1>5, <1>6, Zenon DEF NonceTypes
  <1>8. NonceBookkeeping /\ NoncesLive /\ AcceptedOnce
    BY <1>5, <1>6, NonceAssumption DEF NonceBookkeeping, NoncesLive, AcceptedOnce
  <1>9. StreamsOK
    BY <1>1, <1>2, Zenon DEF StreamsOK, StreamOK
  <1>10. PermitsConserved
    <2>1. /\ ConnsAt({"handshake"}) = {} /\ ConnsAt({"admitted", "open"}) = {} /\ ConnsAt({"open"}) = {}
          /\ {s \in Streams : stream[s].pc # "free"} = {} /\ Reading = {}
      BY <1>1, <1>2, Zenon DEF ConnsAt, Reading
    <2>2. \A r : Of(r, ConnsAt({"open"}), conn) = {} /\ Of(r, Reading, stream) = {}
      BY <2>1, Zenon DEF Of
    <2>3. /\ permits.handshake = MaxHandshakes /\ permits.connection = MaxConnections
          /\ permits.stream = MaxStreams
          /\ \A r \in Remotes : permits.connections_per[r] = MaxConnectionsPer
                                /\ permits.streams_per[r] = MaxStreamsPer
          /\ active = [handshake |-> 0, connection |-> 0, stream |-> 0]
      BY Zenon DEF ServerInit
    <2>4. {MaxHandshakes, MaxConnections, MaxConnectionsPer, MaxStreams, MaxStreamsPer} \subseteq Nat
      BY ServerAssumption, Zenon
    <2>5. /\ Cardinality(ConnsAt({"handshake"})) = 0 /\ Cardinality(ConnsAt({"admitted", "open"})) = 0
          /\ Cardinality(ConnsAt({"open"})) = 0 /\ Cardinality(Reading) = 0
          /\ Cardinality({s \in Streams : stream[s].pc # "free"}) = 0
          /\ \A r : /\ Cardinality(Of(r, ConnsAt({"open"}), conn)) = 0
                   /\ Cardinality(Of(r, Reading, stream)) = 0
      BY <1>5, <2>1, <2>2, Zenon
    <2>6. \A r \in Remotes :
            /\ permits.connections_per[r] + Cardinality(Of(r, ConnsAt({"open"}), conn)) = MaxConnectionsPer
            /\ permits.streams_per[r] + Cardinality(Of(r, Reading, stream)) = MaxStreamsPer
      BY <2>3, <2>4, <2>5
    <2>7. active = [handshake |-> Cardinality(ConnsAt({"handshake"})),
                    connection |-> Cardinality(ConnsAt({"open"})),
                    stream |-> Cardinality(Reading)]
      BY <2>3, <2>5, Zenon
    <2> QED
      BY <2>3, <2>4, <2>5, <2>6, <2>7 DEF PermitsConserved
  <1>11. clock \in Nat
    BY Zenon DEF ServerInit
  <1> QED
    BY <1>3, <1>4, <1>7, <1>8, <1>9, <1>10, <1>11, Zenon DEF AllTypes, AllInv

\* What is said of streams, nonces and permits only depends on their state.
LEMMA Frames ==
  /\ UNCHANGED <<permits, active, conn, stream>> /\ PermitsConserved => PermitsConserved'
  /\ UNCHANGED conn /\ ConnTypes => ConnTypes'
  /\ UNCHANGED stream /\ StreamTypes => StreamTypes'
  /\ UNCHANGED <<permits, active>> /\ PermitTypes => PermitTypes'
  /\ UNCHANGED <<clock, stream>> /\ StreamsOK => StreamsOK'
  /\ UNCHANGED <<accepted, nonceVars>> =>
       /\ NonceTypes => NonceTypes'
       /\ NonceBookkeeping => NonceBookkeeping'
       /\ AcceptedOnce => AcceptedOnce'
       /\ UNCHANGED clock /\ NoncesLive => NoncesLive'
  <1>1. UNCHANGED <<permits, active, conn, stream>> /\ PermitsConserved => PermitsConserved'
    BY Zenon DEF PermitsConserved, ConnsAt, Reading, Of
  <1>2. /\ UNCHANGED conn /\ ConnTypes => ConnTypes'
        /\ UNCHANGED stream /\ StreamTypes => StreamTypes'
        /\ UNCHANGED <<permits, active>> /\ PermitTypes => PermitTypes'
        /\ UNCHANGED <<clock, stream>> /\ StreamsOK => StreamsOK'
    BY Zenon DEF ConnTypes, StreamTypes, PermitTypes, StreamsOK
  <1>3. ASSUME UNCHANGED <<accepted, nonceVars>>
        PROVE  /\ NonceTypes => NonceTypes'
               /\ NonceBookkeeping => NonceBookkeeping'
               /\ AcceptedOnce => AcceptedOnce'
               /\ UNCHANGED clock /\ NoncesLive => NoncesLive'
    BY <1>3, Zenon DEF nonceVars, NonceTypes, NonceBookkeeping, AcceptedOnce, NoncesLive
  <1> QED
    BY <1>1, <1>2, <1>3, Zenon

\* When only stream s moved, what holds of its task holds of all.
LEMMA StreamsStayOK ==
  ASSUME StreamsOK, NEW s \in Streams, StreamBalance(s), StreamOK(stream'[s], clock), UNCHANGED clock
  PROVE  StreamsOK'
  <1>1. \A t \in Streams \ {s} : stream'[t] = stream[t]
    BY Zenon DEF StreamBalance
  <1>2. \A t \in Streams : StreamOK(stream'[t], clock)
    BY <1>1, Zenon DEF StreamsOK
  <1> QED
    BY <1>2, Zenon DEF StreamsOK

\* The clock moves on: an age that was acceptable stays so, and what has
\* expired stays expired.
LEMMA TickKeeps ==
  ASSUME AllTypes, AllInv, ServerTick
  PROVE  (AllTypes /\ AllInv)'
  <1>1. clock' = clock + 1 /\ clock \in Nat /\ Skew \in Nat
        /\ UNCHANGED <<conn, stream, permits, active, accepted, nonceVars>>
    BY ServerAssumption, Zenon DEF ServerTick, AllTypes
  <1>2. StreamsOK'
    <2>1. \A s \in Streams : stream[s].request \in Requests => stream[s].request.issued \in Nat
      BY ServerAssumption, Zenon
    <2>2. ASSUME NEW s \in Streams
          PROVE  StreamOK(stream[s], clock')
      <3>1. StreamOK(stream[s], clock)
        BY Zenon DEF AllInv, StreamsOK
      <3>2. stream[s].pc = "valid" => stream[s].request \in Requests /\ stream[s].request.issued <= clock' + Skew
        BY <1>1, <2>1, <3>1 DEF StreamOK
      <3> QED
        BY <3>1, <3>2, Zenon DEF StreamOK
    <2> QED
      BY <1>1, <2>2, Zenon DEF StreamsOK
  <1>3. NoncesLive'
    <2>1. ASSUME NEW a \in accepted
          PROVE  LET until == a[3] + NonceTtl(a[2]) IN
                 /\ a[3] <= clock' /\ a[2].issued <= a[3] + Skew
                 /\ ExpiryEntry(a[1], a[2].nonce, until) \in peers \/ until <= clock'
      <3>1. a[2] \in Requests /\ a[3] \in Nat
        BY Zenon DEF AllTypes, NonceTypes
      <3>2. a[2].deadline \in Nat /\ NonceTtl(a[2]) \in Nat
        BY <1>1, <3>1, ServerAssumption DEF NonceTtl
      <3>3. LET until == a[3] + NonceTtl(a[2]) IN
            /\ a[3] <= clock /\ a[2].issued <= a[3] + Skew
            /\ ExpiryEntry(a[1], a[2].nonce, until) \in peers \/ until <= clock
        BY Zenon DEF AllInv, NoncesLive
      <3> QED
        BY <1>1, <3>1, <3>2, <3>3
    <2> QED
      BY <1>1, <2>1, Zenon DEF NoncesLive, nonceVars, NonceTtl, ExpiryEntry
  <1> QED
    BY <1>1, <1>2, <1>3, Frames DEF AllTypes, AllInv

\* Every step of the server preserves the invariant.
LEMMA StepServer ==
  ASSUME AllTypes, AllInv, [ServerNext]_agentVars
  PROVE  (AllTypes /\ AllInv)'
  <1>1. ASSUME UNCHANGED <<serverVars, nonceVars>>
        PROVE  (AllTypes /\ AllInv)'
    <2>1. UNCHANGED <<clock, conn, stream, permits, active, accepted, nonceVars>>
      BY <1>1, Zenon DEF serverVars
    <2> QED
      BY <2>1, Frames, Zenon DEF AllTypes, AllInv
  <1>2. CASE ServerTick
    BY <1>2, TickKeeps, Zenon
  <1>3. CASE IncomingRejected \/ \E c \in Conns : StreamRejected(c)
    BY <1>1, <1>3, Zenon DEF IncomingRejected, StreamRejected
  <1>4. ASSUME NEW c \in Conns,
               \/ Incoming(c) \/ HandshakeFails(c) \/ HandshakeTimeout(c)
               \/ \E r \in Remotes : HookRejects(c, r) \/ HandshakeDone(c, r)
               \/ AcquireController(c) \/ ConnectionClosed(c) \/ IdleTimeout(c)
        PROVE  (AllTypes /\ AllInv)'
    <2>1. /\ ConnTypes' /\ PermitTypes' /\ ConnBalance(c)
          /\ UNCHANGED <<clock, stream, accepted, nonceVars>>
      BY <1>4, ConnStep, Zenon DEF AllTypes
    <2>2. PermitsConserved'
      BY <2>1, ConnConserves, Zenon DEF AllTypes, AllInv
    <2> QED
      BY <2>1, <2>2, Frames, Zenon DEF AllTypes, AllInv
  <1>5. ASSUME NEW s \in Streams,
               /\ StreamTypes' /\ PermitTypes' /\ StreamBalance(s) /\ StreamOK(stream'[s], clock)
               /\ UNCHANGED <<clock, conn>>,
               NonceTypes' /\ NonceBookkeeping' /\ NoncesLive' /\ AcceptedOnce'
        PROVE  (AllTypes /\ AllInv)'
    <2>1. StreamsOK'
      BY <1>5, StreamsStayOK, Zenon DEF AllInv
    <2>2. PermitsConserved'
      BY <1>5, StreamConserves, Zenon DEF AllTypes, AllInv
    <2> QED
      BY <1>5, <2>1, <2>2, Frames, Zenon DEF AllTypes, AllInv
  <1>6. \A s \in Streams : StreamOK(stream[s], clock)
    BY Zenon DEF AllInv, StreamsOK
  <1>7. ASSUME NEW s \in Streams,
               \/ \E c \in Conns : AcceptStream(c, s)
               \/ AcquireStream(s) \/ StreamEnds(s)
        PROVE  (AllTypes /\ AllInv)'
    <2>1. /\ StreamTypes' /\ PermitTypes' /\ StreamBalance(s) /\ StreamOK(stream'[s], clock)
          /\ UNCHANGED <<clock, conn, accepted, nonceVars>>
      BY <1>6, <1>7, StreamPermits, Zenon DEF AllTypes
    <2> QED
      BY <1>5, <2>1, Frames, Zenon DEF AllTypes, AllInv
  <1>8. ASSUME NEW s \in Streams,
               \/ ReadFails(s) \/ \E q \in Requests : ReadRequest(s, q)
               \/ PeerAnswers(s) \/ \E written \in BOOLEAN : PeerAudit(s, written)
               \/ DispatchTimeout(s) \/ \E written, fits \in BOOLEAN : AuditReply(s, written, fits)
        PROVE  (AllTypes /\ AllInv)'
    <2>1. /\ StreamTypes' /\ PermitTypes' /\ StreamBalance(s) /\ StreamOK(stream'[s], clock)
          /\ UNCHANGED <<clock, conn, accepted, nonceVars>>
      BY <1>6, <1>8, RequestStep, Zenon DEF AllTypes
    <2> QED
      BY <1>5, <2>1, Frames DEF AllTypes, AllInv
  <1>9. ASSUME NEW s \in Streams, RegisterNonce(s)
        PROVE  (AllTypes /\ AllInv)'
    <2>1. /\ StreamTypes' /\ PermitTypes' /\ StreamBalance(s) /\ StreamOK(stream'[s], clock)
          /\ UNCHANGED <<clock, conn>> /\ Registers(s)
      BY <1>6, <1>9, RegisterStep, Zenon DEF AllTypes
    <2>2. NonceTypes' /\ NonceBookkeeping' /\ NoncesLive' /\ AcceptedOnce'
      BY <2>1, RegisterNonces, Zenon DEF AllTypes, AllInv
    <2> QED
      BY <1>5, <2>1, <2>2, Zenon
  <1>10. CASE UNCHANGED agentVars
    BY <1>1, <1>10, Zenon DEF agentVars
  <1>11. ASSUME NEW c \in Conns, ConnNext(c)
         PROVE  (AllTypes /\ AllInv)'
    BY <1>3, <1>4, <1>7, <1>11, Zenon DEF ConnNext
  <1>12. ASSUME NEW s \in Streams, StreamNext(s)
         PROVE  (AllTypes /\ AllInv)'
    BY <1>7, <1>8, <1>9, <1>12, Zenon DEF StreamNext
  <1> QED
    BY <1>2, <1>3, <1>10, <1>11, <1>12, Zenon DEF ServerNext

-----------------------------------------------------------------------------
(* The results.                                                             *)

\* The types of the server's state and what the four properties rest on:
\* validated requests stay within the skew, a stream has a request only once
\* it was read, and the nonce of an accepted request is live as long as it
\* must be.
THEOREM ServerInvariant == ServerSpec => [](ServerTypeOK /\ ServerInv)
  <1>1. ServerInit => AllTypes /\ AllInv
    BY InitServer, Zenon
  <1>2. AllTypes /\ AllInv /\ [ServerNext]_agentVars => (AllTypes /\ AllInv)'
    BY StepServer, Zenon
  <1>3. AllTypes /\ AllInv => ServerTypeOK /\ ServerInv
    BY Parts, Zenon
  <1> QED
    BY <1>1, <1>2, <1>3, PTL DEF ServerSpec

\* server.rs: however handshakes, connections and streams end, every permit
\* is either free or with the task that holds it, and the gauges count those
\* tasks.
THEOREM PermitsAreConserved == ServerSpec => []PermitsConserved
  <1>1. ServerInv => PermitsConserved
    BY Zenon DEF ServerInv
  <1> QED
    BY <1>1, ServerInvariant, PTL

\* nonce.rs: the map, the heap and the total agree and stay within the limits.
THEOREM NoncesAreKept == ServerSpec => []NonceBookkeeping
  <1>1. ServerInv => NonceBookkeeping
    BY Zenon DEF ServerInv
  <1> QED
    BY <1>1, ServerInvariant, PTL

\* validate_and_dispatch_request: no request is accepted twice before its
\* deadline, whatever the skew and the limits.
THEOREM RequestsAcceptedOnce == ServerSpec => []AcceptedOnce
  <1>1. ServerInv => AcceptedOnce
    BY Zenon DEF ServerInv
  <1> QED
    BY <1>1, ServerInvariant, PTL

\* audit_then_write_response: no response leaves without its audit event.
THEOREM ResponsesAreAudited == ServerSpec => []ResponseAudited
  <1>1. ServerInv => ResponseAudited
    BY Zenon DEF ServerInv
  <1> QED
    BY <1>1, ServerInvariant, PTL

-----------------------------------------------------------------------------
(* AgentAudit.                                                              *)

\* The events of a queue or of a file, after an append.
LEMMA AppendAdds ==
  ASSUME NEW s \in Seq(Events), NEW e \in Events
  PROVE  /\ Append(s, e) \in Seq(Events) /\ Len(Append(s, e)) = Len(s) + 1
         /\ Range(Append(s, e)) = Range(s) \cup {e}
         /\ NoneTwice(s) /\ e \notin Range(s) => NoneTwice(Append(s, e))
<1>1. PICK t : t = Append(s, e)
  BY Zenon
<1>2. /\ t \in Seq(Events) /\ Len(t) = Len(s) + 1 /\ Len(s) \in Nat /\ DOMAIN s = 1..Len(s)
      /\ DOMAIN t = 1..(Len(s) + 1) /\ t[Len(s) + 1] = e /\ (\A i \in 1..Len(s) : t[i] = s[i])
  BY <1>1
<1>3. \A i : i \in DOMAIN t <=> (i \in DOMAIN s \/ i = Len(s) + 1)
  BY <1>2
<1>4. Range(t) = Range(s) \cup {e}
  BY <1>2, <1>3, Zenon DEF Range
<1>5. ASSUME NoneTwice(s), e \notin Range(s) PROVE NoneTwice(t)
  BY <1>2, <1>3, <1>5, Zenon DEF NoneTwice, Range
<1> QED
  BY <1>1, <1>2, <1>4, <1>5, Zenon

\* The head and the rest of a queue.
LEMMA TailRemoves ==
  ASSUME NEW s \in Seq(Events), s # <<>>
  PROVE  /\ Head(s) \in Events /\ Tail(s) \in Seq(Events) /\ Len(Tail(s)) = Len(s) - 1 /\ Len(s) \in Nat
         /\ Range(s) = {Head(s)} \cup Range(Tail(s))
         /\ NoneTwice(s) => NoneTwice(Tail(s)) /\ Head(s) \notin Range(Tail(s))
<1>1. PICK t : t = Tail(s)
  BY Zenon
<1>2. PICK n \in Nat : n = Len(s)
  OBVIOUS
<1>3. /\ t \in Seq(Events) /\ Len(t) = n - 1 /\ n >= 1 /\ DOMAIN s = 1..n /\ DOMAIN t = 1..(n - 1)
      /\ Head(s) = s[1] /\ Head(s) \in Events
  BY <1>1, <1>2
<1>4. \A i \in 1..(n - 1) : t[i] = s[i + 1]
  BY <1>1, <1>2
<1>5. \A i \in DOMAIN t : i + 1 \in DOMAIN s /\ t[i] = s[i + 1] /\ i + 1 # 1
  BY <1>2, <1>3, <1>4
<1>6. \A i \in DOMAIN s : i = 1 \/ (i - 1 \in DOMAIN t /\ t[i - 1] = s[i])
  BY <1>2, <1>3, <1>4
<1>7. 1 \in DOMAIN s
  BY <1>2, <1>3
<1>8. Range(s) = {Head(s)} \cup Range(t)
  <2>1. \A x \in Range(s) : x \in {Head(s)} \cup Range(t)
    BY <1>3, <1>6, Zenon DEF Range
  <2>2. \A x \in Range(t) : x \in Range(s)
    BY <1>5, Zenon DEF Range
  <2>3. Head(s) \in Range(s)
    BY <1>3, <1>7, Zenon DEF Range
  <2> QED
    BY <2>1, <2>2, <2>3, Zenon
<1>9. ASSUME NoneTwice(s) PROVE NoneTwice(t) /\ Head(s) \notin Range(t)
  <2>1. ASSUME NEW i \in DOMAIN t, NEW k \in DOMAIN t, t[i] = t[k] PROVE i = k
    <3>1. i + 1 = k + 1
      BY <1>5, <1>9, <2>1, Zenon DEF NoneTwice
    <3> QED
      BY <1>2, <1>3, <3>1
  <2>2. \A i \in DOMAIN t : t[i] # s[1]
    BY <1>5, <1>7, <1>9, Zenon DEF NoneTwice
  <2> QED
    BY <1>3, <2>1, <2>2, Zenon DEF NoneTwice, Range
<1> QED
  BY <1>1, <1>2, <1>3, <1>8, <1>9, Zenon

\* What a reader finds in a file.
LEMMA ReadableIs ==
  ASSUME NEW file \in AuditFile
  PROVE  /\ file.lines \in Seq(Events) /\ file.tail \in Events \cup {Clean, Torn}
         /\ Readable(file) \in Seq(Events)
         /\ Range(Readable(file)) = Range(file.lines) \cup ({file.tail} \cap Events)
         /\ Len(Readable(file)) = Len(file.lines) + (IF file.tail \in Events THEN 1 ELSE 0)
<1>1. file.lines \in Seq(Events) /\ file.tail \in Events \cup {Clean, Torn}
  BY Zenon DEF AuditFile
<1>2. CASE file.tail \in Events
  <2>1. Readable(file) = Append(file.lines, file.tail)
    BY <1>1, <1>2 DEF Readable
  <2>2. {file.tail} \cap Events = {file.tail}
    BY <1>2, Zenon
  <2>3. Len(Append(file.lines, file.tail)) = Len(file.lines) + (IF file.tail \in Events THEN 1 ELSE 0)
    BY <1>1, <1>2, AppendAdds, Zenon
  <2> QED
    BY <1>1, <1>2, <2>1, <2>2, <2>3, AppendAdds, Zenon
<1>3. CASE file.tail \notin Events
  <2>1. Readable(file) = file.lines
    BY <1>1, <1>3 DEF Readable
  <2>2. {file.tail} \cap Events = {}
    BY <1>3, Zenon
  <2>3. Len(file.lines) = Len(file.lines) + (IF file.tail \in Events THEN 1 ELSE 0)
    BY <1>1, <1>3
  <2> QED
    BY <1>1, <2>1, <2>2, <2>3, Zenon
<1> QED
  BY <1>2, <1>3, Zenon

\* An append that succeeds: the event is the last line, unless it continued a
\* line that was not ended.
LEMMA AppendedIs ==
  ASSUME NEW file \in AuditFile, NEW e \in Events, NEW g, g = Appended(file, e)
  PROVE  /\ g \in AuditFile /\ g.tail = Clean
         /\ file.tail = Clean => g.lines = Append(file.lines, e)
         /\ file.tail # Clean => g.lines = file.lines
<1>1. file.lines \in Seq(Events) /\ Append(file.lines, e) \in Seq(Events)
  BY ReadableIs, AppendAdds, Zenon
<1>2. /\ g.tail = Clean /\ g.lines = IF file.tail = Clean THEN Append(file.lines, e) ELSE file.lines
      /\ g = [lines |-> g.lines, tail |-> g.tail]
  BY Zenon DEF Appended
<1>3. g.lines \in Seq(Events) /\ g.tail \in Events \cup {Clean, Torn}
  BY <1>1, <1>2, Zenon
<1>4. g \in AuditFile
  BY <1>2, <1>3, Zenon DEF AuditFile
<1> QED
  BY <1>2, <1>4, Zenon

\* An append that is cut short leaves the lines and a tail.
LEMMA CutShortIs ==
  ASSUME NEW file \in AuditFile, NEW e \in Events, NEW g \in CutShort(file, e)
  PROVE  /\ g \in AuditFile /\ g.lines = file.lines /\ g.tail # Clean
         /\ g.tail = Torn \/ (file.tail = Clean /\ g.tail = e)
<1>1. g = [file EXCEPT !.tail = Torn] \/ (file.tail = Clean /\ g = [file EXCEPT !.tail = e])
  BY Zenon DEF CutShort
<1>2. g \in AuditFile /\ g.lines = file.lines /\ (g.tail = Torn \/ (file.tail = Clean /\ g.tail = e))
  BY <1>1, Zenon DEF AuditFile
<1>3. Torn # Clean
  BY Zenon DEF Torn, Clean
<1>4. e # Clean
  BY EventAssumption, Zenon
<1> QED
  BY <1>2, <1>3, <1>4, Zenon

\* A loss of two events at most.
LEMMA TwoMore ==
  ASSUME NEW X, IsFiniteSet(X), NEW x, NEW y, NEW Y, Y \subseteq X \cup {x, y}
  PROVE  IsFiniteSet(Y) /\ Cardinality(Y) \in Nat /\ Cardinality(X) \in Nat /\ Cardinality(Y) <= Cardinality(X) + 2
<1>1. PICK A : A = X \cup {x}
  BY Zenon
<1>2. PICK B : B = A \cup {y}
  BY Zenon
<1>3. IsFiniteSet(A) /\ Cardinality(X) \in Nat /\ Cardinality(A) \in Nat
  BY <1>1, FS_AddElement, FS_CardinalityType, Zenon
<1>4. Cardinality(A) <= Cardinality(X) + 1
  <2>1. Cardinality(A) = IF x \in X THEN Cardinality(X) ELSE Cardinality(X) + 1
    BY <1>1, FS_AddElement, Zenon
  <2> QED
    BY <1>3, <2>1
<1>5. IsFiniteSet(B) /\ Cardinality(B) \in Nat
  BY <1>2, <1>3, FS_AddElement, FS_CardinalityType, Zenon
<1>6. Cardinality(B) <= Cardinality(A) + 1
  <2>1. Cardinality(B) = IF y \in A THEN Cardinality(A) ELSE Cardinality(A) + 1
    BY <1>2, <1>3, FS_AddElement, Zenon
  <2> QED
    BY <1>3, <2>1
<1>7. Y \in SUBSET B
  BY <1>1, <1>2, Zenon
<1>8. IsFiniteSet(Y) /\ Cardinality(Y) <= Cardinality(B)
  BY <1>5, <1>7, FS_Subset, Zenon
<1>9. Cardinality(Y) \in Nat
  BY <1>8, FS_CardinalityType, Zenon
<1> QED
  BY <1>3, <1>4, <1>5, <1>6, <1>8, <1>9

\* No further loss.
LEMMA NoMore ==
  ASSUME NEW X, IsFiniteSet(X), NEW Y, Y \subseteq X
  PROVE  IsFiniteSet(Y) /\ Cardinality(Y) \in Nat /\ Cardinality(X) \in Nat /\ Cardinality(Y) <= Cardinality(X)
<1>1. Y \in SUBSET X
  BY Zenon
<1> QED
  BY <1>1, FS_Subset, FS_CardinalityType, Zenon

\* The events of a sequence.
LEMMA EventsOf ==
  ASSUME NEW s \in Seq(Events)
  PROVE  Range(s) \subseteq Events
BY DEF Range

\* The writer's state, one field changed.
LEMMA WriterFields ==
  ASSUME NEW w \in WriterState
  PROVE  /\ w.event \in Events \cup {Clean} /\ w.records \in Seq(Events)
         /\ \A pc : LET v == [w EXCEPT !.pc = pc] IN v.pc = pc /\ v.event = w.event /\ v.records = w.records
         /\ \A r : LET v == [w EXCEPT !.records = r] IN v.pc = w.pc /\ v.event = w.event /\ v.records = r
         /\ \A pc, r : LET v == [w EXCEPT !.pc = pc, !.records = r]
                       IN v.pc = pc /\ v.event = w.event /\ v.records = r
BY Zenon DEF WriterState

\* A state of the writer from its fields.
LEMMA WriterStates ==
  ASSUME NEW w \in WriterState
  PROVE  /\ \A pc \in {"idle", "read", "replay", "rewrite", "append", "spool", "written", "refused"} :
              [w EXCEPT !.pc = pc] \in WriterState
         /\ \A r \in Seq(Events) : [w EXCEPT !.records = r] \in WriterState
         /\ Idle \in WriterState /\ Idle.pc = "idle" /\ Idle.event = Clean /\ Idle.records = <<>>
BY DEF WriterState, Idle

\* Where a flush leaves the writer.
LEMMA AfterFlushIs ==
  ASSUME writer \in WriterState
  PROVE  /\ AfterFlush \in WriterState
         /\ \/ writer.event = Clean /\ AfterFlush.pc = "idle" /\ AfterFlush.event = Clean
            \/ writer.event \in Events /\ AfterFlush.pc = "append" /\ AfterFlush.event = writer.event
<1>1. CASE writer.event = Clean
  BY <1>1, WriterStates, Zenon DEF AfterFlush
<1>2. CASE writer.event # Clean
  <2>1. PICK v : v = [writer EXCEPT !.records = <<>>]
    BY Zenon
  <2>2. v \in WriterState /\ v.event = writer.event
    <3>1. <<>> \in Seq(Events)
      OBVIOUS
    <3> QED
      BY <2>1, <3>1, WriterStates, WriterFields, Zenon
  <2>3. PICK w : w = [v EXCEPT !.pc = "append"]
    BY Zenon
  <2>4. w \in WriterState /\ w.pc = "append" /\ w.event = writer.event
    BY <2>2, <2>3, WriterStates, WriterFields, Zenon
  <2>5. AfterFlush = w
    <3>1. AfterFlush = [writer EXCEPT !.pc = "append", !.records = <<>>]
      BY <1>2, Zenon DEF AfterFlush
    <3>2. [writer EXCEPT !.pc = "append", !.records = <<>>] = w
      BY <2>1, <2>3, Zenon DEF WriterState
    <3> QED
      BY <3>1, <3>2, Zenon
  <2>6. writer.event \in Events
    BY <1>2, WriterFields, Zenon
  <2> QED
    BY <2>4, <2>5, <2>6, Zenon
<1> QED
  BY <1>1, <1>2, Zenon

\* The queue and the event in hand stay out of the files when only that event,
\* and marks, come to them.
LEMMA TakenAgain ==
  ASSUME AuditInv, UNCHANGED <<request, queue>>, writer'.event = writer.event \/ writer'.event = Clean,
         Touched' \subseteq Touched \cup {writer.event, Clean, Torn},
         Unwritten(writer'.pc) => \/ writer'.event = Clean
                                  \/ /\ Unwritten(writer.pc)
                                     /\ Touched' \subseteq Touched \cup {Clean, Torn}
  PROVE  TakenOnce'
<1>1. /\ queue \in Seq(Events) /\ writer \in WriterState /\ Range(queue) \subseteq Events
      /\ writer.event \in Events \cup {Clean}
  BY EventsOf, WriterFields, Zenon DEF AuditInv, AuditTypeOK
<1>2. \A e \in Events : e # Clean /\ e # Torn
  BY EventAssumption, Zenon
<1>3. ASSUME NEW e \in Events, request'[e] = "new"
      PROVE  e \notin Touched' \cup Range(queue') \cup {writer'.event}
  BY <1>2, <1>3, Zenon DEF AuditInv, TakenOnce
<1>4. ASSUME NEW e \in Range(queue') PROVE e \notin Touched' \cup {writer'.event}
  BY <1>1, <1>2, Zenon DEF AuditInv, TakenOnce
<1>5. NoneTwice(queue')
  BY Zenon DEF AuditInv, TakenOnce
<1>6. Unwritten(writer'.pc) => writer'.event = Clean \/ writer'.event \notin Touched'
  BY <1>1, <1>2, Zenon DEF AuditInv, TakenOnce
<1> QED
  BY <1>3, <1>4, <1>5, <1>6, Zenon DEF TakenOnce, NoneTwice, Unwritten, Touched, Range

\* What has been lost, and what the tails may yet cost, stay within two events
\* for each append that was cut short.
LEMMA Accounted ==
  ASSUME AuditInv, tears' \in Nat, NEW x, NEW y, Exposed' \subseteq Exposed \cup {x, y},
         \/ /\ Exposed' \subseteq Exposed
            /\ TailCost(primary') + TailCost(spool')
                 <= TailCost(primary) + TailCost(spool) + 2 * (tears' - tears)
         \/ TailCost(primary') + TailCost(spool') + 2
              <= TailCost(primary) + TailCost(spool) + 2 * (tears' - tears)
  PROVE  LossesCharged'
<1>1. PICK X : X = Exposed
  BY Zenon
<1>2. PICK Y : Y = Exposed'
  BY Zenon
<1>3. IsFiniteSet(X) /\ Cardinality(X) + TailCost(primary) + TailCost(spool) <= 2 * tears /\ tears \in Nat
  BY <1>1, Zenon DEF AuditInv, LossesCharged, AuditTypeOK
<1>4. /\ IsFiniteSet(Y) /\ Cardinality(Y) \in Nat /\ Cardinality(X) \in Nat
      /\ Cardinality(Y) <= Cardinality(X) + 2
  BY <1>1, <1>2, <1>3, TwoMore, Zenon
<1>5. Y \subseteq X => Cardinality(Y) <= Cardinality(X)
  BY <1>3, NoMore, Zenon
<1>6. /\ TailCost(primary) \in Int /\ TailCost(spool) \in Int
      /\ TailCost(primary') \in Int /\ TailCost(spool') \in Int
  BY DEF TailCost
<1>7. Cardinality(Y) + TailCost(primary') + TailCost(spool') <= 2 * tears'
  <2>1. CASE /\ Y \subseteq X
             /\ TailCost(primary') + TailCost(spool')
                  <= TailCost(primary) + TailCost(spool) + 2 * (tears' - tears)
    BY <1>3, <1>4, <1>5, <1>6, <2>1
  <2>2. CASE TailCost(primary') + TailCost(spool') + 2
              <= TailCost(primary) + TailCost(spool) + 2 * (tears' - tears)
    BY <1>3, <1>4, <1>6, <2>2
  <2> QED
    BY <1>1, <1>2, <2>1, <2>2, Zenon
<1> QED
  BY <1>2, <1>4, <1>7, Zenon DEF LossesCharged, TailCost

\* A step of the writer that touches no file and gives up no record.
LEMMA WriterMoves ==
  ASSUME AuditInv, UNCHANGED <<primary, spool, request, queue, tears>>, writer' \in WriterState,
         writer'.pc = "idle" => writer'.event = Clean,
         writer'.pc \in {"append", "spool", "written", "refused"} => writer'.event \in Events,
         writer'.event = writer.event \/ writer'.event = Clean,
         Unwritten(writer'.pc) => writer'.event = Clean \/ Unwritten(writer.pc),
         writer'.pc # "written", Kept \subseteq Kept', RecordsSpooled'
  PROVE  AuditInv'
<1>1. AuditTypeOK'
  BY Zenon DEF AuditInv, AuditTypeOK
<1>2. TakenOnce'
  <2>1. Touched' = Touched
    BY Zenon DEF Touched
  <2>2. /\ Touched' \subseteq Touched \cup {writer.event, Clean, Torn}
        /\ Unwritten(writer'.pc) => \/ writer'.event = Clean
                                    \/ Unwritten(writer.pc) /\ Touched' \subseteq Touched \cup {Clean, Torn}
    BY <2>1, Zenon
  <2> QED
    BY <2>2, TakenAgain, Zenon
<1>3. LossesCharged'
  <2>1. Exposed' \subseteq Exposed
    BY Zenon DEF Exposed, Answered
  <2>2. Exposed' \subseteq Exposed \cup {Clean, Torn} /\ tears' \in Nat
    BY <2>1, Zenon DEF AuditInv, AuditTypeOK
  <2>3. TailCost(primary') + TailCost(spool')
          <= TailCost(primary) + TailCost(spool) + 2 * (tears' - tears)
    BY DEF TailCost, AuditInv, AuditTypeOK
  <2> QED
    BY <2>1, <2>2, <2>3, Accounted, Zenon
<1>4. Len(Readable(spool'))  <= SpoolMax /\ NoneTwice(primary'.lines)
  BY Zenon DEF AuditInv
<1> QED
  BY <1>1, <1>2, <1>3, <1>4, Zenon DEF AuditInv, NoneTwice, Readable

\* What the invariant says of the files, the writer and the queue.
LEMMA AuditTypes ==
  ASSUME AuditInv
  PROVE  /\ primary \in AuditFile /\ spool \in AuditFile /\ writer \in WriterState /\ tears \in Nat
         /\ writer.event \in Events \cup {Clean} /\ writer.records \in Seq(Events)
         /\ queue \in Seq(Events)
         /\ \A e \in Events : e # Clean /\ e # Torn
BY WriterFields, EventAssumption, Zenon DEF AuditInv, AuditTypeOK

\* A handler's try_send.
LEMMA EnqueueKeeps ==
  ASSUME AuditInv, NEW e \in Events, Enqueue(e)
  PROVE  AuditInv'
<1>1. request[e] = "new" /\ UNCHANGED <<primary, spool, writer, down, faults, tears>>
  BY Zenon DEF Enqueue
<1>2. PICK to \in {"waiting", "failed"} : request' = [request EXCEPT ![e] = to]
  BY Zenon DEF Enqueue
<1>3. request \in [Events -> {"new", "waiting", "answered", "failed", "lost"}] /\ queue \in Seq(Events)
  BY Zenon DEF AuditInv, AuditTypeOK
<1>4. \A f \in Events : request'[f] = IF f = e THEN to ELSE request[f]
  BY <1>2, <1>3, Zenon
<1>5. to # "new" /\ to # "answered"
  BY Zenon
<1>6. e \notin Touched \cup Range(queue) \cup {writer.event}
  BY <1>1, Zenon DEF AuditInv, TakenOnce
<1>7. /\ queue' \in Seq(Events) /\ NoneTwice(queue')
      /\ Range(queue') = Range(queue) \/ Range(queue') = Range(queue) \cup {e}
  <2>1. NoneTwice(queue)
    BY Zenon DEF AuditInv, TakenOnce
  <2>2. queue' = queue \/ queue' = Append(queue, e)
    BY Zenon DEF Enqueue
  <2>3. CASE queue' = queue
    BY <1>3, <2>1, <2>3, Zenon
  <2>4. CASE queue' = Append(queue, e)
    <3>1. e \notin Range(queue)
      BY <1>6, Zenon
    <3> QED
      BY <1>3, <2>1, <2>4, <3>1, AppendAdds, Zenon
  <2> QED
    BY <2>2, <2>3, <2>4, Zenon
<1>8. AuditTypeOK'
  <2>1. request' \in [Events -> {"new", "waiting", "answered", "failed", "lost"}]
    BY <1>2, <1>3, Zenon
  <2> QED
    BY <1>1, <1>7, <2>1, Zenon DEF AuditInv, AuditTypeOK
<1>9. TakenOnce'
  <2>1. Touched' = Touched
    BY <1>1, Zenon DEF Touched
  <2>2. ASSUME NEW f \in Events, request'[f] = "new"
        PROVE  f \notin Touched' \cup Range(queue') \cup {writer'.event}
    BY <1>1, <1>4, <1>5, <1>7, <2>1, <2>2, Zenon DEF AuditInv, TakenOnce
  <2>3. ASSUME NEW f \in Range(queue') PROVE f \notin Touched' \cup {writer'.event}
    <3>1. f \in Range(queue) \/ f = e
      BY <1>7, Zenon
    <3>2. f \notin Touched \cup {writer.event}
      BY <1>6, <3>1, Zenon DEF AuditInv, TakenOnce
    <3> QED
      BY <1>1, <2>1, <3>2, Zenon
  <2>4. Unwritten(writer'.pc) => writer'.event = Clean \/ writer'.event \notin Touched'
    BY <1>1, <2>1, Zenon DEF AuditInv, TakenOnce
  <2> QED
    BY <1>7, <2>2, <2>3, <2>4, Zenon DEF TakenOnce, NoneTwice, Unwritten, Touched, Range
<1>10. LossesCharged'
  <2>1. Exposed' \subseteq Exposed
    BY <1>1, <1>4, <1>5, Zenon DEF Exposed, Answered, Kept, Replaying
  <2>2. Exposed' \subseteq Exposed \cup {Clean, Torn} /\ tears' \in Nat
    BY <1>1, <2>1, Zenon DEF AuditInv, AuditTypeOK
  <2>3. TailCost(primary') + TailCost(spool')
          <= TailCost(primary) + TailCost(spool) + 2 * (tears' - tears)
    BY <1>1 DEF TailCost, AuditInv, AuditTypeOK
  <2> QED
    BY <2>1, <2>2, <2>3, Accounted, Zenon
<1>11. RecordsSpooled' /\ Len(Readable(spool'))  <= SpoolMax /\ NoneTwice(primary'.lines)
  BY <1>1, Zenon DEF AuditInv, RecordsSpooled, Replaying
<1> QED
  BY <1>8, <1>9, <1>10, <1>11, Zenon DEF AuditInv, NoneTwice, Readable

\* The writer takes the next event.
LEMMA ReceiveKeeps ==
  ASSUME AuditInv, Receive
  PROVE  AuditInv'
<1>1. /\ writer.pc = "idle" /\ queue # <<>> /\ queue' = Tail(queue)
      /\ UNCHANGED <<primary, spool, request, down, faults, tears>>
  BY Zenon DEF Receive
<1>2. PICK e : e = Head(queue)
  BY Zenon
<1>3. PICK rest : rest = Tail(queue)
  BY Zenon
<1>4. /\ queue \in Seq(Events) /\ NoneTwice(queue)
      /\ \A f \in Events : f # Clean /\ f # Torn
  BY AuditTypes, Zenon DEF AuditInv, TakenOnce
<1>5. /\ e \in Events /\ rest \in Seq(Events) /\ Range(queue) = {e} \cup Range(rest)
      /\ NoneTwice(rest) /\ e \notin Range(rest)
  BY <1>1, <1>2, <1>3, <1>4, TailRemoves, Zenon
<1>6. writer' = [pc |-> "read", event |-> e, records |-> <<>>]
  BY <1>2, Zenon DEF Receive, Idle
<1>7. writer'.pc = "read" /\ writer'.event = e /\ writer' \in WriterState
  BY <1>5, <1>6 DEF WriterState
<1>8. AuditTypeOK'
  <2>1. writer'.pc # "idle" /\ writer'.pc \notin {"append", "spool", "written", "refused"}
    BY <1>7, Zenon
  <2> QED
    BY <1>1, <1>3, <1>5, <1>7, <2>1, Zenon DEF AuditInv, AuditTypeOK
<1>9. TakenOnce'
  <2>1. Touched' = Touched
    BY <1>1, Zenon DEF Touched
  <2>2. e \notin Touched
    BY <1>5, Zenon DEF AuditInv, TakenOnce
  <2>3. ASSUME NEW f \in Events, request'[f] = "new"
        PROVE  f \notin Touched' \cup Range(queue') \cup {writer'.event}
    BY <1>1, <1>3, <1>5, <1>7, <2>1, <2>3, Zenon DEF AuditInv, TakenOnce
  <2>4. ASSUME NEW f \in Range(queue') PROVE f \notin Touched' \cup {writer'.event}
    BY <1>1, <1>3, <1>5, <1>7, <2>1, Zenon DEF AuditInv, TakenOnce
  <2>5. writer'.event \notin Touched'
    BY <1>7, <2>1, <2>2, Zenon
  <2> QED
    BY <1>1, <1>3, <1>5, <2>3, <2>4, <2>5, Zenon DEF TakenOnce, NoneTwice, Unwritten, Touched, Range
<1>10. ~Replaying /\ ~Replaying'
  BY <1>1, <1>7, Zenon DEF Replaying
<1>11. LossesCharged'
  <2>1. writer'.pc # "written" /\ Kept' = Kept
    BY <1>1, <1>7, <1>10, Zenon DEF Kept, Readable
  <2>2. Exposed' \subseteq Exposed
    BY <1>1, <2>1, Zenon DEF Exposed, Answered
  <2>3. Exposed' \subseteq Exposed \cup {Clean, Torn} /\ tears' \in Nat
    BY <1>1, <2>2, Zenon DEF AuditInv, AuditTypeOK
  <2>4. TailCost(primary') + TailCost(spool')
          <= TailCost(primary) + TailCost(spool) + 2 * (tears' - tears)
    BY <1>1 DEF TailCost, AuditInv, AuditTypeOK
  <2> QED
    BY <2>2, <2>3, <2>4, Accounted, Zenon
<1>12. RecordsSpooled' /\ Len(Readable(spool'))  <= SpoolMax /\ NoneTwice(primary'.lines)
  BY <1>1, <1>10, Zenon DEF AuditInv, RecordsSpooled
<1> QED
  BY <1>8, <1>9, <1>11, <1>12, Zenon DEF AuditInv, NoneTwice, Readable

\* recv_timeout without a command.
LEMMA WakeUpKeeps ==
  ASSUME AuditInv, WakeUp
  PROVE  AuditInv'
<1>1. writer.pc = "idle" /\ UNCHANGED <<primary, spool, request, queue, down, faults, tears>>
  BY Zenon DEF WakeUp
<1>2. writer' = [pc |-> "read", event |-> Clean, records |-> <<>>]
  BY Zenon DEF WakeUp, Idle
<1>3. writer'.pc = "read" /\ writer'.event = Clean /\ writer' \in WriterState
  BY <1>2 DEF WriterState
<1>4. ~Replaying /\ ~Replaying'
  BY <1>1, <1>3, Zenon DEF Replaying
<1>5. Kept \subseteq Kept' /\ RecordsSpooled'
  BY <1>1, <1>4, Zenon DEF Kept, RecordsSpooled, Readable
<1>6. writer'.pc # "idle" /\ writer'.pc \notin {"append", "spool", "written", "refused"} /\ writer'.pc # "written"
  BY <1>3, Zenon
<1> QED
  BY <1>1, <1>3, <1>5, <1>6, WriterMoves, Zenon

\* A flush ends, or is not begun, and the spool is as it was.
LEMMA FlushEndsKeeps ==
  ASSUME AuditInv, UNCHANGED <<primary, spool, request, queue, tears>>, Unwritten(writer.pc),
         writer' = AfterFlush
  PROVE  AuditInv'
<1>1. /\ writer' \in WriterState
      /\ \/ writer.event = Clean /\ writer'.pc = "idle" /\ writer'.event = Clean
         \/ writer.event \in Events /\ writer'.pc = "append" /\ writer'.event = writer.event
  BY AuditTypes, AfterFlushIs, Zenon
<1>2. writer'.pc # "written" /\ ~Replaying' /\ (writer'.pc = "idle" => writer'.event = Clean)
      /\ (writer'.pc \in {"append", "spool", "written", "refused"} => writer'.event \in Events)
  BY <1>1, Zenon DEF Replaying
<1>3. Kept \subseteq Kept' /\ RecordsSpooled'
  BY <1>2, Zenon DEF AuditInv, RecordsSpooled, Kept, Readable
<1> QED
  BY <1>1, <1>2, <1>3, WriterMoves, Zenon

\* read_spool_records.
LEMMA ReadKeeps ==
  ASSUME AuditInv, read_spool_records
  PROVE  AuditInv'
<1>1. writer.pc = "read" /\ UNCHANGED <<primary, spool, request, queue, down, faults, tears>>
  BY Zenon DEF read_spool_records
<1>2. Unwritten(writer.pc) /\ ~Replaying
  BY <1>1, Zenon DEF Unwritten, Replaying
<1>3. CASE writer' = AfterFlush
  BY <1>1, <1>2, <1>3, FlushEndsKeeps, Zenon
<1>4. CASE writer' = [writer EXCEPT !.pc = "replay", !.records = Readable(spool)]
  <2>1. PICK r \in Seq(Events) : r = Readable(spool)
    BY AuditTypes, ReadableIs, Zenon
  <2>2. writer \in WriterState /\ writer' = [writer EXCEPT !.pc = "replay", !.records = r]
    BY <1>4, <2>1, AuditTypes, Zenon
  <2>3. writer' \in WriterState /\ writer'.pc = "replay" /\ writer'.event = writer.event /\ writer'.records = r
    BY <2>2, Zenon DEF WriterState
  <2>4. Replaying' /\ writer'.pc # "written" /\ writer'.pc # "idle"
        /\ writer'.pc \notin {"append", "spool", "written", "refused"}
    BY <2>3, Zenon DEF Replaying
  <2>5. Len(r) <= Len(r)
    BY <2>1
  <2>6. Kept \subseteq Kept' /\ RecordsSpooled'
    BY <1>1, <1>2, <2>1, <2>3, <2>4, <2>5, Zenon DEF Kept, RecordsSpooled
  <2> QED
    BY <1>1, <1>2, <2>3, <2>4, <2>6, WriterMoves, Zenon
<1> QED
  BY <1>3, <1>4, Zenon DEF read_spool_records

\* The loop over the records ends.
LEMMA StopReplayKeeps ==
  ASSUME AuditInv, UNCHANGED <<primary, spool, request, queue, tears>>, writer.pc = "replay", Goto("rewrite")
  PROVE  AuditInv'
<1>1. writer \in WriterState /\ writer' = [writer EXCEPT !.pc = "rewrite"]
  BY AuditTypes, Zenon DEF Goto
<1>2. /\ writer' \in WriterState /\ writer'.pc = "rewrite" /\ writer'.event = writer.event
      /\ writer'.records = writer.records
  BY <1>1, Zenon DEF WriterState
<1>3. Replaying /\ Replaying' /\ Unwritten(writer.pc) /\ writer'.pc # "written" /\ writer'.pc # "idle"
      /\ writer'.pc \notin {"append", "spool", "written", "refused"}
  BY <1>2, Zenon DEF Replaying, Unwritten
<1>4. Kept \subseteq Kept' /\ RecordsSpooled'
  BY <1>2, <1>3, Zenon DEF AuditInv, RecordsSpooled, Kept
<1> QED
  BY <1>2, <1>3, <1>4, WriterMoves, Zenon

\* An error of a file sends the writer on: from the log to the spool, from the
\* spool to the refusal.
LEMMA GoesOnKeeps ==
  ASSUME AuditInv, UNCHANGED <<primary, spool, request, queue, tears>>,
         writer.pc \in {"append", "spool"}, NEW to \in {"spool", "refused"}, Goto(to)
  PROVE  AuditInv'
<1>1. writer \in WriterState /\ writer' = [writer EXCEPT !.pc = to] /\ writer.event \in Events
  BY AuditTypes, Zenon DEF Goto, AuditInv, AuditTypeOK
<1>2. writer' \in WriterState /\ writer'.pc = to /\ writer'.event = writer.event
  BY <1>1, Zenon DEF WriterState
<1>3. ~Replaying /\ ~Replaying' /\ ~Unwritten(writer'.pc) /\ writer'.pc # "written" /\ writer'.pc # "idle"
  BY <1>2, Zenon DEF Replaying, Unwritten
<1>4. Kept \subseteq Kept' /\ RecordsSpooled'
  BY <1>3, Zenon DEF RecordsSpooled, Kept, Readable
<1> QED
  BY <1>1, <1>2, <1>3, <1>4, WriterMoves, Zenon

\* The acknowledgement.
LEMMA AcknowledgeKeeps ==
  ASSUME AuditInv, Acknowledge
  PROVE  AuditInv'
<1>1. /\ writer.pc \in {"written", "refused"} /\ writer' = Idle
      /\ UNCHANGED <<primary, spool, queue, down, faults, tears>>
  BY Zenon DEF Acknowledge
<1>2. PICK e \in Events : e = writer.event
  BY <1>1, Zenon DEF AuditInv, AuditTypeOK
<1>3. PICK to : to = IF writer.pc = "written" THEN "answered" ELSE "failed"
  BY Zenon
<1>4. request' = [request EXCEPT ![e] = to]
  BY <1>2, <1>3, Zenon DEF Acknowledge
<1>5. request \in [Events -> {"new", "waiting", "answered", "failed", "lost"}]
  BY Zenon DEF AuditInv, AuditTypeOK
<1>6. \A f \in Events : request'[f] = IF f = e THEN to ELSE request[f]
  BY <1>4, <1>5, Zenon
<1>7. to # "new" /\ to \in {"answered", "failed"} /\ (to = "answered" => writer.pc = "written")
  BY <1>3, Zenon
<1>8. /\ writer' \in WriterState /\ writer'.pc = "idle" /\ writer'.event = Clean /\ writer'.pc # "written"
      /\ ~Unwritten(writer'.pc) /\ ~Replaying' /\ ~Replaying
      /\ writer'.pc \notin {"append", "spool", "written", "refused"}
  <2>1. writer' = [pc |-> "idle", event |-> Clean, records |-> <<>>]
    BY <1>1, Zenon DEF Idle
  <2>2. writer'.pc = "idle" /\ writer'.event = Clean /\ writer' \in WriterState
    BY <2>1 DEF WriterState
  <2> QED
    BY <1>1, <2>2, Zenon DEF Unwritten, Replaying
<1>9. AuditTypeOK'
  <2>1. request' \in [Events -> {"new", "waiting", "answered", "failed", "lost"}]
    BY <1>4, <1>5, <1>7, Zenon
  <2> QED
    BY <1>1, <1>8, <2>1, Zenon DEF AuditInv, AuditTypeOK
<1>10. TakenOnce'
  <2>1. Touched' = Touched /\ Range(queue) \subseteq Events /\ (\A f \in Events : f # Clean)
    BY <1>1, AuditTypes, EventsOf, Zenon DEF Touched
  <2>2. ASSUME NEW f \in Events, request'[f] = "new"
        PROVE  f \notin Touched' \cup Range(queue') \cup {writer'.event}
    BY <1>1, <1>6, <1>7, <1>8, <2>1, <2>2, Zenon DEF AuditInv, TakenOnce
  <2>3. ASSUME NEW f \in Range(queue') PROVE f \notin Touched' \cup {writer'.event}
    BY <1>1, <1>8, <2>1, Zenon DEF AuditInv, TakenOnce
  <2>4. NoneTwice(queue')
    BY <1>1, Zenon DEF AuditInv, TakenOnce
  <2> QED
    BY <1>8, <2>2, <2>3, <2>4, Zenon DEF TakenOnce, NoneTwice, Unwritten, Touched, Range
<1>11. LossesCharged'
  <2>1. Kept' = Kept
    BY <1>1, <1>8, Zenon DEF Kept, Readable
  <2>2. Exposed' \subseteq Exposed
    BY <1>1, <1>2, <1>6, <1>7, <1>8, <2>1, Zenon DEF Exposed, Answered
  <2>3. Exposed' \subseteq Exposed \cup {Clean, Torn} /\ tears' \in Nat
    BY <1>1, <2>2, Zenon DEF AuditInv, AuditTypeOK
  <2>4. TailCost(primary') + TailCost(spool')
          <= TailCost(primary) + TailCost(spool) + 2 * (tears' - tears)
    BY <1>1 DEF TailCost, AuditInv, AuditTypeOK
  <2> QED
    BY <2>2, <2>3, <2>4, Accounted, Zenon
<1>12. RecordsSpooled' /\ Len(Readable(spool'))  <= SpoolMax /\ NoneTwice(primary'.lines)
  BY <1>1, <1>8, Zenon DEF AuditInv, RecordsSpooled
<1> QED
  BY <1>9, <1>10, <1>11, <1>12, Zenon DEF AuditInv, NoneTwice, Readable

\* The process stops: records that had left the flush are in the spool still.
LEMMA CrashKeeps ==
  ASSUME AuditInv, Crash
  PROVE  AuditInv'
<1>1. queue' = <<>> /\ writer' = Idle /\ UNCHANGED <<primary, spool, down, tears>>
  BY Zenon DEF Crash
<1>2. request \in [Events -> {"new", "waiting", "answered", "failed", "lost"}]
  BY Zenon DEF AuditInv, AuditTypeOK
<1>3. /\ request' \in [Events -> {"new", "waiting", "answered", "failed", "lost"}]
      /\ \A e \in Events : request'[e] = IF request[e] = "waiting" THEN "lost" ELSE request[e]
  BY <1>2, Zenon DEF Crash
<1>4. \A e \in Events : /\ request'[e] = "new" => request[e] = "new"
                        /\ request'[e] = "answered" => request[e] = "answered"
  BY <1>3, Zenon
<1>5. /\ writer' \in WriterState /\ writer'.pc = "idle" /\ writer'.event = Clean /\ writer'.pc # "written"
      /\ ~Unwritten(writer'.pc) /\ ~Replaying'
      /\ writer'.pc \notin {"append", "spool", "written", "refused"}
  <2>1. writer' = [pc |-> "idle", event |-> Clean, records |-> <<>>]
    BY <1>1, Zenon DEF Idle
  <2>2. writer'.pc = "idle" /\ writer'.event = Clean /\ writer' \in WriterState
    BY <2>1 DEF WriterState
  <2> QED
    BY <2>2, Zenon DEF Unwritten, Replaying
<1>6. queue' \in Seq(Events) /\ Range(queue') = {} /\ NoneTwice(queue')
  BY <1>1 DEF Range, NoneTwice
<1>7. AuditTypeOK'
  BY <1>1, <1>3, <1>5, <1>6, Zenon DEF AuditInv, AuditTypeOK
<1>8. TakenOnce'
  <2>1. Touched' = Touched /\ (\A f \in Events : f # Clean)
    BY <1>1, AuditTypes, Zenon DEF Touched
  <2>2. ASSUME NEW f \in Events, request'[f] = "new"
        PROVE  f \notin Touched' \cup Range(queue') \cup {writer'.event}
    BY <1>4, <1>5, <1>6, <2>1, <2>2, Zenon DEF AuditInv, TakenOnce
  <2>3. ASSUME NEW f \in Range(queue') PROVE f \notin Touched' \cup {writer'.event}
    BY <1>6, Zenon
  <2> QED
    BY <1>5, <1>6, <2>2, <2>3, Zenon DEF TakenOnce, NoneTwice, Unwritten, Touched, Range
<1>9. LossesCharged'
  <2>1. Kept \subseteq Kept'
    BY <1>1, <1>5, Zenon DEF AuditInv, RecordsSpooled, Kept, Readable
  <2>2. Exposed' \subseteq Exposed
    BY <1>1, <1>4, <1>5, <2>1, Zenon DEF Exposed, Answered
  <2>3. Exposed' \subseteq Exposed \cup {Clean, Torn} /\ tears' \in Nat
    BY <1>1, <2>2, Zenon DEF AuditInv, AuditTypeOK
  <2>4. TailCost(primary') + TailCost(spool')
          <= TailCost(primary) + TailCost(spool) + 2 * (tears' - tears)
    BY <1>1 DEF TailCost, AuditInv, AuditTypeOK
  <2> QED
    BY <2>2, <2>3, <2>4, Accounted, Zenon
<1>10. RecordsSpooled' /\ Len(Readable(spool'))  <= SpoolMax /\ NoneTwice(primary'.lines)
  BY <1>1, <1>5, Zenon DEF AuditInv, RecordsSpooled
<1> QED
  BY <1>7, <1>8, <1>9, <1>10, Zenon DEF AuditInv, NoneTwice, Readable

\* An append to the log that succeeds: it takes a line of its own, or is lost
\* with the tail it continues.
LEMMA LogAppends ==
  ASSUME AuditInv, NEW e \in Events, e \notin Range(primary.lines), primary' = Appended(primary, e)
  PROVE  /\ primary' \in AuditFile /\ primary'.tail = Clean /\ NoneTwice(primary'.lines)
         /\ Range(primary.lines) \subseteq Range(primary'.lines)
         /\ primary.tail = Clean => Range(primary'.lines) = Range(primary.lines) \cup {e}
         /\ primary.tail # Clean => Range(primary'.lines) = Range(primary.lines)
<1>1. primary \in AuditFile /\ primary.lines \in Seq(Events)
  BY AuditTypes, ReadableIs, Zenon
<1>2. /\ primary' \in AuditFile /\ primary'.tail = Clean
      /\ primary.tail = Clean => primary'.lines = Append(primary.lines, e)
      /\ primary.tail # Clean => primary'.lines = primary.lines
  BY <1>1, AppendedIs, Zenon
<1>3. NoneTwice(primary.lines)
  BY Zenon DEF AuditInv
<1>4. /\ Range(Append(primary.lines, e)) = Range(primary.lines) \cup {e}
      /\ NoneTwice(Append(primary.lines, e))
  BY <1>1, <1>3, AppendAdds, Zenon
<1>5. CASE primary.tail = Clean
  BY <1>2, <1>4, <1>5, Zenon
<1>6. CASE primary.tail # Clean
  BY <1>2, <1>3, <1>6, Zenon
<1> QED
  BY <1>5, <1>6, Zenon

\* A record of the spool is replayed.
LEMMA ReplaysKeeps ==
  ASSUME AuditInv, writer.pc = "replay", writer.records # <<>>,
         writer' = [writer EXCEPT !.records = Tail(@)],
         primary' = IF contains_event_id(Head(writer.records)) THEN primary
                    ELSE Appended(primary, Head(writer.records)),
         UNCHANGED <<spool, request, queue, tears>>
  PROVE  AuditInv'
<1>1. /\ primary \in AuditFile /\ spool \in AuditFile /\ writer \in WriterState /\ tears \in Nat
      /\ writer.records \in Seq(Events) /\ (\A f \in Events : f # Clean /\ f # Torn)
  BY AuditTypes, Zenon
<1>2. PICK e : e = Head(writer.records)
  BY Zenon
<1>3. PICK rest : rest = Tail(writer.records)
  BY Zenon
<1>4. /\ e \in Events /\ rest \in Seq(Events) /\ Len(rest) = Len(writer.records) - 1
      /\ Len(writer.records) \in Nat /\ Range(writer.records) = {e} \cup Range(rest)
  BY <1>1, <1>2, <1>3, TailRemoves, Zenon
<1>5. writer' = [writer EXCEPT !.records = rest]
  BY <1>3, Zenon
<1>6. /\ writer' \in WriterState /\ writer'.pc = "replay" /\ writer'.event = writer.event
      /\ writer'.records = rest
  BY <1>1, <1>4, <1>5, Zenon DEF WriterState
<1>7. /\ Replaying /\ Replaying' /\ Unwritten(writer.pc) /\ writer'.pc # "written" /\ writer'.pc # "idle"
      /\ writer'.pc \notin {"append", "spool", "written", "refused"}
  BY <1>6, Zenon DEF Replaying, Unwritten
<1>8. RecordsSpooled'
  <2>1. /\ Range(writer.records) \subseteq Range(Readable(spool))
        /\ Len(writer.records) <= Len(Readable(spool))
    BY <1>7, Zenon DEF AuditInv, RecordsSpooled
  <2>2. Len(Readable(spool)) \in Nat
    BY <1>1, ReadableIs
  <2>3. Len(rest) <= Len(Readable(spool))
    BY <1>4, <2>1, <2>2
  <2> QED
    BY <1>4, <1>6, <2>1, <2>3, Zenon DEF RecordsSpooled
<1>9. Kept = {e} \cup Range(rest) /\ Kept' = Range(rest)
  BY <1>4, <1>6, <1>7, Zenon DEF Kept
<1>10. e \in Touched
  <2>1. e \in Range(Readable(spool))
    BY <1>4, <1>7, Zenon DEF AuditInv, RecordsSpooled
  <2> QED
    BY <1>1, <2>1, ReadableIs, Zenon DEF Touched
<1>11. contains_event_id(e) <=> e \in Range(primary.lines) \cup {primary.tail}
  BY <1>1, <1>4, ReadableIs, Zenon DEF contains_event_id
<1>12. /\ primary' \in AuditFile /\ NoneTwice(primary'.lines) /\ LossesCharged'
       /\ Touched' \subseteq Touched \cup {Clean, Torn}
  <2>1. CASE contains_event_id(e)
    <3>1. primary' = primary
      BY <1>2, <2>1, Zenon
    <3>2. Exposed' \subseteq Exposed
      BY <1>7, <1>9, <1>11, <2>1, <3>1, Zenon DEF Exposed, Answered
    <3>3. Exposed' \subseteq Exposed \cup {Clean, Torn} /\ tears' \in Nat
      BY <1>1, <3>2, Zenon
    <3>4. TailCost(primary') + TailCost(spool')
            <= TailCost(primary) + TailCost(spool) + 2 * (tears' - tears)
      BY <1>1, <3>1 DEF TailCost
    <3>5. LossesCharged'
      BY <3>2, <3>3, <3>4, Accounted, Zenon
    <3>6. Touched' = Touched
      BY <3>1, Zenon DEF Touched
    <3> QED
      BY <1>1, <3>1, <3>5, <3>6, Zenon DEF AuditInv
  <2>2. CASE ~contains_event_id(e)
    <3>1. primary' = Appended(primary, e) /\ e \notin Range(primary.lines)
      BY <1>2, <1>11, <2>2, Zenon
    <3>2. /\ primary' \in AuditFile /\ primary'.tail = Clean /\ NoneTwice(primary'.lines)
          /\ Range(primary.lines) \subseteq Range(primary'.lines)
          /\ primary.tail = Clean => Range(primary'.lines) = Range(primary.lines) \cup {e}
          /\ primary.tail # Clean => Range(primary'.lines) = Range(primary.lines)
      BY <1>4, <3>1, LogAppends, Zenon
    <3>3. Range(primary'.lines) \subseteq Range(primary.lines) \cup {e}
      BY <3>2, Zenon
    <3>4. Touched' \subseteq Touched \cup {Clean, Torn}
      BY <1>10, <3>2, <3>3, Zenon DEF Touched
    <3>5. Exposed' \subseteq Exposed \cup {e, primary.tail} /\ tears' \in Nat
      BY <1>1, <1>7, <1>9, <3>2, Zenon DEF Exposed, Answered
    <3>6. CASE primary.tail = Clean
      <4>1. Exposed' \subseteq Exposed
        BY <1>1, <1>7, <1>9, <3>2, <3>6, Zenon DEF Exposed, Answered
      <4>2. TailCost(primary') + TailCost(spool')
              <= TailCost(primary) + TailCost(spool) + 2 * (tears' - tears)
        BY <1>1, <3>2, <3>6 DEF TailCost
      <4>3. LossesCharged'
        BY <3>5, <4>1, <4>2, Accounted, Zenon
      <4> QED
        BY <3>2, <3>4, <4>3, Zenon
    <3>7. CASE primary.tail # Clean
      <4>1. TailCost(primary') + TailCost(spool') + 2
              <= TailCost(primary) + TailCost(spool) + 2 * (tears' - tears)
        BY <1>1, <3>2, <3>7 DEF TailCost
      <4>2. LossesCharged'
        BY <3>5, <4>1, Accounted, Zenon
      <4> QED
        BY <3>2, <3>4, <4>2, Zenon
    <3> QED
      BY <3>6, <3>7, Zenon
  <2> QED
    BY <2>1, <2>2, Zenon
<1>13. AuditTypeOK'
  BY <1>6, <1>7, <1>12, Zenon DEF AuditInv, AuditTypeOK
<1>14. TakenOnce'
  <2>1. Touched' \subseteq Touched \cup {writer.event, Clean, Torn}
    BY <1>12, Zenon
  <2> QED
    BY <1>6, <1>7, <1>12, <2>1, TakenAgain, Zenon
<1>15. Len(Readable(spool')) <= SpoolMax
  BY Zenon DEF AuditInv
<1> QED
  BY <1>8, <1>12, <1>13, <1>14, <1>15, Zenon DEF AuditInv, NoneTwice, Readable

\* An append to the log that is cut short.
LEMMA LogTears ==
  ASSUME AuditInv, NEW e \in Events, primary' \in CutShort(primary, e), tears' = tears + 1,
         UNCHANGED <<spool, request>>, writer'.pc # "written", Kept' = Kept
  PROVE  /\ primary' \in AuditFile /\ NoneTwice(primary'.lines) /\ LossesCharged'
         /\ Touched' \subseteq Touched \cup {e, Torn}
<1>1. primary \in AuditFile /\ tears \in Nat /\ (\A f \in Events : f # Clean /\ f # Torn)
  BY AuditTypes, Zenon
<1>2. /\ primary' \in AuditFile /\ primary'.lines = primary.lines /\ primary'.tail # Clean
      /\ primary'.tail = Torn \/ (primary.tail = Clean /\ primary'.tail = e)
  BY <1>1, CutShortIs, Zenon
<1>3. NoneTwice(primary'.lines)
  BY <1>2, Zenon DEF AuditInv
<1>4. Touched' \subseteq Touched \cup {e, Torn}
  BY <1>2, Zenon DEF Touched
<1>5. Exposed' \subseteq Exposed \cup {primary.tail, Torn}
  BY <1>2, Zenon DEF Exposed, Answered
<1>6. tears' \in Nat
  BY <1>1
<1>7. CASE primary.tail = Clean
  <2>1. Exposed' \subseteq Exposed
    BY <1>1, <1>2, <1>7, Zenon DEF Exposed, Answered
  <2>2. TailCost(primary') + TailCost(spool')
          <= TailCost(primary) + TailCost(spool) + 2 * (tears' - tears)
    BY <1>1, <1>2, <1>7 DEF TailCost
  <2>3. LossesCharged'
    BY <1>5, <1>6, <2>1, <2>2, Accounted, Zenon
  <2> QED
    BY <1>2, <1>3, <1>4, <2>3, Zenon
<1>8. CASE primary.tail # Clean
  <2>1. TailCost(primary') + TailCost(spool') + 2
          <= TailCost(primary) + TailCost(spool) + 2 * (tears' - tears)
    BY <1>1, <1>2, <1>8 DEF TailCost
  <2>2. LossesCharged'
    BY <1>5, <1>6, <2>1, Accounted, Zenon
  <2> QED
    BY <1>2, <1>3, <1>4, <2>2, Zenon
<1> QED
  BY <1>7, <1>8, Zenon

\* replay_spool, one record.
LEMMA ReplayRecordKeeps ==
  ASSUME AuditInv, ReplayRecord
  PROVE  AuditInv'
<1>1. writer.pc = "replay" /\ writer.records # <<>> /\ UNCHANGED <<spool, request, queue, down, faults>>
  BY Zenon DEF ReplayRecord
<1>2. CASE StopReplay /\ UNCHANGED <<primary, tears>>
  BY <1>1, <1>2, StopReplayKeeps, Zenon DEF StopReplay
<1>3. CASE /\ writer' = [writer EXCEPT !.records = Tail(@)]
           /\ primary' = IF contains_event_id(Head(writer.records)) THEN primary
                         ELSE Appended(primary, Head(writer.records))
           /\ UNCHANGED tears
  BY <1>1, <1>3, ReplaysKeeps, Zenon
<1>4. CASE tears' = tears + 1 /\ primary' \in CutShort(primary, Head(writer.records)) /\ StopReplay
  <2>1. writer \in WriterState /\ writer' = [writer EXCEPT !.pc = "rewrite"] /\ writer.records \in Seq(Events)
    BY <1>4, AuditTypes, Zenon DEF StopReplay, Goto
  <2>2. /\ writer' \in WriterState /\ writer'.pc = "rewrite" /\ writer'.event = writer.event
        /\ writer'.records = writer.records
    BY <2>1, Zenon DEF WriterState
  <2>3. /\ Replaying /\ Replaying' /\ Unwritten(writer.pc) /\ writer'.pc # "written" /\ writer'.pc # "idle"
        /\ writer'.pc \notin {"append", "spool", "written", "refused"}
    BY <1>1, <2>2, Zenon DEF Replaying, Unwritten
  <2>4. Kept' = Kept /\ RecordsSpooled'
    BY <1>1, <2>2, <2>3, Zenon DEF AuditInv, RecordsSpooled, Kept
  <2>5. PICK e \in Events : e = Head(writer.records)
    BY <1>1, <2>1, TailRemoves, Zenon
  <2>6. /\ primary' \in AuditFile /\ NoneTwice(primary'.lines) /\ LossesCharged'
        /\ Touched' \subseteq Touched \cup {e, Torn}
    BY <1>1, <1>4, <2>3, <2>4, <2>5, LogTears, Zenon
  <2>7. e \in Touched
    <3>1. e \in Range(writer.records)
      BY <1>1, <2>1, <2>5, TailRemoves, Zenon
    <3>2. e \in Range(Readable(spool)) /\ spool \in AuditFile
      BY <2>3, <3>1, AuditTypes, Zenon DEF AuditInv, RecordsSpooled
    <3> QED
      BY <3>2, ReadableIs, Zenon DEF Touched
  <2>8. AuditTypeOK'
    <3>1. tears' \in Nat
      BY <1>4 DEF AuditInv, AuditTypeOK
    <3> QED
      BY <1>1, <2>2, <2>3, <2>6, <3>1, Zenon DEF AuditInv, AuditTypeOK
  <2>9. TakenOnce'
    <3>1. /\ Touched' \subseteq Touched \cup {writer.event, Clean, Torn}
          /\ Touched' \subseteq Touched \cup {Clean, Torn}
      BY <2>6, <2>7, Zenon
    <3> QED
      BY <1>1, <2>2, <2>3, <3>1, TakenAgain, Zenon
  <2>10. Len(Readable(spool')) <= SpoolMax
    BY <1>1, Zenon DEF AuditInv
  <2> QED
    BY <2>4, <2>6, <2>8, <2>9, <2>10, Zenon DEF AuditInv, NoneTwice, Readable
<1> QED
  BY <1>2, <1>3, <1>4, Zenon DEF ReplayRecord

\* rewrite_spool.
LEMMA RewriteKeeps ==
  ASSUME AuditInv, rewrite_spool
  PROVE  AuditInv'
<1>1. writer.pc = "rewrite" /\ writer' = AfterFlush /\ UNCHANGED <<primary, request, queue, down, faults, tears>>
  BY Zenon DEF rewrite_spool
<1>2. Unwritten(writer.pc) /\ Replaying
  BY <1>1, Zenon DEF Unwritten, Replaying
<1>3. CASE spool' = spool
  BY <1>1, <1>2, <1>3, FlushEndsKeeps, Zenon
<1>4. CASE spool' = [lines |-> writer.records, tail |-> Clean]
  <2>1. /\ primary \in AuditFile /\ spool \in AuditFile /\ writer \in WriterState /\ tears \in Nat
        /\ writer.records \in Seq(Events) /\ (\A f \in Events : f # Clean /\ f # Torn)
    BY AuditTypes, Zenon
  <2>2. spool'.lines = writer.records /\ spool'.tail = Clean /\ spool' \in AuditFile
    BY <1>4, <2>1, Zenon DEF AuditFile
  <2>3. /\ writer' \in WriterState
        /\ \/ writer.event = Clean /\ writer'.pc = "idle" /\ writer'.event = Clean
           \/ writer.event \in Events /\ writer'.pc = "append" /\ writer'.event = writer.event
    BY <1>1, <2>1, AfterFlushIs, Zenon
  <2>4. /\ writer'.pc # "written" /\ ~Replaying' /\ (writer'.pc = "idle" => writer'.event = Clean)
        /\ (writer'.pc \in {"append", "spool", "written", "refused"} => writer'.event \in Events)
    BY <2>3, Zenon DEF Replaying
  <2>5. Range(Readable(spool')) = Range(writer.records) /\ Len(Readable(spool')) = Len(writer.records)
    <3>1. Clean \notin Events
      BY <2>1, Zenon
    <3>2. Readable(spool') = writer.records
      BY <2>1, <2>2, <3>1 DEF Readable
    <3> QED
      BY <3>2, Zenon
  <2>6. Kept' = Kept
    BY <1>2, <2>4, <2>5, Zenon DEF Kept, Readable
  <2>7. LossesCharged'
    <3>1. Exposed' \subseteq Exposed
      BY <1>1, <2>4, <2>6, Zenon DEF Exposed, Answered
    <3>2. Exposed' \subseteq Exposed \cup {Clean, Torn} /\ tears' \in Nat
      BY <1>1, <2>1, <3>1, Zenon
    <3>3. TailCost(primary') + TailCost(spool')
            <= TailCost(primary) + TailCost(spool) + 2 * (tears' - tears)
      BY <1>1, <2>1, <2>2 DEF TailCost
    <3> QED
      BY <3>1, <3>2, <3>3, Accounted, Zenon
  <2>8. AuditTypeOK'
    BY <1>1, <2>2, <2>3, <2>4, Zenon DEF AuditInv, AuditTypeOK
  <2>9. TakenOnce'
    <3>1. Range(writer.records) \subseteq Touched
      <4>1. Range(writer.records) \subseteq Range(Readable(spool))
        BY <1>2, Zenon DEF AuditInv, RecordsSpooled
      <4> QED
        BY <2>1, <4>1, ReadableIs, Zenon DEF Touched
    <3>2. /\ Touched' \subseteq Touched \cup {writer.event, Clean, Torn}
          /\ Touched' \subseteq Touched \cup {Clean, Torn}
      BY <1>1, <2>2, <3>1, Zenon DEF Touched
    <3> QED
      BY <1>1, <1>2, <2>3, <3>2, TakenAgain, Zenon
  <2>10. Len(Readable(spool')) <= SpoolMax
    <3>1. Len(writer.records) <= Len(Readable(spool)) /\ Len(Readable(spool)) <= SpoolMax
      BY <1>2, Zenon DEF AuditInv, RecordsSpooled
    <3>2. Len(writer.records) \in Nat /\ Len(Readable(spool)) \in Nat /\ SpoolMax \in Nat
      BY <2>1, ReadableIs, AuditAssumption
    <3> QED
      BY <2>5, <3>1, <3>2
  <2>11. NoneTwice(primary'.lines) /\ RecordsSpooled'
    BY <1>1, <2>4, Zenon DEF AuditInv, RecordsSpooled
  <2> QED
    BY <2>7, <2>8, <2>9, <2>10, <2>11, Zenon DEF AuditInv, NoneTwice, Readable
<1> QED
  BY <1>3, <1>4, Zenon DEF rewrite_spool

\* The step after an append: the event in hand, and no more records.
LEMMA MovesOn ==
  ASSUME AuditInv, writer.pc \in {"append", "spool"}, NEW to \in {"written", "spool", "refused"}, Goto(to)
  PROVE  /\ writer' \in WriterState /\ writer'.pc = to /\ writer'.event = writer.event
         /\ writer.event \in Events /\ ~Replaying /\ ~Replaying' /\ ~Unwritten(writer'.pc)
         /\ writer'.pc # "idle" /\ RecordsSpooled'
<1>1. writer \in WriterState /\ writer' = [writer EXCEPT !.pc = to] /\ writer.event \in Events
  BY AuditTypes, Zenon DEF Goto, AuditInv, AuditTypeOK
<1>2. writer' \in WriterState /\ writer'.pc = to /\ writer'.event = writer.event
  BY <1>1, Zenon DEF WriterState
<1>3. ~Replaying /\ ~Replaying' /\ ~Unwritten(writer'.pc) /\ writer'.pc # "idle"
  BY <1>2, Zenon DEF Replaying, Unwritten
<1> QED
  BY <1>1, <1>2, <1>3, Zenon DEF RecordsSpooled

\* append_json_line to the log.
LEMMA WriteEventKeeps ==
  ASSUME AuditInv, write_event
  PROVE  AuditInv'
<1>1. writer.pc = "append" /\ UNCHANGED <<spool, request, queue, down, faults>>
  BY Zenon DEF write_event
<1>2. writer.pc \in {"append", "spool"}
  BY <1>1, Zenon
<1>3. /\ primary \in AuditFile /\ spool \in AuditFile /\ tears \in Nat
      /\ (\A f \in Events : f # Clean /\ f # Torn)
  BY AuditTypes, Zenon
<1>4. PICK e \in Events : e = writer.event
  BY <1>1, Zenon DEF AuditInv, AuditTypeOK
<1>5. e \notin Touched
  <2>1. Unwritten(writer.pc)
    BY <1>1, Zenon DEF Unwritten
  <2> QED
    BY <1>3, <1>4, <2>1, Zenon DEF AuditInv, TakenOnce
<1>6. Len(Readable(spool')) <= SpoolMax
  BY <1>1, Zenon DEF AuditInv
<1>7. CASE primary' = Appended(primary, writer.event) /\ Goto("written") /\ UNCHANGED tears
  <2>1. /\ writer' \in WriterState /\ writer'.pc = "written" /\ writer'.event = e /\ RecordsSpooled'
        /\ ~Replaying /\ ~Replaying' /\ ~Unwritten(writer'.pc) /\ writer'.pc # "idle"
    BY <1>2, <1>4, <1>7, MovesOn, Zenon
  <2>2. Kept' = Kept
    BY <1>1, <2>1, Zenon DEF Kept, Readable
  <2>3. primary' = Appended(primary, e) /\ e \notin Range(primary.lines)
    BY <1>4, <1>5, <1>7, Zenon DEF Touched
  <2>4. /\ primary' \in AuditFile /\ primary'.tail = Clean /\ NoneTwice(primary'.lines)
        /\ Range(primary.lines) \subseteq Range(primary'.lines)
        /\ primary.tail = Clean => Range(primary'.lines) = Range(primary.lines) \cup {e}
        /\ primary.tail # Clean => Range(primary'.lines) = Range(primary.lines)
    BY <2>3, LogAppends, Zenon
  <2>5. Exposed' \subseteq Exposed \cup {e, primary.tail} /\ tears' \in Nat
    BY <1>1, <1>3, <1>7, <2>1, <2>2, <2>4, Zenon DEF Exposed, Answered
  <2>6. LossesCharged'
    <3>1. CASE primary.tail = Clean
      <4>1. Exposed' \subseteq Exposed
        BY <1>1, <1>3, <2>1, <2>2, <2>4, <3>1, Zenon DEF Exposed, Answered
      <4>2. TailCost(primary') + TailCost(spool')
              <= TailCost(primary) + TailCost(spool) + 2 * (tears' - tears)
        BY <1>1, <1>3, <1>7, <2>4, <3>1 DEF TailCost
      <4> QED
        BY <2>5, <4>1, <4>2, Accounted, Zenon
    <3>2. CASE primary.tail # Clean
      <4>1. TailCost(primary') + TailCost(spool') + 2
              <= TailCost(primary) + TailCost(spool) + 2 * (tears' - tears)
        BY <1>1, <1>3, <1>7, <2>4, <3>2 DEF TailCost
      <4> QED
        BY <2>5, <4>1, Accounted, Zenon
    <3> QED
      BY <3>1, <3>2, Zenon
  <2>7. AuditTypeOK'
    BY <1>1, <1>7, <2>1, <2>4, Zenon DEF AuditInv, AuditTypeOK
  <2>8. TakenOnce'
    <3>1. Range(primary'.lines) \subseteq Range(primary.lines) \cup {e}
      BY <2>4, Zenon
    <3>2. Touched' \subseteq Touched \cup {writer.event, Clean, Torn}
      BY <1>1, <1>4, <2>4, <3>1, Zenon DEF Touched
    <3> QED
      BY <1>1, <1>4, <2>1, <3>2, TakenAgain, Zenon
  <2> QED
    BY <1>6, <2>1, <2>4, <2>6, <2>7, <2>8, Zenon DEF AuditInv, NoneTwice, Readable
<1>8. CASE Goto("spool") /\ UNCHANGED <<primary, tears>>
  BY <1>1, <1>2, <1>8, GoesOnKeeps, Zenon
<1>9. CASE tears' = tears + 1 /\ primary' \in CutShort(primary, writer.event) /\ Goto("spool")
  <2>1. /\ writer' \in WriterState /\ writer'.pc = "spool" /\ writer'.event = e /\ RecordsSpooled'
        /\ ~Replaying /\ ~Replaying' /\ ~Unwritten(writer'.pc) /\ writer'.pc # "idle"
    BY <1>2, <1>4, <1>9, MovesOn, Zenon
  <2>2. Kept' = Kept /\ writer'.pc # "written" /\ tears' \in Nat
    BY <1>1, <1>3, <1>9, <2>1 DEF Kept, Readable
  <2>3. /\ primary' \in AuditFile /\ NoneTwice(primary'.lines) /\ LossesCharged'
        /\ Touched' \subseteq Touched \cup {e, Torn}
    BY <1>1, <1>4, <1>9, <2>2, LogTears, Zenon
  <2>4. AuditTypeOK'
    BY <1>1, <2>1, <2>2, <2>3, Zenon DEF AuditInv, AuditTypeOK
  <2>5. TakenOnce'
    <3>1. Touched' \subseteq Touched \cup {writer.event, Clean, Torn}
      BY <1>4, <2>3, Zenon
    <3> QED
      BY <1>1, <1>4, <2>1, <3>1, TakenAgain, Zenon
  <2> QED
    BY <1>6, <2>1, <2>3, <2>4, <2>5, Zenon DEF AuditInv, NoneTwice, Readable
<1> QED
  BY <1>7, <1>8, <1>9, Zenon DEF write_event

\* What an append to the spool makes of the spool's events: the lines stay, and
\* the event is one of them unless it continued a tail.
LEMMA SpoolAppends ==
  ASSUME AuditInv, NEW e \in Events, ~SpoolFull, spool' = Appended(spool, e)
  PROVE  /\ spool' \in AuditFile /\ spool'.tail = Clean /\ Len(Readable(spool')) <= SpoolMax
         /\ Range(spool'.lines) \subseteq Range(spool.lines) \cup {e}
         /\ Range(Readable(spool)) \subseteq Range(Readable(spool')) \cup {spool.tail}
         /\ spool.tail = Clean => /\ Range(Readable(spool)) \subseteq Range(Readable(spool'))
                                  /\ e \in Range(Readable(spool'))
<1>1. /\ spool \in AuditFile /\ spool.lines \in Seq(Events)
      /\ Clean \notin Events
  BY AuditTypes, ReadableIs, Zenon
<1>2. /\ spool' \in AuditFile /\ spool'.tail = Clean
      /\ spool.tail = Clean => spool'.lines = Append(spool.lines, e)
      /\ spool.tail # Clean => spool'.lines = spool.lines
  BY <1>1, AppendedIs, Zenon
<1>3. /\ Len(Append(spool.lines, e)) = Len(spool.lines) + 1
      /\ Range(Append(spool.lines, e)) = Range(spool.lines) \cup {e}
  BY <1>1, AppendAdds, Zenon
<1>4. Readable(spool') = spool'.lines
  BY <1>1, <1>2, ReadableIs DEF Readable
<1>5. /\ Range(Readable(spool)) = Range(spool.lines) \cup ({spool.tail} \cap Events)
      /\ Len(Readable(spool)) = Len(spool.lines) + (IF spool.tail \in Events THEN 1 ELSE 0)
  BY <1>1, ReadableIs, Zenon
<1>6. Len(spool.lines) \in Nat /\ SpoolMax \in Nat
  BY <1>1, AuditAssumption
<1>7. Len(spool.lines) + 1 <= SpoolMax
  <2>1. PICK n : n = Len(Readable(spool))
    BY Zenon
  <2>2. PICK k \in Nat : k = Len(spool.lines)
    BY <1>6, Zenon
  <2>3. ~(n >= SpoolMax) /\ (n = k + 1 \/ n = k + 0)
    BY <1>5, <2>1, <2>2, Zenon DEF SpoolFull
  <2>4. k + 1 <= SpoolMax
    BY <1>6, <2>3
  <2> QED
    BY <2>2, <2>4, Zenon
<1>8. CASE spool.tail = Clean
  <2>1. Len(spool'.lines) <= SpoolMax
    BY <1>2, <1>3, <1>7, <1>8, Zenon
  <2> QED
    BY <1>1, <1>2, <1>3, <1>4, <1>5, <1>8, <2>1, Zenon
<1>9. CASE spool.tail # Clean
  <2>1. Len(spool'.lines) <= SpoolMax
    BY <1>2, <1>6, <1>7, <1>9
  <2> QED
    BY <1>2, <1>4, <1>5, <1>9, <2>1, Zenon
<1> QED
  BY <1>8, <1>9, Zenon

\* The same of an append that is cut short.
LEMMA SpoolTears ==
  ASSUME AuditInv, NEW e \in Events, ~SpoolFull, spool' \in CutShort(spool, e)
  PROVE  /\ spool' \in AuditFile /\ spool'.tail # Clean /\ Len(Readable(spool')) <= SpoolMax
         /\ spool'.lines = spool.lines /\ spool'.tail \in {e, Torn}
         /\ Range(Readable(spool)) \subseteq Range(Readable(spool')) \cup {spool.tail}
         /\ spool.tail = Clean => Range(Readable(spool)) \subseteq Range(Readable(spool'))
<1>1. /\ spool \in AuditFile /\ spool.lines \in Seq(Events)
      /\ Clean \notin Events
  BY AuditTypes, ReadableIs, Zenon
<1>2. /\ spool' \in AuditFile /\ spool'.lines = spool.lines /\ spool'.tail # Clean
      /\ spool'.tail = Torn \/ (spool.tail = Clean /\ spool'.tail = e)
  BY <1>1, CutShortIs, Zenon
<1>3. /\ Range(Readable(spool)) = Range(spool.lines) \cup ({spool.tail} \cap Events)
      /\ Len(Readable(spool)) = Len(spool.lines) + (IF spool.tail \in Events THEN 1 ELSE 0)
  BY <1>1, ReadableIs, Zenon
<1>4. /\ Range(Readable(spool')) = Range(spool'.lines) \cup ({spool'.tail} \cap Events)
      /\ Len(Readable(spool')) = Len(spool'.lines) + (IF spool'.tail \in Events THEN 1 ELSE 0)
  BY <1>2, ReadableIs, Zenon
<1>5. Len(spool.lines) \in Nat /\ SpoolMax \in Nat
  BY <1>1, AuditAssumption
<1>6. Len(Readable(spool')) <= SpoolMax
  <2>1. PICK n : n = Len(Readable(spool))
    BY Zenon
  <2>2. PICK m : m = Len(Readable(spool'))
    BY Zenon
  <2>3. PICK k \in Nat : k = Len(spool.lines)
    BY <1>5, Zenon
  <2>4. ~(n >= SpoolMax) /\ (n = k + 1 \/ n = k + 0)
    BY <1>3, <2>1, <2>3, Zenon DEF SpoolFull
  <2>5. m = k + 1 \/ m = k + 0
    BY <1>2, <1>4, <2>2, <2>3, Zenon
  <2>6. m <= SpoolMax
    BY <1>5, <2>4, <2>5
  <2> QED
    BY <2>2, <2>6, Zenon
<1> QED
  BY <1>1, <1>2, <1>3, <1>4, <1>6, Zenon

\* enqueue_spool.
LEMMA EnqueueSpoolKeeps ==
  ASSUME AuditInv, enqueue_spool
  PROVE  AuditInv'
<1>1. writer.pc = "spool" /\ UNCHANGED <<primary, request, queue, down, faults>>
  BY Zenon DEF enqueue_spool
<1>2. writer.pc \in {"append", "spool"}
  BY <1>1, Zenon
<1>3. /\ primary \in AuditFile /\ spool \in AuditFile /\ tears \in Nat
      /\ (\A f \in Events : f # Clean /\ f # Torn)
  BY AuditTypes, Zenon
<1>4. PICK e \in Events : e = writer.event
  BY <1>1, Zenon DEF AuditInv, AuditTypeOK
<1>5. NoneTwice(primary'.lines)
  BY <1>1, Zenon DEF AuditInv
<1>6. CASE Goto("refused") /\ UNCHANGED <<spool, tears>>
  BY <1>1, <1>2, <1>6, GoesOnKeeps, Zenon
<1>7. CASE ~SpoolFull /\ spool' = Appended(spool, writer.event) /\ Goto("written") /\ UNCHANGED tears
  <2>1. /\ writer' \in WriterState /\ writer'.pc = "written" /\ writer'.event = e /\ RecordsSpooled'
        /\ ~Replaying /\ ~Replaying' /\ ~Unwritten(writer'.pc) /\ writer'.pc # "idle"
    BY <1>2, <1>4, <1>7, MovesOn, Zenon
  <2>2. Kept = Range(Readable(spool)) /\ Kept' = Range(Readable(spool'))
    BY <2>1, Zenon DEF Kept, Readable
  <2>3. /\ spool' \in AuditFile /\ spool'.tail = Clean /\ Len(Readable(spool')) <= SpoolMax
        /\ Range(spool'.lines) \subseteq Range(spool.lines) \cup {e}
        /\ Range(Readable(spool)) \subseteq Range(Readable(spool')) \cup {spool.tail}
        /\ spool.tail = Clean => /\ Range(Readable(spool)) \subseteq Range(Readable(spool'))
                                 /\ e \in Range(Readable(spool'))
    BY <1>4, <1>7, SpoolAppends, Zenon
  <2>4. Exposed' \subseteq Exposed \cup {e, spool.tail} /\ tears' \in Nat
    BY <1>1, <1>3, <1>7, <2>1, <2>2, <2>3, Zenon DEF Exposed, Answered
  <2>5. LossesCharged'
    <3>1. CASE spool.tail = Clean
      <4>1. Exposed' \subseteq Exposed
        BY <1>1, <2>1, <2>2, <2>3, <3>1, Zenon DEF Exposed, Answered
      <4>2. TailCost(primary') + TailCost(spool')
              <= TailCost(primary) + TailCost(spool) + 2 * (tears' - tears)
        BY <1>1, <1>3, <1>7, <2>3, <3>1 DEF TailCost
      <4> QED
        BY <2>4, <4>1, <4>2, Accounted, Zenon
    <3>2. CASE spool.tail # Clean
      <4>1. TailCost(primary') + TailCost(spool') + 2
              <= TailCost(primary) + TailCost(spool) + 2 * (tears' - tears)
        BY <1>1, <1>3, <1>7, <2>3, <3>2 DEF TailCost
      <4> QED
        BY <2>4, <4>1, Accounted, Zenon
    <3> QED
      BY <3>1, <3>2, Zenon
  <2>6. AuditTypeOK'
    BY <1>1, <1>7, <2>1, <2>3, Zenon DEF AuditInv, AuditTypeOK
  <2>7. TakenOnce'
    <3>1. Touched' \subseteq Touched \cup {writer.event, Clean, Torn}
      BY <1>1, <1>4, <2>3, Zenon DEF Touched
    <3> QED
      BY <1>1, <1>4, <2>1, <3>1, TakenAgain, Zenon
  <2> QED
    BY <1>5, <2>1, <2>3, <2>5, <2>6, <2>7, Zenon DEF AuditInv, NoneTwice, Readable
<1>8. CASE ~SpoolFull /\ tears' = tears + 1 /\ spool' \in CutShort(spool, writer.event) /\ Goto("refused")
  <2>1. /\ writer' \in WriterState /\ writer'.pc = "refused" /\ writer'.event = e /\ RecordsSpooled'
        /\ ~Replaying /\ ~Replaying' /\ ~Unwritten(writer'.pc) /\ writer'.pc # "idle"
    BY <1>2, <1>4, <1>8, MovesOn, Zenon
  <2>2. Kept = Range(Readable(spool)) /\ Kept' = Range(Readable(spool'))
    BY <2>1, Zenon DEF Kept, Readable
  <2>3. writer'.pc # "written" /\ tears' \in Nat
    BY <1>3, <1>8, <2>1
  <2>4. /\ spool' \in AuditFile /\ spool'.tail # Clean /\ Len(Readable(spool')) <= SpoolMax
        /\ spool'.lines = spool.lines /\ spool'.tail \in {e, Torn}
        /\ Range(Readable(spool)) \subseteq Range(Readable(spool')) \cup {spool.tail}
        /\ spool.tail = Clean => Range(Readable(spool)) \subseteq Range(Readable(spool'))
    BY <1>4, <1>8, SpoolTears, Zenon
  <2>5. Exposed' \subseteq Exposed \cup {e, spool.tail}
    BY <1>1, <2>2, <2>3, <2>4, Zenon DEF Exposed, Answered
  <2>6. LossesCharged'
    <3>1. CASE spool.tail = Clean
      <4>1. Exposed' \subseteq Exposed
        BY <1>1, <2>2, <2>3, <2>4, <3>1, Zenon DEF Exposed, Answered
      <4>2. TailCost(primary') + TailCost(spool')
              <= TailCost(primary) + TailCost(spool) + 2 * (tears' - tears)
        BY <1>1, <1>3, <1>8, <2>4, <3>1 DEF TailCost
      <4> QED
        BY <2>3, <2>5, <4>1, <4>2, Accounted, Zenon
    <3>2. CASE spool.tail # Clean
      <4>1. TailCost(primary') + TailCost(spool') + 2
              <= TailCost(primary) + TailCost(spool) + 2 * (tears' - tears)
        BY <1>1, <1>3, <1>8, <2>4, <3>2 DEF TailCost
      <4> QED
        BY <2>3, <2>5, <4>1, Accounted, Zenon
    <3> QED
      BY <3>1, <3>2, Zenon
  <2>7. AuditTypeOK'
    BY <1>1, <2>1, <2>3, <2>4, Zenon DEF AuditInv, AuditTypeOK
  <2>8. TakenOnce'
    <3>1. Touched' \subseteq Touched \cup {writer.event, Clean, Torn}
      BY <1>1, <1>4, <2>4, Zenon DEF Touched
    <3> QED
      BY <1>1, <1>4, <2>1, <3>1, TakenAgain, Zenon
  <2> QED
    BY <1>5, <2>1, <2>4, <2>6, <2>7, <2>8, Zenon DEF AuditInv, NoneTwice, Readable
<1> QED
  BY <1>6, <1>7, <1>8, Zenon DEF enqueue_spool

\* Empty files, an empty queue and an idle writer.
LEMMA AuditStarts == Init => AuditInv
<1> SUFFICES ASSUME Init PROVE AuditInv
  BY Zenon
<1>1. EmptyFile \in AuditFile /\ EmptyFile.lines = <<>> /\ EmptyFile.tail = Clean
  BY DEF EmptyFile, AuditFile
<1>2. /\ Idle \in WriterState /\ Idle.pc = "idle" /\ Idle.event = Clean
      /\ Idle.pc \notin {"append", "spool", "written", "refused"} /\ Idle.pc # "written"
      /\ ~Unwritten(Idle.pc) /\ Idle.pc \notin {"replay", "rewrite"}
  BY DEF Idle, WriterState, Unwritten
<1>3. Range(<<>>) = {} /\ NoneTwice(<<>>) /\ <<>> \in Seq(Events)
  BY DEF Range, NoneTwice
<1>4. \A e \in Events : e # Clean
  BY EventAssumption, Zenon
<1>5. /\ request \in [Events -> {"new", "waiting", "answered", "failed", "lost"}]
      /\ \A e \in Events : request[e] = "new"
  BY Zenon DEF Init
<1>6. AuditTypeOK
  <2>1. tears \in Nat
    BY Zenon DEF Init
  <2> QED
    BY <1>1, <1>2, <1>3, <1>5, <2>1, Zenon DEF Init, AuditTypeOK
<1>7. TakenOnce
  <2>1. primary = EmptyFile /\ spool = EmptyFile /\ queue = <<>> /\ writer = Idle
    BY Zenon DEF Init
  <2> QED
    BY <1>1, <1>2, <1>3, <1>4, <2>1, Zenon DEF TakenOnce, Touched
<1>8. RecordsSpooled
  BY <1>2, Zenon DEF Init, RecordsSpooled, Replaying
<1>9. LossesCharged
  <2>1. Exposed = {}
    <3>1. \A e \in Events : request[e] # "answered"
      BY <1>5, Zenon
    <3> QED
      BY <1>2, <3>1, Zenon DEF Init, Exposed, Answered
  <2>2. IsFiniteSet({}) /\ Cardinality({}) = 0
    BY FS_EmptySet, Zenon
  <2>3. TailCost(primary) = 0 /\ TailCost(spool) = 0 /\ tears = 0
    BY <1>1, Zenon DEF Init, TailCost
  <2>4. 0 + 0 + 0 <= 2 * 0
    OBVIOUS
  <2> QED
    BY <2>1, <2>2, <2>3, <2>4, Zenon DEF LossesCharged
<1>10. Len(Readable(spool)) <= SpoolMax
  <2>1. Readable(EmptyFile) = <<>>
    <3>1. EmptyFile.tail \notin Events
      BY <1>1, <1>4, Zenon
    <3> QED
      BY <1>1, <3>1 DEF Readable
  <2>2. Len(<<>>) <= SpoolMax
    BY AuditAssumption
  <2> QED
    BY <2>1, <2>2, Zenon DEF Init
<1>11. NoneTwice(primary.lines)
  BY <1>1, <1>3, Zenon DEF Init
<1> QED
  BY <1>6, <1>7, <1>8, <1>9, <1>10, <1>11, Zenon DEF AuditInv

\* Every step of the handlers, the writer, the process and the files.
LEMMA AuditStep == AuditInv /\ [Next]_vars => AuditInv'
<1> SUFFICES ASSUME AuditInv, [Next]_vars PROVE AuditInv'
  BY Zenon
<1>1. CASE UNCHANGED <<primary, spool, request, queue, writer, tears>>
  BY <1>1, Zenon DEF AuditInv, AuditTypeOK, TakenOnce, Touched, RecordsSpooled, Replaying, LossesCharged,
     Exposed, Answered, Kept
<1>2. ASSUME NEW f \in {"primary", "spool"}, FileFails(f) \/ FileRecovers(f) PROVE AuditInv'
  BY <1>1, <1>2, Zenon DEF FileFails, FileRecovers
<1>3. CASE WriterStep
  <2>1. CASE ReplayDone
    BY <2>1, StopReplayKeeps, Zenon DEF ReplayDone
  <2> QED
    BY <1>3, <2>1, ReceiveKeeps, WakeUpKeeps, ReadKeeps, ReplayRecordKeeps, RewriteKeeps, WriteEventKeeps,
       EnqueueSpoolKeeps, AcknowledgeKeeps, Zenon DEF WriterStep
<1>4. CASE UNCHANGED vars
  BY <1>1, <1>4, Zenon DEF vars
<1> QED
  BY <1>2, <1>3, <1>4, EnqueueKeeps, CrashKeeps, Zenon DEF Next

\* What the invariant says of the events of responses that were given.
LEMMA AuditImplies == AuditInv => LoggedOnce
<1> SUFFICES ASSUME AuditInv PROVE LoggedOnce
  BY Zenon
<1>1. Unaudited \subseteq Exposed
  <2>1. SUFFICES ASSUME NEW e \in Unaudited PROVE e \in Exposed
    BY Zenon
  <2>2. /\ e \in Events /\ request[e] = "answered"
        /\ e \notin Range(Readable(primary)) /\ e \notin Range(Readable(spool))
    BY Zenon DEF Unaudited
  <2>3. e \notin Range(primary.lines) /\ e # primary.tail
    BY <2>2, AuditTypes, ReadableIs, Zenon
  <2>4. e \notin Kept
    BY <2>2, Zenon DEF AuditInv, RecordsSpooled, Kept
  <2> QED
    BY <2>2, <2>3, <2>4, Zenon DEF Exposed, Answered
<1>2. Cardinality(Unaudited) <= 2 * tears
  <2>1. /\ IsFiniteSet(Exposed) /\ tears \in Nat
        /\ Cardinality(Exposed) + TailCost(primary) + TailCost(spool) <= 2 * tears
    BY Zenon DEF AuditInv, LossesCharged, AuditTypeOK
  <2>2. /\ Cardinality(Unaudited) \in Nat /\ Cardinality(Exposed) \in Nat
        /\ Cardinality(Unaudited) <= Cardinality(Exposed)
    BY <1>1, <2>1, NoMore, Zenon
  <2>3. TailCost(primary) \in Nat /\ TailCost(spool) \in Nat
    BY Zenon DEF TailCost
  <2> QED
    BY <2>1, <2>2, <2>3
<1> QED
  BY <1>2, Zenon DEF LoggedOnce, AuditInv, NoneTwice

\* The inductive invariant: each event comes to the writer once, what it has yet
\* to replay is in the spool, and every event lost, or that a tail may yet cost,
\* is charged to an append that was cut short.
THEOREM AuditInvariant == Spec => []AuditInv
BY AuditStarts, AuditStep, PTL DEF Spec

\* For any events, queue and spool limits, and any crashes and outages: the agent
\* loses no event of a response it gave, but two for each append that was cut
\* short; the spool keeps its limit; no event stands in the log twice.
THEOREM EventsAreLoggedOnce == Spec => []LoggedOnce
BY AuditInvariant, AuditImplies, PTL

-----------------------------------------------------------------------------
(* AuditLimiter.                                                            *)

(* Whole seconds of two spans are among the whole seconds of both together. *)
LEMMA SpansAdd ==
  ASSUME NEW u \in Nat \ {0}, NEW x \in Nat, NEW y \in Nat
  PROVE  /\ x \div u \in Nat /\ y \div u \in Nat /\ (x + y) \div u \in Nat
         /\ x \div u + y \div u <= (x + y) \div u
<1>1. \A n \in Nat : n \div u \in Nat
  OBVIOUS
<1>2. \A n \in Nat : u * (n \div u) <= n /\ n < u * (n \div u + 1)
  OBVIOUS
<1>3. PICK p \in Nat, q \in Nat, r \in Nat :
        p = x \div u /\ q = y \div u /\ r = (x + y) \div u
  BY <1>1
<1>4. u * p <= x /\ u * q <= y /\ x + y < u * (r + 1)
  BY <1>2, <1>3
<1>5. u * (p + q) < u * (r + 1)
  <2>1. u * (p + q) = u * p + u * q
    OBVIOUS
  <2>2. u * p \in Nat /\ u * q \in Nat /\ u * (r + 1) \in Nat
    OBVIOUS
  <2> QED BY <1>4, <2>1, <2>2
<1>6. p + q < r + 1
  BY <1>5
<1> QED BY <1>3, <1>6

(* A rate times two spans that fit a third.                                 *)
LEMMA RateOfSpans ==
  ASSUME NEW m \in Nat, NEW p \in Nat, NEW q \in Nat, NEW r \in Nat, p + q <= r
  PROVE  m * p \in Nat /\ q * m \in Nat /\ m * r \in Nat /\ m * p + q * m <= m * r
OBVIOUS

(* Min of two numbers.                                                      *)
LEMMA MinOfTwo ==
  ASSUME NEW x \in Nat, NEW y \in Nat
  PROVE  Min({x, y}) \in {x, y} /\ Min({x, y}) <= x /\ Min({x, y}) <= y
<1>1. \E z \in {x, y} : \A w \in {x, y} : z <= w
  OBVIOUS
<1> QED BY <1>1, Zenon DEF Min

(* Bucket::refill: the tokens it adds are those of the whole seconds since  *)
(* the last refill, and a bucket that is not refilled keeps its time.       *)
LEMMA RefillKeeps ==
  ASSUME NEW b, NEW now \in Nat, BucketOK(b, now)
  PROVE  BucketOK(Refill(b, now), now) /\ Refill(b, now).suppressed = b.suppressed
<1> DEFINE secs == (now - b.last_refill) \div UnitsPerSec
           old  == (b.last_refill - b.born) \div UnitsPerSec
           new  == (now - b.born) \div UnitsPerSec
           full == Min({b.tokens + secs * RefillPerSec, Burst})
<1>1. UnitsPerSec \in Nat \ {0} /\ RefillPerSec \in Nat /\ Burst \in Nat
  BY LimiterAssumption, Zenon
<1>2. /\ b \in Bucket
      /\ b.tokens \in Nat /\ b.writes \in Nat /\ b.born \in Nat /\ b.last_refill \in Nat
      /\ b.born <= b.last_refill /\ b.last_refill <= now
      /\ b.writes + b.tokens <= Burst + RefillPerSec * old
  BY Zenon DEF BucketOK, Bucket
<1>3. CASE secs = 0
  BY <1>3, Zenon DEF Refill
<1>4. CASE secs # 0
  <2>1. PICK x \in Nat, y \in Nat :
          x = b.last_refill - b.born /\ y = now - b.last_refill /\ x + y = now - b.born
    BY <1>2
  <2>2. old \in Nat /\ secs \in Nat /\ new \in Nat /\ old + secs <= new
    BY <2>1, <1>1, SpansAdd, Zenon
  <2>3. /\ RefillPerSec * old \in Nat /\ secs * RefillPerSec \in Nat /\ RefillPerSec * new \in Nat
        /\ RefillPerSec * old + secs * RefillPerSec <= RefillPerSec * new
    BY <2>2, <1>1, RateOfSpans, Zenon
  <2>4. full \in Nat /\ full <= b.tokens + secs * RefillPerSec
    BY <2>3, <1>1, <1>2, MinOfTwo
  <2>5. b.writes + full <= Burst + RefillPerSec * new
    BY <2>3, <2>4, <1>1, <1>2
  <2>6. Refill(b, now) = [b EXCEPT !.tokens = full, !.last_refill = now]
    BY <1>4, Zenon DEF Refill
  <2>7. /\ Refill(b, now) \in Bucket
        /\ Refill(b, now).tokens = full /\ Refill(b, now).last_refill = now
        /\ Refill(b, now).born = b.born /\ Refill(b, now).writes = b.writes
        /\ Refill(b, now).suppressed = b.suppressed
    BY <2>4, <2>6, <1>2, Zenon DEF Bucket
  <2> HIDE DEF full, secs, old
  <2> QED BY <2>5, <2>7, <1>2 DEF BucketOK
<1> QED BY <1>3, <1>4, Zenon

(* check_bucket: a bucket keeps within its allowance, and the rejection is  *)
(* written, with the suppressed ones, or counted with them.                 *)
LEMMA CheckKeeps ==
  ASSUME NEW b, NEW now \in Nat, BucketOK(b, now)
  PROVE  /\ BucketOK(CheckBucket(b, now), now)
         /\ Bump(b, now) \in Nat /\ Bump(b, now) * b.suppressed \in Nat
         /\ CheckBucket(b, now).suppressed + Bump(b, now) + Bump(b, now) * b.suppressed
              = b.suppressed + 1
<1> DEFINE f == Refill(b, now)
           c == CheckBucket(b, now)
<1>1. BucketOK(f, now) /\ f.suppressed = b.suppressed /\ b.suppressed \in Nat
  BY RefillKeeps, Zenon DEF BucketOK, Bucket
<1>2. /\ f \in Bucket /\ f.tokens \in Nat /\ f.suppressed \in Nat /\ f.writes \in Nat
      /\ Burst + RefillPerSec * ((f.last_refill - f.born) \div UnitsPerSec) \in Int
  <2>1. UnitsPerSec \in Nat \ {0} /\ RefillPerSec \in Nat /\ Burst \in Nat
    BY LimiterAssumption, Zenon
  <2>2. f \in Bucket /\ f.last_refill \in Nat /\ f.born \in Nat
    BY <1>1, Zenon DEF BucketOK, Bucket
  <2>3. (f.last_refill - f.born) \div UnitsPerSec \in Int
    BY <2>1, <2>2
  <2>4. RefillPerSec * ((f.last_refill - f.born) \div UnitsPerSec) \in Int
    BY <2>1, <2>3
  <2> QED BY <2>1, <2>2, <2>4 DEF Bucket
<1> HIDE DEF f
<1>3. CASE Writes(f, now)
  <2>1. c = LetThrough(f, now) /\ Bump(b, now) = 1
    BY <1>3, Zenon DEF CheckBucket, Bump, f
  <2>2. f.tokens > 0
    BY <1>3, Zenon DEF Writes
  <2>3. c = [f EXCEPT !.last_seen = now, !.tokens = f.tokens - 1, !.suppressed = 0,
                      !.last_write = now, !.writes = f.writes + 1]
    BY <2>1, Zenon DEF LetThrough
  <2> HIDE DEF c
  <2>4. /\ c \in Bucket
        /\ c.tokens = f.tokens - 1 /\ c.writes = f.writes + 1 /\ c.suppressed = 0
        /\ c.born = f.born /\ c.last_refill = f.last_refill
    <3>1. f.tokens - 1 \in Nat /\ f.writes + 1 \in Nat
      BY <2>2, <1>2
    <3>2. now \in Nat \cup {NoWrite}
      BY Zenon
    <3>3. c \in Bucket
      BY <2>3, <1>2, <3>1, <3>2, Zenon DEF Bucket
    <3>4. /\ c.tokens = f.tokens - 1 /\ c.writes = f.writes + 1 /\ c.suppressed = 0
          /\ c.born = f.born /\ c.last_refill = f.last_refill
      BY <2>3, <1>2, Zenon DEF Bucket
    <3> QED BY <3>3, <3>4, Zenon
  <2>5. c.writes + c.tokens = f.writes + f.tokens
    BY <2>4, <1>2
  <2>6. BucketOK(c, now)
    BY <2>4, <2>5, <1>1, Zenon DEF BucketOK
  <2> QED BY <2>1, <2>4, <2>6, <1>1 DEF c
<1>4. CASE ~Writes(f, now)
  <2>1. c = Suppress(f, now) /\ Bump(b, now) = 0
    BY <1>4, Zenon DEF CheckBucket, Bump, f
  <2>2. c = [f EXCEPT !.last_seen = now, !.suppressed = f.suppressed + 1]
    BY <2>1, Zenon DEF Suppress
  <2> HIDE DEF c
  <2>3. /\ c \in Bucket
        /\ c.tokens = f.tokens /\ c.writes = f.writes /\ c.suppressed = f.suppressed + 1
        /\ c.born = f.born /\ c.last_refill = f.last_refill
    <3>1. f.suppressed + 1 \in Nat
      BY <1>2
    <3>2. c \in Bucket
      BY <2>2, <1>2, <3>1, Zenon DEF Bucket
    <3>3. /\ c.tokens = f.tokens /\ c.writes = f.writes /\ c.suppressed = f.suppressed + 1
          /\ c.born = f.born /\ c.last_refill = f.last_refill
      BY <2>2, <1>2, Zenon DEF Bucket
    <3> QED BY <3>2, <3>3, Zenon
  <2>4. BucketOK(c, now)
    BY <2>3, <1>1, Zenon DEF BucketOK
  <2> QED BY <2>1, <2>3, <2>4, <1>1 DEF c
<1> QED BY <1>3, <1>4, Zenon

(* Bucket::new                                                              *)
LEMMA NewBucketOK ==
  ASSUME NEW now \in Nat
  PROVE  BucketOK(NewBucket(now), now) /\ NewBucket(now).suppressed = 0
<1>1. UnitsPerSec \in Nat \ {0} /\ RefillPerSec \in Nat /\ Burst \in Nat
  BY LimiterAssumption, Zenon
<1>2. (now - now) \div UnitsPerSec = 0
  BY <1>1
<1>3. NewBucket(now) \in Bucket
  BY <1>1, Zenon DEF NewBucket, Bucket
<1>4. Burst <= Burst + RefillPerSec * ((now - now) \div UnitsPerSec)
  BY <1>1, <1>2
<1> QED BY <1>1, <1>3, <1>4 DEF BucketOK, NewBucket

(* What a finite table holds back is finite.                                *)
LEMMA WaitingFinite ==
  ASSUME NEW bs, IsFiniteSet(DOMAIN bs), \A k \in DOMAIN bs : bs[k].suppressed \in Nat
  PROVE  IsFiniteSet(Waiting(bs)) /\ Suppressed(bs) \in Nat
<1> DEFINE Piece(k) == {k} \X (1..bs[k].suppressed)
           pieces == {Piece(k) : k \in DOMAIN bs}
           f == [k \in DOMAIN bs |-> Piece(k)]
<1>1. IsFiniteSet(pieces)
  <2>1. f \in Surjection(DOMAIN bs, pieces)
    BY Zenon DEF Surjection
  <2> HIDE DEF f, pieces
  <2> QED BY <2>1, FS_Surjection, Zenon
<1>2. \A k \in DOMAIN bs : IsFiniteSet(Piece(k))
  <2> TAKE k \in DOMAIN bs
  <2>1. IsFiniteSet(1..bs[k].suppressed)
    BY FS_Interval
  <2>2. IsFiniteSet({k})
    BY FS_Singleton, Zenon
  <2> QED BY <2>1, <2>2, FS_Product, Zenon
<1>3. \A p \in pieces : IsFiniteSet(p)
  BY <1>2, Zenon
<1>4. Waiting(bs) = UNION pieces
  BY Zenon DEF Waiting
<1> HIDE DEF pieces
<1>5. IsFiniteSet(Waiting(bs))
  BY <1>1, <1>3, <1>4, FS_UNION, Zenon
<1> QED BY <1>5, FS_CardinalityType, Zenon DEF Suppressed

\* A rejection that waits, waits in the bucket of one key.
LEMMA WaitingIs ==
  ASSUME NEW bs, NEW w
  PROVE  w \in Waiting(bs) <=> \E k \in DOMAIN bs : w \in {k} \X (1..bs[k].suppressed)
BY Zenon DEF Waiting

\* The count of a table is that of some of its keys and that of the others.
LEMMA SuppressedSplits ==
  ASSUME NEW bs, IsFiniteSet(DOMAIN bs), \A k \in DOMAIN bs : bs[k].suppressed \in Nat,
         NEW S, S \subseteq DOMAIN bs
  PROVE  /\ Suppressed(Restrict(bs, S)) \in Nat
         /\ Suppressed(Restrict(bs, DOMAIN bs \ S)) \in Nat
         /\ Suppressed(bs) = Suppressed(Restrict(bs, S)) + Suppressed(Restrict(bs, DOMAIN bs \ S))
<1> DEFINE A == Restrict(bs, S)
           B == Restrict(bs, DOMAIN bs \ S)
<1>1. /\ DOMAIN A = S /\ DOMAIN B = DOMAIN bs \ S
      /\ \A k \in S : A[k] = bs[k]
      /\ \A k \in DOMAIN bs \ S : B[k] = bs[k]
  BY Zenon DEF Restrict
<1>2. IsFiniteSet(S) /\ IsFiniteSet(DOMAIN bs \ S)
  BY FS_Subset, FS_Difference, Zenon
<1> HIDE DEF A, B
<1>3. IsFiniteSet(Waiting(A)) /\ Suppressed(A) \in Nat
  BY <1>1, <1>2, WaitingFinite, Zenon
<1>4. IsFiniteSet(Waiting(B)) /\ Suppressed(B) \in Nat
  BY <1>1, <1>2, WaitingFinite, Zenon
<1>5. Waiting(bs) = Waiting(A) \cup Waiting(B)
  <2>1. ASSUME NEW w PROVE w \in Waiting(bs) => w \in Waiting(A) \/ w \in Waiting(B)
    BY <1>1, WaitingIs
  <2>2. ASSUME NEW w, w \in Waiting(A) \/ w \in Waiting(B) PROVE w \in Waiting(bs)
    BY <2>2, <1>1, WaitingIs
  <2> QED BY <2>1, <2>2, Zenon
<1>6. Waiting(A) \cap Waiting(B) = {}
  <2> SUFFICES ASSUME NEW w, w \in Waiting(A), w \in Waiting(B) PROVE FALSE
    BY Zenon
  <2>1. PICK j \in S : w \in {j} \X (1..A[j].suppressed)
    BY <1>1, WaitingIs, Zenon
  <2>2. PICK k \in DOMAIN bs \ S : w \in {k} \X (1..B[k].suppressed)
    BY <1>1, WaitingIs, Zenon
  <2>3. w[1] = j /\ w[1] = k
    BY <2>1, <2>2, Zenon
  <2> QED BY <2>3, Zenon
<1>7. Suppressed(bs) = Suppressed(A) + Suppressed(B) - Cardinality({})
  BY <1>3, <1>4, <1>5, <1>6, FS_Union, Zenon DEF Suppressed
<1>8. Suppressed(bs) = Suppressed(A) + Suppressed(B)
  BY <1>3, <1>4, <1>7, FS_EmptySet
<1> QED BY <1>3, <1>4, <1>8, Zenon DEF A, B

\* An empty table holds nothing back.
LEMMA SuppressedNone ==
  ASSUME NEW bs, DOMAIN bs = {}
  PROVE  Suppressed(bs) = 0
<1>1. Waiting(bs) = {}
  BY WaitingIs, Zenon
<1> QED BY <1>1, FS_EmptySet, Zenon DEF Suppressed

\* A table of one bucket holds what the bucket counts.
LEMMA SuppressedOne ==
  ASSUME NEW bs, NEW k, DOMAIN bs = {k}, bs[k].suppressed \in Nat
  PROVE  Suppressed(bs) = bs[k].suppressed
<1> DEFINE n == bs[k].suppressed
<1>1. Waiting(bs) = {k} \X (1..n)
  <2>1. ASSUME NEW w PROVE w \in Waiting(bs) <=> w \in {k} \X (1..n)
    BY WaitingIs, Zenon
  <2> QED BY <2>1, Zenon
<1>2. IsFiniteSet({k}) /\ Cardinality({k}) = 1
  BY FS_Singleton, Zenon
<1>3. IsFiniteSet(1..n) /\ Cardinality(1..n) = n
  BY FS_Interval
<1>4. Cardinality({k} \X (1..n)) = Cardinality({k}) * Cardinality(1..n)
  BY <1>2, <1>3, FS_Product, Zenon
<1> QED BY <1>1, <1>2, <1>3, <1>4 DEF Suppressed

(* What one key holds, apart from the others.                               *)
LEMMA SuppressedBut ==
  ASSUME NEW bs, IsFiniteSet(DOMAIN bs), \A k \in DOMAIN bs : bs[k].suppressed \in Nat,
         NEW key \in DOMAIN bs
  PROVE  /\ Suppressed(Restrict(bs, DOMAIN bs \ {key})) \in Nat
         /\ Suppressed(bs) = bs[key].suppressed + Suppressed(Restrict(bs, DOMAIN bs \ {key}))
<1>1. DOMAIN Restrict(bs, {key}) = {key} /\ Restrict(bs, {key})[key] = bs[key]
  BY Zenon DEF Restrict
<1>2. Suppressed(Restrict(bs, {key})) = bs[key].suppressed
  BY <1>1, SuppressedOne, Zenon
<1> QED BY <1>2, SuppressedSplits, Zenon

(* The shared bucket is none or one.                                        *)
LEMMA SharedIs ==
  ASSUME NEW S, \A b, c \in S : b = c
  PROVE  /\ IsFiniteSet(S)
         /\ S = {} \/ \E b : S = {b}
<1>1. S = {} \/ \E b : S = {b}
  <2>1. CASE S = {}
    BY <2>1, Zenon
  <2>2. CASE S # {}
    <3>1. PICK b : b \in S
      BY <2>2, Zenon
    <3>2. S = {b}
      BY <3>1, Zenon
    <3> QED BY <3>2, Zenon
  <2> QED BY <2>1, <2>2, Zenon
<1> QED BY <1>1, FS_EmptySet, FS_Singleton, Zenon

\* The same for the shared bucket: what stays and what is pruned.
LEMMA SharedParts ==
  ASSUME NEW S, NEW T, T \subseteq S, IsFiniteSet(S), \A b \in S : b.suppressed \in Nat
  PROVE  /\ Suppressed(Shared(T)) \in Nat /\ Suppressed(Shared(S \ T)) \in Nat
         /\ Suppressed(Shared(S)) = Suppressed(Shared(T)) + Suppressed(Shared(S \ T))
<1> DEFINE bs == Shared(S)
<1>1. DOMAIN bs = S /\ \A b \in S : bs[b] = b
  BY Zenon DEF Shared
<1>2. Restrict(bs, T) = Shared(T) /\ Restrict(bs, S \ T) = Shared(S \ T)
  BY Zenon DEF Restrict, Shared
<1> HIDE DEF bs
<1>3. IsFiniteSet(DOMAIN bs) /\ \A k \in DOMAIN bs : bs[k].suppressed \in Nat
  BY <1>1, Zenon
<1>4. /\ Suppressed(Restrict(bs, T)) \in Nat /\ Suppressed(Restrict(bs, DOMAIN bs \ T)) \in Nat
      /\ Suppressed(bs) = Suppressed(Restrict(bs, T)) + Suppressed(Restrict(bs, DOMAIN bs \ T))
  BY <1>1, <1>3, SuppressedSplits, Zenon
<1>5. bs = Shared(S)
  BY Zenon DEF bs
<1> QED BY <1>1, <1>2, <1>4, <1>5, Zenon

\* The shared bucket holds what it counts.
LEMMA SharedOne ==
  ASSUME NEW b, b.suppressed \in Nat
  PROVE  Suppressed(Shared({b})) = b.suppressed
<1>1. DOMAIN Shared({b}) = {b} /\ Shared({b})[b] = b
  BY Zenon DEF Shared
<1> QED BY <1>1, SuppressedOne, Zenon

(* A key's bucket is replaced or made: only its count changes in the table. *)
LEMMA TableUpdated ==
  ASSUME NEW kept, IsFiniteSet(DOMAIN kept), \A k \in DOMAIN kept : kept[k].suppressed \in Nat,
         NEW key, NEW table, DOMAIN table = DOMAIN kept \cup {key},
         table[key].suppressed \in Nat, \A k \in DOMAIN kept \ {key} : table[k] = kept[k]
  PROVE  /\ IsFiniteSet(DOMAIN table)
         /\ Suppressed(table) \in Nat /\ Suppressed(kept) \in Nat
         /\ key \in DOMAIN kept =>
              Suppressed(table) + kept[key].suppressed = Suppressed(kept) + table[key].suppressed
         /\ key \notin DOMAIN kept => Suppressed(table) = Suppressed(kept) + table[key].suppressed
<1> DEFINE others == DOMAIN kept \ {key}
<1>1. /\ DOMAIN table = DOMAIN kept \cup {key}
      /\ \A k \in others : table[k] = kept[k]
  BY Zenon
<1>2. IsFiniteSet(DOMAIN table)
  BY <1>1, FS_AddElement, Zenon
<1>3. \A k \in DOMAIN table : table[k].suppressed \in Nat
  BY <1>1, Zenon
<1>4. DOMAIN table \ {key} = others
  BY <1>1, Zenon
<1>5. Restrict(table, others) = Restrict(kept, others)
  BY <1>1, Zenon DEF Restrict
<1>6. /\ Suppressed(Restrict(table, others)) \in Nat
      /\ Suppressed(table) = table[key].suppressed + Suppressed(Restrict(table, others))
  <2>1. key \in DOMAIN table
    BY <1>1, Zenon
  <2> QED BY <2>1, <1>1, <1>2, <1>3, <1>4, SuppressedBut, Zenon
<1>7. Suppressed(table) \in Nat /\ Suppressed(kept) \in Nat
  BY <1>2, <1>3, WaitingFinite, Zenon
<1>8. CASE key \in DOMAIN kept
  <2>1. Suppressed(kept) = kept[key].suppressed + Suppressed(Restrict(kept, others))
    BY <1>8, SuppressedBut, Zenon
  <2> QED BY <2>1, <1>2, <1>5, <1>6, <1>7, <1>8
<1>9. CASE key \notin DOMAIN kept
  <2>1. Suppressed(Restrict(kept, others)) = Suppressed(kept)
    <3>1. others = DOMAIN kept
      BY <1>9, Zenon
    <3>2. Suppressed(Restrict(kept, {})) = 0
      <4>1. DOMAIN Restrict(kept, {}) = {}
        BY Zenon DEF Restrict
      <4> QED BY <4>1, SuppressedNone, Zenon
    <3>3. /\ Suppressed(Restrict(kept, DOMAIN kept \ {})) \in Nat
          /\ Suppressed(kept)
               = Suppressed(Restrict(kept, {})) + Suppressed(Restrict(kept, DOMAIN kept \ {}))
      BY SuppressedSplits, Zenon
    <3>4. DOMAIN kept \ {} = others
      BY <3>1, Zenon
    <3> QED BY <3>2, <3>3, <3>4
  <2> QED BY <2>1, <1>2, <1>5, <1>6, <1>7, <1>9
<1> QED BY <1>8, <1>9, Zenon

(* RejectedAuditLimiter::check prunes, asks a bucket and counts.            *)
LEMMA LimitedAuditKeeps ==
  ASSUME clock \in Nat, LimiterInv(clock), NEW key, LimitedAudit(key, clock), clock' = clock
  PROVE  LimiterInv(clock)'
<1> DEFINE keep  == {k \in DOMAIN buckets : ~Stale(buckets[k], clock)}
           kept  == Restrict(buckets, keep)
           over  == {b \in overflow : ~Stale(b, clock)}
           lost  == Suppressed(Restrict(buckets, DOMAIN buckets \ keep))
           left  == Suppressed(Shared(overflow \ over))
           own   == key \in keep \/ Cardinality(keep) < MaxBuckets
           asked == IF own THEN IF key \in keep THEN kept[key] ELSE NewBucket(clock)
                           ELSE IF over = {} THEN NewBucket(clock) ELSE CHOOSE b \in over : TRUE
           has   == CheckBucket(asked, clock)
<1>1. /\ buckets' = IF own THEN [k \in keep \cup {key} |-> IF k = key THEN has ELSE kept[k]]
                           ELSE kept
      /\ overflow' = IF own THEN over ELSE {has}
      /\ \E ok \in BOOLEAN : events' = Counted(asked, clock, lost + left, ok)
  BY Zenon DEF LimitedAudit
<1>2. /\ IsFiniteSet(DOMAIN buckets)
      /\ \A b, c \in overflow : b = c
      /\ \A k \in DOMAIN buckets : BucketOK(buckets[k], clock)
      /\ \A b \in overflow : BucketOK(b, clock)
      /\ events \in [seen : Nat, written : Nat, reported : Nat, evicted : Nat, failed : Nat]
      /\ Cardinality(DOMAIN buckets) <= MaxBuckets
      /\ events.seen = events.written + events.reported + events.evicted + events.failed
                         + Suppressed(buckets) + Suppressed(Shared(overflow))
  BY Zenon DEF LimiterInv, LiveBuckets, RejectionsAccounted
<1>3. \A b : BucketOK(b, clock) => b.suppressed \in Nat
  BY Zenon DEF BucketOK, Bucket
<1>4. /\ DOMAIN kept = keep /\ keep \subseteq DOMAIN buckets /\ over \subseteq overflow
      /\ \A k \in keep : kept[k] = buckets[k]
  BY Zenon DEF Restrict
<1>5. IsFiniteSet(keep) /\ Cardinality(keep) <= MaxBuckets /\ Cardinality(keep) \in Nat
      /\ MaxBuckets \in Nat
  <2>1. IsFiniteSet(keep) /\ Cardinality(keep) <= Cardinality(DOMAIN buckets)
    BY <1>2, <1>4, FS_Subset, Zenon
  <2>2. Cardinality(keep) \in Nat /\ Cardinality(DOMAIN buckets) \in Nat
    BY <2>1, <1>2, FS_CardinalityType, Zenon
  <2>3. MaxBuckets \in Nat
    BY LimiterAssumption, Zenon
  <2> QED BY <2>1, <2>2, <2>3, <1>2
<1>6. /\ Suppressed(kept) \in Nat /\ lost \in Nat
      /\ Suppressed(buckets) = Suppressed(kept) + lost
  <2>1. \A k \in DOMAIN buckets : buckets[k].suppressed \in Nat
    BY <1>2, <1>3, Zenon
  <2> QED BY <2>1, <1>2, <1>4, SuppressedSplits, Zenon
<1>7. /\ Suppressed(Shared(over)) \in Nat /\ left \in Nat
      /\ Suppressed(Shared(overflow)) = Suppressed(Shared(over)) + left
  <2>1. IsFiniteSet(overflow)
    BY <1>2, SharedIs, Zenon
  <2>2. \A b \in overflow : b.suppressed \in Nat
    BY <1>2, <1>3, Zenon
  <2> QED BY <2>1, <2>2, <1>4, SharedParts, Zenon
<1>8. BucketOK(asked, clock)
  <2>1. BucketOK(NewBucket(clock), clock)
    BY NewBucketOK, Zenon
  <2>2. over # {} => (CHOOSE b \in over : TRUE) \in overflow
    BY <1>4, Zenon
  <2> QED BY <2>1, <2>2, <1>2, <1>4, Zenon
<1> HIDE DEF keep, kept, over, lost, left, asked, has
<1>9. /\ BucketOK(has, clock)
      /\ Bump(asked, clock) \in Nat /\ Bump(asked, clock) * asked.suppressed \in Nat
      /\ has.suppressed + Bump(asked, clock) + Bump(asked, clock) * asked.suppressed
           = asked.suppressed + 1
      /\ has.suppressed \in Nat /\ asked.suppressed \in Nat
  BY <1>3, <1>8, CheckKeeps, Zenon DEF has
<1>10. /\ events' \in [seen : Nat, written : Nat, reported : Nat, evicted : Nat, failed : Nat]
       /\ events'.seen = events.seen + 1
       /\ events'.written + events'.reported + events'.evicted + events'.failed
            = (events.written + events.reported + events.evicted + events.failed)
              + (Bump(asked, clock) + Bump(asked, clock) * asked.suppressed) + (lost + left)
  <2> DEFINE one   == Bump(asked, clock)
             count == Bump(asked, clock) * asked.suppressed
  <2>1. PICK ok \in BOOLEAN :
          events' = [seen |-> events.seen + 1,
                     written |-> events.written + (IF ok THEN one ELSE 0),
                     reported |-> events.reported + (IF ok THEN count ELSE 0),
                     evicted |-> events.evicted + (lost + left),
                     failed |-> events.failed + (IF ok THEN 0 ELSE one + count)]
    BY <1>1, Zenon DEF Counted
  <2>2. /\ events.seen \in Nat /\ events.written \in Nat /\ events.reported \in Nat
        /\ events.evicted \in Nat /\ events.failed \in Nat
    BY <1>2, Zenon
  <2>3. one \in Nat /\ count \in Nat /\ lost + left \in Nat
    BY <1>6, <1>7, <1>9
  <2> HIDE DEF one, count
  <2>4. CASE ok
    <3>1. events' = [seen |-> events.seen + 1, written |-> events.written + one,
                     reported |-> events.reported + count,
                     evicted |-> events.evicted + (lost + left), failed |-> events.failed + 0]
      BY <2>1, <2>4, Zenon
    <3>2. /\ events.seen + 1 \in Nat /\ events.written + one \in Nat
          /\ events.reported + count \in Nat /\ events.evicted + (lost + left) \in Nat
          /\ events.failed + 0 \in Nat
          /\ (events.written + one) + (events.reported + count) + (events.evicted + (lost + left))
               + (events.failed + 0)
               = (events.written + events.reported + events.evicted + events.failed)
                 + (one + count) + (lost + left)
      BY <2>2, <2>3
    <3> QED BY <3>1, <3>2, Zenon DEF one, count
  <2>5. CASE ~ok
    <3>1. events' = [seen |-> events.seen + 1, written |-> events.written + 0,
                     reported |-> events.reported + 0,
                     evicted |-> events.evicted + (lost + left),
                     failed |-> events.failed + (one + count)]
      BY <2>1, <2>5, Zenon
    <3>2. /\ events.seen + 1 \in Nat /\ events.written + 0 \in Nat
          /\ events.reported + 0 \in Nat /\ events.evicted + (lost + left) \in Nat
          /\ events.failed + (one + count) \in Nat
          /\ (events.written + 0) + (events.reported + 0) + (events.evicted + (lost + left))
               + (events.failed + (one + count))
               = (events.written + events.reported + events.evicted + events.failed)
                 + (one + count) + (lost + left)
      BY <2>2, <2>3
    <3> QED BY <3>1, <3>2, Zenon DEF one, count
  <2> QED BY <2>4, <2>5, Zenon
<1>11. /\ buckets' = Restrict(buckets', DOMAIN buckets')
       /\ IsFiniteSet(DOMAIN buckets') /\ Cardinality(DOMAIN buckets') <= MaxBuckets
       /\ \A k \in DOMAIN buckets' : BucketOK(buckets'[k], clock)
       /\ \A b, c \in overflow' : b = c
       /\ \A b \in overflow' : BucketOK(b, clock)
       /\ Suppressed(buckets') \in Nat /\ Suppressed(Shared(overflow')) \in Nat
       /\ Suppressed(buckets') + Suppressed(Shared(overflow')) + asked.suppressed
            = Suppressed(kept) + Suppressed(Shared(over)) + has.suppressed
  <2>1. CASE own
    <3>1. /\ buckets' = [k \in keep \cup {key} |-> IF k = key THEN has ELSE kept[k]]
          /\ overflow' = over
      BY <2>1, <1>1, Zenon
    <3>2. /\ key \in DOMAIN kept => asked.suppressed = kept[key].suppressed
          /\ key \notin DOMAIN kept => asked.suppressed = 0
      BY <2>1, <1>4, NewBucketOK, Zenon DEF asked
    <3>3. \A k \in DOMAIN kept : kept[k].suppressed \in Nat
      BY <1>2, <1>3, <1>4, Zenon
    <3>4. /\ IsFiniteSet(DOMAIN buckets') /\ Suppressed(buckets') \in Nat
          /\ Suppressed(buckets') + asked.suppressed = Suppressed(kept) + has.suppressed
      <4>1. /\ DOMAIN buckets' = DOMAIN kept \cup {key} /\ buckets'[key] = has
            /\ \A k \in DOMAIN kept \ {key} : buckets'[k] = kept[k]
        BY <3>1, <1>4, Zenon
      <4>2. IsFiniteSet(DOMAIN kept)
        BY <1>4, <1>5, Zenon
      <4> HIDE DEF own
      <4>3. buckets'[key].suppressed \in Nat
        BY <4>1, <1>9, Zenon
      <4>4. PICK table : table = buckets'
        BY Zenon
      <4>5. /\ IsFiniteSet(DOMAIN table) /\ Suppressed(table) \in Nat
            /\ key \in DOMAIN kept =>
                 Suppressed(table) + kept[key].suppressed = Suppressed(kept) + table[key].suppressed
            /\ key \notin DOMAIN kept =>
                 Suppressed(table) = Suppressed(kept) + table[key].suppressed
        <5>1. /\ DOMAIN table = DOMAIN kept \cup {key} /\ table[key].suppressed \in Nat
              /\ \A k \in DOMAIN kept \ {key} : table[k] = kept[k]
          BY <4>1, <4>3, <4>4, Zenon
        <5> QED BY <5>1, <4>2, <3>3, TableUpdated, ZenonT(40)
      <4>6. table[key] = has
        BY <4>1, <4>4, Zenon
      <4>7. Suppressed(table) + asked.suppressed = Suppressed(kept) + has.suppressed
        <5>1. CASE key \in DOMAIN kept
          BY <5>1, <4>5, <4>6, <3>2, Zenon
        <5>2. CASE key \notin DOMAIN kept
          <6>1. asked.suppressed = 0 /\ Suppressed(table) = Suppressed(kept) + has.suppressed
            BY <5>2, <4>5, <4>6, <3>2, Zenon
          <6> QED BY <6>1, <4>5
        <5> QED BY <5>1, <5>2, Zenon
      <4> QED BY <4>4, <4>5, <4>7, Zenon
    <3>5. Cardinality(DOMAIN buckets') <= MaxBuckets
      <4>1. DOMAIN buckets' = keep \cup {key}
        BY <3>1, Zenon
      <4>2. Cardinality(keep \cup {key})
              = IF key \in keep THEN Cardinality(keep) ELSE Cardinality(keep) + 1
        BY <1>5, FS_AddElement, Zenon
      <4> QED BY <4>1, <4>2, <2>1, <1>5
    <3>6. buckets' = Restrict(buckets', DOMAIN buckets')
      BY <3>1, Zenon DEF Restrict
    <3>7. \A k \in DOMAIN buckets' : BucketOK(buckets'[k], clock)
      <4> SUFFICES ASSUME NEW k \in keep \cup {key} PROVE BucketOK(buckets'[k], clock)
        BY <3>1, Zenon
      <4>1. CASE k = key
        BY <4>1, <3>1, <1>9, Zenon
      <4>2. CASE k # key
        BY <4>2, <3>1, <1>2, <1>4, Zenon
      <4> QED BY <4>1, <4>2, Zenon
    <3>8. (\A b, c \in overflow' : b = c) /\ \A b \in overflow' : BucketOK(b, clock)
      BY <3>1, <1>2, <1>4, Zenon
    <3>9. Shared(overflow') = Shared(over)
      BY <3>1, Zenon
    <3>10. Suppressed(buckets') + Suppressed(Shared(overflow')) + asked.suppressed
             = Suppressed(kept) + Suppressed(Shared(over)) + has.suppressed
      BY <3>4, <3>9, <1>6, <1>7, <1>9
    <3> QED BY <3>4, <3>5, <3>6, <3>7, <3>8, <3>9, <3>10, <1>7, Zenon
  <2>2. CASE ~own
    <3>1. buckets' = kept /\ overflow' = {has}
      BY <2>2, <1>1, Zenon
    <3>2. Suppressed(Shared(overflow')) = has.suppressed
      BY <3>1, <1>9, SharedOne, Zenon
    <3>3. Suppressed(Shared(over)) = asked.suppressed
      <4>1. CASE over = {}
        <5>1. asked.suppressed = 0
          BY <4>1, <2>2, NewBucketOK, Zenon DEF asked
        <5>2. DOMAIN Shared(over) = {}
          BY <4>1, Zenon DEF Shared
        <5> QED BY <5>1, <5>2, SuppressedNone, Zenon
      <4>2. CASE over # {}
        <5>1. asked \in over
          BY <4>2, <2>2, Zenon DEF asked
        <5>2. over = {asked}
          BY <5>1, <1>2, <1>4, Zenon
        <5> QED BY <5>2, <1>9, SharedOne, Zenon
      <4> QED BY <4>1, <4>2, Zenon
    <3>4. buckets' = Restrict(buckets', DOMAIN buckets')
      BY <3>1, Zenon DEF Restrict, kept
    <3>5. /\ IsFiniteSet(DOMAIN buckets') /\ Cardinality(DOMAIN buckets') <= MaxBuckets
          /\ \A k \in DOMAIN buckets' : BucketOK(buckets'[k], clock)
      BY <3>1, <1>2, <1>4, <1>5, Zenon
    <3>6. (\A b, c \in overflow' : b = c) /\ \A b \in overflow' : BucketOK(b, clock)
      BY <3>1, <1>9, Zenon
    <3>7. Suppressed(buckets') = Suppressed(kept)
      BY <3>1, Zenon
    <3> QED BY <3>2, <3>3, <3>4, <3>5, <3>6, <3>7, <1>6, <1>9
  <2> QED BY <2>1, <2>2, Zenon
<1>12. events'.seen = events'.written + events'.reported + events'.evicted + events'.failed
                        + Suppressed(buckets') + Suppressed(Shared(overflow'))
  <2>1. /\ events.seen \in Nat /\ events.written \in Nat /\ events.reported \in Nat
        /\ events.evicted \in Nat /\ events.failed \in Nat
    BY <1>2, Zenon
  <2>2. Suppressed(buckets) \in Nat /\ Suppressed(Shared(overflow)) \in Nat /\ lost + left \in Nat
    BY <1>6, <1>7
  <2>3. Suppressed(buckets') + Suppressed(Shared(overflow')) + (lost + left) + asked.suppressed
          = Suppressed(buckets) + Suppressed(Shared(overflow)) + has.suppressed
    BY <1>6, <1>7, <1>9, <1>11
  <2>4. PICK known \in Nat : known = events.written + events.reported + events.evicted + events.failed
    BY <2>1
  <2>5. events.seen = known + Suppressed(buckets) + Suppressed(Shared(overflow))
    BY <2>4, <1>2, Zenon
  <2>6. events.seen + 1
          = (known + (Bump(asked, clock) + Bump(asked, clock) * asked.suppressed) + (lost + left))
            + Suppressed(buckets') + Suppressed(Shared(overflow'))
    <3>1. PICK bump \in Nat, told \in Nat, gone \in Nat, had \in Nat, now \in Nat :
            /\ bump = Bump(asked, clock) /\ told = Bump(asked, clock) * asked.suppressed
            /\ gone = lost + left /\ had = asked.suppressed /\ now = has.suppressed
      BY <2>2, <1>9, Zenon
    <3>2. PICK table \in Nat, rest \in Nat, table2 \in Nat, rest2 \in Nat :
            /\ table = Suppressed(buckets) /\ rest = Suppressed(Shared(overflow))
            /\ table2 = Suppressed(buckets') /\ rest2 = Suppressed(Shared(overflow'))
      BY <2>2, <1>11, Zenon
    <3>3. /\ now + bump + told = had + 1
          /\ table2 + rest2 + gone + had = table + rest + now
          /\ events.seen = known + table + rest
      BY <3>1, <3>2, <2>3, <2>5, <1>9, Zenon
    <3>4. events.seen + 1 = (known + (bump + told) + gone) + table2 + rest2
      BY <3>3, <2>1
    <3> QED BY <3>1, <3>2, <3>4, Zenon
  <2> QED BY <2>4, <2>6, <1>10, Zenon
<1>13. \A b \in LiveBuckets' : BucketOK(b, clock')
  BY <1>11, Zenon DEF LiveBuckets
<1>14. RejectionsAccounted'
  <2>1. \A b \in LiveBuckets' :
          b.writes + b.tokens <= Burst + RefillPerSec * ((b.last_refill - b.born) \div UnitsPerSec)
    BY <1>13, Zenon DEF BucketOK
  <2> QED BY <2>1, <1>11, <1>12, Zenon DEF RejectionsAccounted
<1> QED BY <1>10, <1>11, <1>13, <1>14, Zenon DEF LimiterInv

(* The limiter and the clock in a step of the server: a rejection is        *)
(* offered to the limiter, or the clock goes on, or neither.                *)
LEMMA LimiterMoves ==
  ASSUME ServerNext
  PROVE  \/ ServerTick
         \/ /\ UNCHANGED clock
            /\ UNCHANGED limiterVars \/ \E key : LimitedAudit(key, clock)
<1> DEFINE Offered == UNCHANGED limiterVars \/ \E key : LimitedAudit(key, clock)
<1>1. ASSUME NEW remote, NEW resource, NEW code, Rejected(remote, resource, code)
      PROVE  Offered
  BY <1>1, Zenon DEF Rejected
<1> HIDE DEF Offered
<1>2. UNCHANGED limiterVars => Offered
  BY Zenon DEF Offered
<1>3. CASE IncomingRejected
  BY <1>3, <1>1, Zenon DEF IncomingRejected, serverVars, Offered
<1>4. ASSUME NEW c \in Conns, ConnNext(c) PROVE UNCHANGED clock /\ Offered
  <2>1. CASE Incoming(c)
    BY <2>1, <1>2, Zenon DEF Incoming
  <2>2. CASE HandshakeFails(c) \/ HandshakeTimeout(c)
    BY <2>2, <1>1, <1>2, Zenon DEF HandshakeFails, HandshakeTimeout, EndHandshake
  <2>3. ASSUME NEW r \in Remotes, HookRejects(c, r) \/ HandshakeDone(c, r)
        PROVE  UNCHANGED clock /\ Offered
    BY <2>3, <1>1, <1>2, Zenon DEF HookRejects, HandshakeDone, EndHandshake
  <2>4. CASE AcquireController(c)
    BY <2>4, <1>1, <1>2, Zenon DEF AcquireController
  <2>5. CASE ConnectionClosed(c) \/ IdleTimeout(c)
    BY <2>5, <1>1, <1>2, Zenon DEF ConnectionClosed, IdleTimeout, EndConnection
  <2>6. ASSUME NEW s \in Streams, AcceptStream(c, s) PROVE UNCHANGED clock /\ Offered
    BY <2>6, <1>2, Zenon DEF AcceptStream
  <2>7. CASE StreamRejected(c)
    BY <2>7, <1>1, Zenon DEF StreamRejected, serverVars
  <2> QED BY <1>4, <2>1, <2>2, <2>3, <2>4, <2>5, <2>6, <2>7, Zenon DEF ConnNext
<1>5. ASSUME NEW s \in Streams, StreamNext(s) PROVE UNCHANGED clock /\ Offered
  <2>1. CASE AcquireStream(s)
    BY <2>1, <1>1, <1>2, Zenon DEF AcquireStream
  <2>2. CASE \/ ReadFails(s) \/ \E q \in Requests : ReadRequest(s, q)
             \/ RegisterNonce(s) \/ PeerAnswers(s)
             \/ \E written \in BOOLEAN : PeerAudit(s, written)
             \/ DispatchTimeout(s)
             \/ \E written, fits \in BOOLEAN : AuditReply(s, written, fits)
    <3>1. StreamStep
      BY <2>2, Zenon DEF ReadFails, ReadRequest, RegisterNonce, PeerAnswers, PeerAudit,
                         DispatchTimeout, AuditReply
    <3> QED BY <3>1, <1>2, Zenon DEF StreamStep
  <2>3. CASE StreamEnds(s)
    BY <2>3, <1>2, Zenon DEF StreamEnds
  <2> QED BY <1>5, <2>1, <2>2, <2>3, Zenon DEF StreamNext
<1> QED BY <1>3, <1>4, <1>5, <1>1, Zenon DEF ServerNext, Offered, IncomingRejected, serverVars

(* The table is empty at the start.                                         *)
LEMMA LimiterStarts == ServerInit => clock \in Nat /\ LimiterInv(clock)
<1> SUFFICES ASSUME ServerInit PROVE clock \in Nat /\ LimiterInv(clock)
  BY Zenon
<1>1. clock = 0 /\ LimiterInit
  BY Zenon DEF ServerInit
<1>2. /\ DOMAIN buckets = {} /\ overflow = {}
      /\ events = [seen |-> 0, written |-> 0, reported |-> 0, evicted |-> 0, failed |-> 0]
  BY <1>1, Zenon DEF LimiterInit
<1>3. buckets = Restrict(buckets, DOMAIN buckets)
  BY <1>1, Zenon DEF LimiterInit, Restrict
<1>4. Suppressed(buckets) = 0
  BY <1>2, SuppressedNone, Zenon
<1>5. Suppressed(Shared(overflow)) = 0
  <2>1. DOMAIN Shared(overflow) = {}
    BY <1>2, Zenon DEF Shared
  <2> QED BY <2>1, SuppressedNone, Zenon
<1>6. LiveBuckets = {}
  BY <1>2, Zenon DEF LiveBuckets
<1>7. IsFiniteSet(DOMAIN buckets) /\ Cardinality(DOMAIN buckets) = 0 /\ MaxBuckets \in Nat
  BY <1>2, FS_EmptySet, LimiterAssumption, Zenon
<1>8. RejectionsAccounted
  BY <1>2, <1>4, <1>5, <1>6, <1>7 DEF RejectionsAccounted
<1> QED BY <1>1, <1>2, <1>3, <1>6, <1>7, <1>8, Zenon DEF LimiterInv

\* Time only adds to what a bucket may let through, and a step that offers
\* no rejection leaves the table alone.
LEMMA LimiterStepKeeps ==
  clock \in Nat /\ LimiterInv(clock) /\ [ServerNext]_agentVars => (clock \in Nat /\ LimiterInv(clock))'
<1> SUFFICES ASSUME clock \in Nat, LimiterInv(clock), [ServerNext]_agentVars
             PROVE  (clock \in Nat /\ LimiterInv(clock))'
  BY Zenon
<1>1. ASSUME UNCHANGED limiterVars, clock' \in Nat, clock <= clock'
      PROVE  LimiterInv(clock)'
  <2>1. \A b : BucketOK(b, clock) => BucketOK(b, clock')
    <3> SUFFICES ASSUME NEW b, BucketOK(b, clock) PROVE BucketOK(b, clock')
      BY Zenon
    <3>1. b.last_refill \in Nat /\ b.last_refill <= clock
      BY Zenon DEF BucketOK, Bucket
    <3>2. b.last_refill <= clock'
      BY <3>1, <1>1
    <3> QED BY <3>2, Zenon DEF BucketOK
  <2>2. buckets' = buckets /\ overflow' = overflow /\ events' = events
    BY <1>1, Zenon DEF limiterVars
  <2>3. RejectionsAccounted' /\ LiveBuckets' = LiveBuckets
    BY <2>2, Zenon DEF LimiterInv, RejectionsAccounted, LiveBuckets, Suppressed, Waiting, Shared
  <2> QED BY <2>1, <2>2, <2>3, Zenon DEF LimiterInv
<1>2. CASE ServerNext
  <2>1. CASE ServerTick
    BY <2>1, <1>1 DEF ServerTick
  <2>2. CASE UNCHANGED clock /\ UNCHANGED limiterVars
    BY <2>2, <1>1
  <2>3. ASSUME NEW key, LimitedAudit(key, clock), UNCHANGED clock
        PROVE  (clock \in Nat /\ LimiterInv(clock))'
    BY <2>3, LimitedAuditKeeps, Zenon
  <2> QED BY <1>2, <2>1, <2>2, <2>3, LimiterMoves, Zenon
<1>3. CASE UNCHANGED agentVars
  BY <1>3, <1>1 DEF agentVars, serverVars
<1> QED BY <1>2, <1>3, Zenon

\* audit_limiter.rs: for every limit, however rejections are spaced and
\* whichever keys they have, a bucket stays within its burst and the whole
\* seconds since it was made, the table within its limit, and a rejection is
\* in the log, in a reported count, in a live bucket or gone with a stale one.
THEOREM RejectionsAreAccounted == ServerSpec => []RejectionsAccounted
<1>1. clock \in Nat /\ LimiterInv(clock) => RejectionsAccounted
  BY Zenon DEF LimiterInv
<1> QED BY <1>1, LimiterStarts, LimiterStepKeeps, PTL DEF ServerSpec
=============================================================================
