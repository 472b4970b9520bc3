---------------------------- MODULE AgentServer -----------------------------
(***************************************************************************)
(* The RPC server of the agent (server.rs, authz.rs, peer_echo.rs):        *)
(* admission of handshakes, connections and streams by permits, the checks *)
(* of a request in their order, the nonce, authorization, dispatch with    *)
(* its timeout, the audit event and the response.                          *)
(*                                                                         *)
(* Every connection and every stream is a task of its own.  A permit       *)
(* belongs to the task that took it and returns when the task drops it.    *)
(* The timers of the code (handshake, idle connection, frame, dispatch)    *)
(* may fire whenever their await is pending; only the age of a request and *)
(* of a nonce is told by the clock.  What the audit writer answers is      *)
(* either result here; its own behaviour is module AgentAudit.             *)
(***************************************************************************)
EXTENDS NonceCache, AuditLimiter

CONSTANTS
  Conns, Streams,        \* tasks
  Remotes,               \* endpoint ids of callers
  Controllers,           \* config.security.controllers
  EnabledPeers,          \* config.security.peers, enabled ones
  PathProbes,            \* enabled (controller, target) pairs
  SelfEndpoint,          \* the agent's own endpoint id
  Requests,              \* frames that parse as a request
  MaxHandshakes, MaxConnections, MaxConnectionsPer, MaxStreams, MaxStreamsPer,
  Skew,                  \* allowed_clock_skew_seconds
  MaxClock,              \* bound: the clock
  MaxRejections          \* bound: rejections that reach the audit limiter

ASSUME ServerAssumption ==
  /\ {MaxHandshakes, MaxConnections, MaxConnectionsPer, MaxStreams, MaxStreamsPer} \subseteq Nat \ {0}
  /\ {Skew, MaxClock} \subseteq Nat
  /\ IsFiniteSet(Conns) /\ IsFiniteSet(Streams)
  /\ \A q \in Requests : {q.issued, q.deadline} \subseteq Nat

VARIABLES
  clock,
  conn,      \* the task of every incoming connection
  stream,    \* the task of every accepted stream
  permits,   \* free permits of the five semaphores
  active,    \* the gauges of AgentMetrics
  accepted   \* history: requests whose nonce was accepted, with the caller

serverVars == <<clock, conn, stream, permits, active, accepted>>
agentVars == <<serverVars, nonceVars, limiterVars>>

None == "none"
FreeConn == [pc |-> "free", remote |-> None]
NoRequest == [nonce |-> None, method |-> None, target |-> None, issued |-> 0, deadline |-> 0, flaws |-> {}]
FreeStream == [pc |-> "free", remote |-> None, request |-> NoRequest, reply |-> None, trail |-> {}]

ServerInit ==
  /\ clock = 0
  /\ conn = [c \in Conns |-> FreeConn]
  /\ stream = [s \in Streams |-> FreeStream]
  /\ permits = [handshake |-> MaxHandshakes, connection |-> MaxConnections,
                connections_per |-> [r \in Remotes |-> MaxConnectionsPer],
                stream |-> MaxStreams, streams_per |-> [r \in Remotes |-> MaxStreamsPer]]
  /\ active = [handshake |-> 0, connection |-> 0, stream |-> 0]
  /\ accepted = {}
  /\ NonceInit
  /\ LimiterInit

-----------------------------------------------------------------------------
(* authz.rs                                                                 *)

(* A disabled peer is answered like an unknown endpoint everywhere.         *)
CallerClass(r) ==
  IF r \in Controllers THEN "Controller" ELSE IF r \in EnabledPeers THEN "Peer" ELSE "Unknown"

ConnectionAdmitted(r) == CallerClass(r) \in {"Controller", "Peer"}

PathEcho == "probe.path.echo"
PeerEcho == "probe.peer.echo"
Ping     == "node.ping"                \* and the other methods answered at once
Ocserv   == "ocserv.service.summary"   \* and the other read-only providers
Reload   == "ocserv.reload"            \* and whatever else begins with ocserv.

MethodAllowed(class, method) ==
  \/ class = "Controller" /\ method \in {Ping, Ocserv, PathEcho}
  \/ class = "Peer" /\ method = PeerEcho

PathProbeDecision(r, target) ==
  IF target = SelfEndpoint THEN "ParamsInvalid"
  ELSE IF target \in EnabledPeers \ Controllers /\ <<r, target>> \in PathProbes
       THEN "Allowed" ELSE "EndpointNotAllowed"

(* The parameters of a path echo name one endpoint, which must be a target. *)
PathProbe(r, q) == IF q.target = None THEN "ParamsInvalid" ELSE PathProbeDecision(r, q.target)

(* authorize_request_method and the parameters of the method.               *)
Authorization(r, q) ==
  IF CallerClass(r) = "Unknown" THEN "EndpointNotAllowed"
  ELSE IF ~MethodAllowed(CallerClass(r), q.method)
  THEN IF q.method \in {Ping, Ocserv, Reload, PathEcho, PeerEcho}
       THEN "MethodNotAllowed" ELSE "MethodNotFound"
  ELSE IF q.method = PathEcho THEN PathProbe(r, q)
  ELSE IF q.target # None THEN "ParamsInvalid" ELSE "Allowed"

-----------------------------------------------------------------------------
(* Permits                                                                  *)

(* A rejection is offered to the audit limiter; beyond the bound it no      *)
(* longer is, so that the server itself goes on.                            *)
Rejected(remote, resource, code) ==
  IF events.seen < MaxRejections THEN LimitedAudit(<<remote, resource, code>>, clock)
  ELSE UNCHANGED limiterVars

ReleaseHandshake == [permits EXCEPT !.handshake = @ + 1]

(* serve_endpoint takes a handshake permit for an incoming connection ...   *)
Incoming(c) ==
  /\ conn[c].pc = "free"
  /\ permits.handshake > 0
  /\ conn' = [conn EXCEPT ![c] = [pc |-> "handshake", remote |-> None]]
  /\ permits' = [permits EXCEPT !.handshake = @ - 1]
  /\ active' = [active EXCEPT !.handshake = @ + 1]
  /\ UNCHANGED <<clock, stream, accepted, nonceVars, limiterVars>>

(* ... or drops it when there is none.                                      *)
IncomingRejected ==
  /\ permits.handshake = 0
  /\ Rejected("unknown", "handshake", "RESOURCE_EXHAUSTED")
  /\ UNCHANGED <<serverVars, nonceVars>>

EndHandshake(c, next) ==
  /\ conn[c].pc = "handshake"
  /\ conn' = [conn EXCEPT ![c] = next]
  /\ active' = [active EXCEPT !.handshake = @ - 1]
  /\ UNCHANGED <<clock, stream, accepted, nonceVars>>

HandshakeFails(c) ==
  /\ EndHandshake(c, FreeConn)
  /\ permits' = ReleaseHandshake
  /\ UNCHANGED limiterVars

HandshakeTimeout(c) ==
  /\ EndHandshake(c, FreeConn)
  /\ permits' = ReleaseHandshake
  /\ Rejected("unknown", "handshake", "RPC_TIMEOUT")

(* AllowlistHook::after_handshake refuses an endpoint that is not listed.   *)
HookRejects(c, r) ==
  /\ ~ConnectionAdmitted(r)
  /\ EndHandshake(c, FreeConn)
  /\ permits' = ReleaseHandshake
  /\ Rejected(r, "connection", "ENDPOINT_NOT_ALLOWED")

(* The handshake permit is dropped, then try_acquire_connection takes the   *)
(* global permit; the permit of the controller is a second step.            *)
HandshakeDone(c, r) ==
  /\ ConnectionAdmitted(r)
  /\ IF permits.connection > 0
     THEN /\ EndHandshake(c, [pc |-> "admitted", remote |-> r])
          /\ permits' = [ReleaseHandshake EXCEPT !.connection = @ - 1]
          /\ UNCHANGED limiterVars
     ELSE /\ EndHandshake(c, FreeConn)
          /\ permits' = ReleaseHandshake
          /\ Rejected(r, "connection", "RESOURCE_EXHAUSTED")

(* Fault: the global permit is kept when the controller has none left.      *)
AcquireControllerLeaks(c) ==
  LET r == conn[c].remote IN
  /\ conn[c].pc = "admitted"
  /\ IF permits.connections_per[r] > 0
     THEN /\ permits' = [permits EXCEPT !.connections_per[r] = @ - 1]
          /\ conn' = [conn EXCEPT ![c].pc = "open"]
          /\ active' = [active EXCEPT !.connection = @ + 1]
          /\ UNCHANGED limiterVars
     ELSE /\ UNCHANGED <<permits, active>>
          /\ conn' = [conn EXCEPT ![c] = FreeConn]
          /\ Rejected(r, "connection", "RESOURCE_EXHAUSTED")
  /\ UNCHANGED <<clock, stream, accepted, nonceVars>>

AcquireController(c) ==
  LET r == conn[c].remote IN
  /\ conn[c].pc = "admitted"
  /\ IF permits.connections_per[r] > 0
     THEN /\ permits' = [permits EXCEPT !.connections_per[r] = @ - 1]
          /\ conn' = [conn EXCEPT ![c].pc = "open"]
          /\ active' = [active EXCEPT !.connection = @ + 1]
          /\ UNCHANGED limiterVars
     ELSE /\ permits' = [permits EXCEPT !.connection = @ + 1]
          /\ conn' = [conn EXCEPT ![c] = FreeConn]
          /\ Rejected(r, "connection", "RESOURCE_EXHAUSTED")
          /\ UNCHANGED active
  /\ UNCHANGED <<clock, stream, accepted, nonceVars>>

(* serve_connection ends; streams of the connection run on by themselves.   *)
EndConnection(c) ==
  /\ conn[c].pc = "open"
  /\ conn' = [conn EXCEPT ![c] = FreeConn]
  /\ permits' = [permits EXCEPT !.connection = @ + 1, !.connections_per[conn[c].remote] = @ + 1]
  /\ active' = [active EXCEPT !.connection = @ - 1]
  /\ UNCHANGED <<clock, stream, accepted, nonceVars>>

ConnectionClosed(c) == EndConnection(c) /\ UNCHANGED limiterVars

IdleTimeout(c) == EndConnection(c) /\ Rejected(conn[c].remote, "connection", "RPC_TIMEOUT")

(* A stream of an open connection takes the global stream permit ...        *)
AcceptStream(c, s) ==
  /\ conn[c].pc = "open"
  /\ stream[s].pc = "free"
  /\ permits.stream > 0
  /\ permits' = [permits EXCEPT !.stream = @ - 1]
  /\ stream' = [stream EXCEPT ![s] = [FreeStream EXCEPT !.pc = "admitted", !.remote = conn[c].remote]]
  /\ UNCHANGED <<clock, conn, active, accepted, nonceVars, limiterVars>>

(* ... or is answered RESOURCE_EXHAUSTED.                                   *)
StreamRejected(c) ==
  /\ conn[c].pc = "open"
  /\ permits.stream = 0
  /\ Rejected(conn[c].remote, "stream", "RESOURCE_EXHAUSTED")
  /\ UNCHANGED <<serverVars, nonceVars>>

AcquireStream(s) ==
  LET r == stream[s].remote IN
  /\ stream[s].pc = "admitted"
  /\ IF permits.streams_per[r] > 0
     THEN /\ permits' = [permits EXCEPT !.streams_per[r] = @ - 1]
          /\ stream' = [stream EXCEPT ![s].pc = "reading"]
          /\ active' = [active EXCEPT !.stream = @ + 1]
          /\ UNCHANGED limiterVars
     ELSE /\ permits' = [permits EXCEPT !.stream = @ + 1]
          /\ stream' = [stream EXCEPT ![s] = FreeStream]
          /\ Rejected(r, "stream", "RESOURCE_EXHAUSTED")
          /\ UNCHANGED active
  /\ UNCHANGED <<clock, conn, accepted, nonceVars>>

-----------------------------------------------------------------------------
(* Requests                                                                 *)

Reply(s, code) == [stream EXCEPT ![s].pc = "reply", ![s].reply = code]

StreamStep == UNCHANGED <<clock, conn, permits, active, limiterVars>>

(* A frame that cannot be read, or not in time, is too long or is no JSON   *)
(* request; the codes differ, what follows does not.                        *)
ReadFails(s) ==
  /\ stream[s].pc = "reading"
  /\ stream' = Reply(s, "FrameReadFailed")
  /\ StreamStep /\ UNCHANGED <<accepted, nonceVars>>

(* The checks on fields, in the order of validate_and_dispatch_request.     *)
FieldChecks ==
  <<"InvalidVersion", "InvalidRequestId", "UnsupportedAuthScheme", "InvalidDeadline",
    "InvalidNonce", "InvalidTimestamp">>

(* validate_issued_at                                                       *)
AgeCheck(q) ==
  IF q.issued > clock + Skew THEN "ClockSkewExceeded"
  ELSE IF clock > q.issued + q.deadline THEN "RequestExpired"
  ELSE IF q.issued < clock - Skew THEN "ClockSkewExceeded"
  ELSE None

Validation(q) ==
  LET failed == {i \in DOMAIN FieldChecks : FieldChecks[i] \in q.flaws}
  IN  IF failed # {} THEN FieldChecks[Min(failed)] ELSE AgeCheck(q)

ReadRequest(s, q) ==
  /\ stream[s].pc = "reading"
  /\ stream' = IF Validation(q) = None
               THEN [stream EXCEPT ![s].pc = "valid", ![s].request = q]
               ELSE Reply(s, Validation(q))
  /\ StreamStep /\ UNCHANGED <<accepted, nonceVars>>

(* Fault: the nonce is forgotten when the deadline alone has passed.        *)
NonceTtlShort(q) == q.deadline

(* nonce_ttl                                                                *)
NonceTtl(q) == q.deadline + Skew

(* What an allowed method answers at its first poll.                        *)
Immediate(q) == IF q.method = Ocserv THEN {"Ok", "ProviderError"} ELSE {"Ok"}

(* dispatch_path_echo calls the target and waits.                           *)
StartPeerEcho(s) == [stream EXCEPT ![s].pc = "peer"]

(* The nonce is registered, the caller and the method are authorized, and   *)
(* the method runs until its first await: only the echo to a peer has one.  *)
RegisterNonce(s) ==
  LET q == stream[s].request
      r == stream[s].remote
      decision == NonceDecision(r, q.nonce, clock)
  IN  /\ stream[s].pc = "valid"
      /\ Register(r, q.nonce, NonceTtl(q), clock)
      /\ IF decision # "Accepted"
         THEN stream' = Reply(s, decision) /\ UNCHANGED accepted
         ELSE /\ accepted' = accepted \cup {<<r, q, clock>>}
              /\ IF Authorization(r, q) # "Allowed"
                 THEN stream' = Reply(s, Authorization(r, q))
                 ELSE IF q.method = PathEcho
                 THEN stream' = StartPeerEcho(s)
                 ELSE \E code \in Immediate(q) : stream' = Reply(s, code)
      /\ StreamStep

(* call_peer_echo_inner ended, with a pong or with an error.                *)
PeerAnswers(s) ==
  /\ stream[s].pc = "peer"
  /\ stream' = [stream EXCEPT ![s].pc = "peer_audit"]
  /\ StreamStep /\ UNCHANGED <<accepted, nonceVars>>

(* Fault: the result of the echo is used although its event was not written. *)
PeerAuditIgnored(s, written) ==
  /\ stream[s].pc = "peer_audit"
  /\ stream' = [Reply(s, "Ok") EXCEPT ![s].trail = IF written THEN @ \cup {"peer_echo"} ELSE @]
  /\ StreamStep /\ UNCHANGED <<accepted, nonceVars>>

(* The event of the outbound call is written before its result is used; a   *)
(* failed echo is a result too.                                             *)
PeerAudit(s, written) ==
  /\ stream[s].pc = "peer_audit"
  /\ stream' = IF written THEN [Reply(s, "Ok") EXCEPT ![s].trail = @ \cup {"peer_echo"}]
               ELSE Reply(s, "AuditWriteFailed")
  /\ StreamStep /\ UNCHANGED <<accepted, nonceVars>>

(* The timeout around dispatch_allowed_method drops the call where it is.   *)
DispatchTimeout(s) ==
  /\ stream[s].pc \in {"peer", "peer_audit"}
  /\ stream' = Reply(s, "RpcTimeout")
  /\ StreamStep /\ UNCHANGED <<accepted, nonceVars>>

(* audit_then_write_response: a response that is too long is replaced, the  *)
(* event gets the code of what will be sent, and a failed write of the      *)
(* event replaces the response.                                             *)
AuditReply(s, written, fits) ==
  /\ stream[s].pc = "reply"
  /\ LET code == IF fits THEN stream[s].reply ELSE "ResponseTooLarge"
     IN  stream' = [stream EXCEPT
                      ![s].pc = "writing",
                      ![s].reply = IF written THEN code ELSE "AuditWriteFailed",
                      ![s].trail = IF written THEN @ \cup {code} ELSE @]
  /\ StreamStep /\ UNCHANGED <<accepted, nonceVars>>

(* The response is written, or the write fails; the task ends either way.   *)
StreamEnds(s) ==
  /\ stream[s].pc = "writing"
  /\ stream' = [stream EXCEPT ![s] = FreeStream]
  /\ permits' = [permits EXCEPT !.stream = @ + 1, !.streams_per[stream[s].remote] = @ + 1]
  /\ active' = [active EXCEPT !.stream = @ - 1]
  /\ UNCHANGED <<clock, conn, accepted, nonceVars, limiterVars>>

ServerTick ==
  /\ clock < MaxClock
  /\ clock' = clock + 1
  /\ UNCHANGED <<conn, stream, permits, active, accepted, nonceVars, limiterVars>>

StreamNext(s) ==
  \/ AcquireStream(s)
  \/ ReadFails(s)
  \/ \E q \in Requests : ReadRequest(s, q)
  \/ RegisterNonce(s)
  \/ PeerAnswers(s)
  \/ \E written \in BOOLEAN : PeerAudit(s, written)
  \/ DispatchTimeout(s)
  \/ \E written, fits \in BOOLEAN : AuditReply(s, written, fits)
  \/ StreamEnds(s)

ConnNext(c) ==
  \/ Incoming(c) \/ HandshakeFails(c) \/ HandshakeTimeout(c)
  \/ \E r \in Remotes : HookRejects(c, r) \/ HandshakeDone(c, r)
  \/ AcquireController(c) \/ ConnectionClosed(c) \/ IdleTimeout(c)
  \/ \E s \in Streams : AcceptStream(c, s)
  \/ StreamRejected(c)

ServerNext ==
  \/ ServerTick
  \/ IncomingRejected
  \/ \E c \in Conns : ConnNext(c)
  \/ \E s \in Streams : StreamNext(s)

-----------------------------------------------------------------------------
ServerSpec == ServerInit /\ [][ServerNext]_agentVars

-----------------------------------------------------------------------------
ConnsAt(pcs) == {c \in Conns : conn[c].pc \in pcs}
Reading == {s \in Streams : stream[s].pc \notin {"free", "admitted"}}
Of(r, tasks, state) == {t \in tasks : state[t].remote = r}

(* Whatever way a handshake, connection or stream ends (timeout, refusal,   *)
(* one permit of two missing, failed audit or failed write) its permits are *)
(* back, and the gauges of the metrics show the tasks that hold them.       *)
PermitsConserved ==
  /\ permits.handshake + Cardinality(ConnsAt({"handshake"})) = MaxHandshakes
  /\ permits.connection + Cardinality(ConnsAt({"admitted", "open"})) = MaxConnections
  /\ permits.stream + Cardinality({s \in Streams : stream[s].pc # "free"}) = MaxStreams
  /\ \A r \in Remotes :
       /\ permits.connections_per[r] + Cardinality(Of(r, ConnsAt({"open"}), conn)) = MaxConnectionsPer
       /\ permits.streams_per[r] + Cardinality(Of(r, Reading, stream)) = MaxStreamsPer
  /\ active = [handshake |-> Cardinality(ConnsAt({"handshake"})),
               connection |-> Cardinality(ConnsAt({"open"})),
               stream |-> Cardinality(Reading)]

(* A request that arrives again from the same endpoint is not accepted a    *)
(* second time before its deadline, whatever the clock skew at its first    *)
(* arrival and whatever passes between its age check and its registration.  *)
AcceptedOnce ==
  \A a, b \in accepted :
    a[1] = b[1] /\ a[2] = b[2] /\ a[3] < b[3] => b[3] >= a[2].issued + a[2].deadline

(* What a caller gets was audited with the same code before, unless it is   *)
(* told that the audit failed; a path echo that reports a result has the    *)
(* event of the outbound call as well.                                      *)
ResponseAudited ==
  \A s \in Streams : stream[s].pc = "writing" =>
    LET code == stream[s].reply IN
    /\ code # "AuditWriteFailed" => code \in stream[s].trail
    /\ code = "Ok" /\ stream[s].request.method = PathEcho => "peer_echo" \in stream[s].trail

-----------------------------------------------------------------------------
(* The inductive invariant behind the four.                                 *)

Nonces == {q.nonce : q \in Requests}
ConnTask == [pc : {"free", "handshake", "admitted", "open"}, remote : Remotes \cup {None}]
ReplyCode ==
  {None, "FrameReadFailed", "InvalidVersion", "InvalidRequestId", "UnsupportedAuthScheme",
   "InvalidDeadline", "InvalidNonce", "InvalidTimestamp", "ClockSkewExceeded", "RequestExpired",
   "ReplayedNonce", "ResourceExhausted", "EndpointNotAllowed", "MethodNotAllowed",
   "MethodNotFound", "ParamsInvalid", "Ok", "ProviderError", "RpcTimeout", "ResponseTooLarge",
   "AuditWriteFailed"}
StreamTask ==
  [pc : {"free", "admitted", "reading", "valid", "peer", "peer_audit", "reply", "writing"},
   remote : Remotes \cup {None}, request : Requests \cup {NoRequest},
   reply : ReplyCode, trail : SUBSET (ReplyCode \cup {"peer_echo"})]

ServerTypeOK ==
  /\ clock \in Nat
  /\ conn \in [Conns -> ConnTask]
  /\ \A c \in Conns : conn[c].pc \in {"admitted", "open"} => conn[c].remote \in Remotes
  /\ stream \in [Streams -> StreamTask]
  /\ \A s \in Streams : stream[s].pc # "free" => stream[s].remote \in Remotes
  /\ permits \in [handshake : Nat, connection : Nat, connections_per : [Remotes -> Nat],
                  stream : Nat, streams_per : [Remotes -> Nat]]
  /\ active \in [handshake : Int, connection : Int, stream : Int]
  /\ accepted \subseteq Remotes \X Requests \X Nat
  /\ peers \subseteq [peer : Remotes, nonce : Nonces, expires_at : Nat]
  /\ IsFiniteSet(peers)
  /\ live_total \in Nat

(* A request that passed validation stays acceptable: it was not issued     *)
(* further ahead of the clock than the skew allows, and the clock goes on.  *)
RequestsChecked ==
  \A s \in Streams : stream[s].pc = "valid" =>
    stream[s].request \in Requests /\ stream[s].request.issued <= clock + Skew

(* A stream has no request before one was read, and an answer to a path     *)
(* echo that is Ok has the event of the outbound call.                      *)
EchoesTrailed ==
  \A s \in Streams :
    /\ stream[s].pc \in {"admitted", "reading"} => stream[s].request = NoRequest
    /\ stream[s].pc = "reply" /\ stream[s].reply = "Ok" /\ stream[s].request.method = PathEcho
         => "peer_echo" \in stream[s].trail

(* The nonce of an accepted request is live until the time it may expire,   *)
(* which is not before the deadline of the request.                         *)
NoncesLive ==
  \A a \in accepted :
    LET until == a[3] + NonceTtl(a[2]) IN
    /\ a[3] <= clock
    /\ a[2].issued <= a[3] + Skew
    /\ ExpiryEntry(a[1], a[2].nonce, until) \in peers \/ until <= clock

ServerInv ==
  /\ RequestsChecked /\ EchoesTrailed /\ NoncesLive
  /\ NonceBookkeeping /\ AcceptedOnce /\ ResponseAudited /\ PermitsConserved
=============================================================================
