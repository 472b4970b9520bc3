------------------------------ MODULE MCAgent -------------------------------
(***************************************************************************)
(* The agent on a small instance.  The audit writer, the server and the    *)
(* audit limiter share no variable but the limiter's, which the server     *)
(* also drives; a behaviour moves one of them, so that TLC explores the    *)
(* sum of their state spaces and not the product.  The limiter alone gets  *)
(* more rejections than fit beside the server.                             *)
(***************************************************************************)
EXTENDS AgentAudit, AgentServer, TLC

CONSTANTS
  ctl, peer, stranger, me,  \* endpoints
  n1, n2,                   \* nonces
  MaxLimited                \* bound: rejections when the limiter runs alone

VARIABLE part  \* the component that moves

Request(n, method, target, issued, deadline, flaws) ==
  [nonce |-> n, method |-> method, target |-> target,
   issued |-> issued, deadline |-> deadline, flaws |-> flaws]

(* One request stamped ahead of the agent's clock, one path echo, and one   *)
(* that fails two checks.                                                   *)
MCRequests ==
  {Request(n1, Ocserv, None, 1, 1, {}),
   Request(n2, PathEcho, peer, 0, 2, {}),
   Request(n1, Ping, None, 0, 1, {"InvalidDeadline", "InvalidNonce"})}

MCPathProbes == {<<ctl, peer>>}

LimiterKeys == {<<ctl, "stream">>, <<stranger, "connection">>, <<"unknown", "handshake">>}

LimiterStep ==
  \/ /\ events.seen < MaxLimited
     /\ \E key \in LimiterKeys : LimitedAudit(key, clock)
     /\ UNCHANGED <<serverVars, nonceVars>>
  \/ /\ clock < 2 * MaxClock
     /\ clock' = clock + 1
     /\ UNCHANGED <<conn, stream, permits, active, accepted, nonceVars, limiterVars>>
  \/ (* the bounds are reached *)
     /\ events.seen = MaxLimited
     /\ UNCHANGED agentVars

AgentInit ==
  /\ part \in {"audit", "server", "limiter"}
  /\ Init
  /\ ServerInit

AuditPart(A) == part = "audit" /\ A /\ UNCHANGED <<agentVars, part>>
ServerPart(A) == part = "server" /\ A /\ UNCHANGED <<vars, part>>

AgentNext ==
  \/ AuditPart(Next)
  \/ ServerPart(ServerNext)
  \/ part = "limiter" /\ LimiterStep /\ UNCHANGED <<vars, part>>

(* The fairness is that of AgentAudit.                                      *)
AgentSpec ==
  /\ AgentInit
  /\ [][AgentNext]_<<vars, agentVars, part>>
  /\ WF_<<vars, agentVars, part>>(AuditPart(WriterStep))
  /\ \A f \in {"primary", "spool"} : WF_<<vars, agentVars, part>>(AuditPart(FileRecovers(f)))
=============================================================================
