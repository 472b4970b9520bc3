------------------------------ MODULE Dispatch ------------------------------
(***************************************************************************)
(* How the controller calls an agent while the trust registry changes      *)
(* (crates/ocfleet-cli/src/controller_rpc.rs, the RPC commands of main.rs, *)
(* and the target resolution and task execution of scheduler.rs).          *)
(*                                                                         *)
(* A call reads the node's row, then its maintenance window and trust, and *)
(* only later, after it waited for permits or for an earlier method, sends *)
(* its requests.  Every read is a transaction of its own, so the registry  *)
(* may change between any two.  What a call still has to do is the         *)
(* sequence "todo" of the steps below; the registry is TrustRegistry.      *)
(***************************************************************************)
EXTENDS TrustRegistry

CONSTANTS
  Callers,        \* commands and scheduler tasks that run at once
  Bundle,         \* methods of one ocserv status bundle
  RetryLimit      \* SCHEDULER_RPC_MAX_ATTEMPTS

VARIABLES
  maintained,  \* nodes whose maintenance window covers the clock
  call,        \* caller -> its call, or Idle
  late,        \* caller -> requests sent in a row to a binding that was withdrawn
  report,      \* caller -> what its last call left in the store
  capability   \* node -> endpoint of its row in node_capability_snapshots, or None

dispatchVars ==
  <<nodes, trust, tokens, joins, audit, maintained, call, late, report, capability>>

Results == {"ok", "path_failed", "unsupported", "transient", "failed", "refused"}
Sides == {"source", "target"}
IsPath(kind) == kind \in {"path", "job_path"}
IsJob(kind) == kind \in {"job_node", "job_status", "job_path"}

Idle == [kind |-> "idle"]
Report(segment_failed, ok) == [segment_failed |-> segment_failed, ok |-> ok]
NoReport == Report(FALSE, FALSE)

----------------------------------------------------------------------------
(* The steps of a call.  A step names what it does and for which side.     *)

Step(op, side) == [op |-> op, side |-> side]

\* load_fixed_rpc_node and load_ocserv_rpc_node: no command looks at the
\* maintenance window.
Loads(side) == <<Step("row", side), Step("usable", side), Step("trust", side)>>

\* run_path_probe_command: the target is read once the source has passed.
PathPreflight == Loads("source") \o Loads("target")

\* resolve_node_targets drops nodes in maintenance, load_scheduler_task_node
\* reads what is left.
JobPreflight == <<Step("window", "source")>> \o Loads("source")

\* run_path_probe_job reads both rows before it checks either.
JobPathPreflight ==
  <<Step("row", "source"), Step("row", "target"),
    Step("usable", "source"), Step("window", "source"), Step("trust", "source"),
    Step("usable", "target"), Step("window", "target"), Step("trust", "target")>>

Preflight(kind) ==
  CASE kind \in {"node", "capabilities", "status"} -> Loads("source")
    [] kind = "path" -> PathPreflight
    [] kind \in {"job_node", "job_status"} -> JobPreflight
    [] kind = "job_path" -> JobPathPreflight

Methods(kind) == IF kind \in {"status", "job_status"} THEN Bundle ELSE 1

\* Fault: trust is looked at once for a call, not before every method.
MethodStepsGatedOnce(kind, first) ==
  (IF first THEN <<Step("gate", "source")>> ELSE <<>>)
    \o (IF first /\ IsPath(kind) THEN <<Step("gate", "target")>> ELSE <<>>)
    \o <<Step("send", "source")>>

\* execute_fixed_node_rpc and execute_fixed_node_rpc_from_database: both ends
\* of a path are gated, the source first, then the request is sent.
MethodSteps(kind, first) ==
  <<Step("gate", "source")>>
    \o (IF IsPath(kind) THEN <<Step("gate", "target")>> ELSE <<>>)
    \o <<Step("send", "source")>>

----------------------------------------------------------------------------
(* A call under way.                                                       *)

NodeOn(c, side) == c.ends[side]
EndpointOn(c, side) == c.rows[side].endpoint_id

\* endpoint_trust_rejection for the row the call loaded.
Trusted(c, side) == Dispatchable(NodeOn(c, side), EndpointOn(c, side))

Begin(w, kind, n, m) ==
  /\ call[w] = Idle
  /\ call' = [call EXCEPT ![w] =
       [kind |-> kind, ends |-> [source |-> n, target |-> m],
        rows |-> [s \in Sides |-> None],
        todo |-> Preflight(kind) \o MethodSteps(kind, TRUE),
        attempt |-> 1, results |-> <<>>]]
  /\ late' = [late EXCEPT ![w] = [s \in Sides |-> 0]]
  /\ report' = [report EXCEPT ![w] = NoReport]
  /\ UNCHANGED <<nodes, trust, tokens, joins, audit, maintained, capability>>

\* What starts a call: `ocfleet node rpc` (one of whose methods asks for the
\* capabilities), `ocserv status`, `ocserv cert`, `ocserv sessions`, a path probe,
\* and the tasks of jobs of every kind.
RunNodeRpcCommand(w, n, m) == \E kind \in {"node", "capabilities"} : Begin(w, kind, n, m)
RunOcservStatusCommand(w, n, m) == Begin(w, "status", n, m)
RunOcservCertCommand(w, n, m) == Begin(w, "node", n, m)
RunOcservSessionsSummaryCommand(w, n, m) == Begin(w, "node", n, m)
RunPathProbeCommand(w, n, m) == Begin(w, "path", n, m)
RunJobTask(w, n, m) == \E kind \in {"job_node", "job_status", "job_path"} : Begin(w, kind, n, m)

Doing(w, op) == call[w] # Idle /\ Head(call[w].todo).op = op
Side(w) == Head(call[w].todo).side
Advance(w) == call' = [call EXCEPT ![w].todo = Tail(@)]
RegistryUnchanged == UNCHANGED <<nodes, trust, tokens, joins, audit, maintained>>

\* get_node
LoadRow(w) ==
  /\ Doing(w, "row")
  /\ call' = [call EXCEPT ![w].todo = Tail(@),
                          ![w].rows[Side(w)] = nodes[NodeOn(call[w], Side(w))]]
  /\ RegistryUnchanged /\ UNCHANGED <<late, report, capability>>

Passes(w) ==
  LET c == call[w]
      s == Side(w)
  IN CASE Head(c.todo).op = "usable" -> c.rows[s] # None /\ c.rows[s].enabled
       [] Head(c.todo).op = "window" -> NodeOn(c, s) \notin maintained
       [] Head(c.todo).op \in {"trust", "gate"} -> Trusted(c, s)

\* The preflight refuses: no request is sent, and every method the call would
\* have made is reported as refused.
Preflighted(w) ==
  /\ Doing(w, "usable") \/ Doing(w, "window") \/ Doing(w, "trust")
  /\ IF Passes(w) THEN Advance(w) /\ UNCHANGED report
     ELSE /\ report' = [report EXCEPT ![w] = NoReport]
          /\ call' = [call EXCEPT ![w] = Idle]
  /\ RegistryUnchanged /\ UNCHANGED <<late, capability>>

----------------------------------------------------------------------------
(* Methods, retries and what is stored.                                    *)

\* The ok flag that the command's audit row, or the outcome of the job's task,
\* is stored with.  A status command is ok unless all its methods failed, a
\* status job if none did.
StatusOk(results) == \E i \in DOMAIN results : results[i] = "ok"
JobStatusOk(results) == \A i \in DOMAIN results : results[i] = "ok"

\* run_path_probe_command looks at the "ok" inside the path result,
\* execute_scheduler_path_probe takes any answer for a success.
PathOk(result) == result = "ok"
JobPathOk(result) == result \in {"ok", "path_failed"}

ObservedOk(kind, results) ==
  CASE kind = "status" -> StatusOk(results)
    [] kind = "job_status" -> JobStatusOk(results)
    [] kind = "job_path" -> JobPathOk(results[1])
    [] kind = "path" -> PathOk(results[1])
    [] OTHER -> results[1] = "ok"

\* scheduler_task_outcome_is_retryable
RetryDue(c, results) ==
  /\ IsJob(c.kind) /\ c.attempt < RetryLimit
  /\ \A i \in DOMAIN results : results[i] = "transient"

\* Fault: any snapshot of a registered node is stored.
CapabilityCurrentById(n, e) == nodes[n] # None

\* upsert_node_capability_snapshot_with_audit, which stores the snapshot and the
\* audit row together, if the node still points at the endpoint that answered.
CapabilityCurrent(n, e) == nodes[n] # None /\ nodes[n].endpoint_id = e

\* An answer, or a failure that says what the agent cannot do, is a snapshot.
WritesCapability(c, result) ==
  IF c.kind = "capabilities" /\ result \in {"ok", "unsupported"}
     /\ CapabilityCurrent(NodeOn(c, "source"), EndpointOn(c, "source"))
  THEN capability' = [capability EXCEPT ![NodeOn(c, "source")] = EndpointOn(c, "source")]
  ELSE UNCHANGED capability

\* The next method of a bundle, or of another attempt, is gated anew.
NextMethod(w, results, attempt) ==
  /\ call' = [call EXCEPT ![w].results = results, ![w].attempt = attempt,
                          ![w].todo = MethodSteps(call[w].kind, FALSE)]
  /\ UNCHANGED <<report, capability>>

\* What the call leaves in the store.
CallEnds(w, results) ==
  LET kind == call[w].kind
  IN /\ WritesCapability(call[w], results[Len(results)])
     /\ call' = [call EXCEPT ![w] = Idle]
     /\ report' = [report EXCEPT ![w] =
          Report(\E i \in DOMAIN results : results[i] = "path_failed", ObservedOk(kind, results))]

\* One method is over: the next one of the bundle, another attempt of a job,
\* or the end of the call.
MethodEnds(w, result) ==
  LET c == call[w]
      results == Append(c.results, result)
  IN IF Len(results) < Methods(c.kind) THEN NextMethod(w, results, c.attempt)
     ELSE IF RetryDue(c, results) THEN NextMethod(w, <<>>, c.attempt + 1)
     ELSE CallEnds(w, results)

\* ensure_fixed_rpc_trust for one end, on a read of its own.
Gate(w) ==
  /\ Doing(w, "gate")
  /\ IF Passes(w) THEN Advance(w) /\ UNCHANGED <<report, capability>> ELSE MethodEnds(w, "refused")
  /\ RegistryUnchanged /\ UNCHANGED late

\* The results of a request: validate_rpc_response turns an answer that does not
\* match it into a failure, and validate_path_echo_result lets through a path
\* result that carries the failure of its target segment.
Answers(kind) ==
  {"ok", "transient", "failed"}
    \cup (IF IsPath(kind) THEN {"path_failed"} ELSE {})
    \cup (IF kind = "capabilities" THEN {"unsupported"} ELSE {})

\* execute_node_rpc_raw: key, endpoint, connection, request and the checks of
\* the answer.
SendRequest(w, result) ==
  /\ Doing(w, "send")
  /\ result \in Answers(call[w].kind)
  /\ MethodEnds(w, result)
  /\ late' = [late EXCEPT ![w] = [s \in Sides |->
       IF (s = "target" /\ ~IsPath(call[w].kind)) \/ Trusted(call[w], s) THEN 0 ELSE @[s] + 1]]
  /\ RegistryUnchanged

----------------------------------------------------------------------------

\* A window opens, closes, or the clock enters or leaves it.
MaintenanceChanges(n) ==
  /\ maintained' = IF n \in maintained THEN maintained \ {n} ELSE maintained \cup {n}
  /\ UNCHANGED <<nodes, trust, tokens, joins, audit, call, late, report, capability>>

\* Whatever the operator does to the registry.  A binding that is dispatchable
\* again starts a new count of late requests; a snapshot goes with its node
\* (ON DELETE CASCADE).
RegistryChanges ==
  /\ Next
  /\ capability' = [n \in NodeIds |-> IF nodes'[n] = None THEN None ELSE capability[n]]
  /\ UNCHANGED <<maintained, call, report>>
  /\ late' = [w \in Callers |-> [s \in Sides |->
       IF call[w] # Idle /\ call[w].rows[s] # None /\ Trusted(call[w], s)' THEN 0 ELSE late[w][s]]]

DispatchInit ==
  /\ Init
  /\ maintained = {}
  /\ call = [w \in Callers |-> Idle]
  /\ late = [w \in Callers |-> [s \in Sides |-> 0]]
  /\ report = [w \in Callers |-> NoReport]
  /\ capability = [n \in NodeIds |-> None]

CallStep(w) ==
  \/ \E n, m \in NodeIds :
       /\ n # m
       /\ \/ RunNodeRpcCommand(w, n, m) \/ RunOcservStatusCommand(w, n, m)
          \/ RunOcservCertCommand(w, n, m) \/ RunOcservSessionsSummaryCommand(w, n, m)
          \/ RunPathProbeCommand(w, n, m) \/ RunJobTask(w, n, m)
  \/ LoadRow(w) \/ Preflighted(w) \/ Gate(w)
  \/ \E result \in Results \ {"refused"} : SendRequest(w, result)

DispatchNext ==
  \/ \E w \in Callers : CallStep(w)
  \/ \E n \in NodeIds : MaintenanceChanges(n)
  \/ RegistryChanges

DispatchSpec == DispatchInit /\ [][DispatchNext]_dispatchVars

----------------------------------------------------------------------------
(* Properties.                                                             *)

\* Once an operator disables, removes, rotates, quarantines or revokes, each
\* call under way sends at most the one request that had passed its gate: a
\* later method of a bundle and a retry look again, at both ends of a path.
\* README.md:434 "Scheduler workers recheck source and path-target trust after
\* concurrency waits".
WithdrawalStopsCalls == \A w \in Callers, s \in Sides : late[w][s] <= 1

\* The capabilities on record for a node are those of the agent it is bound to,
\* or of one it was rotated from: not of an agent the node's name stood for
\* before it was removed and registered again while the call was under way.
CapabilityOfBinding ==
  \A n \in NodeIds : capability[n] # None =>
    /\ nodes[n] # None
    /\ \/ nodes[n].endpoint_id = capability[n]
       \/ /\ trust[capability[n]] # None
          /\ trust[capability[n]].status = "rotated" /\ trust[capability[n]].node_id = n

\* docs/phase-12-scheduled-observability.md:244: the summary of a path echo
\* stores "ok/error code, and target segment status", so a probe whose target
\* segment failed is not stored as a success.
PathResultStored ==
  \A w \in Callers : report[w].segment_failed => ~report[w].ok

----------------------------------------------------------------------------
(* What WithdrawalStopsCalls rests on, in every reachable state.           *)

StepRow ==
  [op : {"row", "usable", "window", "trust", "gate", "send"}, side : Sides]

CallRow ==
  [kind : {"node", "capabilities", "status", "path", "job_node", "job_status", "job_path"},
   ends : [source : NodeIds, target : NodeIds],
   rows : [Sides -> NodeRow \cup {None}],
   todo : Seq(StepRow),
   attempt : Nat,
   results : Seq(Results)]

\* Every call is a well-formed call, and its counts are numbers.
DispatchTypeOK ==
  /\ maintained \in SUBSET NodeIds
  /\ call \in [Callers -> CallRow \cup {Idle}]
  /\ late \in [Callers -> [Sides -> Nat]]
  /\ report \in [Callers -> [segment_failed : BOOLEAN, ok : BOOLEAN]]
  /\ capability \in [NodeIds -> EndpointIds \cup {None}]

\* A request is the last of the steps ahead, a gate has only gates and the request
\* after it, and a row that is still to be read is checked after it was.
StepsOrdered(todo) ==
  /\ Len(todo) > 0
  /\ \A i \in DOMAIN todo : todo[i].op = "send" <=> i = Len(todo)
  /\ \A i, k \in DOMAIN todo : todo[i].op = "gate" /\ k > i => todo[k].op \in {"gate", "send"}
  /\ \A i \in DOMAIN todo : todo[i].op = "row" =>
       \E k \in DOMAIN todo : k > i /\ todo[k] = Step("usable", todo[i].side)

\* The ends of a call: a target only if it is a path probe.
HasEnd(c, s) == s = "source" \/ IsPath(c.kind)

\* An end whose check is behind the call was found in the registry.
RowsLoaded(c) ==
  \A s \in Sides : HasEnd(c, s) =>
    c.rows[s] # None \/ \E i \in DOMAIN c.todo : c.todo[i] = Step("usable", s)

CallsPlanned ==
  \A w \in Callers : call[w] # Idle => StepsOrdered(call[w].todo) /\ RowsLoaded(call[w])

\* A call that sent a request late is at an end that is still withdrawn, and has
\* the gate of that end ahead of it, with no row to read again before.
HeldBack(c, s) ==
  /\ HasEnd(c, s) /\ c.rows[s] # None /\ ~Trusted(c, s)
  /\ \A i \in DOMAIN c.todo : c.todo[i].op \in {"gate", "send"}
  /\ \E i \in DOMAIN c.todo : c.todo[i] = Step("gate", s)

LateHeldBack ==
  \A w \in Callers, s \in Sides : call[w] # Idle /\ late[w][s] # 0 => HeldBack(call[w], s)

DispatchInv == CallsPlanned /\ LateHeldBack /\ WithdrawalStopsCalls
=============================================================================
