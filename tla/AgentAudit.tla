----------------------------- MODULE AgentAudit -----------------------------
(***************************************************************************)
(* The audit writer of the agent (audit.rs) and the rule of the RPC server *)
(* that a response is sent only after its audit event is written           *)
(* (server.rs, audit_then_write_response).                                 *)
(*                                                                         *)
(* Request handlers hand their event to a bounded queue and wait.  One     *)
(* writer thread takes the events, first replays the spool into the        *)
(* primary log, then appends the event to the log or, when that fails, to  *)
(* the spool, and acknowledges.  The steps of the writer are separate      *)
(* actions, so that the process can stop between any two file operations.  *)
(*                                                                         *)
(* Both files hold one JSON document per line.  A file is its readable     *)
(* lines and its tail: what stands after the last newline.  An append that *)
(* is cut short leaves a tail, and the next append continues that line,    *)
(* which then parses as neither document.                                  *)
(***************************************************************************)
EXTENDS Integers, Sequences, FiniteSets, Functions

CONSTANTS
  Events,        \* audit events, one per request
  QueueCapacity, \* DEFAULT_AUDIT_QUEUE_CAPACITY
  SpoolMax,      \* spool_max_events
  MaxFaults,     \* bound: crashes, and times a file becomes unavailable
  MaxTears       \* bound: appends that are cut short

ASSUME AuditAssumption ==
  /\ {QueueCapacity, SpoolMax} \subseteq Nat \ {0}
  /\ {MaxFaults, MaxTears} \subseteq Nat

VARIABLES
  primary,   \* the audit log
  spool,     \* the spool file
  request,   \* what each request handler has got
  queue,     \* the channel to the writer thread
  writer,    \* the writer thread
  down,      \* files that reject operations at present
  faults,    \* crashes and outages so far
  tears      \* torn appends so far

vars == <<primary, spool, request, queue, writer, down, faults, tears>>

Clean == "clean"  \* the file ends with a newline
Torn  == "torn"   \* the file ends in the middle of a document

ASSUME EventAssumption == Events \cap {Clean, Torn} = {}

(* A file is its lines and its tail, which may also be a whole document     *)
(* whose newline was not written.                                           *)
EmptyFile == [lines |-> <<>>, tail |-> Clean]

Idle == [pc |-> "idle", event |-> Clean, records |-> <<>>]

Init ==
  /\ primary = EmptyFile
  /\ spool = EmptyFile
  /\ request = [e \in Events |-> "new"]
  /\ queue = <<>>
  /\ writer = Idle
  /\ down = {}
  /\ faults = 0
  /\ tears = 0

-----------------------------------------------------------------------------
(* Files.                                                                   *)

(* The documents a reader finds, in order; other lines are skipped.         *)
Readable(file) == file.lines \o (IF file.tail \in Events THEN <<file.tail>> ELSE <<>>)

AlwaysContained(e) == TRUE  \* Fault: every record counts as replayed

contains_event_id(e) == e \in Range(Readable(primary))

(* An append that succeeds ends the line it continues.                      *)
Appended(file, e) ==
  [lines |-> IF file.tail = Clean THEN Append(file.lines, e) ELSE file.lines, tail |-> Clean]

(* An append that is cut short leaves part of the document, or all of it    *)
(* without the newline, on the line it continues.                           *)
CutShort(file, e) == {[file EXCEPT !.tail = Torn]} \cup
                     (IF file.tail = Clean THEN {[file EXCEPT !.tail = e]} ELSE {})

-----------------------------------------------------------------------------
(* Request handlers.                                                        *)

(* try_send: a full queue is an error and the response says so.             *)
Enqueue(e) ==
  /\ request[e] = "new"
  /\ IF Len(queue) < QueueCapacity
       THEN /\ queue' = Append(queue, e)
            /\ request' = [request EXCEPT ![e] = "waiting"]
       ELSE /\ request' = [request EXCEPT ![e] = "failed"]
            /\ UNCHANGED queue
  /\ UNCHANGED <<primary, spool, writer, down, faults, tears>>

-----------------------------------------------------------------------------
(* The writer thread.                                                       *)

Goto(pc) == writer' = [writer EXCEPT !.pc = pc]

(* A received command begins with a flush of the spool whose result is      *)
(* ignored; so does the wake-up after five seconds without one.             *)
Receive ==
  /\ writer.pc = "idle"
  /\ queue # <<>>
  /\ writer' = [Idle EXCEPT !.pc = "read", !.event = Head(queue)]
  /\ queue' = Tail(queue)
  /\ UNCHANGED <<primary, spool, request, down, faults, tears>>

WakeUp ==
  /\ writer.pc = "idle"
  /\ queue = <<>>
  /\ writer' = [Idle EXCEPT !.pc = "read"]
  /\ UNCHANGED <<primary, spool, request, queue, down, faults, tears>>

(* Where the flush returns to: the event in hand, or waiting.               *)
AfterFlush == IF writer.event = Clean THEN Idle ELSE [writer EXCEPT !.pc = "append", !.records = <<>>]

read_spool_records ==
  /\ writer.pc = "read"
  /\ writer' = IF "spool" \in down \/ Readable(spool) = <<>> THEN AfterFlush
               ELSE [writer EXCEPT !.pc = "replay", !.records = Readable(spool)]
  /\ UNCHANGED <<primary, spool, request, queue, down, faults, tears>>

(* The loop ends early: the record at the head and those after it remain.   *)
StopDropsRecord == writer' = [writer EXCEPT !.pc = "rewrite", !.records = Tail(@)]  \* Fault: index + 1

StopReplay == Goto("rewrite")

(* One record: skipped when its event is in the log already, appended       *)
(* otherwise.  The first failure ends the loop.                             *)
ReplayRecord ==
  LET e == Head(writer.records) IN
  /\ writer.pc = "replay"
  /\ writer.records # <<>>
  /\ \/ /\ "primary" \in down
        /\ StopReplay
        /\ UNCHANGED <<primary, tears>>
     \/ /\ "primary" \notin down
        /\ writer' = [writer EXCEPT !.records = Tail(@)]
        /\ primary' = IF contains_event_id(e) THEN primary ELSE Appended(primary, e)
        /\ UNCHANGED tears
     \/ /\ "primary" \notin down /\ ~contains_event_id(e)
        /\ tears < MaxTears
        /\ tears' = tears + 1
        /\ primary' \in CutShort(primary, e)
        /\ StopReplay
  /\ UNCHANGED <<spool, request, queue, down, faults>>

ReplayDone ==
  /\ writer.pc = "replay"
  /\ writer.records = <<>>
  /\ Goto("rewrite")
  /\ UNCHANGED <<primary, spool, request, queue, down, faults, tears>>

(* The spool is replaced by rename: all or nothing.                         *)
rewrite_spool ==
  /\ writer.pc = "rewrite"
  /\ spool' = IF "spool" \in down THEN spool ELSE [lines |-> writer.records, tail |-> Clean]
  /\ writer' = AfterFlush
  /\ UNCHANGED <<primary, request, queue, down, faults, tears>>

(* The event goes to the log; on any error to the spool.                    *)
write_event ==
  /\ writer.pc = "append"
  /\ \/ /\ "primary" \notin down
        /\ primary' = Appended(primary, writer.event)
        /\ Goto("written")
        /\ UNCHANGED tears
     \/ /\ "primary" \in down
        /\ Goto("spool")
        /\ UNCHANGED <<primary, tears>>
     \/ /\ "primary" \notin down
        /\ tears < MaxTears
        /\ tears' = tears + 1
        /\ primary' \in CutShort(primary, writer.event)
        /\ Goto("spool")
  /\ UNCHANGED <<spool, request, queue, down, faults>>

SpoolFull == Len(Readable(spool)) >= SpoolMax

enqueue_spool ==
  /\ writer.pc = "spool"
  /\ \/ /\ "spool" \in down \/ SpoolFull
        /\ Goto("refused")
        /\ UNCHANGED <<spool, tears>>
     \/ /\ "spool" \notin down /\ ~SpoolFull
        /\ spool' = Appended(spool, writer.event)
        /\ Goto("written")
        /\ UNCHANGED tears
     \/ /\ "spool" \notin down /\ ~SpoolFull
        /\ tears < MaxTears
        /\ tears' = tears + 1
        /\ spool' \in CutShort(spool, writer.event)
        /\ Goto("refused")
  /\ UNCHANGED <<primary, request, queue, down, faults>>

(* The acknowledgement decides the response: the computed one, or           *)
(* AUDIT_WRITE_FAILED.                                                      *)
Acknowledge ==
  /\ writer.pc \in {"written", "refused"}
  /\ request' = [request EXCEPT ![writer.event] =
                   IF writer.pc = "written" THEN "answered" ELSE "failed"]
  /\ writer' = Idle
  /\ UNCHANGED <<primary, spool, queue, down, faults, tears>>

-----------------------------------------------------------------------------
(* The environment.                                                         *)

(* The process stops: queue and writer are gone, waiting handlers with      *)
(* them; the files stay.                                                    *)
Crash ==
  /\ faults < MaxFaults
  /\ faults' = faults + 1
  /\ queue' = <<>>
  /\ writer' = Idle
  /\ request' = [e \in Events |-> IF request[e] = "waiting" THEN "lost" ELSE request[e]]
  /\ UNCHANGED <<primary, spool, down, tears>>

FileFails(f) ==
  /\ f \notin down
  /\ faults < MaxFaults
  /\ faults' = faults + 1
  /\ down' = down \cup {f}
  /\ UNCHANGED <<primary, spool, request, queue, writer, tears>>

FileRecovers(f) ==
  /\ f \in down
  /\ down' = down \ {f}
  /\ UNCHANGED <<primary, spool, request, queue, writer, faults, tears>>

WriterStep ==
  \/ Receive
  \/ WakeUp
  \/ read_spool_records
  \/ ReplayRecord
  \/ ReplayDone
  \/ rewrite_spool
  \/ write_event
  \/ enqueue_spool
  \/ Acknowledge

Next ==
  \/ \E e \in Events : Enqueue(e)
  \/ WriterStep
  \/ Crash
  \/ \E f \in {"primary", "spool"} : FileFails(f) \/ FileRecovers(f)

Spec == Init /\ [][Next]_vars

(* The writer thread keeps running, or is started again with the process,   *)
(* and an outage ends.                                                      *)
Fairness ==
  /\ WF_vars(WriterStep)
  /\ \A f \in {"primary", "spool"} : WF_vars(FileRecovers(f))

FairSpec == Spec /\ Fairness

-----------------------------------------------------------------------------
(* Properties.                                                              *)

(* Events of requests that were given their response and that can be read   *)
(* neither in the log nor in the spool.                                     *)
Unaudited ==
  {e \in Events : /\ request[e] = "answered"
                  /\ e \notin Range(Readable(primary)) \cup Range(Readable(spool))}

(* "No unaudited success" (a8-migration-failure-inventory.md): the event of *)
(* a request that was given its response can be read, from then on.         *)
NoUnauditedSuccess == Unaudited = {}

(* What holds of it: outages and crashes between file operations lose no    *)
(* event that audit_then_write_response took for written, and an append     *)
(* that is cut short costs at most two of them, its own, which the spool    *)
(* gave up because the log seemed to have it, and the one that follows it;  *)
(* the spool that keeps them never exceeds its limit.  And replay is        *)
(* idempotent: no event stands in the log twice, although the process may   *)
(* stop, and the rewriting of the spool may fail, after records were        *)
(* replayed and before they left the spool.                                 *)
LoggedOnce ==
  /\ Cardinality(Unaudited) <= 2 * tears
  /\ Len(Readable(spool)) <= SpoolMax
  /\ \A i, k \in DOMAIN primary.lines : primary.lines[i] = primary.lines[k] => i = k

(* Replay is automatic: an event in the spool comes to the log once the log *)
(* can be written, without any further request, unless an append was cut    *)
(* short.                                                                   *)
SpoolReplayed ==
  \A e \in Events :
    e \in Range(Readable(spool)) ~> (e \in Range(Readable(primary)) \/ tears > 0)

-----------------------------------------------------------------------------
(* The inductive invariant behind LoggedOnce.                               *)

AuditFile == [lines : Seq(Events), tail : Events \cup {Clean, Torn}]

WriterState ==
  [pc : {"idle", "read", "replay", "rewrite", "append", "spool", "written", "refused"},
   event : Events \cup {Clean}, records : Seq(Events)]

AuditTypeOK ==
  /\ primary \in AuditFile /\ spool \in AuditFile
  /\ request \in [Events -> {"new", "waiting", "answered", "failed", "lost"}]
  /\ queue \in Seq(Events)
  /\ writer \in WriterState
  /\ writer.pc = "idle" => writer.event = Clean
  /\ writer.pc \in {"append", "spool", "written", "refused"} => writer.event \in Events
  /\ tears \in Nat

Touched == Range(primary.lines) \cup {primary.tail} \cup Range(spool.lines) \cup {spool.tail}

NoneTwice(s) == \A i, k \in DOMAIN s : s[i] = s[k] => i = k

(* Before write_event.                                                      *)
Unwritten(pc) == pc \in {"read", "replay", "rewrite", "append"}

(* An event comes to the writer once, and to no file before.                *)
TakenOnce ==
  /\ \A e \in Events : request[e] = "new" => e \notin Touched \cup Range(queue) \cup {writer.event}
  /\ \A e \in Range(queue) : e \notin Touched \cup {writer.event}
  /\ NoneTwice(queue)
  /\ Unwritten(writer.pc) => writer.event = Clean \/ writer.event \notin Touched

(* What the writer still has to replay is in the spool.                     *)
Replaying == writer.pc \in {"replay", "rewrite"}

RecordsSpooled ==
  Replaying => /\ Range(writer.records) \subseteq Range(Readable(spool))
               /\ Len(writer.records) <= Len(Readable(spool))

(* What the spool will hold when the flush under way is over.               *)
Kept == IF Replaying THEN Range(writer.records) ELSE Range(Readable(spool))

(* The event of a response that was given, or is about to be, and that      *)
(* stands neither on a line of the log nor among what the spool keeps, nor  *)
(* is it the whole document that ends the log.                              *)
Answered(e) == request[e] = "answered" \/ (writer.pc = "written" /\ writer.event = e)

Exposed ==
  {e \in Events : Answered(e) /\ e \notin Range(primary.lines) \cup Kept \cup {primary.tail}}

(* A tail left by an append that was cut short costs two events yet.        *)
TailCost(file) == IF file.tail = Clean THEN 0 ELSE 2

LossesCharged ==
  /\ IsFiniteSet(Exposed)
  /\ Cardinality(Exposed) + TailCost(primary) + TailCost(spool) <= 2 * tears

AuditInv ==
  /\ AuditTypeOK /\ TakenOnce /\ RecordsSpooled /\ LossesCharged
  /\ Len(Readable(spool)) <= SpoolMax /\ NoneTwice(primary.lines)
=============================================================================
