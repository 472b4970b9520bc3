----------------------------- MODULE MCProgress -----------------------------
(***************************************************************************)
(* What must eventually happen, on small instances: the deliveries of a    *)
(* queue with an alert worker, and the jobs of a tick with two targets     *)
(* that share one permit and a kind with two methods.  The two share no    *)
(* variable; a behaviour moves one of them, under its own fairness.        *)
(***************************************************************************)
EXTENDS MCAlertDelivery, MCSchedulerTasks

VARIABLE part  \* the component that moves

progressVars == <<vars, taskVars, part>>

AlertPart(A) == part = "alerts" /\ A /\ UNCHANGED <<taskVars, part>>
TaskPart(A) == part = "tasks" /\ A /\ UNCHANGED <<vars, part>>

ProgressInit == part \in {"alerts", "tasks"} /\ Init /\ TasksInit

ProgressNext == AlertPart(Next) \/ TaskPart(TasksNext)

(* The fairness of AlertDelivery.                                           *)
AlertFairness ==
  /\ \A w \in Workers : WF_progressVars(AlertPart(WorkerStep(w)))
  /\ WF_progressVars(AlertPart(\E i \in DOMAIN queue : LeaseEnds(i) /\ ~Holds(queue[i].owner, i)))
  /\ WF_progressVars(AlertPart(\E i \in DOMAIN queue : ComesDue(i)))

(* The fairness of SchedulerTasks.                                          *)
TaskFairness ==
  /\ \A t \in Tasks :
       /\ SF_progressVars(TaskPart(AcquireNode(t)))
       /\ SF_progressVars(TaskPart(AcquireMethod(t)))
       /\ SF_progressVars(TaskPart(AcquireGlobal(t)))
       /\ WF_progressVars(TaskPart(Answered(t) \/ TimedOut(t)))
       /\ WF_progressVars(TaskPart(Backoff(t)))
       /\ WF_progressVars(TaskPart(WriteOutcome(t)))
  /\ WF_progressVars(TaskPart(JoinAll)) /\ WF_progressVars(TaskPart(EndJob))

ProgressSpec ==
  ProgressInit /\ [][ProgressNext]_progressVars /\ AlertFairness /\ TaskFairness
=============================================================================
