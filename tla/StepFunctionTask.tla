-------------------------- MODULE StepFunctionTask --------------------------
(***************************************************************************)
(* packages/task: how ONE task runs and how its row comes to tell so.      *)
(*                                                                         *)
(* The insert of the row makes TaskEventHandler publish task-execute and   *)
(* then write QUEUED.  The queue delivers task-execute at least once to    *)
(* TaskQueueEventHandler, which runs a plain task itself, or puts one row  *)
(* per sub-task and starts a Step Functions Map over them.  Those inserts  *)
(* too make TaskEventHandler run.  Each branch of the Map                  *)
(* (TaskSfnEventHandler) writes the status of its sub-task and publishes   *)
(* sub-task-status; on each of these SubTaskQueueEventHandler reads all    *)
(* the sub-tasks and writes what it counted into the row of the parent.    *)
(***************************************************************************)
EXTENDS Integers, FiniteSets

CONSTANTS
  Subs,            (* the elements of the input array of a SFN_TASK         *)
  Parent,          (* the task itself                                       *)
  MaxDeliveries,   (* bound: how often task-execute is delivered            *)
  MaxConcurrency,  (* maxConcurrency of the Map state                       *)
  Aggregators,     (* the Lambdas that serve sub-task-status at a time      *)
  Faults           (* a subset of AllFaults                                 *)

AllFaults ==
  {"error",        (* the work of a task, or a call of a handler, fails     *)
   "dies",         (* a Lambda dies or throws in its catch block, or the    *)
                   (* time of an execution is up                            *)
   "late_queued",  (* the write of QUEUED may come after the task was taken *)
                   (* from its queue, or its branch of the Map began        *)
   "stale_query"}  (* the query of the sub-tasks misses the end of one      *)

ASSUME SubsAssumption == IsFiniteSet(Subs) /\ Parent \notin Subs
ASSUME DeliveriesAssumption == MaxDeliveries \in Nat \ {0}
ASSUME FaultsAssumption == Faults \subseteq AllFaults

VARIABLES
  kind,       (* the pk of the task: TASK, or SFN_TASK with sub-tasks       *)
  status,     (* the tasks table: row -> its status, none if it is not there *)
  counts,     (* attributes of the parent's row                             *)
  inserted,   (* row -> progress of TaskEventHandler on its insert          *)
  handler,    (* delivery -> progress of TaskQueueEventHandler              *)
  put,        (* delivery -> the sub-tasks that its createSubTask has put   *)
  branch,     (* delivery -> sub-task -> progress in the Map it started     *)
  messages,   (* how many sub-task-status messages are in the queue         *)
  snapshot,   (* aggregator -> the sub-tasks as it read them, none if idle  *)
  ran         (* the tasks whose work ended at least once (history)         *)

vars == <<kind, status, counts, inserted, handler, put, branch, messages, snapshot, ran>>

Rows       == Subs \cup {Parent}
Delivery   == 1 .. MaxDeliveries
TaskStatus == {"none", "CREATED", "QUEUED", "PROCESSING", "COMPLETED", "FAILED"}
Ended      == {"COMPLETED", "FAILED"}
NoCounts   == [succeeded |-> 0, failed |-> 0, running |-> 0]
NoSnapshot == [s \in Subs |-> "none"]

(* over: the handler returned; lost: it died, or never began because the   *)
(* execution of the Map was over.                                          *)
BranchSteps == {"none", "waiting", "running", "over", "lost"}

(* createTask or createStepFunctionTask has put the row.                   *)
Init ==
  /\ kind \in {"TASK", "SFN_TASK"}
  /\ status = [r \in Rows |-> IF r = Parent THEN "CREATED" ELSE "none"]
  /\ counts = NoCounts
  /\ inserted = [r \in Rows |-> IF r = Parent THEN "new" ELSE "none"]
  /\ handler = [d \in Delivery |-> "none"]
  /\ put = [d \in Delivery |-> {}]
  /\ branch = [d \in Delivery |-> [s \in Subs |-> "none"]]
  /\ messages = 0
  /\ snapshot = [a \in Aggregators |-> NoSnapshot]
  /\ ran = {}

TypeOK ==
  /\ kind \in {"TASK", "SFN_TASK"}
  /\ status \in [Rows -> TaskStatus]
  /\ counts \in [{"succeeded", "failed", "running"} -> 0 .. Cardinality(Subs)]
  /\ inserted \in [Rows -> {"none", "new", "published", "queued"}]
  /\ handler \in [Delivery -> {"none", "work", "create", "start", "done", "failed"}]
  /\ put \in [Delivery -> SUBSET Subs]
  /\ branch \in [Delivery -> [Subs -> BranchSteps]]
  /\ messages \in 0 .. (2 * MaxDeliveries * Cardinality(Subs))
  /\ snapshot \in [Aggregators -> [Subs -> TaskStatus]]
  /\ ran \subseteq Rows

updateStatus(r, s) == status' = [status EXCEPT ![r] = s]

(***************************************************************************)
(* TaskEventHandler.  The message of a sub-task is dropped by              *)
(* EventFactoryAddedTask.transformSqs, yet its row is marked all the same. *)
(***************************************************************************)
PublishTaskExecute(r) ==
  /\ inserted[r] = "new"
  /\ inserted' = [inserted EXCEPT ![r] = "published"]
  /\ UNCHANGED <<kind, status, counts, handler, put, branch, messages, snapshot, ran>>

MarkQueued(r) ==
  /\ inserted[r] = "published"
  /\ inserted' = [inserted EXCEPT ![r] = "queued"]
  /\ updateStatus(r, "QUEUED")
  /\ UNCHANGED <<kind, counts, handler, put, branch, messages, snapshot, ran>>

MayRun(r) ==
  IF "late_queued" \in Faults THEN inserted[r] # "none" ELSE inserted[r] = "queued"

(***************************************************************************)
(* TaskQueueEventHandler.                                                  *)
(***************************************************************************)
Go(d, from, to) == handler[d] = from /\ handler' = [handler EXCEPT ![d] = to]

(* The first delivery, or a later one: after the handler threw, or because *)
(* the visibility timeout passed, even while it still runs.                *)
Delivered(d) ==
  /\ inserted[Parent] \in {"published", "queued"} /\ MayRun(Parent)
  /\ d > 1 => handler[d - 1] # "none"

(* Both handleTask and handleStepFunctionTask write PROCESSING first.      *)
Process(d) ==
  /\ Delivered(d)
  /\ Go(d, "none", IF kind = "TASK" THEN "work" ELSE "create")
  /\ updateStatus(Parent, "PROCESSING")
  /\ counts' = NoCounts
  /\ UNCHANGED <<kind, inserted, put, branch, messages, snapshot, ran>>

CompleteTask(d) ==
  /\ Go(d, "work", "done")
  /\ updateStatus(Parent, "COMPLETED")
  /\ ran' = ran \cup {Parent}
  /\ UNCHANGED <<kind, counts, inserted, put, branch, messages, snapshot>>

(* createSubTask puts the rows in parallel, unconditionally; only a row    *)
(* that was not there is an INSERT for the stream.                         *)
CreateSubTask(d, s) ==
  /\ handler[d] = "create" /\ s \notin put[d]
  /\ put' = [put EXCEPT ![d] = @ \cup {s}]
  /\ updateStatus(s, "CREATED")
  /\ inserted' = [inserted EXCEPT ![s] = IF status[s] = "none" THEN "new" ELSE @]
  /\ UNCHANGED <<kind, counts, handler, branch, messages, snapshot, ran>>

WriteCounts(d) ==
  /\ put[d] = Subs
  /\ Go(d, "create", "start")
  /\ updateStatus(Parent, "PROCESSING")
  /\ counts' = NoCounts
  /\ UNCHANGED <<kind, inserted, put, branch, messages, snapshot, ran>>

StartExecution(d) ==
  /\ Go(d, "start", "done")
  /\ branch' = [branch EXCEPT ![d] = [s \in Subs |-> "waiting"]]
  /\ UNCHANGED <<kind, status, counts, inserted, put, messages, snapshot, ran>>

(* A call or the work fails: FAILED with the error for attributes, an      *)
(* alarm, and the error is thrown on.                                      *)
Fail(d) ==
  /\ "error" \in Faults
  /\ handler[d] \in {"none", "work", "create", "start"} /\ Delivered(d)
  /\ handler' = [handler EXCEPT ![d] = "failed"]
  /\ updateStatus(Parent, "FAILED")
  /\ counts' = NoCounts
  /\ UNCHANGED <<kind, inserted, put, branch, messages, snapshot, ran>>

(* The Lambda times out or dies: whatever it had not done is left.         *)
Die(d) ==
  /\ "dies" \in Faults
  /\ handler[d] \in {"work", "create", "start"}
  /\ handler' = [handler EXCEPT ![d] = "failed"]
  /\ UNCHANGED <<kind, status, counts, inserted, put, branch, messages, snapshot, ran>>

(***************************************************************************)
(* TaskSfnEventHandler: one branch of the Map.  updateSubTaskStatus writes *)
(* the status, then publishes it.  An error is recorded and not thrown, so *)
(* the Map goes on; but nothing catches what is thrown in the catch block, *)
(* or a Lambda that dies: that ends the execution with all branches that   *)
(* have not begun, while those that run, run on.                           *)
(***************************************************************************)
(* Seeded bug: the status is announced twice.                              *)
updateSubTaskStatusTwice(s, to) ==
  /\ updateStatus(s, to)
  /\ messages' = messages + 2

updateSubTaskStatus(s, to) ==
  /\ updateStatus(s, to)
  /\ messages' = messages + 1

BeginBranch(d, s) ==
  /\ branch[d][s] = "waiting" /\ MayRun(s)
  /\ Cardinality({t \in Subs : branch[d][t] = "running"}) < MaxConcurrency
  /\ branch' = [branch EXCEPT ![d][s] = "running"]
  /\ updateSubTaskStatus(s, "PROCESSING")
  /\ UNCHANGED <<kind, counts, inserted, handler, put, snapshot, ran>>

EndBranch(d, s) ==
  /\ branch[d][s] = "running"
  /\ branch' = [branch EXCEPT ![d][s] = "over"]
  /\ \/ updateSubTaskStatus(s, "COMPLETED")
     \/ "error" \in Faults /\ updateSubTaskStatus(s, "FAILED")
  /\ ran' = ran \cup {s}
  /\ UNCHANGED <<kind, counts, inserted, handler, put, snapshot>>

(* COMPLETED is written, but its publication fails: the catch block is next. *)
CompleteUnheard(d, s) ==
  /\ "error" \in Faults
  /\ branch[d][s] = "running"
  /\ updateStatus(s, "COMPLETED")
  /\ ran' = ran \cup {s}
  /\ UNCHANGED <<kind, counts, inserted, handler, put, branch, messages, snapshot>>

Aborted(d, dead) ==
  [s \in Subs |-> IF s \in dead \/ branch[d][s] = "waiting" THEN "lost" ELSE branch[d][s]]

(* The Lambda of a branch dies, or throws in its catch block: before the   *)
(* status is written, before it is published or after that (the alarm).    *)
BranchDies(d, s) ==
  /\ "dies" \in Faults
  /\ branch[d][s] = "running"
  /\ branch' = [branch EXCEPT ![d] = Aborted(d, {s})]
  /\ \/ UNCHANGED <<status, messages, ran>>
     \/ ran' = ran \cup {s} /\ updateStatus(s, "FAILED") /\ messages' \in {messages, messages + 1}
  /\ UNCHANGED <<kind, counts, inserted, handler, put, snapshot>>

(* The state machine has 15 minutes.                                       *)
MapTimesOut(d) ==
  /\ "dies" \in Faults
  /\ \E s \in Subs : branch[d][s] = "waiting"
  /\ branch' = [branch EXCEPT ![d] = Aborted(d, {})]
  /\ UNCHANGED <<kind, status, counts, inserted, handler, put, messages, snapshot, ran>>

(***************************************************************************)
(* SubTaskQueueEventHandler.  All it takes from a message is the parent's  *)
(* key, so the queue is the number of messages in it.  A Lambda that dies  *)
(* before its write gives the message back, as if it had not taken it.     *)
(***************************************************************************)
(* The query is eventually consistent.                                     *)
Answers(s) ==
  IF "stale_query" \in Faults /\ status[s] \in Ended THEN {status[s], "PROCESSING"}
  ELSE {status[s]}

GetAllSubTask(a) ==
  /\ snapshot[a] = NoSnapshot
  /\ messages > 0 /\ messages' = messages - 1
  /\ \E tasks \in [Subs -> UNION {Answers(s) : s \in Subs}] :
       /\ \A s \in Subs : tasks[s] \in Answers(s)
       /\ snapshot' = [snapshot EXCEPT ![a] = tasks]
  /\ UNCHANGED <<kind, status, counts, inserted, handler, put, branch, ran>>

countTaskStatus(tasks, s) == Cardinality({t \in Subs : tasks[t] = s})
formatTaskStatus(tasks) ==
  [succeeded |-> countTaskStatus(tasks, "COMPLETED"),
   failed    |-> countTaskStatus(tasks, "FAILED"),
   running   |-> countTaskStatus(tasks, "PROCESSING")]
subTaskCount(tasks) == Cardinality({t \in Subs : tasks[t] # "none"})

(* Seeded bug: sub-tasks that run are counted as if they had ended.        *)
ParentStatusCountingRunning(tasks) ==
  LET c == formatTaskStatus(tasks) IN
  IF c.succeeded + c.failed + c.running = subTaskCount(tasks)
    THEN "COMPLETED" ELSE "PROCESSING"

(* Seeded bug: a sub-task that failed is not counted as ended.             *)
ParentStatusOfSuccess(tasks) ==
  IF formatTaskStatus(tasks).succeeded = subTaskCount(tasks)
    THEN "COMPLETED" ELSE "PROCESSING"

ParentStatus(tasks) ==
  LET c == formatTaskStatus(tasks) IN
  IF c.succeeded + c.failed = subTaskCount(tasks) THEN "COMPLETED" ELSE "PROCESSING"

UpdateStepFunctionTask(a) ==
  /\ snapshot[a] # NoSnapshot
  /\ counts' = formatTaskStatus(snapshot[a])
  /\ updateStatus(Parent, ParentStatus(snapshot[a]))
  /\ snapshot' = [snapshot EXCEPT ![a] = NoSnapshot]
  /\ UNCHANGED <<kind, inserted, handler, put, branch, messages, ran>>

(***************************************************************************)
(* The specification.  Streams and queues deliver, and every Lambda runs   *)
(* on that does not die; a second delivery of task-execute, a failure or a *)
(* death need not happen.                                                  *)
(***************************************************************************)
OnInsert(r) == PublishTaskExecute(r) \/ MarkQueued(r)

Handle(d) ==
  \/ CompleteTask(d)
  \/ \E s \in Subs : CreateSubTask(d, s)
  \/ WriteCounts(d) \/ StartExecution(d)

Branch(d, s) == BeginBranch(d, s) \/ EndBranch(d, s)

Aggregate(a) == GetAllSubTask(a) \/ UpdateStepFunctionTask(a)

Next ==
  \/ \E r \in Rows : OnInsert(r)
  \/ \E d \in Delivery :
       \/ Process(d) \/ Handle(d) \/ Fail(d) \/ Die(d) \/ MapTimesOut(d)
       \/ \E s \in Subs : Branch(d, s) \/ CompleteUnheard(d, s) \/ BranchDies(d, s)
  \/ \E a \in Aggregators : Aggregate(a)

Fairness ==
  /\ \A r \in Rows : WF_vars(OnInsert(r))
  /\ WF_vars(Process(1))
  /\ \A d \in Delivery : WF_vars(Handle(d)) /\ \A s \in Subs : WF_vars(Branch(d, s))
  /\ WF_vars(\E a \in Aggregators : GetAllSubTask(a))
  /\ \A a \in Aggregators : WF_vars(UpdateStepFunctionTask(a))

Spec == Init /\ [][Next]_vars /\ Fairness

(***************************************************************************)
(* Properties.                                                             *)
(***************************************************************************)

(* COMPLETED can be trusted: it is on the parent's row only when the work  *)
(* of the task, that is of every one of its sub-tasks, has ended, however  *)
(* the messages of two deliveries of the task mix.                         *)
CompletedMeansAllRan ==
  status[Parent] = "COMPLETED" =>
    IF kind = "TASK" THEN Parent \in ran ELSE Subs \subseteq ran

(* Whoever waits for the task learns of its end: the row ends at COMPLETED *)
(* for good, with every sub-task counted.  Three things can prevent that,  *)
(* and only they: the queue handler fails, a Map is given up, or two       *)
(* aggregations overlap of which one read that all is over and the other   *)
(* did not, whose count may be written last.                               *)
Settled ==
  /\ status[Parent] = "COMPLETED"
  /\ kind = "SFN_TASK" => counts.succeeded + counts.failed = Cardinality(Subs)

GivenUp ==
  \E d \in Delivery : handler[d] = "failed" \/ \E s \in Subs : branch[d][s] = "lost"

Overlap ==
  \E a, b \in Aggregators :
    /\ NoSnapshot \notin {snapshot[a], snapshot[b]}
    /\ ParentStatus(snapshot[a]) # ParentStatus(snapshot[b])

TaskReportsItsEnd == <>GivenUp \/ <>Overlap \/ <>[]Settled
=============================================================================
