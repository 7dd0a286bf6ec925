----------------------- MODULE StepFunctionTaskProofs -----------------------
(***************************************************************************)
(* COMPLETED on a task can be trusted, proved for any number of sub-tasks, *)
(* deliveries, Lambdas that aggregate, and for all faults.                 *)
(***************************************************************************)
EXTENDS StepFunctionTask, FiniteSetTheorems, TLAPS

USE DEF Rows, Delivery

(* Typing, but for the number of messages, which is bounded below.         *)
TaskTypes ==
  /\ kind \in {"TASK", "SFN_TASK"}
  /\ status \in [Rows -> TaskStatus]
  /\ counts \in [{"succeeded", "failed", "running"} -> 0 .. Cardinality(Subs)]
  /\ inserted \in [Rows -> {"none", "new", "published", "queued"}]
  /\ handler \in [Delivery -> {"none", "work", "create", "start", "done", "failed"}]
  /\ put \in [Delivery -> SUBSET Subs]
  /\ branch \in [Delivery -> [Subs -> BranchSteps]]
  /\ messages \in Nat
  /\ snapshot \in [Aggregators -> [Subs -> TaskStatus]]
  /\ ran \subseteq Rows

(* A handler does the work of a plain task, or starts the Map of one with  *)
(* sub-tasks, after it put a row for every sub-task.                       *)
HandlerOfKind ==
  \A d \in Delivery :
    /\ handler[d] = "work" => kind = "TASK"
    /\ handler[d] \in {"create", "start"} => kind = "SFN_TASK"
    /\ handler[d] = "start" => put[d] = Subs
    /\ \A s \in put[d] : status[s] # "none"

(* So whatever speaks of a sub-task speaks of rows that are all there: a   *)
(* branch of a Map, a message, and what was read because of one.           *)
AllThere == kind = "SFN_TASK" /\ \A s \in Subs : status[s] # "none"
OnlyOfStored ==
  /\ \A d \in Delivery, s \in Subs : branch[d][s] # "none" => AllThere
  /\ messages > 0 => AllThere
  /\ \A a \in Aggregators : snapshot[a] # NoSnapshot =>
       kind = "SFN_TASK" /\ \A s \in Subs : snapshot[a][s] # "none"

(* A sub-task that its row, or a reader of its row, says has ended has run. *)
EndedHasRun ==
  /\ \A s \in Subs : status[s] \in Ended => s \in ran
  /\ \A a \in Aggregators, s \in Subs : snapshot[a][s] \in Ended => s \in ran

(* A delivery starts one Map, which is the last thing its handler does.    *)
MapOfDone ==
  \A d \in Delivery, s \in Subs : branch[d][s] # "none" => handler[d] = "done"

(* Every branch announced at most its start and its end.                   *)
Gone  == {"over", "lost"}
Begun == {"running"} \cup Gone
Reached(steps) ==
  {p \in Delivery \X Subs : branch[p[1]][p[2]] \in steps}
MessagesBounded ==
  messages <= Cardinality(Reached(Begun)) + Cardinality(Reached(Gone))

TaskInv ==
  /\ TaskTypes
  /\ HandlerOfKind /\ OnlyOfStored /\ EndedHasRun
  /\ MapOfDone /\ MessagesBounded
  /\ CompletedMeansAllRan

-----------------------------------------------------------------------------
(***************************************************************************)
(* What the handlers compute.                                              *)
(***************************************************************************)
LEMMA Counting ==
  ASSUME NEW tasks, NEW s
  PROVE  /\ countTaskStatus(tasks, s) \in 0 .. Cardinality(Subs)
         /\ IsFiniteSet({t \in Subs : tasks[t] = s})
<1>1. {t \in Subs : tasks[t] = s} \in SUBSET Subs
  OBVIOUS
<1>2. /\ IsFiniteSet({t \in Subs : tasks[t] = s})
      /\ Cardinality({t \in Subs : tasks[t] = s}) <= Cardinality(Subs)
  BY <1>1, SubsAssumption, FS_Subset
<1>3. /\ Cardinality(Subs) \in Nat
      /\ Cardinality({t \in Subs : tasks[t] = s}) \in Nat
  BY <1>2, SubsAssumption, FS_CardinalityType
<1>. QED BY <1>2, <1>3 DEF countTaskStatus

LEMMA FormatTypes ==
  ASSUME NEW tasks
  PROVE  formatTaskStatus(tasks) \in
           [{"succeeded", "failed", "running"} -> 0 .. Cardinality(Subs)]
<1>1. \A s : countTaskStatus(tasks, s) \in 0 .. Cardinality(Subs)
  BY Counting
<1>. QED BY <1>1 DEF formatTaskStatus

LEMMA NoCountsType ==
  NoCounts \in [{"succeeded", "failed", "running"} -> 0 .. Cardinality(Subs)]
<1>1. Cardinality(Subs) \in Nat
  BY SubsAssumption, FS_CardinalityType
<1>. QED BY <1>1 DEF NoCounts

LEMMA AnswersTypes ==
  ASSUME TaskTypes, NEW s \in Subs
  PROVE  Answers(s) \subseteq TaskStatus
BY DEF TaskTypes, Answers, TaskStatus

(* The parent is written COMPLETED only on a reading of the sub-tasks in   *)
(* which all of them have ended.                                           *)
LEMMA CompletedCountsAll ==
  ASSUME NEW tasks \in [Subs -> TaskStatus],
         \A s \in Subs : tasks[s] # "none",
         ParentStatus(tasks) = "COMPLETED"
  PROVE  \A s \in Subs : tasks[s] \in Ended
<1>. DEFINE With(x) == {t \in Subs : tasks[t] = x}
            Done == With("COMPLETED") \cup With("FAILED")
<1>1. Cardinality(With("COMPLETED")) + Cardinality(With("FAILED")) = Cardinality(Subs)
  <2>1. {t \in Subs : tasks[t] # "none"} = Subs
    OBVIOUS
  <2>. QED
    BY <2>1 DEF ParentStatus, formatTaskStatus, countTaskStatus, subTaskCount
<1>2. IsFiniteSet(With("COMPLETED")) /\ IsFiniteSet(With("FAILED"))
  BY Counting
<1>3. With("COMPLETED") \cap With("FAILED") = {}
  OBVIOUS
<1>4. Cardinality(Done) = Cardinality(Subs)
  <2>1. /\ Cardinality(With("COMPLETED")) \in Nat
        /\ Cardinality(With("FAILED")) \in Nat
    BY <1>2, FS_CardinalityType
  <2>2. Cardinality(Done) = Cardinality(With("COMPLETED")) + Cardinality(With("FAILED"))
                              - Cardinality(With("COMPLETED") \cap With("FAILED"))
    BY <1>2, FS_Union
  <2>3. Cardinality(With("COMPLETED") \cap With("FAILED")) = 0
    BY <1>3, FS_EmptySet
  <2>. HIDE DEF With, Done
  <2>. QED BY <1>1, <2>1, <2>2, <2>3
<1>5. Done \in SUBSET Subs
  OBVIOUS
<1>6. Done = Subs
  BY <1>4, <1>5, SubsAssumption, FS_Subset
<1>. QED BY <1>6 DEF Ended

-----------------------------------------------------------------------------
(***************************************************************************)
(* One step.                                                               *)
(***************************************************************************)
LEMMA TypesInit == Init => TaskTypes
BY SubsAssumption, NoCountsType DEF Init, TaskTypes, TaskStatus, NoSnapshot, BranchSteps

LEMMA InsertTypes ==
  ASSUME TaskTypes, NEW r \in Rows, OnInsert(r)
  PROVE  TaskTypes'
BY DEF TaskTypes, OnInsert, PublishTaskExecute, MarkQueued, updateStatus, TaskStatus

LEMMA HandlerTypes ==
  ASSUME TaskTypes, NEW d \in Delivery, Process(d) \/ Handle(d) \/ Fail(d) \/ Die(d)
  PROVE  TaskTypes'
<1>. USE NoCountsType, SubsAssumption DEF TaskTypes, Go, updateStatus
<1>1. CASE Process(d)
  BY <1>1 DEF Process, TaskStatus
<1>2. CASE CompleteTask(d)
  BY <1>2 DEF CompleteTask, TaskStatus
<1>3. ASSUME NEW s \in Subs, CreateSubTask(d, s) PROVE TaskTypes'
  BY <1>3 DEF CreateSubTask, TaskStatus
<1>4. CASE WriteCounts(d)
  BY <1>4 DEF WriteCounts, TaskStatus
<1>5. CASE StartExecution(d)
  BY <1>5 DEF StartExecution, BranchSteps
<1>6. CASE Fail(d)
  BY <1>6 DEF Fail, TaskStatus
<1>7. CASE Die(d)
  BY <1>7 DEF Die
<1>. QED BY <1>1, <1>2, <1>3, <1>4, <1>5, <1>6, <1>7 DEF Handle

(* A Map that is given up: its branches, and what it says of a sub-task.   *)
MapEnds(d) == MapTimesOut(d) \/ \E s \in Subs : BranchDies(d, s)

LEMMA AbortedTypes ==
  ASSUME TaskTypes, NEW d \in Delivery, NEW dead
  PROVE  Aborted(d, dead) \in [Subs -> BranchSteps]
<1>1. \A s \in Subs : branch[d][s] \in BranchSteps /\ "lost" \in BranchSteps
  BY DEF TaskTypes, BranchSteps
<1>. QED BY <1>1 DEF Aborted

LEMMA MapEndsAborts ==
  ASSUME TaskTypes, NEW d \in Delivery, MapEnds(d)
  PROVE  /\ \E dead \in SUBSET Subs :
              /\ branch' = [branch EXCEPT ![d] = Aborted(d, dead)]
              /\ \A s \in dead : branch[d][s] = "running"
              /\ messages' \in IF dead = {} THEN {messages} ELSE {messages, messages + 1}
         /\ UNCHANGED <<kind, counts, inserted, handler, put, snapshot>>
         /\ \/ UNCHANGED <<status, ran>>
            \/ \E s \in Subs : ran' = ran \cup {s} /\ updateStatus(s, "FAILED")
         /\ \E s \in Subs : branch[d][s] # "none"
<1>1. CASE MapTimesOut(d)
  <2>1. /\ branch' = [branch EXCEPT ![d] = Aborted(d, {})] /\ messages' \in {messages}
        /\ UNCHANGED <<kind, status, counts, inserted, handler, put, snapshot, ran>>
        /\ \E s \in Subs : branch[d][s] = "waiting"
    BY <1>1 DEF MapTimesOut
  <2>2. {} \in SUBSET Subs /\ \A s \in {} : branch[d][s] = "running"
    OBVIOUS
  <2>. QED BY <2>1, <2>2
<1>2. ASSUME NEW s \in Subs, BranchDies(d, s)
      PROVE  /\ \E dead \in SUBSET Subs :
                  /\ branch' = [branch EXCEPT ![d] = Aborted(d, dead)]
                  /\ \A t \in dead : branch[d][t] = "running"
                  /\ messages' \in IF dead = {} THEN {messages} ELSE {messages, messages + 1}
             /\ UNCHANGED <<kind, counts, inserted, handler, put, snapshot>>
             /\ \/ UNCHANGED <<status, ran>>
                \/ ran' = ran \cup {s} /\ updateStatus(s, "FAILED")
             /\ branch[d][s] # "none"
  <2>1. /\ branch[d][s] = "running" /\ branch' = [branch EXCEPT ![d] = Aborted(d, {s})]
        /\ messages' \in {messages, messages + 1}
        /\ UNCHANGED <<kind, counts, inserted, handler, put, snapshot>>
        /\ \/ UNCHANGED <<status, ran>>
           \/ ran' = ran \cup {s} /\ updateStatus(s, "FAILED")
    BY <1>2 DEF BranchDies
  <2>2. {s} \in SUBSET Subs /\ {s} # {} /\ \A t \in {s} : branch[d][t] = "running"
    BY <2>1
  <2>. QED BY <2>1, <2>2
<1>. QED BY <1>1, <1>2 DEF MapEnds

LEMMA MapEndsTypes ==
  ASSUME TaskTypes, NEW d \in Delivery, MapEnds(d)
  PROVE  TaskTypes'
<1>1. PICK dead \in SUBSET Subs :
        /\ branch' = [branch EXCEPT ![d] = Aborted(d, dead)]
        /\ messages' \in IF dead = {} THEN {messages} ELSE {messages, messages + 1}
  BY MapEndsAborts
<1>2. branch' \in [Delivery -> [Subs -> BranchSteps]] /\ messages' \in Nat
  BY <1>1, AbortedTypes DEF TaskTypes
<1>3. status' \in [Rows -> TaskStatus] /\ ran' \subseteq Rows
  BY MapEndsAborts DEF TaskTypes, updateStatus, TaskStatus
<1>. QED BY <1>2, <1>3, MapEndsAborts DEF TaskTypes

LEMMA BranchTypes ==
  ASSUME TaskTypes, NEW d \in Delivery, NEW s \in Subs, Branch(d, s) \/ CompleteUnheard(d, s)
  PROVE  TaskTypes'
<1>. USE SubsAssumption DEF TaskTypes, updateSubTaskStatus, updateStatus, TaskStatus, BranchSteps
<1>1. CASE BeginBranch(d, s)
  BY <1>1 DEF BeginBranch
<1>2. CASE EndBranch(d, s)
  BY <1>2 DEF EndBranch
<1>3. CASE CompleteUnheard(d, s)
  BY <1>3 DEF CompleteUnheard
<1>. QED BY <1>1, <1>2, <1>3 DEF Branch

LEMMA AggregateTypes ==
  ASSUME TaskTypes, NEW a \in Aggregators, Aggregate(a)
  PROVE  TaskTypes'
<1>1. CASE GetAllSubTask(a)
  <2>1. PICK tasks \in [Subs -> UNION {Answers(s) : s \in Subs}] :
          /\ \A s \in Subs : tasks[s] \in Answers(s)
          /\ snapshot' = [snapshot EXCEPT ![a] = tasks]
    BY <1>1 DEF GetAllSubTask
  <2>2. tasks \in [Subs -> TaskStatus]
    BY <2>1, AnswersTypes
  <2>. QED BY <1>1, <2>1, <2>2 DEF GetAllSubTask, TaskTypes
<1>2. CASE UpdateStepFunctionTask(a)
  <2>1. ParentStatus(snapshot[a]) \in TaskStatus
    BY DEF ParentStatus, TaskStatus
  <2>2. NoSnapshot \in [Subs -> TaskStatus]
    BY DEF NoSnapshot, TaskStatus
  <2>. QED BY <1>2, <2>1, <2>2, FormatTypes DEF UpdateStepFunctionTask, updateStatus, TaskTypes
<1>. QED BY <1>1, <1>2 DEF Aggregate

LEMMA TypesStep == TaskTypes /\ [Next]_vars => TaskTypes'
<1>1. TaskTypes /\ UNCHANGED vars => TaskTypes'
  BY DEF TaskTypes, vars
<1>. QED
  BY <1>1, InsertTypes, HandlerTypes, BranchTypes, MapEndsTypes, AggregateTypes
  DEF Next, MapEnds, Aggregate

(* A row that is there stays there; the status of a sub-task comes to be   *)
(* one that ends only where its work ended.                                *)
StatusMoves ==
  /\ kind' = kind
  /\ ran \subseteq ran'
  /\ \A s \in Subs :
       /\ status[s] # "none" => status'[s] # "none"
       /\ status'[s] \in Ended => status[s] \in Ended \/ s \in ran'

(* A sub-task's row stays there, and says that it ended only where its work*)
(* ended.                                                                  *)
LEMMA StatusStep ==
  ASSUME TaskTypes, [Next]_vars
  PROVE  StatusMoves
<1>. USE SubsAssumption DEF TaskTypes, StatusMoves, updateStatus, Ended, Go
<1>1. ASSUME NEW r \in Rows, OnInsert(r) PROVE StatusMoves
  BY <1>1 DEF OnInsert, PublishTaskExecute, MarkQueued
<1>2. ASSUME NEW d \in Delivery, Process(d) \/ Fail(d) \/ Die(d) PROVE StatusMoves
  BY <1>2 DEF Process, Fail, Die
<1>3. ASSUME NEW d \in Delivery, Handle(d) PROVE StatusMoves
  BY <1>3 DEF Handle, CompleteTask, CreateSubTask, WriteCounts, StartExecution
<1>4. ASSUME NEW d \in Delivery, NEW s \in Subs, Branch(d, s) \/ CompleteUnheard(d, s)
      PROVE  StatusMoves
  BY <1>4 DEF Branch, BeginBranch, EndBranch, CompleteUnheard, updateSubTaskStatus
<1>5. ASSUME NEW a \in Aggregators, Aggregate(a) PROVE StatusMoves
  BY <1>5 DEF Aggregate, GetAllSubTask, UpdateStepFunctionTask
<1>6. CASE UNCHANGED vars
  BY <1>6 DEF vars
<1>7. ASSUME NEW d \in Delivery, MapEnds(d) PROVE StatusMoves
  BY <1>7, MapEndsAborts
<1>. HIDE DEF StatusMoves
<1>. QED BY <1>1, <1>2, <1>3, <1>4, <1>5, <1>6, <1>7 DEF Next, MapEnds

(* A handler does what its task's kind asks for.                           *)
LEMMA HandlerOfKindStep ==
  ASSUME TaskTypes, HandlerOfKind, [Next]_vars
  PROVE  HandlerOfKind'
<1>1. StatusMoves
  BY StatusStep
<1>2. ASSUME UNCHANGED <<handler, put>> PROVE HandlerOfKind'
  BY <1>1, <1>2 DEF HandlerOfKind, StatusMoves, TaskTypes
<1>3. ASSUME NEW d \in Delivery, Process(d) \/ Fail(d) \/ Die(d) \/ Handle(d)
      PROVE  HandlerOfKind'
  <2>. USE <1>1 DEF HandlerOfKind, TaskTypes, StatusMoves, Go
  <2>1. CASE Process(d)
    BY <2>1 DEF Process
  <2>2. CASE Fail(d)
    BY <2>2 DEF Fail
  <2>3. CASE CompleteTask(d)
    BY <2>3 DEF CompleteTask
  <2>4. ASSUME NEW s \in Subs, CreateSubTask(d, s) PROVE HandlerOfKind'
    <3>1. status'[s] # "none"
      BY <2>4 DEF CreateSubTask, updateStatus
    <3>2. put' = [put EXCEPT ![d] = @ \cup {s}] /\ handler' = handler
      BY <2>4 DEF CreateSubTask
    <3>3. handler[d] # "start"
      BY <2>4 DEF CreateSubTask
    <3>. QED BY <3>1, <3>2, <3>3
  <2>5. CASE WriteCounts(d)
    BY <2>5 DEF WriteCounts
  <2>6. CASE StartExecution(d)
    BY <2>6 DEF StartExecution
  <2>7. CASE Die(d)
    BY <2>7 DEF Die
  <2>. QED BY <1>3, <2>1, <2>2, <2>3, <2>4, <2>5, <2>6, <2>7 DEF Handle
<1>4. ASSUME NEW r \in Rows, OnInsert(r) PROVE UNCHANGED <<handler, put>>
  BY <1>4 DEF OnInsert, PublishTaskExecute, MarkQueued
<1>5. ASSUME NEW d \in Delivery, NEW s \in Subs, Branch(d, s) \/ CompleteUnheard(d, s)
      PROVE  UNCHANGED <<handler, put>>
  BY <1>5 DEF Branch, BeginBranch, EndBranch, CompleteUnheard
<1>6. ASSUME NEW a \in Aggregators, Aggregate(a) PROVE UNCHANGED <<handler, put>>
  BY <1>6 DEF Aggregate, GetAllSubTask, UpdateStepFunctionTask
<1>7. UNCHANGED vars => UNCHANGED <<handler, put>>
  BY DEF vars
<1>8. ASSUME NEW d \in Delivery, MapEnds(d) PROVE UNCHANGED <<handler, put>>
  BY <1>8, MapEndsAborts
<1>. QED BY <1>2, <1>3, <1>4, <1>5, <1>6, <1>7, <1>8 DEF Next, MapEnds

(* Branches, messages and readers know only of sub-tasks that have rows.   *)
LEMMA OnlyOfStoredStep ==
  ASSUME TaskTypes, HandlerOfKind, OnlyOfStored, [Next]_vars
  PROVE  OnlyOfStored'
<1>1. StatusMoves /\ TaskTypes'
  BY StatusStep, TypesStep
<1>2. AllThere => AllThere'
  BY <1>1 DEF AllThere, StatusMoves
<1>3. ASSUME UNCHANGED <<branch, messages, snapshot>> PROVE OnlyOfStored'
  BY <1>1, <1>2, <1>3 DEF OnlyOfStored, StatusMoves
<1>4. ASSUME NEW d \in Delivery, StartExecution(d) PROVE OnlyOfStored'
  <2>1. AllThere
    BY <1>4 DEF HandlerOfKind, StartExecution, Go, AllThere
  <2>. QED BY <1>1, <1>2, <1>4, <2>1 DEF StartExecution, OnlyOfStored, StatusMoves
<1>5. ASSUME NEW d \in Delivery, NEW s \in Subs,
             Branch(d, s) \/ CompleteUnheard(d, s) \/ MapEnds(d)
      PROVE  OnlyOfStored'
  <2>1. AllThere
    BY <1>5, MapEndsAborts DEF OnlyOfStored, Branch, BeginBranch, EndBranch, CompleteUnheard
  <2>2. snapshot' = snapshot
    BY <1>5, MapEndsAborts DEF Branch, BeginBranch, EndBranch, CompleteUnheard
  <2>. QED BY <1>1, <1>2, <2>1, <2>2 DEF OnlyOfStored, StatusMoves
<1>6. ASSUME NEW a \in Aggregators, Aggregate(a) PROVE OnlyOfStored'
  <2>1. CASE GetAllSubTask(a)
    <3>1. AllThere
      BY <2>1 DEF GetAllSubTask, OnlyOfStored
    <3>2. \A s \in Subs : snapshot'[a][s] # "none"
      <4>1. \A s \in Subs : "none" \notin Answers(s)
        BY <3>1 DEF AllThere, Answers
      <4>2. \A s \in Subs : snapshot'[a][s] \in Answers(s)
        BY <2>1 DEF GetAllSubTask, TaskTypes
      <4>. QED BY <4>1, <4>2
    <3>3. \A b \in Aggregators : b # a => snapshot'[b] = snapshot[b]
      BY <2>1 DEF GetAllSubTask, TaskTypes
    <3>4. branch' = branch
      BY <2>1 DEF GetAllSubTask
    <3>. QED BY <1>1, <1>2, <3>1, <3>2, <3>3, <3>4 DEF OnlyOfStored, StatusMoves, AllThere
  <2>2. CASE UpdateStepFunctionTask(a)
    BY <1>1, <1>2, <2>2 DEF UpdateStepFunctionTask, OnlyOfStored, StatusMoves, TaskTypes
  <2>. QED BY <1>6, <2>1, <2>2 DEF Aggregate
<1>7. ASSUME NEW r \in Rows, OnInsert(r) PROVE UNCHANGED <<branch, messages, snapshot>>
  BY <1>7 DEF OnInsert, PublishTaskExecute, MarkQueued
<1>8. ASSUME NEW d \in Delivery,
             Process(d) \/ Fail(d) \/ Die(d) \/ CompleteTask(d) \/ WriteCounts(d)
               \/ \E s \in Subs : CreateSubTask(d, s)
      PROVE  UNCHANGED <<branch, messages, snapshot>>
  BY <1>8 DEF Process, Fail, Die, CompleteTask, WriteCounts, CreateSubTask
<1>9. UNCHANGED vars => UNCHANGED <<branch, messages, snapshot>>
  BY DEF vars
<1>10. ASSUME NEW d \in Delivery, MapEnds(d) PROVE OnlyOfStored'
  <2>1. \E s \in Subs : TRUE
    BY <1>10, MapEndsAborts
  <2>. QED BY <1>5, <1>10, <2>1
<1>. QED BY <1>3, <1>4, <1>5, <1>6, <1>7, <1>8, <1>9, <1>10 DEF Next, Handle, MapEnds

(* A sub-task whose status has ended has run.                              *)
LEMMA EndedHasRunStep ==
  ASSUME TaskTypes, EndedHasRun, [Next]_vars
  PROVE  EndedHasRun'
<1>1. StatusMoves
  BY StatusStep
<1>2. ASSUME UNCHANGED snapshot PROVE EndedHasRun'
  BY <1>1, <1>2 DEF EndedHasRun, StatusMoves
<1>3. ASSUME NEW a \in Aggregators, GetAllSubTask(a) PROVE EndedHasRun'
  <2>1. ASSUME NEW s \in Subs, snapshot'[a][s] \in Ended PROVE s \in ran'
    <3>1. snapshot'[a][s] \in Answers(s)
      BY <1>3 DEF GetAllSubTask, TaskTypes
    <3>2. status[s] \in Ended
      BY <2>1, <3>1 DEF Answers, Ended
    <3>. QED BY <1>1, <3>2 DEF EndedHasRun, StatusMoves
  <2>2. \A b \in Aggregators : b # a => snapshot'[b] = snapshot[b]
    BY <1>3 DEF GetAllSubTask, TaskTypes
  <2>. QED BY <1>1, <2>1, <2>2 DEF EndedHasRun, StatusMoves
<1>4. ASSUME NEW a \in Aggregators, UpdateStepFunctionTask(a) PROVE EndedHasRun'
  BY <1>1, <1>4
  DEF UpdateStepFunctionTask, EndedHasRun, StatusMoves, TaskTypes, NoSnapshot, Ended
<1>5. ASSUME NEW r \in Rows, OnInsert(r) PROVE UNCHANGED snapshot
  BY <1>5 DEF OnInsert, PublishTaskExecute, MarkQueued
<1>6. ASSUME NEW d \in Delivery,
             Process(d) \/ Fail(d) \/ Die(d) \/ Handle(d) \/ MapEnds(d)
               \/ \E s \in Subs : Branch(d, s) \/ CompleteUnheard(d, s)
      PROVE  UNCHANGED snapshot
  BY <1>6, MapEndsAborts DEF Process, Fail, Die, Handle, CompleteUnheard, CompleteTask, WriteCounts, CreateSubTask, StartExecution,
              Branch, BeginBranch, EndBranch
<1>7. UNCHANGED vars => UNCHANGED snapshot
  BY DEF vars
<1>. QED BY <1>2, <1>3, <1>4, <1>5, <1>6, <1>7 DEF Next, Aggregate, MapEnds

(* Only a handler that is done has started a Map.                          *)
LEMMA MapOfDoneStep ==
  ASSUME TaskTypes, MapOfDone, [Next]_vars
  PROVE  MapOfDone'
<1>. USE DEF TaskTypes, MapOfDone, Go
<1>1. ASSUME NEW r \in Rows, OnInsert(r) PROVE MapOfDone'
  BY <1>1 DEF OnInsert, PublishTaskExecute, MarkQueued
<1>2. ASSUME NEW d \in Delivery, Process(d) \/ Fail(d) \/ Die(d) PROVE MapOfDone'
  BY <1>2 DEF Process, Fail, Die
<1>3. ASSUME NEW d \in Delivery, Handle(d) PROVE MapOfDone'
  <2>1. CASE StartExecution(d)
    BY <2>1 DEF StartExecution
  <2>2. CASE ~StartExecution(d)
    <3>1. branch' = branch /\ handler[d] # "done"
      BY <1>3, <2>2 DEF Handle, CompleteTask, CreateSubTask, WriteCounts
    <3>2. \A e \in Delivery : handler[e] = "done" => handler'[e] = "done"
      BY <1>3, <3>1 DEF Handle, CompleteTask, CreateSubTask, WriteCounts, StartExecution
    <3>. QED BY <3>1, <3>2
  <2>. QED BY <2>1, <2>2
<1>4. ASSUME NEW d \in Delivery, NEW s \in Subs, Branch(d, s) PROVE MapOfDone'
  <2>1. branch[d][s] # "none" /\ handler' = handler
    BY <1>4 DEF Branch, BeginBranch, EndBranch
  <2>2. PICK x : branch' = [branch EXCEPT ![d][s] = x]
    BY <1>4 DEF Branch, BeginBranch, EndBranch
  <2>3. \A e \in Delivery, t \in Subs : e # d \/ t # s => branch'[e][t] = branch[e][t]
    BY <2>2
  <2>. QED BY <2>1, <2>3
<1>5. ASSUME NEW a \in Aggregators, Aggregate(a) PROVE MapOfDone'
  BY <1>5 DEF Aggregate, GetAllSubTask, UpdateStepFunctionTask
<1>6. CASE UNCHANGED vars
  BY <1>6 DEF vars
<1>7. ASSUME NEW d \in Delivery, MapEnds(d) PROVE MapOfDone'
  <2>1. handler' = handler /\ \E s \in Subs : branch[d][s] # "none"
    BY <1>7, MapEndsAborts
  <2>2. PICK dead \in SUBSET Subs : branch' = [branch EXCEPT ![d] = Aborted(d, dead)]
    BY <1>7, MapEndsAborts
  <2>3. \A e \in Delivery : e # d => branch'[e] = branch[e]
    BY <2>2
  <2>. QED BY <2>1, <2>3
<1>8. ASSUME NEW d \in Delivery, NEW s \in Subs, CompleteUnheard(d, s) PROVE MapOfDone'
  BY <1>8 DEF CompleteUnheard
<1>. HIDE DEF MapOfDone
<1>. QED BY <1>1, <1>2, <1>3, <1>4, <1>5, <1>6, <1>7, <1>8 DEF Next, MapEnds

(* How many branches there are, and how many of them can be in some steps. *)
LEMMA BranchCount ==
  /\ IsFiniteSet(Delivery \X Subs)
  /\ Cardinality(Delivery \X Subs) = MaxDeliveries * Cardinality(Subs)
<1>1. IsFiniteSet(Delivery) /\ Cardinality(Delivery) = MaxDeliveries
  <2>1. /\ IsFiniteSet(1 .. MaxDeliveries)
        /\ Cardinality(1 .. MaxDeliveries) =
             IF 1 > MaxDeliveries THEN 0 ELSE MaxDeliveries - 1 + 1
    BY DeliveriesAssumption, FS_Interval
  <2>. QED BY <2>1, DeliveriesAssumption
<1>. QED BY <1>1, SubsAssumption, FS_Product

(* At most all branches of all deliveries got anywhere.                    *)
LEMMA ReachedCount ==
  ASSUME NEW steps
  PROVE  /\ IsFiniteSet(Reached(steps))
         /\ Cardinality(Reached(steps)) \in Nat
         /\ Cardinality(Reached(steps)) <= MaxDeliveries * Cardinality(Subs)
<1>1. Reached(steps) \in SUBSET (Delivery \X Subs)
  BY DEF Reached
<1>. QED BY <1>1, BranchCount, FS_Subset, FS_CardinalityType

(* There are no more messages than starts and ends of branches.            *)
LEMMA MessagesStep ==
  ASSUME TaskTypes, MapOfDone, MessagesBounded, [Next]_vars
  PROVE  MessagesBounded'
<1>. DEFINE Reach == Reached(Begun)
            Over == Reached(Gone)
<1>1. /\ IsFiniteSet(Reach) /\ Cardinality(Reach) \in Nat
      /\ IsFiniteSet(Over) /\ Cardinality(Over) \in Nat
  BY ReachedCount
<1>2. MessagesBounded <=> messages <= Cardinality(Reach) + Cardinality(Over)
  BY DEF MessagesBounded
<1>3. MessagesBounded' <=> messages' <= Cardinality(Reach') + Cardinality(Over')
  BY DEF MessagesBounded
<1>4. ASSUME messages' <= messages, messages' \in Nat, Reach' = Reach, Over' = Over
      PROVE  MessagesBounded'
  <2>. HIDE DEF Reach, Over
  <2>. QED BY <1>1, <1>2, <1>3, <1>4 DEF TaskTypes
<1>5. ASSUME UNCHANGED <<branch, messages>> PROVE MessagesBounded'
  BY <1>4, <1>5 DEF Reached, TaskTypes
<1>6. ASSUME NEW d \in Delivery, StartExecution(d) PROVE MessagesBounded'
  <2>1. \A s \in Subs : branch[d][s] = "none" /\ branch'[d][s] = "waiting"
    BY <1>6 DEF StartExecution, MapOfDone, Go, TaskTypes
  <2>2. \A e \in Delivery, s \in Subs : e # d => branch'[e][s] = branch[e][s]
    BY <1>6 DEF StartExecution, TaskTypes
  <2>3. Reach' = Reach /\ Over' = Over
    BY <2>1, <2>2 DEF Reached, Begun, Gone
  <2>. QED BY <1>4, <1>6, <2>3 DEF StartExecution, TaskTypes
<1>7. ASSUME NEW d \in Delivery, NEW s \in Subs, BeginBranch(d, s)
      PROVE  MessagesBounded'
  <2>1. /\ branch[d][s] = "waiting" /\ branch'[d][s] = "running"
        /\ \A e \in Delivery, t \in Subs : <<e, t>> # <<d, s>> => branch'[e][t] = branch[e][t]
    BY <1>7 DEF BeginBranch, TaskTypes
  <2>2. Reach' = Reach \cup {<<d, s>>} /\ <<d, s>> \notin Reach
    BY <2>1 DEF Reached, Begun, Gone
  <2>3. Over' = Over
    BY <2>1 DEF Reached, Begun, Gone
  <2>4. Cardinality(Reach') = Cardinality(Reach) + 1
    BY <1>1, <2>2, FS_AddElement
  <2>5. messages' = messages + 1 /\ messages \in Nat
    BY <1>7 DEF BeginBranch, updateSubTaskStatus, TaskTypes
  <2>. HIDE DEF Reach, Over
  <2>. QED BY <1>1, <1>2, <1>3, <2>3, <2>4, <2>5
<1>8. ASSUME NEW d \in Delivery, NEW s \in Subs, EndBranch(d, s)
      PROVE  MessagesBounded'
  <2>1. /\ branch[d][s] = "running" /\ branch'[d][s] = "over"
        /\ \A e \in Delivery, t \in Subs : <<e, t>> # <<d, s>> => branch'[e][t] = branch[e][t]
    BY <1>8 DEF EndBranch, TaskTypes
  <2>2. Over' = Over \cup {<<d, s>>} /\ <<d, s>> \notin Over
    BY <2>1 DEF Reached, Begun, Gone
  <2>3. Reach' = Reach
    BY <2>1 DEF Reached, Begun, Gone
  <2>4. Cardinality(Over') = Cardinality(Over) + 1
    BY <1>1, <2>2, FS_AddElement
  <2>5. messages' = messages + 1 /\ messages \in Nat
    BY <1>8 DEF EndBranch, updateSubTaskStatus, TaskTypes
  <2>. HIDE DEF Reach, Over
  <2>. QED BY <1>1, <1>2, <1>3, <2>3, <2>4, <2>5
<1>9. ASSUME NEW a \in Aggregators, GetAllSubTask(a) PROVE MessagesBounded'
  BY <1>4, <1>9 DEF GetAllSubTask, Reached, TaskTypes
<1>10. ASSUME NEW r \in Rows, OnInsert(r) PROVE UNCHANGED <<branch, messages>>
  BY <1>10 DEF OnInsert, PublishTaskExecute, MarkQueued
<1>11. ASSUME NEW d \in Delivery,
              Process(d) \/ Fail(d) \/ Die(d) \/ CompleteTask(d) \/ WriteCounts(d)
                \/ \E s \in Subs : CreateSubTask(d, s)
       PROVE  UNCHANGED <<branch, messages>>
  BY <1>11 DEF Process, Fail, Die, CompleteTask, WriteCounts, CreateSubTask
<1>12. ASSUME NEW a \in Aggregators, UpdateStepFunctionTask(a)
       PROVE  UNCHANGED <<branch, messages>>
  BY <1>12 DEF UpdateStepFunctionTask
<1>13. UNCHANGED vars => UNCHANGED <<branch, messages>>
  BY DEF vars
<1>14. ASSUME NEW d \in Delivery, NEW s \in Subs, CompleteUnheard(d, s)
       PROVE  UNCHANGED <<branch, messages>>
  BY <1>14 DEF CompleteUnheard
<1>15. ASSUME NEW d \in Delivery, MapEnds(d)
       PROVE  MessagesBounded'
  <2>1. PICK dead \in SUBSET Subs :
          /\ branch' = [branch EXCEPT ![d] = Aborted(d, dead)]
          /\ \A s \in dead : branch[d][s] = "running"
          /\ messages' \in IF dead = {} THEN {messages} ELSE {messages, messages + 1}
    BY <1>15, MapEndsAborts
  <2>2. \A e \in Delivery, s \in Subs :
          branch'[e][s] = IF e = d /\ (s \in dead \/ branch[e][s] = "waiting") THEN "lost"
                          ELSE branch[e][s]
    BY <2>1 DEF Aborted, TaskTypes
  <2>3. Reach \subseteq Reach' /\ Over \subseteq Over'
    BY <2>2 DEF Reached, Begun, Gone
  <2>4. IsFiniteSet(Reach') /\ Cardinality(Reach') \in Nat
        /\ IsFiniteSet(Over') /\ Cardinality(Over') \in Nat
    <3>1. Reach' \in SUBSET (Delivery \X Subs) /\ Over' \in SUBSET (Delivery \X Subs)
      BY DEF Reached
    <3>. HIDE DEF Reach, Over
    <3>. QED BY <3>1, BranchCount, FS_Subset, FS_CardinalityType
  <2>5. Cardinality(Reach) <= Cardinality(Reach')
    <3>. HIDE DEF Reach
    <3>. QED BY <2>3, <2>4, FS_Subset
  <2>6. messages \in Nat /\ messages' \in Nat
    BY <2>1 DEF TaskTypes
  <2>7. CASE messages' = messages
    <3>1. Cardinality(Over) <= Cardinality(Over')
      <4>. HIDE DEF Over
      <4>. QED BY <2>3, <2>4, FS_Subset
    <3>. HIDE DEF Reach, Over
    <3>. QED BY <1>1, <1>2, <1>3, <2>4, <2>5, <2>6, <2>7, <3>1
  <2>8. CASE messages' = messages + 1
    <3>1. PICK s \in dead : branch[d][s] = "running"
      BY <2>1, <2>6, <2>8
    <3>2. <<d, s>> \in Over' /\ <<d, s>> \notin Over
      BY <2>1, <2>2, <3>1 DEF Reached, Gone
    <3>3. Over \cup {<<d, s>>} \in SUBSET Over'
      BY <2>3, <3>2
    <3>4. Cardinality(Over) + 1 <= Cardinality(Over')
      <4>. HIDE DEF Over
      <4>1. Cardinality(Over \cup {<<d, s>>}) = Cardinality(Over) + 1
        BY <1>1, <3>2, FS_AddElement
      <4>. QED BY <2>4, <3>3, <4>1, FS_Subset
    <3>. HIDE DEF Reach, Over
    <3>. QED BY <1>1, <1>2, <1>3, <2>4, <2>5, <2>6, <2>8, <3>4
  <2>. QED BY <2>1, <2>7, <2>8
<1>. QED
  BY <1>5, <1>6, <1>7, <1>8, <1>9, <1>10, <1>11, <1>12, <1>13, <1>14, <1>15
  DEF Next, Handle, Branch, Aggregate, MapEnds

(* A task is completed only when all its subtasks have run.                *)
LEMMA CompletedStep ==
  ASSUME TaskTypes, HandlerOfKind, OnlyOfStored, EndedHasRun, CompletedMeansAllRan, [Next]_vars
  PROVE  CompletedMeansAllRan'
<1>. DEFINE Kept == status'[Parent] = "COMPLETED" => status[Parent] = "COMPLETED"
<1>1. StatusMoves
  BY StatusStep
<1>2. ASSUME Kept PROVE CompletedMeansAllRan'
  BY <1>1, <1>2 DEF CompletedMeansAllRan, StatusMoves
<1>3. ASSUME NEW d \in Delivery, CompleteTask(d) PROVE CompletedMeansAllRan'
  BY <1>1, <1>3 DEF CompleteTask, Go, HandlerOfKind, CompletedMeansAllRan, StatusMoves
<1>4. ASSUME NEW a \in Aggregators, UpdateStepFunctionTask(a)
      PROVE  CompletedMeansAllRan'
  <2>1. status' = [status EXCEPT ![Parent] = ParentStatus(snapshot[a])]
    BY <1>4 DEF UpdateStepFunctionTask, updateStatus
  <2>2. kind = "SFN_TASK" /\ \A s \in Subs : snapshot[a][s] # "none"
    BY <1>4 DEF UpdateStepFunctionTask, OnlyOfStored
  <2>3. ASSUME status'[Parent] = "COMPLETED" PROVE Subs \subseteq ran
    <3>1. ParentStatus(snapshot[a]) = "COMPLETED"
      BY <2>1, <2>3 DEF TaskTypes
    <3>2. \A s \in Subs : snapshot[a][s] \in Ended
      BY <2>2, <3>1, CompletedCountsAll DEF TaskTypes
    <3>. QED BY <3>2 DEF EndedHasRun
  <2>. QED BY <1>1, <2>2, <2>3 DEF CompletedMeansAllRan, StatusMoves
<1>5. ASSUME NEW r \in Rows, OnInsert(r) PROVE Kept
  BY <1>5 DEF OnInsert, PublishTaskExecute, MarkQueued, updateStatus, TaskTypes
<1>6. ASSUME NEW d \in Delivery,
             Process(d) \/ Fail(d) \/ Die(d) \/ WriteCounts(d) \/ StartExecution(d)
               \/ \E s \in Subs : CreateSubTask(d, s)
      PROVE  Kept
  BY <1>6, SubsAssumption
  DEF Process, Fail, Die, WriteCounts, StartExecution, CreateSubTask, updateStatus, TaskTypes
<1>7. ASSUME NEW d \in Delivery, NEW s \in Subs, Branch(d, s) \/ CompleteUnheard(d, s)
      PROVE  Kept
  BY <1>7, SubsAssumption
  DEF Branch, BeginBranch, EndBranch, CompleteUnheard, updateSubTaskStatus, updateStatus, TaskTypes
<1>8. ASSUME NEW a \in Aggregators, GetAllSubTask(a) PROVE Kept
  BY <1>8 DEF GetAllSubTask
<1>9. UNCHANGED vars => Kept
  BY DEF vars
<1>10. ASSUME NEW d \in Delivery, MapEnds(d) PROVE Kept
  BY <1>10, MapEndsAborts, SubsAssumption DEF updateStatus, TaskTypes
<1>. HIDE DEF Kept
<1>. QED
  BY <1>2, <1>3, <1>4, <1>5, <1>6, <1>7, <1>8, <1>9, <1>10
  DEF Next, Handle, Aggregate, MapEnds

-----------------------------------------------------------------------------
(***************************************************************************)
(* The theorems.                                                           *)
(***************************************************************************)
LEMMA TaskInvInit == Init => TaskInv
<1>. SUFFICES ASSUME Init PROVE TaskInv
  OBVIOUS
<1>1. TaskTypes
  BY TypesInit
<1>2. HandlerOfKind /\ OnlyOfStored /\ MapOfDone
  BY DEF Init, HandlerOfKind, OnlyOfStored, MapOfDone
<1>3. EndedHasRun /\ CompletedMeansAllRan
  BY SubsAssumption DEF Init, EndedHasRun, Ended, NoSnapshot, CompletedMeansAllRan
<1>4. MessagesBounded
  <2>1. Cardinality(Reached(Begun)) \in Nat /\ Cardinality(Reached(Gone)) \in Nat
    BY ReachedCount
  <2>. QED BY <2>1 DEF Init, MessagesBounded
<1>. QED BY <1>1, <1>2, <1>3, <1>4 DEF TaskInv

(* Every step keeps the invariant.                                         *)
LEMMA TaskInvStep == TaskInv /\ [Next]_vars => TaskInv'
BY TypesStep, HandlerOfKindStep, OnlyOfStoredStep, EndedHasRunStep, MapOfDoneStep,
   MessagesStep, CompletedStep
DEF TaskInv

(* What makes the trust in COMPLETED inductive: only rows of sub-tasks     *)
(* that are all there are counted, and a row says that its sub-task ended  *)
(* only after it ran, however often the task is delivered.                 *)
THEOREM TaskInvariant == Spec => []TaskInv
BY TaskInvInit, TaskInvStep, PTL DEF Spec

(* Types, and the bound on the messages of the sub-tasks: each delivery of *)
(* the task announces each sub-task at most twice.                         *)
THEOREM TaskTypeCorrect == Spec => []TypeOK
<1>1. TaskInv => TypeOK
  <2>. SUFFICES ASSUME TaskInv PROVE TypeOK
    OBVIOUS
  <2>. DEFINE m == MaxDeliveries * Cardinality(Subs)
  <2>1. Cardinality(Subs) \in Nat /\ m \in Nat
    BY SubsAssumption, DeliveriesAssumption, FS_CardinalityType
  <2>2. messages <= m + m
    <3>1. Cardinality(Reached(Begun)) \in 0 .. m /\ Cardinality(Reached(Gone)) \in 0 .. m
      BY <2>1, ReachedCount
    <3>. HIDE DEF m
    <3>. QED BY <2>1, <3>1 DEF TaskInv, MessagesBounded, TaskTypes
  <2>3. m + m = 2 * MaxDeliveries * Cardinality(Subs)
    BY <2>1, DeliveriesAssumption
  <2>4. messages \in 0 .. (2 * MaxDeliveries * Cardinality(Subs))
    <3>. HIDE DEF m
    <3>. QED BY <2>1, <2>2, <2>3 DEF TaskInv, TaskTypes
  <2>. QED BY <2>4 DEF TypeOK, TaskInv, TaskTypes
<1>. QED BY <1>1, TaskInvariant, PTL

(* The row of a task says COMPLETED only when the work of the task, or of  *)
(* each of its sub-tasks, has ended, for all faults.                       *)
THEOREM CompletedIsTrustworthy == Spec => []CompletedMeansAllRan
<1>1. TaskInv => CompletedMeansAllRan
  BY DEF TaskInv
<1>. QED BY <1>1, TaskInvariant, PTL
=============================================================================
