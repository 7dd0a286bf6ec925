------------------------- MODULE CommandSyncProofs -------------------------
(***************************************************************************)
(* Theorems about CommandSync, for every MaxVersion, every set of handlers *)
(* and, unless a theorem assumes otherwise, all callers and faults.        *)
(***************************************************************************)
EXTENDS CommandSyncInv, FiniteSetTheorems, TLAPS

USE MaxVersionAssumption, DdsAssumption DEF Version

-----------------------------------------------------------------------------
(***************************************************************************)
(* Type correctness.                                                       *)
(***************************************************************************)

(* A stale or current read of the data table finds a version of it.        *)
LEMMA DataReadType ==
  ASSUME TypeOK, NEW d \in DataRead
  PROVE  d \in 0 .. MaxVersion
BY DEF DataRead, TypeOK, TablesTypeOK

LEMMA NoRowType == NoRow \in Row
BY DEF NoRow, Row, Mode, Status, Phase

(* Statuses written by the pipeline.                                       *)
LEMMA StatusType ==
  ASSUME NEW s \in SfnStep \cup {"publish_sync"}, NEW p \in Phase
  PROVE  getCommandStatus(s, p) \in Status
BY DEF getCommandStatus, Status

LEMMA UpdateStatusType ==
  ASSUME TypeOK, NEW v \in Version, NEW s \in Status, updateStatus(v, s)
  PROVE  row' \in [Version -> Row]
BY DEF TypeOK, TablesTypeOK, updateStatus, Row

LEMMA UpdateTaskTokenType ==
  ASSUME TypeOK, NEW v \in Version, NEW t \in Version, updateTaskToken(v, t)
  PROVE  row' \in [Version -> Row]
<1>1. row[v] \in Row /\ t \in 0 .. MaxVersion
  BY DEF TypeOK, TablesTypeOK
<1>2. DEFINE r == [row[v] EXCEPT !.token = t]
<1>3. r \in Row
  BY <1>1 DEF Row
<1>4. row' = [row EXCEPT ![v] = r]
  BY DEF updateTaskToken
<1>. QED BY <1>3, <1>4 DEF TypeOK, TablesTypeOK

LEMMA HandlerUpType ==
  ASSUME TypeOK, NEW v \in Version, NEW h \in Handlers, handlerUp(v, h)
  PROVE  /\ view' \in [Handlers -> 0 .. MaxVersion]
         /\ handled' \in [Handlers -> SUBSET Version]
BY DEF TypeOK, TablesTypeOK, handlerUp

LEMMA NextStepType ==
  ASSUME NEW v \in Version
  PROVE  NextStep(v) \in SfnStep \cup Ended
BY DEF NextStep, AfterCheck, SfnStep, Ended

(* Every publishing method leaves the tables and the controls typed.       *)
LEMMA CallersType ==
  ASSUME TypeOK, NEW v \in Version, Publish(v) \/ PutDraft
  PROVE  TypeOK'
<1> USE DEF TypeOK, TablesTypeOK
<1>1. CASE PublishAsync(v)
  <2>1. [mode |-> "ASYNC", status |-> <<"none", "none">>, token |-> 0] \in Row
    BY DEF Row, Mode, Status, Phase
  <2>2. row' \in [Version -> Row]
    BY <1>1, <2>1 DEF PublishAsync, PutIfAbsent
  <2>. QED BY <1>1, <2>2 DEF PublishAsync, control
<1>2. CASE PublishSync(v)
  <2>1. [mode |-> "SYNC", token |-> 0,
         status |-> getCommandStatus("publish_sync", "STARTED")] \in Row
    BY DEF Row, Mode, Status, Phase, getCommandStatus
  <2>2. row' \in [Version -> Row]
    BY <1>2, <2>1 DEF PublishSync, PutIfAbsent
  <2>. QED BY <1>2, <2>2 DEF PublishSync, GoTo, At
<1>3. CASE ReadBase(v)
  <2>1. row[v] \in Row /\ v \in 0 .. MaxVersion
    OBVIOUS
  <2>2. DEFINE merged == [row[v] EXCEPT !.mode = "ASYNC"]
  <2>3. merged \in Row
    BY <2>1 DEF Row, Mode
  <2>4. draft' = [base |-> v, item |-> merged] \/ draft' = [base |-> v, item |-> row[v]]
    BY <1>3 DEF ReadBase
  <2>. HIDE DEF merged
  <2>5. draft' \in [base : 0 .. MaxVersion, item : Row]
    BY <2>1, <2>3, <2>4
  <2>6. UNCHANGED <<row, view, handled, history, snap, step, at, verdict, waiter>>
    BY <1>3 DEF ReadBase, tables
  <2>. QED BY <2>5, <2>6
<1>4. CASE PutDraft
  <2>1. draft.item \in Row /\ NoDraft \in [base : 0 .. MaxVersion, item : Row]
    BY NoRowType DEF NoDraft
  <2>2. row' \in [Version -> Row]
    BY <1>4, <2>1 DEF PutDraft, PutIfAbsent
  <2>. QED BY <1>4, <2>1, <2>2 DEF PutDraft
<1>. QED BY <1>1, <1>2, <1>3, <1>4 DEF Publish

(* So do the requests of publishSync.                                      *)
LEMMA SyncRequestType ==
  ASSUME TypeOK, NEW v \in Version, SyncRequest(v)
  PROVE  TypeOK'
<1> USE DEF TypeOK, TablesTypeOK
<1>1. CASE SyncTtlRead(v)
  <2>1. snap' \in [Version -> Row]
    BY <1>1, NoRowType DEF SyncTtlRead, updateTtlRead, TtlHasPredecessor, Stored
  <2>. QED BY <1>1, <2>1 DEF SyncTtlRead, GoTo, At
<1>2. CASE SyncTtlPut(v)
  <2>1. row' \in [Version -> Row] /\ snap' \in [Version -> Row]
    BY <1>2, NoRowType DEF SyncTtlPut, updateTtlPut
  <2>. QED BY <1>2, <2>1 DEF SyncTtlPut, GoTo, At
<1>3. CASE SyncHistory(v)
  <2>1. PICK d \in DataRead : historyPublish(d)
    BY <1>3 DEF SyncHistory
  <2>2. d \in 0 .. MaxVersion
    BY DataReadType
  <2>3. history' \subseteq Version
    BY <2>1, <2>2 DEF historyPublish
  <2>. QED BY <1>3, <2>3 DEF SyncHistory, GoTo, At
<1>4. CASE SyncPublishData(v)
  BY <1>4, HandlerUpType DEF SyncPublishData, GoTo, At
<1>5. ASSUME NEW h \in Handlers, SyncHandler(v, h)
      PROVE  TypeOK'
  BY <1>5, HandlerUpType DEF SyncHandler, control
<1>6. CASE SyncFinish(v)
  <2>1. row' \in [Version -> Row]
    BY <1>6, StatusType, UpdateStatusType DEF SyncFinish, SfnStep, Phase
  <2>. QED BY <1>6, <2>1 DEF SyncFinish, GoTo, At, Ended
<1>. QED BY <1>1, <1>2, <1>3, <1>4, <1>5, <1>6 DEF SyncRequest

(* So do the states of an execution, their status writes included.         *)
LEMMA ExecutionType ==
  ASSUME TypeOK, NEW v \in Version, Execution(v)
  PROVE  TypeOK'
<1> USE DEF TypeOK, TablesTypeOK
<1>1. CASE Deliver(v)
  BY <1>1 DEF Deliver, tables, GoTo, At, SfnStep
<1>2. CASE Begin(v)
  <2>1. row' \in [Version -> Row]
    BY <1>2, StatusType, UpdateStatusType DEF Begin, Phase
  <2>. QED BY <1>2, <2>1 DEF Begin, GoTo, At
<1>3. CASE CheckVersion(v)
  <2>1. PICK d \in DataRead : verdict' = [verdict EXCEPT ![v] = CheckResult(v, d)]
    BY <1>3 DEF CheckVersion
  <2>2. CheckResult(v, d) \in {-1, 0, 1}
    BY DEF CheckResult
  <2>. QED BY <1>3, <2>1, <2>2 DEF CheckVersion, GoTo, At, tables
<1>4. CASE SetTtlRead(v)
  <2>1. snap' \in [Version -> Row]
    BY <1>4, NoRowType DEF SetTtlRead, updateTtlRead, TtlHasPredecessor, Stored
  <2>. QED BY <1>4, <2>1 DEF SetTtlRead, GoTo, At
<1>5. CASE SetTtlPut(v)
  <2>1. row' \in [Version -> Row] /\ snap' \in [Version -> Row]
    BY <1>5, NoRowType DEF SetTtlPut, updateTtlPut
  <2>. QED BY <1>5, <2>1 DEF SetTtlPut, GoTo, At
<1>6. CASE HistoryCopy(v)
  <2>1. PICK d \in DataRead : historyPublish(d)
    BY <1>6 DEF HistoryCopy
  <2>2. d \in 0 .. MaxVersion
    BY DataReadType
  <2>3. history' \subseteq Version
    BY <2>1, <2>2 DEF historyPublish
  <2>. QED BY <1>6, <2>3 DEF HistoryCopy, GoTo, At
<1>7. CASE TransformData(v)
  BY <1>7 DEF TransformData, tables, GoTo, At
<1>8. ASSUME NEW h \in Handlers, SyncData(v, h)
      PROVE  TypeOK'
  <2>1. row' \in [Version -> Row]
    BY <1>8, StatusType, UpdateStatusType DEF SyncData, Phase, SfnStep
  <2>. QED BY <1>8, <2>1, HandlerUpType DEF SyncData, control
<1>9. CASE SyncDataAllDone(v)
  BY <1>9 DEF SyncDataAllDone, tables, GoTo, At, SfnStep
<1>10. CASE CheckNextToken(v)
  BY <1>10 DEF CheckNextToken, ResumedStep, ResumedAt, GoTo, At, SfnStep, tables
<1>11. CASE End(v)
  <2>1. row' \in [Version -> Row]
    BY <1>11, StatusType, UpdateStatusType DEF End, Phase
  <2>2. NextStep(v) \in SfnStep \cup Ended /\ Entry(NextStep(v)) \in At
    BY NextStepType DEF Entry, At
  <2>. QED BY <1>11, <2>1, <2>2 DEF End, GoTo
<1>. QED BY <1>1, <1>2, <1>3, <1>4, <1>5, <1>6, <1>7, <1>8, <1>9, <1>10, <1>11
     DEF Execution

(* So does the Lambda of wait_prev_command.                                *)
LEMMA WaitLambdaType ==
  ASSUME TypeOK, NEW v \in Version, WaitLambda(v)
  PROVE  TypeOK'
<1> USE DEF TypeOK, TablesTypeOK, WaitStep
<1>1. CASE WaitBegin(v)
  <2>1. row' \in [Version -> Row]
    BY <1>1, StatusType, UpdateStatusType DEF WaitBegin, Phase, SfnStep
  <2>. QED BY <1>1, <2>1 DEF WaitBegin
<1>2. CASE StoreToken(v)
  <2>1. row' \in [Version -> Row]
    BY <1>2, UpdateTaskTokenType DEF StoreToken
  <2>. QED BY <1>2, <2>1 DEF StoreToken
<1>3. CASE SelfResume(v)
  BY <1>3 DEF SelfResume, ResumedStep, ResumedAt, SfnStep, At, tables
<1>4. CASE WaitEnd(v)
  <2>1. row' \in [Version -> Row]
    BY <1>4, StatusType, UpdateStatusType DEF WaitEnd, Phase, SfnStep
  <2>. QED BY <1>4, <2>1 DEF WaitEnd
<1>. QED BY <1>1, <1>2, <1>3, <1>4 DEF WaitLambda

(* So do failures, retries and the timer.                                  *)
LEMMA FailureType ==
  ASSUME TypeOK, NEW v \in Version, Failure(v) \/ Timeout(v)
  PROVE  TypeOK'
<1> USE DEF TypeOK, TablesTypeOK
<1>1. CASE SyncFail(v)
  <2>1. row' \in [Version -> Row]
    BY <1>1, StatusType, UpdateStatusType DEF SyncFail, Phase
  <2>. QED BY <1>1, <2>1, NoRowType DEF SyncFail, GoTo, At, Ended
<1>2. CASE StepFail(v)
  <2>1. row' \in [Version -> Row]
    BY <1>2, StatusType, UpdateStatusType DEF StepFail, Phase
  <2>. QED BY <1>2, <2>1, NoRowType DEF StepFail, GoTo, At, Ended
<1>3. CASE WaitFail(v)
  <2>1. row' \in [Version -> Row]
    BY <1>3, StatusType, UpdateStatusType DEF WaitFail, Phase, SfnStep
  <2>. QED BY <1>3, <2>1 DEF WaitFail, Ended
<1>4. CASE Retry(v)
  BY <1>4, NoRowType DEF Retry, GoTo, At
<1>5. CASE Timeout(v)
  BY <1>5 DEF Timeout, Ended, tables
<1>. QED BY <1>1, <1>2, <1>3, <1>4, <1>5 DEF Failure

(* Every reachable state is typed, whatever the callers and the faults.    *)
THEOREM TypeCorrect == Spec => []TypeOK
<1>1. Init => TypeOK
  BY NoRowType DEF Init, TablesInit, TypeOK, TablesTypeOK, At, NoDraft
<1>2. TypeOK /\ [Next]_vars => TypeOK'
  <2>1. CASE Next
    BY <2>1, CallersType, SyncRequestType, ExecutionType, WaitLambdaType, FailureType
    DEF Next
  <2>2. CASE UNCHANGED vars
    BY <2>2 DEF vars, TypeOK, TablesTypeOK
  <2>. QED BY <2>1, <2>2
<1>. QED BY <1>1, <1>2, PTL DEF Spec

-----------------------------------------------------------------------------
(***************************************************************************)
(* The log is append-only.                                                 *)
(***************************************************************************)

(* What the single-attribute updates do to a row, and to no other.         *)
LEMMA UpdateStatusFact ==
  ASSUME TypeOK, NEW v \in Version, NEW s, updateStatus(v, s)
  PROVE  /\ \A w \in Version : /\ row'[w].mode = row[w].mode
                              /\ row'[w].token = row[w].token
                              /\ row'[w].status = IF w = v THEN s ELSE row[w].status
<1>1. row \in [Version -> Row] /\ row[v] \in Row
  BY DEF TypeOK, TablesTypeOK
<1>2. DEFINE r == [row[v] EXCEPT !.status = s]
<1>3. r.mode = row[v].mode /\ r.token = row[v].token /\ r.status = s
  BY <1>1 DEF Row
<1>4. row' = [row EXCEPT ![v] = r]
  BY DEF updateStatus
<1>. HIDE DEF r
<1>. QED BY <1>1, <1>3, <1>4

(* A token's update touches nothing else of the row.                       *)
LEMMA UpdateTaskTokenFact ==
  ASSUME TypeOK, NEW v \in Version, NEW t, updateTaskToken(v, t)
  PROVE  /\ \A w \in Version : /\ row'[w].mode = row[w].mode
                              /\ row'[w].status = row[w].status
                              /\ row'[w].token = IF w = v THEN t ELSE row[w].token
<1>1. row \in [Version -> Row] /\ row[v] \in Row
  BY DEF TypeOK, TablesTypeOK
<1>2. DEFINE r == [row[v] EXCEPT !.token = t]
<1>3. r.mode = row[v].mode /\ r.status = row[v].status /\ r.token = t
  BY <1>1 DEF Row
<1>4. row' = [row EXCEPT ![v] = r]
  BY DEF updateTaskToken
<1>. HIDE DEF r
<1>. QED BY <1>1, <1>3, <1>4

(* Only the publishing methods change the mode of a row.                   *)
KeepsModes == \A w \in Version : row'[w].mode = row[w].mode

(* Nothing but a publish changes a row's mode, or the draft.               *)
LEMMA ModesKept ==
  ASSUME LogInv, NEW v \in Version,
         SyncRequest(v) \/ Execution(v) \/ WaitLambda(v) \/ Timeout(v) \/ Failure(v)
  PROVE  KeepsModes /\ UNCHANGED draft
<1>. USE DEF KeepsModes
<1>1. TypeOK /\ SnapOfPredecessor
  BY DEF LogInv
<1>2. CASE UNCHANGED <<row, draft>>
  BY <1>2
<1>3. ASSUME NEW s, updateStatus(v, s), UNCHANGED draft
      PROVE  KeepsModes /\ UNCHANGED draft
  BY <1>1, <1>3, UpdateStatusFact
<1>4. ASSUME at[v] = "put", updateTtlPut(v), UNCHANGED draft
      PROVE  KeepsModes /\ UNCHANGED draft
  BY <1>1, <1>4 DEF SnapOfPredecessor, TtlHasPredecessor, Stored, updateTtlPut,
     TypeOK, TablesTypeOK
<1>5. CASE StoreToken(v)
  BY <1>1, <1>5, UpdateTaskTokenFact DEF StoreToken
<1>6. CASE SyncRequest(v)
  BY <1>2, <1>3, <1>4, <1>6 DEF SyncRequest, SyncTtlRead, SyncTtlPut, SyncHistory,
     SyncPublishData, SyncHandler, SyncFinish, SyncAt, control
<1>7. CASE Execution(v)
  BY <1>2, <1>3, <1>4, <1>7 DEF Execution, Deliver, Begin, CheckVersion, SetTtlRead,
     SetTtlPut, HistoryCopy, TransformData, SyncData, SyncDataAllDone,
     CheckNextToken, End, InStep, control, tables
<1>8. CASE WaitLambda(v)
  BY <1>2, <1>3, <1>5, <1>8 DEF WaitLambda, WaitBegin, SelfResume, WaitEnd, tables
<1>9. CASE Timeout(v) \/ Failure(v)
  BY <1>2, <1>3, <1>9 DEF Timeout, Failure, SyncFail, StepFail, WaitFail, Retry, tables
<1>. QED BY <1>6, <1>7, <1>8, <1>9

(* Where a version can come to run, or to have its predecessor's row read: *)
(* everything but Deliver, the resumption of a waiting execution and the   *)
(* first request of updateTtl stays within what already runs.              *)
LEMMA StepsOfStored ==
  ASSUME LogInv, NEW v \in Version,
         SyncRequest(v) \/ Execution(v) \/ WaitLambda(v) \/ Timeout(v) \/ Failure(v)
  PROVE  OnlyStoredRuns'
<1>1. /\ TypeOK /\ OnlyStoredRuns
      /\ \A w \in Version : Stored(w)' <=> Stored(w)
  BY ModesKept DEF LogInv, KeepsModes, Stored
<1>2. step \in [Version -> SfnStep \cup {"none", "publish_sync"} \cup Ended]
  BY <1>1 DEF TypeOK
<1>. SUFFICES \A w \in Version : step'[w] # "none" => Stored(w)
  BY <1>1 DEF OnlyStoredRuns
<1>3. CASE UNCHANGED step
  BY <1>1, <1>3 DEF OnlyStoredRuns
<1>4. ASSUME NEW s, step' = [step EXCEPT ![v] = s], Stored(v)
      PROVE  \A w \in Version : step'[w] # "none" => Stored(w)
  BY <1>1, <1>2, <1>4 DEF OnlyStoredRuns
<1>5. ASSUME NEW t, step' = ResumedStep(t)
      PROVE  \A w \in Version : step'[w] # "none" => Stored(w)
  BY <1>1, <1>2, <1>5 DEF OnlyStoredRuns, ResumedStep, TokenOpen, Waiting
<1>6. CASE SyncRequest(v)
  BY <1>1, <1>3, <1>4, <1>6 DEF SyncRequest, SyncTtlRead, SyncTtlPut, SyncHistory,
     SyncPublishData, SyncHandler, SyncFinish, SyncAt, control, OnlyStoredRuns
<1>7. CASE Execution(v)
  <2>1. Deliver(v) => Stored(v)
    BY DEF Deliver, Stored
  <2>2. step[v] \in SfnStep => Stored(v)
    BY <1>1 DEF OnlyStoredRuns, SfnStep
  <2>. QED
    BY <1>3, <1>4, <1>5, <1>7, <2>1, <2>2 DEF Execution, Deliver, Begin, CheckVersion,
       SetTtlRead, SetTtlPut, HistoryCopy, TransformData, SyncData, SyncDataAllDone,
       CheckNextToken, End, InStep, control, tables, SfnStep
<1>8. CASE WaitLambda(v)
  BY <1>3, <1>5, <1>8 DEF WaitLambda, WaitBegin, StoreToken, SelfResume, WaitEnd
<1>9. CASE Timeout(v) \/ SyncFail(v) \/ StepFail(v) \/ Retry(v)
  <2>1. Stored(v)
    BY <1>1, <1>9 DEF Timeout, SyncFail, StepFail, Retry, OnlyStoredRuns, SfnStep, Waiting
  <2>. QED BY <1>3, <1>4, <1>9, <2>1 DEF Timeout, SyncFail, StepFail, Retry
<1>10. CASE WaitFail(v)
  <2>1. CASE Waiting(v)
    BY <1>1, <1>4, <1>10, <2>1 DEF WaitFail, OnlyStoredRuns, Waiting
  <2>2. CASE ~Waiting(v)
    BY <1>1, <1>2, <1>10, <2>2 DEF WaitFail, OnlyStoredRuns, Waiting
  <2>. QED BY <2>1, <2>2
<1>. QED BY <1>6, <1>7, <1>8, <1>9, <1>10 DEF Failure

(* A handler is only given a version that runs, and the data row shows one *)
(* of the versions its handler was given.                                  *)
LEMMA HandledAreStored ==
  ASSUME LogInv, NEW v \in Version,
         SyncRequest(v) \/ Execution(v) \/ WaitLambda(v) \/ Timeout(v) \/ Failure(v)
  PROVE  OnlyStoredHandled'
<1>1. /\ TypeOK /\ OnlyStoredRuns /\ OnlyStoredHandled
      /\ \A w \in Version : Stored(w)' <=> Stored(w)
  BY ModesKept DEF LogInv, KeepsModes, Stored
<1>2. CASE UNCHANGED <<view, handled>>
  BY <1>1, <1>2 DEF OnlyStoredHandled, TypeOK, TablesTypeOK
<1>3. ASSUME NEW h \in Handlers, handlerUp(v, h), step[v] # "none"
      PROVE  OnlyStoredHandled'
  <2>1. Stored(v)'
    BY <1>1, <1>3 DEF OnlyStoredRuns
  <2>2. \A g \in Handlers : \A w \in handled'[g] : Stored(w)'
    BY <1>1, <1>3, <2>1 DEF OnlyStoredHandled, TypeOK, TablesTypeOK, handlerUp
  <2>3. view'[Dds] \in {0} \cup handled'[Dds]
    BY <1>1, <1>3 DEF OnlyStoredHandled, TypeOK, TablesTypeOK, handlerUp
  <2>. QED BY <2>2, <2>3 DEF OnlyStoredHandled
<1>4. CASE SyncRequest(v)
  BY <1>2, <1>3, <1>4 DEF SyncRequest, SyncTtlRead, SyncTtlPut, SyncHistory,
     SyncPublishData, SyncHandler, SyncFinish, SyncAt
<1>5. CASE Execution(v)
  BY <1>2, <1>3, <1>5 DEF Execution, Deliver, Begin, CheckVersion, SetTtlRead,
     SetTtlPut, HistoryCopy, TransformData, SyncData, SyncDataAllDone,
     CheckNextToken, End, tables
<1>6. CASE WaitLambda(v)
  BY <1>2, <1>6 DEF WaitLambda, WaitBegin, StoreToken, SelfResume, WaitEnd, tables
<1>7. CASE Timeout(v) \/ Failure(v)
  BY <1>2, <1>7 DEF Timeout, Failure, SyncFail, StepFail, WaitFail, Retry, tables
<1>. QED BY <1>4, <1>5, <1>6, <1>7

(* The row that updateTtl holds stays one of the predecessor's.            *)
LEMMA SnapsKept ==
  ASSUME LogInv, NEW v \in Version,
         SyncRequest(v) \/ Execution(v) \/ WaitLambda(v) \/ Timeout(v) \/ Failure(v)
  PROVE  SnapOfPredecessor'
<1>1. /\ TypeOK /\ SnapOfPredecessor /\ KeepsModes
      /\ \A w \in Version : TtlHasPredecessor(w)' <=> TtlHasPredecessor(w)
      /\ \A w \in Version : TtlHasPredecessor(w) => w - 1 \in Version
  BY ModesKept DEF LogInv, KeepsModes, Stored, TtlHasPredecessor
<1>2. at \in [Version -> At] /\ snap \in [Version -> Row]
  BY <1>1 DEF TypeOK, TablesTypeOK
<1>. USE DEF SnapOfPredecessor, KeepsModes
(* w keeps its snapshot, or gives it up and is not about to put it.        *)
<1>3. SUFFICES \A w \in Version :
                 at'[w] = "put" =>
                   /\ TtlHasPredecessor(w)
                   /\ snap'[w].mode = row[w - 1].mode
  BY <1>1
<1>4. CASE UNCHANGED <<at, snap>>
  BY <1>1, <1>4
<1>5. ASSUME NEW a, a # "put", at' = [at EXCEPT ![v] = a],
             \/ UNCHANGED snap
             \/ snap' = [snap EXCEPT ![v] = NoRow]
      PROVE  \A w \in Version :
                 at'[w] = "put" =>
                   /\ TtlHasPredecessor(w)
                   /\ snap'[w].mode = row[w - 1].mode
  BY <1>1, <1>2, <1>5
<1>6. ASSUME NEW a, updateTtlRead(v),
             at' = [at EXCEPT ![v] = IF TtlHasPredecessor(v) THEN "put" ELSE a],
             a # "put"
      PROVE  \A w \in Version :
                 at'[w] = "put" =>
                   /\ TtlHasPredecessor(w)
                   /\ snap'[w].mode = row[w - 1].mode
  BY <1>1, <1>2, <1>6 DEF updateTtlRead
<1>7. ASSUME NEW t, UNCHANGED snap,
             \/ at' = ResumedAt(t)
             \/ at' = [ResumedAt(t) EXCEPT ![v] = "end"]
      PROVE  \A w \in Version :
                 at'[w] = "put" =>
                   /\ TtlHasPredecessor(w)
                   /\ snap'[w].mode = row[w - 1].mode
  BY <1>1, <1>2, <1>7 DEF ResumedAt, TokenOpen
<1>8. CASE SyncRequest(v)
  BY <1>4, <1>5, <1>6, <1>8 DEF SyncRequest, SyncTtlRead, SyncTtlPut, SyncHistory,
     SyncPublishData, SyncHandler, SyncFinish, GoTo, updateTtlPut, control
<1>9. CASE Execution(v)
  <2>1. Entry(NextStep(v)) # "put"
    BY DEF Entry
  <2>. QED
    BY <1>4, <1>5, <1>6, <1>7, <1>9, <2>1 DEF Execution, Deliver, Begin, CheckVersion,
       SetTtlRead, SetTtlPut, HistoryCopy, TransformData, SyncData, SyncDataAllDone,
       CheckNextToken, End, GoTo, updateTtlPut, tables, control
<1>10. CASE WaitLambda(v)
  BY <1>4, <1>7, <1>10 DEF WaitLambda, WaitBegin, StoreToken, SelfResume, WaitEnd, tables
<1>11. CASE Timeout(v) \/ Failure(v)
  BY <1>4, <1>5, <1>11 DEF Timeout, Failure, SyncFail, StepFail, WaitFail, Retry, GoTo, tables
<1>. QED BY <1>8, <1>9, <1>10, <1>11

(* Every publishing method adds one version, after one that is stored, and *)
(* leaves the others as they are.                                          *)
Appends(v) ==
  /\ ~Stored(v)
  /\ v > 1 => Stored(v - 1)
  /\ row'[v].mode # "NONE"
  /\ \A w \in Version \ {v} : row'[w] = row[w]

(* A publish writes nothing, or one row that was free.                     *)
LEMMA PublishAppends ==
  ASSUME LogInv, NEW v \in Version, Publish(v) \/ PutDraft
  PROVE  \/ UNCHANGED row
         \/ \E w \in Version : Appends(w)
<1>1. TypeOK /\ OnlyStoredHandled /\ DraftOfStored
  BY DEF LogInv
<1>2. row \in [Version -> Row]
  BY <1>1 DEF TypeOK, TablesTypeOK
<1>3. ASSUME NEW w \in Version, NEW r, r.mode # "NONE", PutIfAbsent(w, r),
             w > 1 => Stored(w - 1)
      PROVE  Appends(w)
  BY <1>2, <1>3 DEF PutIfAbsent, Appends, Stored
<1>4. CASE PublishAsync(v)
  BY <1>3, <1>4 DEF PublishAsync
<1>5. CASE PublishSync(v)
  <2>1. \A d \in DataRead : d > 0 => Stored(d)
    BY <1>1 DEF DataRead, OnlyStoredHandled
  <2>. QED BY <1>3, <1>5, <2>1 DEF PublishSync
<1>6. CASE ReadBase(v)
  BY <1>6 DEF ReadBase, tables
<1>7. CASE PutDraft
  <2>1. DEFINE n == draft.base + 1
  <2>2. n \in Version /\ draft.item.mode # "NONE"
    BY <1>1, <1>7 DEF PutDraft, DraftOfStored
  <2>3. n - 1 = draft.base /\ Stored(draft.base)
    BY <1>1, <1>7 DEF PutDraft, DraftOfStored, TypeOK
  <2>4. UNCHANGED row \/ PutIfAbsent(n, draft.item)
    BY <1>7 DEF PutDraft
  <2>. HIDE DEF n
  <2>. QED BY <1>3, <2>2, <2>3, <2>4
<1>. QED BY <1>4, <1>5, <1>6, <1>7 DEF Publish

(* Publishing preserves the rest of the invariant.                         *)
LEMMA PublishLogInv ==
  ASSUME LogInv, NEW v \in Version, Publish(v) \/ PutDraft
  PROVE  LogInv'
<1>1. /\ TypeOK /\ TypeOK' /\ Contiguous /\ OnlyStoredRuns
      /\ OnlyStoredHandled /\ SnapOfPredecessor /\ DraftOfStored
  BY CallersType DEF LogInv
<1>2. /\ row \in [Version -> Row] /\ step \in [Version -> SfnStep \cup {"none", "publish_sync"} \cup Ended]
      /\ at \in [Version -> At]
  BY <1>1 DEF TypeOK, TablesTypeOK
<1>3. \A w \in Version : Stored(w) => Stored(w)' /\ row'[w] = row[w]
  BY PublishAppends DEF Appends, Stored
<1>4. Contiguous'
  BY <1>1, <1>3, PublishAppends DEF Contiguous, Appends, Stored
<1>5. OnlyStoredRuns'
  <2>1. CASE UNCHANGED step
    BY <1>1, <1>3, <2>1 DEF OnlyStoredRuns
  <2>2. CASE PublishSync(v)
    <3>1. Stored(v)'
      BY <1>2, <2>2 DEF PublishSync, PutIfAbsent, Stored
    <3>. QED BY <1>1, <1>2, <1>3, <2>2, <3>1 DEF OnlyStoredRuns, PublishSync
  <2>. QED BY <2>1, <2>2 DEF Publish, PublishAsync, ReadBase, PutDraft, control
<1>6. OnlyStoredHandled'
  BY <1>1, <1>3 DEF OnlyStoredHandled, Publish, PublishAsync, PublishSync, ReadBase,
     PutDraft, tables, TypeOK, TablesTypeOK
<1>7. SnapOfPredecessor'
  <2>1. UNCHANGED snap /\ \A w \in Version : at'[w] = "put" => at[w] = "put"
    BY <1>2 DEF Publish, PublishAsync, PublishSync, ReadBase, PutDraft, tables, control, GoTo
  <2>2. \A w \in Version : TtlHasPredecessor(w) =>
          /\ TtlHasPredecessor(w)'
          /\ row'[w - 1] = row[w - 1]
    BY <1>3 DEF TtlHasPredecessor, Stored
  <2>. QED BY <1>1, <2>1, <2>2 DEF SnapOfPredecessor
<1>8. DraftOfStored'
  <2>1. CASE UNCHANGED draft
    BY <1>1, <1>3, <2>1 DEF DraftOfStored, Stored
  <2>2. CASE ReadBase(v)
    <3>1. row[v] \in Row /\ row[v].mode # "NONE" /\ UNCHANGED row
      BY <1>2, <2>2 DEF ReadBase, Stored, tables
    <3>2. DEFINE merged == [row[v] EXCEPT !.mode = "ASYNC"]
    <3>3. merged.mode # "NONE"
      BY <3>1 DEF Row
    <3>4. draft' = [base |-> v, item |-> merged] \/ draft' = [base |-> v, item |-> row[v]]
      BY <2>2 DEF ReadBase
    <3>. HIDE DEF merged
    <3>5. draft'.base = v /\ draft'.item.mode # "NONE"
      BY <3>1, <3>3, <3>4
    <3>. QED BY <2>2, <3>1, <3>5 DEF DraftOfStored, ReadBase, Stored
  <2>3. CASE PutDraft
    BY <2>3 DEF PutDraft, DraftOfStored, NoDraft
  <2>. QED BY <2>1, <2>2, <2>3 DEF Publish, PublishAsync, PublishSync, control
<1>. QED BY <1>1, <1>4, <1>5, <1>6, <1>7, <1>8 DEF LogInv

(* The invariant is inductive.                                             *)
LEMMA LogInvInit == Init => LogInv
<1>1. Init => TypeOK
  BY NoRowType DEF Init, TablesInit, TypeOK, TablesTypeOK, At, NoDraft
<1>. QED
  BY <1>1 DEF Init, TablesInit, LogInv, Contiguous, OnlyStoredRuns, OnlyStoredHandled,
     SnapOfPredecessor, DraftOfStored, NoDraft, Stored, NoRow

(* Every step keeps the log's invariant.                                   *)
LEMMA LogInvStep == LogInv /\ [Next]_vars => LogInv'
<1>. SUFFICES ASSUME LogInv, [Next]_vars PROVE LogInv'
  OBVIOUS
<1>1. CASE UNCHANGED vars
  BY <1>1 DEF vars, LogInv, TypeOK, TablesTypeOK, Contiguous, OnlyStoredRuns,
     OnlyStoredHandled, SnapOfPredecessor, TtlHasPredecessor, DraftOfStored, Stored
<1>2. CASE PutDraft
  BY <1>2, MaxVersionAssumption, PublishLogInv
<1>3. ASSUME NEW v \in Version, Publish(v)
      PROVE  LogInv'
  BY <1>3, PublishLogInv
<1>4. ASSUME NEW v \in Version,
             SyncRequest(v) \/ Execution(v) \/ WaitLambda(v) \/ Timeout(v) \/ Failure(v)
      PROVE  LogInv'
  <2>1. TypeOK'
    BY <1>4, SyncRequestType, ExecutionType, WaitLambdaType, FailureType DEF LogInv
  <2>2. Contiguous' /\ DraftOfStored'
    BY <1>4, ModesKept DEF LogInv, KeepsModes, Contiguous, DraftOfStored, Stored
  <2>. QED BY <1>4, <2>1, <2>2, StepsOfStored, HandledAreStored, SnapsKept DEF LogInv
<1>. QED BY <1>1, <1>2, <1>3, <1>4 DEF Next

(* What makes the log's property inductive: versions have no gap, nothing  *)
(* runs for a version that is not stored, and a row that updateTtl or a    *)
(* partial update will write is one of a stored command.                   *)
THEOREM LogInvariant == Spec => []LogInv
BY LogInvInit, LogInvStep, PTL DEF Spec

(* No stored command is ever replaced, removed or preceded by a gap, for   *)
(* all callers and all faults.                                             *)
THEOREM LogIsAppendOnly == Spec => AppendOnlyLog
<1>. DEFINE Grows == \A v \in Version :
       /\ Stored(v) => row'[v].mode = row[v].mode
       /\ v > 1 /\ ~Stored(v) /\ row'[v].mode # "NONE" => Stored(v - 1)
<1>1. LogInv /\ [Next]_vars => [Grows]_row
  <2>. SUFFICES ASSUME LogInv, [Next]_vars, row' # row PROVE Grows
    OBVIOUS
  <2>1. ASSUME KeepsModes PROVE Grows
    BY <2>1 DEF KeepsModes, Stored
  <2>2. ASSUME NEW w \in Version, Appends(w) PROVE Grows
    BY <2>2 DEF Appends, Stored
  <2>3. CASE PutDraft
    BY <2>2, <2>3, MaxVersionAssumption, PublishAppends
  <2>. HIDE DEF Grows
  <2>. QED BY <2>1, <2>2, <2>3, PublishAppends, ModesKept DEF Next, vars
<1>. QED BY <1>1, LogInvariant, PTL DEF Spec, AppendOnlyLog

-----------------------------------------------------------------------------
(***************************************************************************)
(* The order theorems of CommandSync, for every MaxVersion and every set   *)
(* of handlers: when commands are published with publishAsync and          *)
(* publishSync only and no Lambda is invoked again after it has run, the   *)
(* data table moves through the versions one by one, the statuses that the *)
(* handshake trusts are sound, and the token of a waiting execution stays  *)
(* in its row.                                                             *)
(***************************************************************************)
Orderly == Callers \subseteq {"async", "sync"} /\ "retry" \notin Faults

Progress(v) ==
  SyncRequest(v) \/ Execution(v) \/ WaitLambda(v) \/ Timeout(v) \/ Failure(v)

-----------------------------------------------------------------------------
(***************************************************************************)
(* What the invariant says, in the form the steps use it.                  *)
(***************************************************************************)
LEMMA Typed ==
  ASSUME LogInv
  PROVE  /\ row \in [Version -> Row]
         /\ view \in [Handlers -> 0 .. MaxVersion]
         /\ handled \in [Handlers -> SUBSET Version]
         /\ snap \in [Version -> Row]
         /\ step \in [Version -> SfnStep \cup {"none", "publish_sync"} \cup Ended]
         /\ at \in [Version -> At]
         /\ verdict \in [Version -> {-1, 0, 1}]
         /\ waiter \in [Version -> {"none", "start", "body", "stored", "end", "done"}]
BY DEF LogInv, TypeOK, TablesTypeOK

(* What a handler's run does to its view and to what it handled.           *)
LEMMA HandlerUpFact ==
  ASSUME LogInv, NEW v \in Version, NEW h \in Handlers, handlerUp(v, h)
  PROVE  /\ view'[Dds] = IF h = Dds THEN v ELSE view[Dds]
         /\ \A g \in Handlers :
              handled'[g] = IF g = h THEN handled[g] \cup {v} ELSE handled[g]
BY Typed DEF handlerUp

(* Statuses that are not those of finish.                                  *)
LEMMA NotFinish ==
  ASSUME NEW s, NEW p, s # "finish" \/ p \notin {"STARTED", "FINISHED"}
  PROVE  getCommandStatus(s, p) \notin EnteredFinish
BY DEF getCommandStatus, EnteredFinish

-----------------------------------------------------------------------------
(***************************************************************************)
(* The data table.                                                         *)
(***************************************************************************)

(* A step leaves the data table alone, or moves it from version v - 1 to   *)
(* the version v it works for.                                             *)
DataStays == view'[Dds] = view[Dds] /\ handled'[Dds] = handled[Dds]
DataMoves(v) ==
  /\ SyncPublishData(v) \/ SyncData(v, Dds)
  /\ view[Dds] = v - 1 /\ view'[Dds] = v
  /\ handled'[Dds] = handled[Dds] \cup {v}

(* A step of version v leaves the data table alone, or moves it from v - 1 *)
(* to v.                                                                   *)
LEMMA DataStep ==
  ASSUME Orderly, OrderInv, NEW v \in Version, Progress(v)
  PROVE  /\ \A h \in Handlers : handled[h] \subseteq handled'[h]
         /\ DataStays \/ DataMoves(v)
<1>1. LogInv /\ DataIsPrefix /\ GateIsSound /\ NotYetSynced
  BY DEF OrderInv
<1>2. view[Dds] \in 0 .. MaxVersion
  BY <1>1, Typed
<1>3. CASE UNCHANGED <<view, handled>>
  BY <1>3 DEF DataStays
<1>4. CASE SyncPublishData(v)
  <2>1. view[Dds] = v - 1
    BY <1>1, <1>2, <1>4 DEF SyncPublishData, SyncAt, GateIsSound, PastGate, NotYetSynced
  <2>. QED BY <1>1, <1>4, <2>1, HandlerUpFact DEF SyncPublishData, DataMoves
<1>5. ASSUME NEW h \in Handlers, SyncHandler(v, h)
      PROVE  /\ \A g \in Handlers : handled[g] \subseteq handled'[g]
             /\ DataStays
  BY <1>1, <1>5, HandlerUpFact DEF SyncHandler, DataStays
<1>6. ASSUME NEW h \in Handlers, SyncData(v, h), h # Dds
      PROVE  /\ \A g \in Handlers : handled[g] \subseteq handled'[g]
             /\ DataStays
  BY <1>1, <1>6, HandlerUpFact DEF SyncData, DataStays
<1>7. CASE SyncData(v, Dds)
  <2>1. v \notin handled[Dds] /\ v - 1 <= view[Dds]
    BY <1>1, <1>7 DEF SyncData, Orderly, GateIsSound, PastGate
  <2>2. view[Dds] = v - 1
    BY <1>1, <1>2, <2>1 DEF DataIsPrefix
  <2>. QED BY <1>1, <1>7, <2>2, HandlerUpFact DEF SyncData, DataMoves
<1>8. CASE SyncRequest(v)
  BY <1>3, <1>4, <1>5, <1>8 DEF SyncRequest, SyncTtlRead, SyncTtlPut, SyncHistory, SyncFinish
<1>9. CASE Execution(v)
  BY <1>3, <1>6, <1>7, <1>9 DEF Execution, Deliver, Begin, CheckVersion, SetTtlRead,
     SetTtlPut, HistoryCopy, TransformData, SyncDataAllDone, CheckNextToken, End, tables
<1>10. CASE WaitLambda(v)
  BY <1>3, <1>10 DEF WaitLambda, WaitBegin, StoreToken, SelfResume, WaitEnd, tables
<1>11. CASE Timeout(v) \/ Failure(v)
  BY <1>3, <1>11 DEF Timeout, Failure, SyncFail, StepFail, WaitFail, Retry, tables
<1>. QED BY <1>8, <1>9, <1>10, <1>11 DEF Progress

(* The data table stays a prefix of the commands, and never goes back.     *)
LEMMA PrefixKept ==
  ASSUME Orderly, OrderInv, NEW v \in Version, Progress(v)
  PROVE  DataIsPrefix' /\ view[Dds] <= view'[Dds]
<1>1. DataIsPrefix /\ view[Dds] \in 0 .. MaxVersion
  BY Typed DEF OrderInv
<1>2. CASE DataStays
  BY <1>1, <1>2 DEF DataStays, DataIsPrefix
<1>3. CASE DataMoves(v)
  BY <1>1, <1>3 DEF DataMoves, DataIsPrefix
<1>. QED BY <1>2, <1>3, DataStep

(* What was synced stays synced.                                           *)
LEMMA SyncedKept ==
  ASSUME Orderly, OrderInv, NEW v \in Version, Progress(v),
         NEW w, Synced(w)
  PROVE  Synced(w)'
BY DataStep DEF Synced

(* A version whose handlers are done is in the data table.                 *)
LEMMA SyncedIsApplied ==
  ASSUME OrderInv, NEW w \in Version, Synced(w)
  PROVE  w <= view[Dds]
BY Typed DEF OrderInv, DataIsPrefix, Synced

-----------------------------------------------------------------------------
(***************************************************************************)
(* Control: a step for v moves v only; finish may also resume v + 1.       *)
(***************************************************************************)
Unmoved(w) == /\ step'[w] = step[w] /\ at'[w] = at[w]
              /\ verdict'[w] = verdict[w] /\ waiter'[w] = waiter[w]

Resumed(w) == /\ Waiting(w)
              /\ step'[w] = "set_ttl_command" /\ at'[w] = "start"
              /\ verdict'[w] = verdict[w]

(* A step of v moves no other execution, but for v + 1 when v hands over to*)
(* it.                                                                     *)
LEMMA ControlStep ==
  ASSUME OrderInv, NEW v \in Version, Progress(v), NEW w \in Version, w # v
  PROVE  \/ Unmoved(w)
         \/ /\ CheckNextToken(v) /\ w = v + 1
            /\ Resumed(w) /\ waiter'[w] = waiter[w]
<1>1. LogInv /\ TokenIsOwn
  BY DEF OrderInv
<1>2. /\ step \in [Version -> SfnStep \cup {"none", "publish_sync"} \cup Ended]
      /\ at \in [Version -> At]
      /\ verdict \in [Version -> {-1, 0, 1}]
      /\ waiter \in [Version -> {"none", "start", "body", "stored", "end", "done"}]
  BY <1>1, Typed
<1>. USE DEF Unmoved, GoTo
<1>3. CASE SyncRequest(v)
  BY <1>2, <1>3 DEF SyncRequest, SyncTtlRead, SyncTtlPut, SyncHistory, SyncPublishData,
     SyncHandler, SyncFinish, control
<1>4. CASE CheckNextToken(v)
  <2>1. CASE GoTo(v, "end") /\ UNCHANGED <<step, verdict, waiter>>
    BY <1>2, <2>1
  <2>2. CASE /\ step' = ResumedStep(NextToken(v))
             /\ at' = [ResumedAt(NextToken(v)) EXCEPT ![v] = "end"]
             /\ UNCHANGED <<verdict, waiter>>
    <3>1. NextToken(v) = 0 \/ NextToken(v) = v + 1
      BY <1>1 DEF NextToken, TokenIsOwn, Stored
    <3>. QED BY <1>2, <1>4, <2>2, <3>1 DEF ResumedStep, ResumedAt, TokenOpen, Resumed
  <2>. QED BY <1>4, <2>1, <2>2 DEF CheckNextToken
<1>5. CASE Deliver(v) \/ Begin(v) \/ CheckVersion(v) \/ SetTtlRead(v) \/ SetTtlPut(v)
  BY <1>2, <1>5 DEF Deliver, Begin, CheckVersion, SetTtlRead, SetTtlPut
<1>6. CASE \/ HistoryCopy(v) \/ TransformData(v) \/ SyncDataAllDone(v) \/ End(v)
           \/ \E h \in Handlers : SyncData(v, h)
  BY <1>2, <1>6 DEF HistoryCopy, TransformData, SyncData, SyncDataAllDone, End, control
<1>7. CASE WaitLambda(v)
  BY <1>2, <1>7 DEF WaitLambda, WaitBegin, StoreToken, SelfResume, WaitEnd, WaitStep,
     ResumedStep, ResumedAt, TokenOpen
<1>8. CASE Timeout(v) \/ Failure(v)
  BY <1>2, <1>8 DEF Timeout, Failure, SyncFail, StepFail, WaitFail, Retry
<1>. QED BY <1>3, <1>4, <1>5, <1>6, <1>7, <1>8 DEF Progress, Execution

(* Reads of the data table are never ahead of it.                          *)
LEMMA ReadNotAhead ==
  ASSUME OrderInv, NEW d \in DataRead
  PROVE  d \in 0 .. MaxVersion /\ d <= view[Dds]
BY Typed DEF OrderInv, DataIsPrefix, DataRead

(* So a version passes check_version only when its predecessor is applied. *)
LEMMA CheckIsSound ==
  ASSUME OrderInv, NEW v \in Version, CheckVersion(v), verdict'[v] = 0
  PROVE  v - 1 <= view[Dds]
<1>1. LogInv /\ Contiguous
  BY DEF OrderInv, LogInv
<1>2. PICK d \in DataRead : verdict' = [verdict EXCEPT ![v] = CheckResult(v, d)]
  BY DEF CheckVersion
<1>3. CheckResult(v, d) = 0
  BY <1>1, <1>2, Typed
<1>4. d \in 0 .. MaxVersion /\ d <= view[Dds] /\ view[Dds] \in 0 .. MaxVersion
  BY <1>1, ReadNotAhead, Typed
<1>5. Stored(v)
  BY DEF OrderInv, LogInv, OnlyStoredRuns, CheckVersion, InStep
<1>6. v > 1 => Stored(v - 1)
  BY <1>1, <1>5 DEF Contiguous
<1>. QED BY <1>3, <1>4, <1>6 DEF CheckResult

(* And a waiting one resumes itself only then.                             *)
LEMMA SelfResumeIsSound ==
  ASSUME OrderInv, NEW v \in Version, PrevEnteredFinish(v)
  PROVE  v - 1 <= view[Dds]
BY SyncedIsApplied DEF OrderInv, FinishIsSound, PrevEnteredFinish, Stored

(* The steps that bring v itself past the gate.                            *)
LEMMA OwnGate ==
  ASSUME Orderly, OrderInv, NEW v \in Version, Progress(v), PastGate(v)'
  PROVE  v - 1 <= view[Dds]
<1>1. LogInv /\ GateIsSound /\ EndsByLambda
  BY DEF OrderInv
<1>2. /\ step \in [Version -> SfnStep \cup {"none", "publish_sync"} \cup Ended]
      /\ at \in [Version -> At]
      /\ verdict \in [Version -> {-1, 0, 1}]
  BY <1>1, Typed
<1>3. PastGate(v) => v - 1 <= view[Dds]
  BY <1>1 DEF GateIsSound
<1>4. CASE PastGate(v)
  BY <1>3, <1>4
<1>. USE DEF GoTo, InStep, SyncAt
<1>5. CASE CheckVersion(v)
  BY <1>2, <1>3, <1>5, CheckIsSound DEF CheckVersion, PastGate
<1>6. CASE SelfResume(v)
  BY <1>2, <1>3, <1>6, SelfResumeIsSound DEF SelfResume, ResumedStep, ResumedAt,
     TokenOpen, PastGate
<1>7. CASE End(v)
  <2>1. step[v] = "check_version" \/ step[v] = "wait_prev_command" \/ PastGate(v)
    BY <1>2, <1>7 DEF End, PastGate, SfnStep
  <2>2. CASE step[v] = "check_version"
    <3>1. at[v] = "end" /\ step'[v] = AfterCheck(v)
      BY <1>2, <1>7, <2>2 DEF End, NextStep
    <3>2. CASE verdict[v] = 0
      BY <1>3, <2>2, <3>1, <3>2 DEF PastGate
    <3>3. CASE verdict[v] # 0
      <4>1. step'[v] \in {"wait_prev_command", "fail"} /\ at'[v] = "idle"
        BY <1>2, <1>7, <2>2, <3>1, <3>3 DEF End, NextStep, AfterCheck, Entry, Ended
      <4>. QED BY <4>1 DEF PastGate
    <3>. QED BY <3>2, <3>3
  <2>. QED BY <1>1, <1>4, <1>7, <2>1, <2>2 DEF End, EndsByLambda, Waiting
<1>8. CASE SyncRequest(v)
  BY <1>2, <1>4, <1>8 DEF SyncRequest, SyncTtlRead, SyncTtlPut, SyncHistory,
     SyncPublishData, SyncHandler, SyncFinish, PastGate
<1>9. CASE Deliver(v) \/ Begin(v) \/ SetTtlRead(v) \/ SetTtlPut(v)
  BY <1>2, <1>4, <1>9 DEF Deliver, Begin, SetTtlRead, SetTtlPut, PastGate, SfnStep
<1>10. CASE \/ HistoryCopy(v) \/ TransformData(v) \/ SyncDataAllDone(v) \/ CheckNextToken(v)
            \/ \E h \in Handlers : SyncData(v, h)
  BY <1>2, <1>4, <1>10 DEF HistoryCopy, TransformData, SyncData, SyncDataAllDone,
     CheckNextToken, control, PastGate
<1>11. CASE WaitBegin(v) \/ StoreToken(v) \/ WaitEnd(v)
  BY <1>4, <1>11 DEF WaitBegin, StoreToken, WaitEnd, PastGate
<1>12. CASE Timeout(v) \/ WaitFail(v)
  BY <1>1, <1>2, <1>4, <1>12 DEF Timeout, WaitFail, PastGate, EndsByLambda, Waiting
<1>13. CASE SyncFail(v) \/ StepFail(v)
  BY <1>2, <1>4, <1>13 DEF SyncFail, StepFail, PastGate
<1>. QED BY <1>5, <1>6, <1>7, <1>8, <1>9, <1>10, <1>11, <1>12, <1>13
     DEF Progress, Execution, WaitLambda, Failure, Retry, Orderly

(* v + 1 is resumed by v only when v itself is applied.                    *)
LEMMA GateKept ==
  ASSUME Orderly, OrderInv, NEW v \in Version, Progress(v)
  PROVE  GateIsSound'
<1>1. /\ view[Dds] \in 0 .. MaxVersion /\ view'[Dds] \in 0 .. MaxVersion
      /\ view[Dds] <= view'[Dds] /\ GateIsSound /\ FinishIsSound
  <2>1. view'[Dds] = view[Dds] \/ view'[Dds] = v
    BY DataStep DEF DataStays, DataMoves
  <2>. QED BY <2>1, Typed, PrefixKept DEF OrderInv
<1>. SUFFICES ASSUME NEW w \in Version, PastGate(w)' PROVE w - 1 <= view[Dds]
  BY <1>1 DEF GateIsSound
<1>2. CASE w = v
  BY <1>2, OwnGate
<1>3. CASE w # v /\ Unmoved(w)
  BY <1>1, <1>3 DEF Unmoved, PastGate, GateIsSound
<1>4. CASE CheckNextToken(v) /\ w = v + 1
  <2>1. Synced(v)
    BY <1>1, <1>4 DEF FinishIsSound, CheckNextToken, InStep
  <2>. QED BY <1>1, <1>4, <2>1, SyncedIsApplied
<1>. QED BY <1>2, <1>3, <1>4, ControlStep

(* wait_prev_command and sync_data are entered, and left, as they must be. *)
LEMMA EndsKept ==
  ASSUME Orderly, OrderInv, NEW v \in Version, Progress(v)
  PROVE  EndsByLambda'
<1>1. LogInv /\ EndsByLambda
  BY DEF OrderInv
<1>2. /\ step \in [Version -> SfnStep \cup {"none", "publish_sync"} \cup Ended]
      /\ at \in [Version -> At]
  BY <1>1, Typed
<1>3. ASSUME NEW w \in Version, w # v
      PROVE  /\ Waiting(w)' => at'[w] = "idle"
             /\ step'[w] = "sync_data" => at'[w] = "body"
  BY <1>1, <1>3, ControlStep DEF EndsByLambda, Unmoved, Resumed, Waiting
<1>. USE DEF EndsByLambda, GoTo, InStep, SyncAt, Waiting
<1>. SUFFICES /\ Waiting(v)' => at'[v] = "idle"
              /\ step'[v] = "sync_data" => at'[v] = "body"
  BY <1>3
<1>4. CASE step'[v] = step[v] /\ at'[v] = at[v]
  BY <1>1, <1>4
<1>5. CASE step'[v] \notin {"wait_prev_command", "sync_data"}
  BY <1>5
<1>6. CASE SyncRequest(v)
  BY <1>2, <1>5, <1>6 DEF SyncRequest, SyncTtlRead, SyncTtlPut, SyncHistory,
     SyncPublishData, SyncHandler, SyncFinish, control
<1>7. CASE Deliver(v) \/ Begin(v) \/ CheckVersion(v) \/ SetTtlRead(v) \/ SetTtlPut(v)
  BY <1>1, <1>2, <1>5, <1>7 DEF Deliver, Begin, CheckVersion, SetTtlRead, SetTtlPut
<1>8. CASE \/ HistoryCopy(v) \/ TransformData(v) \/ SyncDataAllDone(v)
           \/ \E h \in Handlers : SyncData(v, h)
  BY <1>1, <1>2, <1>4, <1>5, <1>8 DEF HistoryCopy, TransformData, SyncDataAllDone,
     SyncData, control
<1>9. CASE CheckNextToken(v)
  BY <1>1, <1>2, <1>9 DEF CheckNextToken, ResumedStep, ResumedAt, TokenOpen
<1>10. CASE End(v)
  BY <1>1, <1>2, <1>10 DEF End, Entry, Ended
<1>11. CASE WaitLambda(v)
  BY <1>1, <1>2, <1>4, <1>11 DEF WaitLambda, WaitBegin, StoreToken, SelfResume, WaitEnd,
     ResumedStep, ResumedAt, TokenOpen
<1>12. CASE Timeout(v) \/ Failure(v)
  BY <1>1, <1>2, <1>4, <1>5, <1>12 DEF Timeout, Failure, SyncFail, StepFail, WaitFail,
     Retry, Orderly
<1>. QED BY <1>6, <1>7, <1>8, <1>9, <1>10, <1>11, <1>12 DEF Progress, Execution

(* Before its data is synced, a version is ahead of the data table.        *)
Early(v) == \/ step[v] \in BeforeSync
            \/ step[v] = "publish_sync" /\ at[v] \in {"ttl", "put", "history", "data"}

(* An execution that is before its handlers after a step was so before it. *)
LEMMA OwnEarly ==
  ASSUME Orderly, OrderInv, NEW v \in Version, Progress(v), Early(v)'
  PROVE  Early(v) /\ ~SyncPublishData(v) /\ \A h \in Handlers : ~SyncData(v, h)
<1>1. LogInv /\ EndsByLambda
  BY DEF OrderInv
<1>2. /\ step \in [Version -> SfnStep \cup {"none", "publish_sync"} \cup Ended]
      /\ at \in [Version -> At]
  BY <1>1, Typed
<1>. USE DEF Early, BeforeSync, GoTo, InStep, SyncAt
<1>3. ~SyncPublishData(v) /\ \A h \in Handlers : ~SyncData(v, h)
  BY <1>2 DEF SyncPublishData, SyncData, control
<1>. SUFFICES Early(v)
  BY <1>3
<1>4. CASE SyncRequest(v)
  BY <1>2, <1>3, <1>4 DEF SyncRequest, SyncTtlRead, SyncTtlPut, SyncHistory,
     SyncHandler, SyncFinish, control
<1>5. CASE Deliver(v) \/ Begin(v) \/ CheckVersion(v) \/ SetTtlRead(v) \/ SetTtlPut(v)
  BY <1>2, <1>5 DEF Deliver, Begin, CheckVersion, SetTtlRead, SetTtlPut, SfnStep
<1>6. CASE HistoryCopy(v) \/ TransformData(v) \/ SyncDataAllDone(v)
  BY <1>2, <1>6 DEF HistoryCopy, TransformData, SyncDataAllDone
<1>7. CASE CheckNextToken(v)
  BY <1>2, <1>7 DEF CheckNextToken, ResumedStep, TokenOpen, Waiting
<1>8. CASE End(v)
  <2>1. step[v] \in SfnStep /\ step[v] # "sync_data" /\ step[v] # "wait_prev_command"
    BY <1>1, <1>8 DEF End, EndsByLambda, Waiting
  <2>. QED BY <1>2, <1>8, <2>1 DEF End, NextStep, AfterCheck, SfnStep
<1>9. CASE WaitLambda(v)
  BY <1>2, <1>9 DEF WaitLambda, WaitBegin, StoreToken, SelfResume, WaitEnd,
     ResumedStep, ResumedAt, TokenOpen, Waiting
<1>10. CASE Timeout(v) \/ Failure(v)
  BY <1>2, <1>10 DEF Timeout, Failure, SyncFail, StepFail, WaitFail, Retry, Waiting, Orderly
<1>. QED BY <1>3, <1>4, <1>5, <1>6, <1>7, <1>8, <1>9, <1>10 DEF Progress, Execution

(* Before its handlers run, a version is not in the data table.            *)
LEMMA EarlyKept ==
  ASSUME Orderly, OrderInv, NEW v \in Version, Progress(v)
  PROVE  NotYetSynced'
<1>1. /\ NotYetSynced /\ view[Dds] \in 0 .. MaxVersion
      /\ \A w \in Version : Early(w) => view[Dds] < w
  BY Typed DEF OrderInv, NotYetSynced, Early
<1>. SUFFICES ASSUME NEW w \in Version, Early(w)' PROVE view'[Dds] < w
  BY DEF NotYetSynced, Early
<1>2. CASE w = v
  BY <1>1, <1>2, OwnEarly, DataStep DEF DataStays, DataMoves
<1>3. CASE w # v
  <2>1. Early(w)
    BY <1>3, ControlStep DEF Early, Unmoved, Resumed, Waiting, BeforeSync
  <2>. QED BY <1>1, <1>3, <2>1, DataStep DEF DataStays, DataMoves
<1>. QED BY <1>2, <1>3

-----------------------------------------------------------------------------
(***************************************************************************)
(* The rows: a step for v writes the row of v, or, in the put of updateTtl,*)
(* that of v - 1.                                                          *)
(***************************************************************************)
TtlPut(v) == SyncTtlPut(v) \/ SetTtlPut(v)

SameRow(w) == row'[w].status = row[w].status /\ row'[w].token = row[w].token

(* A step of v changes v's row, or writes back the row before it.          *)
LEMMA RowStep ==
  ASSUME OrderInv, NEW v \in Version, Progress(v), NEW w \in Version
  PROVE  \/ SameRow(w)
         \/ /\ w = v /\ row'[w].token = row[w].token
            /\ row'[w].status \in EnteredFinish => step[v] = "finish" \/ SyncFinish(v)
         \/ w = v /\ StoreToken(v) /\ row'[w].token = v /\ row'[w].status = row[w].status
         \/ w = v - 1 /\ TtlPut(v) /\ row'[w] = snap[v]
<1>1. TypeOK /\ LogInv
  BY DEF OrderInv, LogInv
<1>2. CASE UNCHANGED row
  BY <1>2 DEF SameRow
<1>3. ASSUME NEW s \in SfnStep \cup {"publish_sync"}, NEW p \in Phase,
             updateStatus(v, getCommandStatus(s, p)),
             s = "finish" /\ p # "FAILED" => step[v] = "finish" \/ SyncFinish(v)
      PROVE  \/ SameRow(w)
             \/ /\ w = v /\ row'[w].token = row[w].token
                /\ row'[w].status \in EnteredFinish => step[v] = "finish" \/ SyncFinish(v)
  BY <1>1, <1>3, UpdateStatusFact, NotFinish DEF SameRow, getCommandStatus, EnteredFinish
<1>4. CASE StoreToken(v)
  BY <1>1, <1>4, UpdateTaskTokenFact DEF StoreToken, SameRow
<1>5. CASE TtlPut(v)
  BY <1>1, <1>5, Typed DEF TtlPut, SyncTtlPut, SetTtlPut, updateTtlPut, SameRow
<1>. USE DEF Phase
<1>6. CASE SyncRequest(v)
  BY <1>2, <1>3, <1>5, <1>6 DEF SyncRequest, SyncTtlRead, TtlPut, SyncHistory,
     SyncPublishData, SyncHandler, SyncFinish, SfnStep
<1>7. CASE Begin(v) \/ End(v)
  BY <1>3, <1>7 DEF Begin, End
<1>8. ASSUME NEW h \in Handlers, SyncData(v, h)
      PROVE  \/ SameRow(w)
             \/ /\ w = v /\ row'[w].token = row[w].token
                /\ row'[w].status \in EnteredFinish => step[v] = "finish" \/ SyncFinish(v)
  BY <1>3, <1>8 DEF SyncData, SfnStep
<1>9. CASE \/ Deliver(v) \/ CheckVersion(v) \/ SetTtlRead(v) \/ SetTtlPut(v) \/ HistoryCopy(v)
           \/ TransformData(v) \/ SyncDataAllDone(v) \/ CheckNextToken(v)
  BY <1>2, <1>5, <1>9 DEF Deliver, CheckVersion, SetTtlRead, HistoryCopy, TransformData,
     SyncDataAllDone, CheckNextToken, TtlPut, tables
<1>10. CASE WaitLambda(v)
  BY <1>2, <1>3, <1>4, <1>10 DEF WaitLambda, WaitBegin, SelfResume, WaitEnd, tables, SfnStep
<1>11. CASE Timeout(v) \/ Failure(v)
  BY <1>2, <1>3, <1>11 DEF Timeout, Failure, SyncFail, StepFail, WaitFail, Retry, tables, SfnStep
<1>. QED BY <1>6, <1>7, <1>8, <1>9, <1>10, <1>11 DEF Progress, Execution

(* Only a version that every handler was given enters finish.              *)
LEMMA OwnFinish ==
  ASSUME Orderly, OrderInv, NEW v \in Version, Progress(v),
         step'[v] \in {"finish", "success"} \/ SyncFinish(v)
  PROVE  Synced(v)
<1>1. LogInv /\ EndsByLambda /\ FinishIsSound
  BY DEF OrderInv
<1>2. step \in [Version -> SfnStep \cup {"none", "publish_sync"} \cup Ended]
  BY <1>1, Typed
<1>3. CASE step[v] \in {"finish", "success"}
  BY <1>1, <1>3 DEF FinishIsSound
<1>4. CASE SyncDataAllDone(v) \/ SyncFinish(v)
  BY <1>4 DEF SyncDataAllDone, SyncFinish, Synced
<1>5. CASE End(v)
  <2>1. step[v] \in SfnStep /\ step[v] # "sync_data" /\ step[v] # "wait_prev_command"
    BY <1>1, <1>5 DEF End, EndsByLambda, Waiting
  <2>2. CASE step[v] = "check_version"
    <3>1. AfterCheck(v) \notin {"finish", "success"}
      BY DEF AfterCheck
    <3>. QED BY <1>2, <1>4, <1>5, <2>2, <3>1 DEF End, NextStep, SyncFinish, SyncAt
  <2>3. CASE step[v] \in {"set_ttl_command", "history_copy", "transform_data"}
    BY <1>2, <1>4, <1>5, <2>3 DEF End, NextStep
  <2>. QED BY <1>3, <2>1, <2>2, <2>3 DEF SfnStep
<1>6. CASE step'[v] = step[v]
  BY <1>3, <1>4, <1>6
<1>7. CASE step'[v] \notin {"finish", "success"}
  BY <1>4, <1>7
<1>8. CASE SyncRequest(v)
  BY <1>4, <1>6, <1>8 DEF SyncRequest, SyncTtlRead, SyncTtlPut, SyncHistory,
     SyncPublishData, SyncHandler, control
<1>9. CASE Execution(v)
  <2>1. Deliver(v) => step'[v] = "check_version"
    BY <1>2 DEF Deliver
  <2>2. CheckNextToken(v) => step[v] = "finish"
    BY DEF CheckNextToken, InStep
  <2>. QED
    BY <1>3, <1>4, <1>5, <1>6, <1>7, <1>9, <2>1, <2>2 DEF Execution, Begin, CheckVersion,
       SetTtlRead, SetTtlPut, HistoryCopy, TransformData, SyncData, control
<1>10. CASE WaitLambda(v)
  BY <1>2, <1>6, <1>7, <1>10 DEF WaitLambda, WaitBegin, StoreToken, SelfResume, WaitEnd,
     ResumedStep, TokenOpen
<1>11. CASE Timeout(v) \/ Failure(v)
  BY <1>2, <1>6, <1>7, <1>11 DEF Timeout, Failure, SyncFail, StepFail, WaitFail, Retry
<1>. QED BY <1>8, <1>9, <1>10, <1>11 DEF Progress

(* Finish is entered only when all handlers are done.                      *)
LEMMA FinishKept ==
  ASSUME Orderly, OrderInv, NEW v \in Version, Progress(v)
  PROVE  FinishIsSound'
<1>1. LogInv /\ FinishIsSound /\ SnapIsSound /\ SnapOfPredecessor
  BY DEF OrderInv, LogInv
<1>. SUFFICES ASSUME NEW w \in Version,
                     step'[w] \in {"finish", "success"} \/ row'[w].status \in EnteredFinish
              PROVE  Synced(w)
  BY SyncedKept DEF FinishIsSound
<1>2. CASE step'[w] \in {"finish", "success"}
  <2>1. CASE w = v
    BY <1>2, <2>1, OwnFinish
  <2>2. CASE w # v
    BY <1>1, <1>2, <2>2, ControlStep DEF Unmoved, Resumed, FinishIsSound
  <2>. QED BY <2>1, <2>2
<1>3. CASE row'[w].status \in EnteredFinish
  <2>1. CASE SameRow(w) \/ row'[w].status = row[w].status
    BY <1>1, <1>3, <2>1 DEF SameRow, FinishIsSound
  <2>2. CASE w = v /\ (step[v] = "finish" \/ SyncFinish(v))
    BY <1>1, <2>2, OwnFinish DEF FinishIsSound
  <2>3. CASE w = v - 1 /\ TtlPut(v) /\ row'[w] = snap[v]
    BY <1>1, <1>3, <2>3 DEF TtlPut, SyncTtlPut, SetTtlPut, SyncAt, InStep, SnapIsSound
  <2>. QED BY <1>3, <2>1, <2>2, <2>3, RowStep
<1>. QED BY <1>2, <1>3

(* A row's token stays that of its own version.                            *)
LEMMA TokenOwnKept ==
  ASSUME Orderly, OrderInv, NEW v \in Version, Progress(v)
  PROVE  TokenIsOwn'
<1>1. TokenIsOwn /\ SnapIsSound
  BY DEF OrderInv
<1>. SUFFICES ASSUME NEW w \in Version PROVE row'[w].token \in {0, w}
  BY DEF TokenIsOwn
<1>2. CASE row'[w].token = row[w].token \/ (row'[w].token = v /\ w = v)
  BY <1>1, <1>2 DEF TokenIsOwn
<1>3. CASE w = v - 1 /\ TtlPut(v) /\ row'[w] = snap[v]
  BY <1>1, <1>3 DEF TtlPut, SyncTtlPut, SetTtlPut, SyncAt, InStep, SnapIsSound
<1>4. CASE SameRow(w)
  BY <1>1, <1>4 DEF SameRow, TokenIsOwn
<1>. QED BY <1>2, <1>3, <1>4, RowStep

(* A row held by updateTtl was read in this step or is the one held before.*)
LEMMA SnapStep ==
  ASSUME OrderInv, NEW v \in Version, Progress(v), NEW w \in Version, at'[w] = "put"
  PROVE  \/ at[w] = "put" /\ snap'[w] = snap[w]
         \/ w = v /\ TtlHasPredecessor(v) /\ snap'[v] = row[v - 1]
<1>1. /\ at \in [Version -> At] /\ snap \in [Version -> Row]
  BY Typed DEF OrderInv
<1>. USE DEF GoTo
<1>2. CASE UNCHANGED <<at, snap>>
  BY <1>2
<1>3. ASSUME NEW a, a # "put", at' = [at EXCEPT ![v] = a],
             UNCHANGED snap \/ snap' = [snap EXCEPT ![v] = NoRow]
      PROVE  at[w] = "put" /\ snap'[w] = snap[w]
  BY <1>1, <1>3
<1>4. ASSUME NEW a, a # "put", updateTtlRead(v),
             at' = [at EXCEPT ![v] = IF TtlHasPredecessor(v) THEN "put" ELSE a]
      PROVE  \/ at[w] = "put" /\ snap'[w] = snap[w]
             \/ w = v /\ TtlHasPredecessor(v) /\ snap'[v] = row[v - 1]
  BY <1>1, <1>4 DEF updateTtlRead
<1>5. ASSUME NEW t, UNCHANGED snap,
             at' = ResumedAt(t) \/ at' = [ResumedAt(t) EXCEPT ![v] = "end"]
      PROVE  at[w] = "put" /\ snap'[w] = snap[w]
  BY <1>1, <1>5 DEF ResumedAt, TokenOpen
<1>6. CASE SyncRequest(v)
  BY <1>2, <1>3, <1>4, <1>6 DEF SyncRequest, SyncTtlRead, SyncTtlPut, SyncHistory,
     SyncPublishData, SyncHandler, SyncFinish, updateTtlPut, control
<1>7. CASE Execution(v)
  <2>1. Entry(NextStep(v)) # "put"
    BY DEF Entry
  <2>. QED
    BY <1>2, <1>3, <1>4, <1>5, <1>7, <2>1 DEF Execution, Deliver, Begin, CheckVersion,
       SetTtlRead, SetTtlPut, HistoryCopy, TransformData, SyncData, SyncDataAllDone,
       CheckNextToken, End, updateTtlPut, tables, control
<1>8. CASE WaitLambda(v)
  BY <1>2, <1>5, <1>8 DEF WaitLambda, WaitBegin, StoreToken, SelfResume, WaitEnd, tables
<1>9. CASE Timeout(v) \/ Failure(v)
  BY <1>2, <1>3, <1>9 DEF Timeout, Failure, SyncFail, StepFail, WaitFail, Retry, tables
<1>. QED BY <1>6, <1>7, <1>8, <1>9 DEF Progress

(* The row before it that an execution has read, and will write back, is   *)
(* sound as well.                                                          *)
LEMMA SnapKept ==
  ASSUME Orderly, OrderInv, NEW v \in Version, Progress(v)
  PROVE  SnapIsSound'
<1>1. LogInv /\ FinishIsSound /\ SnapIsSound /\ TokenIsOwn
  BY DEF OrderInv
<1>. SUFFICES ASSUME NEW w \in Version, at'[w] = "put"
              PROVE  /\ snap'[w].status \in EnteredFinish => Synced(w - 1)
                     /\ snap'[w].token \in {0, w - 1}
  BY SyncedKept DEF SnapIsSound
<1>2. CASE at[w] = "put" /\ snap'[w] = snap[w]
  BY <1>1, <1>2 DEF SnapIsSound
<1>3. CASE w = v /\ TtlHasPredecessor(v) /\ snap'[v] = row[v - 1]
  BY <1>1, <1>3 DEF FinishIsSound, TokenIsOwn, TtlHasPredecessor, Stored
<1>. QED BY <1>2, <1>3, SnapStep

(* The token of a waiting execution is only ever overwritten by the put of *)
(* its successor's updateTtl, which runs past the gate, when nobody waits  *)
(* for the predecessor any more.                                           *)
HasToken(w) == Waiting(w) /\ waiter[w] \in {"stored", "end", "done"}

(* Only StoreToken gives a row its token.                                  *)
LEMMA OwnHasToken ==
  ASSUME Orderly, OrderInv, NEW v \in Version, Progress(v), HasToken(v)'
  PROVE  HasToken(v) \/ StoreToken(v)
<1>1. LogInv /\ EndsByLambda
  BY DEF OrderInv
<1>2. /\ step \in [Version -> SfnStep \cup {"none", "publish_sync"} \cup Ended]
      /\ waiter \in [Version -> {"none", "start", "body", "stored", "end", "done"}]
  BY <1>1, Typed
<1>. USE DEF HasToken, Waiting
<1>3. CASE step'[v] = step[v] /\ waiter'[v] = waiter[v]
  BY <1>3
<1>4. CASE step'[v] # "wait_prev_command"
  BY <1>4
<1>5. CASE SyncRequest(v)
  BY <1>2, <1>3, <1>4, <1>5 DEF SyncRequest, SyncTtlRead, SyncTtlPut, SyncHistory,
     SyncPublishData, SyncHandler, SyncFinish, control
<1>6. CASE End(v)
  BY <1>2, <1>4, <1>6 DEF End
<1>7. CASE Execution(v) /\ ~End(v)
  BY <1>2, <1>3, <1>4, <1>7 DEF Execution, Deliver, Begin, CheckVersion, SetTtlRead,
     SetTtlPut, HistoryCopy, TransformData, SyncData, SyncDataAllDone, CheckNextToken,
     ResumedStep, TokenOpen, control
<1>8. CASE WaitLambda(v)
  BY <1>2, <1>3, <1>4, <1>8 DEF WaitLambda, WaitBegin, SelfResume, WaitEnd, WaitStep,
     ResumedStep, TokenOpen
<1>9. CASE Timeout(v) \/ Failure(v)
  BY <1>2, <1>3, <1>4, <1>9 DEF Timeout, Failure, SyncFail, StepFail, WaitFail, Retry
<1>. QED BY <1>5, <1>6, <1>7, <1>8, <1>9 DEF Progress

(* A token is never lost while its execution waits.                        *)
LEMMA TokenKeptStep ==
  ASSUME Orderly, OrderInv, NEW v \in Version, Progress(v)
  PROVE  TokenKept'
<1>1. /\ LogInv /\ GateIsSound /\ NotYetSynced
      /\ \A w \in Version : HasToken(w) => row[w].token = w
  BY DEF OrderInv, TokenKept, HasToken
<1>. SUFFICES ASSUME NEW w \in Version, HasToken(w)'
              PROVE  row'[w].token = w
  BY DEF TokenKept, HasToken
<1>2. HasToken(w) \/ (w = v /\ StoreToken(v))
  BY OwnHasToken, ControlStep DEF HasToken, Unmoved, Resumed, Waiting
<1>3. CASE w = v /\ StoreToken(v)
  BY <1>1, <1>3, UpdateTaskTokenFact DEF StoreToken, LogInv
<1>4. CASE HasToken(w)
  <2>1. CASE row'[w].token = row[w].token
    BY <1>1, <1>4, <2>1
  <2>2. CASE w = v /\ row'[w].token = v
    BY <2>2
  <2>3. CASE w = v - 1 /\ TtlPut(v)
    <3>1. PastGate(v)
      BY <2>3 DEF TtlPut, SyncTtlPut, SetTtlPut, SyncAt, InStep, PastGate
    <3>2. v - 1 <= view[Dds] /\ view[Dds] < w
      BY <1>1, <1>4, <3>1 DEF GateIsSound, NotYetSynced, HasToken, Waiting, BeforeSync
    <3>. QED BY <1>1, <2>3, <3>2, Typed
  <2>4. CASE SameRow(w)
    BY <1>1, <1>4, <2>4 DEF SameRow
  <2>. QED BY <2>1, <2>2, <2>3, <2>4, RowStep
<1>. QED BY <1>2, <1>3, <1>4

-----------------------------------------------------------------------------
(***************************************************************************)
(* Publishing, and the theorems.                                           *)
(***************************************************************************)

(* A new command starts with a status and a token of its own.              *)
LEMMA PublishedRow ==
  ASSUME Orderly, OrderInv, NEW v \in Version, Publish(v)
  PROVE  /\ ~Stored(v) /\ UNCHANGED <<view, handled, snap, verdict, waiter, draft>>
         /\ \A w \in Version \ {v} : row'[w] = row[w]
         /\ row'[v].token = 0 /\ row'[v].status \notin EnteredFinish
         /\ \/ UNCHANGED <<step, at>>
            \/ /\ step' = [step EXCEPT ![v] = "publish_sync"]
               /\ at' = [at EXCEPT ![v] = "ttl"]
               /\ v - 1 \in DataRead
<1>1. row \in [Version -> Row]
  BY Typed DEF OrderInv
<1>2. CASE PublishAsync(v)
  BY <1>1, <1>2 DEF PublishAsync, PutIfAbsent, Stored, EnteredFinish, getCommandStatus, control
<1>3. CASE PublishSync(v)
  BY <1>1, <1>3 DEF PublishSync, PutIfAbsent, Stored, EnteredFinish, getCommandStatus
<1>4. ~ReadBase(v)
  BY DEF Orderly, ReadBase
<1>. QED BY <1>2, <1>3, <1>4 DEF Publish

(* A publish keeps the order's invariant.                                  *)
LEMMA PublishOrderInv ==
  ASSUME Orderly, OrderInv, NEW v \in Version, Publish(v)
  PROVE  OrderInv'
<1>1. /\ LogInv /\ LogInv' /\ OnlyStoredRuns /\ OnlyStoredHandled /\ DataIsPrefix
      /\ GateIsSound /\ NotYetSynced /\ EndsByLambda /\ FinishIsSound /\ SnapIsSound
      /\ TokenIsOwn /\ TokenKept
  BY PublishLogInv DEF OrderInv, LogInv
<1>2. /\ step \in [Version -> SfnStep \cup {"none", "publish_sync"} \cup Ended]
      /\ at \in [Version -> At] /\ view[Dds] \in 0 .. MaxVersion
  BY <1>1, Typed
<1>3. step[v] = "none" /\ v \notin handled[Dds]
  BY <1>1, PublishedRow DEF OnlyStoredRuns, OnlyStoredHandled
<1>4. view[Dds] < v
  BY <1>1, <1>2, <1>3 DEF DataIsPrefix
<1>5. draft' = NoDraft /\ DataIsPrefix'
  BY <1>1, PublishedRow DEF OrderInv, DataIsPrefix
<1>6. \A w \in Version \ {v} : step'[w] = step[w] /\ at'[w] = at[w]
  BY <1>2, PublishedRow
<1>7. \/ step'[v] = "none" /\ at'[v] = at[v]
      \/ step'[v] = "publish_sync" /\ at'[v] = "ttl" /\ v - 1 \in DataRead
  BY <1>2, <1>3, PublishedRow
<1>8. GateIsSound'
  <2>. SUFFICES ASSUME NEW w \in Version, PastGate(w)' PROVE w - 1 <= view[Dds]
    BY PublishedRow DEF GateIsSound
  <2>1. CASE w = v
    BY <1>7, <2>1, ReadNotAhead DEF PastGate
  <2>2. CASE w # v
    <3>1. PastGate(w)
      BY <1>6, <2>2, PublishedRow DEF PastGate
    <3>. QED BY <1>1, <3>1 DEF GateIsSound
  <2>. QED BY <2>1, <2>2
<1>9. NotYetSynced'
  BY <1>1, <1>4, <1>6, PublishedRow DEF NotYetSynced
<1>10. EndsByLambda'
  BY <1>1, <1>6, <1>7 DEF EndsByLambda, Waiting
<1>11. FinishIsSound'
  <2>. SUFFICES ASSUME NEW w \in Version,
                       step'[w] \in {"finish", "success"} \/ row'[w].status \in EnteredFinish
                PROVE  Synced(w)
    BY PublishedRow DEF FinishIsSound, Synced
  <2>. QED BY <1>1, <1>6, <1>7, PublishedRow DEF FinishIsSound
<1>12. SnapIsSound'
  <2>1. \A w \in Version : at'[w] = "put" => at[w] = "put"
    BY <1>2, PublishedRow
  <2>2. \A w : Synced(w) => Synced(w)'
    BY PublishedRow DEF Synced
  <2>. QED BY <1>1, <2>1, <2>2, PublishedRow DEF SnapIsSound
<1>13. TokenIsOwn'
  BY <1>1, PublishedRow DEF TokenIsOwn
<1>14. TokenKept'
  BY <1>1, <1>6, <1>7, PublishedRow DEF TokenKept, Waiting
<1>. QED BY <1>1, <1>5, <1>8, <1>9, <1>10, <1>11, <1>12, <1>13, <1>14 DEF OrderInv

LEMMA OrderInvInit == Init => OrderInv
BY LogInvInit DEF Init, TablesInit, OrderInv, DataIsPrefix, GateIsSound, PastGate,
   NotYetSynced, EndsByLambda, FinishIsSound, SnapIsSound, TokenIsOwn, TokenKept,
   Waiting, NoRow, EnteredFinish, getCommandStatus

(* Every step keeps the order's invariant.                                 *)
LEMMA OrderInvStep ==
  ASSUME Orderly, OrderInv, [Next]_vars
  PROVE  OrderInv'
<1>1. LogInv'
  BY LogInvStep DEF OrderInv
<1>2. CASE UNCHANGED vars
  BY <1>1, <1>2 DEF vars, OrderInv, DataIsPrefix, GateIsSound, PastGate, NotYetSynced,
     EndsByLambda, FinishIsSound, SnapIsSound, TokenIsOwn, TokenKept, Waiting, Synced
<1>3. ~PutDraft
  BY DEF OrderInv, PutDraft, NoDraft
<1>4. ASSUME NEW v \in Version, Progress(v)
      PROVE  OrderInv'
  <2>1. draft' = NoDraft
    BY <1>4, ModesKept DEF OrderInv, Progress
  <2>. QED BY <1>1, <1>4, <2>1, PrefixKept, GateKept, EarlyKept, EndsKept, FinishKept,
       SnapKept, TokenOwnKept, TokenKeptStep DEF OrderInv
<1>. QED BY <1>2, <1>3, <1>4, PublishOrderInv DEF Next, Progress

(* What makes the order properties inductive: a version that was let       *)
(* through finds its predecessor in the data table, and whatever may later *)
(* be read as "entered finish" is true of a command that is synced.        *)
THEOREM OrderInvariant ==
  ASSUME Orderly
  PROVE  Spec => []OrderInv
BY OrderInvInit, OrderInvStep, PTL DEF Spec

(* No version reaches the data table before, or without, the one before    *)
(* it, although every version runs in an execution of its own, executions  *)
(* fail and time out, and reads of the data table are stale.               *)
THEOREM NothingSkipped ==
  ASSUME Orderly
  PROVE  Spec => []NoCommandSkipped
<1>1. OrderInv => NoCommandSkipped
  BY Typed DEF OrderInv, DataIsPrefix, NoCommandSkipped
<1>. QED BY <1>1, OrderInvariant, PTL

(* The data table moves from each version to the next one only.            *)
THEOREM DataMovesInOrder ==
  ASSUME Orderly
  PROVE  Spec => DataInOrder
<1>. DEFINE OneUp == view'[Dds] # view[Dds] => view'[Dds] = view[Dds] + 1
<1>1. OrderInv /\ [Next]_vars => [OneUp]_view
  <2>. SUFFICES ASSUME OrderInv, [Next]_vars, view' # view PROVE OneUp
    OBVIOUS
  <2>1. ASSUME NEW v \in Version, Progress(v) PROVE OneUp
    BY <2>1, DataStep, Typed DEF DataStays, DataMoves, OrderInv
  <2>2. ASSUME NEW v \in Version, Publish(v) \/ PutDraft PROVE FALSE
    BY <2>2 DEF Publish, PublishAsync, PublishSync, ReadBase, PutDraft, tables
  <2>3. ~PutDraft /\ ~UNCHANGED vars
    BY DEF PutDraft, vars
  <2>. HIDE DEF OneUp
  <2>. QED BY <2>1, <2>2, <2>3 DEF Next, Progress
<1>. QED BY <1>1, OrderInvariant, PTL DEF Spec, DataInOrder

(* A row that shows finish belongs to a command that every read model was  *)
(* given: waitConfirmToken may trust it.                                   *)
THEOREM FinishIsTrustworthy ==
  ASSUME Orderly
  PROVE  Spec => []FinishMeansSynced
<1>1. OrderInv => FinishMeansSynced
  BY DEF OrderInv, FinishIsSound, FinishMeansSynced, Synced
<1>. QED BY <1>1, OrderInvariant, PTL

(* The row of a waiting execution holds its token, whoever rewrites it.    *)
THEOREM TokenStaysInRow ==
  ASSUME Orderly
  PROVE  Spec => []TokenKept
<1>1. OrderInv => TokenKept
  BY DEF OrderInv
<1>. QED BY <1>1, OrderInvariant, PTL

-----------------------------------------------------------------------------
(***************************************************************************)
(* The handshake of finish and wait_prev_command loses no wake-up, for     *)
(* every MaxVersion and every set of handlers, when callers use            *)
(* publishAsync and publishSync, no Lambda is invoked again or outlives    *)
(* its state by four others, and no handshake call fails for good.         *)
(***************************************************************************)
Reliable == Orderly /\ "late_end" \notin Faults /\ "lost_resume" \notin Faults

(* The control states that the handshake's proof tells apart.              *)
LEMMA Controls ==
  ASSUME HandshakeInv
  PROVE  /\ OrderInv
         /\ step \in [Version -> SfnStep \cup {"none", "publish_sync"} \cup Ended]
         /\ at \in [Version -> At]
         /\ waiter \in [Version -> {"none", "start", "body", "stored", "end", "done"}]
BY Typed DEF HandshakeInv, OrderInv

(* How a version comes to be published synchronously, or early in its life.*)
LEMMA OwnStart ==
  ASSUME Reliable, HandshakeInv, NEW v \in Version, Progress(v)
  PROVE  /\ step'[v] = "publish_sync" => step[v] = "publish_sync"
         /\ step'[v] \in {"none", "check_version", "publish_sync"} =>
              /\ step[v] \in {"none", "check_version", "publish_sync"}
              /\ waiter[v] = "none" => waiter'[v] = "none"
         /\ step'[v] \in BeforeTtl => step[v] \in BeforeTtl
<1>1. EndsByLambda
  BY DEF HandshakeInv, OrderInv
<1>. USE Controls DEF BeforeTtl, GoTo, InStep, SyncAt, Waiting
<1>2. CASE step'[v] = step[v] /\ waiter'[v] = waiter[v]
  BY <1>2
<1>3. CASE step'[v] \notin {"none", "check_version", "publish_sync", "wait_prev_command"}
  BY <1>3
<1>4. CASE SyncRequest(v)
  BY <1>2, <1>3, <1>4 DEF SyncRequest, SyncTtlRead, SyncTtlPut, SyncHistory,
     SyncPublishData, SyncHandler, SyncFinish, control
<1>5. CASE End(v)
  <2>1. step[v] # "sync_data" /\ step[v] # "wait_prev_command"
    BY <1>1, <1>5 DEF End, EndsByLambda
  <2>2. AfterCheck(v) \notin {"none", "check_version", "publish_sync"}
    BY DEF AfterCheck
  <2>. QED BY <1>5, <2>1, <2>2 DEF End, NextStep, SfnStep
<1>6. CASE Deliver(v) \/ SyncDataAllDone(v) \/ CheckNextToken(v)
  BY <1>6 DEF Deliver, SyncDataAllDone, CheckNextToken, ResumedStep, TokenOpen
<1>7. CASE \/ Begin(v) \/ CheckVersion(v) \/ SetTtlRead(v) \/ SetTtlPut(v)
           \/ HistoryCopy(v) \/ TransformData(v) \/ \E h \in Handlers : SyncData(v, h)
  BY <1>2, <1>7 DEF Begin, CheckVersion, SetTtlRead, SetTtlPut, HistoryCopy,
     TransformData, SyncData, control
<1>8. CASE WaitLambda(v)
  BY <1>8 DEF WaitLambda, WaitBegin, StoreToken, SelfResume, WaitEnd, WaitStep,
     ResumedStep, TokenOpen
<1>9. CASE Timeout(v) \/ Failure(v)
  BY <1>9 DEF Timeout, Failure, SyncFail, StepFail, WaitFail, Retry, Reliable, Orderly
<1>. QED BY <1>4, <1>5, <1>6, <1>7, <1>8, <1>9 DEF Progress, Execution

(* How a version comes to finish: finish begins, or publishSync ends.      *)
LEMMA OwnFinishing ==
  ASSUME Reliable, HandshakeInv, NEW v \in Version, Progress(v), Finishing(v)'
  PROVE  \/ Finishing(v) /\ CheckNextToken(v) /\ waiter'[v] = waiter[v]
         \/ Finishing(v) /\ End(v) /\ waiter'[v] = waiter[v] /\ step[v] = "finish" /\ at[v] = "end"
         \/ Begin(v) /\ step[v] = "finish" /\ at'[v] = "body" /\ waiter'[v] = waiter[v]
         \/ SyncFinish(v) /\ waiter'[v] = waiter[v]
<1>1. EndsByLambda /\ WaiterDone
  BY DEF HandshakeInv, OrderInv
<1>. USE Controls DEF Finishing, GoTo, InStep, SyncAt, Waiting
<1>2. CASE SyncRequest(v)
  BY <1>2 DEF SyncRequest, SyncTtlRead, SyncTtlPut, SyncHistory,
     SyncPublishData, SyncHandler, SyncFinish, control
<1>3. CASE End(v)
  <2>1. step[v] # "sync_data" /\ step[v] # "wait_prev_command"
    BY <1>1, <1>3 DEF End, EndsByLambda
  <2>2. AfterCheck(v) \notin {"finish", "success"}
    BY DEF AfterCheck
  <2>3. step[v] = "finish"
    BY <1>3, <2>1, <2>2 DEF End, NextStep, SfnStep
  <2>4. NextStep(v) = "success"
    BY <2>3 DEF NextStep
  <2>. QED BY <1>3, <2>3, <2>4 DEF End
<1>4. CASE CheckNextToken(v) \/ Begin(v)
  BY <1>4 DEF CheckNextToken, Begin, SfnStep
<1>5. CASE Deliver(v) \/ SyncDataAllDone(v) \/ \E h \in Handlers : SyncData(v, h)
  BY <1>5 DEF Deliver, SyncDataAllDone, SyncData, control
<1>6. CASE \/ CheckVersion(v) \/ SetTtlRead(v) \/ SetTtlPut(v) \/ HistoryCopy(v)
           \/ TransformData(v)
  BY <1>6 DEF CheckVersion, SetTtlRead, SetTtlPut, HistoryCopy, TransformData
<1>7. CASE WaitLambda(v)
  BY <1>1, <1>7 DEF WaitLambda, WaitBegin, StoreToken, SelfResume, WaitEnd, WaitStep,
     ResumedStep, ResumedAt, TokenOpen, WaiterDone
<1>8. CASE Timeout(v) \/ Failure(v)
  BY <1>1, <1>8 DEF Timeout, Failure, SyncFail, StepFail, WaitFail, Retry, Reliable,
     Orderly, WaiterDone
<1>. QED BY <1>2, <1>3, <1>4, <1>5, <1>6, <1>7, <1>8 DEF Progress, Execution

(* The parts of the handshake's invariant on when a wait begins and ends.  *)
LEMMA StartKept ==
  ASSUME Reliable, HandshakeInv, NEW v \in Version, Progress(v)
  PROVE  OnlySyncRequests' /\ NoWaiterYet' /\ WaiterDone'
<1>1. OnlySyncRequests /\ NoWaiterYet /\ WaiterDone /\ KeepsModes
  BY ModesKept DEF HandshakeInv, OrderInv, Progress
<1>2. ASSUME NEW w \in Version, w # v
      PROVE  /\ waiter'[w] = waiter[w]
             /\ (step'[w] = step[w] /\ at'[w] = at[w]) \/ step'[w] = "set_ttl_command"
  BY <1>2, Controls, ControlStep DEF Unmoved, Resumed
<1>3. OnlySyncRequests'
  BY <1>1, <1>2, OwnStart DEF OnlySyncRequests, KeepsModes
<1>4. NoWaiterYet'
  BY <1>1, <1>2, OwnStart DEF NoWaiterYet
<1>5. WaiterDone'
  <2>1. ASSUME NEW w \in Version, w # v, Finishing(w)'
        PROVE  waiter'[w] \in {"none", "done"}
    BY <1>1, <1>2, <2>1 DEF WaiterDone, Finishing
  <2>2. ASSUME Finishing(v)' PROVE waiter'[v] \in {"none", "done"}
    BY <1>1, <2>2, OwnFinishing DEF WaiterDone, NoWaiterYet, Begin, WaiterDoneInTime,
       Reliable, SyncFinish, SyncAt
  <2>. QED BY <2>1, <2>2 DEF WaiterDone
<1>. QED BY <1>3, <1>4, <1>5

(* Nobody but v + 1, in its updateTtl, may overwrite the status that v     *)
(* writes in finish.                                                       *)
LEMMA StatusKeptStep ==
  ASSUME Reliable, HandshakeInv, NEW v \in Version, Progress(v)
  PROVE  StatusKept'
<1>1. OrderInv /\ StatusKept /\ TypeOK /\ Orderly
  BY DEF HandshakeInv, OrderInv, LogInv, Reliable
<1>. SUFFICES ASSUME NEW w \in Version, w > 1, step'[w] \in BeforeTtl, Finishing(w - 1)'
              PROVE  row'[w - 1].status \in EnteredFinish
  BY DEF StatusKept
<1>2. step[w] \in BeforeTtl
  <2>1. CASE w = v
    BY <2>1, OwnStart
  <2>2. CASE w # v
    BY <1>1, <2>2, ControlStep DEF Unmoved, Resumed, BeforeTtl
  <2>. QED BY <2>1, <2>2
<1>3. w - 1 \in Version
  OBVIOUS
<1>4. CASE v = w - 1
  <2>1. CASE CheckNextToken(v) /\ Finishing(v)
    BY <1>1, <1>2, <1>4, <2>1 DEF CheckNextToken, tables, StatusKept
  <2>2. CASE \/ End(v) /\ step[v] = "finish"
             \/ Begin(v) /\ step[v] = "finish"
             \/ SyncFinish(v)
    <3>1. \/ updateStatus(v, getCommandStatus("finish", "FINISHED"))
          \/ updateStatus(v, getCommandStatus("finish", "STARTED"))
      BY <2>2 DEF End, Begin, SyncFinish
    <3>. QED BY <1>1, <1>4, <3>1, UpdateStatusFact DEF EnteredFinish
  <2>. QED BY <1>4, <2>1, <2>2, OwnFinishing
<1>5. CASE v # w - 1
  <2>1. Finishing(w - 1)
    BY <1>1, <1>3, <1>5, ControlStep DEF Unmoved, Resumed, Finishing
  <2>2. row[w - 1].status \in EnteredFinish
    BY <1>1, <1>2, <2>1 DEF StatusKept
  <2>3. ~(w - 1 = v - 1 /\ TtlPut(v))
    BY <1>2 DEF TtlPut, SyncTtlPut, SetTtlPut, SyncAt, InStep, BeforeTtl
  <2>. QED BY <1>1, <1>3, <1>5, <2>2, <2>3, RowStep DEF SameRow
<1>. QED BY <1>4, <1>5

(* The predecessor resumes a successor that has looked before it.          *)
LEMMA FinderResumes ==
  ASSUME Reliable, HandshakeInv, NEW v \in Version, CheckNextToken(v),
         v + 1 \in Version, LeftWaiting(v + 1)
  PROVE  step'[v + 1] = "set_ttl_command"
<1>1. TokenKept /\ OnlyStoredRuns
  BY DEF HandshakeInv, OrderInv, LogInv
<1>2. row[v + 1].token = v + 1 /\ Stored(v + 1)
  BY <1>1 DEF TokenKept, LeftWaiting, OnlyStoredRuns, Waiting
<1>3. NextToken(v) = v + 1 /\ TokenOpen(v + 1)
  BY <1>2 DEF NextToken, TokenOpen, LeftWaiting
<1>. QED BY <1>3, Controls DEF CheckNextToken, ResumedStep, Reliable

(* The successor resumes itself when it looks after its predecessor did.   *)
LEMMA LookerResumes ==
  ASSUME Reliable, HandshakeInv, NEW v \in Version, v > 1, SelfResume(v), Waiting(v)',
         Stored(v - 1)
  PROVE  ~Finishing(v - 1)
<1>1. Waiting(v)
  BY Controls DEF SelfResume, ResumedStep, TokenOpen, Waiting
<1>2. ~PrevEnteredFinish(v)
  BY <1>1, Controls DEF SelfResume, ResumedStep, TokenOpen, Waiting, Reliable
<1>3. row[v - 1].status \notin EnteredFinish
  BY <1>2 DEF PrevEnteredFinish
<1>. QED BY <1>1, <1>3 DEF HandshakeInv, StatusKept, BeforeTtl, Waiting

(* An execution comes to be left waiting only by its own Lambda's look at  *)
(* the predecessor.                                                        *)
LEMMA OwnLeft ==
  ASSUME Reliable, HandshakeInv, NEW v \in Version, Progress(v), LeftWaiting(v)'
  PROVE  LeftWaiting(v) \/ (SelfResume(v) /\ Waiting(v)')
<1>1. HasToken(v) \/ StoreToken(v)
  BY OwnHasToken DEF HasToken, LeftWaiting, HandshakeInv, Reliable
<1>2. ~StoreToken(v)
  BY Controls DEF LeftWaiting, StoreToken, WaitStep
<1>. USE Controls DEF LeftWaiting, HasToken
<1>3. CASE waiter[v] \in {"end", "done"}
  BY <1>1, <1>2, <1>3
<1>4. CASE waiter[v] = "stored"
  <2>1. waiter'[v] # waiter[v]
    BY <1>4
  <2>2. CASE WaitLambda(v)
    BY <1>4, <2>2 DEF WaitLambda, WaitBegin, StoreToken, WaitEnd, WaitStep
  <2>3. CASE WaitFail(v)
    BY <1>1, <1>2, <2>3 DEF WaitFail, Waiting
  <2>4. CASE End(v)
    BY <1>4, <2>1, <2>4 DEF End
  <2>5. CASE Execution(v) /\ ~End(v)
    BY <2>1, <2>5 DEF Execution, Deliver, Begin, CheckVersion, SetTtlRead, SetTtlPut,
       HistoryCopy, TransformData, SyncData, SyncDataAllDone, CheckNextToken, control
  <2>6. CASE SyncRequest(v) \/ Timeout(v) \/ SyncFail(v) \/ StepFail(v) \/ Retry(v)
    BY <2>1, <2>6 DEF SyncRequest, SyncTtlRead, SyncTtlPut, SyncHistory, SyncPublishData,
       SyncHandler, SyncFinish, Timeout, SyncFail, StepFail, Retry, control
  <2>. QED BY <2>2, <2>3, <2>4, <2>5, <2>6 DEF Progress, Failure
<1>. QED BY <1>1, <1>2, <1>3, <1>4

(* No execution is left waiting by the one before it.                      *)
LEMMA NoneLeftStep ==
  ASSUME Reliable, HandshakeInv, NEW v \in Version, Progress(v)
  PROVE  NoneLeft'
<1>1. OrderInv /\ NoneLeft /\ OnlySyncRequests /\ KeepsModes /\ OnlyStoredRuns
  BY ModesKept DEF HandshakeInv, OrderInv, LogInv, Progress
<1>. SUFFICES ASSUME NEW w \in Version, w > 1, LeftWaiting(w)',
                     row'[w - 1].mode = "ASYNC", Finishing(w - 1)'
              PROVE  step'[w - 1] = "finish" /\ at'[w - 1] = "body"
  BY DEF NoneLeft
<1>2. w - 1 \in Version /\ row[w - 1].mode = "ASYNC"
  BY <1>1 DEF KeepsModes
<1>3. CASE v = w - 1
  <2>1. LeftWaiting(w) \/ step'[w] = "set_ttl_command"
    BY <1>1, <1>3, ControlStep DEF Unmoved, Resumed, LeftWaiting, Waiting
  <2>2. LeftWaiting(w)
    BY <2>1 DEF LeftWaiting, Waiting
  <2>3. CASE CheckNextToken(v)
    BY <1>3, <2>2, <2>3, FinderResumes DEF LeftWaiting, Waiting
  <2>4. CASE End(v) /\ Finishing(v) /\ at[v] = "end"
    BY <1>1, <1>2, <1>3, <2>2, <2>4 DEF NoneLeft
  <2>5. CASE Begin(v) /\ step[v] = "finish" /\ at'[v] = "body"
    BY <1>3, <2>5 DEF Begin
  <2>6. CASE SyncFinish(v)
    BY <1>1, <1>2, <1>3, <2>6 DEF OnlySyncRequests, SyncFinish, SyncAt
  <2>. QED BY <1>3, <2>3, <2>4, <2>5, <2>6, OwnFinishing
<1>4. CASE v # w - 1
  <2>1. /\ Finishing(w - 1)
        /\ step'[w - 1] = step[w - 1] /\ at'[w - 1] = at[w - 1]
    BY <1>1, <1>2, <1>4, ControlStep DEF Unmoved, Resumed, Finishing
  <2>2. LeftWaiting(w)
    <3>1. CASE w # v
      BY <1>1, <3>1, ControlStep DEF Unmoved, Resumed, LeftWaiting, Waiting
    <3>2. CASE w = v
      <4>1. Stored(w - 1)
        BY <1>2 DEF Stored
      <4>. QED BY <2>1, <3>2, <4>1, OwnLeft, LookerResumes
    <3>. QED BY <3>1, <3>2
  <2>. QED BY <1>1, <1>2, <2>1, <2>2 DEF NoneLeft
<1>. QED BY <1>3, <1>4

(* Publishing disturbs none of this: a version starts without a Lambda.    *)
LEMMA PublishHandshakeInv ==
  ASSUME Reliable, HandshakeInv, NEW v \in Version, Publish(v)
  PROVE  HandshakeInv'
<1>1. /\ OrderInv /\ OrderInv' /\ OnlySyncRequests /\ NoWaiterYet /\ WaiterDone
      /\ StatusKept /\ NoneLeft /\ Orderly /\ OnlyStoredRuns
  BY PublishOrderInv DEF HandshakeInv, Reliable, OrderInv, LogInv
<1>2. step[v] = "none" /\ UNCHANGED waiter /\ \A w \in Version \ {v} : row'[w] = row[w]
  BY <1>1, PublishedRow DEF OnlyStoredRuns
<1>3. /\ \A w \in Version \ {v} : step'[w] = step[w] /\ at'[w] = at[w]
      /\ \/ step'[v] = "none"
         \/ step'[v] = "publish_sync" /\ row'[v].mode = "SYNC"
  <2>1. CASE PublishAsync(v)
    BY <1>2, <2>1 DEF PublishAsync, control
  <2>2. CASE PublishSync(v)
    <3>1. row'[v].mode = "SYNC"
      BY <2>2, Typed DEF PublishSync, PutIfAbsent, OrderInv, HandshakeInv
    <3>. QED BY <2>2, <3>1, Controls DEF PublishSync
  <2>3. ~ReadBase(v)
    BY <1>1 DEF Orderly, ReadBase
  <2>. QED BY <2>1, <2>2, <2>3 DEF Publish
<1>4. \A w \in Version : Finishing(w)' => Finishing(w) /\ w # v
  BY <1>2, <1>3 DEF Finishing
<1>5. OnlySyncRequests' /\ NoWaiterYet' /\ WaiterDone'
  BY <1>1, <1>2, <1>3, <1>4 DEF OnlySyncRequests, NoWaiterYet, WaiterDone
<1>6. StatusKept'
  BY <1>1, <1>2, <1>3, <1>4 DEF StatusKept, BeforeTtl
<1>7. NoneLeft'
  BY <1>1, <1>2, <1>3, <1>4 DEF NoneLeft, LeftWaiting, Waiting
<1>. QED BY <1>1, <1>5, <1>6, <1>7 DEF HandshakeInv

LEMMA HandshakeInvInit == Init => HandshakeInv
BY OrderInvInit DEF Init, HandshakeInv, OnlySyncRequests, NoWaiterYet, WaiterDone,
   StatusKept, NoneLeft, Finishing, LeftWaiting, Waiting

(* Every step keeps the handshake's invariant.                             *)
LEMMA HandshakeInvStep ==
  ASSUME Reliable, HandshakeInv, [Next]_vars
  PROVE  HandshakeInv'
<1>1. OrderInv'
  BY OrderInvStep DEF HandshakeInv, Reliable
<1>2. CASE UNCHANGED vars
  BY <1>1, <1>2 DEF vars, HandshakeInv, OnlySyncRequests, NoWaiterYet, WaiterDone,
     StatusKept, NoneLeft, Finishing, LeftWaiting, Waiting
<1>3. ~PutDraft
  BY DEF HandshakeInv, OrderInv, PutDraft, NoDraft
<1>4. ASSUME NEW v \in Version, Progress(v)
      PROVE  HandshakeInv'
  BY <1>1, <1>4, StartKept, StatusKeptStep, NoneLeftStep DEF HandshakeInv
<1>. QED BY <1>2, <1>3, <1>4, PublishHandshakeInv DEF Next, Progress

(* The handshake of finish and wait_prev_command holds in every state: the *)
(* status a predecessor wrote stays while its successor may look for it,   *)
(* and the one of both that looks last finds what the other has left.      *)
THEOREM HandshakeInvariant ==
  ASSUME Reliable
  PROVE  Spec => []HandshakeInv
<1>. QED BY HandshakeInvInit, HandshakeInvStep, PTL DEF Spec

(* A command whose Lambda has looked at its predecessor does not go on     *)
(* waiting for an execution that has finished.                             *)
THEOREM WakeupsAreNotLost ==
  ASSUME Reliable
  PROVE  Spec => []NoLostWakeup
<1>1. HandshakeInv => NoLostWakeup
  BY DEF HandshakeInv, NoneLeft, NoLostWakeup, Finishing, Stored
<1>. QED BY <1>1, HandshakeInvariant, PTL

-----------------------------------------------------------------------------
(***************************************************************************)
(* The archive and the refinement of AggregateLog, for every MaxVersion    *)
(* and every set of handlers, with failures and timeouts, when callers use *)
(* publishAsync and publishSync, no Lambda is invoked again, and reads of  *)
(* the data table are current.                                             *)
(***************************************************************************)
Archiving == Orderly /\ "stale" \notin Faults

(* The states that archive run for a version whose predecessor is in the   *)
(* data row.                                                               *)
Archives(v) == SyncHistory(v) \/ HistoryCopy(v)

(* What is archived is the data table's version, just before it is         *)
(* replaced.                                                               *)
LEMMA ArchiveStep ==
  ASSUME Archiving, OrderInv, NEW v \in Version, Archives(v)
  PROVE  /\ view[Dds] = v - 1
         /\ history' = history \cup ({view[Dds]} \ {0})
         /\ DataStays
<1>1. LogInv /\ GateIsSound /\ NotYetSynced
  BY DEF OrderInv
<1>2. view[Dds] \in 0 .. MaxVersion
  BY <1>1, Typed
<1>3. v - 1 <= view[Dds] /\ view[Dds] < v
  BY <1>1 DEF Archives, SyncHistory, HistoryCopy, SyncAt, InStep, GateIsSound, PastGate,
     NotYetSynced, BeforeSync
<1>4. history' = history \cup ({view[Dds]} \ {0})
  BY DEF Archives, SyncHistory, HistoryCopy, DataRead, historyPublish, Archiving
<1>5. DataStays
  BY DEF Archives, SyncHistory, HistoryCopy, DataStays
<1>. QED BY <1>2, <1>3, <1>4, <1>5

(* No other step touches the history.                                      *)
LEMMA HistoryKept ==
  ASSUME NEW v \in Version, Progress(v), ~Archives(v)
  PROVE  UNCHANGED history
<1>1. CASE SyncRequest(v)
  BY <1>1 DEF Archives, SyncRequest, SyncTtlRead, SyncTtlPut, SyncPublishData, SyncHandler,
     SyncFinish
<1>2. CASE Execution(v)
  BY <1>2 DEF Archives, Execution, Deliver, Begin, CheckVersion, SetTtlRead, SetTtlPut,
     TransformData, SyncData, SyncDataAllDone, CheckNextToken, End, tables
<1>3. CASE WaitLambda(v)
  BY <1>3 DEF WaitLambda, WaitBegin, StoreToken, SelfResume, WaitEnd, tables
<1>4. CASE Timeout(v) \/ Failure(v)
  BY <1>4 DEF Timeout, Failure, SyncFail, StepFail, WaitFail, Retry, tables
<1>. QED BY <1>1, <1>2, <1>3, <1>4 DEF Progress

(* Nothing leaves the history.                                             *)
LEMMA HistoryGrows ==
  ASSUME Archiving, OrderInv, NEW v \in Version, Progress(v)
  PROVE  history \subseteq history'
BY ArchiveStep, HistoryKept

(* The steps that bring v itself past its archiving state.                 *)
LEMMA OwnHistory ==
  ASSUME Archiving, OrderInv, NEW v \in Version, Progress(v), PastHistory(v)'
  PROVE  PastHistory(v) \/ Archives(v)
<1>1. LogInv /\ EndsByLambda
  BY DEF OrderInv
<1>2. /\ step \in [Version -> SfnStep \cup {"none", "publish_sync"} \cup Ended]
      /\ at \in [Version -> At]
  BY <1>1, Typed
<1>. USE DEF PastHistory, GoTo, InStep, SyncAt
<1>3. CASE SyncRequest(v)
  BY <1>2, <1>3 DEF Archives, SyncRequest, SyncTtlRead, SyncTtlPut, SyncPublishData,
     SyncHandler, SyncFinish, control
<1>4. CASE Deliver(v) \/ Begin(v) \/ CheckVersion(v) \/ SetTtlRead(v) \/ SetTtlPut(v)
  BY <1>2, <1>4 DEF Deliver, Begin, CheckVersion, SetTtlRead, SetTtlPut, SfnStep
<1>5. CASE \/ TransformData(v) \/ SyncDataAllDone(v) \/ HistoryCopy(v)
           \/ \E h \in Handlers : SyncData(v, h)
  BY <1>2, <1>5 DEF Archives, TransformData, SyncDataAllDone, SyncData, control
<1>6. CASE CheckNextToken(v)
  BY <1>6 DEF CheckNextToken
<1>7. CASE End(v)
  <2>1. step[v] \in SfnStep \ {"wait_prev_command"} /\ at[v] = "end"
    BY <1>1, <1>7 DEF End, EndsByLambda, Waiting
  <2>2. step[v] = "check_version" =>
          step'[v] \in {"set_ttl_command", "wait_prev_command", "fail"} /\ at'[v] # "body"
    BY <1>2, <1>7 DEF End, NextStep, AfterCheck, Entry, Ended
  <2>3. step[v] = "set_ttl_command" => step'[v] = "history_copy" /\ at'[v] = "start"
    BY <1>2, <1>7 DEF End, NextStep, Entry, Ended
  <2>. QED BY <2>1, <2>2, <2>3 DEF SfnStep
<1>8. CASE WaitLambda(v)
  BY <1>2, <1>8 DEF WaitLambda, WaitBegin, StoreToken, SelfResume, WaitEnd,
     ResumedStep, ResumedAt, TokenOpen
<1>9. CASE Timeout(v) \/ Failure(v)
  BY <1>1, <1>2, <1>9 DEF Timeout, Failure, SyncFail, StepFail, WaitFail, Retry,
     Waiting, EndsByLambda, Archiving, Orderly
<1>. QED BY <1>3, <1>4, <1>5, <1>6, <1>7, <1>8, <1>9 DEF Progress, Execution

(* A version beyond its archiving has the one before it in the history.    *)
LEMMA PastKept ==
  ASSUME Archiving, HistoryInv, NEW v \in Version, Progress(v)
  PROVE  PastIsArchived'
<1>1. OrderInv /\ PastIsArchived
  BY DEF HistoryInv
<1>. SUFFICES ASSUME NEW w \in Version, PastHistory(w)' PROVE w - 1 \in history' \cup {0}
  BY DEF PastIsArchived
<1>2. CASE PastHistory(w)
  BY <1>1, <1>2, HistoryGrows DEF PastIsArchived
<1>3. CASE w = v /\ Archives(v)
  BY <1>1, <1>3, ArchiveStep
<1>4. CASE w # v
  BY <1>1, <1>2, <1>4, ControlStep DEF Unmoved, Resumed, PastHistory
<1>. QED BY <1>1, <1>2, <1>3, <1>4, OwnHistory

(* When the data table moves to v, version v - 1 is in the history.        *)
LEMMA MoverArchived ==
  ASSUME HistoryInv, NEW v \in Version, DataMoves(v)
  PROVE  v - 1 \in history \cup {0}
BY DEF DataMoves, SyncPublishData, SyncAt, SyncData, HistoryInv, PastIsArchived, PastHistory

(* So no step leaves a version of the past out of the history.             *)
LEMMA CompleteKept ==
  ASSUME Archiving, HistoryInv, NEW v \in Version, Progress(v)
  PROVE  HistoryComplete'
<1>1. OrderInv /\ HistoryComplete /\ history \subseteq history'
  BY HistoryGrows DEF HistoryInv
<1>2. CASE DataStays
  BY <1>1, <1>2 DEF DataStays, HistoryComplete
<1>3. CASE DataMoves(v)
  <2>1. v - 1 \in history' \cup {0} /\ view[Dds] = v - 1 /\ view'[Dds] = v
    BY <1>1, <1>3, MoverArchived DEF DataMoves
  <2>2. 1 .. (v - 2) \subseteq history'
    BY <1>1, <2>1 DEF HistoryComplete
  <2>3. \A n \in 1 .. (v - 1) : n \in 1 .. (v - 2) \/ n = v - 1
    OBVIOUS
  <2>. QED BY <2>1, <2>2, <2>3 DEF HistoryComplete
<1>. QED BY <1>1, <1>2, <1>3, DataStep DEF Archiving

(* A publish keeps the history's invariant.                                *)
LEMMA PublishHistoryInv ==
  ASSUME Archiving, HistoryInv, NEW v \in Version, Publish(v)
  PROVE  HistoryInv'
<1>1. OrderInv /\ PastIsArchived /\ HistoryComplete
  BY DEF HistoryInv
<1>2. UNCHANGED <<view, history>>
  BY DEF Publish, PublishAsync, PublishSync, ReadBase, tables
<1>3. step \in [Version -> SfnStep \cup {"none", "publish_sync"} \cup Ended] /\ at \in [Version -> At]
  BY <1>1, Typed DEF OrderInv
<1>4. \A w \in Version : PastHistory(w)' => PastHistory(w)
  BY <1>1, <1>3, PublishedRow DEF Archiving, PastHistory
<1>5. PastIsArchived' /\ HistoryComplete'
  BY <1>1, <1>2, <1>4 DEF PastIsArchived, HistoryComplete
<1>. QED BY <1>1, <1>5, PublishOrderInv DEF Archiving, HistoryInv

LEMMA HistoryInvInit == Init => HistoryInv
<1>. SUFFICES ASSUME Init PROVE HistoryInv
  OBVIOUS
<1>1. PastIsArchived /\ HistoryComplete
  BY DEF Init, TablesInit, PastIsArchived, PastHistory, HistoryComplete
<1>. QED BY <1>1, OrderInvInit DEF HistoryInv

(* Every step keeps the history's invariant.                               *)
LEMMA HistoryInvStep ==
  ASSUME Archiving, HistoryInv, [Next]_vars
  PROVE  HistoryInv'
<1>1. OrderInv /\ OrderInv'
  BY OrderInvStep DEF HistoryInv, Archiving
<1>2. CASE UNCHANGED vars
  BY <1>1, <1>2 DEF vars, HistoryInv, PastIsArchived, PastHistory, HistoryComplete
<1>3. ~PutDraft
  BY <1>1 DEF OrderInv, PutDraft, NoDraft
<1>4. ASSUME NEW v \in Version, Progress(v) PROVE HistoryInv'
  BY <1>1, <1>4, PastKept, CompleteKept DEF HistoryInv
<1>. QED BY <1>2, <1>3, <1>4, PublishHistoryInv DEF Next, Progress

(* A version that is past its history_copy has archived what it overwrites.*)
THEOREM HistoryInvariant ==
  ASSUME Archiving
  PROVE  Spec => []HistoryInv
<1>. QED BY HistoryInvInit, HistoryInvStep, PTL DEF Spec

(* Every state of the data row but the last one is in the history table,   *)
(* although executions interleave, fail and time out.                      *)
THEOREM HistoryStaysComplete ==
  ASSUME Archiving
  PROVE  Spec => []HistoryComplete
<1>1. HistoryInv => HistoryComplete
  BY DEF HistoryInv
<1>. QED BY <1>1, HistoryInvariant, PTL

-----------------------------------------------------------------------------
(***************************************************************************)
(* Each step of the pipeline is a step of AggregateLog, or none.           *)
(***************************************************************************)
Commands == {v \in Version : Stored(v)}

(* The length of the abstract log is a number.                             *)
LEMMA CommandsAreFinite == IsFiniteSet(Version) /\ IsFiniteSet(Commands) /\ Cardinality(Commands) \in Nat
<1>1. IsFiniteSet(Version)
  BY FS_Interval
<1>2. Commands \subseteq Version
  BY DEF Commands
<1>. QED BY <1>1, <1>2, FS_Subset, FS_CardinalityType

(* The commands of a log without gaps are as many as the newest one's      *)
(* version.                                                                *)
LEMMA CountOfInterval ==
  ASSUME NEW n \in Nat
  PROVE  Cardinality(1 .. n) = n
<1>1. Cardinality(1 .. n) = IF 1 > n THEN 0 ELSE n - 1 + 1
  BY FS_Interval
<1>. QED BY <1>1

(* A version that runs and is next in line has all the others behind it.   *)
LEMMA NextIsAccepted ==
  ASSUME OrderInv, NEW v \in Version, Stored(v), view[Dds] = v - 1
  PROVE  view[Dds] < Cardinality(Commands)
<1>1. OnlyStoredHandled /\ DataIsPrefix
  BY DEF OrderInv, LogInv
<1>2. \A w \in 1 .. (v - 1) : Stored(w)
  BY <1>1 DEF OnlyStoredHandled, DataIsPrefix
<1>3. 1 .. v \subseteq Commands
  BY <1>2 DEF Commands
<1>4. Cardinality(1 .. v) <= Cardinality(Commands)
  BY <1>3, CommandsAreFinite, FS_Subset
<1>. QED BY <1>4, CommandsAreFinite, CountOfInterval

(* A publish is an Accept of the abstract log, or a stutter.               *)
LEMMA PublishAccepts ==
  ASSUME Orderly, OrderInv, NEW v \in Version, Publish(v)
  PROVE  Log!Accept \/ UNCHANGED <<Cardinality(Commands), view[Dds], history>>
<1>1. UNCHANGED <<view, history>>
  BY DEF Publish, PublishAsync, PublishSync, ReadBase, tables
<1>2. CASE UNCHANGED row
  BY <1>1, <1>2 DEF Commands, Stored
<1>3. ASSUME NEW w \in Version, Appends(w) PROVE Log!Accept
  <2>1. w \notin Commands /\ Commands' = Commands \cup {w}
    BY <1>3 DEF Appends, Commands, Stored
  <2>2. Cardinality(Commands') = Cardinality(Commands) + 1
    BY <2>1, CommandsAreFinite, FS_AddElement
  <2>3. Cardinality(Commands) < MaxVersion
    <3>1. Commands \cup {w} \subseteq Version
      BY DEF Commands
    <3>2. Cardinality(Commands \cup {w}) <= Cardinality(Version)
      BY <3>1, CommandsAreFinite, FS_Subset
    <3>. QED BY <2>1, <2>2, <3>2, CommandsAreFinite, CountOfInterval
  <2>. QED BY <1>1, <2>2, <2>3 DEF Log!Accept, Commands
<1>. QED BY <1>2, <1>3, PublishAppends DEF OrderInv

(* A step of an execution is an Archive, an Apply or a stutter.            *)
LEMMA ProgressRefines ==
  ASSUME Archiving, HistoryInv, NEW v \in Version, Progress(v)
  PROVE  Log!Archive \/ Log!Apply \/ UNCHANGED <<Cardinality(Commands), view[Dds], history>>
<1>1. OrderInv /\ LogInv /\ Orderly /\ OnlyStoredRuns
  BY DEF HistoryInv, OrderInv, LogInv, Archiving
<1>2. Cardinality(Commands)' = Cardinality(Commands)
  <2>1. Commands' = Commands
    BY <1>1, ModesKept DEF Progress, KeepsModes, Commands, Stored
  <2>. QED BY <2>1
<1>3. view[Dds] \in 0 .. MaxVersion
  BY <1>1, Typed
<1>4. CASE Archives(v)
  <2>1. /\ view[Dds] = v - 1 /\ history' = history \cup ({view[Dds]} \ {0})
        /\ view'[Dds] = view[Dds]
    BY <1>1, <1>4, ArchiveStep DEF DataStays
  <2>2. Stored(v)
    BY <1>1, <1>4 DEF Archives, SyncHistory, HistoryCopy, SyncAt, InStep, OnlyStoredRuns
  <2>3. view[Dds] < Cardinality(Commands)
    BY <1>1, <2>1, <2>2, NextIsAccepted
  <2>4. CASE view[Dds] = 0 \/ view[Dds] \in history
    BY <1>2, <2>1, <2>4
  <2>5. CASE view[Dds] # 0 /\ view[Dds] \notin history
    BY <1>2, <1>3, <2>1, <2>3, <2>5 DEF Log!Archive, Commands
  <2>. QED BY <2>4, <2>5
<1>5. CASE ~Archives(v)
  <2>1. UNCHANGED history
    BY <1>5, HistoryKept
  <2>2. CASE DataStays
    BY <1>2, <2>1, <2>2 DEF DataStays
  <2>3. CASE DataMoves(v)
    <3>1. v - 1 \in history \cup {0} /\ view[Dds] = v - 1 /\ view'[Dds] = v
      BY <2>3, MoverArchived DEF DataMoves
    <3>2. Stored(v)
      BY <1>1, <2>3 DEF DataMoves, SyncPublishData, SyncAt, SyncData, OnlyStoredRuns
    <3>3. view[Dds] < Cardinality(Commands)
      BY <1>1, <3>1, <3>2, NextIsAccepted
    <3>. QED BY <1>2, <2>1, <3>1, <3>3 DEF Log!Apply, Commands
  <2>. QED BY <1>1, <2>2, <2>3, DataStep
<1>. QED BY <1>4, <1>5

(* An initial state of the pipeline is one of the abstract log.            *)
LEMMA InitRefines == Init => Log!Init
<1>1. Init => {v \in Version : Stored(v)} = {}
  BY DEF Init, TablesInit, Stored, NoRow
<1>. QED BY <1>1, FS_EmptySet DEF Init, TablesInit, Log!Init

(* Every step of the pipeline is a step of the abstract log, or a stutter. *)
LEMMA StepRefines ==
  ASSUME Archiving, HistoryInv, [Next]_vars
  PROVE  [Log!Next]_(Log!logVars)
<1>1. OrderInv /\ Orderly
  BY DEF HistoryInv, Archiving
<1>2. CASE UNCHANGED <<Cardinality(Commands), view[Dds], history>>
  BY <1>2 DEF Log!logVars, Commands
<1>3. CASE UNCHANGED vars
  <2>1. Commands' = Commands
    BY <1>3 DEF vars, Commands, Stored
  <2>. QED BY <1>2, <1>3, <2>1 DEF vars
<1>4. ~PutDraft
  BY <1>1 DEF OrderInv, PutDraft, NoDraft
<1>5. ASSUME NEW v \in Version, Progress(v) PROVE [Log!Next]_(Log!logVars)
  BY <1>2, <1>5, ProgressRefines DEF Log!Next
<1>6. ASSUME NEW v \in Version, Publish(v) PROVE [Log!Next]_(Log!logVars)
  BY <1>1, <1>2, <1>6, PublishAccepts DEF Log!Next
<1>. QED BY <1>3, <1>4, <1>5, <1>6 DEF Next, Progress

(* The pipeline implements AggregateLog, its fairness aside: commands are  *)
(* accepted one after the other, applied in that order, and each state is  *)
(* archived before it is overwritten.                                      *)
THEOREM PipelineImplementsLog ==
  ASSUME Archiving
  PROVE  Spec => Log!Spec
<1>1. HistoryInv /\ [Next]_vars => [Log!Next]_(Log!logVars)
  BY StepRefines
<1>. QED BY <1>1, InitRefines, HistoryInvariant, PTL DEF Spec, Log!Spec
=============================================================================
