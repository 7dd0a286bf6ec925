---------------------------- MODULE CommandSync ----------------------------
(***************************************************************************)
(* How the commands of ONE aggregate reach its read models.                *)
(*                                                                         *)
(* Callers append versions to the command table (CommandService).  The     *)
(* table's stream starts one Step Functions execution per async            *)
(* command; each state of that execution invokes CommandEventHandler, so   *)
(* executions of successive versions interleave freely and coordinate only *)
(* through the tables: check_version decides whether the version may go,   *)
(* must wait for its predecessor or must stop; a version that waits stores *)
(* its task token in its own row and then looks at its predecessor's       *)
(* status, while the predecessor's finish step writes its own status and   *)
(* then looks for a token in the next row.  publishSync runs the same      *)
(* service calls inside the caller's request, without an execution.        *)
(***************************************************************************)
EXTENDS CommandTables

CONSTANTS
  Callers,   (* the publishing methods in use: a subset of AllCallers       *)
  Faults     (* what may go wrong: a subset of AllFaults                    *)

AllCallers == {"async",      (* publishAsync                                *)
               "partial",    (* publishPartialUpdateAsync                   *)
               "duplicate",  (* duplicate                                   *)
               "sync"}       (* publishSync                                 *)

AllFaults ==
  {"error",        (* a Lambda throws or dies, a request of publishSync fails *)
   "timeout",      (* wait_prev_command reaches its 24h taskTimeout           *)
   "stale",        (* a read of the data table returns an older row           *)
   "retry",        (* Step Functions invokes a Lambda again                   *)
   "lost_resume",  (* a handshake read or SendTaskSuccess fails for good      *)
   "late_end"}     (* the Lambda of wait_prev_command may still run when its  *)
                   (* execution, already resumed, reaches finish              *)

ASSUME CallersAssumption == Callers \subseteq AllCallers
ASSUME FaultsAssumption == Faults \subseteq AllFaults

VARIABLES
  step,     (* version -> state of its execution, or "publish_sync" while   *)
            (* the request of publishSync runs, or how it ended             *)
  at,       (* version -> progress within that state                        *)
  verdict,  (* version -> result of checkVersion: 0 go, 1 wait, -1 stop     *)
  waiter,   (* version -> progress of the Lambda of wait_prev_command, which*)
            (* outlives the state when the execution is resumed early       *)
  draft     (* the item that publishPartialUpdateAsync or duplicate read    *)
            (* and has not put yet; base is its version, 0 when none        *)

control == <<step, at, verdict, waiter, draft>>
vars == <<row, view, handled, history, snap, step, at, verdict, waiter, draft>>

Waiting(v) == step[v] = "wait_prev_command"
Ended == {"success", "fail"}
At == {"idle", "start", "body", "put", "end",
       "ttl", "history", "data", "handlers", "status"}
NoDraft == [base |-> 0, item |-> NoRow]

Init ==
  /\ TablesInit
  /\ step = [v \in Version |-> "none"]
  /\ at = [v \in Version |-> "idle"]
  /\ verdict = [v \in Version |-> 0]
  /\ waiter = [v \in Version |-> "none"]
  /\ draft = NoDraft

TypeOK ==
  /\ TablesTypeOK
  /\ step \in [Version -> SfnStep \cup {"none", "publish_sync"} \cup Ended]
  /\ at \in [Version -> At]
  /\ verdict \in [Version -> {-1, 0, 1}]
  /\ waiter \in [Version -> {"none", "start", "body", "stored", "end", "done"}]
  /\ draft \in [base : 0 .. MaxVersion, item : Row]

(* What dataService.getItem may answer: the version of the data row, or of *)
(* an earlier state of it, because the read is not consistent.             *)
DataRead == IF "stale" \in Faults THEN {0} \cup handled[Dds] ELSE {view[Dds]}

(***************************************************************************)
(* Callers.  Reading whether version v - 1 exists and putting version v    *)
(* are two requests, but a stored version stays stored, so the condition   *)
(* of the put alone decides and they are one action.                       *)
(***************************************************************************)

(* publishAsync puts the version after the one the caller named (or after  *)
(* the latest), which must exist; version 1 needs no predecessor.          *)
PublishAsync(v) ==
  /\ "async" \in Callers
  /\ v = 1 \/ Stored(v - 1)
  /\ PutIfAbsent(v, [mode |-> "ASYNC", status |-> <<"none", "none">>, token |-> 0])
  /\ UNCHANGED <<view, handled, history, snap, control>>

(* publishPartialUpdateAsync reads the item it merges into and drops only  *)
(* its syncMode: status and taskToken stay in the merged input.  duplicate *)
(* keeps the item as it is.                                                *)
ReadBase(v) ==
  /\ draft = NoDraft
  /\ Stored(v) /\ v + 1 \in Version
  /\ \/ /\ "partial" \in Callers
        /\ draft' = [base |-> v, item |-> [row[v] EXCEPT !.mode = "ASYNC"]]
     \/ /\ "duplicate" \in Callers
        /\ draft' = [base |-> v, item |-> row[v]]
  /\ UNCHANGED <<tables, step, at, verdict, waiter>>

(* The put of that item as the next version, or its rejection.             *)
PutDraft ==
  /\ draft.base # 0
  /\ IF Stored(draft.base + 1)
       THEN UNCHANGED row
       ELSE PutIfAbsent(draft.base + 1, draft.item)
  /\ draft' = NoDraft
  /\ UNCHANGED <<view, handled, history, snap, step, at, verdict, waiter>>

(* publishSync takes its version from the data table, puts the command and *)
(* goes on inside the request.                                             *)
PublishSync(v) ==
  /\ "sync" \in Callers
  /\ v - 1 \in DataRead
  /\ PutIfAbsent(v, [mode |-> "SYNC", token |-> 0,
                     status |-> getCommandStatus("publish_sync", "STARTED")])
  /\ step' = [step EXCEPT ![v] = "publish_sync"]
  /\ at' = [at EXCEPT ![v] = "ttl"]
  /\ UNCHANGED <<view, handled, history, snap, verdict, waiter, draft>>

(***************************************************************************)
(* The request of publishSync after its put: updateTtl, history.publish,   *)
(* data.publish, the other handlers in parallel, the final status.         *)
(***************************************************************************)
SyncAt(v, a) == step[v] = "publish_sync" /\ at[v] = a
GoTo(v, a) == at' = [at EXCEPT ![v] = a]

SyncTtlRead(v) ==
  /\ SyncAt(v, "ttl")
  /\ updateTtlRead(v)
  /\ GoTo(v, IF TtlHasPredecessor(v) THEN "put" ELSE "history")
  /\ UNCHANGED <<row, view, handled, history, step, verdict, waiter, draft>>

SyncTtlPut(v) ==
  /\ SyncAt(v, "put")
  /\ updateTtlPut(v)
  /\ GoTo(v, "history")
  /\ UNCHANGED <<view, handled, history, step, verdict, waiter, draft>>

SyncHistory(v) ==
  /\ SyncAt(v, "history")
  /\ \E d \in DataRead : historyPublish(d)
  /\ GoTo(v, "data")
  /\ UNCHANGED <<row, view, handled, snap, step, verdict, waiter, draft>>

SyncPublishData(v) ==
  /\ SyncAt(v, "data")
  /\ handlerUp(v, Dds)
  /\ GoTo(v, "handlers")
  /\ UNCHANGED <<row, history, snap, step, verdict, waiter, draft>>

SyncHandler(v, h) ==
  /\ SyncAt(v, "handlers")
  /\ h # Dds /\ v \notin handled[h]
  /\ handlerUp(v, h)
  /\ UNCHANGED <<row, history, snap, control>>

SyncFinish(v) ==
  /\ SyncAt(v, "handlers")
  /\ \A h \in Handlers : v \in handled[h]
  /\ updateStatus(v, getCommandStatus("finish", "FINISHED"))
  /\ step' = [step EXCEPT ![v] = "success"]
  /\ GoTo(v, "idle")
  /\ UNCHANGED <<view, handled, history, snap, verdict, waiter, draft>>

(* A request failed: the catch block records publish_sync:FAILED, unless   *)
(* that update fails too or the process is gone.                           *)
SyncFail(v) ==
  /\ "error" \in Faults
  /\ step[v] = "publish_sync"
  /\ \/ updateStatus(v, getCommandStatus("publish_sync", "FAILED"))
     \/ UNCHANGED row
  /\ step' = [step EXCEPT ![v] = "fail"]
  /\ GoTo(v, "idle")
  /\ snap' = [snap EXCEPT ![v] = NoRow]
  /\ UNCHANGED <<view, handled, history, verdict, waiter, draft>>

(***************************************************************************)
(* The execution of an async command.  CommandEventHandler.execute writes  *)
(* <state>:STARTED (Begin), runs the state's method (the actions between), *)
(* and writes <state>:FINISHED (End), upon which Step Functions moves on.  *)
(***************************************************************************)
InStep(v, s, a) == step[v] = s /\ at[v] = a

(* The stream record of an INSERT starts the execution; SYNC rows do not.  *)
(* The records of one batch are handled in parallel, so in any order.      *)
Deliver(v) ==
  /\ row[v].mode = "ASYNC" /\ step[v] = "none"
  /\ step' = [step EXCEPT ![v] = "check_version"]
  /\ GoTo(v, "start")
  /\ UNCHANGED <<tables, verdict, waiter, draft>>

(* The Lambda of wait_prev_command may be delayed, but without "late_end"  *)
(* not until its own execution has run four more states.                   *)
WaiterDoneInTime(v) == "late_end" \in Faults \/ waiter[v] \in {"none", "done"}

Begin(v) ==
  /\ step[v] \in SfnStep /\ at[v] = "start"
  /\ step[v] = "finish" => WaiterDoneInTime(v)
  /\ updateStatus(v, getCommandStatus(step[v], "STARTED"))
  /\ GoTo(v, "body")
  /\ UNCHANGED <<view, handled, history, snap, step, verdict, waiter, draft>>

(* Seeded bug: a version ahead of the data row does not wait.              *)
CheckResultNoWait(v, d) == IF 1 + d <= v THEN 0 ELSE -1

(* checkVersion compares the version with the data row; the read of the    *)
(* predecessor is consistent.                                              *)
CheckResult(v, d) ==
  LET nextVersion == 1 + d IN
  IF nextVersion = v THEN 0
  ELSE IF nextVersion < v THEN (IF Stored(v - 1) THEN 1 ELSE 0)
  ELSE -1

CheckVersion(v) ==
  /\ InStep(v, "check_version", "body")
  /\ \E d \in DataRead : verdict' = [verdict EXCEPT ![v] = CheckResult(v, d)]
  /\ GoTo(v, "end")
  /\ UNCHANGED <<tables, step, waiter, draft>>

SetTtlRead(v) ==
  /\ InStep(v, "set_ttl_command", "body")
  /\ updateTtlRead(v)
  /\ GoTo(v, IF TtlHasPredecessor(v) THEN "put" ELSE "end")
  /\ UNCHANGED <<row, view, handled, history, step, verdict, waiter, draft>>

SetTtlPut(v) ==
  /\ InStep(v, "set_ttl_command", "put")
  /\ updateTtlPut(v)
  /\ GoTo(v, "end")
  /\ UNCHANGED <<view, handled, history, step, verdict, waiter, draft>>

HistoryCopy(v) ==
  /\ InStep(v, "history_copy", "body")
  /\ \E d \in DataRead : historyPublish(d)
  /\ GoTo(v, "end")
  /\ UNCHANGED <<row, view, handled, snap, step, verdict, waiter, draft>>

(* transformData only lists the handlers for the Map state that follows.   *)
TransformData(v) ==
  /\ InStep(v, "transform_data", "body")
  /\ GoTo(v, "end")
  /\ UNCHANGED <<tables, step, verdict, waiter, draft>>

(* One branch of the Map state: sync_data for handler h.  Its two status   *)
(* writes are one, nothing distinguishes them.  A branch that is retried   *)
(* runs its handler again; one that is running when another fails the      *)
(* execution still completes.                                              *)
SyncData(v, h) ==
  /\ at[v] = "body" /\ step[v] \in {"sync_data", "fail"}
  /\ v \notin handled[h] \/ "retry" \in Faults
  /\ updateStatus(v, getCommandStatus("sync_data", "FINISHED"))
  /\ handlerUp(v, h)
  /\ UNCHANGED <<history, snap, control>>

(* Seeded bug: finish does not wait for every branch.                      *)
SyncDataAnyDone(v) ==
  /\ InStep(v, "sync_data", "body")
  /\ \E h \in Handlers : v \in handled[h]
  /\ step' = [step EXCEPT ![v] = "finish"]
  /\ GoTo(v, "start")
  /\ UNCHANGED <<tables, verdict, waiter, draft>>

SyncDataAllDone(v) ==
  /\ InStep(v, "sync_data", "body")
  /\ \A h \in Handlers : v \in handled[h]
  /\ step' = [step EXCEPT ![v] = "finish"]
  /\ GoTo(v, "start")
  /\ UNCHANGED <<tables, verdict, waiter, draft>>

(* SendTaskSuccess with the token of version t: only an execution that     *)
(* still waits takes it; for any other the error is swallowed (or alarmed).*)
TokenOpen(t) == t \in Version /\ Waiting(t)
ResumedStep(t) == IF TokenOpen(t) THEN [step EXCEPT ![t] = "set_ttl_command"] ELSE step
ResumedAt(t) == IF TokenOpen(t) THEN [at EXCEPT ![t] = "start"] ELSE at

(* Seeded bug: the token is looked up in the finishing command's own row.  *)
OwnToken(v) == row[v].token

(* checkNextToken reads the next row consistently and resumes the token it *)
(* finds there.  When the read, or the call, fails for good it only raises *)
(* an alarm: the step still succeeds.                                      *)
NextToken(v) == IF Stored(v + 1) THEN row[v + 1].token ELSE 0

CheckNextToken(v) ==
  /\ InStep(v, "finish", "body")
  /\ \/ /\ step' = ResumedStep(NextToken(v))
        /\ at' = [ResumedAt(NextToken(v)) EXCEPT ![v] = "end"]
     \/ /\ "lost_resume" \in Faults
        /\ GoTo(v, "end")
        /\ UNCHANGED step
  /\ UNCHANGED <<tables, verdict, waiter, draft>>

AfterCheck(v) ==
  CASE verdict[v] = 0 -> "set_ttl_command"
    [] verdict[v] = 1 -> "wait_prev_command"
    [] OTHER          -> "fail"

(* Seeded bug: the data row is overwritten without being archived.         *)
NextStepNoHistory(v) ==
  CASE step[v] = "check_version"   -> AfterCheck(v)
    [] step[v] = "set_ttl_command" -> "transform_data"
    [] step[v] = "transform_data"  -> "sync_data"
    [] OTHER                       -> "success"

NextStep(v) ==
  CASE step[v] = "check_version"   -> AfterCheck(v)
    [] step[v] = "set_ttl_command" -> "history_copy"
    [] step[v] = "history_copy"    -> "transform_data"
    [] step[v] = "transform_data"  -> "sync_data"
    [] OTHER                       -> "success"

(* Where the next state begins: the Lambda of wait_prev_command is tracked *)
(* by waiter, and the Map state starts its branches at once.               *)
Entry(s) == IF s = "sync_data" THEN "body"
            ELSE IF s \in Ended \cup {"wait_prev_command"} THEN "idle"
            ELSE "start"

End(v) ==
  /\ step[v] \in SfnStep /\ at[v] = "end"
  /\ updateStatus(v, getCommandStatus(step[v], "FINISHED"))
  /\ step' = [step EXCEPT ![v] = NextStep(v)]
  /\ GoTo(v, Entry(NextStep(v)))
  /\ waiter' = [waiter EXCEPT ![v] = IF NextStep(v) = "wait_prev_command"
                                       THEN "start" ELSE @]
  /\ verdict' = [verdict EXCEPT ![v] = 0]
  /\ UNCHANGED <<view, handled, history, snap, draft>>

(***************************************************************************)
(* The Lambda of wait_prev_command (waitForTaskToken): the state ends when *)
(* someone sends the token back, not when the Lambda returns.              *)
(***************************************************************************)
WaitStep(v, from, to) ==
  /\ waiter[v] = from
  /\ waiter' = [waiter EXCEPT ![v] = to]

WaitBegin(v) ==
  /\ WaitStep(v, "start", "body")
  /\ updateStatus(v, getCommandStatus("wait_prev_command", "STARTED"))
  /\ UNCHANGED <<view, handled, history, snap, step, at, verdict, draft>>

StoreToken(v) ==
  /\ WaitStep(v, "body", "stored")
  /\ updateTaskToken(v, v)
  /\ UNCHANGED <<view, handled, history, snap, step, at, verdict, draft>>

(* Seeded bug: finish:STARTED is not taken for having entered finish.      *)
PrevFinished(v) ==
  Stored(v - 1) /\ row[v - 1].status = getCommandStatus("finish", "FINISHED")

(* The consistent read of the predecessor's status, and the self-resume    *)
(* when it shows that the predecessor entered finish.  A failed read, or a *)
(* failed call, only raises an alarm.                                      *)
PrevEnteredFinish(v) == Stored(v - 1) /\ row[v - 1].status \in EnteredFinish

SelfResume(v) ==
  /\ WaitStep(v, "stored", "end")
  /\ \/ /\ PrevEnteredFinish(v)
        /\ step' = ResumedStep(v)
        /\ at' = ResumedAt(v)
     \/ /\ PrevEnteredFinish(v) => "lost_resume" \in Faults
        /\ UNCHANGED <<step, at>>
  /\ UNCHANGED <<tables, verdict, draft>>

WaitEnd(v) ==
  /\ WaitStep(v, "end", "done")
  /\ updateStatus(v, getCommandStatus("wait_prev_command", "FINISHED"))
  /\ UNCHANGED <<view, handled, history, snap, step, at, verdict, draft>>

(***************************************************************************)
(* Failures.                                                               *)
(***************************************************************************)

(* A Lambda throws: execute records <state>:FAILED, unless it died or the  *)
(* first status write, which is outside its try, is what failed.           *)
StepFail(v) ==
  /\ "error" \in Faults
  /\ step[v] \in SfnStep /\ ~Waiting(v)
  /\ \/ updateStatus(v, getCommandStatus(step[v], "FAILED"))
     \/ UNCHANGED row
  /\ step' = [step EXCEPT ![v] = "fail"]
  /\ GoTo(v, IF step[v] = "sync_data" THEN "body" ELSE "idle")
  /\ snap' = [snap EXCEPT ![v] = NoRow]
  /\ verdict' = [verdict EXCEPT ![v] = 0]
  /\ UNCHANGED <<view, handled, history, waiter, draft>>

(* The same for the Lambda of wait_prev_command; its failure ends the      *)
(* execution only if that still waits.                                     *)
WaitFail(v) ==
  /\ "error" \in Faults
  /\ waiter[v] \notin {"none", "done"}
  /\ waiter' = [waiter EXCEPT ![v] = "done"]
  /\ \/ updateStatus(v, getCommandStatus("wait_prev_command", "FAILED"))
     \/ UNCHANGED row
  /\ step' = [step EXCEPT ![v] = IF Waiting(v) THEN "fail" ELSE @]
  /\ UNCHANGED <<view, handled, history, snap, at, verdict, draft>>

(* States.Timeout after 24h: no Lambda runs, the row keeps its status.     *)
Timeout(v) ==
  /\ "timeout" \in Faults
  /\ Waiting(v) /\ waiter[v] = "done"
  /\ step' = [step EXCEPT ![v] = "fail"]
  /\ UNCHANGED <<tables, at, verdict, waiter, draft>>

(* Step Functions invokes the Lambda of a state again after a service      *)
(* exception, whatever the first invocation had done by then.              *)
Retry(v) ==
  /\ "retry" \in Faults
  /\ step[v] \in SfnStep \ {"sync_data"} /\ at[v] \in {"body", "put", "end"}
  /\ GoTo(v, "start")
  /\ snap' = [snap EXCEPT ![v] = NoRow]
  /\ verdict' = [verdict EXCEPT ![v] = 0]
  /\ UNCHANGED <<row, view, handled, history, step, waiter, draft>>

(***************************************************************************)
(* The specification.                                                      *)
(***************************************************************************)
Publish(v) == PublishAsync(v) \/ PublishSync(v) \/ ReadBase(v)

SyncRequest(v) ==
  \/ SyncTtlRead(v) \/ SyncTtlPut(v) \/ SyncHistory(v) \/ SyncPublishData(v)
  \/ \E h \in Handlers : SyncHandler(v, h)
  \/ SyncFinish(v)

Execution(v) ==
  \/ Deliver(v) \/ Begin(v) \/ CheckVersion(v) \/ SetTtlRead(v) \/ SetTtlPut(v)
  \/ HistoryCopy(v) \/ TransformData(v)
  \/ \E h \in Handlers : SyncData(v, h)
  \/ SyncDataAllDone(v) \/ CheckNextToken(v) \/ End(v)

WaitLambda(v) == WaitBegin(v) \/ StoreToken(v) \/ SelfResume(v) \/ WaitEnd(v)

Failure(v) == SyncFail(v) \/ StepFail(v) \/ WaitFail(v) \/ Retry(v)

Next ==
  \/ PutDraft
  \/ \E v \in Version :
       Publish(v) \/ SyncRequest(v) \/ Execution(v) \/ WaitLambda(v)
         \/ Timeout(v) \/ Failure(v)

Spec == Init /\ [][Next]_vars

(* AWS delivers every stream record, runs every execution and every Lambda *)
(* on, and the 24h timer fires; callers need not publish.  A retried state *)
(* is not run forever: no fairness is needed for that, a retry is no       *)
(* Execution step.                                                         *)
Fairness ==
  \A v \in Version :
    /\ WF_vars(Execution(v))
    /\ WF_vars(WaitLambda(v))
    /\ WF_vars(SyncRequest(v))
    /\ WF_vars(Timeout(v))

FairSpec == Spec /\ Fairness

(***************************************************************************)
(* Properties.                                                             *)
(***************************************************************************)

(* The command log is append-only: whatever the callers, failures, retries *)
(* and whole-row rewrites of updateTtl, a stored version is never replaced *)
(* by another command nor removed, and versions have no gap.               *)
AppendOnlyLog ==
  [][\A v \in Version :
       /\ Stored(v) => row'[v].mode = row[v].mode
       /\ v > 1 /\ ~Stored(v) /\ row'[v].mode # "NONE" => Stored(v - 1)]_row

(* The data table moves through the versions one by one: no command is     *)
(* skipped and none applied twice or late, although every version runs in  *)
(* an execution of its own and reads of the data table may be stale.       *)
DataInOrder ==
  [][view'[Dds] # view[Dds] => view'[Dds] = view[Dds] + 1]_view

(* No version reaches the data table before every earlier one has: the     *)
(* part of DataInOrder that survives retried Lambdas.                      *)
NoCommandSkipped ==
  \A v \in handled[Dds] : v > 1 => v - 1 \in handled[Dds]

(* The status that waitConfirmToken trusts is sound: a row in finish means *)
(* that every read model has been given that command.                      *)
FinishMeansSynced ==
  \A v \in Version : row[v].status \in EnteredFinish =>
                       \A h \in Handlers : v \in handled[h]

(* The version handshake loses no wake-up: once its Lambda has looked at   *)
(* the predecessor, a command does not go on waiting for an execution that *)
(* has already finished successfully.                                      *)
LeftWaiting(v) == Waiting(v) /\ waiter[v] \in {"end", "done"}

NoLostWakeup ==
  \A v \in Version :
    LeftWaiting(v) /\ Stored(v - 1) /\ row[v - 1].mode = "ASYNC"
      => step[v - 1] # "success"

(* The same whichever way the predecessor was published.                   *)
NobodyWaitsForFinished ==
  \A v \in Version : LeftWaiting(v) /\ v > 1 => step[v - 1] # "success"

(* A waiting execution can be reached: its row holds its own token from    *)
(* the moment it is stored, whoever rewrites the row meanwhile.            *)
TokenKept ==
  \A v \in Version :
    Waiting(v) /\ waiter[v] \in {"stored", "end", "done"} => row[v].token = v

(* The history table holds every earlier state of the data row.            *)
HistoryComplete == 1 .. (view[Dds] - 1) \subseteq history

(* Each read model, not only the data table, moves forward only.           *)
ReadModelsMoveForward ==
  [][\A h \in Handlers : view'[h] >= view[h]]_view

(* Without failures every async command is carried through to success.     *)
EveryCommandSucceeds ==
  \A v \in Version : Stored(v) ~> step[v] = "success"
=============================================================================
