----------------------------- MODULE ImportJobs -----------------------------
(***************************************************************************)
(* packages/import: how the CSV files of ONE ZIP archive are imported, and *)
(* how the rows of import_tmp come to tell so.                             *)
(*                                                                         *)
(* A Step Functions Map of concurrency 1 puts one CSV job per file and     *)
(* waits, on a task token kept in that job's row, for the job to end.  The *)
(* insert makes ImportEventHandler queue the job and mark it QUEUED;       *)
(* CsvImportQueueEventHandler takes it, at least once, and starts the CSV  *)
(* state machine, whose branches transform the rows and send them to SQS.  *)
(* Its last state writes the end of the job, which SNS tells to            *)
(* ImportStatusHandler, which answers the token of the ZIP state machine.  *)
(* What becomes of the rows that were sent is not this module's subject.   *)
(***************************************************************************)
EXTENDS Integers

CONSTANTS
  LastFile,        (* the files of the archive are 1 .. LastFile, in order  *)
  Batches,         (* batches of rows                                       *)
  content,         (* file -> the batches it holds, none if only a header   *)
  MaxDeliveries,   (* bound: how often the message of a CSV job is delivered *)
  Faults           (* a subset of AllFaults                                 *)

AllFaults ==
  {"start",        (* a call that starts a state machine fails              *)
   "rows",         (* rows fail to transform, or SQS refuses their message  *)
   "crash",        (* a branch of the CSV Map ends with an error            *)
   "dies",         (* a Lambda dies, or throws where nothing catches it     *)
   "redelivery",   (* a message is delivered again though it was handled    *)
   "late_queued"}  (* QUEUED may be written after the job was taken         *)

File == 1 .. LastFile

ASSUME LastFileAssumption == LastFile \in Nat \ {0}
ASSUME ContentAssumption == content \in [File -> SUBSET Batches]
ASSUME DeliveriesAssumption == MaxDeliveries \in Nat \ {0}
ASSUME FaultsAssumption == Faults \subseteq AllFaults

VARIABLES
  zip,        (* status of the ZIP_MASTER_JOB row                           *)
  current,    (* where the ZIP state machine is: the file whose token is    *)
              (* open, 0 before it starts, LastFile + 1 after the last      *)
  aborted,    (* its execution ended with an error, or was never started    *)
  output,     (* file -> what the token was answered                        *)
  job,        (* file -> status of its CSV_MASTER_JOB row                   *)
  inserted,   (* file -> progress of ImportEventHandler on its insert       *)
  handler,    (* file -> delivery -> progress of CsvImportQueueEventHandler *)
              (* and of the execution it started                            *)
  branch,     (* file -> delivery -> batch -> its branch of that execution  *)
  notices,    (* import-status messages <<file, status>> not handled yet    *)
  accepted    (* <<file, batch>> with every row in SQS once (history)       *)

vars == <<zip, current, aborted, output, job, inserted, handler, branch,
          notices, accepted>>

Delivery == 1 .. MaxDeliveries
Ended    == {"COMPLETED", "FAILED"}

TypeOK ==
  /\ zip \in {"PROCESSING"} \cup Ended
  /\ current \in 0 .. (LastFile + 1)
  /\ aborted \in BOOLEAN
  /\ output \in [File -> {"none"} \cup Ended]
  /\ job \in [File -> {"none", "CREATED", "QUEUED", "PROCESSING"} \cup Ended]
  /\ inserted \in [File -> {"none", "new", "published", "queued"}]
  /\ handler \in [File -> [Delivery ->
       {"none", "start", "failed", "running", "over", "aborted"}]]
  /\ branch \in [File -> [Delivery -> [Batches ->
       {"none", "waiting", "sent", "failed", "crashed"}]]]
  /\ notices \subseteq File \X Ended
  /\ accepted \subseteq File \X Batches
  /\ \A f \in File : job[f] = "none" => f >= current

(* createZipJob has put the row and found the files of the archive.        *)
Init ==
  /\ zip = "PROCESSING"
  /\ current = 0
  /\ aborted = FALSE
  /\ output = [f \in File |-> "none"]
  /\ job = [f \in File |-> "none"]
  /\ inserted = [f \in File |-> "none"]
  /\ handler = [f \in File |-> [d \in Delivery |-> "none"]]
  /\ branch = [f \in File |-> [d \in Delivery |-> [b \in Batches |-> "none"]]]
  /\ notices = {}
  /\ accepted = {}

(* updateStatus writes the row and publishes to SNS; the subscribers drop  *)
(* everything but the end of a CSV job.                                    *)
updateStatus(f, s) ==
  /\ job' = [job EXCEPT ![f] = s]
  /\ notices' = IF s \in Ended THEN notices \cup {<<f, s>>} ELSE notices

(***************************************************************************)
(* The ZIP state machine.  Neither of its states has a Catch, and nothing  *)
(* outside of it looks after the row of the job.                           *)
(***************************************************************************)
(* createZipJob records a start that fails, if its Lambda does not die.    *)
StartOrchestrator ==
  /\ current = 0 /\ zip = "PROCESSING" /\ ~aborted
  /\ \/ current' = 1 /\ UNCHANGED <<zip, aborted>>
     \/ "start" \in Faults /\ zip' = "FAILED" /\ UNCHANGED <<current, aborted>>
     \/ "dies" \in Faults /\ aborted' = TRUE /\ UNCHANGED <<zip, current>>
  /\ UNCHANGED <<output, job, inserted, handler, branch, notices, accepted>>

PutCsvJob(f) ==
  /\ job' = [job EXCEPT ![f] = "CREATED"]
  /\ inserted' = [inserted EXCEPT ![f] = "new"]

TriggerSingleCsvJob(f) ==
  /\ current = f /\ job[f] = "none" /\ ~aborted
  /\ PutCsvJob(f)
  /\ UNCHANGED <<zip, current, aborted, output, handler, branch, notices, accepted>>

(* The name of the file tells no table, the put fails, or the Lambda dies, *)
(* which may be after the put.                                             *)
TriggerFails(f) ==
  /\ "dies" \in Faults
  /\ current = f /\ job[f] = "none" /\ ~aborted
  /\ aborted' = TRUE
  /\ PutCsvJob(f) \/ UNCHANGED <<job, inserted>>
  /\ UNCHANGED <<zip, current, output, handler, branch, notices, accepted>>

(* A failure may also come after the write of the status, as its           *)
(* publication does.                                                       *)
FinalizeZipMasterJob ==
  /\ current = LastFile + 1 /\ zip = "PROCESSING" /\ ~aborted
  /\ \/ UNCHANGED aborted
     \/ "dies" \in Faults /\ aborted' = TRUE
  /\ \/ zip' = IF \E f \in File : output[f] = "FAILED" THEN "FAILED" ELSE "COMPLETED"
     \/ aborted' /\ UNCHANGED zip
  /\ UNCHANGED <<current, output, job, inserted, handler, branch,
                 notices, accepted>>

(***************************************************************************)
(* ImportEventHandler on the insert of a CSV job.                          *)
(***************************************************************************)
PublishImport(f) ==
  /\ inserted[f] = "new"
  /\ inserted' = [inserted EXCEPT ![f] = "published"]
  /\ UNCHANGED <<zip, current, aborted, output, job, handler, branch, notices, accepted>>

MarkQueued(f) ==
  /\ inserted[f] = "published"
  /\ inserted' = [inserted EXCEPT ![f] = "queued"]
  /\ updateStatus(f, "QUEUED")
  /\ UNCHANGED <<zip, current, aborted, output, handler, branch, accepted>>

(***************************************************************************)
(* CsvImportQueueEventHandler: PROCESSING, then start the execution.       *)
(***************************************************************************)
Go(f, d, from, to) ==
  /\ handler[f][d] = from
  /\ handler' = [handler EXCEPT ![f][d] = to]

(* SQS delivers again after the handler threw, and may when it did not.    *)
Delivered(f, d) ==
  /\ inserted[f] = "queued" \/ (inserted[f] = "published" /\ "late_queued" \in Faults)
  /\ d > 1 => \/ handler[f][d - 1] = "failed"
              \/ handler[f][d - 1] # "none" /\ "redelivery" \in Faults

ProcessCsv(f, d) ==
  /\ Delivered(f, d)
  /\ Go(f, d, "none", "start")
  /\ updateStatus(f, "PROCESSING")
  /\ UNCHANGED <<zip, current, aborted, output, inserted, branch, accepted>>

StartCsvExecution(f, d) ==
  /\ Go(f, d, "start", "running")
  /\ branch' = [branch EXCEPT ![f][d] =
                  [b \in Batches |-> IF b \in content[f] THEN "waiting" ELSE "none"]]
  /\ UNCHANGED <<zip, current, aborted, output, job, inserted, notices, accepted>>

(* The catch block: FAILED, and the error is thrown on to SQS.             *)
StartFails(f, d) ==
  /\ "start" \in Faults
  /\ Go(f, d, "start", "failed")
  /\ updateStatus(f, "FAILED")
  /\ UNCHANGED <<zip, current, aborted, output, inserted, branch, accepted>>

(* Or the Lambda dies, or cannot even write or announce FAILED: to SQS     *)
(* that is a failure as well.                                              *)
HandlerDies(f, d) ==
  /\ "dies" \in Faults
  /\ Go(f, d, "start", "failed")
  /\ job' \in {job, [job EXCEPT ![f] = "FAILED"]}
  /\ UNCHANGED <<zip, current, aborted, output, inserted, branch, notices, accepted>>

(***************************************************************************)
(* The CSV state machine: CsvImportSfnEventHandler.                        *)
(***************************************************************************)
SetBranch(f, d, b, to) ==
  /\ branch[f][d][b] = "waiting"
  /\ branch' = [branch EXCEPT ![f][d][b] = to]
  /\ UNCHANGED <<zip, current, aborted, output, job, inserted, handler, notices>>

SendRows(f, d, b) == SetBranch(f, d, b, "sent") /\ accepted' = accepted \cup {<<f, b>>}
FailRows(f, d, b) == "rows" \in Faults /\ SetBranch(f, d, b, "failed") /\ UNCHANGED accepted
CrashRows(f, d, b) == "crash" \in Faults /\ SetBranch(f, d, b, "crashed") /\ UNCHANGED accepted

HasBranch(f, d, s) == \E b \in Batches : branch[f][d][b] = s

(* A crash ends the Map at once; the branches under way may still run on.  *)
MapIsOver(f, d) == HasBranch(f, d, "crashed") \/ ~HasBranch(f, d, "waiting")

(* Seeded bug: rows that SQS or the strategy refused are not looked at.    *)
FinalStatusOfMap(f, d) ==
  IF HasBranch(f, d, "crashed") THEN "FAILED" ELSE "COMPLETED"

(* An error of the Map fails the job, except that of a file with only a    *)
(* header; else one failed row does.                                       *)
FinalStatus(f, d) ==
  IF HasBranch(f, d, "crashed") \/ HasBranch(f, d, "failed") THEN "FAILED" ELSE "COMPLETED"

FinalizeParentJob(f, d) ==
  /\ MapIsOver(f, d)
  /\ Go(f, d, "running", "over")
  /\ updateStatus(f, FinalStatus(f, d))
  /\ UNCHANGED <<zip, current, aborted, output, inserted, branch, accepted>>

(* The last state itself fails, as when it cannot read the results of the  *)
(* Map: that has no Catch.  The job may be left as it was, or at its end   *)
(* with nobody told.                                                       *)
FinalizeParentFails(f, d) ==
  /\ "dies" \in Faults
  /\ MapIsOver(f, d)
  /\ Go(f, d, "running", "aborted")
  /\ job' \in {job, [job EXCEPT ![f] = FinalStatus(f, d)]}
  /\ UNCHANGED <<zip, current, aborted, output, inserted, branch, notices, accepted>>

(***************************************************************************)
(* ImportStatusHandler: SendTaskSuccess for either end, with               *)
(* importJobStatus FAILED in the output if the job failed.  A token is     *)
(* answered once, and only while its execution runs: any other answer is   *)
(* an error, and its message is lost.                                      *)
(***************************************************************************)
(* Seeded bug: the next file is announced to have ended as well.           *)
AnswerTwice(f, s) ==
  IF current = f /\ ~aborted
    THEN current' = current + 2 /\ output' = [output EXCEPT ![f] = s]
    ELSE UNCHANGED <<current, output>>

(* Seeded bug: the token is answered only if the job was completed.        *)
AnswerCompleted(f, s) ==
  IF current = f /\ ~aborted /\ s = "COMPLETED"
    THEN current' = current + 1 /\ output' = [output EXCEPT ![f] = s]
    ELSE UNCHANGED <<current, output>>

Answer(f, s) ==
  IF current = f /\ ~aborted
    THEN current' = current + 1 /\ output' = [output EXCEPT ![f] = s]
    ELSE UNCHANGED <<current, output>>

ImportStatusHandler(f, s) ==
  /\ <<f, s>> \in notices /\ notices' = notices \ {<<f, s>>}
  /\ Answer(f, s)
  /\ UNCHANGED <<zip, aborted, job, inserted, handler, branch, accepted>>

(***************************************************************************)
(* The specification.  Every Lambda and state machine that does not fail   *)
(* runs on, and SQS delivers a message once and again after its handler    *)
(* threw or died; a second delivery without cause and a fault need not     *)
(* happen.                                                                 *)
(***************************************************************************)
Orchestrate ==
  \/ StartOrchestrator
  \/ \E f \in File : TriggerSingleCsvJob(f) \/ TriggerFails(f)
  \/ FinalizeZipMasterJob

OnInsert(f) == PublishImport(f) \/ MarkQueued(f)

OnMessage(f, d) ==
  ProcessCsv(f, d) \/ StartCsvExecution(f, d) \/ StartFails(f, d) \/ HandlerDies(f, d)

Finalize(f, d) == FinalizeParentJob(f, d) \/ FinalizeParentFails(f, d)

Rows(f, d, b) == SendRows(f, d, b) \/ FailRows(f, d, b) \/ CrashRows(f, d, b)

Next ==
  \/ Orchestrate
  \/ \E f \in File :
       \/ OnInsert(f)
       \/ \E d \in Delivery :
            \/ OnMessage(f, d)
            \/ \E b \in Batches : Rows(f, d, b)
            \/ Finalize(f, d)
       \/ \E s \in Ended : ImportStatusHandler(f, s)

(* An execution that goes on, from its start by the handler to its end.    *)
Execute(f, d) ==
  StartCsvExecution(f, d) \/ (\E b \in Batches : Rows(f, d, b)) \/ FinalizeParentJob(f, d)

Fairness ==
  /\ WF_vars(Orchestrate)
  /\ \A f \in File :
       /\ WF_vars(OnInsert(f))
       /\ \A d \in Delivery :
            /\ WF_vars((d > 1 => handler[f][d - 1] = "failed") /\ ProcessCsv(f, d))
            /\ WF_vars(Execute(f, d))
       /\ WF_vars(\E s \in Ended : ImportStatusHandler(f, s))

Spec == Init /\ [][Next]_vars /\ Fairness

(***************************************************************************)
(* Properties.                                                             *)
(***************************************************************************)

(* COMPLETED can be trusted: a CSV job or the whole ZIP job that says it   *)
(* has all the rows it is about in SQS, though an earlier or a later       *)
(* execution for the same file may have lost some of them.                 *)
AllAccepted(f) == {f} \X content[f] \subseteq accepted
CompletedMeansAccepted ==
  /\ \A f \in File : job[f] = "COMPLETED" => AllAccepted(f)
  /\ zip = "COMPLETED" => \A f \in File : AllAccepted(f)

(* What is begun comes to its end and stays there: a CSV job, unless the   *)
(* last state of an execution for it failed or SQS gave its message up,    *)
(* whatever became of the ZIP job and of the other files; the ZIP job,     *)
(* unless that befell one of its files or its own execution failed.        *)
FileGivenUp(f) ==
  \/ \E d \in Delivery : handler[f][d] = "aborted"
  \/ handler[f][MaxDeliveries] = "failed"

ImportEnds ==
  /\ \A f \in File : <>FileGivenUp(f) \/ <>[](job[f] \in {"none"} \cup Ended)
  /\ <>(aborted \/ \E f \in File : FileGivenUp(f)) \/ <>[](zip \in Ended)
=============================================================================
