-------------------------- MODULE ImportJobsProofs --------------------------
(***************************************************************************)
(* The status of an import job can be trusted, proved for any number of    *)
(* files, batches and deliveries, and for all faults.                      *)
(***************************************************************************)
EXTENDS ImportJobs, TLAPS

(* Whatever is under way for a file is under way because of its job's row. *)
OnlyOfJobs ==
  /\ \A f \in File : inserted[f] # "none" => job[f] # "none"
  /\ \A f \in File, d \in Delivery : handler[f][d] # "none" => job[f] # "none"
  /\ \A n \in notices : job[n[1]] # "none"

(* An execution has one branch for each batch of its file, and a branch    *)
(* that says its rows were sent has put them into SQS.                     *)
BranchesOfContent ==
  \A f \in File, d \in Delivery :
    /\ handler[f][d] \in {"running", "over"} =>
         \A b \in content[f] : branch[f][d][b] # "none"
    /\ \A b \in Batches : branch[f][d][b] = "sent" => <<f, b>> \in accepted

(* COMPLETED is true wherever it is on its way to the row of the ZIP job:  *)
(* in a job's row, in a message, in the output of the Map.                 *)
CompletedIsTrue ==
  /\ \A f \in File : job[f] = "COMPLETED" => AllAccepted(f)
  /\ \A n \in notices : n[2] = "COMPLETED" => AllAccepted(n[1])
  /\ \A f \in File : output[f] = "COMPLETED" => AllAccepted(f)

(* The Map leaves a file behind only with an answer.                       *)
Answered == \A f \in File : f < current => output[f] # "none"

ImportInv ==
  /\ TypeOK
  /\ OnlyOfJobs /\ BranchesOfContent /\ CompletedIsTrue /\ Answered
  /\ CompletedMeansAccepted

(* Where a delivery of a CSV job and its execution can be.                 *)
Handling == {"none", "start", "failed", "running", "over", "aborted"}

-----------------------------------------------------------------------------
(***************************************************************************)
(* One step.                                                               *)
(***************************************************************************)
(* What no step takes back: that rows were accepted, and that there is a   *)
(* job for a file.                                                         *)
Grows ==
  /\ accepted \subseteq accepted'
  /\ \A f \in File : job[f] # "none" => job'[f] # "none"

(* No step takes back that rows were accepted, or that a file has a job.   *)
LEMMA GrowsStep ==
  ASSUME TypeOK, [Next]_vars
  PROVE  Grows
<1>. USE DEF TypeOK, Grows, updateStatus
<1>1. CASE Orchestrate
  BY <1>1 DEF Orchestrate, StartOrchestrator, TriggerSingleCsvJob, TriggerFails, PutCsvJob,
              FinalizeZipMasterJob
<1>2. ASSUME NEW f \in File, OnInsert(f) PROVE Grows
  BY <1>2 DEF OnInsert, PublishImport, MarkQueued
<1>3. ASSUME NEW f \in File, NEW d \in Delivery, OnMessage(f, d) PROVE Grows
  BY <1>3 DEF OnMessage, ProcessCsv, StartCsvExecution, StartFails, HandlerDies
<1>4. ASSUME NEW f \in File, NEW d \in Delivery, NEW b \in Batches, Rows(f, d, b) PROVE Grows
  BY <1>4 DEF Rows, SendRows, FailRows, CrashRows, SetBranch
<1>5. ASSUME NEW f \in File, NEW d \in Delivery, Finalize(f, d) PROVE Grows
  <2>1. FinalStatus(f, d) # "none"
    BY DEF FinalStatus
  <2>. QED BY <1>5, <2>1 DEF Finalize, FinalizeParentJob, FinalizeParentFails
<1>6. ASSUME NEW f \in File, NEW s \in Ended, ImportStatusHandler(f, s) PROVE Grows
  BY <1>6 DEF ImportStatusHandler
<1>7. CASE UNCHANGED vars
  BY <1>7 DEF vars
<1>. HIDE DEF Grows
<1>. QED BY <1>1, <1>2, <1>3, <1>4, <1>5, <1>6, <1>7 DEF Next

(* A row of a job is written with an end only together with the message.   *)
LEMMA UpdateStatusType ==
  ASSUME TypeOK, NEW f \in File, job[f] # "none",
         NEW s \in {"QUEUED", "PROCESSING"} \cup Ended,
         updateStatus(f, s), UNCHANGED current
  PROVE  /\ job' \in [File -> {"none", "CREATED", "QUEUED", "PROCESSING"} \cup Ended]
         /\ notices' \subseteq File \X Ended
         /\ \A g \in File : job'[g] = "none" => g >= current'
<1>1. job' = [job EXCEPT ![f] = s]
  BY DEF updateStatus
<1>2. notices' \subseteq File \X Ended
  BY DEF updateStatus, TypeOK
<1>3. s # "none"
  BY DEF Ended
<1>. QED BY <1>1, <1>2, <1>3 DEF TypeOK

(* Every step keeps the types.                                             *)
LEMMA TypesStep ==
  ASSUME TypeOK, OnlyOfJobs, [Next]_vars
  PROVE  TypeOK'
<1>1. CASE Orchestrate
  <2>1. CASE StartOrchestrator
    <3>1. zip' \in {"PROCESSING"} \cup Ended /\ current' \in {0, 1} /\ current = 0
      BY <2>1 DEF StartOrchestrator, TypeOK, Ended
    <3>2. aborted' \in BOOLEAN
      BY <2>1 DEF StartOrchestrator, TypeOK
    <3>3. current' \in 0 .. (LastFile + 1) /\ \A f \in File : f >= current'
      BY <3>1, LastFileAssumption DEF File
    <3>. QED BY <2>1, <3>1, <3>2, <3>3 DEF StartOrchestrator, TypeOK
  <2>2. ASSUME NEW f \in File, TriggerSingleCsvJob(f) \/ TriggerFails(f) PROVE TypeOK'
    BY <2>2 DEF TriggerSingleCsvJob, TriggerFails, PutCsvJob, TypeOK
  <2>3. CASE FinalizeZipMasterJob
    BY <2>3 DEF FinalizeZipMasterJob, TypeOK, Ended
  <2>. QED BY <1>1, <2>1, <2>2, <2>3 DEF Orchestrate
<1>2. ASSUME NEW f \in File, OnInsert(f) PROVE TypeOK'
  <2>1. CASE PublishImport(f)
    BY <2>1 DEF PublishImport, TypeOK
  <2>2. CASE MarkQueued(f)
    <3>1. job[f] # "none" /\ updateStatus(f, "QUEUED") /\ UNCHANGED current
      BY <2>2 DEF MarkQueued, OnlyOfJobs
    <3>. QED BY <2>2, <3>1, UpdateStatusType DEF MarkQueued, TypeOK
  <2>. QED BY <1>2, <2>1, <2>2 DEF OnInsert
<1>3. ASSUME NEW f \in File, NEW d \in Delivery, OnMessage(f, d) PROVE TypeOK'
  <2>1. CASE ProcessCsv(f, d)
    <3>1. job[f] # "none" /\ updateStatus(f, "PROCESSING") /\ UNCHANGED current
      BY <2>1 DEF ProcessCsv, Delivered, OnlyOfJobs
    <3>2. handler' \in [File -> [Delivery -> Handling]]
      BY <2>1 DEF ProcessCsv, Go, TypeOK, Handling
    <3>. QED BY <2>1, <3>1, <3>2, UpdateStatusType DEF ProcessCsv, TypeOK, Handling
  <2>2. CASE StartCsvExecution(f, d)
    <3>1. handler' \in [File -> [Delivery -> Handling]]
      BY <2>2 DEF StartCsvExecution, Go, TypeOK, Handling
    <3>2. branch' \in [File -> [Delivery -> [Batches ->
                        {"none", "waiting", "sent", "failed", "crashed"}]]]
      BY <2>2 DEF StartCsvExecution, TypeOK
    <3>. QED BY <2>2, <3>1, <3>2 DEF StartCsvExecution, TypeOK, Handling
  <2>3. CASE StartFails(f, d)
    <3>1. job[f] # "none" /\ updateStatus(f, "FAILED") /\ UNCHANGED current
      BY <2>3 DEF StartFails, Go, OnlyOfJobs
    <3>2. handler' \in [File -> [Delivery -> Handling]]
      BY <2>3 DEF StartFails, Go, TypeOK, Handling
    <3>3. "FAILED" \in Ended
      BY DEF Ended
    <3>. QED BY <2>3, <3>1, <3>2, <3>3, UpdateStatusType DEF StartFails, TypeOK, Handling
  <2>4. CASE HandlerDies(f, d)
    <3>1. job[f] # "none"
      BY <2>4 DEF HandlerDies, Go, OnlyOfJobs
    <3>2. handler' \in [File -> [Delivery -> Handling]]
      BY <2>4 DEF HandlerDies, Go, TypeOK, Handling
    <3>. QED BY <2>4, <3>1, <3>2 DEF HandlerDies, TypeOK, Ended, Handling
  <2>. QED BY <1>3, <2>1, <2>2, <2>3, <2>4 DEF OnMessage
<1>4. ASSUME NEW f \in File, NEW d \in Delivery, NEW b \in Batches, Rows(f, d, b) PROVE TypeOK'
  <2>1. PICK to \in {"sent", "failed", "crashed"} : SetBranch(f, d, b, to)
    BY <1>4 DEF Rows, SendRows, FailRows, CrashRows
  <2>2. branch' \in [File -> [Delivery -> [Batches ->
                      {"none", "waiting", "sent", "failed", "crashed"}]]]
    BY <2>1 DEF SetBranch, TypeOK
  <2>3. accepted' \subseteq File \X Batches
    BY <1>4 DEF Rows, SendRows, FailRows, CrashRows, TypeOK
  <2>. QED BY <2>1, <2>2, <2>3 DEF SetBranch, TypeOK
<1>5. ASSUME NEW f \in File, NEW d \in Delivery, Finalize(f, d) PROVE TypeOK'
  <2>1. job[f] # "none" /\ FinalStatus(f, d) \in Ended
    BY <1>5 DEF Finalize, FinalizeParentJob, FinalizeParentFails, Go, OnlyOfJobs, FinalStatus, Ended
  <2>2. handler' \in [File -> [Delivery -> Handling]]
    <3>1. PICK x \in {"over", "aborted"} : handler' = [handler EXCEPT ![f][d] = x]
      BY <1>5 DEF Finalize, FinalizeParentJob, FinalizeParentFails, Go
    <3>2. x \in Handling /\ handler \in [File -> [Delivery -> Handling]]
      BY DEF TypeOK, Handling
    <3>. QED BY <3>1, <3>2
  <2>3. CASE FinalizeParentJob(f, d)
    <3>1. updateStatus(f, FinalStatus(f, d)) /\ UNCHANGED current
      BY <2>3 DEF FinalizeParentJob
    <3>. QED BY <2>1, <2>2, <2>3, <3>1, UpdateStatusType DEF FinalizeParentJob, TypeOK, Handling
  <2>4. CASE FinalizeParentFails(f, d)
    BY <2>1, <2>2, <2>4 DEF FinalizeParentFails, TypeOK, Ended, Handling
  <2>. QED BY <1>5, <2>3, <2>4 DEF Finalize
<1>6. ASSUME NEW f \in File, NEW s \in Ended, ImportStatusHandler(f, s) PROVE TypeOK'
  <2>1. job[f] # "none"
    BY <1>6 DEF ImportStatusHandler, OnlyOfJobs
  <2>. QED BY <1>6, <2>1, LastFileAssumption DEF ImportStatusHandler, Answer, TypeOK, File
<1>7. CASE UNCHANGED vars
  BY <1>7 DEF vars, TypeOK
<1>. QED BY <1>1, <1>2, <1>3, <1>4, <1>5, <1>6, <1>7 DEF Next

(* Nothing runs of an import that has no row.                              *)
LEMMA OnlyOfJobsStep ==
  ASSUME TypeOK, OnlyOfJobs, [Next]_vars
  PROVE  OnlyOfJobs'
<1>1. Grows
  BY GrowsStep
<1>. USE <1>1 DEF TypeOK, Grows
<1>2. ASSUME UNCHANGED <<inserted, handler>>, notices' \subseteq notices
      PROVE  OnlyOfJobs'
  BY <1>2 DEF OnlyOfJobs
<1>3. ASSUME NEW f \in File, job'[f] # "none",
             \A g \in File : g # f => inserted'[g] = inserted[g] /\ handler'[g] = handler[g],
             \A n \in notices' : n \in notices \/ n[1] = f
      PROVE  OnlyOfJobs'
  <2>1. ASSUME NEW n \in notices' PROVE job'[n[1]] # "none"
    <3>1. CASE n \in notices
      BY <3>1 DEF OnlyOfJobs
    <3>2. CASE n[1] = f
      BY <1>3, <3>2
    <3>. QED BY <1>3, <3>1, <3>2
  <2>2. \A g \in File : g # f => (inserted'[g] # "none" => job[g] # "none")
    BY <1>3 DEF OnlyOfJobs
  <2>3. \A g \in File, d \in Delivery : g # f => (handler'[g][d] # "none" => job[g] # "none")
    BY <1>3 DEF OnlyOfJobs
  <2>. QED BY <1>3, <2>1, <2>2, <2>3 DEF OnlyOfJobs
<1>4. CASE Orchestrate
  <2>1. ASSUME NEW f \in File, TriggerSingleCsvJob(f) \/ TriggerFails(f) PROVE OnlyOfJobs'
    <3>1. handler' = handler /\ notices' = notices
      BY <2>1 DEF TriggerSingleCsvJob, TriggerFails
    <3>2. CASE PutCsvJob(f)
      BY <1>3, <3>1, <3>2 DEF PutCsvJob
    <3>3. CASE inserted' = inserted
      BY <1>2, <3>1, <3>3
    <3>. QED BY <2>1, <3>2, <3>3 DEF TriggerSingleCsvJob, TriggerFails
  <2>2. CASE StartOrchestrator \/ FinalizeZipMasterJob
    BY <1>2, <2>2 DEF StartOrchestrator, FinalizeZipMasterJob
  <2>. QED BY <1>4, <2>1, <2>2 DEF Orchestrate
<1>5. ASSUME NEW f \in File, OnInsert(f) PROVE OnlyOfJobs'
  <2>1. job'[f] # "none"
    BY <1>5 DEF OnInsert, PublishImport, MarkQueued, OnlyOfJobs
  <2>2. /\ \A g \in File : g # f => inserted'[g] = inserted[g]
        /\ handler' = handler /\ notices' = notices
    BY <1>5 DEF OnInsert, PublishImport, MarkQueued, updateStatus, Ended
  <2>. QED BY <1>3, <2>1, <2>2
<1>6. ASSUME NEW f \in File, NEW d \in Delivery, OnMessage(f, d) \/ Finalize(f, d)
      PROVE  OnlyOfJobs'
  <2>1. job'[f] # "none"
    BY <1>6 DEF OnMessage, ProcessCsv, StartCsvExecution, StartFails, HandlerDies, Finalize,
                FinalizeParentJob, FinalizeParentFails, Go, Delivered, OnlyOfJobs
  <2>2. inserted' = inserted
    BY <1>6 DEF OnMessage, ProcessCsv, StartCsvExecution, StartFails, HandlerDies, Finalize,
                FinalizeParentJob, FinalizeParentFails
  <2>3. PICK x : handler' = [handler EXCEPT ![f][d] = x]
    BY <1>6 DEF OnMessage, ProcessCsv, StartCsvExecution, StartFails, HandlerDies, Finalize,
                FinalizeParentJob, FinalizeParentFails, Go
  <2>4. \A n \in notices' : n \in notices \/ n[1] = f
    BY <1>6 DEF OnMessage, ProcessCsv, StartCsvExecution, StartFails, HandlerDies, Finalize,
                FinalizeParentJob, FinalizeParentFails, updateStatus
  <2>. QED BY <1>3, <2>1, <2>2, <2>3, <2>4
<1>7. ASSUME NEW f \in File, NEW d \in Delivery, NEW b \in Batches, Rows(f, d, b)
      PROVE  OnlyOfJobs'
  BY <1>2, <1>7 DEF Rows, SendRows, FailRows, CrashRows, SetBranch
<1>8. ASSUME NEW f \in File, NEW s \in Ended, ImportStatusHandler(f, s) PROVE OnlyOfJobs'
  BY <1>2, <1>8 DEF ImportStatusHandler
<1>9. CASE UNCHANGED vars
  BY <1>2, <1>9 DEF vars
<1>. QED BY <1>4, <1>5, <1>6, <1>7, <1>8, <1>9 DEF Next

(* An execution has a branch for each batch of its file, and what a branch *)
(* says it sent is in SQS.                                                 *)
LEMMA BranchesStep ==
  ASSUME TypeOK, BranchesOfContent, [Next]_vars
  PROVE  BranchesOfContent'
<1>1. /\ accepted \subseteq accepted'
      /\ \A f \in File : content[f] \subseteq Batches
  BY GrowsStep, ContentAssumption DEF Grows
<1>2. ASSUME UNCHANGED <<handler, branch>> PROVE BranchesOfContent'
  BY <1>1, <1>2 DEF BranchesOfContent
<1>3. ASSUME NEW f \in File, NEW d \in Delivery,
             ProcessCsv(f, d) \/ StartFails(f, d) \/ HandlerDies(f, d) \/ Finalize(f, d)
      PROVE  BranchesOfContent'
  <2>1. PICK x \in {"start", "failed", "over", "aborted"} :
          /\ handler' = [handler EXCEPT ![f][d] = x]
          /\ x = "over" => handler[f][d] = "running"
    BY <1>3 DEF ProcessCsv, StartFails, HandlerDies, Finalize, FinalizeParentJob,
                FinalizeParentFails, Go
  <2>2. branch' = branch
    BY <1>3 DEF ProcessCsv, StartFails, HandlerDies, Finalize, FinalizeParentJob,
                FinalizeParentFails
  <2>3. \A g \in File, e \in Delivery :
          handler'[g][e] = IF g = f /\ e = d THEN x ELSE handler[g][e]
    BY <2>1 DEF TypeOK
  <2>. QED BY <1>1, <2>1, <2>2, <2>3 DEF BranchesOfContent
<1>4. ASSUME NEW f \in File, NEW d \in Delivery, StartCsvExecution(f, d)
      PROVE  BranchesOfContent'
  <2>1. \A g \in File, e \in Delivery : g # f \/ e # d =>
          handler'[g][e] = handler[g][e] /\ branch'[g][e] = branch[g][e]
    BY <1>4 DEF StartCsvExecution, Go, TypeOK
  <2>2. branch'[f][d] = [b \in Batches |-> IF b \in content[f] THEN "waiting" ELSE "none"]
    BY <1>4 DEF StartCsvExecution, TypeOK, Handling
  <2>3. accepted' = accepted
    BY <1>4 DEF StartCsvExecution
  <2>. QED BY <1>1, <2>1, <2>2, <2>3 DEF BranchesOfContent
<1>5. ASSUME NEW f \in File, NEW d \in Delivery, NEW b \in Batches, Rows(f, d, b)
      PROVE  BranchesOfContent'
  <2>1. PICK to \in {"sent", "failed", "crashed"} :
          /\ SetBranch(f, d, b, to)
          /\ to = "sent" => <<f, b>> \in accepted'
    BY <1>5 DEF Rows, SendRows, FailRows, CrashRows
  <2>2. handler' = handler /\ branch' = [branch EXCEPT ![f][d][b] = to]
    BY <2>1 DEF SetBranch
  <2>3. \A g \in File, e \in Delivery, c \in Batches :
          branch'[g][e][c] = IF g = f /\ e = d /\ c = b THEN to ELSE branch[g][e][c]
    BY <2>2 DEF TypeOK
  <2>. QED BY <1>1, <2>1, <2>2, <2>3 DEF BranchesOfContent
<1>6. Orchestrate => UNCHANGED <<handler, branch>>
  BY DEF Orchestrate, StartOrchestrator, TriggerSingleCsvJob, TriggerFails, FinalizeZipMasterJob
<1>7. ASSUME NEW f \in File, OnInsert(f) PROVE UNCHANGED <<handler, branch>>
  BY <1>7 DEF OnInsert, PublishImport, MarkQueued
<1>8. ASSUME NEW f \in File, NEW s \in Ended, ImportStatusHandler(f, s)
      PROVE  UNCHANGED <<handler, branch>>
  BY <1>8 DEF ImportStatusHandler
<1>9. UNCHANGED vars => UNCHANGED <<handler, branch>>
  BY DEF vars
<1>. QED BY <1>2, <1>3, <1>4, <1>5, <1>6, <1>7, <1>8, <1>9 DEF Next, OnMessage

(* FinalStatus is COMPLETED only when each batch of the file was sent.     *)
LEMMA FinalCompleted ==
  ASSUME TypeOK, BranchesOfContent, NEW f \in File, NEW d \in Delivery,
         Finalize(f, d), FinalStatus(f, d) = "COMPLETED"
  PROVE  AllAccepted(f)
<1>1. ~HasBranch(f, d, "crashed") /\ ~HasBranch(f, d, "failed")
  BY DEF FinalStatus
<1>2. ~HasBranch(f, d, "waiting")
  BY <1>1 DEF Finalize, FinalizeParentJob, FinalizeParentFails, MapIsOver
<1>3. handler[f][d] = "running"
  BY DEF Finalize, FinalizeParentJob, FinalizeParentFails, Go
<1>4. ASSUME NEW b \in content[f] PROVE <<f, b>> \in accepted
  <2>1. b \in Batches
    BY ContentAssumption
  <2>2. branch[f][d][b] \in {"none", "waiting", "sent", "failed", "crashed"}
    BY <2>1 DEF TypeOK
  <2>3. branch[f][d][b] = "sent"
    BY <1>1, <1>2, <1>3, <2>1, <2>2 DEF HasBranch, BranchesOfContent
  <2>. QED BY <2>1, <2>3 DEF BranchesOfContent
<1>. QED BY <1>4 DEF AllAccepted

(* COMPLETED is said only of files whose rows were accepted.               *)
LEMMA CompletedIsTrueStep ==
  ASSUME TypeOK, BranchesOfContent, CompletedIsTrue, [Next]_vars
  PROVE  CompletedIsTrue'
<1>1. \A f \in File : AllAccepted(f) => AllAccepted(f)'
  BY GrowsStep DEF Grows, AllAccepted
<1>2. \A n \in notices : n[1] \in File
  BY DEF TypeOK
<1>. DEFINE True(f, s) == s = "COMPLETED" => AllAccepted(f)'
<1>3. ASSUME \A f \in File : job'[f] = job[f] \/ True(f, job'[f]),
             \A n \in notices' : n \in notices \/ True(n[1], n[2]),
             \A f \in File : output'[f] = output[f] \/ True(f, output'[f])
      PROVE  CompletedIsTrue'
  BY <1>1, <1>2, <1>3 DEF CompletedIsTrue
<1>4. ASSUME UNCHANGED output, NEW f \in File, NEW s, updateStatus(f, s), True(f, s)
      PROVE  CompletedIsTrue'
  <2>1. \A g \in File : job'[g] = IF g = f THEN s ELSE job[g]
    BY <1>4 DEF updateStatus, TypeOK
  <2>2. \A n \in notices' : n \in notices \/ (n[1] = f /\ n[2] = s)
    BY <1>4 DEF updateStatus
  <2>. HIDE DEF True
  <2>. QED BY <1>3, <1>4, <2>1, <2>2
<1>. HIDE DEF True
<1>5. CASE Orchestrate
  <2>1. \A f \in File : True(f, "CREATED")
    BY DEF True
  <2>. QED
    BY <1>3, <1>5, <2>1
    DEF Orchestrate, StartOrchestrator, TriggerSingleCsvJob, TriggerFails, PutCsvJob,
        FinalizeZipMasterJob, TypeOK
<1>6. ASSUME NEW f \in File, OnInsert(f) PROVE CompletedIsTrue'
  <2>1. True(f, "QUEUED")
    BY DEF True
  <2>2. CASE MarkQueued(f)
    BY <1>4, <2>1, <2>2 DEF MarkQueued
  <2>3. CASE PublishImport(f)
    BY <1>3, <2>3 DEF PublishImport
  <2>. QED BY <1>6, <2>2, <2>3 DEF OnInsert
<1>7. ASSUME NEW f \in File, NEW d \in Delivery, OnMessage(f, d) PROVE CompletedIsTrue'
  <2>1. True(f, "PROCESSING") /\ True(f, "FAILED")
    BY DEF True
  <2>2. CASE StartCsvExecution(f, d)
    BY <1>3, <2>2 DEF StartCsvExecution
  <2>3. CASE ProcessCsv(f, d)
    BY <1>4, <2>1, <2>3 DEF ProcessCsv
  <2>4. CASE StartFails(f, d)
    BY <1>4, <2>1, <2>4 DEF StartFails
  <2>5. CASE HandlerDies(f, d)
    BY <1>3, <2>1, <2>5 DEF HandlerDies, TypeOK
  <2>. QED BY <1>7, <2>2, <2>3, <2>4, <2>5 DEF OnMessage
<1>8. ASSUME NEW f \in File, NEW d \in Delivery, NEW b \in Batches, Rows(f, d, b)
      PROVE  CompletedIsTrue'
  BY <1>3, <1>8 DEF Rows, SendRows, FailRows, CrashRows, SetBranch
<1>9. ASSUME NEW f \in File, NEW d \in Delivery, Finalize(f, d)
      PROVE  CompletedIsTrue'
  <2>1. True(f, FinalStatus(f, d))
    BY <1>1, <1>9, FinalCompleted DEF True
  <2>2. CASE FinalizeParentJob(f, d)
    BY <1>4, <2>1, <2>2 DEF FinalizeParentJob
  <2>3. CASE FinalizeParentFails(f, d)
    BY <1>3, <2>1, <2>3 DEF FinalizeParentFails, TypeOK
  <2>. QED BY <1>9, <2>2, <2>3 DEF Finalize
<1>10. ASSUME NEW f \in File, NEW s \in Ended, ImportStatusHandler(f, s)
       PROVE  CompletedIsTrue'
  <2>1. True(f, s)
    BY <1>1, <1>10 DEF ImportStatusHandler, CompletedIsTrue, True
  <2>2. \A g \in File : output'[g] = output[g] \/ (g = f /\ output'[g] = s)
    BY <1>10 DEF ImportStatusHandler, Answer, TypeOK
  <2>3. job' = job /\ notices' \subseteq notices
    BY <1>10 DEF ImportStatusHandler
  <2>. QED BY <1>3, <2>1, <2>2, <2>3
<1>11. CASE UNCHANGED vars
  BY <1>3, <1>11 DEF vars
<1>. QED BY <1>5, <1>6, <1>7, <1>8, <1>9, <1>10, <1>11 DEF Next

(* The Map leaves a file behind only with an answer.                       *)
LEMMA AnsweredStep ==
  ASSUME TypeOK, Answered, [Next]_vars
  PROVE  Answered'
<1>. USE LastFileAssumption DEF File, Answered
<1>1. ASSUME NEW f \in File, NEW s \in Ended, ImportStatusHandler(f, s) PROVE Answered'
  <2>1. \A g \in File : output[g] # "none" => output'[g] # "none"
    BY <1>1 DEF ImportStatusHandler, Answer, TypeOK, Ended
  <2>2. CASE current = f /\ ~aborted
    <3>1. current' = f + 1 /\ output'[f] # "none"
      BY <1>1, <2>2 DEF ImportStatusHandler, Answer, TypeOK, Ended
    <3>. QED BY <2>1, <2>2, <3>1
  <2>3. CASE ~(current = f /\ ~aborted)
    BY <1>1, <2>1, <2>3 DEF ImportStatusHandler, Answer
  <2>. QED BY <2>2, <2>3
<1>2. CASE StartOrchestrator
  BY <1>2 DEF StartOrchestrator
<1>3. ASSUME UNCHANGED <<current, output>> PROVE Answered'
  BY <1>3
<1>4. ASSUME NEW f \in File,
             TriggerSingleCsvJob(f) \/ TriggerFails(f) \/ FinalizeZipMasterJob \/ OnInsert(f)
      PROVE  UNCHANGED <<current, output>>
  BY <1>4 DEF TriggerSingleCsvJob, TriggerFails, FinalizeZipMasterJob, OnInsert, PublishImport, MarkQueued
<1>5. ASSUME NEW f \in File, NEW d \in Delivery,
             OnMessage(f, d) \/ Finalize(f, d) \/ \E b \in Batches : Rows(f, d, b)
      PROVE  UNCHANGED <<current, output>>
  BY <1>5 DEF OnMessage, ProcessCsv, StartCsvExecution, StartFails, HandlerDies, Finalize,
              FinalizeParentJob, FinalizeParentFails, Rows, SendRows, FailRows, CrashRows, SetBranch
<1>6. UNCHANGED vars => UNCHANGED <<current, output>>
  BY DEF vars
<1>7. FinalizeZipMasterJob => UNCHANGED <<current, output>>
  BY DEF FinalizeZipMasterJob
<1>. HIDE DEF Answered, File
<1>. QED BY <1>1, <1>2, <1>3, <1>4, <1>5, <1>6, <1>7 DEF Next, Orchestrate

(* So a job that completes has had all its rows accepted.                  *)
LEMMA CompletedStep ==
  ASSUME TypeOK, CompletedIsTrue, CompletedIsTrue', Answered, CompletedMeansAccepted,
         [Next]_vars
  PROVE  CompletedMeansAccepted'
<1>1. \A f \in File : AllAccepted(f) => AllAccepted(f)'
  BY GrowsStep DEF Grows, AllAccepted
<1>2. CASE FinalizeZipMasterJob
  <2>1. ASSUME zip' # zip, zip' = "COMPLETED", NEW f \in File PROVE AllAccepted(f)
    <3>1. f < current
      BY <1>2, LastFileAssumption DEF FinalizeZipMasterJob, File
    <3>2. output[f] \in Ended /\ output[f] # "FAILED"
      BY <1>2, <2>1, <3>1 DEF FinalizeZipMasterJob, Answered, TypeOK
    <3>. QED BY <3>2 DEF Ended, CompletedIsTrue
  <2>. QED BY <1>1, <2>1 DEF CompletedMeansAccepted, CompletedIsTrue
<1>3. CASE StartOrchestrator
  BY <1>1, <1>3 DEF StartOrchestrator, CompletedMeansAccepted, CompletedIsTrue
<1>4. ASSUME zip' = zip PROVE CompletedMeansAccepted'
  BY <1>1, <1>4 DEF CompletedMeansAccepted, CompletedIsTrue
<1>5. ASSUME NEW f \in File,
             \/ TriggerSingleCsvJob(f) \/ TriggerFails(f) \/ OnInsert(f)
             \/ \E s \in Ended : ImportStatusHandler(f, s)
      PROVE  zip' = zip
  BY <1>5 DEF TriggerSingleCsvJob, TriggerFails, OnInsert, PublishImport, MarkQueued, ImportStatusHandler
<1>6. ASSUME NEW f \in File, NEW d \in Delivery,
             OnMessage(f, d) \/ Finalize(f, d) \/ \E b \in Batches : Rows(f, d, b)
      PROVE  zip' = zip
  BY <1>6 DEF OnMessage, ProcessCsv, StartCsvExecution, StartFails, HandlerDies, Finalize,
              FinalizeParentJob, FinalizeParentFails, Rows, SendRows, FailRows, CrashRows, SetBranch
<1>7. UNCHANGED vars => zip' = zip
  BY DEF vars
<1>. QED BY <1>2, <1>3, <1>4, <1>5, <1>6, <1>7 DEF Next, Orchestrate

-----------------------------------------------------------------------------
(***************************************************************************)
(* The theorems.                                                           *)
(***************************************************************************)
LEMMA ImportInvInit == Init => ImportInv
<1>. SUFFICES ASSUME Init PROVE ImportInv
  OBVIOUS
<1>1. TypeOK
  <2>1. aborted \in BOOLEAN
    BY DEF Init
  <2>2. current \in 0 .. (LastFile + 1) /\ \A f \in File : f >= current
    BY LastFileAssumption DEF Init, File
  <2>. QED BY <2>1, <2>2 DEF Init, TypeOK, Ended
<1>2. OnlyOfJobs /\ BranchesOfContent
  BY DEF Init, OnlyOfJobs, BranchesOfContent
<1>3. CompletedIsTrue /\ CompletedMeansAccepted
  BY DEF Init, CompletedIsTrue, CompletedMeansAccepted
<1>4. Answered
  BY LastFileAssumption DEF Init, Answered, File
<1>. QED BY <1>1, <1>2, <1>3, <1>4 DEF ImportInv

(* Every step keeps the invariant.                                         *)
LEMMA ImportInvStep == ImportInv /\ [Next]_vars => ImportInv'
BY TypesStep, OnlyOfJobsStep, BranchesStep, CompletedIsTrueStep, AnsweredStep, CompletedStep
DEF ImportInv

(* What makes the trust in COMPLETED inductive: it is true in every place  *)
(* that a status passes through, and the ZIP job asks only after each of   *)
(* its files was answered for.                                             *)
THEOREM ImportInvariant == Spec => []ImportInv
BY ImportInvInit, ImportInvStep, PTL DEF Spec

(* Types, and that the Map of the ZIP job never gets ahead of the jobs of  *)
(* its files.                                                              *)
THEOREM ImportTypeCorrect == Spec => []TypeOK
<1>1. ImportInv => TypeOK
  BY DEF ImportInv
<1>. QED BY <1>1, ImportInvariant, PTL

(* A CSV job or the ZIP job says COMPLETED only when all of its rows are   *)
(* in SQS, for all faults.                                                 *)
THEOREM CompletedImportsAreAccepted == Spec => []CompletedMeansAccepted
<1>1. ImportInv => CompletedMeansAccepted
  BY DEF ImportInv
<1>. QED BY <1>1, ImportInvariant, PTL
=============================================================================
