----------------------------- MODULE ImportRows -----------------------------
(***************************************************************************)
(* packages/import: what becomes of the rows that are in SQS.              *)
(*                                                                         *)
(* A message is a single row, kept in import_tmp by createImport (API or   *)
(* DIRECT mode), or a batch of rows of a CSV file, which are kept nowhere  *)
(* else.  A Lambda takes it, at least once, compares each row with the     *)
(* data table and publishes a command for what is new or changed.  A       *)
(* single row tells its status, and may be the child of a CSV job whose    *)
(* counters say when the last of its rows is done; the command service     *)
(* tells the end of a single row's command later.                          *)
(***************************************************************************)
EXTENDS ItemStore

CONSTANTS
  Messages,
  Single,         (* the messages of single rows, the others are batches    *)
  Children,       (* the single rows that were created with a sourceId      *)
  content,        (* message -> its rows, each a key and a value            *)
  MaxDeliveries,  (* bound: how often a message is delivered                *)
  Redelivered,    (* messages that SQS may deliver without cause            *)
  RowFaults       (* a subset of AllRowFaults                               *)

AllRowFaults ==
  {"strategy",    (* compare or map of the application's strategy throws    *)
   "sync",        (* a state of a command's execution ends with an error    *)
   "frozen",      (* a Lambda that throws is frozen before its last write   *)
   "late_queued"} (* QUEUED may be written after the row was taken          *)

Delivery == 1 .. MaxDeliveries

(* A value is no more than a number here.                                  *)
ASSUME MessagesAssumption ==
  /\ Single \subseteq Messages /\ Children \subseteq Single /\ Redelivered \subseteq Messages
  /\ IsFiniteSet(Children)
  /\ content \in [Messages -> Seq([key : Items, value : Nat])]
  /\ \A m \in Messages : Len(content[m]) > 0
  /\ \A m \in Single : Len(content[m]) = 1
ASSUME DeliveryAssumption == MaxDeliveries \in Nat \ {0}
ASSUME ClientsAssumption == Clients = Messages \X Delivery
ASSUME RowFaultsAssumption == RowFaults \subseteq AllRowFaults

VARIABLES
  status,   (* single row -> its status in import_tmp                       *)
  inserted, (* message -> progress of ImportEventHandler on the insert of a *)
            (* single row; a batch is only sent                             *)
  work,     (* delivery -> progress of ImportQueueEventHandler              *)
  parent,   (* the CSV job: status and counters; loader is the status that  *)
            (* csv_loader is about to write                                 *)
  notices,  (* command-status messages <<row, status>> not handled yet      *)
  broken    (* items whose next command could not be synchronised           *)

rowVars == <<log, synced, call, status, inserted, work, parent, notices, broken>>

Ended == {"COMPLETED", "FAILED"}

Progress == [at : {"none", "compare", "publish", "completed", "count", "finalize",
                   "catch", "thrown", "over"},
             row : Nat \ {0}, error : BOOLEAN, final : {"none"} \cup Ended]

RowsTypeOK ==
  /\ status \in [Single -> {"none", "CREATED", "QUEUED", "PROCESSING"} \cup Ended]
  /\ inserted \in [Messages -> {"none", "new", "published", "queued"}]
  /\ work \in [Clients -> Progress]
  /\ parent \in [status : {"CREATED"} \cup Ended, total : Nat, processed : Nat,
                 succeeded : Nat, failed : Nat, loader : {"none"} \cup Ended]
  /\ parent.processed = parent.succeeded + parent.failed
  /\ notices \subseteq Single \X Ended
  /\ \A w \in Clients : work[w].at = "publish" <=> call[w] # Idle
  /\ \A i \in Items : synced[i] <= Len(log[i])

RowsInit ==
  /\ StoreInit
  /\ status = [m \in Single |-> "none"]
  /\ inserted = [m \in Messages |-> "none"]
  /\ work = [w \in Clients |-> [at |-> "none", row |-> 1, error |-> FALSE, final |-> "none"]]
  /\ parent = [status |-> "CREATED", total |-> 0, processed |-> 0, succeeded |-> 0,
               failed |-> 0, loader |-> "none"]
  /\ notices = {}
  /\ broken = {}

(***************************************************************************)
(* The row in import_tmp.                                                  *)
(***************************************************************************)

(* createWithApi and _processCsvStream: a row that the strategy refuses    *)
(* is not put, it throws or is skipped.                                    *)
CreateImport(m) ==
  /\ status[m] = "none"
  /\ status' = [status EXCEPT ![m] = "CREATED"]
  /\ inserted' = [inserted EXCEPT ![m] = "new"]
  /\ UNCHANGED <<storeVars, work, parent, notices, broken>>

PublishRowImport(m) ==
  /\ inserted[m] = "new"
  /\ inserted' = [inserted EXCEPT ![m] = "published"]
  /\ UNCHANGED <<storeVars, status, work, parent, notices, broken>>

MarkRowQueued(m) ==
  /\ inserted[m] = "published"
  /\ inserted' = [inserted EXCEPT ![m] = "queued"]
  /\ status' = [status EXCEPT ![m] = "QUEUED"]
  /\ UNCHANGED <<storeVars, work, parent, notices, broken>>

(* csv_rows_handler.                                                       *)
SendBatch(m) ==
  /\ m \notin Single /\ inserted[m] = "none"
  /\ inserted' = [inserted EXCEPT ![m] = "queued"]
  /\ UNCHANGED <<storeVars, status, work, parent, notices, broken>>

(***************************************************************************)
(* ImportQueueEventHandler: SingleImportProcessor and CsvBatchProcessor.   *)
(***************************************************************************)
Message(w) == w[1]
Previous(w) == <<w[1], w[2] - 1>>

InQueue(m) ==
  \/ inserted[m] = "queued"
  \/ inserted[m] = "published" /\ "late_queued" \in RowFaults

At(w, from, to) == work[w].at = from /\ work' = [work EXCEPT ![w].at = to]

(* SQS delivers a message, and again after its handler threw.              *)
Due(w) == InQueue(Message(w)) /\ (w[2] > 1 => work[Previous(w)].at = "thrown")

Process(w) ==
  /\ At(w, "none", "compare")
  /\ status' = IF Message(w) \in Single THEN [status EXCEPT ![Message(w)] = "PROCESSING"]
               ELSE status
  /\ UNCHANGED <<storeVars, inserted, parent, notices, broken>>

Receive(w) == Due(w) /\ Process(w)

ReceiveAgain(w) ==
  /\ Message(w) \in Redelivered /\ w[2] > 1 /\ work[Previous(w)].at # "none"
  /\ Process(w)

(* Seeded bug: a batch fails only if its last row did.                     *)
LastError(w, error) == error

(* One row that failed is enough for its batch to fail at the end.         *)
BatchError(w, error) == work[w].error \/ error

(* After a row: the status of a single row, the next row of a batch.       *)
AfterRow(w, error) ==
  LET m == Message(w)
      p == work[w]
      failed == BatchError(w, error)
  IN [work EXCEPT ![w] =
        IF m \in Single THEN [p EXCEPT !.at = IF error THEN "catch" ELSE "completed"]
        ELSE IF p.row < Len(content[m])
             THEN [p EXCEPT !.at = "compare", !.row = p.row + 1, !.error = failed]
        ELSE [p EXCEPT !.at = IF failed THEN "thrown" ELSE "over", !.error = failed]]

(* The row that a delivery is at; its commands are known by <<m, k>>.      *)
TheRow(w) == content[Message(w)][work[w].row]
RowId(w) == <<Message(w), work[w].row>>

Equal(w) == HasRow(TheRow(w).key) /\ Row(TheRow(w).key) = TheRow(w).value

(* compare: EQUAL needs no command; one for the version that was read is   *)
(* built (map) otherwise.                                                  *)
Compare(w) ==
  /\ work[w].at = "compare"
  /\ IF Equal(w) THEN work' = AfterRow(w, FALSE) /\ UNCHANGED storeVars
     ELSE /\ Begin(w, Call(RowId(w), TheRow(w).key, synced[TheRow(w).key], TheRow(w).value))
          /\ work' = [work EXCEPT ![w].at = "publish"]
  /\ UNCHANGED <<status, inserted, parent, notices, broken>>

StrategyFails(w) ==
  /\ "strategy" \in RowFaults
  /\ work[w].at = "compare"
  /\ work' = AfterRow(w, TRUE)
  /\ UNCHANGED <<storeVars, status, inserted, parent, notices, broken>>

PublishRow(w) ==
  /\ work[w].at = "publish"
  /\ Publish(w)
  /\ work' = AfterRow(w, Refused(call[w].item, call[w].version))
  /\ UNCHANGED <<status, inserted, parent, notices, broken>>

Complete(w) ==
  /\ At(w, "completed", IF Message(w) \in Children THEN "count" ELSE "over")
  /\ status' = [status EXCEPT ![Message(w)] = "COMPLETED"]
  /\ UNCHANGED <<storeVars, inserted, parent, notices, broken>>

(* Seeded bug: the status of a row that failed is not awaited.             *)
CatchUnawaited(w) ==
  /\ At(w, "catch", "thrown")
  /\ UNCHANGED <<storeVars, status, inserted, parent, notices, broken>>

(* The catch block.  Promise.all starts updateStatus and publishAlarm; the *)
(* latter reads event.importEvent.importKey of an event that is itself the *)
(* importEvent, and so throws.  The rest of the block, which would tell    *)
(* the parent, is never reached, and the message goes back to SQS.         *)
Catch(w) ==
  /\ At(w, "catch", "thrown")
  /\ \/ status' = [status EXCEPT ![Message(w)] = "FAILED"]
     \/ "frozen" \in RowFaults /\ UNCHANGED status
  /\ UNCHANGED <<storeVars, inserted, parent, notices, broken>>

(***************************************************************************)
(* The counters of the parent and its end.                                 *)
(***************************************************************************)
(* Seeded bug: a counter that is not there yet starts from one.            *)
CountedFromOne(p, succeeded) ==
  [p EXCEPT !.processed = IF @ = 0 THEN 2 ELSE @ + 1,
            !.succeeded = IF succeeded THEN @ + 1 ELSE @,
            !.failed = IF succeeded THEN @ ELSE @ + 1]

Counted(p, succeeded) ==
  [p EXCEPT !.processed = @ + 1,
            !.succeeded = IF succeeded THEN @ + 1 ELSE @,
            !.failed = IF succeeded THEN @ ELSE @ + 1]

(* Seeded bug: totalRows is not known yet.                                 *)
AnyTotal(p) == p.processed >= p.total

(* The state of the counters in which the job is over.                     *)
AllProcessed(p) == p.total > 0 /\ p.processed >= p.total

FinalStatus(p) == IF p.failed > 0 THEN "FAILED" ELSE "COMPLETED"

(* incrementParentJobCounters: the update is atomic and returns the new    *)
(* counters; the status is another update.                                 *)
IncrementParentJobCounters(w) ==
  LET p == Counted(parent, TRUE)
      over == AllProcessed(p)
  IN
  /\ work[w].at = "count"
  /\ parent' = p
  /\ work' = [work EXCEPT ![w].at = IF over THEN "finalize" ELSE "over",
                          ![w].final = IF over THEN FinalStatus(p) ELSE "none"]
  /\ UNCHANGED <<storeVars, status, inserted, notices, broken>>

FinalizeParent(w) ==
  /\ At(w, "finalize", "over")
  /\ parent' = [parent EXCEPT !.status = work[w].final]
  /\ UNCHANGED <<storeVars, status, inserted, notices, broken>>

(* Seeded bug: the counters are looked at before totalRows is set.         *)
SetBlindly(p, total) == [p EXCEPT !.total = total]

(* csv_loader: totalRows is set, and all rows may have been counted.       *)
SetTotal(p, total) ==
  [p EXCEPT !.total = total,
            !.loader = IF p.processed > 0 /\ p.processed >= total
                       THEN FinalStatus(p) ELSE "none"]

CsvLoader ==
  /\ parent.total = 0 /\ Children # {}
  /\ parent' = SetTotal(parent, Cardinality(Children))
  /\ UNCHANGED <<storeVars, status, inserted, work, notices, broken>>

CsvLoaderFinalizes ==
  /\ parent.loader # "none"
  /\ parent' = [parent EXCEPT !.status = parent.loader, !.loader = "none"]
  /\ UNCHANGED <<storeVars, status, inserted, work, notices, broken>>

(***************************************************************************)
(* The end of a command: only single rows are known as its source.         *)
(***************************************************************************)
Notify(i, s) ==
  LET m == log[i][synced[i] + 1].op[1]
  IN notices' = IF m \in Single THEN notices \cup {<<m, s>>} ELSE notices

SyncRow(i) ==
  /\ i \notin broken
  /\ Sync(i) /\ Notify(i, "COMPLETED")
  /\ UNCHANGED <<status, inserted, work, parent, broken>>

(* Only an error of the state finish is told: the data row is there then,  *)
(* and the next command may or may not have gone on.                       *)
FinishFails(i) ==
  /\ "sync" \in RowFaults /\ i \notin broken
  /\ Sync(i) /\ Notify(i, "FAILED")
  /\ broken' \in {broken, broken \cup {i}}
  /\ UNCHANGED <<status, inserted, work, parent>>

(* Any other error ends the item's pipeline and is ignored here.           *)
SyncFails(i) ==
  /\ "sync" \in RowFaults
  /\ i \notin broken /\ synced[i] < Len(log[i])
  /\ broken' = broken \cup {i}
  /\ UNCHANGED <<storeVars, status, inserted, work, parent, notices>>

CommandFinished(m, s) ==
  /\ <<m, s>> \in notices /\ notices' = notices \ {<<m, s>>}
  /\ status' = [status EXCEPT ![m] = s]
  /\ UNCHANGED <<storeVars, inserted, work, parent, broken>>

(***************************************************************************)
(* The specification: every Lambda runs on, SQS delivers what is due; a    *)
(* fault need not happen, nor need a row or a batch come.                  *)
(***************************************************************************)
OnRowInsert(m) == PublishRowImport(m) \/ MarkRowQueued(m)

Handle(w) ==
  \/ Compare(w) \/ StrategyFails(w) \/ PublishRow(w) \/ Complete(w) \/ Catch(w)
  \/ IncrementParentJobCounters(w) \/ FinalizeParent(w)

Load == CsvLoader \/ CsvLoaderFinalizes

RowsNext ==
  \/ \E m \in Single : \/ CreateImport(m) \/ OnRowInsert(m)
                       \/ \E s \in Ended : CommandFinished(m, s)
  \/ \E m \in Messages : SendBatch(m)
  \/ \E w \in Clients : Receive(w) \/ ReceiveAgain(w) \/ Handle(w)
  \/ Load
  \/ \E i \in Items : SyncRow(i) \/ FinishFails(i) \/ SyncFails(i)

RowsFairness ==
  /\ \A m \in Single : WF_rowVars(OnRowInsert(m))
  /\ \A m \in Single, s \in Ended : WF_rowVars(CommandFinished(m, s))
  /\ \A w \in Clients : WF_rowVars(Receive(w)) /\ WF_rowVars(Handle(w))
  /\ WF_rowVars(Load)
  /\ \A i \in Items : WF_rowVars(SyncRow(i))

RowsSpec == RowsInit /\ [][RowsNext]_rowVars /\ RowsFairness

(***************************************************************************)
(* Properties.                                                             *)
(***************************************************************************)
ImportedRow(m, k) ==
  \E v \in DOMAIN log[content[m][k].key] : log[content[m][k].key][v].row = content[m][k].value

(* No row is lost quietly: one that says COMPLETED, and every row of a     *)
(* batch whose message is not delivered again, has a command, whatever     *)
(* failed for this row, its batch or its message before.                   *)
CompletedMeansImported ==
  /\ \A m \in Single : status[m] = "COMPLETED" => ImportedRow(m, 1)
  /\ \A w \in Clients : work[w].at = "over" =>
       \A k \in DOMAIN content[Message(w)] : ImportedRow(Message(w), k)

(* A message may be delivered twice, at the same time too, and a batch is  *)
(* repeated from its first row when one row failed: a row is never         *)
(* published on top of its own command.                                    *)
RowsApplyOnce ==
  \A i \in Items : \A v \in 2 .. Len(log[i]) : log[i][v].op # log[i][v - 1].op

(* A CSV job says COMPLETED only when all the rows it counts have their    *)
(* commands, though rows end before csv_loader knows how many there are.   *)
ParentMeansRows ==
  parent.status = "COMPLETED" => \A m \in Children : ImportedRow(m, 1)

(* Every single row that was created comes to an end and stays there, after *)
(* retries, late deliveries and the end of its command.                    *)
RowsEnd == <>[](\A m \in Single : status[m] \in {"none"} \cup Ended)

(* Of csv_loader and the last row to be counted, one ends the CSV job.     *)
ParentIsFinalized ==
  parent.processed >= Cardinality(Children) /\ parent.total > 0 ~> parent.status \in Ended

(* "If this single import was part of a larger parent job, inform the      *)
(* parent it failed": a child in the catch block gets counted.             *)
ParentIsTold ==
  \A w \in Clients :
    work[w].at = "catch" /\ Message(w) \in Children ~> parent.failed > 0
=============================================================================
