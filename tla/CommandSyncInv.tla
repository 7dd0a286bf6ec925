--------------------------- MODULE CommandSyncInv ---------------------------
(***************************************************************************)
(* Inductive invariants of CommandSync: what has to be true of every state *)
(* for its safety properties to survive one more step.                     *)
(***************************************************************************)
EXTENDS CommandSync, FiniteSets

(***************************************************************************)
(* About the log, whoever publishes and whatever fails.                    *)
(***************************************************************************)
Contiguous == \A v \in Version : v > 1 /\ Stored(v) => Stored(v - 1)

(* Nothing runs for, and no handler was given, a version that is not       *)
(* stored.                                                                 *)
OnlyStoredRuns == \A v \in Version : step[v] # "none" => Stored(v)
OnlyStoredHandled ==
  /\ \A h \in Handlers : \A v \in handled[h] : Stored(v)
  /\ view[Dds] \in {0} \cup handled[Dds]

(* A row that updateTtl is about to put back is a state of the same        *)
(* command.                                                                *)
SnapOfPredecessor ==
  \A v \in Version : at[v] = "put" =>
    TtlHasPredecessor(v) /\ snap[v].mode = row[v - 1].mode

DraftOfStored ==
  draft.base # 0 =>
    Stored(draft.base) /\ draft.base + 1 \in Version /\ draft.item.mode # "NONE"

LogInv ==
  /\ TypeOK
  /\ Contiguous /\ OnlyStoredRuns /\ OnlyStoredHandled
  /\ SnapOfPredecessor /\ DraftOfStored

(***************************************************************************)
(* About the order in which versions reach the read models, when no caller *)
(* merges into a stored item and no Lambda is invoked again.               *)
(***************************************************************************)
Synced(v) == \A h \in Handlers : v \in handled[h]

BeforeSync == {"none", "check_version", "wait_prev_command",
               "set_ttl_command", "history_copy", "transform_data"}

(* v is past the point where it may have had to wait for v - 1.            *)
PastGate(v) ==
  \/ step[v] \in {"set_ttl_command", "history_copy", "transform_data",
                  "sync_data", "finish", "success", "publish_sync"}
  \/ step[v] = "fail" /\ at[v] = "body"
  \/ step[v] = "check_version" /\ at[v] = "end" /\ verdict[v] = 0

DataIsPrefix == handled[Dds] = 1 .. view[Dds]
GateIsSound  == \A v \in Version : PastGate(v) => v - 1 <= view[Dds]
NotYetSynced ==
  \A v \in Version :
    \/ step[v] \in BeforeSync
    \/ step[v] = "publish_sync" /\ at[v] \in {"ttl", "put", "history", "data"}
    => view[Dds] < v

(* Where Lambdas may end a state: wait_prev_command and the Map state of   *)
(* sync_data are not ended by one.                                         *)
EndsByLambda ==
  \A v \in Version : /\ Waiting(v) => at[v] = "idle"
                     /\ step[v] = "sync_data" => at[v] = "body"

(* finish, and every trace of it in the tables, means that all handlers    *)
(* are done; a token in a row is that of the row's own version.            *)
FinishIsSound ==
  \A v \in Version :
    step[v] \in {"finish", "success"} \/ row[v].status \in EnteredFinish => Synced(v)
SnapIsSound ==
  \A v \in Version : at[v] = "put" =>
    /\ snap[v].status \in EnteredFinish => Synced(v - 1)
    /\ snap[v].token \in {0, v - 1}
TokenIsOwn == \A v \in Version : row[v].token \in {0, v}

OrderInv ==
  /\ LogInv
  /\ draft = NoDraft
  /\ DataIsPrefix /\ GateIsSound /\ NotYetSynced /\ EndsByLambda
  /\ FinishIsSound /\ SnapIsSound /\ TokenIsOwn
  /\ TokenKept

(***************************************************************************)
(* About the handshake of finish and wait_prev_command, when moreover no   *)
(* wake-up call fails for good and no Lambda outlives its state by four.   *)
(***************************************************************************)
Finishing(v) == \/ step[v] = "finish" /\ at[v] \in {"body", "end"}
                \/ step[v] = "success"

OnlySyncRequests == \A v \in Version : step[v] = "publish_sync" => row[v].mode = "SYNC"
NoWaiterYet ==
  \A v \in Version :
    step[v] \in {"none", "check_version", "publish_sync"} => waiter[v] = "none"
WaiterDone == \A v \in Version : Finishing(v) => waiter[v] \in {"none", "done"}

(* The status that a finishing predecessor wrote is there as long as its   *)
(* successor may look for it ...                                           *)
BeforeTtl == {"none", "check_version", "wait_prev_command"}

StatusKept ==
  \A v \in Version :
    v > 1 /\ step[v] \in BeforeTtl /\ Finishing(v - 1)
      => row[v - 1].status \in EnteredFinish

(* ... and the predecessor that looked for a token resumed it, unless it   *)
(* will still look at that status.                                         *)
NoneLeft ==
  \A v \in Version :
    /\ v > 1 /\ LeftWaiting(v) /\ row[v - 1].mode = "ASYNC"
    /\ Finishing(v - 1)
    => step[v - 1] = "finish" /\ at[v - 1] = "body"

HandshakeInv ==
  /\ OrderInv
  /\ OnlySyncRequests /\ NoWaiterYet /\ WaiterDone /\ StatusKept /\ NoneLeft

(***************************************************************************)
(* About the archive, when moreover reads of the data table are not stale: *)
(* a version that is about to overwrite the data row archived it.          *)
(***************************************************************************)
PastHistory(v) ==
  \/ step[v] \in {"transform_data", "sync_data", "finish", "success"}
  \/ step[v] = "fail" /\ at[v] = "body"
  \/ step[v] = "history_copy" /\ at[v] = "end"
  \/ step[v] = "publish_sync" /\ at[v] \in {"data", "handlers"}

PastIsArchived == \A v \in Version : PastHistory(v) => v - 1 \in history \cup {0}

HistoryInv == OrderInv /\ PastIsArchived /\ HistoryComplete

(* The refinement mapping: the accepted commands are the stored rows, the  *)
(* data row shows view[Dds], the history table is the archive.             *)
Log == INSTANCE AggregateLog
         WITH accepted <- Cardinality({v \in Version : Stored(v)}),
              applied  <- view[Dds],
              archived <- history
=============================================================================
