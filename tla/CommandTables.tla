--------------------------- MODULE CommandTables ---------------------------
(***************************************************************************)
(* The DynamoDB tables that the command pipeline of packages/core keeps    *)
(* for ONE aggregate (one pk/sk), and the service methods that read and    *)
(* write them: CommandService.updateStatus, updateTtl and updateTaskToken, *)
(* HistoryService.publish, and IDataSyncHandler.up.                        *)
(*                                                                         *)
(* Rows of the command table are keyed by the version in their sort key    *)
(* (sk@1, sk@2, ...).  The attributes of a command are abstracted to the   *)
(* three the pipeline itself looks at.  A data sync handler is abstracted  *)
(* to the read model it maintains, and a read model to the version of the  *)
(* command it was last given.                                              *)
(***************************************************************************)
EXTENDS Integers

CONSTANTS
  MaxVersion,  (* bound: the most commands issued for the aggregate        *)
  Handlers,    (* the registered data sync handlers                        *)
  Dds          (* DataSyncDdsHandler, the one that writes the data table   *)

ASSUME MaxVersionAssumption == MaxVersion \in Nat \ {0}
ASSUME DdsAssumption == Dds \in Handlers

VARIABLES
  row,      (* the command table: version -> its row                        *)
  view,     (* handler -> version its read model holds; view[Dds] is the    *)
            (* version of the row in the data table, 0 when there is none   *)
  handled,  (* handler -> every version it was ever given (history)         *)
  history,  (* the versions stored in the history table                     *)
  snap      (* version -> the row its updateTtl has read and not yet put    *)

tables == <<row, view, handled, history, snap>>

Version  == 1 .. MaxVersion
Mode     == {"NONE", "ASYNC", "SYNC"}
Phase    == {"none", "STARTED", "FINISHED", "FAILED"}
SfnStep  == {"check_version", "wait_prev_command", "set_ttl_command",
             "history_copy", "transform_data", "sync_data", "finish"}
Status   == (SfnStep \cup {"none", "publish_sync"}) \X Phase
Row      == [mode : Mode, status : Status, token : 0 .. MaxVersion]

getCommandStatus(step, phase) == <<step, phase>>

(* A row that is not in the table.                                         *)
NoRow == [mode |-> "NONE", status |-> <<"none", "none">>, token |-> 0]

Stored(v) == v \in Version /\ row[v].mode # "NONE"

(* The statuses that tell a successor its predecessor is past sync_data.   *)
EnteredFinish == {getCommandStatus("finish", "STARTED"),
                  getCommandStatus("finish", "FINISHED")}

TablesInit ==
  /\ row = [v \in Version |-> NoRow]
  /\ view = [h \in Handlers |-> 0]
  /\ handled = [h \in Handlers |-> {}]
  /\ history = {}
  /\ snap = [v \in Version |-> NoRow]

TablesTypeOK ==
  /\ row \in [Version -> Row]
  /\ view \in [Handlers -> 0 .. MaxVersion]
  /\ handled \in [Handlers -> SUBSET Version]
  /\ history \subseteq Version
  /\ snap \in [Version -> Row]

(***************************************************************************)
(* Service methods.  Each is one request to DynamoDB.                      *)
(***************************************************************************)

(* Seeded bug: a put that does not look whether the version is taken.      *)
PutAlways(v, r) == row' = [row EXCEPT ![v] = r]

(* putItem with attribute_not_exists(pk) AND attribute_not_exists(sk).  It *)
(* is enabled only when the condition holds; otherwise DynamoDB rejects    *)
(* the request, publish throws and no table changes.                       *)
PutIfAbsent(v, r) ==
  /\ row[v].mode = "NONE"
  /\ row' = [row EXCEPT ![v] = r]

(* Seeded bug: the row is put anew instead of having one attribute set.    *)
updateStatusByPut(v, status) ==
  row' = [row EXCEPT ![v] = [mode |-> @.mode, status |-> status, token |-> 0]]

updateStatus(v, status) == row' = [row EXCEPT ![v].status = status]

updateTaskToken(v, token) == row' = [row EXCEPT ![v].token = token]

(* The two requests of updateTtl, run for version v on the row of its      *)
(* predecessor: read the whole row, later put the whole row back.  When    *)
(* there is no predecessor the method returns before its put.              *)
TtlHasPredecessor(v) == Stored(v - 1)
updateTtlRead(v) ==
  snap' = [snap EXCEPT ![v] = IF TtlHasPredecessor(v) THEN row[v - 1] ELSE NoRow]
updateTtlPut(v) ==
  /\ row' = [row EXCEPT ![v - 1] = snap[v]]
  /\ snap' = [snap EXCEPT ![v] = NoRow]

(* Seeded bug: the missing data row is not noticed.                        *)
historyPublishUnguarded(d) == history' = history \cup {d}

(* HistoryService.publish copies the data row it reads, found at version   *)
(* d, to sk@d of the history table; without a data row it does nothing.    *)
historyPublish(d) == history' = history \cup ({d} \ {0})

(* handler.up(command): the read model of h now shows version v.  For Dds  *)
(* this is DataService.publish, an unconditional put.                      *)
handlerUp(v, h) ==
  /\ view' = [view EXCEPT ![h] = v]
  /\ handled' = [handled EXCEPT ![h] = @ \cup {v}]
=============================================================================
