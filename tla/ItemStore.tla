----------------------------- MODULE ItemStore -----------------------------
(***************************************************************************)
(* The command service as the services of the other packages see it.       *)
(*                                                                         *)
(* A service reads the data row of an item, which follows the commands of  *)
(* this item in their order and at any distance (CommandSync), builds the  *)
(* next state from it and publishes it at the version it read.  Between    *)
(* the read and the publication other callers publish as well.             *)
(*                                                                         *)
(* A first read that returns an older row than the table has is no step of *)
(* its own: the call is then one that began while that row was current.    *)
(* That the row follows the commands in order is CommandSync's theorem for *)
(* publishAsync.  Most services publish with publishPartialUpdateAsync,    *)
(* with which a command may be skipped (NoCommandSkipped); that is left    *)
(* out here.                                                               *)
(***************************************************************************)
EXTENDS Integers, Sequences, FiniteSets

CONSTANTS
  Items,        (* the keys <pk, sk>                                        *)
  Clients,      (* the requests that may run at one time                    *)
  MaxVersion,   (* bound: item -> the most commands for it                  *)
  MaxCommands   (* bound: a call begins only below this number of commands  *)

ASSUME BoundsAssumption == MaxVersion \in [Items -> Nat] /\ MaxCommands \in Nat

VARIABLES
  log,      (* item -> its commands: the state stored and who asked for it  *)
  synced,   (* item -> the version in the data table, 0 if it has no row    *)
  call      (* client -> the call that runs for it                          *)

storeVars == <<log, synced, call>>

Idle == [op |-> "idle", step |-> "idle"]

(* A call of operation op that publishes this state of item i at version v *)
(* when its own steps are over; todo is what a bulk call does after that.  *)
Call(op, i, v, row) ==
  [op |-> op, item |-> i, version |-> v, row |-> row, step |-> "publish", todo |-> <<>>]

HasRow(i) == synced[i] # 0
Row(i) == log[i][synced[i]].row

StoreInit ==
  /\ log = [i \in Items |-> <<>>]
  /\ synced = [i \in Items |-> 0]
  /\ call = [c \in Clients |-> Idle]

Commands == UNION {{i} \X DOMAIN log[i] : i \in Items}

Begin(c, r) ==
  /\ call[c] = Idle
  /\ Cardinality(Commands) < MaxCommands
  /\ r.item \in Items => Len(log[r.item]) < MaxVersion[r.item]
  /\ call' = [call EXCEPT ![c] = r]
  /\ UNCHANGED <<log, synced>>

Go(c, r) == call' = [call EXCEPT ![c] = r] /\ UNCHANGED <<log, synced>>

(* Seeded bug: the version is checked by a read only.                      *)
RefusedIfMissing(i, v) == Len(log[i]) < v

(* The conditional put of version v + 1.                                   *)
Refused(i, v) == Len(log[i]) # v

(* Nothing is published when the state is that of the version it replaces. *)
NotDirty(i, v, row) == v # 0 /\ log[i][v].row = row

(* publishAsync: a refused call throws, and the rest of a bulk with it.    *)
Publish(c) ==
  LET r == call[c] IN
  /\ r.step = "publish"
  /\ log' = IF Refused(r.item, r.version) \/ NotDirty(r.item, r.version, r.row) THEN log
            ELSE [log EXCEPT ![r.item] = Append(@, [op |-> r.op, row |-> r.row])]
  /\ call' = [call EXCEPT ![c] =
                IF r.todo = <<>> \/ (Refused(r.item, r.version)
                                     /\ ~NotDirty(r.item, r.version, r.row))
                THEN Idle ELSE [r EXCEPT !.step = "next"]]
  /\ UNCHANGED synced

Sync(i) ==
  /\ synced[i] < Len(log[i])
  /\ synced' = [synced EXCEPT ![i] = @ + 1]
  /\ UNCHANGED <<log, call>>

(* A create of the services publishes at the version of the data row, if   *)
(* there is one, and throws if this row is not deleted.                    *)
Create(c, op, i, row) ==
  /\ HasRow(i) => Row(i).deleted # "no"
  /\ Begin(c, Call(op, i, synced[i], row))

Replace(c, op, i, row) == HasRow(i) /\ Begin(c, Call(op, i, synced[i], row))

StoreNext ==
  \/ \E c \in Clients : Publish(c)
  \/ \E i \in Items : Sync(i)

(***************************************************************************)
(* Properties.                                                             *)
(***************************************************************************)

(* However creates, updates and deletions of one item interleave, a create *)
(* never takes the place of an item that is not deleted: it starts it, or  *)
(* follows its deletion.  (createCommonTenant is an operation of its own:  *)
(* it does replace.)                                                       *)
CreateNeverReplaces ==
  \A i \in Items : \A v \in 2 .. Len(log[i]) :
    log[i][v].op = "create" => log[i][v - 1].row.deleted = "yes"

(* A deletion marks the very state it replaces and loses nothing that was  *)
(* published while it ran.                                                 *)
DeletesOnlyMark ==
  \A i \in Items : \A v \in 2 .. Len(log[i]) :
    log[i][v].op = "delete" =>
      log[i][v].row = [log[i][v - 1].row EXCEPT !.deleted = "yes"]
=============================================================================
