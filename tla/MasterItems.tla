---------------------------- MODULE MasterItems ----------------------------
(***************************************************************************)
(* The services that keep plain items with the command service: master     *)
(* data, UI settings and the data under them, survey templates and         *)
(* answers, and the service that the command line tool generates.          *)
(*                                                                         *)
(* The state of an item is whether it is deleted ("unset" where a service  *)
(* does not write isDeleted) and its content: name and attributes.         *)
(***************************************************************************)
EXTENDS ItemStore

CONSTANT Values   (* what the content of an item may be                     *)

State(d, x) == [deleted |-> d, value |-> x]
Deleted(i) == Row(i).deleted = "yes"
Marked(i) == [Row(i) EXCEPT !.deleted = "yes"]

(* What an update may make of isDeleted: it is optional.                   *)
Flags(i) == {Row(i).deleted, "yes", "no"}

(***************************************************************************)
(* Master data.                                                            *)
(***************************************************************************)

CreateData(c, i, x) == Create(c, "create", i, State("no", x))
UpsertData(c, i, x) == Begin(c, Call("upsert", i, synced[i], State("no", x)))

UpdateData(c, i, x, d) == Replace(c, "update", i, State(d, x))

DeleteData(c, i) ==
  /\ HasRow(i) /\ ~Deleted(i)
  /\ Replace(c, "delete", i, Marked(i))

(* upsertBulk upserts one item after the other; createBulk, all at once,   *)
(* is the same as several clients that create.                             *)
UpsertBulk(c, todo) == Begin(c, [Call("upsertBulk", Head(todo)[1], 0, Head(todo)[2])
                                   EXCEPT !.step = "next", !.todo = todo])

UpsertNext(c) ==
  /\ call[c].step = "next"
  /\ LET i == Head(call[c].todo)[1]
         row == Head(call[c].todo)[2]
     IN Go(c, [Call("upsertBulk", i, synced[i], row) EXCEPT !.todo = Tail(call[c].todo)])

(* A copy to another tenant looks at the target first, then has it updated *)
(* or created, which reads it again; a source that is deleted creates      *)
(* nothing.                                                                *)
Copying(i, row) == [Call("copy", i, 0, row) EXCEPT
                      !.step = IF HasRow(i) /\ Row(i).deleted = "no" THEN "update" ELSE "create"]

CopyDataToTenant(c, i, x, d) ==
  /\ Copying(i, State(d, x)).step = "create" => d # "yes"
  /\ Begin(c, Copying(i, State(d, x)))

(* A setting that is updated stays as deleted as it is.                    *)
CopySettingToTenant(c, i, x) == Begin(c, Copying(i, State("unset", x)))

CopyWrite(c) ==
  LET i == call[c].item
      row == call[c].row
      kept == IF row.deleted = "unset" THEN Row(i).deleted ELSE row.deleted
  IN
  \/ /\ call[c].step = "update"
     /\ Go(c, Call("update", i, synced[i], State(kept, row.value)))
  \/ /\ call[c].step = "create"
     /\ Go(c, IF HasRow(i) /\ Row(i).deleted = "no" THEN Idle
              ELSE Call("create", i, synced[i], State("no", row.value)))

MasterDataNext(own) ==
  \/ \E c \in Clients, i \in own, x \in Values :
       \/ CopySettingToTenant(c, i, x)
       \/ \E d \in {"yes", "no"} : CopyDataToTenant(c, i, x, d)
       \/ CreateData(c, i, x) \/ UpsertData(c, i, x)
       \/ HasRow(i) /\ \E d \in Flags(i) : UpdateData(c, i, x, d)
       \/ DeleteData(c, i)
       \/ \E j \in own :
            UpsertBulk(c, <<<<i, State("no", x)>>, <<j, State("no", x)>>>>)
  \/ \E c \in Clients : UpsertNext(c) \/ CopyWrite(c)
  \/ StoreNext

MasterDataSpec(own) == StoreInit /\ [][MasterDataNext(own)]_storeVars

(***************************************************************************)
(* UI settings: a setting describes the fields of the data settings under  *)
(* it, so these are written only while it is there.                        *)
(***************************************************************************)
CreateUiSetting(c, s, x) == Create(c, "create", s, State("no", x))
UpdateUiSetting(c, s, x, d) == Replace(c, "update", s, State(d, x))
DeleteUiSetting(c, s) == HasRow(s) /\ ~Deleted(s) /\ Replace(c, "delete", s, Marked(s))

CreateDataSetting(c, i, x) ==
  /\ HasRow(i) => Row(i).deleted # "no"
  /\ Begin(c, [Call("create", i, synced[i], State("no", x)) EXCEPT !.step = "setting"])

(* With new attributes an update looks at the setting, too.                *)
UpdateDataSetting(c, i, x, d) ==
  /\ HasRow(i)
  /\ Begin(c, [Call("update", i, synced[i], State(d, x)) EXCEPT
                 !.step = IF x # Row(i).value THEN "setting" ELSE "publish"])

CheckSetting(c, s) ==
  /\ call[c].step = "setting"
  /\ Go(c, IF HasRow(s) /\ ~Deleted(s) THEN [call[c] EXCEPT !.step = "publish"] ELSE Idle)

DeleteDataSetting(c, i) == HasRow(i) /\ ~Deleted(i) /\ Replace(c, "delete", i, Marked(i))

UiSettingNext(s, i) ==
  \/ \E c \in Clients, x \in Values :
       \/ CreateUiSetting(c, s, x) \/ CreateDataSetting(c, i, x)
       \/ HasRow(s) /\ \E d \in Flags(s) : UpdateUiSetting(c, s, x, d)
       \/ HasRow(i) /\ \E d \in Flags(i) : UpdateDataSetting(c, i, x, d)
  \/ \E c \in Clients : DeleteUiSetting(c, s) \/ DeleteDataSetting(c, i) \/ CheckSetting(c, s)
  \/ StoreNext

UiSettingSpec(s, i) == StoreInit /\ [][UiSettingNext(s, i)]_storeVars

(***************************************************************************)
(* Survey templates and answers, and generated services: an item has a     *)
(* key of its own (ulid), so it is created once; a removal does not ask    *)
(* whether the item is there still.                                        *)
(***************************************************************************)
Fresh(i) == log[i] = <<>> /\ \A c \in Clients : call[c] # Idle => call[c].item # i

CreateTemplate(c, i, x) == Fresh(i) /\ Create(c, "create", i, State("unset", x))
UpdateTemplate(c, i, x, d) == Replace(c, "update", i, State(d, x))
RemoveTemplate(c, i) == HasRow(i) /\ Replace(c, "delete", i, Marked(i))
CreateAnswer(c, i, x) == Fresh(i) /\ Create(c, "create", i, State("unset", x))

SurveyNext(i, answer) ==
  \/ \E c \in Clients, x \in Values :
       \/ CreateTemplate(c, i, x) \/ CreateAnswer(c, answer, x)
       \/ HasRow(i) /\ \E d \in Flags(i) : UpdateTemplate(c, i, x, d)
  \/ \E c \in Clients : RemoveTemplate(c, i)
  \/ StoreNext

SurveySpec(i, answer) == StoreInit /\ [][SurveyNext(i, answer)]_storeVars

GeneratedCreate(c, i, x) == Fresh(i) /\ Create(c, "create", i, State("unset", x))
GeneratedUpdate(c, i, x, d) == Replace(c, "update", i, State(d, x))
GeneratedRemove(c, i) == HasRow(i) /\ Replace(c, "delete", i, Marked(i))

GeneratedNext(i) ==
  \/ \E c \in Clients, x \in Values :
       \/ GeneratedCreate(c, i, x)
       \/ HasRow(i) /\ \E d \in Flags(i) : GeneratedUpdate(c, i, x, d)
  \/ \E c \in Clients : GeneratedRemove(c, i)
  \/ StoreNext

GeneratedSpec(i) == StoreInit /\ [][GeneratedNext(i)]_storeVars
=============================================================================
