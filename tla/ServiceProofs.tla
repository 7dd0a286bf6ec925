--------------------------- MODULE ServiceProofs ---------------------------
(***************************************************************************)
(* Creations and deletions of plain items, the numbers of sequences, and   *)
(* tenants with their settings, proved for any number of items, clients,   *)
(* contents, groups and commands.                                          *)
(***************************************************************************)
EXTENDS MasterItems, NumberSequences, TenantSettings, ItemStoreProofs

(* The values of isDeleted in commands of services that always write it,   *)
(* and of the others.                                                      *)
Written == {"yes", "no"}
Optional == Written \cup {"unset"}

Ops == {"create", "update", "upsert", "upsertBulk", "delete"}
States(D) == [deleted : D, value : Values]
Entries(D) == [op : Ops, row : States(D)]

(* What a command may replace: a creation only what is deleted, and a      *)
(* deletion only the state that it marks.                                  *)
Rightly(op, row, old) ==
  /\ op = "create" => old.deleted = "yes"
  /\ op = "delete" => row = [old EXCEPT !.deleted = "yes"]

ReplacedRightly ==
  \A i \in Items : \A v \in DOMAIN log[i] :
    v > 1 => Rightly(log[i][v].op, log[i][v].row, log[i][v - 1].row)

(* A call that will publish next: it was made for a command of its item.   *)
ReadyCall(D, r) ==
  /\ r.op \in Ops /\ r.row \in States(D)
  /\ r.version \in 0 .. synced[r.item]
  /\ r.version # 0 => Rightly(r.op, r.row, log[r.item][r.version].row)

SoundCall(D, r) ==
  /\ r.item \in Items
  /\ r.todo \in Seq(Items \X States(D))
  /\ r.step \in {"publish", "setting"} => ReadyCall(D, r)
  /\ r.step \in {"create", "update"} => r.row \in States(Optional)
  /\ r.step = "update" => synced[r.item] # 0
  /\ r.step = "next" => r.todo # <<>>

MasterInv(D) ==
  /\ log \in [Items -> Seq(Entries(D))]
  /\ synced \in [Items -> Nat] /\ \A i \in Items : synced[i] <= Len(log[i])
  /\ DOMAIN call = Clients
  /\ \A c \in Clients : call[c] = Idle \/ SoundCall(D, call[c])
  /\ ReplacedRightly

LEMMA MasterInvInit ==
  ASSUME NEW D, StoreInit
  PROVE  MasterInv(D)
BY DEF StoreInit, MasterInv, ReplacedRightly

(* The invariant says what the stores promise.                             *)
LEMMA Properties ==
  ASSUME NEW D, MasterInv(D)
  PROVE  CreateNeverReplaces /\ DeletesOnlyMark
<1>1. ASSUME NEW i \in Items, NEW v \in 2 .. Len(log[i])
      PROVE  Rightly(log[i][v].op, log[i][v].row, log[i][v - 1].row)
  <2>1. DOMAIN log[i] = 1 .. Len(log[i]) /\ Len(log[i]) \in Nat
    BY LenProperties DEF MasterInv
  <2>2. v \in DOMAIN log[i] /\ v > 1
    BY <2>1
  <2>. QED BY <2>2 DEF MasterInv, ReplacedRightly
<1>. QED BY <1>1 DEF CreateNeverReplaces, DeletesOnlyMark, Rightly

(* The data row shows one of the item's commands.                          *)
LEMMA RowTypes ==
  ASSUME NEW D, MasterInv(D), NEW i \in Items
  PROVE  /\ synced[i] \in Nat /\ synced[i] \in 0 .. synced[i]
         /\ HasRow(i) => Row(i) \in States(D) /\ Row(i) = log[i][synced[i]].row
<1>1. log[i] \in Seq(Entries(D)) /\ synced[i] \in Nat /\ synced[i] <= Len(log[i])
  BY DEF MasterInv
<1>2. DOMAIN log[i] = 1 .. Len(log[i]) /\ Len(log[i]) \in Nat
  BY <1>1, LenProperties
<1>3. ASSUME HasRow(i)
      PROVE  Row(i) \in States(D)
  <2>1. synced[i] \in DOMAIN log[i]
    BY <1>1, <1>2, <1>3 DEF HasRow
  <2>2. \A T : \A t \in Seq(T) : \A n \in DOMAIN t : t[n] \in T
    OBVIOUS
  <2>3. log[i][synced[i]] \in Entries(D)
    BY <1>1, <2>1, <2>2, Zenon
  <2>. QED BY <2>3 DEF Row, Entries
<1>. QED BY <1>1, <1>3 DEF Row

(***************************************************************************)
(* The steps.                                                              *)
(***************************************************************************)

(* A call stays sound while commands and data rows are added.              *)
LEMMA CallsStaySound ==
  ASSUME NEW D, MasterInv(D), NEW r, SoundCall(D, r), synced' \in [Items -> Nat],
         \A i \in Items : synced[i] <= synced'[i],
         \A i \in Items : \A v \in DOMAIN log[i] : log'[i][v] = log[i][v]
  PROVE  SoundCall(D, r)'
<1>1. r.item \in Items
  BY DEF SoundCall
<1>2. /\ synced[r.item] \in Nat /\ synced'[r.item] \in Nat /\ synced[r.item] <= synced'[r.item]
      /\ synced[r.item] <= Len(log[r.item])
      /\ DOMAIN log[r.item] = 1 .. Len(log[r.item]) /\ Len(log[r.item]) \in Nat
  BY <1>1, LenProperties DEF MasterInv
<1>3. ASSUME ReadyCall(D, r)
      PROVE  ReadyCall(D, r)'
  <2>1. r.version \in 0 .. synced[r.item]
    BY <1>3 DEF ReadyCall
  <2>2. r.version # 0 => r.version \in DOMAIN log[r.item]
    BY <1>2, <2>1
  <2>3. r.version # 0 => log'[r.item][r.version] = log[r.item][r.version]
    BY <1>1, <2>2
  <2>4. r.version \in 0 .. synced'[r.item]
    BY <1>2, <2>1
  <2>. QED BY <1>3, <2>3, <2>4 DEF ReadyCall
<1>. QED BY <1>2, <1>3 DEF SoundCall

(* A client goes on with a sound call.                                     *)
LEMMA GoKeeps ==
  ASSUME NEW D, MasterInv(D), NEW c \in Clients, NEW r, r = Idle \/ SoundCall(D, r),
         call' = [call EXCEPT ![c] = r], UNCHANGED <<log, synced>>
  PROVE  MasterInv(D)'
<1>1. ASSUME NEW b \in Clients
      PROVE  call'[b] = Idle \/ SoundCall(D, call'[b])
  BY DEF MasterInv
<1>2. \A b \in Clients : call'[b] = Idle \/ SoundCall(D, call[b])'
  BY <1>1 DEF SoundCall, ReadyCall
<1>. QED BY <1>2 DEF MasterInv, ReplacedRightly

(* A command that is accepted follows the row its request has read.        *)
LEMMA PublishKeeps ==
  ASSUME NEW D, MasterInv(D), NEW c \in Clients, Publish(c)
  PROVE  MasterInv(D)'
<1>1. PICK r, i, e :
        r = call[c] /\ i = r.item /\ e = [op |-> r.op, row |-> r.row]
  OBVIOUS
<1>2. r.step = "publish" /\ synced' = synced
  BY <1>1 DEF Publish
<1>3. SoundCall(D, r)
  BY <1>1, <1>2 DEF MasterInv, Idle
<1>4. i \in Items /\ e \in Entries(D) /\ ReadyCall(D, r)
  BY <1>1, <1>2, <1>3 DEF SoundCall, ReadyCall, Entries
<1>5. /\ log' \in [Items -> Seq(Entries(D))]
      /\ \A j \in Items : \A v \in DOMAIN log[j] : v \in DOMAIN log'[j] /\ log'[j][v] = log[j][v]
      /\ \A j \in Items : Len(log[j]) <= Len(log'[j])
      /\ \A j \in Items : \A v \in DOMAIN log'[j] :
           \/ v \in DOMAIN log[j]
           \/ j = i /\ v = Len(log[i]) + 1 /\ log'[j][v] = e /\ r.version = Len(log[i])
  <2>1. log \in [Items -> Seq(Entries(D))]
    BY DEF MasterInv
  <2>. QED BY <1>1, <1>4, <2>1, PublishAppends
<1>6. synced' \in [Items -> Nat] /\ \A j \in Items : synced'[j] <= Len(log'[j])
  <2>1. ASSUME NEW j \in Items
        PROVE  synced[j] <= Len(log'[j])
    <3>1. synced[j] \in Nat /\ synced[j] <= Len(log[j]) /\ Len(log[j]) \in Nat /\ Len(log'[j]) \in Nat
      BY <1>5, LenProperties DEF MasterInv
    <3>. QED BY <1>5, <3>1
  <2>. QED BY <1>2, <2>1 DEF MasterInv
<1>7. ASSUME NEW b \in Clients
      PROVE  call'[b] = Idle \/ SoundCall(D, call[b])'
  <2>1. \/ call'[b] = call[b]
        \/ call'[b] = Idle
        \/ call'[b] = [r EXCEPT !.step = "next"] /\ r.todo # <<>>
    BY <1>1 DEF Publish, MasterInv
  <2>2. ASSUME SoundCall(D, call[b]), call'[b] = call[b]
        PROVE  SoundCall(D, call[b])'
    <3>1. PICK q : q = call[b] /\ SoundCall(D, q)
      BY <2>2
    <3>2. \A j \in Items : synced[j] <= synced'[j]
      BY <1>2 DEF MasterInv
    <3>3. SoundCall(D, q)'
      BY <1>5, <1>6, <3>1, <3>2, CallsStaySound
    <3>. QED BY <2>2, <3>1, <3>3
  <2>3. ASSUME call'[b] = [r EXCEPT !.step = "next"], r.todo # <<>>
        PROVE  SoundCall(D, call[b])'
    <3>1. PICK q : q = [r EXCEPT !.step = "next"]
      OBVIOUS
    <3>2. q.item = r.item /\ q.todo = r.todo /\ q.step = "next"
      BY <1>3, <3>1, <1>2
    <3>. QED BY <1>3, <2>3, <3>1, <3>2 DEF SoundCall
  <2>. QED BY <2>1, <2>2, <2>3 DEF MasterInv
<1>8. ReplacedRightly'
  <2>1. ASSUME NEW j \in Items, NEW v \in DOMAIN log'[j], v > 1
        PROVE  Rightly(log'[j][v].op, log'[j][v].row, log'[j][v - 1].row)
    <3>1. DOMAIN log[j] = 1 .. Len(log[j]) /\ Len(log[j]) \in Nat
      BY LenProperties DEF MasterInv
    <3>2. CASE v \in DOMAIN log[j]
      <4>1. v - 1 \in DOMAIN log[j]
        BY <2>1, <3>1, <3>2
      <4>2. log'[j][v] = log[j][v] /\ log'[j][v - 1] = log[j][v - 1]
        BY <1>5, <3>2, <4>1
      <4>3. Rightly(log[j][v].op, log[j][v].row, log[j][v - 1].row)
        BY <2>1, <3>2 DEF MasterInv, ReplacedRightly
      <4>. QED BY <4>2, <4>3
    <3>3. CASE j = i /\ v = Len(log[i]) + 1 /\ log'[j][v] = e /\ r.version = Len(log[i])
      <4>1. v - 1 = r.version /\ r.version # 0 /\ v - 1 \in DOMAIN log[j]
        BY <2>1, <3>1, <3>3
      <4>2. log'[j][v - 1] = log[i][r.version]
        BY <1>5, <3>3, <4>1
      <4>3. Rightly(r.op, r.row, log[i][r.version].row)
        BY <1>1, <1>4, <4>1 DEF ReadyCall
      <4>. QED BY <1>1, <3>3, <4>2, <4>3
    <3>. QED BY <1>5, <3>2, <3>3
  <2>. QED BY <2>1 DEF ReplacedRightly
<1>9. DOMAIN call' = Clients
  BY DEF Publish, MasterInv
<1>. QED BY <1>5, <1>6, <1>7, <1>8, <1>9 DEF MasterInv

(* The data table takes the next command of an item.                       *)
LEMMA SyncKeeps ==
  ASSUME NEW D, MasterInv(D), NEW i \in Items, Sync(i)
  PROVE  MasterInv(D)'
<1>1. /\ synced \in [Items -> Nat] /\ \A j \in Items : synced[j] <= Len(log[j]) /\ Len(log[j]) \in Nat
      /\ synced' = [synced EXCEPT ![i] = @ + 1] /\ synced[i] < Len(log[i])
      /\ UNCHANGED <<log, call>>
  BY LenProperties DEF MasterInv, Sync
<1>2. synced' \in [Items -> Nat] /\ \A j \in Items : synced[j] <= synced'[j] /\ synced'[j] <= Len(log[j])
  BY <1>1
<1>3. ASSUME NEW b \in Clients
      PROVE  call'[b] = Idle \/ SoundCall(D, call[b])'
  <2>1. PICK q : q = call[b]
    OBVIOUS
  <2>2. ASSUME SoundCall(D, q)
        PROVE  SoundCall(D, q)'
    BY <1>1, <1>2, <2>2, CallsStaySound
  <2>. QED BY <1>1, <2>1, <2>2 DEF MasterInv
<1>. QED BY <1>1, <1>2, <1>3 DEF MasterInv, ReplacedRightly

(* The calls of the services.                                              *)
LEMMA CallIsSound ==
  ASSUME NEW D, MasterInv(D), NEW i \in Items, NEW op \in Ops, NEW row \in States(D),
         NEW step \in {"publish", "setting"},
         HasRow(i) => Rightly(op, row, Row(i))
  PROVE  SoundCall(D, [Call(op, i, synced[i], row) EXCEPT !.step = step])
<1>1. PICK r : r = [Call(op, i, synced[i], row) EXCEPT !.step = step]
  OBVIOUS
<1>2. /\ r.op = op /\ r.item = i /\ r.version = synced[i] /\ r.row = row /\ r.step = step
      /\ r.todo = <<>>
  BY <1>1 DEF Call
<1>3. ReadyCall(D, r)
  BY <1>2, RowTypes DEF ReadyCall, HasRow, Row
<1>4. r.todo \in Seq(Items \X States(D))
  BY <1>2
<1>5. SoundCall(D, r)
  BY <1>2, <1>3, <1>4 DEF SoundCall
<1>. QED BY <1>1, <1>5

(* A request that is made from the current row is sound.                   *)
LEMMA SoundPublish ==
  ASSUME NEW D, MasterInv(D), NEW i \in Items, NEW op \in Ops, NEW row \in States(D),
         HasRow(i) => Rightly(op, row, Row(i))
  PROVE  SoundCall(D, Call(op, i, synced[i], row))
<1>1. PICK r : r = [Call(op, i, synced[i], row) EXCEPT !.step = "publish"]
  OBVIOUS
<1>2. SoundCall(D, r)
  <2>1. "publish" \in {"publish", "setting"}
    OBVIOUS
  <2>. QED BY <1>1, <2>1, CallIsSound
<1>3. r = Call(op, i, synced[i], row)
  BY <1>1 DEF Call
<1>. QED BY <1>2, <1>3

LEMMA BeginKeeps ==
  ASSUME NEW D, MasterInv(D), NEW c \in Clients, NEW r, SoundCall(D, r), Begin(c, r)
  PROVE  MasterInv(D)'
BY GoKeeps DEF Begin

(* A request begins.                                                       *)
LEMMA CallKeeps ==
  ASSUME NEW D, MasterInv(D), NEW c \in Clients, NEW i \in Items, NEW op \in Ops,
         NEW row \in States(D), HasRow(i) => Rightly(op, row, Row(i)),
         Begin(c, Call(op, i, synced[i], row))
  PROVE  MasterInv(D)'
BY SoundPublish, BeginKeeps

(* An update of a row that is there.                                       *)
LEMMA ReplaceKeeps ==
  ASSUME NEW D, MasterInv(D), NEW c \in Clients, NEW i \in Items,
         NEW row \in States(D), Replace(c, "update", i, row)
  PROVE  MasterInv(D)'
<1>1. Rightly("update", row, Row(i))
  BY DEF Rightly
<1>. QED BY <1>1, CallKeeps DEF Replace, Ops

(* A deletion of a row that is there.                                      *)
LEMMA DeleteKeeps ==
  ASSUME NEW D, "yes" \in D, MasterInv(D), NEW c \in Clients, NEW i \in Items,
         Replace(c, "delete", i, Marked(i))
  PROVE  MasterInv(D)'
<1>1. HasRow(i) /\ Row(i) \in States(D)
  BY RowTypes DEF Replace
<1>2. Marked(i) \in States(D) /\ Rightly("delete", Marked(i), Row(i))
  BY <1>1 DEF Marked, States, Rightly
<1>. QED BY <1>2, CallKeeps DEF Replace, Ops

(* A creation finds no row, or one that is deleted.                        *)
LEMMA CreateKeeps ==
  ASSUME MasterInv(Written), NEW c \in Clients, NEW i \in Items,
         NEW row \in States(Written), Create(c, "create", i, row)
  PROVE  MasterInv(Written)'
<1>1. HasRow(i) => Row(i).deleted = "yes"
  <2>1. HasRow(i) => Row(i).deleted # "no" /\ Row(i) \in States(Written)
    BY RowTypes DEF Create
  <2>. QED BY <2>1 DEF States, Written
<1>2. HasRow(i) => Rightly("create", row, Row(i))
  BY <1>1 DEF Rightly
<1>. QED BY <1>2, CallKeeps DEF Create, Ops

(* Who creates an item with a key of its own does not look at it.          *)
LEMMA FreshKeeps ==
  ASSUME NEW D, MasterInv(D), NEW c \in Clients, NEW i \in Items,
         NEW row \in States(D), Fresh(i), Create(c, "create", i, row)
  PROVE  MasterInv(D)'
<1>1. ~HasRow(i)
  <2>1. synced[i] \in Nat /\ synced[i] <= Len(log[i]) /\ log[i] = <<>>
    BY DEF MasterInv, Fresh
  <2>. QED BY <2>1 DEF HasRow
<1>. QED BY <1>1, CallKeeps DEF Create, Ops

LEMMA StoreKeeps ==
  ASSUME NEW D, MasterInv(D), StoreNext
  PROVE  MasterInv(D)'
BY PublishKeeps, SyncKeeps DEF StoreNext

LEMMA SameKeeps ==
  ASSUME NEW D, MasterInv(D), UNCHANGED storeVars
  PROVE  MasterInv(D)'
<1>1. \A b \in Clients : call[b] = Idle \/ SoundCall(D, call[b])'
  BY DEF MasterInv, SoundCall, ReadyCall, storeVars
<1>. QED BY <1>1 DEF MasterInv, ReplacedRightly, storeVars

LEMMA StateTypes ==
  ASSUME NEW D, NEW d \in D, NEW x \in Values
  PROVE  State(d, x) \in States(D)
BY DEF State, States

(* A row's deletion flag, as a request may write it.                       *)
LEMMA FlagTypes ==
  ASSUME NEW D, Written \subseteq D, MasterInv(D), NEW i \in Items, HasRow(i)
  PROVE  Flags(i) \subseteq D
<1>1. Row(i) \in States(D)
  BY RowTypes
<1>. QED BY <1>1 DEF Flags, States, Written

(***************************************************************************)
(* Master data: bulk upserts and copies go on after their first step.      *)
(***************************************************************************)
LEMMA UpsertBulkKeeps ==
  ASSUME MasterInv(Written), NEW c \in Clients, NEW i \in Items, NEW j \in Items,
         NEW row \in States(Written), UpsertBulk(c, <<<<i, row>>, <<j, row>>>>)
  PROVE  MasterInv(Written)'
<1>1. PICK todo : todo = <<<<i, row>>, <<j, row>>>>
  OBVIOUS
<1>2. PICK r : r = [Call("upsertBulk", Head(todo)[1], 0, Head(todo)[2])
                      EXCEPT !.step = "next", !.todo = todo]
  OBVIOUS
<1>3. Head(todo)[1] = i /\ todo \in Seq(Items \X States(Written)) /\ todo # <<>>
  BY <1>1
<1>4. r.item = i /\ r.step = "next" /\ r.todo = todo
  BY <1>2, <1>3 DEF Call
<1>5. SoundCall(Written, r)
  BY <1>3, <1>4 DEF SoundCall
<1>6. Begin(c, r)
  BY <1>1, <1>2 DEF UpsertBulk
<1>. QED BY <1>5, <1>6, BeginKeeps

(* The next item of a bulk upsert.                                         *)
LEMMA UpsertNextKeeps ==
  ASSUME MasterInv(Written), NEW c \in Clients, UpsertNext(c)
  PROVE  MasterInv(Written)'
<1>1. PICK q, i, row :
        q = call[c] /\ i = Head(q.todo)[1] /\ row = Head(q.todo)[2]
  OBVIOUS
<1>2. SoundCall(Written, q) /\ q.todo # <<>> /\ q.todo \in Seq(Items \X States(Written))
  <2>1. q.step = "next"
    BY <1>1 DEF UpsertNext
  <2>2. q # Idle
    BY <2>1 DEF Idle
  <2>3. SoundCall(Written, q)
    BY <1>1, <2>2 DEF MasterInv
  <2>. QED BY <2>1, <2>3 DEF SoundCall
<1>3. Head(q.todo) \in Items \X States(Written) /\ Tail(q.todo) \in Seq(Items \X States(Written))
  BY <1>2, HeadTailProperties
<1>4. i \in Items /\ row \in States(Written)
  BY <1>1, <1>3
<1>5. PICK r : r = [Call("upsertBulk", i, synced[i], row) EXCEPT !.todo = Tail(q.todo)]
  OBVIOUS
<1>6. /\ r.op = "upsertBulk" /\ r.item = i /\ r.version = synced[i] /\ r.row = row
      /\ r.step = "publish" /\ r.todo = Tail(q.todo)
  BY <1>5 DEF Call
<1>7. ReadyCall(Written, r)
  BY <1>4, <1>6, RowTypes DEF ReadyCall, Rightly, Ops
<1>8. SoundCall(Written, r)
  BY <1>3, <1>4, <1>6, <1>7 DEF SoundCall
<1>9. call' = [call EXCEPT ![c] = r] /\ UNCHANGED <<log, synced>>
  BY <1>1, <1>5 DEF UpsertNext, Go
<1>. QED BY <1>8, <1>9, GoKeeps

(* A copy begins: it is written later, over whatever is there.             *)
LEMMA CopyingKeeps ==
  ASSUME MasterInv(Written), NEW c \in Clients, NEW i \in Items,
         NEW row \in States(Optional), Begin(c, Copying(i, row))
  PROVE  MasterInv(Written)'
<1>1. PICK r : r = Copying(i, row)
  OBVIOUS
<1>2. /\ r.item = i /\ r.row = row /\ r.todo = <<>>
      /\ r.step = "create" \/ (r.step = "update" /\ synced[i] # 0)
  BY <1>1 DEF Copying, Call, HasRow
<1>3. r.todo \in Seq(Items \X States(Written))
  BY <1>2
<1>4. SoundCall(Written, r)
  BY <1>2, <1>3 DEF SoundCall
<1>. QED BY <1>1, <1>4, BeginKeeps

(* The next write of a copy.                                               *)
LEMMA CopyWriteKeeps ==
  ASSUME MasterInv(Written), NEW c \in Clients, CopyWrite(c)
  PROVE  MasterInv(Written)'
<1>1. PICK q, i, row : q = call[c] /\ i = q.item /\ row = q.row
  OBVIOUS
<1>2. q.step \in {"update", "create"}
  BY <1>1 DEF CopyWrite
<1>3. SoundCall(Written, q)
  <2>1. q # Idle
    BY <1>2 DEF Idle
  <2>. QED BY <1>1, <2>1 DEF MasterInv
<1>4. i \in Items /\ row \in States(Optional) /\ (q.step = "update" => HasRow(i))
  BY <1>1, <1>2, <1>3 DEF SoundCall, HasRow
<1>5. CASE q.step = "update"
  <2>1. PICK new : new = State(IF row.deleted = "unset" THEN Row(i).deleted ELSE row.deleted, row.value)
    OBVIOUS
  <2>2. new \in States(Written)
    <3>1. Row(i) \in States(Written)
      BY <1>4, <1>5, RowTypes
    <3>. QED BY <1>4, <2>1, <3>1 DEF State, States, Written, Optional
  <2>3. call' = [call EXCEPT ![c] = Call("update", i, synced[i], new)] /\ UNCHANGED <<log, synced>>
    BY <1>1, <1>5, <2>1 DEF CopyWrite, Go
  <2>4. SoundCall(Written, Call("update", i, synced[i], new))
    BY <1>4, <2>2, SoundPublish DEF Rightly, Ops
  <2>. QED BY <2>3, <2>4, GoKeeps
<1>6. CASE q.step = "create"
  <2>1. PICK new : new = State("no", row.value)
    OBVIOUS
  <2>2. new \in States(Written)
    BY <1>4, <2>1 DEF State, States, Written
  <2>3. CASE HasRow(i) /\ Row(i).deleted = "no"
    <3>1. call' = [call EXCEPT ![c] = Idle] /\ UNCHANGED <<log, synced>>
      BY <1>1, <1>6, <2>3 DEF CopyWrite, Go
    <3>. QED BY <3>1, GoKeeps
  <2>4. CASE ~(HasRow(i) /\ Row(i).deleted = "no")
    <3>1. call' = [call EXCEPT ![c] = Call("create", i, synced[i], new)] /\ UNCHANGED <<log, synced>>
      BY <1>1, <1>6, <2>1, <2>4 DEF CopyWrite, Go
    <3>2. HasRow(i) => Row(i).deleted = "yes"
      <4>1. HasRow(i) => Row(i) \in States(Written)
        BY <1>4, RowTypes
      <4>. QED BY <2>4, <4>1 DEF States, Written
    <3>3. SoundCall(Written, Call("create", i, synced[i], new))
      BY <1>4, <2>2, <3>2, SoundPublish DEF Rightly, Ops
    <3>. QED BY <3>1, <3>3, GoKeeps
  <2>. QED BY <2>3, <2>4
<1>. QED BY <1>2, <1>5, <1>6

(* Every step of the master data keeps the invariant.                      *)
LEMMA MasterDataStep ==
  ASSUME NEW own \in SUBSET Items, MasterInv(Written), [MasterDataNext(own)]_storeVars
  PROVE  MasterInv(Written)'
<1>1. "yes" \in Written /\ "no" \in Written /\ Written \subseteq Optional /\ "unset" \in Optional
  BY DEF Written, Optional
<1>2. ASSUME NEW c \in Clients, NEW i \in own, NEW x \in Values,
             \/ CopySettingToTenant(c, i, x)
             \/ \E d \in {"yes", "no"} : CopyDataToTenant(c, i, x, d)
      PROVE  MasterInv(Written)'
  <2>1. CASE CopySettingToTenant(c, i, x)
    BY <1>1, <2>1, StateTypes, CopyingKeeps DEF CopySettingToTenant
  <2>2. ASSUME NEW d \in {"yes", "no"}, CopyDataToTenant(c, i, x, d)
        PROVE  MasterInv(Written)'
    <3>1. d \in Optional
      BY DEF Written, Optional
    <3>. QED BY <2>2, <3>1, StateTypes, CopyingKeeps DEF CopyDataToTenant
  <2>. QED BY <1>2, <2>1, <2>2
<1>3. ASSUME NEW c \in Clients, NEW i \in own, NEW x \in Values, CreateData(c, i, x)
      PROVE  MasterInv(Written)'
  BY <1>1, <1>3, StateTypes, CreateKeeps DEF CreateData
<1>4. ASSUME NEW c \in Clients, NEW i \in own, NEW x \in Values, UpsertData(c, i, x)
      PROVE  MasterInv(Written)'
  <2>1. Begin(c, Call("upsert", i, synced[i], State("no", x))) /\ "upsert" \in Ops
    BY <1>4 DEF UpsertData, Ops
  <2>2. Rightly("upsert", State("no", x), Row(i))
    BY DEF Rightly
  <2>. QED BY <1>1, <2>1, <2>2, StateTypes, CallKeeps
<1>5. ASSUME NEW c \in Clients, NEW i \in own, NEW x \in Values, HasRow(i),
             NEW d \in Flags(i), UpdateData(c, i, x, d)
      PROVE  MasterInv(Written)'
  <2>1. d \in Written
    BY <1>5, FlagTypes
  <2>. QED BY <1>5, <2>1, StateTypes, ReplaceKeeps DEF UpdateData
<1>6. ASSUME NEW c \in Clients, NEW i \in own, DeleteData(c, i)
      PROVE  MasterInv(Written)'
  BY <1>1, <1>6, DeleteKeeps DEF DeleteData
<1>7. ASSUME NEW c \in Clients, NEW i \in own, NEW x \in Values, NEW j \in own,
             UpsertBulk(c, <<<<i, State("no", x)>>, <<j, State("no", x)>>>>)
      PROVE  MasterInv(Written)'
  BY <1>1, <1>7, StateTypes, UpsertBulkKeeps
<1>8. ASSUME NEW c \in Clients, UpsertNext(c) \/ CopyWrite(c)
      PROVE  MasterInv(Written)'
  BY <1>8, UpsertNextKeeps, CopyWriteKeeps
<1>9. CASE UNCHANGED storeVars
  BY <1>9, SameKeeps
<1>. QED BY <1>2, <1>3, <1>4, <1>5, <1>6, <1>7, <1>8, <1>9, StoreKeeps DEF MasterDataNext

(* Master data: creations, upserts one by one or in bulk, updates,         *)
(* deletions and copies from another tenant never lose an item, whoever    *)
(* runs at the same time.                                                  *)
THEOREM MasterDataIsNotReplaced ==
  ASSUME NEW CONSTANT own, own \subseteq Items
  PROVE  MasterDataSpec(own) => [](CreateNeverReplaces /\ DeletesOnlyMark)
<1>1. StoreInit => MasterInv(Written)
  BY MasterInvInit
<1>2. MasterInv(Written) /\ [MasterDataNext(own)]_storeVars => MasterInv(Written)'
  BY MasterDataStep
<1>3. MasterInv(Written) => CreateNeverReplaces /\ DeletesOnlyMark
  BY Properties
<1>. QED BY <1>1, <1>2, <1>3, PTL DEF MasterDataSpec

(***************************************************************************)
(* UI settings.                                                            *)
(***************************************************************************)
LEMMA DataSettingKeeps ==
  ASSUME MasterInv(Written), NEW c \in Clients, NEW i \in Items, NEW op \in Ops,
         NEW row \in States(Written), NEW step \in {"publish", "setting"},
         HasRow(i) => Rightly(op, row, Row(i)),
         Begin(c, [Call(op, i, synced[i], row) EXCEPT !.step = step])
  PROVE  MasterInv(Written)'
<1>1. PICK r : r = [Call(op, i, synced[i], row) EXCEPT !.step = step]
  OBVIOUS
<1>2. SoundCall(Written, r)
  BY <1>1, CallIsSound
<1>. QED BY <1>1, <1>2, BeginKeeps

(* The check of the setting that a data item belongs to.                   *)
LEMMA CheckSettingKeeps ==
  ASSUME MasterInv(Written), NEW c \in Clients, NEW s \in Items, CheckSetting(c, s)
  PROVE  MasterInv(Written)'
<1>1. PICK q, r : q = call[c] /\ r = [q EXCEPT !.step = "publish"]
  OBVIOUS
<1>2. q.step = "setting" /\ SoundCall(Written, q)
  <2>1. q.step = "setting"
    BY <1>1 DEF CheckSetting
  <2>2. q # Idle
    BY <2>1 DEF Idle
  <2>. QED BY <1>1, <2>1, <2>2 DEF MasterInv
<1>3. /\ r.item = q.item /\ r.op = q.op /\ r.row = q.row /\ r.version = q.version
      /\ r.todo = q.todo /\ r.step = "publish"
  BY <1>1, <1>2
<1>4. SoundCall(Written, r)
  <2>1. ReadyCall(Written, r)
    BY <1>2, <1>3 DEF SoundCall, ReadyCall
  <2>. QED BY <1>2, <1>3, <2>1 DEF SoundCall
<1>5. \/ call' = [call EXCEPT ![c] = r] /\ UNCHANGED <<log, synced>>
      \/ call' = [call EXCEPT ![c] = Idle] /\ UNCHANGED <<log, synced>>
  BY <1>1 DEF CheckSetting, Go
<1>. QED BY <1>4, <1>5, GoKeeps

(* Every step of the UI settings keeps the invariant.                      *)
LEMMA UiSettingStep ==
  ASSUME NEW s \in Items, NEW i \in Items, MasterInv(Written),
         [UiSettingNext(s, i)]_storeVars
  PROVE  MasterInv(Written)'
<1>1. "yes" \in Written /\ "no" \in Written
  BY DEF Written
<1>2. ASSUME NEW c \in Clients, NEW x \in Values, CreateUiSetting(c, s, x)
      PROVE  MasterInv(Written)'
  BY <1>1, <1>2, StateTypes, CreateKeeps DEF CreateUiSetting
<1>3. ASSUME NEW c \in Clients, NEW x \in Values, CreateDataSetting(c, i, x)
      PROVE  MasterInv(Written)'
  <2>1. State("no", x) \in States(Written) /\ "create" \in Ops /\ "setting" \in {"publish", "setting"}
    BY <1>1, StateTypes DEF Ops
  <2>2. HasRow(i) => Rightly("create", State("no", x), Row(i))
    <3>1. HasRow(i) => Row(i).deleted # "no" /\ Row(i) \in States(Written)
      BY <1>3, RowTypes DEF CreateDataSetting
    <3>. QED BY <3>1 DEF Rightly, States, Written
  <2>. QED BY <1>3, <2>1, <2>2, DataSettingKeeps DEF CreateDataSetting
<1>4. ASSUME NEW c \in Clients, NEW x \in Values, HasRow(s), NEW d \in Flags(s),
             UpdateUiSetting(c, s, x, d)
      PROVE  MasterInv(Written)'
  <2>1. d \in Written
    BY <1>4, FlagTypes
  <2>. QED BY <1>4, <2>1, StateTypes, ReplaceKeeps DEF UpdateUiSetting
<1>5. ASSUME NEW c \in Clients, NEW x \in Values, HasRow(i), NEW d \in Flags(i),
             UpdateDataSetting(c, i, x, d)
      PROVE  MasterInv(Written)'
  <2>1. d \in Written
    BY <1>5, FlagTypes
  <2>2. State(d, x) \in States(Written) /\ "update" \in Ops
    BY <2>1, StateTypes DEF Ops
  <2>3. Rightly("update", State(d, x), Row(i))
    BY DEF Rightly
  <2>4. PICK step : step = IF x # Row(i).value THEN "setting" ELSE "publish"
    OBVIOUS
  <2>5. step \in {"publish", "setting"}
    BY <2>4
  <2>6. Begin(c, [Call("update", i, synced[i], State(d, x)) EXCEPT !.step = step])
    BY <1>5, <2>4 DEF UpdateDataSetting
  <2>. QED BY <2>2, <2>3, <2>5, <2>6, DataSettingKeeps
<1>6. ASSUME NEW c \in Clients,
             DeleteUiSetting(c, s) \/ DeleteDataSetting(c, i) \/ CheckSetting(c, s)
      PROVE  MasterInv(Written)'
  BY <1>1, <1>6, DeleteKeeps, CheckSettingKeeps DEF DeleteUiSetting, DeleteDataSetting
<1>7. CASE UNCHANGED storeVars
  BY <1>7, SameKeeps
<1>. QED BY <1>2, <1>3, <1>4, <1>5, <1>6, <1>7, StoreKeeps DEF UiSettingNext

(* The same for a setting and the data settings under it.                  *)
THEOREM UiSettingsAreNotReplaced ==
  ASSUME NEW CONSTANT s \in Items, NEW CONSTANT i \in Items
  PROVE  UiSettingSpec(s, i) => [](CreateNeverReplaces /\ DeletesOnlyMark)
<1>1. StoreInit => MasterInv(Written)
  BY MasterInvInit
<1>2. MasterInv(Written) /\ [UiSettingNext(s, i)]_storeVars => MasterInv(Written)'
  BY UiSettingStep
<1>3. MasterInv(Written) => CreateNeverReplaces /\ DeletesOnlyMark
  BY Properties
<1>. QED BY <1>1, <1>2, <1>3, PTL DEF UiSettingSpec

(***************************************************************************)
(* Survey templates and answers, and generated services.                   *)
(***************************************************************************)
LEMMA SurveyStep ==
  ASSUME NEW i \in Items, NEW answer \in Items, MasterInv(Optional),
         [SurveyNext(i, answer)]_storeVars
  PROVE  MasterInv(Optional)'
<1>1. "yes" \in Optional /\ "unset" \in Optional /\ Written \subseteq Optional
  BY DEF Written, Optional
<1>2. ASSUME NEW c \in Clients, NEW x \in Values,
             CreateTemplate(c, i, x) \/ CreateAnswer(c, answer, x)
      PROVE  MasterInv(Optional)'
  BY <1>1, <1>2, StateTypes, FreshKeeps DEF CreateTemplate, CreateAnswer
<1>3. ASSUME NEW c \in Clients, NEW x \in Values, HasRow(i), NEW d \in Flags(i),
             UpdateTemplate(c, i, x, d)
      PROVE  MasterInv(Optional)'
  <2>1. d \in Optional
    BY <1>1, <1>3, FlagTypes
  <2>. QED BY <1>3, <2>1, StateTypes, ReplaceKeeps DEF UpdateTemplate
<1>4. ASSUME NEW c \in Clients, RemoveTemplate(c, i)
      PROVE  MasterInv(Optional)'
  BY <1>1, <1>4, DeleteKeeps DEF RemoveTemplate
<1>5. CASE UNCHANGED storeVars
  BY <1>5, SameKeeps
<1>. QED BY <1>2, <1>3, <1>4, <1>5, StoreKeeps DEF SurveyNext

(* The same for survey templates, whose removal does not ask whether they  *)
(* are there still.                                                        *)
THEOREM SurveysAreNotReplaced ==
  ASSUME NEW CONSTANT i \in Items, NEW CONSTANT answer \in Items
  PROVE  SurveySpec(i, answer) => [](CreateNeverReplaces /\ DeletesOnlyMark)
<1>1. StoreInit => MasterInv(Optional)
  BY MasterInvInit
<1>2. MasterInv(Optional) /\ [SurveyNext(i, answer)]_storeVars => MasterInv(Optional)'
  BY SurveyStep
<1>3. MasterInv(Optional) => CreateNeverReplaces /\ DeletesOnlyMark
  BY Properties
<1>. QED BY <1>1, <1>2, <1>3, PTL DEF SurveySpec

(* Every step of a generated service keeps the invariant.                  *)
LEMMA GeneratedStep ==
  ASSUME NEW i \in Items, MasterInv(Optional), [GeneratedNext(i)]_storeVars
  PROVE  MasterInv(Optional)'
<1>1. "yes" \in Optional /\ "unset" \in Optional /\ Written \subseteq Optional
  BY DEF Written, Optional
<1>2. ASSUME NEW c \in Clients, NEW x \in Values, GeneratedCreate(c, i, x)
      PROVE  MasterInv(Optional)'
  BY <1>1, <1>2, StateTypes, FreshKeeps DEF GeneratedCreate
<1>3. ASSUME NEW c \in Clients, NEW x \in Values, HasRow(i), NEW d \in Flags(i),
             GeneratedUpdate(c, i, x, d)
      PROVE  MasterInv(Optional)'
  <2>1. d \in Optional
    BY <1>1, <1>3, FlagTypes
  <2>. QED BY <1>3, <2>1, StateTypes, ReplaceKeeps DEF GeneratedUpdate
<1>4. ASSUME NEW c \in Clients, GeneratedRemove(c, i)
      PROVE  MasterInv(Optional)'
  BY <1>1, <1>4, DeleteKeeps DEF GeneratedRemove
<1>5. CASE UNCHANGED storeVars
  BY <1>5, SameKeeps
<1>. QED BY <1>2, <1>3, <1>4, <1>5, StoreKeeps DEF GeneratedNext

(* The same for the services that the command line tool generates.         *)
THEOREM GeneratedItemsAreNotReplaced ==
  ASSUME NEW CONSTANT i \in Items
  PROVE  GeneratedSpec(i) => [](CreateNeverReplaces /\ DeletesOnlyMark)
<1>1. StoreInit => MasterInv(Optional)
  BY MasterInvInit
<1>2. MasterInv(Optional) /\ [GeneratedNext(i)]_storeVars => MasterInv(Optional)'
  BY GeneratedStep
<1>3. MasterInv(Optional) => CreateNeverReplaces /\ DeletesOnlyMark
  BY Properties
<1>. QED BY <1>1, <1>2, <1>3, PTL DEF GeneratedSpec

-----------------------------------------------------------------------------
(***************************************************************************)
(* No formatted number is issued twice, proved for all codes, days and     *)
(* callers, if no day ends between the two reads of the clock.             *)
(***************************************************************************)
(* A request and a number issued go back to one date, which says the       *)
(* counter's period as well as what the format shows.                      *)
Dated(code, period, dict) ==
  \E date \in Days : /\ period = GetRotateValue(RotateBy[code], date)
                     /\ dict = CreateFormatDict(code, date)

Numbers ==
  [code : Codes, period : Periods, no : Nat,
   formatted : {CreateFormattedNo(code, no, dict) :
                  code \in Codes, no \in Nat, dict \in [Parts -> Int]}]

SequenceTypes ==
  /\ counter \in [Codes -> [Periods -> Nat]]
  /\ asking \in [Callers -> [code : Codes, dict : [Parts -> Int], period : Periods]
                              \cup {NoRequest}]
  /\ issued \in Seq(Numbers)

AskedForDate ==
  \A c \in Callers : asking[c] # NoRequest =>
    Dated(asking[c].code, asking[c].period, asking[c].dict)

IssuedForDate ==
  \A j \in DOMAIN issued : \E dict \in [Parts -> Int] :
    /\ Dated(issued[j].code, issued[j].period, dict)
    /\ issued[j].formatted = CreateFormattedNo(issued[j].code, issued[j].no, dict)

(* What a counter has counted was issued once.                             *)
CounterIsAhead ==
  \A j \in DOMAIN issued : issued[j].no <= counter[issued[j].code][issued[j].period]
NumbersDiffer ==
  \A j, k \in DOMAIN issued :
    /\ j # k
    /\ issued[j].code = issued[k].code /\ issued[j].period = issued[k].period
    => issued[j].no # issued[k].no

SequenceInv ==
  SequenceTypes /\ AskedForDate /\ IssuedForDate /\ CounterIsAhead /\ NumbersDiffer

LEMMA DateTypes ==
  ASSUME NEW d \in Days
  PROVE  YearOf(d) \in Int /\ MonthOf(d) \in Int /\ DayOf(d) \in Int
<1>1. d \in Int /\ MonthLength \in Int /\ MonthLength > 0 /\ 12 * MonthLength > 0
  BY DaysAssumption
<1>2. \A n \in Int : n > 0 => d \div n \in Int /\ d % n \in Int
  BY <1>1
<1>3. YearOf(d) \in Int /\ DayOf(d) \in Int
  BY <1>1, <1>2 DEF YearOf, DayOf
<1>4. d \div MonthLength \in Int
  BY <1>1, <1>2
<1>5. (d \div MonthLength) % 12 \in Int
  BY <1>4
<1>. QED BY <1>3, <1>5 DEF MonthOf

LEMMA DictTypes ==
  ASSUME NEW code \in Codes, NEW d \in Days
  PROVE  CreateFormatDict(code, d) \in [Parts -> Int]
<1>1. GetFiscalYear(d, StartMonth[code], ReferenceYear[code]) \in Int
  BY DateTypes, CodesAssumption DEF GetFiscalYear
<1>. QED BY <1>1, DateTypes DEF CreateFormatDict, Parts

(* A format that shows its period tells two periods apart.                 *)
LEMMA FormatTellsPeriod ==
  ASSUME NEW code \in Codes, ShowsItsPeriod(code), NEW d \in Days, NEW e \in Days,
         \A part \in Format[code] :
           CreateFormatDict(code, d)[part] = CreateFormatDict(code, e)[part]
  PROVE  GetRotateValue(RotateBy[code], d) = GetRotateValue(RotateBy[code], e)
<1>1. /\ "year" \in Format[code] => YearOf(d) = YearOf(e)
      /\ "month" \in Format[code] => MonthOf(d) = MonthOf(e)
      /\ "day" \in Format[code] => DayOf(d) = DayOf(e)
      /\ "fiscal_year" \in Format[code] =>
           GetFiscalYear(d, StartMonth[code], ReferenceYear[code])
             = GetFiscalYear(e, StartMonth[code], ReferenceYear[code])
  BY DEF CreateFormatDict
<1>2. RotateBy[code] \in Rotations
  BY CodesAssumption
<1>3. CASE RotateBy[code] = "fiscal_yearly"
  <2>1. GetFiscalYear(d, 4, ReferenceYear[code]) = GetFiscalYear(e, 4, ReferenceYear[code])
    BY <1>1, <1>3 DEF ShowsItsPeriod
  <2>2. (IF MonthOf(d) < 4 THEN YearOf(d) - 1 ELSE YearOf(d))
          = (IF MonthOf(e) < 4 THEN YearOf(e) - 1 ELSE YearOf(e))
    BY <2>1, DateTypes, CodesAssumption DEF GetFiscalYear
  <2>. QED BY <1>3, <2>2 DEF GetRotateValue
<1>4. CASE RotateBy[code] = "yearly"
  BY <1>1, <1>4 DEF ShowsItsPeriod, GetRotateValue
<1>5. CASE RotateBy[code] = "monthly"
  BY <1>1, <1>5 DEF ShowsItsPeriod, GetRotateValue
<1>6. CASE RotateBy[code] = "daily"
  BY <1>1, <1>6 DEF ShowsItsPeriod, GetRotateValue
<1>7. CASE RotateBy[code] = "none"
  BY <1>7 DEF GetRotateValue
<1>. QED BY <1>2, <1>3, <1>4, <1>5, <1>6, <1>7 DEF Rotations

LEMMA IssuedTypes ==
  ASSUME SequenceTypes
  PROVE  \A j \in DOMAIN issued :
           issued[j].code \in Codes /\ issued[j].period \in Periods /\ issued[j].no \in Nat
<1>1. \A j \in DOMAIN issued : issued[j] \in Numbers
  BY DEF SequenceTypes
<1>. QED BY <1>1 DEF Numbers

LEMMA SequenceInvInit == SequenceInit => SequenceInv
BY DEF SequenceInit, SequenceInv, SequenceTypes, AskedForDate, IssuedForDate,
   CounterIsAhead, NumbersDiffer

(* A caller asks: the period is that of the date the number is formatted   *)
(* with.                                                                   *)
LEMMA AskStep ==
  ASSUME "midnight" \notin SequenceFaults, SequenceInv, NEW c \in Callers,
         NEW code \in Codes, NEW date \in Days, NEW given \in BOOLEAN,
         Ask(c, code, date, given)
  PROVE  SequenceInv'
<1> DEFINE r == [code |-> code, dict |-> CreateFormatDict(code, date),
                 period |-> GetRotateValue(RotateBy[code], date)]
<1>1. asking' = [asking EXCEPT ![c] = r] /\ UNCHANGED <<counter, issued>>
  BY DEF Ask
<1>2. r \in [code : Codes, dict : [Parts -> Int], period : Periods]
  BY DictTypes DEF Periods
<1>3. SequenceTypes'
  BY <1>1, <1>2 DEF SequenceInv, SequenceTypes
<1>4. AskedForDate'
  <2>1. \A d \in Callers : asking'[d] = r \/ asking'[d] = asking[d]
    BY <1>1 DEF SequenceInv, SequenceTypes
  <2>2. Dated(r.code, r.period, r.dict)
    BY DEF Dated
  <2>3. ASSUME NEW d \in Callers, asking'[d] # NoRequest
        PROVE  Dated(asking'[d].code, asking'[d].period, asking'[d].dict)
    BY <2>1, <2>2, <2>3 DEF SequenceInv, AskedForDate
  <2>. QED BY <2>3 DEF AskedForDate
<1>5. IssuedForDate' /\ CounterIsAhead' /\ NumbersDiffer'
  BY <1>1 DEF SequenceInv, IssuedForDate, CounterIsAhead, NumbersDiffer, Dated
<1>. QED BY <1>3, <1>4, <1>5 DEF SequenceInv

(* A number is issued: no other of its code and period has it.             *)
LEMMA IssueStep ==
  ASSUME SequenceInv, NEW c \in Callers, Issue(c)
  PROVE  SequenceInv'
<1> DEFINE r == asking[c]
           n == counter[r.code][r.period] + 1
           last == [code |-> r.code, period |-> r.period, no |-> n,
                    formatted |-> CreateFormattedNo(r.code, n, r.dict)]
<1>1. /\ r \in [code : Codes, dict : [Parts -> Int], period : Periods] /\ r # NoRequest
      /\ Dated(r.code, r.period, r.dict)
      /\ counter \in [Codes -> [Periods -> Nat]]
      /\ n \in Nat
  BY DEF Issue, SequenceInv, SequenceTypes, AskedForDate
<1>2. /\ counter' = [counter EXCEPT ![r.code][r.period] = n]
      /\ issued' = Append(issued, last)
      /\ asking' = [asking EXCEPT ![c] = NoRequest]
  BY DEF Issue
<1>3. last \in Numbers
  BY <1>1 DEF Numbers
<1>4. SequenceTypes'
  <2>1. issued' \in Seq(Numbers)
    BY <1>2, <1>3 DEF SequenceInv, SequenceTypes
  <2>. QED BY <1>1, <1>2, <2>1 DEF SequenceInv, SequenceTypes
<1>5. /\ DOMAIN issued' = DOMAIN issued \cup {Len(issued) + 1}
      /\ Len(issued) + 1 \notin DOMAIN issued
      /\ \A j \in DOMAIN issued : issued'[j] = issued[j]
      /\ issued'[Len(issued) + 1] = last
  <2> DEFINE new == last
  <2>1. issued \in Seq(Numbers) /\ issued' = Append(issued, new)
    BY <1>2 DEF SequenceInv, SequenceTypes
  <2> HIDE DEF new
  <2>2. /\ DOMAIN issued' = DOMAIN issued \cup {Len(issued) + 1}
        /\ Len(issued) + 1 \notin DOMAIN issued
        /\ \A j \in DOMAIN issued : issued'[j] = issued[j]
        /\ issued'[Len(issued) + 1] = new
    BY <2>1
  <2>. QED BY <2>2 DEF new
<1>6. AskedForDate'
  <2>1. \A d \in Callers : asking'[d] = NoRequest \/ asking'[d] = asking[d]
    BY <1>2 DEF SequenceInv, SequenceTypes
  <2>2. ASSUME NEW d \in Callers, asking'[d] # NoRequest
        PROVE  Dated(asking'[d].code, asking'[d].period, asking'[d].dict)
    BY <2>1, <2>2 DEF SequenceInv, AskedForDate
  <2>. QED BY <2>2 DEF AskedForDate
<1>7. IssuedForDate'
  <2>1. ASSUME NEW j \in DOMAIN issued
        PROVE  \E dict \in [Parts -> Int] :
                 /\ Dated(issued'[j].code, issued'[j].period, dict)
                 /\ issued'[j].formatted = CreateFormattedNo(issued'[j].code, issued'[j].no, dict)
    BY <1>5, <2>1 DEF SequenceInv, IssuedForDate
  <2>2. /\ Dated(last.code, last.period, r.dict)
        /\ last.formatted = CreateFormattedNo(last.code, last.no, r.dict)
    BY <1>1
  <2>. QED BY <1>1, <1>5, <2>1, <2>2 DEF IssuedForDate, Dated
<1>8. \A code \in Codes, p \in Periods :
        counter'[code][p] = IF code = r.code /\ p = r.period THEN n ELSE counter[code][p]
  BY <1>1, <1>2
<1>9. \A j \in DOMAIN issued :
        issued[j].code \in Codes /\ issued[j].period \in Periods /\ issued[j].no \in Nat
  BY IssuedTypes DEF SequenceInv
<1>10. \A j \in DOMAIN issued : issued[j].no <= counter[issued[j].code][issued[j].period]
  BY DEF SequenceInv, CounterIsAhead
<1>11. CounterIsAhead'
  <2>1. \A j \in DOMAIN issued : issued[j].no <= counter'[issued[j].code][issued[j].period]
    BY <1>1, <1>8, <1>9, <1>10
  <2>2. last.no <= counter'[last.code][last.period]
    BY <1>1, <1>8
  <2>. QED BY <1>5, <2>1, <2>2 DEF CounterIsAhead
<1>12. NumbersDiffer'
  <2>1. \A j \in DOMAIN issued :
          issued[j].code = last.code /\ issued[j].period = last.period => issued[j].no # last.no
    BY <1>1, <1>9, <1>10
  <2>2. \A j, k \in DOMAIN issued :
          j # k /\ issued[j].code = issued[k].code /\ issued[j].period = issued[k].period
            => issued[j].no # issued[k].no
    BY DEF SequenceInv, NumbersDiffer
  <2>. QED BY <1>5, <2>1, <2>2 DEF NumbersDiffer
<1>. QED BY <1>4, <1>6, <1>7, <1>11, <1>12 DEF SequenceInv

(* Every step keeps the sequences' invariant, if no request spans midnight.*)
LEMMA SequenceInvStep ==
  ASSUME "midnight" \notin SequenceFaults, SequenceInv, [SequenceNext]_sequenceVars,
         today \in Days
  PROVE  SequenceInv'
<1>1. CASE Tick \/ UNCHANGED sequenceVars
  <2>1. UNCHANGED <<counter, asking, issued>>
    BY <1>1 DEF Tick, sequenceVars
  <2>. QED BY <2>1 DEF SequenceInv, SequenceTypes, AskedForDate, IssuedForDate,
          CounterIsAhead, NumbersDiffer
<1>. QED BY <1>1, AskStep, IssueStep DEF SequenceNext

LEMMA TodayStep ==
  ASSUME today \in Days, [SequenceNext]_sequenceVars
  PROVE  today' \in Days
BY DEF SequenceNext, Tick, Ask, Issue, sequenceVars

(* Two numbers of one code that look the same would be one number of one   *)
(* period.                                                                 *)
LEMMA UniqueFromInv ==
  ASSUME SequenceInv
  PROVE  FormattedIsUnique
<1> SUFFICES ASSUME NEW j \in DOMAIN issued, NEW k \in DOMAIN issued, j # k,
                    issued[j].code = issued[k].code, ShowsItsPeriod(issued[j].code),
                    issued[j].formatted = issued[k].formatted
             PROVE  FALSE
  BY DEF FormattedIsUnique
<1> DEFINE code == issued[j].code
<1>1. code \in Codes
  BY IssuedTypes DEF SequenceInv
<1>2. PICK f \in [Parts -> Int] :
        /\ Dated(code, issued[j].period, f)
        /\ issued[j].formatted = CreateFormattedNo(code, issued[j].no, f)
  BY DEF SequenceInv, IssuedForDate
<1>3. PICK g \in [Parts -> Int] :
        /\ Dated(code, issued[k].period, g)
        /\ issued[k].formatted = CreateFormattedNo(code, issued[k].no, g)
  BY DEF SequenceInv, IssuedForDate
<1>4. issued[j].no = issued[k].no /\ \A part \in Format[code] : f[part] = g[part]
  <2> DEFINE F == [part \in Format[code] |-> f[part]]
             G == [part \in Format[code] |-> g[part]]
  <2>1. <<issued[j].no, F>> = <<issued[k].no, G>>
    BY <1>2, <1>3 DEF CreateFormattedNo
  <2>2. issued[j].no = issued[k].no /\ F = G
    <3> HIDE DEF F, G
    <3>. QED BY <2>1
  <2>3. \A part \in Format[code] : F[part] = f[part] /\ G[part] = g[part]
    OBVIOUS
  <2>. QED BY <2>2, <2>3
<1>5. issued[j].period = issued[k].period
  BY <1>1, <1>2, <1>3, <1>4, FormatTellsPeriod DEF Dated
<1>. QED BY <1>4, <1>5 DEF SequenceInv, NumbersDiffer

(* No two requests get the same formatted number, whatever the codes, the  *)
(* formats that show their period, and the order of clocks and counters.   *)
THEOREM FormattedNumbersAreUnique ==
  ASSUME "midnight" \notin SequenceFaults
  PROVE  SequenceSpec => []FormattedIsUnique
<1>1. SequenceInit => SequenceInv /\ today \in Days
  BY SequenceInvInit DEF SequenceInit
<1>2. SequenceInv /\ today \in Days /\ [SequenceNext]_sequenceVars
        => (SequenceInv /\ today \in Days)'
  BY SequenceInvStep, TodayStep
<1>3. SequenceInv => FormattedIsUnique
  BY UniqueFromInv
<1>. QED BY <1>1, <1>2, <1>3, PTL DEF SequenceSpec

(***************************************************************************)
(* Tenants and settings.                                                   *)
(***************************************************************************)

(* The least of a set of numbers that is not empty is one of them.         *)
LEMMA LeastOf ==
  ASSUME NEW S \in SUBSET Nat, S # {}
  PROVE  Min(S) \in S /\ \A y \in S : Min(S) <= y
<1>1. PICK R : R = OpToRel(<, Nat)
  OBVIOUS
<1>2. IsWellFoundedOn(R, Nat)
  BY <1>1, NatLessThanWellFounded
<1>3. \E x \in S : \A y \in S : <<y, x>> \notin R
  BY <1>2, WFMin
<1>4. \A x, y \in Nat : y < x => <<y, x>> \in R
  BY <1>1 DEF OpToRel
<1>5. \E x \in S : \A y \in S : x <= y
  <2>1. PICK x \in S : \A y \in S : <<y, x>> \notin R
    BY <1>3
  <2>2. ASSUME NEW y \in S
        PROVE  x <= y
    <3>1. x \in Nat /\ y \in Nat /\ ~(y < x)
      BY <1>4, <2>1
    <3>. QED BY <3>1
  <2>. QED BY <2>2
<1>. QED BY <1>5 DEF Min

(* The elements of a sequence: a finite set of its type.                   *)
LEMMA SetOfSeq ==
  ASSUME NEW E, NEW s \in Seq(E)
  PROVE  ToSet(s) \in SUBSET E /\ IsFiniteSet(ToSet(s))
<1>1. Len(s) \in Nat /\ DOMAIN s = 1 .. Len(s) /\ s \in [1 .. Len(s) -> E]
  BY LenProperties
<1>2. s \in Surjection(1 .. Len(s), ToSet(s))
  BY <1>1 DEF Surjection, ToSet
<1>3. IsFiniteSet(1 .. Len(s))
  BY <1>1, FS_Interval
<1>. QED BY <1>1, <1>2, <1>3, FS_Surjection DEF ToSet

Increasing(s) == \A j, k \in DOMAIN s : j < k => s[j] < s[k]

(* What SortGroups returns: the same groups, each once, in ascending order.*)
LEMMA Sorted ==
  ASSUME NEW E \in SUBSET Nat, NEW s \in Seq(E)
  PROVE  /\ SortGroups(s) \in Seq(E)
         /\ ToSet(SortGroups(s)) = ToSet(s)
         /\ Increasing(SortGroups(s))
<1> DEFINE below(g) == {h \in ToSet(s) : h <= g}
           n == Cardinality(ToSet(s))
           rank == [g \in ToSet(s) |-> Cardinality(below(g))]
           t == SortGroups(s)
<1>1. ToSet(s) \in SUBSET Nat /\ ToSet(s) \in SUBSET E /\ IsFiniteSet(ToSet(s)) /\ n \in Nat
  BY SetOfSeq, FS_CardinalityType
<1>2. ASSUME NEW g \in ToSet(s)
      PROVE  rank[g] \in 1 .. n
  <2>1. below(g) \in SUBSET ToSet(s) /\ g \in below(g)
    BY <1>1
  <2>2. IsFiniteSet(below(g)) /\ Cardinality(below(g)) <= n
    BY <1>1, <2>1, FS_Subset
  <2>3. Cardinality(below(g)) \in Nat /\ Cardinality(below(g)) # 0
    BY <2>1, <2>2, FS_CardinalityType, FS_EmptySet
  <2>. QED BY <1>1, <2>2, <2>3
<1>3. ASSUME NEW g \in ToSet(s), NEW h \in ToSet(s), g < h
      PROVE  rank[g] < rank[h]
  <2>1. /\ below(h) \in SUBSET ToSet(s) /\ below(g) \in SUBSET below(h)
        /\ h \in below(h) /\ h \notin below(g)
    BY <1>1, <1>3
  <2>2. IsFiniteSet(below(h))
    BY <1>1, <2>1, FS_Subset
  <2>3. Cardinality(below(g)) <= Cardinality(below(h)) /\ Cardinality(below(g)) # Cardinality(below(h))
    BY <2>1, <2>2, FS_Subset
  <2>4. rank[g] \in Nat /\ rank[h] \in Nat
    BY <1>1, <1>2
  <2>. QED BY <2>3, <2>4
<1>4. rank \in Injection(ToSet(s), 1 .. n)
  <2>1. rank \in [ToSet(s) -> 1 .. n]
    BY <1>2
  <2>2. ASSUME NEW g \in ToSet(s), NEW h \in ToSet(s), rank[g] = rank[h]
        PROVE  g = h
    <3>1. rank[g] \in Nat /\ rank[h] \in Nat /\ g \in Nat /\ h \in Nat
      BY <1>1, <1>2
    <3> HIDE DEF rank
    <3>. QED BY <1>3, <2>2, <3>1
  <2> HIDE DEF rank
  <2>. QED BY <2>1, <2>2 DEF Injection, IsInjective
<1>5. \A k \in 1 .. n : \E g \in ToSet(s) : rank[g] = k
  <2>1. IsFiniteSet(1 .. n) /\ Cardinality(1 .. n) = n
    BY <1>1, FS_Interval
  <2>2. rank \in Surjection(ToSet(s), 1 .. n)
    <3> HIDE DEF rank
    <3>. QED BY <1>4, <2>1, FS_Injection
  <2> HIDE DEF rank
  <2>. QED BY <2>2 DEF Surjection
<1>6. t = [k \in 1 .. n |-> CHOOSE g \in ToSet(s) : Cardinality(below(g)) = k]
  BY DEF SortGroups
<1>7. t \in [1 .. n -> ToSet(s)] /\ \A k \in 1 .. n : rank[t[k]] = k
  <2>1. ASSUME NEW k \in 1 .. n
        PROVE  LET g0 == CHOOSE g \in ToSet(s) : Cardinality(below(g)) = k
               IN  g0 \in ToSet(s) /\ Cardinality(below(g0)) = k
    <3>1. \E g \in ToSet(s) : Cardinality(below(g)) = k
      BY <1>5
    <3>. QED BY <3>1
  <2>2. t \in [1 .. n -> ToSet(s)]
    <3> HIDE DEF t, n, below
    <3>. QED BY <1>6, <2>1
  <2>3. \A k \in 1 .. n : Cardinality(below(t[k])) = k
    <3> HIDE DEF t, n, below
    <3>. QED BY <1>6, <2>1
  <2>4. \A g \in ToSet(s) : rank[g] = Cardinality(below(g))
    OBVIOUS
  <2> HIDE DEF rank, t, n, below
  <2>. QED BY <2>2, <2>3, <2>4
<1> HIDE DEF rank, t, n
<1>8. t \in Seq(E) /\ ToSet(t) \subseteq ToSet(s)
  <2>1. t \in [1 .. n -> E]
    BY <1>1, <1>7
  <2>2. t \in Seq(E)
    <3>1. n \in Nat
      BY <1>1
    <3>. QED BY <2>1, <3>1, SeqDef
  <2>. QED BY <1>7, <2>2 DEF ToSet
<1>9. ToSet(s) \subseteq ToSet(t)
  <2>1. ASSUME NEW g \in ToSet(s)
        PROVE  g \in ToSet(t)
    <3>1. rank[g] \in 1 .. n
      BY <1>2
    <3>2. t[rank[g]] = g
      BY <1>4, <1>7, <3>1 DEF Injection, IsInjective
    <3>. QED BY <1>7, <3>1, <3>2 DEF ToSet
  <2>. QED BY <2>1
<1>10. Increasing(t)
  <2>1. ASSUME NEW j \in 1 .. n, NEW k \in 1 .. n, j < k
        PROVE  t[j] < t[k]
    <3>1. t[j] \in Nat /\ t[k] \in Nat /\ rank[t[j]] = j /\ rank[t[k]] = k
      BY <1>1, <1>7
    <3>2. ~(t[k] < t[j]) /\ t[k] # t[j]
      BY <1>1, <1>3, <1>7, <2>1, <3>1
    <3>. QED BY <3>1, <3>2
  <2>. QED BY <1>7, <2>1 DEF Increasing
<1>. QED BY <1>8, <1>9, <1>10 DEF t

TenantItems == Tenants \cup {TenantGroup}
TenantOps == {"create", "createCommon", "update", "delete", "addGroup", "customize", "upsert"}

(* The groups of a role: both lists hold the same ones, and as long as     *)
(* nobody customised them they are sorted.                                 *)
RoleGroups ==
  {s \in [mode : {"none", "auto", "customized"}, groups : Seq(Groups), settingGroups : Seq(Groups)] :
     /\ ToSet(s.settingGroups) = ToSet(s.groups)
     /\ s.mode = "none" => s.groups = <<>>
     /\ s.mode = "auto" => Increasing(s.settingGroups)}

TenantStates(D) == [deleted : D, name : Contents, setting : [Roles -> RoleGroups]]
SettingStates == [deleted : Written, value : Contents]

(* Only the common tenant is created without isDeleted.                    *)
StatesAt(i) ==
  IF i = CommonTenant THEN TenantStates(Optional)
  ELSE IF i \in TenantItems THEN TenantStates(Written) ELSE SettingStates
TenantEntries == [op : TenantOps, row : UNION {StatesAt(i) : i \in Items}]

(* What a command may replace, and which groups it has to keep.            *)
Follows(i, op, row, old) ==
  /\ Rightly(op, row, old)
  /\ i \in TenantItems /\ op \in {"addGroup", "update", "delete"} =>
       \A r \in Roles : ToSet(old.setting[r].groups) \subseteq ToSet(row.setting[r].groups)

CommandsFit == \A i \in Items : \A v \in DOMAIN log[i] : log[i][v].row \in StatesAt(i)
CommandsFollow ==
  \A i \in Items : \A v \in DOMAIN log[i] :
    v > 1 => Follows(i, log[i][v].op, log[i][v].row, log[i][v - 1].row)

SoundTenantCall(r) ==
  /\ r.item \in Items /\ r.step = "publish" /\ r.todo = <<>> /\ r.op \in TenantOps
  /\ r.row \in StatesAt(r.item)
  /\ r.version \in 0 .. synced[r.item]
  /\ r.version # 0 => Follows(r.item, r.op, r.row, log[r.item][r.version].row)

TenantInv ==
  /\ log \in [Items -> Seq(TenantEntries)]
  /\ synced \in [Items -> Nat] /\ \A i \in Items : synced[i] <= Len(log[i])
  /\ DOMAIN call = Clients
  /\ \A c \in Clients : call[c] = Idle \/ SoundTenantCall(call[c])
  /\ CommandsFit /\ CommandsFollow

(* What a step of the store adds leaves all that was there.                *)
StoreGrows ==
  \A i \in Items : /\ synced[i] <= synced'[i]
                   /\ \A v \in DOMAIN log[i] : log'[i][v] = log[i][v]

(* An empty store satisfies the invariant.                                 *)
LEMMA TenantInvInit ==
  ASSUME StoreInit
  PROVE  TenantInv
BY DEF StoreInit, TenantInv, CommandsFit, CommandsFollow

(* An item's log is typed and its current row is that of its newest command*)
(* that the data table has.                                                *)
LEMMA TenantLogs ==
  ASSUME TenantInv, NEW i \in Items
  PROVE  /\ log[i] \in Seq(TenantEntries) /\ DOMAIN log[i] = 1 .. Len(log[i]) /\ Len(log[i]) \in Nat
         /\ synced[i] \in Nat /\ synced[i] <= Len(log[i])
         /\ HasRow(i) => synced[i] \in DOMAIN log[i] /\ Row(i) \in StatesAt(i)
<1>1. log[i] \in Seq(TenantEntries) /\ synced[i] \in Nat /\ synced[i] <= Len(log[i])
  BY DEF TenantInv
<1>2. DOMAIN log[i] = 1 .. Len(log[i]) /\ Len(log[i]) \in Nat
  BY <1>1, LenProperties
<1>3. HasRow(i) => synced[i] \in DOMAIN log[i]
  BY <1>1, <1>2 DEF HasRow
<1>4. HasRow(i) => Row(i) \in StatesAt(i)
  BY <1>3 DEF Row, TenantInv, CommandsFit
<1>. QED BY <1>1, <1>2, <1>3, <1>4

(* What a request has read stays true while the logs only grow.            *)
LEMMA TenantCallsStaySound ==
  ASSUME TenantInv, NEW r, SoundTenantCall(r), synced' \in [Items -> Nat], StoreGrows
  PROVE  SoundTenantCall(r)'
<1>1. r.item \in Items /\ r.version \in 0 .. synced[r.item]
  BY DEF SoundTenantCall
<1>2. /\ synced[r.item] \in Nat /\ synced'[r.item] \in Nat /\ synced[r.item] <= synced'[r.item]
      /\ synced[r.item] <= Len(log[r.item])
      /\ DOMAIN log[r.item] = 1 .. Len(log[r.item]) /\ Len(log[r.item]) \in Nat
  BY <1>1, TenantLogs DEF StoreGrows
<1>3. r.version # 0 => log'[r.item][r.version] = log[r.item][r.version]
  <2>1. r.version # 0 => r.version \in DOMAIN log[r.item]
    BY <1>1, <1>2
  <2>. QED BY <1>1, <2>1 DEF StoreGrows
<1>4. r.version \in 0 .. synced'[r.item]
  BY <1>1, <1>2
<1>. QED BY <1>3, <1>4 DEF SoundTenantCall

(* A publish that is accepted was made from the item's newest row: its     *)
(* command follows the one before it.                                      *)
LEMMA TenantPublishKeeps ==
  ASSUME TenantInv, NEW c \in Clients, Publish(c)
  PROVE  TenantInv' /\ StoreGrows
<1>1. PICK r, i, e :
        r = call[c] /\ i = r.item /\ e = [op |-> r.op, row |-> r.row]
  OBVIOUS
<1>2. r.step = "publish" /\ synced' = synced
  BY <1>1 DEF Publish
<1>3. SoundTenantCall(r)
  BY <1>1, <1>2 DEF TenantInv, Idle
<1>4. i \in Items /\ e \in TenantEntries /\ e.row = r.row /\ e.op = r.op /\ r.row \in StatesAt(i)
  BY <1>1, <1>3 DEF SoundTenantCall, TenantEntries
<1>5. /\ log' \in [Items -> Seq(TenantEntries)]
      /\ \A j \in Items : \A v \in DOMAIN log[j] : v \in DOMAIN log'[j] /\ log'[j][v] = log[j][v]
      /\ \A j \in Items : Len(log[j]) <= Len(log'[j])
      /\ \A j \in Items : \A v \in DOMAIN log'[j] :
           \/ v \in DOMAIN log[j]
           \/ j = i /\ v = Len(log[i]) + 1 /\ log'[j][v] = e /\ r.version = Len(log[i])
  <2>1. log \in [Items -> Seq(TenantEntries)]
    BY DEF TenantInv
  <2>. QED BY <1>1, <1>4, <2>1, PublishAppends
<1>6. synced' \in [Items -> Nat] /\ \A j \in Items : synced'[j] <= Len(log'[j])
  <2>1. ASSUME NEW j \in Items
        PROVE  synced[j] <= Len(log'[j])
    <3>1. synced[j] \in Nat /\ synced[j] <= Len(log[j]) /\ Len(log[j]) \in Nat /\ Len(log'[j]) \in Nat
      BY <1>5, TenantLogs, LenProperties
    <3>. QED BY <1>5, <3>1
  <2>. QED BY <1>2, <2>1 DEF TenantInv
<1>7. StoreGrows
  <2>1. \A j \in Items : synced[j] <= synced'[j]
    BY <1>2 DEF TenantInv
  <2>. QED BY <1>5, <2>1 DEF StoreGrows
<1>8. call' = [call EXCEPT ![c] = Idle]
  <2>1. r.todo = <<>>
    BY <1>3 DEF SoundTenantCall
  <2>. QED BY <1>1, <2>1 DEF Publish
<1>9. ASSUME NEW b \in Clients
      PROVE  call'[b] = Idle \/ SoundTenantCall(call[b])'
  <2>1. PICK q : q = call[b]
    OBVIOUS
  <2>2. q = Idle \/ SoundTenantCall(q)
    BY <2>1 DEF TenantInv
  <2>3. q = Idle \/ SoundTenantCall(q)'
    BY <1>6, <1>7, <2>2, TenantCallsStaySound
  <2>4. call'[b] = Idle \/ call'[b] = q
    BY <1>8, <2>1 DEF TenantInv
  <2>. QED BY <2>3, <2>4
<1>10. ASSUME NEW j \in Items, NEW v \in DOMAIN log'[j]
       PROVE  /\ log'[j][v].row \in StatesAt(j)
              /\ v > 1 => Follows(j, log'[j][v].op, log'[j][v].row, log'[j][v - 1].row)
  <2>1. DOMAIN log[j] = 1 .. Len(log[j]) /\ Len(log[j]) \in Nat
    BY TenantLogs
  <2>2. CASE v \in DOMAIN log[j]
    <3>1. log'[j][v] = log[j][v] /\ log[j][v].row \in StatesAt(j)
      BY <1>5, <2>2 DEF TenantInv, CommandsFit
    <3>2. v > 1 => log'[j][v - 1] = log[j][v - 1]
      BY <1>5, <2>1, <2>2
    <3>3. v > 1 => Follows(j, log[j][v].op, log[j][v].row, log[j][v - 1].row)
      BY <2>2 DEF TenantInv, CommandsFollow
    <3>. QED BY <3>1, <3>2, <3>3
  <2>3. CASE j = i /\ v = Len(log[i]) + 1 /\ log'[j][v] = e /\ r.version = Len(log[i])
    <3>1. v > 1 => v - 1 = r.version /\ r.version # 0 /\ v - 1 \in DOMAIN log[j]
      BY <2>1, <2>3
    <3>2. v > 1 => log'[j][v - 1] = log[i][r.version]
      BY <1>5, <2>3, <3>1
    <3>3. r.version # 0 => Follows(i, r.op, r.row, log[i][r.version].row)
      BY <1>1, <1>3 DEF SoundTenantCall
    <3>. QED BY <1>4, <2>3, <3>1, <3>2, <3>3
  <2>. QED BY <1>5, <2>2, <2>3
<1>11. CommandsFit' /\ CommandsFollow'
  BY <1>10 DEF CommandsFit, CommandsFollow, StatesAt, Follows
<1>12. DOMAIN call' = Clients
  BY <1>8 DEF TenantInv
<1>. QED BY <1>5, <1>6, <1>7, <1>9, <1>11, <1>12 DEF TenantInv

(* The data table takes the next command of an item.                       *)
LEMMA TenantSyncKeeps ==
  ASSUME TenantInv, NEW i \in Items, Sync(i)
  PROVE  TenantInv' /\ StoreGrows
<1>1. /\ synced \in [Items -> Nat] /\ \A j \in Items : synced[j] <= Len(log[j]) /\ Len(log[j]) \in Nat
      /\ synced' = [synced EXCEPT ![i] = @ + 1] /\ synced[i] < Len(log[i])
      /\ UNCHANGED <<log, call>>
  BY TenantLogs DEF TenantInv, Sync
<1>2. synced' \in [Items -> Nat] /\ \A j \in Items : synced[j] <= synced'[j] /\ synced'[j] <= Len(log[j])
  BY <1>1
<1>3. StoreGrows
  BY <1>1, <1>2 DEF StoreGrows
<1>4. ASSUME NEW b \in Clients
      PROVE  call'[b] = Idle \/ SoundTenantCall(call[b])'
  <2>1. PICK q : q = call[b]
    OBVIOUS
  <2>2. ASSUME SoundTenantCall(q)
        PROVE  SoundTenantCall(q)'
    BY <1>2, <1>3, <2>2, TenantCallsStaySound
  <2>. QED BY <1>1, <2>1, <2>2 DEF TenantInv
<1>. QED BY <1>1, <1>2, <1>3, <1>4 DEF TenantInv, CommandsFit, CommandsFollow

(* A request that begins from the row that it read.                        *)
LEMMA TenantCallKeeps ==
  ASSUME TenantInv, NEW c \in Clients, NEW i \in Items, NEW op \in TenantOps,
         NEW row \in StatesAt(i), HasRow(i) => Follows(i, op, row, Row(i)),
         Begin(c, Call(op, i, synced[i], row))
  PROVE  TenantInv' /\ StoreGrows
<1>1. PICK r : r = Call(op, i, synced[i], row)
  OBVIOUS
<1>2. /\ r.op = op /\ r.item = i /\ r.version = synced[i] /\ r.row = row /\ r.step = "publish"
      /\ r.todo = <<>>
  BY <1>1 DEF Call
<1>3. SoundTenantCall(r)
  BY <1>2, TenantLogs DEF SoundTenantCall, HasRow, Row
<1>4. call' = [call EXCEPT ![c] = r] /\ UNCHANGED <<log, synced>>
  BY <1>1 DEF Begin
<1>5. StoreGrows
  BY <1>4, TenantLogs DEF StoreGrows
<1>6. ASSUME NEW b \in Clients
      PROVE  call'[b] = Idle \/ SoundTenantCall(call[b])'
  <2>1. PICK q : q = call'[b]
    OBVIOUS
  <2>2. q = Idle \/ SoundTenantCall(q)
    BY <1>3, <1>4, <2>1 DEF TenantInv
  <2>3. q = Idle \/ SoundTenantCall(q)'
    BY <1>4, <2>2 DEF SoundTenantCall
  <2>. QED BY <2>1, <2>3
<1>. QED BY <1>4, <1>5, <1>6 DEF TenantInv, CommandsFit, CommandsFollow

(* A step that leaves the store alone.                                     *)
LEMMA TenantSameKeeps ==
  ASSUME TenantInv, UNCHANGED storeVars
  PROVE  TenantInv' /\ StoreGrows
<1>1. \A b \in Clients : call[b] = Idle \/ SoundTenantCall(call[b])'
  BY DEF TenantInv, SoundTenantCall, storeVars
<1>2. StoreGrows
  BY TenantLogs DEF StoreGrows, storeVars
<1>. QED BY <1>1, <1>2 DEF TenantInv, CommandsFit, CommandsFollow, storeVars

(* One element more.                                                       *)
LEMMA SetOfAppend ==
  ASSUME NEW E, NEW s \in Seq(E), NEW e \in E
  PROVE  ToSet(Append(s, e)) = ToSet(s) \cup {e}
<1>1. PICK t : t = Append(s, e)
  OBVIOUS
<1>2. t \in Seq(E) /\ Len(t) = Len(s) + 1 /\ t[Len(s) + 1] = e /\ \A k \in 1 .. Len(s) : t[k] = s[k]
  BY <1>1, AppendProperties
<1>3. DOMAIN s = 1 .. Len(s) /\ Len(s) \in Nat /\ DOMAIN t = 1 .. Len(s) + 1
  BY <1>2, LenProperties
<1>4. 1 .. Len(s) + 1 = (1 .. Len(s)) \cup {Len(s) + 1}
  BY <1>3
<1>. QED BY <1>1, <1>2, <1>3, <1>4 DEF ToSet

(* A sequence of one group is sorted.                                      *)
LEMMA OneGroup ==
  ASSUME NEW g \in Groups
  PROVE  <<g>> \in Seq(Groups) /\ ToSet(<<g>>) = {g} /\ Increasing(<<g>>)
<1>1. PICK t : t = <<g>>
  OBVIOUS
<1>2. t \in Seq(Groups) /\ DOMAIN t = {1} /\ t[1] = g
  BY <1>1
<1>3. ToSet(t) = {g} /\ Increasing(t)
  BY <1>2 DEF ToSet, Increasing
<1>. QED BY <1>1, <1>2, <1>3

(* The groups that a new tenant's role has: none, or one that was added.   *)
LEMMA FirstGroupTypes ==
  /\ NoGroups \in RoleGroups
  /\ \A g \in Groups : FirstGroup(g) \in RoleGroups
<1>1. NoGroups \in RoleGroups
  BY DEF NoGroups, RoleGroups
<1>2. ASSUME NEW g \in Groups
      PROVE  FirstGroup(g) \in RoleGroups
  <2>1. PICK t : t = <<g>>
    OBVIOUS
  <2>2. t \in Seq(Groups) /\ Increasing(t)
    BY <2>1, OneGroup
  <2>3. FirstGroup(g) = [mode |-> "auto", groups |-> t, settingGroups |-> t]
    BY <2>1 DEF FirstGroup
  <2>. QED BY <2>2, <2>3 DEF RoleGroups
<1>. QED BY <1>1, <1>2

(* One group more for a role: none of the others is lost.                  *)
LEMMA UpdateAttributeKeeps ==
  ASSUME NEW s \in RoleGroups, NEW g \in Groups
  PROVE  /\ UpdateAttribute(s, g) \in RoleGroups
         /\ ToSet(s.groups) \subseteq ToSet(UpdateAttribute(s, g).groups)
<1>1. /\ s \in [mode : {"none", "auto", "customized"}, groups : Seq(Groups), settingGroups : Seq(Groups)]
      /\ ToSet(s.settingGroups) = ToSet(s.groups)
      /\ s.mode = "none" => s.groups = <<>>
      /\ s.groups \in Seq(Groups) /\ s.settingGroups \in Seq(Groups)
  BY DEF RoleGroups
<1>2. CASE s.mode = "none"
  <2>1. UpdateAttribute(s, g) = FirstGroup(g)
    BY <1>2 DEF UpdateAttribute
  <2>2. ToSet(s.groups) = {}
    BY <1>1, <1>2 DEF ToSet
  <2>. QED BY <2>1, <2>2, FirstGroupTypes
<1>3. CASE s.mode # "none" /\ g \in ToSet(s.groups)
  BY <1>3 DEF UpdateAttribute
<1>4. CASE s.mode = "customized" /\ g \notin ToSet(s.groups)
  <2>1. PICK t, u : t = Append(s.groups, g) /\ u = Append(s.settingGroups, g)
    OBVIOUS
  <2>2. t \in Seq(Groups) /\ u \in Seq(Groups)
    BY <1>1, <2>1, AppendProperties
  <2>3. ToSet(t) = ToSet(s.groups) \cup {g} /\ ToSet(u) = ToSet(s.settingGroups) \cup {g}
    BY <1>1, <2>1, SetOfAppend
  <2>4. UpdateAttribute(s, g) = [s EXCEPT !.groups = t, !.settingGroups = u]
    BY <1>4, <2>1 DEF UpdateAttribute
  <2>5. PICK q : q = [s EXCEPT !.groups = t, !.settingGroups = u]
    OBVIOUS
  <2>6. /\ q \in [mode : {"none", "auto", "customized"}, groups : Seq(Groups), settingGroups : Seq(Groups)]
        /\ q.mode = s.mode /\ q.groups = t /\ q.settingGroups = u
    BY <1>1, <2>2, <2>3, <2>5
  <2>7. q \in RoleGroups /\ ToSet(s.groups) \subseteq ToSet(q.groups)
    BY <1>1, <1>4, <2>2, <2>3, <2>6 DEF RoleGroups
  <2>. QED BY <2>4, <2>5, <2>7
<1>5. CASE s.mode = "auto" /\ g \notin ToSet(s.groups)
  <2>1. PICK t, u : t = Append(s.groups, g) /\ u = SortGroups(t)
    OBVIOUS
  <2>2. t \in Seq(Groups) /\ ToSet(t) = ToSet(s.groups) \cup {g}
    BY <1>1, <2>1, AppendProperties, SetOfAppend
  <2>3. u \in Seq(Groups) /\ ToSet(u) = ToSet(t) /\ Increasing(u)
    BY <2>1, <2>2, Sorted, KeysAssumption
  <2>4. UpdateAttribute(s, g) = [s EXCEPT !.groups = u, !.settingGroups = u]
    BY <1>5, <2>1 DEF UpdateAttribute
  <2>5. PICK q : q = [s EXCEPT !.groups = u, !.settingGroups = u]
    OBVIOUS
  <2>6. /\ q \in [mode : {"none", "auto", "customized"}, groups : Seq(Groups), settingGroups : Seq(Groups)]
        /\ q.mode = s.mode /\ q.groups = u /\ q.settingGroups = u
    BY <1>1, <2>2, <2>3, <2>5
  <2>7. q \in RoleGroups /\ ToSet(s.groups) \subseteq ToSet(q.groups)
    BY <1>1, <1>5, <2>2, <2>3, <2>6 DEF RoleGroups
  <2>. QED BY <2>4, <2>5, <2>7
<1>. QED BY <1>1, <1>2, <1>3, <1>4, <1>5

(* No item is a tenant and a setting at once.                              *)
LEMMA TenantKinds ==
  /\ \A t \in TenantItems : t \in Items /\ t \notin Settings
  /\ \A t \in TenantItems : \E D \in {Written, Optional} : StatesAt(t) = TenantStates(D)
  /\ \A s \in Settings : s \in Items /\ s \notin TenantItems /\ StatesAt(s) = SettingStates
BY KeysAssumption DEF TenantItems, StatesAt, Tenants

(* A new tenant's row is typed.                                            *)
LEMMA TenantTypes ==
  ASSUME NEW D, NEW d \in D, NEW x \in Contents, NEW s \in RoleGroups
  PROVE  TenantState(d, x, s) \in TenantStates(D)
BY DEF TenantState, TenantStates

(* A creation finds an item that is deleted, if any.                       *)
LEMMA TenantCreateKeeps ==
  ASSUME TenantInv, NEW c \in Clients, NEW i \in Items, i # CommonTenant,
         NEW row \in StatesAt(i), Create(c, "create", i, row)
  PROVE  TenantInv' /\ StoreGrows
<1>1. HasRow(i) => Row(i).deleted # "no" /\ Row(i) \in StatesAt(i)
  BY TenantLogs DEF Create
<1>2. HasRow(i) => Row(i).deleted = "yes"
  BY <1>1 DEF StatesAt, TenantStates, SettingStates, Written
<1>3. HasRow(i) => Follows(i, "create", row, Row(i))
  BY <1>2 DEF Follows, Rightly
<1>. QED BY <1>3, TenantCallKeeps DEF Create, TenantOps

(* The common tenant's creation checks nothing, and nothing is promised of *)
(* what it replaces.                                                       *)
LEMMA CreateCommonKeeps ==
  ASSUME TenantInv, NEW c \in Clients, NEW x \in Contents, NEW s \in RoleGroups,
         CreateCommonTenant(c, x, s)
  PROVE  TenantInv' /\ StoreGrows
<1>1. CommonTenant \in Items /\ TenantState("unset", x, s) \in StatesAt(CommonTenant)
  BY TenantTypes, KeysAssumption DEF StatesAt, Optional, Tenants
<1>2. \A row, old : Follows(CommonTenant, "createCommon", row, old)
  BY DEF Follows, Rightly
<1>. QED BY <1>1, <1>2, TenantCallKeeps DEF CreateCommonTenant, Create, TenantOps

(* An update changes the name alone: the groups of every role stay.        *)
LEMMA UpdateTenantKeeps ==
  ASSUME TenantInv, NEW c \in Clients, NEW t \in TenantItems, NEW x \in Contents,
         UpdateTenant(c, t, x)
  PROVE  TenantInv' /\ StoreGrows
<1>1. PICK row : row = [Row(t) EXCEPT !.name = x]
  OBVIOUS
<1>2. HasRow(t) /\ Begin(c, Call("update", t, synced[t], row))
  BY <1>1 DEF UpdateTenant, Replace
<1>3. PICK D : StatesAt(t) = TenantStates(D)
  BY TenantKinds
<1>4. t \in Items /\ Row(t) \in TenantStates(D)
  BY <1>2, <1>3, TenantLogs, TenantKinds
<1>5. row \in TenantStates(D) /\ row.setting = Row(t).setting
  BY <1>1, <1>4 DEF TenantStates
<1>6. Follows(t, "update", row, Row(t))
  BY <1>5 DEF Follows, Rightly
<1>. QED BY <1>2, <1>3, <1>4, <1>5, <1>6, TenantCallKeeps DEF TenantOps

(* A deletion marks the row and leaves the rest of it.                     *)
LEMMA DeleteTenantKeeps ==
  ASSUME TenantInv, NEW c \in Clients, NEW t \in TenantItems, DeleteTenant(c, t)
  PROVE  TenantInv' /\ StoreGrows
<1>1. PICK row : row = [Row(t) EXCEPT !.deleted = "yes"]
  OBVIOUS
<1>2. HasRow(t) /\ Begin(c, Call("delete", t, synced[t], row))
  BY <1>1 DEF DeleteTenant, Replace
<1>3. PICK D \in {Written, Optional} : StatesAt(t) = TenantStates(D)
  BY TenantKinds
<1>4. t \in Items /\ Row(t) \in TenantStates(D)
  BY <1>2, <1>3, TenantLogs, TenantKinds
<1>5. row \in TenantStates(D) /\ row.setting = Row(t).setting
  BY <1>1, <1>3, <1>4 DEF TenantStates, Written, Optional
<1>6. Follows(t, "delete", row, Row(t))
  BY <1>1, <1>5 DEF Follows, Rightly
<1>. QED BY <1>2, <1>3, <1>4, <1>5, <1>6, TenantCallKeeps DEF TenantOps

(* A tenant whose role r gets other groups.                                *)
LEMMA OtherGroups ==
  ASSUME NEW D, NEW old \in TenantStates(D), NEW r \in Roles, NEW s \in RoleGroups
  PROVE  /\ [old EXCEPT !.setting[r] = s] \in TenantStates(D)
         /\ [old EXCEPT !.setting[r] = s].deleted = old.deleted
         /\ [old EXCEPT !.setting[r] = s].setting[r] = s
         /\ \A q \in Roles : q # r => [old EXCEPT !.setting[r] = s].setting[q] = old.setting[q]
<1>1. PICK row : row = [old EXCEPT !.setting[r] = s]
  OBVIOUS
<1>2. old \in [deleted : D, name : Contents, setting : [Roles -> RoleGroups]]
  BY DEF TenantStates
<1>3. /\ row \in [deleted : D, name : Contents, setting : [Roles -> RoleGroups]]
      /\ row.deleted = old.deleted /\ row.setting = [old.setting EXCEPT ![r] = s]
  BY <1>1, <1>2
<1>. QED BY <1>1, <1>2, <1>3 DEF TenantStates

(* A group is added to one role: the groups it had stay, and those of the  *)
(* other roles.                                                            *)
LEMMA AddTenantGroupKeeps ==
  ASSUME TenantInv, NEW c \in Clients, NEW t \in TenantItems, NEW r \in Roles, NEW g \in Groups,
         AddTenantGroup(c, t, r, g)
  PROVE  TenantInv' /\ StoreGrows
<1>1. PICK D : StatesAt(t) = TenantStates(D)
  BY TenantKinds
<1>2. HasRow(t)
  BY DEF AddTenantGroup
<1>3. t \in Items /\ Row(t) \in TenantStates(D) /\ Row(t).setting \in [Roles -> RoleGroups]
  <2>1. t \in Items /\ Row(t) \in TenantStates(D)
    BY <1>1, <1>2, TenantLogs, TenantKinds
  <2>. QED BY <2>1 DEF TenantStates
<1>4. PICK s : s = UpdateAttribute(Row(t).setting[r], g)
  OBVIOUS
<1>5. s \in RoleGroups /\ ToSet(Row(t).setting[r].groups) \subseteq ToSet(s.groups)
  <2>1. Row(t).setting[r] \in RoleGroups
    BY <1>3
  <2>. QED BY <1>4, <2>1, UpdateAttributeKeeps
<1>6. PICK row : row = [Row(t) EXCEPT !.setting[r] = s]
  OBVIOUS
<1>7. row \in TenantStates(D) /\ row.setting[r] = s
      /\ \A q \in Roles : q # r => row.setting[q] = Row(t).setting[q]
  BY <1>3, <1>5, <1>6, OtherGroups
<1>8. Follows(t, "addGroup", row, Row(t))
  BY <1>5, <1>7 DEF Follows, Rightly
<1>9. Begin(c, Call("addGroup", t, synced[t], row))
  BY <1>4, <1>6 DEF AddTenantGroup, Replace
<1>. QED BY <1>1, <1>3, <1>7, <1>8, <1>9, TenantCallKeeps DEF TenantOps

(* The order of the setting groups is customized for one role: its groups  *)
(* stay.                                                                   *)
LEMMA CustomizeKeeps ==
  ASSUME TenantInv, NEW c \in Clients, NEW t \in TenantItems, NEW r \in Roles, NEW g \in Groups,
         CustomizeSettingGroups(c, t, r, <<g>>)
  PROVE  TenantInv' /\ StoreGrows
<1>1. PICK D : StatesAt(t) = TenantStates(D)
  BY TenantKinds
<1>2. HasRow(t)
  BY DEF CustomizeSettingGroups
<1>3. t \in Items /\ Row(t) \in TenantStates(D) /\ Row(t).setting \in [Roles -> RoleGroups]
  <2>1. t \in Items /\ Row(t) \in TenantStates(D)
    BY <1>1, <1>2, TenantLogs, TenantKinds
  <2>. QED BY <2>1 DEF TenantStates
<1>4. PICK s : s = IF Row(t).setting[r].mode = "none" THEN Row(t).setting[r]
                   ELSE [mode |-> "customized", groups |-> <<g>>, settingGroups |-> <<g>>]
  OBVIOUS
<1>5. s \in RoleGroups
  <2>1. Row(t).setting[r] \in RoleGroups
    BY <1>3
  <2>2. PICK one : one = <<g>>
    OBVIOUS
  <2>3. one \in Seq(Groups)
    BY <2>2, OneGroup
  <2>4. [mode |-> "customized", groups |-> one, settingGroups |-> one] \in RoleGroups
    BY <2>3 DEF RoleGroups
  <2>. QED BY <1>4, <2>1, <2>2, <2>4
<1>6. PICK row : row = [Row(t) EXCEPT !.setting[r] = s]
  OBVIOUS
<1>7. row \in TenantStates(D)
  BY <1>3, <1>5, <1>6, OtherGroups
<1>8. Follows(t, "customize", row, Row(t))
  BY DEF Follows, Rightly
<1>9. Begin(c, Call("customize", t, synced[t], row))
  BY <1>4, <1>6 DEF CustomizeSettingGroups, Replace
<1>. QED BY <1>1, <1>3, <1>7, <1>8, <1>9, TenantCallKeeps DEF TenantOps

(* Every step of the tenant service keeps the invariant.                   *)
LEMMA TenantStepKeeps ==
  ASSUME TenantInv, TenantStep(Clients)
  PROVE  TenantInv' /\ StoreGrows
<1>1. FirstGroups \subseteq RoleGroups /\ NoGroups \in RoleGroups
  BY FirstGroupTypes DEF FirstGroups
<1>2. Tenants \cup {TenantGroup} = TenantItems /\ Tenants \subseteq TenantItems
  BY DEF TenantItems
<1>3. ASSUME NEW c \in Clients, NEW x \in Contents, NEW s \in FirstGroups, CreateTenant(c, x, s)
      PROVE  TenantInv' /\ StoreGrows
  <2>1. TheTenant \in Items /\ TheTenant # CommonTenant
        /\ TenantState("no", x, s) \in StatesAt(TheTenant)
    BY <1>1, TenantTypes, KeysAssumption DEF StatesAt, Written, TenantItems, Tenants
  <2>. QED BY <1>3, <2>1, TenantCreateKeeps DEF CreateTenant
<1>4. ASSUME NEW c \in Clients, NEW x \in Contents, CreateTenantGroup(c, x, NoGroups)
      PROVE  TenantInv' /\ StoreGrows
  <2>1. TenantGroup \in Items /\ TenantGroup # CommonTenant
        /\ TenantState("no", x, NoGroups) \in StatesAt(TenantGroup)
    BY <1>1, TenantTypes, KeysAssumption DEF StatesAt, Written, TenantItems
  <2>. QED BY <1>4, <2>1, TenantCreateKeeps DEF CreateTenantGroup
<1>5. ASSUME NEW c \in Clients, NEW x \in Contents, NEW s \in FirstGroups,
             CreateCommonTenant(c, x, s)
      PROVE  TenantInv' /\ StoreGrows
  BY <1>1, <1>5, CreateCommonKeeps
<1>6. CASE StoreNext
  BY <1>6, TenantPublishKeeps, TenantSyncKeeps DEF StoreNext
<1>7. ASSUME NEW c \in Clients, NEW x \in Contents, NEW t \in TenantItems, UpdateTenant(c, t, x)
      PROVE  TenantInv' /\ StoreGrows
  BY <1>7, UpdateTenantKeeps
<1>8. ASSUME NEW c \in Clients, NEW t \in TenantItems, DeleteTenant(c, t)
      PROVE  TenantInv' /\ StoreGrows
  BY <1>8, DeleteTenantKeeps
<1>9. ASSUME NEW c \in Clients, NEW t \in Tenants, NEW r \in Roles, NEW g \in Groups,
             AddTenantGroup(c, t, r, g) \/ CustomizeSettingGroups(c, t, r, <<g>>)
      PROVE  TenantInv' /\ StoreGrows
  BY <1>2, <1>9, AddTenantGroupKeeps, CustomizeKeeps
<1>. QED BY <1>2, <1>3, <1>4, <1>5, <1>6, <1>7, <1>8, <1>9 DEF TenantStep

(* Every step of the setting service keeps the invariant.                  *)
LEMMA SettingStepKeeps ==
  ASSUME TenantInv, SettingStep(Clients)
  PROVE  TenantInv' /\ StoreGrows
<1>1. /\ {UserKey, TenantKey, CommonKey} \subseteq Settings
      /\ \A g \in Groups : GroupKeys[g] \in Settings
  BY DEF Settings
<1>2. \A s \in Settings : s \in Items /\ s \notin TenantItems /\ s # CommonTenant
                          /\ StatesAt(s) = SettingStates
  BY TenantKinds DEF TenantItems, Tenants
<1>3. \A x \in Contents : SettingState("no", x) \in SettingStates
  BY DEF SettingState, SettingStates, Written
<1>4. ASSUME NEW c \in Clients, NEW x \in Contents, NEW s \in Settings,
             Create(c, "create", s, SettingState("no", x))
      PROVE  TenantInv' /\ StoreGrows
  BY <1>2, <1>3, <1>4, TenantCreateKeeps
<1>5. ASSUME NEW c \in Clients, NEW x \in Contents, UpsertTenantSetting(c, x)
      PROVE  TenantInv' /\ StoreGrows
  <2>1. \A row, old : Follows(TenantKey, "upsert", row, old)
    BY DEF Follows, Rightly
  <2>2. TenantKey \in Items /\ SettingState("no", x) \in StatesAt(TenantKey)
    BY <1>1, <1>2, <1>3
  <2>. QED BY <1>5, <2>1, <2>2, TenantCallKeeps DEF UpsertTenantSetting, TenantOps
<1>6. ASSUME NEW c \in Clients, NEW x \in Contents, NEW s \in Settings, UpdateSetting(c, s, x)
      PROVE  TenantInv' /\ StoreGrows
  <2>1. PICK row : row = [Row(s) EXCEPT !.value = x]
    OBVIOUS
  <2>2. HasRow(s) /\ Begin(c, Call("update", s, synced[s], row))
    BY <1>6, <2>1 DEF UpdateSetting, Replace
  <2>3. Row(s) \in SettingStates
    BY <1>2, <2>2, TenantLogs
  <2>4. row \in StatesAt(s)
    BY <1>2, <2>1, <2>3 DEF SettingStates
  <2>5. Follows(s, "update", row, Row(s))
    BY <1>2 DEF Follows, Rightly
  <2>. QED BY <1>2, <2>2, <2>4, <2>5, TenantCallKeeps DEF TenantOps
<1>7. ASSUME NEW c \in Clients, NEW s \in Settings, DeleteSetting(c, s)
      PROVE  TenantInv' /\ StoreGrows
  <2>1. PICK row : row = [Row(s) EXCEPT !.deleted = "yes"]
    OBVIOUS
  <2>2. HasRow(s) /\ Begin(c, Call("delete", s, synced[s], row))
    BY <1>7, <2>1 DEF DeleteSetting, Replace
  <2>3. Row(s) \in SettingStates
    BY <1>2, <2>2, TenantLogs
  <2>4. row \in StatesAt(s)
    BY <1>2, <2>1, <2>3 DEF SettingStates, Written
  <2>5. Follows(s, "delete", row, Row(s))
    BY <1>2, <2>1 DEF Follows, Rightly
  <2>. QED BY <1>2, <2>2, <2>4, <2>5, TenantCallKeeps DEF TenantOps
<1>. QED BY <1>1, <1>4, <1>5, <1>6, <1>7
     DEF SettingStep, CreateUserSetting, CreateTenantSetting, CreateCommonTenantSetting,
         CreateGroupSetting

(* The invariant says what the tenant service promises.                    *)
LEMMA TenantProperties ==
  ASSUME TenantInv
  PROVE  GroupsSurvive /\ AutoGroupsAgree /\ CreateNeverReplaces /\ DeletesOnlyMark
<1>1. Tenants \subseteq Items /\ Tenants \subseteq TenantItems
  BY KeysAssumption DEF TenantItems
<1>2. ASSUME NEW i \in Items, NEW v \in 2 .. Len(log[i])
      PROVE  Follows(i, log[i][v].op, log[i][v].row, log[i][v - 1].row)
  <2>1. v \in DOMAIN log[i] /\ v > 1
    BY TenantLogs
  <2>. QED BY <2>1 DEF TenantInv, CommandsFollow
<1>3. GroupsSurvive
  BY <1>1, <1>2 DEF GroupsSurvive, Follows
<1>4. CreateNeverReplaces /\ DeletesOnlyMark
  BY <1>2 DEF CreateNeverReplaces, DeletesOnlyMark, Follows, Rightly
<1>5. ASSUME NEW t \in Tenants, NEW v \in DOMAIN log[t], NEW r \in Roles
      PROVE  log[t][v].row.setting[r] \in RoleGroups
  <2>1. log[t][v].row \in StatesAt(t)
    BY <1>1 DEF TenantInv, CommandsFit
  <2>2. PICK D : StatesAt(t) = TenantStates(D)
    BY <1>1, TenantKinds
  <2>. QED BY <2>1, <2>2 DEF TenantStates
<1>6. AutoGroupsAgree
  BY <1>5 DEF AutoGroupsAgree, RoleGroups, Increasing
<1>. QED BY <1>3, <1>4, <1>6

(***************************************************************************)
(* The lookup.  Its answer is compared with the levels of its start.       *)
(***************************************************************************)
LookupTypes ==
  lookup \in [at : {"user", "groups", "level", "done"}, role : Roles, todo : Seq(Items),
              answer : Nat, since : [Items -> Nat], levels : Seq(Items), first : Nat,
              missed : BOOLEAN]

(* The level in force at the start, and what is left of the levels.        *)
NotPassed ==
  /\ lookup.first \in 1 .. Len(lookup.levels) + 1
  /\ lookup.first <= Len(lookup.levels) => lookup.since[lookup.levels[lookup.first]] # 0
  /\ lookup.at = "user" => Len(lookup.levels) >= 1 /\ lookup.levels[1] = UserKey
  /\ lookup.at = "groups" => lookup.first >= 2 /\ Len(lookup.levels) >= 1
  /\ lookup.at = "level" =>
       /\ lookup.answer < lookup.first
       /\ Len(lookup.todo) = Len(lookup.levels) - lookup.answer
       /\ \A k \in 1 .. Len(lookup.todo) : lookup.todo[k] = lookup.levels[lookup.answer + k]
  /\ lookup.at = "done" => lookup.answer <= lookup.first

LookupInv == lookup # NoLookup => LookupTypes /\ (lookup.missed \/ NotPassed)

(* The levels of a lookup begin with the user's own.                       *)
LEMMA LevelsOf ==
  ASSUME NEW groups \in Seq(Groups)
  PROVE  /\ Levels(groups) \in Seq(Items) /\ Len(Levels(groups)) \in Nat
         /\ Len(Levels(groups)) >= 1 /\ Levels(groups)[1] = UserKey
<1>1. PICK s1, s2, s3 : /\ s1 = <<UserKey>> /\ s2 = [k \in DOMAIN groups |-> GroupKeys[groups[k]]]
                        /\ s3 = <<TenantKey, CommonKey>>
  OBVIOUS
<1>2. {UserKey, TenantKey, CommonKey} \subseteq Items
  BY KeysAssumption DEF Settings
<1>3. s1 \in Seq(Items) /\ Len(s1) = 1 /\ s1[1] = UserKey /\ s3 \in Seq(Items)
  BY <1>1, <1>2
<1>4. s2 \in Seq(Items)
  <2>1. Len(groups) \in Nat /\ DOMAIN groups = 1 .. Len(groups)
        /\ \A k \in 1 .. Len(groups) : groups[k] \in Groups
    BY LenProperties
  <2>2. s2 \in [1 .. Len(groups) -> Items]
    BY <1>1, <2>1, KeysAssumption
  <2>. QED BY <2>1, <2>2, SeqDef
<1>5. s1 \o s2 \in Seq(Items) /\ Len(s1 \o s2) = 1 + Len(s2) /\ Len(s2) \in Nat
      /\ (s1 \o s2)[1] = UserKey
  <2>1. Len(s2) \in Nat
    BY <1>4, LenProperties
  <2>2. 1 \in 1 .. Len(s1) + Len(s2)
    BY <1>3, <2>1
  <2>3. /\ s1 \o s2 \in Seq(Items) /\ Len(s1 \o s2) = Len(s1) + Len(s2)
        /\ \A k \in 1 .. Len(s1) + Len(s2) :
             (s1 \o s2)[k] = IF k <= Len(s1) THEN s1[k] ELSE s2[k - Len(s1)]
    BY <1>3, <1>4, ConcatProperties
  <2>. QED BY <1>3, <2>1, <2>2, <2>3
<1>6. PICK t : t = s1 \o s2
  OBVIOUS
<1>7. Len(s3) \in Nat
  BY <1>3, LenProperties
<1>8. t \o s3 \in Seq(Items) /\ Len(t \o s3) = Len(t) + Len(s3) /\ (t \o s3)[1] = UserKey
  <2>1. 1 \in 1 .. Len(t) + Len(s3) /\ 1 <= Len(t)
    BY <1>5, <1>6, <1>7
  <2>. QED BY <1>3, <1>5, <1>6, <2>1, ConcatProperties
<1>9. Levels(groups) = t \o s3
  BY <1>1, <1>6 DEF Levels, TenantLevels
<1>. QED BY <1>5, <1>6, <1>7, <1>8, <1>9

(* The first level that had a setting had one.                             *)
LEMMA FirstFoundIsFound ==
  ASSUME NEW levels \in Seq(Items), NEW since
  PROVE  /\ FirstFound(levels, since) \in 1 .. Len(levels) + 1
         /\ FirstFound(levels, since) <= Len(levels) =>
              since[levels[FirstFound(levels, since)]] # 0
<1>1. DOMAIN levels = 1 .. Len(levels) /\ Len(levels) \in Nat
  BY LenProperties
<1>2. PICK hits : hits = {k \in DOMAIN levels : since[levels[k]] # 0}
  OBVIOUS
<1>3. FirstFound(levels, since) = IF hits = {} THEN Len(levels) + 1 ELSE Min(hits)
  BY <1>2 DEF FirstFound
<1>4. hits \in SUBSET Nat
  BY <1>1, <1>2
<1>5. hits # {} => Min(hits) \in hits
  BY <1>4, LeastOf
<1>. QED BY <1>1, <1>2, <1>3, <1>5

(* The levels that any version of the tenant names.                        *)
LEMMA LevelsOfVersion ==
  ASSUME TenantInv, NEW v \in AnyVersion(TheTenant), NEW r \in Roles
  PROVE  LET levels == Levels(SettingGroups(r, v)) IN
         /\ levels \in Seq(Items) /\ Len(levels) \in Nat /\ Len(levels) >= 1
         /\ levels[1] = UserKey
<1>1. TheTenant \in Items /\ TheTenant \in TenantItems
  BY KeysAssumption DEF TenantItems, Tenants
<1>2. CASE v = 0
  <2>1. SettingGroups(r, v) \in Seq(Groups)
    BY <1>2 DEF SettingGroups
  <2>. QED BY <2>1, LevelsOf
<1>3. CASE v # 0
  <2>1. v \in DOMAIN log[TheTenant]
    BY <1>1, <1>3, TenantLogs DEF AnyVersion
  <2>2. log[TheTenant][v].row \in StatesAt(TheTenant)
    BY <1>1, <2>1 DEF TenantInv, CommandsFit
  <2>3. PICK D : StatesAt(TheTenant) = TenantStates(D)
    BY <1>1, TenantKinds
  <2>4. log[TheTenant][v].row.setting[r] \in RoleGroups
    BY <2>2, <2>3 DEF TenantStates
  <2>5. SettingGroups(r, v) \in Seq(Groups)
    BY <1>3, <2>4 DEF SettingGroups, RoleGroups
  <2>. QED BY <2>5, LevelsOf
<1>. QED BY <1>2, <1>3

LEMMA ReadIsVersion ==
  ASSUME TenantInv, NEW i \in Items, NEW v \in AnyVersion(i)
  PROVE  v \in Nat
BY TenantLogs DEF AnyVersion

(* A lookup starts: no level is behind it.                                 *)
LEMMA StartKeeps ==
  ASSUME TenantInv, NEW r \in Roles, StartLookup(r)
  PROVE  LookupInv'
<1>1. PICK levels : levels = Levels(SettingGroups(r, synced[TheTenant]))
  OBVIOUS
<1>2. PICK first : first = FirstFound(levels, synced)
  OBVIOUS
<1>3. synced \in [Items -> Nat] /\ synced[TheTenant] \in AnyVersion(TheTenant)
  BY TenantLogs, KeysAssumption DEF Tenants, TenantInv, AnyVersion
<1>4. levels \in Seq(Items) /\ Len(levels) \in Nat /\ Len(levels) >= 1 /\ levels[1] = UserKey
  BY <1>1, <1>3, LevelsOfVersion
<1>5. first \in 1 .. Len(levels) + 1 /\ (first <= Len(levels) => synced[levels[first]] # 0)
  BY <1>2, <1>4, FirstFoundIsFound
<1>6. lookup' = [at |-> "user", role |-> r, todo |-> <<>>, answer |-> 0, since |-> synced,
                 levels |-> levels, first |-> first, missed |-> FALSE]
  BY <1>1, <1>2 DEF StartLookup
<1>7. /\ lookup'.at = "user" /\ lookup'.since = synced /\ lookup'.levels = levels
      /\ lookup'.first = first
  BY <1>6
<1>8. LookupTypes'
  BY <1>3, <1>4, <1>5, <1>6 DEF LookupTypes
<1>9. NotPassed'
  BY <1>4, <1>5, <1>7 DEF NotPassed
<1>. QED BY <1>8, <1>9 DEF LookupInv

(* A level that is passed without being missed was not in force.           *)
LEMMA NotInForce ==
  ASSUME TenantInv, LookupTypes, NEW i \in Items, NEW v \in AnyVersion(i),
         ~Found(i, v), ~Older(i, v)
  PROVE  lookup.since[i] = 0
<1>1. lookup.since[i] \in Nat
  BY DEF LookupTypes
<1>2. v = 0 /\ ~(0 < lookup.since[i])
  BY DEF Found, Older
<1>. QED BY <1>1, <1>2

(* The lookup asks for the user's own setting.                             *)
LEMMA LookupUserKeeps ==
  ASSUME TenantInv, LookupInv, LookupUser
  PROVE  LookupInv'
<1>1. lookup.at = "user" /\ LookupTypes /\ (lookup.missed \/ NotPassed) /\ UserKey \in Items
  BY KeysAssumption DEF LookupUser, LookupInv, NoLookup, Settings
<1>2. PICK v \in AnyVersion(UserKey) :
        lookup' = IF Found(UserKey, v) THEN [lookup EXCEPT !.at = "done", !.answer = 1]
                  ELSE [lookup EXCEPT !.at = "groups", !.missed = @ \/ Older(UserKey, v)]
  BY DEF LookupUser
<1>3. PICK old \in BOOLEAN : old <=> (lookup.missed \/ Older(UserKey, v))
  OBVIOUS
<1>4. CASE Found(UserKey, v)
  <2>1. lookup' = [lookup EXCEPT !.at = "done", !.answer = 1]
    BY <1>2, <1>4
  <2>2. /\ LookupTypes' /\ lookup'.at = "done" /\ lookup'.answer = 1
        /\ lookup'.levels = lookup.levels /\ lookup'.since = lookup.since
        /\ lookup'.first = lookup.first /\ lookup'.missed = lookup.missed
    BY <1>1, <2>1 DEF LookupTypes
  <2>3. ASSUME NotPassed
        PROVE  1 <= lookup.first
    BY <1>1, <2>3 DEF NotPassed, LookupTypes
  <2>4. NotPassed => NotPassed'
    BY <2>2, <2>3 DEF NotPassed
  <2>. QED BY <1>1, <2>2, <2>4 DEF LookupInv
<1>5. CASE ~Found(UserKey, v)
  <2>1. lookup' = [lookup EXCEPT !.at = "groups", !.missed = old]
    <3>1. (lookup.missed \/ Older(UserKey, v)) \in BOOLEAN
      OBVIOUS
    <3>. QED BY <1>2, <1>3, <1>5, <3>1
  <2>2. /\ LookupTypes' /\ lookup'.at = "groups" /\ lookup'.missed = old
        /\ lookup'.levels = lookup.levels /\ lookup'.since = lookup.since
        /\ lookup'.first = lookup.first
    BY <1>1, <2>1 DEF LookupTypes
  <2>3. ASSUME ~old
        PROVE  NotPassed'
    <3>1. lookup.since[UserKey] = 0
      BY <1>1, <1>3, <1>5, <2>3, NotInForce
    <3>2. /\ lookup.first \in 1 .. Len(lookup.levels) + 1 /\ Len(lookup.levels) \in Nat
          /\ lookup.first <= Len(lookup.levels) => lookup.since[lookup.levels[lookup.first]] # 0
          /\ Len(lookup.levels) >= 1 /\ lookup.levels[1] = UserKey
      BY <1>1, <1>3, <2>3, LenProperties DEF NotPassed, LookupTypes
    <3>3. lookup.first >= 2
      BY <3>1, <3>2
    <3>. QED BY <2>2, <3>2, <3>3 DEF NotPassed
  <2>. QED BY <2>2, <2>3 DEF LookupInv
<1>. QED BY <1>4, <1>5

(* The levels of a tenant's groups come next, or those of nobody.          *)
LEMMA LevelsNext ==
  ASSUME LookupTypes, NEW levels \in Seq(Items), NEW todo \in Seq(Items),
         NEW answer \in Nat, NEW first \in Nat, NEW missed \in BOOLEAN,
         lookup' = [lookup EXCEPT !.at = "level", !.answer = answer, !.todo = todo,
                      !.levels = levels, !.first = first, !.missed = missed],
         ~missed =>
           /\ first \in 1 .. Len(levels) + 1 /\ answer < first
           /\ first <= Len(levels) => lookup.since[levels[first]] # 0
           /\ Len(todo) = Len(levels) - answer
           /\ \A k \in 1 .. Len(todo) : todo[k] = levels[answer + k]
  PROVE  LookupInv'
<1>1. /\ LookupTypes' /\ lookup'.at = "level" /\ lookup'.answer = answer
      /\ lookup'.todo = todo /\ lookup'.levels = levels /\ lookup'.since = lookup.since
      /\ lookup'.first = first /\ lookup'.missed = missed
  BY DEF LookupTypes
<1>2. ~missed => NotPassed'
  BY <1>1 DEF NotPassed
<1>. QED BY <1>1, <1>2 DEF LookupInv

(* The lookup reads the tenant's groups, perhaps other ones.               *)
LEMMA LookupGroupsKeeps ==
  ASSUME TenantInv, LookupInv, LookupGroups
  PROVE  LookupInv'
<1>1. lookup.at = "groups" /\ LookupTypes /\ (lookup.missed \/ NotPassed)
  BY DEF LookupGroups, LookupInv, NoLookup
<1>2. PICK v \in AnyVersion(TheTenant) :
        LET levels == Levels(SettingGroups(lookup.role, v)) IN
        lookup' = [lookup EXCEPT !.at = "level", !.answer = 1, !.todo = Tail(levels),
                                 !.missed = @ \/ levels # lookup.levels]
  BY DEF LookupGroups
<1>3. PICK levels : levels = Levels(SettingGroups(lookup.role, v))
  OBVIOUS
<1>4. lookup.role \in Roles /\ lookup.levels \in Seq(Items) /\ lookup.first \in Nat
  BY <1>1 DEF LookupTypes
<1>5. levels \in Seq(Items) /\ Len(levels) \in Nat /\ Len(levels) >= 1
  BY <1>3, <1>4, LevelsOfVersion
<1>6. PICK todo : todo = Tail(levels)
  OBVIOUS
<1>7. /\ todo \in Seq(Items) /\ Len(todo) = Len(levels) - 1
      /\ \A k \in 1 .. Len(todo) : todo[k] = levels[k + 1]
  BY <1>5, <1>6, HeadTailProperties, EmptySeq
<1>8. PICK missed \in BOOLEAN : missed <=> (lookup.missed \/ levels # lookup.levels)
  OBVIOUS
<1>9. lookup' = [lookup EXCEPT !.at = "level", !.answer = 1, !.todo = todo,
                   !.levels = lookup.levels, !.first = lookup.first, !.missed = missed]
  <2>1. (lookup.missed \/ levels # lookup.levels) = missed
    BY <1>8
  <2>2. lookup' = [lookup EXCEPT !.at = "level", !.answer = 1, !.todo = todo,
                                 !.missed = missed]
    BY <1>2, <1>3, <1>6, <2>1
  <2>. QED BY <1>1, <2>2 DEF LookupTypes
<1>10. ASSUME ~missed
       PROVE  /\ lookup.first \in 1 .. Len(lookup.levels) + 1 /\ 1 < lookup.first
              /\ lookup.first <= Len(lookup.levels) =>
                   lookup.since[lookup.levels[lookup.first]] # 0
              /\ Len(todo) = Len(lookup.levels) - 1
              /\ \A k \in 1 .. Len(todo) : todo[k] = lookup.levels[1 + k]
  <2>1. levels = lookup.levels /\ NotPassed
    BY <1>1, <1>8, <1>10
  <2>2. \A k \in 1 .. Len(todo) : 1 + k = k + 1
    OBVIOUS
  <2>3. lookup.first >= 2
    BY <1>1, <2>1 DEF NotPassed
  <2>4. 1 < lookup.first
    BY <1>4, <2>3
  <2>. QED BY <1>7, <2>1, <2>2, <2>4 DEF NotPassed
<1>. QED BY <1>1, <1>4, <1>7, <1>9, <1>10, LevelsNext

(* An error leaves the levels that are no group's, from the first one on.  *)
LEMMA LookupErrorKeeps ==
  ASSUME TenantInv, LookupInv, LookupSwallowsError
  PROVE  LookupInv'
<1>1. LookupTypes
  BY DEF LookupSwallowsError, AsksGroup, LookupInv, NoLookup
<1>2. PICK first : first = FirstFound(TenantLevels, lookup.since)
  OBVIOUS
<1>3. TenantLevels \in Seq(Items) /\ Len(TenantLevels) = 2
  BY KeysAssumption DEF TenantLevels, Settings
<1>4. /\ first \in 1 .. Len(TenantLevels) + 1
      /\ first <= Len(TenantLevels) => lookup.since[TenantLevels[first]] # 0
  BY <1>2, <1>3, FirstFoundIsFound
<1>5. lookup' = [lookup EXCEPT !.at = "level", !.answer = 0, !.todo = TenantLevels,
                   !.levels = TenantLevels, !.first = first, !.missed = FALSE]
  BY <1>2 DEF LookupSwallowsError
<1>6. first \in Nat /\ 0 < first
  BY <1>3, <1>4
<1>7. Len(TenantLevels) = Len(TenantLevels) - 0
  BY <1>3
<1>8. \A k \in 1 .. Len(TenantLevels) : TenantLevels[k] = TenantLevels[0 + k]
  BY <1>3
<1>. QED BY <1>1, <1>3, <1>4, <1>5, <1>6, <1>7, <1>8, LevelsNext

(* The lookup asks for the next level's setting.                           *)
LEMMA LookupLevelKeeps ==
  ASSUME TenantInv, LookupInv, LookupLevel
  PROVE  LookupInv'
<1>1. /\ lookup.at = "level" /\ lookup.todo # <<>> /\ LookupTypes
      /\ lookup.missed \/ NotPassed
  BY DEF LookupLevel, LookupInv, NoLookup
<1>2. PICK s : s = Head(lookup.todo)
  OBVIOUS
<1>3. PICK v \in AnyVersion(s) :
        lookup' = IF Found(s, v) THEN [lookup EXCEPT !.at = "done", !.answer = @ + 1]
                  ELSE [lookup EXCEPT !.todo = Tail(@), !.answer = @ + 1,
                                      !.missed = @ \/ Older(s, v)]
  BY <1>2 DEF LookupLevel
<1>4. /\ lookup.todo \in Seq(Items) /\ lookup.answer \in Nat /\ lookup.first \in Nat
      /\ lookup.answer + 1 \in Nat /\ lookup.levels \in Seq(Items)
      /\ Len(lookup.levels) \in Nat /\ lookup.missed \in BOOLEAN
  BY <1>1, LenProperties DEF LookupTypes
<1>5. ASSUME NotPassed
      PROVE  /\ lookup.first \in 1 .. Len(lookup.levels) + 1
             /\ lookup.first <= Len(lookup.levels) =>
                  lookup.since[lookup.levels[lookup.first]] # 0
             /\ lookup.answer < lookup.first
             /\ Len(lookup.todo) = Len(lookup.levels) - lookup.answer
             /\ \A k \in 1 .. Len(lookup.todo) :
                  lookup.todo[k] = lookup.levels[lookup.answer + k]
  BY <1>1, <1>5 DEF NotPassed
<1>6. CASE Found(s, v)
  <2>1. lookup' = [lookup EXCEPT !.at = "done", !.answer = lookup.answer + 1]
    BY <1>3, <1>6
  <2>2. /\ LookupTypes' /\ lookup'.at = "done" /\ lookup'.answer = lookup.answer + 1
        /\ lookup'.levels = lookup.levels /\ lookup'.since = lookup.since
        /\ lookup'.first = lookup.first /\ lookup'.missed = lookup.missed
    BY <1>1, <1>4, <2>1 DEF LookupTypes
  <2>3. NotPassed => lookup.answer + 1 <= lookup.first
    BY <1>4, <1>5
  <2>4. NotPassed => NotPassed'
    BY <1>5, <2>2, <2>3 DEF NotPassed
  <2>. QED BY <1>1, <2>2, <2>4 DEF LookupInv
<1>7. CASE ~Found(s, v)
  <2>1. PICK rest : rest = Tail(lookup.todo)
    OBVIOUS
  <2>2. /\ rest \in Seq(Items) /\ Len(rest) = Len(lookup.todo) - 1
        /\ \A k \in 1 .. Len(rest) : rest[k] = lookup.todo[k + 1]
        /\ Len(lookup.todo) \in Nat \ {0} /\ s = lookup.todo[1] /\ s \in Items
    BY <1>1, <1>2, <1>4, <2>1, HeadTailProperties, EmptySeq
  <2>3. PICK missed \in BOOLEAN : missed <=> (lookup.missed \/ Older(s, v))
    OBVIOUS
  <2>4. lookup' = [lookup EXCEPT !.at = "level", !.answer = lookup.answer + 1, !.todo = rest,
                     !.levels = lookup.levels, !.first = lookup.first, !.missed = missed]
    <3>1. (lookup.missed \/ Older(s, v)) = missed
      BY <2>3
    <3>2. lookup' = [lookup EXCEPT !.todo = rest, !.answer = lookup.answer + 1,
                                   !.missed = missed]
      BY <1>3, <1>7, <2>1, <3>1
    <3>. QED BY <1>1, <3>2 DEF LookupTypes
  <2>5. ASSUME ~missed
        PROVE  NotPassed /\ lookup.since[s] = 0
    BY <1>1, <1>7, <2>2, <2>3, <2>5, NotInForce
  <2>6. ASSUME ~missed
        PROVE  lookup.answer + 1 < lookup.first
    <3>1. 1 \in 1 .. Len(lookup.todo)
      BY <2>2
    <3>2. s = lookup.levels[lookup.answer + 1]
      BY <1>5, <2>2, <2>5, <2>6, <3>1
    <3>3. lookup.answer + 1 <= Len(lookup.levels)
      BY <1>4, <1>5, <2>2, <2>5, <2>6
    <3>4. lookup.first # lookup.answer + 1
      <4>1. lookup.first <= Len(lookup.levels) => lookup.since[lookup.levels[lookup.first]] # 0
        BY <1>5, <2>5, <2>6
      <4>. QED BY <2>5, <2>6, <3>2, <3>3, <4>1
    <3>5. lookup.answer < lookup.first
      BY <1>5, <2>5, <2>6
    <3>. QED BY <1>4, <3>4, <3>5
  <2>7. ASSUME ~missed
        PROVE  /\ Len(rest) = Len(lookup.levels) - (lookup.answer + 1)
               /\ \A k \in 1 .. Len(rest) : rest[k] = lookup.levels[(lookup.answer + 1) + k]
    <3>1. Len(rest) = Len(lookup.levels) - (lookup.answer + 1)
      <4>1. PICK m, n, a : m = Len(lookup.todo) /\ n = Len(lookup.levels) /\ a = lookup.answer
        OBVIOUS
      <4>2. m = n - a /\ Len(rest) = m - 1
        BY <1>5, <2>2, <2>5, <2>7, <4>1
      <4>3. m \in Nat /\ n \in Nat /\ a \in Nat
        BY <1>4, <2>2, <4>1
      <4>4. m - 1 = n - (a + 1)
        BY <4>2, <4>3
      <4>. QED BY <4>1, <4>2, <4>4
    <3>2. ASSUME NEW k \in 1 .. Len(rest)
          PROVE  rest[k] = lookup.levels[(lookup.answer + 1) + k]
      <4>1. PICK m, a : m = Len(lookup.todo) /\ a = lookup.answer
        OBVIOUS
      <4>2. m \in Nat /\ a \in Nat /\ k \in 1 .. m - 1
        BY <1>4, <2>2, <4>1
      <4>3. k + 1 \in 1 .. m /\ a + (k + 1) = (a + 1) + k
        BY <4>2
      <4>4. lookup.todo[k + 1] = lookup.levels[lookup.answer + (k + 1)]
        BY <1>5, <2>5, <2>7, <4>1, <4>3
      <4>. QED BY <2>2, <4>1, <4>3, <4>4
    <3>. QED BY <3>1, <3>2
  <2>8. ~missed =>
          /\ lookup.first \in 1 .. Len(lookup.levels) + 1
          /\ lookup.first <= Len(lookup.levels) =>
               lookup.since[lookup.levels[lookup.first]] # 0
    BY <1>5, <2>5
  <2>. QED BY <1>1, <1>4, <2>2, <2>3, <2>4, <2>6, <2>7, <2>8, LevelsNext
<1>. QED BY <1>6, <1>7

(* No level had the setting.                                               *)
LEMMA LookupNothingKeeps ==
  ASSUME LookupInv, LookupNothing
  PROVE  LookupInv'
<1>1. lookup.at = "level" /\ LookupTypes /\ (lookup.missed \/ NotPassed)
  BY DEF LookupNothing, LookupInv, NoLookup
<1>2. lookup' = [lookup EXCEPT !.at = "done", !.answer = lookup.answer + 1]
  BY DEF LookupNothing
<1>3. lookup.answer \in Nat /\ lookup.first \in Nat /\ lookup.answer + 1 \in Nat
  BY <1>1 DEF LookupTypes
<1>4. /\ LookupTypes' /\ lookup'.at = "done" /\ lookup'.answer = lookup.answer + 1
      /\ lookup'.levels = lookup.levels /\ lookup'.since = lookup.since
      /\ lookup'.first = lookup.first /\ lookup'.missed = lookup.missed
  BY <1>1, <1>2, <1>3 DEF LookupTypes
<1>5. ASSUME NotPassed
      PROVE  lookup.answer + 1 <= lookup.first
  <2>1. lookup.answer < lookup.first
    BY <1>1, <1>5 DEF NotPassed
  <2>. QED BY <1>3, <2>1
<1>6. NotPassed => NotPassed'
  BY <1>4, <1>5 DEF NotPassed
<1>. QED BY <1>1, <1>4, <1>6 DEF LookupInv


(* Every step of the tenants, the settings and the lookup keeps both       *)
(* invariants.                                                             *)
LEMMA TenantStepInv ==
  ASSUME TenantInv, LookupInv, [LookupNext(Clients)]_tenantVars
  PROVE  TenantInv' /\ LookupInv'
<1>1. CASE (TenantStep(Clients) \/ SettingStep(Clients)) /\ UNCHANGED lookup
  <2>1. TenantInv' /\ StoreGrows
    BY <1>1, TenantStepKeeps, SettingStepKeeps
  <2>. QED BY <1>1, <2>1 DEF LookupInv, LookupTypes, NotPassed
<1>2. CASE UNCHANGED tenantVars
  <2>1. TenantInv' /\ StoreGrows
    BY <1>2, TenantSameKeeps DEF tenantVars, storeVars
  <2>. QED BY <1>2, <2>1 DEF tenantVars, LookupInv, LookupTypes, NotPassed
<1>3. CASE Lookup
  <2>1. UNCHANGED storeVars
    BY <1>3 DEF Lookup, StartLookup, LookupUser, LookupGroups, LookupLevel, LookupNothing,
       LookupSwallowsError, LookupThrows, EndLookup
  <2>2. LookupInv'
    <3>1. EndLookup \/ LookupThrows => LookupInv'
      BY DEF EndLookup, LookupThrows, LookupInv
    <3>. QED BY <1>3, <3>1, StartKeeps, LookupUserKeeps, LookupGroupsKeeps, LookupLevelKeeps,
         LookupNothingKeeps, LookupErrorKeeps DEF Lookup
  <2>. QED BY <2>1, <2>2, TenantSameKeeps
<1>. QED BY <1>1, <1>2, <1>3 DEF LookupNext

(* A level with a setting is not passed, so a stale answer has no place.   *)
LEMMA LookupProperty ==
  ASSUME TenantInv, LookupInv
  PROVE  LookupIsNotStale
BY DEF LookupInv, NotPassed, LookupIsNotStale, NoLookup

(* Every request builds on the row that it read, and every lookup sees the *)
(* levels of its tenant in their order: the inductive invariant of tenants *)
(* and settings.                                                           *)
THEOREM TenantInvariant == TenantSpec => [](TenantInv /\ LookupInv)
<1>1. TenantInit => TenantInv /\ LookupInv
  BY TenantInvInit DEF TenantInit, LookupInv
<1>2. TenantInv /\ LookupInv /\ [LookupNext(Clients)]_tenantVars => (TenantInv /\ LookupInv)'
  BY TenantStepInv
<1>. QED BY <1>1, <1>2, PTL DEF TenantSpec

(* Concurrent additions, renamings and deletions lose no group of a role,  *)
(* for any number of tenants' requests, roles and groups.                  *)
THEOREM GroupsAreKept == TenantSpec => []GroupsSurvive
BY TenantInvariant, TenantProperties, PTL

(* The groups that settings come from are the role's groups, the deepest   *)
(* one first until somebody customises them.                               *)
THEOREM GroupsAreSorted == TenantSpec => []AutoGroupsAgree
BY TenantInvariant, TenantProperties, PTL

(* Tenants and settings are created once: a creation never replaces one    *)
(* that is not deleted, and a deletion only marks what it deletes.         *)
THEOREM TenantsAreNotReplaced == TenantSpec => [](CreateNeverReplaces /\ DeletesOnlyMark)
BY TenantInvariant, TenantProperties, PTL

(* A lookup's answer is never more general than what was there when it     *)
(* began, for any number of levels, unless a read that found nothing was   *)
(* older or the tenant's groups are other ones; after an error of a group  *)
(* this holds for the tenant's own and the common setting.                 *)
THEOREM LookupsAreNotStale == TenantSpec => []LookupIsNotStale
BY TenantInvariant, LookupProperty, PTL
=============================================================================
