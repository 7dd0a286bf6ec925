-------------------------- MODULE DirectoryProofs --------------------------
(***************************************************************************)
(* The tree of the directory, proved for every number of items and of      *)
(* clients, if updates keep the ancestors that they read: an item never    *)
(* changes its place, and nobody replaces an item unless a state of it     *)
(* allows that: the replaced one, or an older one that the check read.     *)
(***************************************************************************)
EXTENDS Directory, TLAPS

NodeRows ==
  [deleted : {"unset", "yes", "no"}, parent : {NoParent} \cup Nodes, ancestors : Seq(Nodes),
   permission : Permissions, inheritance : BOOLEAN, name : Names]
Ops == {"createNode", "copy", "move", "update", "updatePermission", "rename", "delete",
        "restore"}
Entries == [op : Ops, row : NodeRows]

StoreTypes ==
  /\ DOMAIN call = Clients
  /\ log \in [Items -> Seq(Entries)]
  /\ synced \in [Items -> Nat]
  /\ \A i \in Items : synced[i] <= Len(log[i])

(* The items are numbered without a gap.                                   *)
NodesInOrder == \E k \in 0 .. MaxNodes : \A n \in Nodes : log[n] = <<>> <=> n > k

(* A state of item n says the same place as the first one.                 *)
SamePlace(n, row) ==
  row.parent = log[n][1].row.parent /\ row.ancestors = log[n][1].row.ancestors

(* A place for item n among the items that are older.                      *)
PlaceOf(n, row) ==
  \/ row.parent = NoParent /\ row.ancestors = <<>>
  \/ /\ row.parent \in Nodes /\ row.parent < n /\ log[row.parent] # <<>>
     /\ row.ancestors = Append(log[row.parent][1].row.ancestors, row.parent)

PlacesAreKept ==
  \A n \in Nodes : \A v \in DOMAIN log[n] :
    SamePlace(n, log[n][v].row) /\ PlaceOf(n, log[n][v].row)

(* What a call knows about its item: which state allowed the walk to go on.*)
CallFor(c, r) ==
  r.step # "idle" =>
    /\ r.op \in Ops /\ r.row \in NodeRows /\ r.todo = <<>>
    /\ r.item # 0 => "seen" \in DOMAIN r
    /\ r.item = 0 => r.step \in {"walk", "place"}
    /\ r.item # 0 =>
         /\ r.item \in Nodes /\ r.step \in {"walk", "publish"}
         /\ r.version \in 1 .. synced[r.item]
         /\ SamePlace(r.item, r.row)
         /\ \/ r.step = "walk" /\ r.at = r.item
            \/ /\ r.seen \in 1 .. synced[r.item]
               /\ Grants(log[r.item][r.seen].row, c, r.roles)

CallsAreSound == \A c \in Clients : CallFor(c, call[c])

DirectoryInv == StoreTypes /\ NodesInOrder /\ PlacesAreKept /\ CallsAreSound

LEMMA NodesAreItems == Nodes \subseteq Items /\ MaxNodes \in Nat /\ Nodes \subseteq Nat \ {0}
BY MaxNodesAssumption DEF Nodes

LEMMA DirectoryInvInit == DirectoryInit => DirectoryInv
<1> SUFFICES ASSUME DirectoryInit PROVE DirectoryInv
  OBVIOUS
<1>1. \A n \in Nodes : log[n] = <<>>
  BY NodesAreItems DEF DirectoryInit, StoreInit
<1>2. StoreTypes
  BY DEF DirectoryInit, StoreInit, StoreTypes
<1>3. NodesInOrder
  <2>1. \A n \in Nodes : log[n] = <<>> <=> n > 0
    BY <1>1, NodesAreItems
  <2>. QED BY <2>1, NodesAreItems DEF NodesInOrder
<1>4. CallsAreSound
  BY DEF DirectoryInit, StoreInit, CallsAreSound, CallFor, Idle
<1>. QED BY <1>1, <1>2, <1>3, <1>4 DEF DirectoryInv, PlacesAreKept

(* The row of an item that is there is one of its commands.                *)
LEMMA RowIsCommand ==
  ASSUME DirectoryInv, NEW n \in Nodes, HasRow(n)
  PROVE  /\ synced[n] \in DOMAIN log[n] /\ synced[n] \in 1 .. Len(log[n]) /\ log[n] # <<>>
         /\ Row(n) = log[n][synced[n]].row
         /\ Row(n) \in NodeRows
         /\ SamePlace(n, Row(n)) /\ PlaceOf(n, Row(n))
<1>1. log[n] \in Seq(Entries) /\ synced[n] \in Nat /\ synced[n] # 0 /\ synced[n] <= Len(log[n])
  BY NodesAreItems DEF DirectoryInv, StoreTypes, HasRow
<1>2. synced[n] \in DOMAIN log[n] /\ log[n] # <<>> /\ synced[n] \in 1 .. Len(log[n])
  BY <1>1
<1>3. log[n][synced[n]] \in Entries
  BY <1>1, <1>2
<1>. QED BY <1>2, <1>3 DEF Row, Entries, DirectoryInv, PlacesAreKept

(***************************************************************************)
(* Steps that only change a call.                                          *)
(***************************************************************************)
LEMMA CallChanged ==
  ASSUME DirectoryInv, NEW c \in Clients, NEW r, CallFor(c, r),
         call' = [call EXCEPT ![c] = r], UNCHANGED <<log, synced>>
  PROVE  DirectoryInv'
<1>1. StoreTypes' /\ NodesInOrder' /\ PlacesAreKept'
  BY DEF DirectoryInv, StoreTypes, NodesInOrder, PlacesAreKept, SamePlace, PlaceOf
<1>2. \A d \in Clients : call'[d] = IF d = c THEN r ELSE call[d]
  BY DEF DirectoryInv, StoreTypes
<1>3. \A d \in Clients : CallFor(d, call'[d])
  BY <1>2 DEF DirectoryInv, CallsAreSound
<1>4. CallsAreSound'
  BY <1>3 DEF CallsAreSound, CallFor, SamePlace, Grants
<1>. QED BY <1>1, <1>4 DEF DirectoryInv

(* A new state for an item that is there, in the same place.               *)
LEMMA ChangeStep ==
  ASSUME DirectoryInv, NEW c \in Clients, NEW op \in Ops, NEW n \in Nodes, NEW row,
         NEW roles, Change(c, op, n, row, roles), row \in NodeRows,
         HasRow(n) => SamePlace(n, row)
  PROVE  DirectoryInv'
<1> DEFINE r == DirCall(op, n, row, n, roles, 0)
<1>1. HasRow(n) /\ call' = [call EXCEPT ![c] = r] /\ UNCHANGED <<log, synced>>
  BY DEF Change, Begin, Exists
<1>2. r.step = "walk" /\ r.item = n /\ r.at = n /\ r.op = op /\ r.row = row /\ r.todo = <<>>
  BY DEF DirCall
<1>3. "seen" \in DOMAIN r
  BY DEF DirCall
<1>4. n # 0 /\ r.version = synced[n] /\ synced[n] \in 1 .. synced[n]
  BY <1>1, RowIsCommand, NodesAreItems DEF DirCall
<1>5. CallFor(c, r)
  <2> HIDE DEF r
  <2>. QED BY <1>1, <1>2, <1>3, <1>4 DEF CallFor
<1>. QED BY <1>1, <1>5, CallChanged

(* A new item.                                                             *)
LEMMA NewStep ==
  ASSUME DirectoryInv, NEW c \in Clients, NEW r,
         r.op \in Ops, r.row \in NodeRows, r.todo = <<>>, r.item = 0,
         r.step \in {"walk", "place"}, Begin(c, r)
  PROVE  DirectoryInv'
<1>1. call' = [call EXCEPT ![c] = r] /\ UNCHANGED <<log, synced>>
  BY DEF Begin
<1>2. CallFor(c, r)
  BY DEF CallFor
<1>. QED BY <1>1, <1>2, CallChanged

LEMMA AllowedNew ==
  ASSUME NEW op \in Ops, NEW row \in NodeRows, NEW at, NEW roles, NEW source
  PROVE  LET r == Allowed(DirCall(op, 0, row, at, roles, source)) IN
         r.op = op /\ r.row = row /\ r.todo = <<>> /\ r.item = 0 /\ r.step = "place"
BY DEF DirCall, Allowed

(* Requests that place a new node: create, copy, move.                     *)
LEMMA NewItemSteps ==
  ASSUME DirectoryInv, NEW c \in Clients, NEW p \in {NoParent} \cup Nodes,
         \/ \E perm \in Permissions, inh \in BOOLEAN, name \in Names :
              CreateNode(c, p, perm, inh, name)
         \/ \E n \in Nodes : CopyNode(c, n, p) \/ MoveNode(c, n, p)
  PROVE  DirectoryInv'
<1>1. ASSUME NEW perm \in Permissions, NEW inh \in BOOLEAN, NEW name \in Names,
             CreateNode(c, p, perm, inh, name)
      PROVE  DirectoryInv'
  <2> DEFINE row == Node("unset", p, <<>>, perm, inh, name)
             r == DirCall("createNode", 0, row, p, Writers, 0)
  <2>1. row \in NodeRows
    BY DEF Node, NodeRows
  <2>2. Begin(c, r) \/ Begin(c, Allowed(r))
    BY <1>1 DEF CreateNode
  <2> HIDE DEF row
  <2>3. r.op \in Ops /\ r.row \in NodeRows /\ r.todo = <<>> /\ r.item = 0 /\ r.step = "walk"
    BY <2>1 DEF DirCall, Ops
  <2>4. /\ Allowed(r).op \in Ops /\ Allowed(r).row \in NodeRows /\ Allowed(r).todo = <<>>
        /\ Allowed(r).item = 0 /\ Allowed(r).step = "place"
    BY <2>1, AllowedNew DEF Ops
  <2> HIDE DEF r
  <2>. QED BY <2>2, <2>3, <2>4, NewStep
<1>2. ASSUME NEW n \in Nodes, CopyNode(c, n, p) \/ MoveNode(c, n, p)
      PROVE  DirectoryInv'
  <2> DEFINE row == [Row(n) EXCEPT !.deleted = "unset", !.parent = p]
             r == DirCall("copy", 0, row, n, {}, 0)
             s == DirCall("move", 0, row, n, Writers, n)
  <2>1. row \in NodeRows
    BY <1>2, RowIsCommand DEF CopyNode, MoveNode, Exists, NodeRows
  <2>2. Begin(c, Allowed(r)) \/ Begin(c, s)
    BY <1>2 DEF CopyNode, MoveNode
  <2> HIDE DEF row
  <2>3. /\ Allowed(r).op \in Ops /\ Allowed(r).row \in NodeRows /\ Allowed(r).todo = <<>>
        /\ Allowed(r).item = 0 /\ Allowed(r).step = "place"
    BY <2>1, AllowedNew DEF Ops
  <2>4. s.op \in Ops /\ s.row \in NodeRows /\ s.todo = <<>> /\ s.item = 0 /\ s.step = "walk"
    BY <2>1 DEF DirCall, Ops
  <2> HIDE DEF r, s
  <2>. QED BY <2>2, <2>3, <2>4, NewStep
<1>. QED BY <1>1, <1>2

(* Requests on a node that has a row.                                      *)
LEMMA ItemSteps ==
  ASSUME DirectoryInv, "own_ancestors" \notin DirectoryFaults,
         NEW c \in Clients, NEW n \in Nodes, HasRow(n),
         \/ \E d \in {Row(n).deleted, "yes", "no"},
               perm \in Permissions \cup {Row(n).permission},
               p \in ParentsInUpdate(n), anc \in OtherAncestors(n) :
              \E inh \in BOOLEAN : UpdateNode(c, n, d, Row(n).name, perm, inh, p, anc)
         \/ \E perm \in Permissions, inh \in BOOLEAN : UpdatePermission(c, n, perm, inh)
         \/ \E name \in Names : RenameNode(c, n, name)
         \/ RemoveNode(c, n) \/ RemoveFile(c, n) \/ RestoreTemporary(c, n)
         \/ \E v \in DOMAIN log[n] : RestoreHistoryItem(c, n, v)
  PROVE  DirectoryInv'
<1>1. Row(n) \in NodeRows /\ SamePlace(n, Row(n))
  BY RowIsCommand
<1> DEFINE old == Row(n)
<1>2. ASSUME NEW d \in {old.deleted, "yes", "no"}, NEW perm \in Permissions \cup {old.permission},
             NEW p \in ParentsInUpdate(n), NEW anc \in OtherAncestors(n), NEW inh \in BOOLEAN,
             UpdateNode(c, n, d, old.name, perm, inh, p, anc)
      PROVE  DirectoryInv'
  <2> DEFINE row == Node(d, p, anc, perm, inh, old.name)
  <2>1. p = old.parent /\ anc = old.ancestors
    BY DEF ParentsInUpdate, OtherAncestors
  <2>2. row \in NodeRows /\ SamePlace(n, row)
    BY <1>1, <2>1 DEF Node, NodeRows, SamePlace
  <2>3. PICK roles : Change(c, "update", n, row, roles)
    BY <1>2 DEF UpdateNode
  <2> HIDE DEF row
  <2>. QED BY <2>2, <2>3, ChangeStep DEF Ops
<1>3. ASSUME NEW perm \in Permissions, NEW inh \in BOOLEAN, UpdatePermission(c, n, perm, inh)
      PROVE  DirectoryInv'
  <2> DEFINE row == [old EXCEPT !.permission = perm, !.inheritance = inh]
  <2>1. row \in NodeRows /\ SamePlace(n, row)
    BY <1>1 DEF NodeRows, SamePlace
  <2>2. PICK roles : Change(c, "updatePermission", n, row, roles)
    BY <1>3 DEF UpdatePermission
  <2> HIDE DEF row
  <2>. QED BY <2>1, <2>2, ChangeStep DEF Ops
<1>4. ASSUME NEW name \in Names, RenameNode(c, n, name)
      PROVE  DirectoryInv'
  <2> DEFINE row == [old EXCEPT !.name = name]
  <2>1. row \in NodeRows /\ SamePlace(n, row)
    BY <1>1 DEF NodeRows, SamePlace
  <2>2. Change(c, "rename", n, row, Writers)
    BY <1>4 DEF RenameNode
  <2> HIDE DEF row
  <2>. QED BY <2>1, <2>2, ChangeStep DEF Ops
<1>5. CASE RemoveNode(c, n) \/ RemoveFile(c, n)
  <2> DEFINE row == [old EXCEPT !.deleted = "yes"]
  <2>1. row \in NodeRows /\ SamePlace(n, row)
    BY <1>1 DEF NodeRows, SamePlace
  <2>2. Change(c, "delete", n, row, Removers)
    BY <1>5 DEF RemoveNode, RemoveFile
  <2> HIDE DEF row
  <2>. QED BY <2>1, <2>2, ChangeStep DEF Ops
<1>6. CASE RestoreTemporary(c, n)
  <2> DEFINE row == [old EXCEPT !.deleted = "no"]
  <2>1. row \in NodeRows /\ SamePlace(n, row)
    BY <1>1 DEF NodeRows, SamePlace
  <2>2. Change(c, "restore", n, row, Writers)
    BY <1>6 DEF RestoreTemporary
  <2> HIDE DEF row
  <2>. QED BY <2>1, <2>2, ChangeStep DEF Ops
<1>7. ASSUME NEW v \in DOMAIN log[n], RestoreHistoryItem(c, n, v)
      PROVE  DirectoryInv'
  <2> DEFINE then == log[n][v].row
             row == [then EXCEPT !.deleted = "unset"]
  <2>1. log[n][v] \in Entries
    BY NodesAreItems DEF DirectoryInv, StoreTypes
  <2>2. then \in NodeRows /\ SamePlace(n, then)
    BY <2>1 DEF Entries, DirectoryInv, PlacesAreKept
  <2>3. row \in NodeRows /\ SamePlace(n, row)
    BY <2>2 DEF NodeRows, SamePlace
  <2>4. Change(c, "restore", n, row, Writers)
    BY <1>7 DEF RestoreHistoryItem
  <2> HIDE DEF row
  <2>. QED BY <2>3, <2>4, ChangeStep DEF Ops
<1>. QED BY <1>2, <1>3, <1>4, <1>5, <1>6, <1>7

(* A state of an item that a read may return.                              *)
LEMMA ReadIsCommand ==
  ASSUME DirectoryInv, NEW n \in Nodes, NEW v \in RowRead(n), v # 0
  PROVE  /\ v \in DOMAIN log[n] /\ v \in 1 .. synced[n] /\ log[n] # <<>>
         /\ log[n][v].row \in NodeRows
         /\ SamePlace(n, log[n][v].row) /\ PlaceOf(n, log[n][v].row)
<1>1. log[n] \in Seq(Entries) /\ synced[n] \in Nat /\ synced[n] <= Len(log[n])
  BY NodesAreItems DEF DirectoryInv, StoreTypes
<1>2. v \in DOMAIN log[n] /\ v \in 1 .. synced[n] /\ log[n] # <<>>
  BY <1>1 DEF RowRead
<1>3. log[n][v] \in Entries
  BY <1>1, <1>2
<1>. QED BY <1>2, <1>3 DEF Entries, DirectoryInv, PlacesAreKept

(* The walk asks the item itself first: it goes on only if the state it    *)
(* read, of any age, allows that.                                          *)
LEMMA WalkStep ==
  ASSUME DirectoryInv, NEW c \in Clients, Walk(c)
  PROVE  DirectoryInv'
<1> DEFINE r == call[c]
<1>1. r.step = "walk" /\ CallFor(c, r)
  BY DEF Walk, DirectoryInv, CallsAreSound
<1>2. CASE Go(c, Idle)
  <2>1. CallFor(c, Idle)
    BY DEF CallFor, Idle
  <2>. QED BY <1>2, <2>1, CallChanged DEF Go
<1>3. ASSUME NEW v \in RowRead(r.at), v # 0,
             LET row == log[r.at][v].row
                 s == IF r.at = r.item THEN [r EXCEPT !.seen = v] ELSE r
             IN \/ row.permission[c] \in r.roles /\ Go(c, Allowed(s))
                \/ /\ row.permission[c] = "none" /\ row.inheritance /\ row.parent # NoParent
                   /\ Go(c, [s EXCEPT !.at = row.parent])
      PROVE  DirectoryInv'
  <2> DEFINE row == log[r.at][v].row
             s == IF r.at = r.item THEN [r EXCEPT !.seen = v] ELSE r
             up == [s EXCEPT !.at = row.parent]
  <2>1. ASSUME r.item # 0
        PROVE  /\ s.seen \in 1 .. synced[r.item]
               /\ Grants(log[r.item][s.seen].row, c, r.roles)
    <3>1. CASE r.at = r.item
      <4>1. r.item \in Nodes /\ v \in 1 .. synced[r.item]
        BY <1>1, <1>3, <2>1, <3>1, ReadIsCommand DEF CallFor
      <4>2. Grants(log[r.item][v].row, c, r.roles)
        BY <1>3, <3>1 DEF Grants
      <4>3. s.seen = v
        BY <3>1, <1>1, <2>1 DEF CallFor
      <4>. QED BY <4>1, <4>2, <4>3
    <3>2. CASE r.at # r.item
      BY <1>1, <2>1, <3>2 DEF CallFor
    <3>. QED BY <3>1, <3>2
  <2>2. /\ s.op = r.op /\ s.row = r.row /\ s.todo = r.todo /\ s.item = r.item /\ s.step = r.step
        /\ s.version = r.version /\ s.roles = r.roles /\ DOMAIN s = DOMAIN r
    OBVIOUS
  <2>. HIDE DEF s
  <2>3. CallFor(c, Allowed(s))
    BY <1>1, <2>1, <2>2 DEF CallFor, Allowed
  <2>4. CallFor(c, up)
    BY <1>1, <2>1, <2>2 DEF CallFor
  <2>5. Go(c, Allowed(s)) \/ Go(c, up)
    BY <1>3 DEF s
  <2>. QED BY <2>3, <2>4, <2>5, CallChanged DEF Go
<1>. QED BY <1>2, <1>3 DEF Walk, OwnRole

(***************************************************************************)
(* Steps that publish.                                                     *)
(***************************************************************************)
LEMMA LogGrows ==
  ASSUME DirectoryInv, NEW c \in Clients, NEW i \in Nodes, NEW e \in Entries,
         log' = [log EXCEPT ![i] = Append(@, e)], UNCHANGED synced,
         call' = [call EXCEPT ![c] = Idle],
         \/ log[i] = <<>> /\ PlaceOf(i, e.row) /\ \A n \in Nodes : n < i => log[n] # <<>>
         \/ log[i] # <<>> /\ SamePlace(i, e.row)
  PROVE  DirectoryInv'
<1>1. /\ log \in [Items -> Seq(Entries)] /\ log' \in [Items -> Seq(Entries)]
      /\ \A n \in Items : log'[n] = IF n = i THEN Append(log[n], e) ELSE log[n]
  BY NodesAreItems DEF DirectoryInv, StoreTypes
<1>2. /\ Len(log'[i]) = Len(log[i]) + 1 /\ log'[i][Len(log[i]) + 1] = e
      /\ DOMAIN log'[i] = DOMAIN log[i] \cup {Len(log[i]) + 1}
      /\ \A v \in DOMAIN log[i] : log'[i][v] = log[i][v]
      /\ log'[i] # <<>> /\ Len(log[i]) \in Nat
  BY <1>1, NodesAreItems
<1>3. \A n \in Nodes : log[n] # <<>> => log'[n] # <<>> /\ log'[n][1] = log[n][1]
  <2>1. log[i] # <<>> => 1 \in DOMAIN log[i]
    BY <1>1, NodesAreItems
  <2>. QED BY <1>1, <1>2, <2>1, NodesAreItems
<1>4. StoreTypes'
  <2>1. \A n \in Items : synced'[n] <= Len(log'[n])
    BY <1>1, <1>2 DEF DirectoryInv, StoreTypes
  <2>. QED BY <1>1, <2>1 DEF DirectoryInv, StoreTypes
<1>5. NodesInOrder'
  <2>1. PICK k \in 0 .. MaxNodes : \A n \in Nodes : log[n] = <<>> <=> n > k
    BY DEF DirectoryInv, NodesInOrder
  <2>2. CASE log[i] # <<>>
    <3>1. \A n \in Nodes : log'[n] = <<>> <=> n > k
      BY <1>1, <1>3, <2>1, <2>2, NodesAreItems
    <3>. QED BY <3>1 DEF NodesInOrder
  <2>3. CASE log[i] = <<>>
    <3>1. i = k + 1
      BY <2>1, <2>3, NodesAreItems DEF Nodes
    <3>2. \A n \in Nodes : log'[n] = <<>> <=> n > i
      BY <1>1, <1>2, <2>1, <3>1, NodesAreItems
    <3>3. i \in 0 .. MaxNodes
      BY NodesAreItems DEF Nodes
    <3>. QED BY <3>2, <3>3 DEF NodesInOrder
  <2>. QED BY <2>2, <2>3
<1>6. ASSUME NEW n \in Nodes, NEW row, PlaceOf(n, row)
      PROVE  PlaceOf(n, row)'
  BY <1>3, <1>6 DEF PlaceOf
<1>7. PlaceOf(i, e.row) /\ SamePlace(i, e.row)'
  <2>1. CASE log[i] = <<>>
    BY <1>1, <1>2, <2>1 DEF SamePlace
  <2>2. CASE log[i] # <<>>
    <3>1. PlaceOf(i, log[i][1].row)
      BY <1>1, <2>2, NodesAreItems DEF DirectoryInv, PlacesAreKept
    <3>. QED BY <1>3, <2>2, <3>1 DEF PlaceOf, SamePlace
  <2>. QED BY <2>1, <2>2
<1>8. PlacesAreKept'
  <2>1. ASSUME NEW n \in Nodes, NEW v \in DOMAIN log[n]
        PROVE  /\ log'[n][v] = log[n][v]
               /\ SamePlace(n, log[n][v].row)' /\ PlaceOf(n, log[n][v].row)
    <3>1. log[n] # <<>> /\ SamePlace(n, log[n][v].row) /\ PlaceOf(n, log[n][v].row)
      BY NodesAreItems DEF DirectoryInv, PlacesAreKept
    <3>2. log'[n][v] = log[n][v]
      BY <1>1, <1>2, NodesAreItems
    <3>. QED BY <1>3, <3>1, <3>2 DEF SamePlace
  <2>2. ASSUME NEW n \in Nodes, NEW v \in DOMAIN log'[n]
        PROVE  SamePlace(n, log[n][v].row)' /\ PlaceOf(n, log[n][v].row)'
    <3>1. CASE v \in DOMAIN log[n]
      <4>1. log'[n][v] = log[n][v] /\ SamePlace(n, log[n][v].row)'
            /\ PlaceOf(n, log[n][v].row)
        BY <2>1, <3>1
      <4>2. PlaceOf(n, log[n][v].row)'
        BY <1>3, <4>1 DEF PlaceOf
      <4>. QED BY <4>1, <4>2
    <3>2. CASE v \notin DOMAIN log[n]
      <4>1. n = i /\ log'[n][v] = e
        BY <1>1, <1>2, <2>2, <3>2, NodesAreItems
      <4>. QED BY <1>6, <1>7, <4>1
    <3>. QED BY <3>1, <3>2
  <2>. QED BY <2>2 DEF PlacesAreKept
<1>9. CallsAreSound'
  <2>1. \A d \in Clients : call'[d] = IF d = c THEN Idle ELSE call[d]
    BY DEF DirectoryInv, StoreTypes
  <2>2. ASSUME NEW d \in Clients, d # c
        PROVE  CallFor(d, call[d])'
    <3>. PICK r : r = call[d]
      OBVIOUS
    <3>1. CallFor(d, r) /\ call'[d] = r
      BY <2>1, <2>2 DEF DirectoryInv, CallsAreSound
    <3>2. CASE r.step = "idle" \/ r.item = 0
      BY <3>1, <3>2 DEF CallFor
    <3>3. CASE r.step # "idle" /\ r.item # 0
      <4>1. /\ r.item \in Nodes /\ r.version \in 1 .. synced[r.item]
            /\ synced[r.item] \in Nat /\ synced[r.item] <= Len(log[r.item])
            /\ log[r.item] # <<>>
        <5>1. r.item \in Nodes /\ r.version \in 1 .. synced[r.item]
          BY <3>1, <3>3 DEF CallFor
        <5>2. /\ log[r.item] \in Seq(Entries)
              /\ synced[r.item] \in Nat /\ synced[r.item] <= Len(log[r.item])
          BY <5>1, NodesAreItems DEF DirectoryInv, StoreTypes
        <5>3. log[r.item] # <<>>
          BY <5>1, <5>2
        <5>. QED BY <5>1, <5>2, <5>3
      <4>2. SamePlace(r.item, r.row)'
        BY <1>3, <3>1, <3>3, <4>1 DEF CallFor, SamePlace
      <4>3. \A v \in 1 .. synced[r.item] : log'[r.item][v] = log[r.item][v]
        BY <1>1, <1>2, <4>1, NodesAreItems
      <4>4. \/ r.step = "walk" /\ r.at = r.item
            \/ /\ r.seen \in 1 .. synced'[r.item]
               /\ Grants(log'[r.item][r.seen].row, d, r.roles)
        BY <3>1, <3>3, <4>3 DEF CallFor
      <4>5. CallFor(d, r)'
        BY <3>1, <3>3, <4>1, <4>2, <4>4 DEF CallFor
      <4>. QED BY <3>1, <4>5 DEF CallFor
    <3>. QED BY <3>2, <3>3
  <2>3. CallFor(c, call[c])'
    BY <2>1 DEF CallFor, Idle
  <2>. QED BY <2>2, <2>3 DEF CallsAreSound
<1>. QED BY <1>4, <1>5, <1>8, <1>9 DEF DirectoryInv

(* A request's command is published, or refused for its version.           *)
LEMMA PublishStep ==
  ASSUME DirectoryInv, NEW c \in Clients, Publish(c)
  PROVE  DirectoryInv'
<1> DEFINE r == call[c]
           e == [op |-> r.op, row |-> r.row]
<1>1. r.step = "publish" /\ CallFor(c, r)
  BY DEF Publish, DirectoryInv, CallsAreSound
<1>2. /\ r.item \in Nodes /\ r.version \in 1 .. synced[r.item] /\ r.todo = <<>>
      /\ r.op \in Ops /\ r.row \in NodeRows /\ SamePlace(r.item, r.row)
  BY <1>1 DEF CallFor
<1>3. call' = [call EXCEPT ![c] = Idle] /\ UNCHANGED synced
  BY <1>2 DEF Publish
<1>4. CASE UNCHANGED log
  <2>1. CallFor(c, Idle)
    BY DEF CallFor, Idle
  <2>. QED BY <1>3, <1>4, <2>1, CallChanged
<1>5. CASE log' = [log EXCEPT ![r.item] = Append(@, e)]
  <2>1. e \in Entries /\ e.row = r.row
    BY <1>2 DEF Entries
  <2>2. log[r.item] # <<>>
    <3>1. /\ log[r.item] \in Seq(Entries) /\ synced[r.item] \in Nat
          /\ synced[r.item] <= Len(log[r.item])
      BY <1>2, NodesAreItems DEF DirectoryInv, StoreTypes
    <3>2. Len(log[r.item]) # 0
      BY <1>2, <3>1
    <3>. QED BY <3>2
  <2> HIDE DEF e
  <2>. QED BY <1>2, <1>3, <1>5, <2>1, <2>2, LogGrows
<1>. QED BY <1>4, <1>5 DEF Publish

(* A new item gets the first free number; its parent has one already.      *)
LEMMA PlaceStep ==
  ASSUME DirectoryInv, NEW c \in Clients, Place(c)
  PROVE  DirectoryInv'
<1> DEFINE r == call[c]
           p == r.row.parent
           Read == IF p = NoParent THEN {0} ELSE RowRead(p)
<1>1. /\ r.step = "place" /\ Free # {} /\ CallFor(c, r)
      /\ call' = [call EXCEPT ![c] = Idle] /\ UNCHANGED synced
  BY DEF Place, DirectoryInv, CallsAreSound
<1>2. CASE UNCHANGED log
  <2>1. CallFor(c, Idle)
    BY DEF CallFor, Idle
  <2>. QED BY <1>1, <1>2, <2>1, CallChanged
<1>3. ASSUME NEW v \in Read, p = NoParent \/ v # 0,
             log' = [log EXCEPT ![NextNode] =
               <<[op |-> r.op, row |-> [r.row EXCEPT !.ancestors =
                    IF v = 0 THEN <<>> ELSE AncestorsIn(p, v)]]>>]
      PROVE  DirectoryInv'
  <2> DEFINE ancestors == IF v = 0 THEN <<>> ELSE AncestorsIn(p, v)
             row == [r.row EXCEPT !.ancestors = ancestors]
             e == [op |-> r.op, row |-> row]
  <2>1. PICK k \in 0 .. MaxNodes : \A n \in Nodes : log[n] = <<>> <=> n > k
    BY DEF DirectoryInv, NodesInOrder
  <2>2. k + 1 \in Free /\ \A m \in Free : k + 1 <= m
    BY <1>1, <2>1, NodesAreItems DEF Free, Nodes
  <2>3. NextNode \in Free /\ \A m \in Free : NextNode <= m
    BY <2>2 DEF NextNode
  <2>4. NextNode = k + 1 /\ NextNode \in Nodes /\ log[NextNode] = <<>>
    BY <2>2, <2>3, NodesAreItems DEF Free, Nodes
  <2>5. r.op \in Ops /\ r.row \in NodeRows
    BY <1>1 DEF CallFor
  <2>6. PlaceOf(NextNode, row) /\ row \in NodeRows
    <3>1. CASE p = NoParent
      <4>1. ancestors = <<>> /\ row.ancestors = <<>> /\ row.parent = NoParent
        BY <1>3, <2>5, <3>1 DEF NodeRows
      <4> HIDE DEF ancestors
      <4>2. ancestors \in Seq(Nodes)
        BY <4>1
      <4>3. row \in NodeRows
        BY <2>5, <4>2 DEF NodeRows
      <4>. QED BY <4>1, <4>3 DEF PlaceOf
    <3>2. CASE p # NoParent
      <4> DEFINE read == log[p][v].row
      <4>1. p \in Nodes /\ v \in RowRead(p) /\ v # 0
        BY <1>3, <2>5, <3>2 DEF NodeRows
      <4>2. log[p] # <<>> /\ read \in NodeRows /\ SamePlace(p, read)
        BY <4>1, ReadIsCommand
      <4>3. p < NextNode
        <5>1. p \in Nat /\ k \in Nat /\ ~(p > k)
          <6> HIDE DEF p
          <6>1. log[p] # <<>> /\ p \in Nodes
            BY <4>1, <4>2
          <6>2. (log[p] = <<>>) <=> (p > k)
            BY <2>1, <6>1
          <6>. QED BY <6>1, <6>2, NodesAreItems
        <5> HIDE DEF p
        <5>. QED BY <2>4, <5>1
      <4>4. ancestors = Append(log[p][1].row.ancestors, p) /\ ancestors \in Seq(Nodes)
        <5>1. read.ancestors \in Seq(Nodes) /\ ancestors = Append(read.ancestors, p)
          BY <4>1, <4>2 DEF AncestorsIn, NodeRows
        <5>2. Append(read.ancestors, p) \in Seq(Nodes)
          <6> HIDE DEF p, read
          <6>. QED BY <4>1, <5>1
        <5>. QED BY <4>2, <5>1, <5>2 DEF SamePlace
      <4> HIDE DEF ancestors
      <4>5. row.ancestors = ancestors /\ row.parent = p /\ row \in NodeRows
        BY <2>5, <4>4 DEF NodeRows
      <4>. QED BY <4>1, <4>2, <4>3, <4>4, <4>5 DEF PlaceOf
    <3>. QED BY <3>1, <3>2
  <2> HIDE DEF row
  <2>7. e \in Entries /\ e.row = row
    BY <2>5, <2>6 DEF Entries
  <2> HIDE DEF e
  <2>8. log' = [log EXCEPT ![NextNode] = Append(@, e)]
    BY <1>3, <2>4, NodesAreItems DEF DirectoryInv, StoreTypes, e, row
  <2>9. \A n \in Nodes : n < NextNode => log[n] # <<>>
    BY <2>1, <2>4, NodesAreItems
  <2>. QED BY <1>1, <2>4, <2>6, <2>7, <2>8, <2>9, LogGrows
<1>. QED BY <1>1, <1>2, <1>3 DEF Place

(* The data table takes the next command of a node.                        *)
LEMMA SyncStep ==
  ASSUME DirectoryInv, NEW i \in Items, Sync(i)
  PROVE  DirectoryInv'
<1>1. /\ UNCHANGED <<log, call>>
      /\ \A j \in Items : synced'[j] = IF j = i THEN synced[j] + 1 ELSE synced[j]
      /\ synced[i] < Len(log[i])
  BY DEF Sync, DirectoryInv, StoreTypes
<1>2. StoreTypes'
  BY <1>1 DEF Sync, DirectoryInv, StoreTypes
<1>3. NodesInOrder' /\ PlacesAreKept'
  BY <1>1 DEF DirectoryInv, NodesInOrder, PlacesAreKept, SamePlace, PlaceOf
<1>4. ASSUME NEW d \in Clients
      PROVE  CallFor(d, call[d])'
  <2>. PICK r : r = call[d]
    OBVIOUS
  <2>1. CallFor(d, r) /\ call'[d] = r
    BY <1>1 DEF DirectoryInv, CallsAreSound
  <2>2. r.item \in Nodes =>
          /\ synced[r.item] \in Nat
          /\ synced'[r.item] \in {synced[r.item], synced[r.item] + 1}
    BY <1>1, NodesAreItems DEF DirectoryInv, StoreTypes
  <2>3. CASE r.step = "idle" \/ r.item = 0
    BY <2>1, <2>3 DEF CallFor
  <2>4. CASE r.step # "idle" /\ r.item # 0
    <3>1. r.item \in Nodes /\ r.version \in 1 .. synced'[r.item]
      BY <2>1, <2>2, <2>4 DEF CallFor
    <3>2. \/ r.step = "walk" /\ r.at = r.item
          \/ /\ r.seen \in 1 .. synced'[r.item]
             /\ Grants(log'[r.item][r.seen].row, d, r.roles)
      BY <1>1, <2>1, <2>2, <2>4, <3>1 DEF CallFor
    <3>3. SamePlace(r.item, r.row)'
      BY <1>1, <2>1, <2>4 DEF CallFor, SamePlace
    <3>4. CallFor(d, r)'
      BY <2>1, <2>4, <3>1, <3>2, <3>3 DEF CallFor
    <3>. QED BY <2>1, <3>4 DEF CallFor
  <2>. QED BY <2>3, <2>4
<1>. QED BY <1>2, <1>3, <1>4 DEF DirectoryInv, CallsAreSound

(* Every step keeps the directory's invariant.                             *)
LEMMA DirectoryInvStep ==
  ASSUME "own_ancestors" \notin DirectoryFaults, DirectoryInv, [DirectoryNext]_storeVars
  PROVE  DirectoryInv'
<1>1. CASE UNCHANGED storeVars
  BY <1>1 DEF storeVars, DirectoryInv, StoreTypes, NodesInOrder, PlacesAreKept, CallsAreSound,
     CallFor, SamePlace, PlaceOf, Grants
<1>2. CASE DirectoryNext
  BY <1>2, WalkStep, PlaceStep, NewItemSteps, ItemSteps, PublishStep, SyncStep
  DEF DirectoryNext, StoreNext
<1>. QED BY <1>1, <1>2

(***************************************************************************)
(* The theorems.                                                           *)
(***************************************************************************)

(* The places of items, the numbering and what calls know of their items.  *)
THEOREM DirectoryInvariant ==
  ASSUME "own_ancestors" \notin DirectoryFaults
  PROVE  DirectorySpec => []DirectoryInv
<1>. QED BY DirectoryInvInit, DirectoryInvStep, PTL DEF DirectorySpec

(* There is never a cycle of parents, in any state an item ever had, so    *)
(* every walk for a permission ends at the root.                           *)
THEOREM NoCycleOfParents ==
  ASSUME "own_ancestors" \notin DirectoryFaults
  PROVE  DirectorySpec => []TreeIsWellFounded
<1>1. DirectoryInv => TreeIsWellFounded
  BY DEF DirectoryInv, PlacesAreKept, PlaceOf, TreeIsWellFounded
<1>. QED BY <1>1, DirectoryInvariant, PTL

(* The ancestors stored with an item are the chain of its parents, though  *)
(* its parent's row was read late.                                         *)
THEOREM AncestorsAreTheParents ==
  ASSUME "own_ancestors" \notin DirectoryFaults
  PROVE  DirectorySpec => []AncestorsAreParents
<1>1. ASSUME DirectoryInv
      PROVE  AncestorsAreParents
  BY <1>1, NodesAreItems DEF DirectoryInv, PlacesAreKept, PlaceOf, AncestorsAreParents, NoParent
<1>. QED BY <1>1, DirectoryInvariant, PTL

(* Only a publish or a placement writes a command.                         *)
LEMMA OthersKeepLog ==
  ASSUME DirectoryNext
  PROVE  \/ UNCHANGED log
         \/ \E c \in Clients : Publish(c) \/ Place(c)
<1>1. ASSUME NEW c \in Clients, Walk(c)
      PROVE  UNCHANGED log
  BY <1>1 DEF Walk, Go
<1>2. ASSUME NEW c \in Clients, NEW p \in {NoParent} \cup Nodes,
             \/ \E perm \in Permissions, inh \in BOOLEAN, name \in Names :
                  CreateNode(c, p, perm, inh, name)
             \/ \E n \in Nodes : CopyNode(c, n, p) \/ MoveNode(c, n, p)
      PROVE  UNCHANGED log
  BY <1>2 DEF CreateNode, CopyNode, MoveNode, Begin
<1>3. ASSUME NEW c, NEW op, NEW n, NEW row, NEW roles, Change(c, op, n, row, roles)
      PROVE  UNCHANGED log
  BY <1>3 DEF Change, Begin
<1>4. ASSUME NEW c \in Clients, NEW n \in {m \in Nodes : HasRow(m)},
             \/ \E d \in {Row(n).deleted, "yes", "no"},
                   perm \in Permissions \cup {Row(n).permission},
                   p \in ParentsInUpdate(n), anc \in OtherAncestors(n) :
                  \E inh \in BOOLEAN : UpdateNode(c, n, d, Row(n).name, perm, inh, p, anc)
             \/ \E perm \in Permissions, inh \in BOOLEAN : UpdatePermission(c, n, perm, inh)
             \/ \E name \in Names : RenameNode(c, n, name)
             \/ RemoveNode(c, n) \/ RemoveFile(c, n) \/ RestoreTemporary(c, n)
             \/ \E v \in DOMAIN log[n] : RestoreHistoryItem(c, n, v)
      PROVE  UNCHANGED log
  BY <1>3, <1>4 DEF UpdateNode, UpdatePermission, RenameNode, RemoveNode, RemoveFile,
     RestoreTemporary, RestoreHistoryItem
<1>5. ASSUME NEW i \in Items, Sync(i)
      PROVE  UNCHANGED log
  BY <1>5 DEF Sync
<1>. QED BY <1>1, <1>2, <1>4, <1>5 DEF DirectoryNext, StoreNext

(* No client replaces a state of an item that denies it: the conditional   *)
(* put refuses whoever was checked against a later state than the one the  *)
(* call was built from, and one checked against an older state was allowed *)
(* by that.  Nothing is assumed of the age of the rows that are read.      *)
THEOREM NoReplacementDenied ==
  ASSUME "own_ancestors" \notin DirectoryFaults
  PROVE  DirectorySpec => ReplacedAsAllowed
<1> DEFINE Replaced ==
      \A n \in Nodes : Len(log'[n]) > Len(log[n]) /\ log[n] # <<>> =>
        \E c \in Clients :
          LET r == call[c]
              checked == IF r.seen < r.version THEN r.seen ELSE Len(log[n])
          IN
          /\ r # Idle /\ call'[c] = Idle /\ r.item = n
          /\ checked \in DOMAIN log[n] /\ Grants(log[n][checked].row, c, r.roles)
<1>1. ASSUME DirectoryInv, DirectoryNext
      PROVE  Replaced
  <2> SUFFICES ASSUME NEW n \in Nodes, Len(log'[n]) > Len(log[n]), log[n] # <<>>
               PROVE  \E c \in Clients :
                        LET r == call[c]
                            checked == IF r.seen < r.version THEN r.seen ELSE Len(log[n])
                        IN
                        /\ r # Idle /\ call'[c] = Idle /\ r.item = n
                        /\ checked \in DOMAIN log[n]
                        /\ Grants(log[n][checked].row, c, r.roles)
    OBVIOUS
  <2>1. log[n] \in Seq(Entries) /\ Len(log[n]) \in Nat
    BY <1>1, NodesAreItems DEF DirectoryInv, StoreTypes
  <2>2. log'[n] # log[n]
    BY <2>1
  <2>3. ASSUME NEW c \in Clients, Place(c)
        PROVE  log'[n] = log[n]
    <3>1. NextNode # n
      <4>1. PICK k \in 0 .. MaxNodes : \A m \in Nodes : log[m] = <<>> <=> m > k
        BY <1>1 DEF DirectoryInv, NodesInOrder
      <4>2. k + 1 \in Free /\ \A m \in Free : k + 1 <= m
        BY <2>3, <4>1, NodesAreItems DEF Place, Free, Nodes
      <4>3. NextNode \in Free
        BY <4>2 DEF NextNode
      <4>. QED BY <4>3 DEF Free
    <3>. QED BY <2>3, <3>1 DEF Place
  <2>4. PICK c \in Clients : Publish(c)
    BY <1>1, <2>2, <2>3, OthersKeepLog
  <2>5. call[c].step = "publish" /\ CallFor(c, call[c])
    BY <1>1, <2>4 DEF Publish, DirectoryInv, CallsAreSound
  <2>6. call[c].item = n /\ call[c].version = Len(log[n])
    BY <2>2, <2>4 DEF Publish, Refused
  <2>7. /\ call[c].seen \in 1 .. synced[n] /\ Grants(log[n][call[c].seen].row, c, call[c].roles)
        /\ call[c].todo = <<>> /\ call[c].version \in 1 .. synced[n]
    BY <2>5, <2>6, NodesAreItems DEF CallFor
  <2>8. call[c] # Idle /\ call'[c] = Idle
    BY <1>1, <2>4, <2>5, <2>7 DEF Publish, Idle, DirectoryInv, StoreTypes
  <2>9. synced[n] \in Nat /\ synced[n] <= Len(log[n]) /\ Len(log[n]) \in DOMAIN log[n]
    BY <1>1, <2>1, NodesAreItems DEF DirectoryInv, StoreTypes
  <2>10. call[c].seen < call[c].version \/ call[c].seen = Len(log[n])
    BY <2>6, <2>7, <2>9
  <2>. QED BY <2>1, <2>6, <2>7, <2>8, <2>9, <2>10
<1>2. DirectoryInv /\ [DirectoryNext]_storeVars => [Replaced]_storeVars
  BY <1>1
<1>3. DirectorySpec => [][Replaced]_storeVars
  BY <1>2, DirectoryInvariant, PTL DEF DirectorySpec
<1>. QED BY <1>3 DEF ReplacedAsAllowed
=============================================================================
