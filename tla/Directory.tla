----------------------------- MODULE Directory -----------------------------
(***************************************************************************)
(* Folders and files with permissions that children inherit.               *)
(*                                                                         *)
(* Items are numbered in the order in which their first commands are       *)
(* published.  Every call first reads the data row of its item, then looks *)
(* for a permission from this item up to the root, a read for each level,  *)
(* and publishes at last: other calls run between any two of these.  All   *)
(* these reads are eventually consistent, so that the walk may find an     *)
(* older row of the item than the call was built from.                     *)
(***************************************************************************)
EXTENDS ItemStore

CONSTANTS
  MaxNodes,     (* bound: the items are 1 .. MaxNodes                       *)
  Permissions,  (* permissions: client -> the role it is given, "none", or  *)
                (* "expired" for all                                        *)
  Names,
  DirectoryFaults   (* a subset of AllDirectoryFaults                       *)

AllDirectoryFaults ==
  {"own_ancestors"}  (* the attributes of an update bring other ancestors   *)

ASSUME MaxNodesAssumption == MaxNodes \in Nat /\ 1 .. MaxNodes \subseteq Items
ASSUME DirectoryFaultsAssumption == DirectoryFaults \subseteq AllDirectoryFaults

Nodes == 1 .. MaxNodes
NoParent == 0
NoPermission == [c \in Clients |-> "none"]

Writers  == {"WRITE", "CHANGE_PERMISSION", "TAKE_OWNERSHIP"}
Removers == {"DELETE", "TAKE_OWNERSHIP"}
Managers == {"CHANGE_PERMISSION", "TAKE_OWNERSHIP"}

Node(d, p, anc, perm, inh, name) ==
  [deleted |-> d, parent |-> p, ancestors |-> anc,
   permission |-> perm, inheritance |-> inh, name |-> name]

Exists(n) == n \in Nodes /\ HasRow(n)
Free == {n \in Nodes : log[n] = <<>>}
NextNode == CHOOSE n \in Free : \A m \in Free : n <= m

(* A call that publishes row as the next state of item n (0: a new item),  *)
(* when one of these roles is found from item at upwards; source is the    *)
(* item that is moved; seen is the version of item n that the walk reads,  *)
(* kept for ReplacedAsAllowed.                                             *)
DirCall(op, n, row, at, roles, source) ==
  [op |-> op, item |-> n, version |-> IF n = 0 THEN 0 ELSE synced[n], row |-> row,
   step |-> "walk", todo |-> <<>>, at |-> at, roles |-> roles, source |-> source, seen |-> 0]

Allowed(r) == [r EXCEPT !.step = IF r.item = 0 THEN "place" ELSE "publish"]

(***************************************************************************)
(* The walk for a permission: getEffectiveRole asks one item after the     *)
(* other.  Deleted items count.                                            *)
(***************************************************************************)

(* checkPermissionObject: the role that an item itself gives a client.     *)
OwnRole(row, c) == row.permission[c]

(* What a read of item n may return: any version, 0 if no row is found.    *)
RowRead(n) == 0 .. synced[n]

Walk(c) ==
  LET r == call[c] IN
  /\ r.step = "walk"
  /\ \E v \in RowRead(r.at) :
       IF v = 0 THEN Go(c, Idle)
       ELSE LET row == log[r.at][v].row
                role == OwnRole(row, c)
                s == IF r.at = r.item THEN [r EXCEPT !.seen = v] ELSE r
            IN Go(c, IF role \in r.roles THEN Allowed(s)
                     ELSE IF role = "none" /\ row.inheritance /\ row.parent # NoParent
                          THEN [s EXCEPT !.at = row.parent]
                     ELSE Idle)

(***************************************************************************)
(* New items.                                                              *)
(***************************************************************************)
CreateNode(c, p, perm, inh, name) ==
  LET r == DirCall("createNode", 0, Node("unset", p, <<>>, perm, inh, name), p, Writers, 0)
  IN Begin(c, IF p = NoParent THEN Allowed(r) ELSE r)

(* copy asks for no permission; the new item is not deleted, nor is it     *)
(* after move.  The object in S3 that a file stands for is left out.       *)
CopyNode(c, n, p) ==
  /\ Exists(n)
  /\ Begin(c, Allowed(DirCall("copy", 0, [Row(n) EXCEPT !.deleted = "unset", !.parent = p],
                              n, {}, 0)))

(* move leaves the item where it is: its copy is the one that moves.       *)
MoveNode(c, n, p) ==
  /\ Exists(n)
  /\ Begin(c, DirCall("move", 0, [Row(n) EXCEPT !.deleted = "unset", !.parent = p],
                      n, Writers, n))

(* Seeded bug: the ancestors of a new item do not end with its parent.     *)
AncestorsOfParent(p, v) == log[p][v].row.ancestors

(* The ancestors of an item in folder p, from version v of p's row.        *)
AncestorsIn(p, v) == Append(log[p][v].row.ancestors, p)

(* A new item gets its number when it is published; the parent's row is    *)
(* read for it after the walk.                                             *)
Place(c) ==
  LET r == call[c]
      p == r.row.parent
  IN
  /\ r.step = "place" /\ Free # {}
  /\ \E v \in IF p = NoParent THEN {0} ELSE RowRead(p) :
       LET ancestors == IF v = 0 THEN <<>> ELSE AncestorsIn(p, v)
           throws == \/ p # NoParent /\ v = 0
                     \/ r.op = "move" /\ \E k \in DOMAIN ancestors : ancestors[k] = r.source
       IN log' = IF throws THEN log
                 ELSE [log EXCEPT ![NextNode] =
                         <<[op |-> r.op, row |-> [r.row EXCEPT !.ancestors = ancestors]]>>]
  /\ call' = [call EXCEPT ![c] = Idle]
  /\ UNCHANGED synced

(***************************************************************************)
(* New states of an item.                                                  *)
(***************************************************************************)
Change(c, op, n, row, roles) == Exists(n) /\ Begin(c, DirCall(op, n, row, n, roles, 0))

OtherAncestors(n) ==
  IF "own_ancestors" \in DirectoryFaults THEN {Row(n).ancestors, <<>>} ELSE {Row(n).ancestors}

(* Seeded bug: an update may bring another parent.                         *)
ParentsAnywhere(n) == {NoParent} \cup Nodes

(* The parents that an update may bring: it throws if that is another one. *)
ParentsInUpdate(n) == {Row(n).parent}

UpdateNode(c, n, d, name, perm, inh, p, anc) ==
  Change(c, "update", n, Node(d, p, anc, perm, inh, name),
         IF perm = Row(n).permission THEN Writers ELSE Managers)

(* A permission that is not given is taken away.                           *)
UpdatePermission(c, n, perm, inh) ==
  Change(c, "updatePermission", n, [Row(n) EXCEPT !.permission = perm, !.inheritance = inh],
         IF perm = NoPermission THEN Writers ELSE Managers)

RenameNode(c, n, name) == Change(c, "rename", n, [Row(n) EXCEPT !.name = name], Writers)

(* Children stay as they are.                                              *)
RemoveNode(c, n) == Change(c, "delete", n, [Row(n) EXCEPT !.deleted = "yes"], Removers)
RemoveFile(c, n) == Change(c, "delete", n, [Row(n) EXCEPT !.deleted = "yes"], Removers)

(* Any command of the item may be restored, as its next state; isDeleted   *)
(* is not part of it.                                                      *)
RestoreHistoryItem(c, n, v) ==
  Change(c, "restore", n, [log[n][v].row EXCEPT !.deleted = "unset"], Writers)

RestoreTemporary(c, n) ==
  /\ Exists(n) /\ Row(n).deleted = "yes"
  /\ Change(c, "restore", n, [Row(n) EXCEPT !.deleted = "no"], Writers)

DirectoryInit == StoreInit

DirectoryNext ==
  \/ \E c \in Clients :
       \/ Walk(c) \/ Place(c)
       \/ \E p \in {NoParent} \cup Nodes :
            \/ \E perm \in Permissions, inh \in BOOLEAN, name \in Names :
                 CreateNode(c, p, perm, inh, name)
            \/ \E n \in Nodes : CopyNode(c, n, p) \/ MoveNode(c, n, p)
       \/ \E n \in {m \in Nodes : HasRow(m)} :
            \/ \E d \in {Row(n).deleted, "yes", "no"},
                  perm \in Permissions \cup {Row(n).permission},
                  p \in ParentsInUpdate(n), anc \in OtherAncestors(n) :
                 \E inh \in BOOLEAN : UpdateNode(c, n, d, Row(n).name, perm, inh, p, anc)
            \/ \E perm \in Permissions, inh \in BOOLEAN : UpdatePermission(c, n, perm, inh)
            \/ \E name \in Names : RenameNode(c, n, name)
            \/ RemoveNode(c, n) \/ RemoveFile(c, n) \/ RestoreTemporary(c, n)
            \/ \E v \in DOMAIN log[n] : RestoreHistoryItem(c, n, v)
  \/ StoreNext

DirectorySpec == DirectoryInit /\ [][DirectoryNext]_storeVars

(***************************************************************************)
(* Properties.                                                             *)
(***************************************************************************)

(* Moves, copies, restores and updates never make a cycle of parents: in   *)
(* every state an item ever had, its parent is an older item.  So a walk   *)
(* for a permission ends.                                                  *)
TreeIsWellFounded ==
  \A n \in Nodes : \A v \in DOMAIN log[n] :
    LET p == log[n][v].row.parent
    IN p = NoParent \/ (p \in Nodes /\ p < n /\ log[p] # <<>>)

(* The ancestors kept with an item are its parent and the ancestors of     *)
(* this one, though they were read from a row that lags.                   *)
AncestorsAreParents ==
  \A n \in Nodes : \A v \in DOMAIN log[n] :
    LET row == log[n][v].row
    IN row.ancestors = IF row.parent = NoParent THEN <<>>
                       ELSE Append(log[row.parent][1].row.ancestors, row.parent)

(* This state of an item gives client c one of the roles, or leaves it to  *)
(* the parent.                                                             *)
Grants(row, c, roles) ==
  \/ row.permission[c] \in roles
  \/ row.permission[c] = "none" /\ row.inheritance /\ row.parent # NoParent

(* Between the check of a permission and the publication others publish:   *)
(* still no state of an item is replaced by a client whom this very state  *)
(* denies it, by its own permission or by inheriting none; unless the      *)
(* check read an older row than the one the call was built from: then that *)
(* older state allowed it.                                                 *)
ReplacedAsAllowed ==
  [][\A n \in Nodes : Len(log'[n]) > Len(log[n]) /\ log[n] # <<>> =>
       \E c \in Clients :
         LET r == call[c]
             checked == IF r.seen < r.version THEN r.seen ELSE Len(log[n])
         IN
         /\ r # Idle /\ call'[c] = Idle /\ r.item = n
         /\ checked \in DOMAIN log[n] /\ Grants(log[n][checked].row, c, r.roles)]_storeVars
=============================================================================
