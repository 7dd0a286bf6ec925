--------------------------- MODULE ReadYourWrites ---------------------------
(***************************************************************************)
(* Read-your-writes: Repository merges the commands a user published, and  *)
(* that the read models do not show yet, into what this user reads.        *)
(*                                                                         *)
(* publishAsync leaves a session row <user, item> with the version it      *)
(* published.  Repository.getItem, listItemsByPk (over the data table) and *)
(* listItems (over an external read model such as RDS) look the sessions   *)
(* up, show the command of a session that is ahead of the read model, and  *)
(* delete in the background a session that the read model caught up with.  *)
(* All of these reads are eventually consistent (getItem and the queries   *)
(* ask for no ConsistentRead): a data row may be read as any of its        *)
(* versions that not every copy of the table has passed, so that two reads *)
(* in a row may go back.  How the read models catch up is CommandSync's;   *)
(* here they just follow.                                                  *)
(***************************************************************************)
EXTENDS Integers, FiniteSets

CONSTANTS
  Users, Items,
  MaxVersion,   (* bound: the most commands for an item                     *)
  Faults        (* a subset of AllFaults                                    *)

AllFaults ==
  {"lost_session",  (* the session put fails, or the row's TTL passes       *)
   "late_purge",    (* the delete of a session is still under way when the  *)
                    (* user's next request starts                           *)
   "stale",         (* a session row or a command that was just put, or was *)
                    (* put again or deleted, is read as it was before       *)
   "rds_first"}     (* the external read model may be given a version before *)
                    (* the data table is: their handlers run in parallel    *)

ASSUME MaxVersionAssumption == MaxVersion \in Nat \ {0}
ASSUME FaultsAssumption == Faults \subseteq AllFaults
ASSUME ItemsAssumption == IsFiniteSet(Items)

VARIABLES
  author,   (* item -> version -> who published it, nobody if it is not     *)
  gone,     (* item -> its versions that are deletions (isDeleted)          *)
  data,     (* item -> version in the data table, 0 if none                 *)
  settled,  (* item -> the version that every copy of its data row has: a   *)
            (* read returns one from there to data[item]                    *)
  rds,      (* item -> version in the external read model, 0 if none        *)
  session,  (* user -> item -> version of the session row, 0 if none        *)
  purges,   (* the deletes of session rows that are under way: <<user, item>> *)
  req,      (* user -> the request that runs for this user                  *)
  shown,    (* user -> the last answer: item -> version, 0 if not shown; it *)
            (* is forgotten when the next request starts                    *)
  total,    (* user -> the total of that answer, when it is listItems'      *)
  floor     (* user -> item -> the version that this user published, or    *)
            (* read when it was settled, and has a right to go on seeing    *)

vars == <<author, gone, data, settled, rds, session, purges, req, shown, total, floor>>
tablesRW == <<author, gone, data, settled, rds>>

Nobody  == "nobody"
ASSUME UsersAssumption == Nobody \notin Users
Version == 1 .. MaxVersion
Views   == [Items -> 0 .. MaxVersion]
Ops     == {"idle", "session", "get", "list", "rds"}
Idle    == [op |-> "idle", on |-> {}, base |-> [i \in Items |-> 0], count |-> 0, v |-> 0]

Latest(i) == Cardinality({v \in Version : author[i][v] # Nobody})
InRds(i)  == rds[i] # 0 /\ rds[i] \notin gone[i]

Init ==
  /\ author = [i \in Items |-> [v \in Version |-> Nobody]]
  /\ gone = [i \in Items |-> {}]
  /\ data = [i \in Items |-> 0] /\ settled = [i \in Items |-> 0]
  /\ rds = [i \in Items |-> 0]
  /\ session = [u \in Users |-> [i \in Items |-> 0]]
  /\ purges = {}
  /\ req = [u \in Users |-> Idle]
  /\ shown = [u \in Users |-> [i \in Items |-> 0]]
  /\ total = [u \in Users |-> 0]
  /\ floor = [u \in Users |-> [i \in Items |-> 0]]

TypeOK ==
  /\ author \in [Items -> [Version -> Users \cup {Nobody}]]
  /\ gone \in [Items -> SUBSET Version]
  /\ data \in Views /\ settled \in Views /\ rds \in Views
  /\ session \in [Users -> Views]
  /\ purges \subseteq Users \X Items
  /\ req \in [Users -> [op : Ops, on : SUBSET Items, base : Views,
                        count : 0 .. Cardinality(Items), v : 0 .. MaxVersion]]
  /\ shown \in [Users -> Views]
  /\ total \in [Users -> Int]
  /\ floor \in [Users -> Views]

(***************************************************************************)
(* Requests.  A user sends one at a time; without "late_purge" its         *)
(* background deletes are over by then.                                    *)
(***************************************************************************)
MayStart(u) ==
  /\ req[u].op = "idle"
  /\ "late_purge" \in Faults \/ \A i \in Items : <<u, i>> \notin purges

Start(u, r) ==
  /\ MayStart(u)
  /\ req' = [req EXCEPT ![u] = r]
  /\ shown' = [shown EXCEPT ![u] = Idle.base]
  /\ total' = [total EXCEPT ![u] = 0]
Finish(u) == req' = [req EXCEPT ![u] = Idle]
Raise(u, view) ==
  floor' = [floor EXCEPT ![u] =
              [i \in Items |-> IF view[i] > @[i] THEN view[i] ELSE @[i]]]
RaiseRead(u) ==
  Raise(u, [i \in Items |-> IF shown'[u][i] <= settled[i] THEN shown'[u][i] ELSE 0])

(* publishAsync: the put of the command (conditional, so versions have one *)
(* author), then writeRywSessionIfApplicable, then the caller is told.     *)
PublishAsync(u, i, deletes) ==
  LET v == Latest(i) + 1 IN
  /\ v \in Version
  /\ Start(u, [Idle EXCEPT !.op = "session", !.on = {i}, !.v = v])
  /\ author' = [author EXCEPT ![i][v] = u]
  /\ gone' = [gone EXCEPT ![i] = IF deletes THEN @ \cup {v} ELSE @]
  /\ UNCHANGED <<data, settled, rds, session, purges, floor>>

(* Seeded bug: the key of the session row does not name the user.          *)
WriteSharedSession(u) ==
  /\ req[u].op = "session"
  /\ \E i \in req[u].on :
       /\ session' = [w \in Users |-> [session[w] EXCEPT ![i] = req[u].v]]
       /\ Raise(u, [j \in Items |-> IF j = i THEN req[u].v ELSE 0])
  /\ Finish(u)
  /\ UNCHANGED <<tablesRW, purges, shown, total>>

WriteSession(u) ==
  /\ req[u].op = "session"
  /\ \E i \in req[u].on :
       /\ session' = [session EXCEPT ![u][i] = req[u].v]
       /\ Raise(u, [j \in Items |-> IF j = i THEN req[u].v ELSE 0])
  /\ Finish(u)
  /\ UNCHANGED <<tablesRW, purges, shown, total>>

(* The TTL passes, or the put above failed and was swallowed: the promise  *)
(* to the user lapses.                                                     *)
LoseSession(u, i) ==
  /\ "lost_session" \in Faults
  /\ session[u][i] # 0
  /\ session' = [session EXCEPT ![u][i] = 0]
  /\ floor' = [floor EXCEPT ![u][i] = 0]
  /\ UNCHANGED <<tablesRW, purges, req, shown, total>>

(* The delete of a session row is unconditional: whatever version it has.  *)
(* Once the data table has what the user was promised, the user is left    *)
(* with what every copy of it has: one copy was enough for the delete.     *)
Purge(u, i) ==
  /\ <<u, i>> \in purges
  /\ purges' = purges \ {<<u, i>>}
  /\ session' = [session EXCEPT ![u][i] = 0]
  /\ floor' = [floor EXCEPT ![u][i] =
                 IF @ <= data[i] /\ @ > settled[i] THEN settled[i] ELSE @]
  /\ UNCHANGED <<tablesRW, req, shown, total>>

(* What a read of a session row, of a data row and of the command of a     *)
(* session may return.                                                     *)
OwnVersions(u, i) == {v \in Version : author[i][v] = u}
SessionRead(u, i) ==
  {session[u][i]} \cup (IF "stale" \in Faults THEN {0} \cup OwnVersions(u, i) ELSE {})
DataRead(i) == settled[i] .. data[i]
CommandsRead == IF "stale" \in Faults THEN SUBSET Items ELSE {Items}

(* getItem reads the session first, the data row next; without a session   *)
(* that is ahead of the row, or if its command is not found, it answers    *)
(* with the row, which in the last case it reads once more.                *)
GetSession(u, i) ==
  /\ \E s \in SessionRead(u, i) :
       Start(u, [Idle EXCEPT !.op = "get", !.on = {i}, !.v = s])
  /\ UNCHANGED <<tablesRW, session, purges, floor>>

(* Seeded bug: any row of the read model counts as caught up.              *)
CaughtUpAlways(s, v) == v > 0

(* The read model shows version v, the session is of version s.            *)
CaughtUp(s, v) == v > 0 /\ v >= s

(* Seeded bug: the version in the sort key is off by one.                  *)
MergedNext(s, v) == IF s = 0 \/ CaughtUp(s, v) THEN v ELSE s + 1

(* What is shown of an item, and whether its session is to be deleted: the *)
(* command of a stored session always exists.                              *)
Merged(s, v) == IF s = 0 \/ CaughtUp(s, v) THEN v ELSE s
Stale(s, v) == s # 0 /\ CaughtUp(s, v)

GetData(u) ==
  /\ req[u].op = "get"
  /\ \E i \in req[u].on : \E d, again \in DataRead(i), found \in CommandsRead :
       LET s == req[u].v
           answer == IF i \in found \/ CaughtUp(s, d) THEN Merged(s, d) ELSE again
       IN
       /\ shown' = [shown EXCEPT ![u] = [Idle.base EXCEPT ![i] = answer]]
       /\ purges' = IF Stale(s, d) THEN purges \cup {<<u, i>>} ELSE purges
  /\ RaiseRead(u)
  /\ Finish(u)
  /\ UNCHANGED <<tablesRW, session, total>>

(* The two lists first query a page of their read model: the rows that the *)
(* caller's key condition, filter and limit select.  The data table lists  *)
(* deleted rows too; the external one does not, and counts all its rows.   *)
ListQuery(u, page) ==
  /\ \E read \in Views :
       /\ \A i \in Items : IF i \in page THEN read[i] \in DataRead(i) ELSE read[i] = 0
       /\ Start(u, [Idle EXCEPT !.op = "list", !.on = page, !.base = read])
  /\ UNCHANGED <<tablesRW, session, purges, floor>>

RdsQuery(u, page) ==
  /\ Start(u, [Idle EXCEPT !.op = "rds", !.on = page,
                           !.base = [i \in Items |->
                                       IF i \in page /\ InRds(i) THEN rds[i] ELSE 0],
                           !.count = Cardinality({i \in Items : InRds(i)})])
  /\ UNCHANGED <<tablesRW, session, purges, floor>>

(* listItemsByPk merges on the rows it queried; a session whose command is *)
(* not found leaves its row as it is.                                      *)
ListMerge(u) ==
  LET base == req[u].base
      Shown(i, s, found) ==
        IF s = 0 \/ CaughtUp(s, base[i]) THEN Merged(s, base[i])
        ELSE IF ~found THEN base[i]
        ELSE IF s \in gone[i] THEN 0
        ELSE Merged(s, base[i])
  IN
  /\ req[u].op = "list"
  /\ \E s \in Views, found \in CommandsRead :
       /\ \A i \in Items : s[i] \in SessionRead(u, i)
       /\ shown' = [shown EXCEPT ![u] = [i \in Items |-> Shown(i, s[i], i \in found)]]
       /\ purges' = purges \cup {<<u, i>> : i \in {j \in Items : Stale(s[j], base[j])}}
  /\ RaiseRead(u)
  /\ Finish(u)
  /\ UNCHANGED <<tablesRW, session, total>>

(* Seeded bug: a pending deletion is counted off even if it is not listed. *)
DeltaUnchecked(i, s, b, hidden) ==
  IF s \in gone[i] THEN -1 ELSE IF b = 0 /\ ~hidden THEN 1 ELSE 0

(* What a pending command adds to the total.                               *)
Delta(i, s, b, hidden) ==
  IF s \in gone[i] THEN (IF b # 0 THEN -1 ELSE 0)
  ELSE IF b = 0 /\ ~hidden THEN 1 ELSE 0

(* listItems merges on the rows it queried, but asks the data table        *)
(* whether the session is still needed; a new item is shown if the         *)
(* caller's matchesFilter lets it through.                                 *)
RdsMerge(u) ==
  LET base == req[u].base IN
  /\ req[u].op = "rds"
  /\ \E s, read \in Views, found \in CommandsRead, hidden \in SUBSET (Items \ req[u].on) :
       LET Synced(i) == s[i] # 0 /\ (CaughtUp(s[i], base[i]) \/ CaughtUp(s[i], read[i]))
           changed == {i \in found : s[i] # 0 /\ ~Synced(i)}
           change(n) == Cardinality({i \in changed : Delta(i, s[i], base[i], i \in hidden) = n})
           Shown(i) == IF i \notin changed THEN base[i]
                       ELSE IF s[i] \in gone[i] \/ (base[i] = 0 /\ i \in hidden) THEN 0
                       ELSE s[i]
       IN
       /\ \A i \in Items : s[i] \in SessionRead(u, i) /\ read[i] \in DataRead(i)
       /\ shown' = [shown EXCEPT ![u] = [i \in Items |-> Shown(i)]]
       /\ total' = [total EXCEPT ![u] = req[u].count + change(1) - change(-1)]
       /\ purges' = purges \cup {<<u, i>> : i \in {j \in Items : Synced(j)}}
  /\ Finish(u)
  /\ UNCHANGED <<tablesRW, session, floor>>

(* The read models follow the command table version by version, the        *)
(* external one at any distance; the copies of the data table follow it.   *)
SyncData(i) ==
  /\ data[i] < Latest(i)
  /\ data' = [data EXCEPT ![i] = @ + 1]
  /\ UNCHANGED <<author, gone, settled, rds, session, purges, req, shown, total, floor>>

Settle(i) ==
  /\ settled[i] < data[i]
  /\ settled' = [settled EXCEPT ![i] = @ + 1]
  /\ UNCHANGED <<author, gone, data, rds, session, purges, req, shown, total, floor>>

SyncRds(i) ==
  /\ rds[i] < Latest(i)
  /\ rds[i] < data[i] \/ ("rds_first" \in Faults /\ rds[i] = data[i])
  /\ rds' = [rds EXCEPT ![i] = @ + 1]
  /\ UNCHANGED <<author, gone, data, settled, session, purges, req, shown, total, floor>>

Read(u) ==
  \/ \E i \in Items : GetSession(u, i)
  \/ GetData(u)
  \/ \E page \in SUBSET Items : ListQuery(u, page) \/ RdsQuery(u, page)
  \/ ListMerge(u) \/ RdsMerge(u)

Next ==
  \/ \E u \in Users :
       \/ \E i \in Items : \/ \E d \in BOOLEAN : PublishAsync(u, i, d)
                           \/ LoseSession(u, i) \/ Purge(u, i)
       \/ WriteSession(u) \/ Read(u)
  \/ \E i \in Items : SyncData(i) \/ Settle(i) \/ SyncRds(i)

Spec == Init /\ [][Next]_vars

(***************************************************************************)
(* Properties.                                                             *)
(***************************************************************************)
Answers(u, op) == req[u].op = op /\ req'[u].op = "idle"

(* getItem never shows a user an older state than one this user was told   *)
(* of, whoever else publishes, however far the data table lags and however *)
(* old the row that is read: until the session row is lost, or is deleted  *)
(* when the data table has that state; from then on the user is shown at   *)
(* least what every copy of the table had by then, or had when it was read.*)
GetSeesOwnWrites ==
  [][\A u \in Users : Answers(u, "get") =>
       \A i \in req[u].on : shown'[u][i] >= floor[u][i]]_vars

(* Neither does listItemsByPk: an item it lists is as new, and one that it *)
(* leaves out of its page is deleted, or was settled before it was queried.*)
ListSeesOwnWrites ==
  [][\A u \in Users : Answers(u, "list") =>
       \A i \in Items :
         IF shown'[u][i] # 0 THEN shown'[u][i] >= floor[u][i]
         ELSE \/ settled[i] >= floor[u][i]
              \/ \E v \in gone[i] : v >= floor[u][i]]_vars

(* A command that is not synced yet is shown to its author only.           *)
PendingIsPrivate ==
  \A u \in Users, i \in Items :
    shown[u][i] > data[i] /\ shown[u][i] > rds[i] => author[i][shown[u][i]] = u

(* When the page holds every row, the total of listItems is the number of  *)
(* the items it lists, whatever was merged.                                *)
TotalIsListed ==
  [][\A u \in Users : Answers(u, "rds") /\ req[u].on = Items =>
       total'[u] = Cardinality({i \in Items : shown'[u][i] # 0})]_vars
=============================================================================
