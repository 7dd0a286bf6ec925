------------------------ MODULE ReadYourWritesProofs ------------------------
(***************************************************************************)
(* What a user reads includes what this user wrote, and nobody else's      *)
(* pending commands: proved for any number of users, items and versions.   *)
(***************************************************************************)
EXTENDS ReadYourWrites, FiniteSetTheorems, TLAPS

USE MaxVersionAssumption, UsersAssumption DEF Version, Nobody

(* The versions of an item have no gap, and no read model is ahead.        *)
Issued(i) == {v \in Version : author[i][v] # Nobody}
IssuedInOrder ==
  \A i \in Items :
    /\ \E k \in 0 .. MaxVersion : Issued(i) = 1 .. k
    /\ settled[i] <= data[i] /\ data[i] <= Latest(i) /\ rds[i] <= Latest(i)

(* What a user's session row says, and a request of this user took from it *)
(* or is to write into it, is a version that this user published.          *)
Own(u, i, v) == v # 0 => author[i][v] = u
SessionsAreOwn(u) ==
  /\ \A i \in Items : Own(u, i, session[u][i])
  /\ req[u].op \in {"session", "get"} => \A i \in req[u].on : Own(u, i, req[u].v)

(* A page under way shows no more than the read model it came from.        *)
PageIsKnown(u) ==
  \A i \in Items :
    /\ req[u].op = "list" => req[u].base[i] <= data[i]
    /\ req[u].op = "rds" => req[u].base[i] <= rds[i]

(* A page with every row counts the rows it has.                           *)
Listed(view) == {i \in Items : view[i] # 0}
PageIsCounted(u) ==
  req[u].op = "rds" /\ req[u].on = Items => req[u].count = Cardinality(Listed(req[u].base))

ShownIsKnown(u) ==
  \A i \in Items :
    shown[u][i] > data[i] /\ shown[u][i] > rds[i] => author[i][shown[u][i]] = u

UserReads(u) == SessionsAreOwn(u) /\ PageIsKnown(u) /\ PageIsCounted(u) /\ ShownIsKnown(u)

ReadInv ==
  /\ TypeOK
  /\ IssuedInOrder
  /\ \A u \in Users : UserReads(u)

-----------------------------------------------------------------------------
(***************************************************************************)
(* Types.                                                                  *)
(***************************************************************************)
Request == [op : Ops, on : SUBSET Items, base : Views,
            count : 0 .. Cardinality(Items), v : 0 .. MaxVersion]

LEMMA CountType ==
  ASSUME NEW S, S \subseteq Items
  PROVE  IsFiniteSet(S) /\ Cardinality(S) \in 0 .. Cardinality(Items)
<1>1. /\ IsFiniteSet(S)
      /\ Cardinality(S) <= Cardinality(Items)
  BY ItemsAssumption, FS_Subset
<1>. QED BY <1>1, ItemsAssumption, FS_CardinalityType

LEMMA IdleType == Idle \in Request /\ Idle.base \in Views
<1>1. Cardinality(Items) \in Nat
  BY ItemsAssumption, FS_CardinalityType
<1>. QED BY <1>1 DEF Idle, Request, Ops, Views

LEMMA RequestTypes ==
  ASSUME NEW o \in Ops, NEW S \in SUBSET Items, NEW n \in 0 .. MaxVersion
  PROVE  [Idle EXCEPT !.op = o, !.on = S, !.v = n] \in Request
BY IdleType DEF Request

LEMMA LatestType ==
  ASSUME NEW i \in Items
  PROVE  Latest(i) \in 0 .. MaxVersion
<1>1. {v \in Version : author[i][v] # Nobody} \in SUBSET (1 .. MaxVersion)
  OBVIOUS
<1>2. /\ IsFiniteSet(1 .. MaxVersion)
      /\ Cardinality(1 .. MaxVersion) = IF 1 > MaxVersion THEN 0 ELSE MaxVersion - 1 + 1
  BY FS_Interval
<1>3. /\ IsFiniteSet({v \in Version : author[i][v] # Nobody})
      /\ Cardinality({v \in Version : author[i][v] # Nobody}) <= Cardinality(1 .. MaxVersion)
  BY <1>1, <1>2, FS_Subset
<1>4. Cardinality({v \in Version : author[i][v] # Nobody}) \in Nat
  BY <1>3, FS_CardinalityType
<1>. QED BY <1>2, <1>3, <1>4 DEF Latest

LEMMA StartTypes ==
  ASSUME TypeOK, NEW u \in Users, NEW r \in Request, Start(u, r)
  PROVE  /\ req' \in [Users -> Request]
         /\ shown' \in [Users -> Views]
         /\ total' \in [Users -> Int]
BY IdleType DEF TypeOK, Start, Request

LEMMA FinishTypes ==
  ASSUME TypeOK, NEW u \in Users, Finish(u)
  PROVE  req' \in [Users -> Request]
BY IdleType DEF TypeOK, Finish, Request

LEMMA RaiseTypes ==
  ASSUME TypeOK, NEW u \in Users, NEW view \in Views, Raise(u, view)
  PROVE  floor' \in [Users -> Views]
BY DEF TypeOK, Raise, Views

LEMMA RaiseReadTypes ==
  ASSUME TypeOK, NEW u \in Users, RaiseRead(u), shown' \in [Users -> Views]
  PROVE  floor' \in [Users -> Views]
<1>1. [i \in Items |-> IF shown'[u][i] <= settled[i] THEN shown'[u][i] ELSE 0] \in Views
  BY DEF Views
<1>. QED BY <1>1, RaiseTypes DEF RaiseRead

LEMMA TypesInit == Init => TypeOK
<1>. SUFFICES ASSUME Init PROVE TypeOK
  OBVIOUS
<1>1. [i \in Items |-> 0] \in Views
  BY DEF Views
<1>2. req \in [Users -> Request]
  BY IdleType DEF Init
<1>. QED BY <1>1, <1>2 DEF Init, TypeOK, Request

LEMMA WriteTypes ==
  ASSUME TypeOK, NEW u \in Users, NEW i \in Items,
         \/ \E d \in BOOLEAN : PublishAsync(u, i, d)
         \/ LoseSession(u, i) \/ Purge(u, i) \/ WriteSession(u)
  PROVE  TypeOK'
<1>1. ASSUME NEW d \in BOOLEAN, PublishAsync(u, i, d) PROVE TypeOK'
  <2>. DEFINE v == Latest(i) + 1
              r == [Idle EXCEPT !.op = "session", !.on = {i}, !.v = v]
  <2>1. v \in Version
    BY <1>1 DEF PublishAsync
  <2>2. r \in Request
    <3>1. v \in 0 .. MaxVersion /\ "session" \in Ops /\ {i} \in SUBSET Items
      BY <2>1 DEF Ops
    <3>. QED BY <3>1, RequestTypes
  <2>3. /\ req' \in [Users -> Request] /\ shown' \in [Users -> Views]
        /\ total' \in [Users -> Int]
    BY <1>1, <2>2, StartTypes DEF PublishAsync
  <2>. HIDE DEF v
  <2>4. author' = [author EXCEPT ![i][v] = u]
        /\ gone' = [gone EXCEPT ![i] = IF d THEN @ \cup {v} ELSE @]
    BY <1>1 DEF PublishAsync, v
  <2>5. author' \in [Items -> [Version -> Users \cup {Nobody}]]
    BY <2>1, <2>4 DEF TypeOK
  <2>6. gone' \in [Items -> SUBSET Version]
    BY <2>1, <2>4 DEF TypeOK
  <2>. QED BY <1>1, <2>3, <2>5, <2>6 DEF PublishAsync, TypeOK, Request
<1>2. CASE LoseSession(u, i)
  <2>1. session' \in [Users -> Views] /\ floor' \in [Users -> Views]
    BY <1>2 DEF LoseSession, TypeOK, Views
  <2>. QED BY <1>2, <2>1 DEF LoseSession, TypeOK, tablesRW
<1>3. CASE Purge(u, i)
  <2>1. session' \in [Users -> Views] /\ floor' \in [Users -> Views]
    BY <1>3 DEF Purge, TypeOK, Views
  <2>. QED BY <1>3, <2>1 DEF Purge, TypeOK, tablesRW
<1>4. CASE WriteSession(u)
  <2>1. PICK j \in req[u].on :
          /\ session' = [session EXCEPT ![u][j] = req[u].v]
          /\ Raise(u, [k \in Items |-> IF k = j THEN req[u].v ELSE 0])
    BY <1>4 DEF WriteSession
  <2>2. j \in Items /\ req[u].v \in 0 .. MaxVersion
    BY <2>1 DEF TypeOK
  <2>3. session' \in [Users -> Views]
    BY <2>1, <2>2 DEF TypeOK, Views
  <2>4. [k \in Items |-> IF k = j THEN req[u].v ELSE 0] \in Views
    BY <2>2 DEF Views
  <2>5. floor' \in [Users -> Views]
    BY <2>1, <2>4, RaiseTypes
  <2>6. req' \in [Users -> Request]
    BY <1>4, FinishTypes DEF WriteSession
  <2>. QED BY <1>4, <2>3, <2>5, <2>6 DEF WriteSession, TypeOK, Request, tablesRW
<1>. QED BY <1>1, <1>2, <1>3, <1>4

LEMMA SessionReadTypes ==
  ASSUME TypeOK, NEW u \in Users, NEW i \in Items, NEW s \in SessionRead(u, i)
  PROVE  s \in 0 .. MaxVersion
BY DEF SessionRead, OwnVersions, TypeOK, Views

LEMMA DataReadTypes ==
  ASSUME TypeOK, NEW i \in Items, NEW d \in DataRead(i)
  PROVE  d \in 0 .. MaxVersion /\ settled[i] <= d /\ d <= data[i]
BY DEF DataRead, TypeOK, Views

LEMMA StartReadTypes ==
  ASSUME TypeOK, NEW u \in Users,
         \/ \E i \in Items : GetSession(u, i)
         \/ \E page \in SUBSET Items : ListQuery(u, page) \/ RdsQuery(u, page)
  PROVE  TypeOK'
<1>1. ASSUME NEW i \in Items, GetSession(u, i) PROVE TypeOK'
  <2>1. PICK s \in SessionRead(u, i) :
          Start(u, [Idle EXCEPT !.op = "get", !.on = {i}, !.v = s])
    BY <1>1 DEF GetSession
  <2>2. [Idle EXCEPT !.op = "get", !.on = {i}, !.v = s] \in Request
    <3>1. s \in 0 .. MaxVersion /\ "get" \in Ops /\ {i} \in SUBSET Items
      BY SessionReadTypes DEF Ops
    <3>. QED BY <3>1, RequestTypes
  <2>3. /\ req' \in [Users -> Request] /\ shown' \in [Users -> Views]
        /\ total' \in [Users -> Int]
    BY <2>1, <2>2, StartTypes
  <2>. QED BY <1>1, <2>3 DEF GetSession, TypeOK, Request, tablesRW
<1>2. ASSUME NEW page \in SUBSET Items, ListQuery(u, page) PROVE TypeOK'
  <2>1. PICK b \in Views : Start(u, [Idle EXCEPT !.op = "list", !.on = page, !.base = b])
    BY <1>2 DEF ListQuery
  <2>2. [Idle EXCEPT !.op = "list", !.on = page, !.base = b] \in Request
    BY IdleType DEF Request, Ops
  <2>3. /\ req' \in [Users -> Request] /\ shown' \in [Users -> Views]
        /\ total' \in [Users -> Int]
    BY <2>1, <2>2, StartTypes
  <2>. QED BY <1>2, <2>3 DEF ListQuery, TypeOK, Request, tablesRW
<1>3. ASSUME NEW page \in SUBSET Items, RdsQuery(u, page) PROVE TypeOK'
  <2>. DEFINE b == [i \in Items |-> IF i \in page /\ InRds(i) THEN rds[i] ELSE 0]
              n == Cardinality({i \in Items : InRds(i)})
  <2>1. b \in Views
    BY DEF TypeOK, Views
  <2>2. n \in 0 .. Cardinality(Items)
    BY CountType
  <2>3. [Idle EXCEPT !.op = "rds", !.on = page, !.base = b, !.count = n] \in Request
    BY <2>1, <2>2, IdleType DEF Request, Ops
  <2>4. /\ req' \in [Users -> Request] /\ shown' \in [Users -> Views]
        /\ total' \in [Users -> Int]
    BY <1>3, <2>3, StartTypes DEF RdsQuery
  <2>. QED BY <1>3, <2>4 DEF RdsQuery, TypeOK, Request, tablesRW
<1>. QED BY <1>1, <1>2, <1>3

(* A merge of a session of version s into a row of version b.              *)
LEMMA MergedCases ==
  ASSUME NEW s \in 0 .. MaxVersion, NEW b \in 0 .. MaxVersion
  PROVE  /\ s = 0 \/ CaughtUp(s, b) => Merged(s, b) = b /\ b >= s
         /\ s # 0 /\ ~CaughtUp(s, b) => Merged(s, b) = s /\ (b = 0 \/ b < s)
<1>1. s \in Nat /\ b \in Nat
  OBVIOUS
<1>. QED BY <1>1 DEF Merged, CaughtUp

(* What getItem answers from the row it read, from the command if it was   *)
(* found, and from the row it read again.                                  *)
GetShown(u, i, d, again, found) ==
  IF i \in found \/ CaughtUp(req[u].v, d) THEN Merged(req[u].v, d) ELSE again

GetAnswer(u, i, d, again, found) ==
  /\ i \in req[u].on /\ d \in DataRead(i) /\ again \in DataRead(i)
  /\ shown' = [shown EXCEPT ![u] = [Idle.base EXCEPT ![i] = GetShown(u, i, d, again, found)]]
  /\ purges' = IF Stale(req[u].v, d) THEN purges \cup {<<u, i>>} ELSE purges

LEMMA GetAnswers ==
  ASSUME TypeOK, NEW u \in Users, GetData(u)
  PROVE  \E i \in Items, d, again \in 0 .. MaxVersion, found \in CommandsRead :
           GetAnswer(u, i, d, again, found)
<1>1. PICK i \in req[u].on :
        \E d, again \in DataRead(i), found \in CommandsRead :
          GetAnswer(u, i, d, again, found)
  BY DEF GetData, GetAnswer, GetShown
<1>2. i \in Items
  BY DEF TypeOK
<1>. QED BY <1>1, <1>2, DataReadTypes

(* The parts of listItems' merge: the items whose session it applies, what *)
(* it shows of an item, and the items that change the total by n.          *)
RdsSynced(u, s, read, i) ==
  s[i] # 0 /\ (CaughtUp(s[i], req[u].base[i]) \/ CaughtUp(s[i], read[i]))
RdsChanged(u, s, read, found) ==
  {i \in found \cap Items : s[i] # 0 /\ ~RdsSynced(u, s, read, i)}
RdsShown(u, s, read, found, hidden, i) ==
  IF i \notin RdsChanged(u, s, read, found) THEN req[u].base[i]
  ELSE IF s[i] \in gone[i] \/ (req[u].base[i] = 0 /\ i \in hidden) THEN 0
  ELSE s[i]
RdsCounted(u, s, read, found, hidden, n) ==
  {i \in RdsChanged(u, s, read, found) : Delta(i, s[i], req[u].base[i], i \in hidden) = n}

RdsAnswer(u, s, read, found, hidden) ==
  /\ \A i \in Items : s[i] \in SessionRead(u, i) /\ read[i] \in DataRead(i)
  /\ shown' = [shown EXCEPT ![u] =
                 [i \in Items |-> RdsShown(u, s, read, found, hidden, i)]]
  /\ total' = [total EXCEPT ![u] =
                 req[u].count + Cardinality(RdsCounted(u, s, read, found, hidden, 1))
                              - Cardinality(RdsCounted(u, s, read, found, hidden, -1))]
  /\ purges' = purges \cup {<<u, i>> : i \in {j \in Items : RdsSynced(u, s, read, j)}}

LEMMA RdsMerges ==
  ASSUME TypeOK, NEW u \in Users, RdsMerge(u)
  PROVE  \E s, read \in Views, found \in CommandsRead, hidden \in SUBSET (Items \ req[u].on) :
           RdsAnswer(u, s, read, found, hidden)
<1>1. \A found \in CommandsRead : found \subseteq Items
  BY DEF CommandsRead
<1>. DEFINE Synced(s, read, i) ==
              s[i] # 0 /\ (CaughtUp(s[i], req[u].base[i]) \/ CaughtUp(s[i], read[i]))
            Changed(s, read, found) == {i \in found : s[i] # 0 /\ ~Synced(s, read, i)}
<1>2. PICK s \in Views, read \in Views, found \in CommandsRead,
           hidden \in SUBSET (Items \ req[u].on) :
        /\ \A i \in Items : s[i] \in SessionRead(u, i) /\ read[i] \in DataRead(i)
        /\ shown' = [shown EXCEPT ![u] = [i \in Items |->
             IF i \notin Changed(s, read, found) THEN req[u].base[i]
             ELSE IF s[i] \in gone[i] \/ (req[u].base[i] = 0 /\ i \in hidden) THEN 0
             ELSE s[i]]]
        /\ total' = [total EXCEPT ![u] = req[u].count
             + Cardinality({i \in Changed(s, read, found) :
                              Delta(i, s[i], req[u].base[i], i \in hidden) = 1})
             - Cardinality({i \in Changed(s, read, found) :
                              Delta(i, s[i], req[u].base[i], i \in hidden) = -1})]
        /\ purges' = purges \cup {<<u, i>> : i \in {j \in Items : Synced(s, read, j)}}
  BY DEF RdsMerge
<1>3. /\ \A i : Synced(s, read, i) <=> RdsSynced(u, s, read, i)
      /\ Changed(s, read, found) = RdsChanged(u, s, read, found)
  BY <1>1 DEF RdsSynced, RdsChanged
<1>. HIDE DEF Synced, Changed
<1>4. RdsAnswer(u, s, read, found, hidden)
  BY <1>2, <1>3 DEF RdsAnswer, RdsShown, RdsCounted
<1>. QED BY <1>2, <1>4

LEMMA MergeTypes ==
  ASSUME TypeOK, NEW u \in Users, GetData(u) \/ ListMerge(u) \/ RdsMerge(u)
  PROVE  TypeOK'
<1>1. req' \in [Users -> Request]
  BY FinishTypes DEF GetData, ListMerge, RdsMerge
<1>2. purges' \subseteq Users \X Items
  <2>1. purges \subseteq Users \X Items /\ req[u].on \subseteq Items
    BY DEF TypeOK
  <2>2. CASE GetData(u)
    BY <2>1, <2>2 DEF GetData
  <2>3. CASE ListMerge(u)
    BY <2>1, <2>3 DEF ListMerge
  <2>4. CASE RdsMerge(u)
    BY <2>1, <2>4 DEF RdsMerge
  <2>. QED BY <2>2, <2>3, <2>4
<1>3. CASE GetData(u)
  <2>1. PICK i \in Items, d \in 0 .. MaxVersion, again \in 0 .. MaxVersion,
             found \in CommandsRead : GetAnswer(u, i, d, again, found)
    BY <1>3, GetAnswers
  <2>. DEFINE answer == GetShown(u, i, d, again, found)
  <2>2. /\ i \in Items /\ req[u].v \in 0 .. MaxVersion
        /\ d \in 0 .. MaxVersion /\ again \in 0 .. MaxVersion
    BY <2>1 DEF TypeOK
  <2>3. answer \in 0 .. MaxVersion
    BY <2>2 DEF Merged, GetShown
  <2>. HIDE DEF answer
  <2>4. [Idle.base EXCEPT ![i] = answer] \in Views
    BY <2>2, <2>3, IdleType DEF Views
  <2>5. shown' \in [Users -> Views]
    BY <2>1, <2>4 DEF TypeOK, GetAnswer, answer
  <2>6. floor' \in [Users -> Views]
    BY <1>3, <2>5, RaiseReadTypes DEF GetData
  <2>. QED BY <1>1, <1>2, <1>3, <2>5, <2>6 DEF GetData, TypeOK, Request, tablesRW
<1>4. CASE ListMerge(u)
  <2>. DEFINE base == req[u].base
              Shown(i, s, found) ==
                IF s = 0 \/ CaughtUp(s, base[i]) THEN Merged(s, base[i])
                ELSE IF ~found THEN base[i]
                ELSE IF s \in gone[i] THEN 0
                ELSE Merged(s, base[i])
  <2>1. PICK s \in Views, found \in CommandsRead :
          shown' = [shown EXCEPT ![u] = [i \in Items |-> Shown(i, s[i], i \in found)]]
    BY <1>4 DEF ListMerge
  <2>2. \A i \in Items : base[i] \in 0 .. MaxVersion /\ s[i] \in 0 .. MaxVersion
    BY <2>1 DEF TypeOK, Views
  <2>3. \A i \in Items : Shown(i, s[i], i \in found) \in 0 .. MaxVersion
    BY <2>2 DEF Merged
  <2>. HIDE DEF Shown
  <2>4. [i \in Items |-> Shown(i, s[i], i \in found)] \in Views
    BY <2>3 DEF Views
  <2>5. shown' \in [Users -> Views]
    BY <2>1, <2>4 DEF TypeOK
  <2>6. floor' \in [Users -> Views]
    BY <1>4, <2>5, RaiseReadTypes DEF ListMerge
  <2>. QED BY <1>1, <1>2, <1>4, <2>5, <2>6 DEF ListMerge, TypeOK, Request, tablesRW
<1>5. CASE RdsMerge(u)
  <2>1. PICK s \in Views, read \in Views, found \in CommandsRead,
             hidden \in SUBSET (Items \ req[u].on) :
          RdsAnswer(u, s, read, found, hidden)
    BY <1>5, RdsMerges
  <2>. DEFINE base == req[u].base
              Shown(i) == RdsShown(u, s, read, found, hidden, i)
  <2>2. \A i \in Items : base[i] \in 0 .. MaxVersion /\ s[i] \in 0 .. MaxVersion
    BY <2>1 DEF TypeOK, Views
  <2>3. \A i \in Items : Shown(i) \in 0 .. MaxVersion
    BY <2>2 DEF RdsShown
  <2>4. \A n : Cardinality(RdsCounted(u, s, read, found, hidden, n)) \in Int
    <3>1. \A n : RdsCounted(u, s, read, found, hidden, n) \subseteq Items
      BY DEF RdsCounted, RdsChanged
    <3>. QED BY <3>1, CountType, ItemsAssumption, FS_CardinalityType
  <2>. HIDE DEF Shown
  <2>5. [i \in Items |-> Shown(i)] \in Views
    BY <2>3 DEF Views
  <2>6. shown' \in [Users -> Views]
    BY <2>1, <2>5 DEF TypeOK, RdsAnswer, Shown
  <2>7. req[u].count \in Int
    BY DEF TypeOK
  <2>8. total' \in [Users -> Int]
    BY <2>1, <2>4, <2>7 DEF TypeOK, RdsAnswer
  <2>. QED BY <1>1, <1>2, <1>5, <2>6, <2>8 DEF RdsMerge, TypeOK, Request, tablesRW
<1>. QED BY <1>3, <1>4, <1>5

LEMMA SyncTypes ==
  ASSUME TypeOK, NEW i \in Items, SyncData(i) \/ Settle(i) \/ SyncRds(i)
  PROVE  TypeOK'
<1>1. Latest(i) \in 0 .. MaxVersion
  BY LatestType
<1>2. CASE SyncData(i)
  <2>1. data' \in Views
    BY <1>1, <1>2 DEF SyncData, TypeOK, Views
  <2>. QED BY <1>2, <2>1 DEF SyncData, TypeOK
<1>3. CASE SyncRds(i)
  <2>1. rds' \in Views
    BY <1>1, <1>3 DEF SyncRds, TypeOK, Views
  <2>. QED BY <1>3, <2>1 DEF SyncRds, TypeOK
<1>4. CASE Settle(i)
  <2>1. settled' \in Views
    BY <1>4 DEF Settle, TypeOK, Views
  <2>. QED BY <1>4, <2>1 DEF Settle, TypeOK
<1>. QED BY <1>2, <1>3, <1>4

LEMMA TypesStep == TypeOK /\ [Next]_vars => TypeOK'
<1>1. TypeOK /\ UNCHANGED vars => TypeOK'
  BY DEF TypeOK, vars
<1>2. ASSUME TypeOK, NEW u \in Users, WriteSession(u) PROVE TypeOK'
  <2>1. \E i \in Items : TRUE
    BY <1>2 DEF WriteSession, TypeOK
  <2>. QED BY <1>2, <2>1, WriteTypes
<1>. QED
  BY <1>1, <1>2, WriteTypes, StartReadTypes, MergeTypes, SyncTypes DEF Next, Read

-----------------------------------------------------------------------------
(***************************************************************************)
(* What a step does to the tables, and to the users other than its own.    *)
(***************************************************************************)
LEMMA IntervalCount ==
  ASSUME NEW n \in Nat
  PROVE  Cardinality(1 .. n) = n
<1>1. Cardinality(1 .. n) = IF 1 > n THEN 0 ELSE n - 1 + 1
  BY FS_Interval
<1>. QED BY <1>1

(* The latest version of commands without gaps is the last of them.        *)
LEMMA LatestIs ==
  ASSUME NEW i \in Items, NEW k \in 0 .. MaxVersion, Issued(i) = 1 .. k
  PROVE  Latest(i) = k
<1>1. Cardinality(1 .. k) = k
  BY IntervalCount
<1>2. Latest(i) = Cardinality(Issued(i))
  BY DEF Latest, Issued
<1>. QED BY <1>1, <1>2

(* Commands are issued without gaps, so the latest one tells them all.     *)
LEMMA IssuedIs ==
  ASSUME IssuedInOrder, NEW i \in Items
  PROVE  Issued(i) = 1 .. Latest(i) /\ Latest(i) \in 0 .. MaxVersion
BY LatestIs DEF IssuedInOrder

(* A version that somebody published keeps its author, and the read models *)
(* do not go back.                                                         *)
TablesGrow ==
  \A i \in Items :
    /\ data[i] <= data'[i] /\ settled[i] <= settled'[i]
    /\ rds[i] <= rds'[i] /\ Latest(i) <= Latest(i)'
    /\ \A v \in Version : author[i][v] # Nobody => author'[i][v] = author[i][v]

(* A publish issues the next version, and no other.                        *)
LEMMA PublishGrows ==
  ASSUME TypeOK, IssuedInOrder, NEW u \in Users, NEW i \in Items, NEW d \in BOOLEAN,
         PublishAsync(u, i, d)
  PROVE  TablesGrow /\ IssuedInOrder'
<1>. DEFINE k == Latest(i)
<1>1. Issued(i) = 1 .. k /\ k \in 0 .. MaxVersion /\ k + 1 \in Version
  BY IssuedIs DEF PublishAsync
<1>2. author' = [author EXCEPT ![i][k + 1] = u] /\ UNCHANGED <<data, settled, rds>>
  BY DEF PublishAsync
<1>. HIDE DEF k
<1>3. \A j \in Items : j # i => author'[j] = author[j]
  BY <1>2 DEF TypeOK
<1>4. \A v \in Version : author'[i][v] = IF v = k + 1 THEN u ELSE author[i][v]
  BY <1>2 DEF TypeOK
<1>5. Issued(i)' = Issued(i) \cup {k + 1}
  BY <1>1, <1>4 DEF Issued
<1>6. Issued(i)' = 1 .. (k + 1) /\ k + 1 \in 0 .. MaxVersion
  BY <1>1, <1>5
<1>7. Latest(i)' = k + 1
  <2>1. Cardinality(1 .. (k + 1)) = k + 1
    BY <1>1, IntervalCount
  <2>2. Latest(i)' = Cardinality(Issued(i)')
    BY DEF Latest, Issued
  <2>. QED BY <1>6, <2>1, <2>2
<1>8. \A j \in Items : j # i => Latest(j)' = Latest(j) /\ Issued(j)' = Issued(j)
  BY <1>3 DEF Latest, Issued
<1>9. \A v \in Version : author[i][v] # Nobody => v # k + 1
  <2>1. k + 1 \notin Issued(i)
    BY <1>1
  <2>. QED BY <2>1 DEF Issued
<1>10. data \in Views /\ settled \in Views /\ rds \in Views /\ \A j \in Items : Latest(j) \in 0 .. MaxVersion
  BY LatestType DEF TypeOK
<1>11. TablesGrow
  <2>1. \A j \in Items : data[j] <= data'[j] /\ settled[j] <= settled'[j] /\ rds[j] <= rds'[j]
    BY <1>2, <1>10 DEF Views
  <2>2. \A j \in Items : Latest(j) <= Latest(j)'
    BY <1>1, <1>7, <1>8, <1>10 DEF k
  <2>. QED BY <1>3, <1>4, <1>9, <2>1, <2>2 DEF TablesGrow
<1>12. IssuedInOrder'
  <2>1. \A j \in Items : \E n \in 0 .. MaxVersion : Issued(j)' = 1 .. n
    BY <1>6, <1>8 DEF IssuedInOrder
  <2>2. \A j \in Items : settled[j] <= data[j] /\ data[j] <= Latest(j) /\ rds[j] <= Latest(j)
    BY DEF IssuedInOrder
  <2>3. \A j \in Items : data'[j] <= Latest(j)' /\ rds'[j] <= Latest(j)'
    <3>. SUFFICES ASSUME NEW j \in Items
                  PROVE  data'[j] <= Latest(j)' /\ rds'[j] <= Latest(j)'
      OBVIOUS
    <3>1. /\ data'[j] = data[j] /\ rds'[j] = rds[j] /\ data[j] <= Latest(j) /\ rds[j] <= Latest(j)
          /\ data[j] \in Nat /\ rds[j] \in Nat /\ Latest(j) \in Nat
      BY <1>2, <1>10, <2>2 DEF Views
    <3>2. Latest(j)' = Latest(j) \/ (j = i /\ Latest(j)' = Latest(j) + 1)
      BY <1>7, <1>8 DEF k
    <3>. QED BY <3>1, <3>2
  <2>4. \A j \in Items : settled'[j] <= data'[j]
    BY <1>2, <2>2
  <2>5. ASSUME NEW j \in Items
        PROVE  /\ \E n \in 0 .. MaxVersion : Issued(j)' = 1 .. n
               /\ settled'[j] <= data'[j] /\ data'[j] <= Latest(j)' /\ rds'[j] <= Latest(j)'
    BY <2>1, <2>3, <2>4
  <2>. QED BY <2>5 DEF IssuedInOrder
<1>. QED BY <1>11, <1>12

(* The read models move only forward.                                      *)
LEMMA SyncGrows ==
  ASSUME TypeOK, IssuedInOrder, NEW i \in Items, SyncData(i) \/ Settle(i) \/ SyncRds(i)
  PROVE  TablesGrow /\ IssuedInOrder'
<1>1. author' = author
  BY DEF SyncData, Settle, SyncRds
<1>2. \A j \in Items : Latest(j)' = Latest(j) /\ Issued(j)' = Issued(j)
  BY <1>1 DEF Latest, Issued
<1>3. /\ data \in Views /\ settled \in Views /\ rds \in Views
      /\ \A j \in Items : Latest(j) \in 0 .. MaxVersion
  BY LatestType DEF TypeOK
<1>4. \A j \in Items : /\ data[j] <= data'[j] /\ settled[j] <= settled'[j] /\ rds[j] <= rds'[j]
                      /\ settled'[j] <= data'[j]
                      /\ data'[j] <= Latest(j) /\ rds'[j] <= Latest(j)
  <2>1. \A j \in Items : settled[j] <= data[j] /\ data[j] <= Latest(j) /\ rds[j] <= Latest(j)
    BY DEF IssuedInOrder
  <2>2. CASE SyncData(i)
    BY <1>3, <2>1, <2>2 DEF SyncData, Views
  <2>3. CASE SyncRds(i)
    BY <1>3, <2>1, <2>3 DEF SyncRds, Views
  <2>4. CASE Settle(i)
    BY <1>3, <2>1, <2>4 DEF Settle, Views
  <2>. QED BY <2>2, <2>3, <2>4
<1>. QED BY <1>1, <1>2, <1>3, <1>4 DEF TablesGrow, IssuedInOrder

UserStep(u) ==
  \/ \E i \in Items : \/ \E d \in BOOLEAN : PublishAsync(u, i, d)
                      \/ LoseSession(u, i) \/ Purge(u, i)
  \/ WriteSession(u) \/ Read(u)

(* Every step lets the tables grow and no version be skipped.              *)
LEMMA TablesStep ==
  ASSUME TypeOK, IssuedInOrder, [Next]_vars
  PROVE  TablesGrow /\ IssuedInOrder'
<1>1. ASSUME UNCHANGED tablesRW PROVE TablesGrow /\ IssuedInOrder'
  <2>1. \A j \in Items : Latest(j)' = Latest(j) /\ Issued(j)' = Issued(j)
    BY <1>1 DEF tablesRW, Latest, Issued
  <2>2. \A j \in Items : /\ data[j] \in Nat /\ data'[j] = data[j]
                        /\ settled[j] \in Nat /\ settled'[j] = settled[j]
                        /\ rds[j] \in Nat /\ rds'[j] = rds[j]
                        /\ Latest(j) \in Nat
    BY <1>1, LatestType DEF TypeOK, Views, tablesRW
  <2>3. TablesGrow
    BY <1>1, <2>1, <2>2 DEF tablesRW, TablesGrow
  <2>4. IssuedInOrder'
    BY <2>1, <2>2 DEF IssuedInOrder
  <2>. QED BY <2>3, <2>4
<1>2. ASSUME NEW u \in Users, UserStep(u),
             ~ \E i \in Items, d \in BOOLEAN : PublishAsync(u, i, d)
      PROVE  UNCHANGED tablesRW
  BY <1>2 DEF UserStep, Read, LoseSession, Purge, WriteSession, GetSession, GetData,
              ListQuery, RdsQuery, ListMerge, RdsMerge
<1>3. UNCHANGED vars => UNCHANGED tablesRW
  BY DEF vars, tablesRW
<1>. QED BY <1>1, <1>2, <1>3, PublishGrows, SyncGrows DEF Next, UserStep

SameUser(u) ==
  /\ req'[u] = req[u] /\ session'[u] = session[u]
  /\ shown'[u] = shown[u] /\ floor'[u] = floor[u]
  /\ \A i \in Items : <<u, i>> \in purges' <=> <<u, i>> \in purges

(* A user's step leaves the other users' requests and sessions alone.      *)
LEMMA OthersKept ==
  ASSUME TypeOK, NEW u \in Users, UserStep(u), NEW w \in Users, w # u
  PROVE  SameUser(w)
<1>. USE DEF SameUser, TypeOK, Start, Finish, Raise, RaiseRead
<1>1. ASSUME NEW i \in Items, NEW d \in BOOLEAN, PublishAsync(u, i, d) PROVE SameUser(w)
  BY <1>1 DEF PublishAsync
<1>2. ASSUME NEW i \in Items, LoseSession(u, i) \/ Purge(u, i) PROVE SameUser(w)
  BY <1>2 DEF LoseSession, Purge
<1>3. CASE WriteSession(u)
  BY <1>3 DEF WriteSession
<1>4. ASSUME NEW i \in Items, GetSession(u, i) PROVE SameUser(w)
  BY <1>4 DEF GetSession
<1>5. CASE GetData(u)
  BY <1>5 DEF GetData
<1>6. ASSUME NEW page \in SUBSET Items, ListQuery(u, page) \/ RdsQuery(u, page)
      PROVE SameUser(w)
  BY <1>6 DEF ListQuery, RdsQuery
<1>7. CASE ListMerge(u)
  BY <1>7 DEF ListMerge
<1>8. CASE RdsMerge(u)
  BY <1>8 DEF RdsMerge
<1>. HIDE DEF SameUser
<1>. QED
  BY <1>1, <1>2, <1>3, <1>4, <1>5, <1>6, <1>7, <1>8 DEF UserStep, Read

(* A read model's step leaves the users alone.                             *)
LEMMA ReadModelsStep ==
  ASSUME NEW i \in Items, SyncData(i) \/ Settle(i) \/ SyncRds(i), NEW w \in Users
  PROVE  SameUser(w)
BY DEF SyncData, Settle, SyncRds, SameUser

-----------------------------------------------------------------------------
(***************************************************************************)
(* Nobody reads the pending commands of another user.                      *)
(***************************************************************************)
(* The values that are compared.                                           *)
LEMMA Values ==
  ASSUME TypeOK, NEW u \in Users, NEW i \in Items
  PROVE  /\ data[i] \in 0 .. MaxVersion /\ settled[i] \in 0 .. MaxVersion
         /\ rds[i] \in 0 .. MaxVersion
         /\ session[u][i] \in 0 .. MaxVersion /\ shown[u][i] \in 0 .. MaxVersion
         /\ floor[u][i] \in 0 .. MaxVersion /\ req[u].base[i] \in 0 .. MaxVersion
         /\ req[u].v \in 0 .. MaxVersion /\ req[u].on \subseteq Items
BY DEF TypeOK, Views

LEMMA StartFacts ==
  ASSUME TypeOK, NEW u \in Users, NEW r, Start(u, r)
  PROVE  /\ req'[u] = r
         /\ \A i \in Items : shown'[u][i] = 0
         /\ req[u].op = "idle"
BY DEF TypeOK, Start, MayStart, Idle

LEMMA FinishFacts ==
  ASSUME TypeOK, NEW u \in Users, Finish(u)
  PROVE  req'[u] = Idle /\ req'[u].op = "idle"
BY DEF TypeOK, Finish, Idle

(* A user's own version stays this user's.                                 *)
LEMMA OwnKept ==
  ASSUME TablesGrow, NEW u \in Users, NEW i \in Items, NEW v \in 0 .. MaxVersion,
         Own(u, i, v)
  PROVE  v # 0 => author'[i][v] = u
BY DEF TablesGrow, Own

(* A session that points to the user's own command still does as the tables*)
(* grow.                                                                   *)
LEMMA OwnSessionsKept ==
  ASSUME TypeOK, TablesGrow, NEW u \in Users, SessionsAreOwn(u),
         session'[u] = session[u]
  PROVE  \A i \in Items : Own(u, i, session[u][i])'
<1>1. \A i \in Items : Own(u, i, session[u][i]) /\ session[u][i] \in 0 .. MaxVersion
  BY Values DEF SessionsAreOwn
<1>. QED BY <1>1, OwnKept DEF Own

(* What was shown stays known as the tables grow.                          *)
LEMMA ShownKept ==
  ASSUME TypeOK, TypeOK', TablesGrow, NEW u \in Users, ShownIsKnown(u),
         shown'[u] = shown[u]
  PROVE  ShownIsKnown(u)'
<1>. SUFFICES ASSUME NEW i \in Items, shown'[u][i] > data'[i], shown'[u][i] > rds'[i]
              PROVE  author'[i][shown'[u][i]] = u
  BY DEF ShownIsKnown
<1>1. /\ data[i] \in Nat /\ rds[i] \in Nat /\ data'[i] \in Nat /\ rds'[i] \in Nat
      /\ shown[u][i] \in 0 .. MaxVersion
  BY Values DEF TypeOK, Views
<1>2. data[i] <= data'[i] /\ rds[i] <= rds'[i]
  BY DEF TablesGrow
<1>3. shown[u][i] > data[i] /\ shown[u][i] > rds[i] /\ shown[u][i] # 0
  BY <1>1, <1>2
<1>4. author[i][shown[u][i]] = u
  BY <1>3 DEF ShownIsKnown
<1>. QED BY <1>1, <1>3, <1>4 DEF TablesGrow

(* A user who takes no step keeps the invariant of reads.                  *)
LEMMA SameUserReads ==
  ASSUME TypeOK, TypeOK', TablesGrow, NEW u \in Users, UserReads(u), SameUser(u)
  PROVE  UserReads(u)'
<1>1. SessionsAreOwn(u)'
  <2>1. \A i \in Items : Own(u, i, session[u][i])'
    BY OwnSessionsKept DEF UserReads, SameUser
  <2>2. ASSUME req[u].op \in {"session", "get"}, NEW i \in req[u].on
        PROVE  Own(u, i, req[u].v)'
    <3>1. i \in Items /\ req[u].v \in 0 .. MaxVersion /\ Own(u, i, req[u].v)
      BY <2>2 DEF UserReads, SessionsAreOwn, TypeOK
    <3>. QED BY <3>1, OwnKept DEF SameUser, Own
  <2>. QED BY <2>1, <2>2 DEF SameUser, SessionsAreOwn
<1>2. PageIsKnown(u)'
  <2>1. \A i \in Items :
          /\ data[i] \in Nat /\ rds[i] \in Nat /\ data'[i] \in Nat /\ rds'[i] \in Nat
          /\ req[u].base[i] \in Nat
    BY DEF TypeOK, Views
  <2>2. \A i \in Items : data[i] <= data'[i] /\ rds[i] <= rds'[i]
    BY DEF TablesGrow
  <2>. QED BY <2>1, <2>2 DEF SameUser, UserReads, PageIsKnown
<1>3. PageIsCounted(u)'
  BY DEF SameUser, UserReads, PageIsCounted, Listed
<1>4. ShownIsKnown(u)'
  BY ShownKept DEF UserReads, SameUser
<1>. QED BY <1>1, <1>2, <1>3, <1>4 DEF UserReads

(* When nothing was shown yet, and when the request has come to its end.   *)
LEMMA NothingShown ==
  ASSUME TypeOK', NEW u \in Users, \A i \in Items : shown'[u][i] = 0
  PROVE  ShownIsKnown(u)'
<1>1. \A i \in Items : data'[i] \in Nat
  BY DEF TypeOK, Views
<1>. QED BY <1>1 DEF ShownIsKnown

(* A user without a request has no page to account for.                    *)
LEMMA NothingRuns ==
  ASSUME NEW u \in Users, req'[u].op = "idle",
         \A i \in Items : Own(u, i, session[u][i])'
  PROVE  SessionsAreOwn(u)' /\ PageIsKnown(u)' /\ PageIsCounted(u)'
BY DEF SessionsAreOwn, PageIsKnown, PageIsCounted

(* Publishing, and sessions written or lost, keep the invariant of reads.  *)
LEMMA WriteReads ==
  ASSUME TypeOK, TypeOK', IssuedInOrder, TablesGrow, NEW u \in Users, UserReads(u),
         NEW i \in Items,
         \/ \E d \in BOOLEAN : PublishAsync(u, i, d)
         \/ LoseSession(u, i) \/ Purge(u, i) \/ WriteSession(u)
  PROVE  UserReads(u)'
<1>1. ASSUME NEW d \in BOOLEAN, PublishAsync(u, i, d) PROVE UserReads(u)'
  <2>. DEFINE v == Latest(i) + 1
              r == [Idle EXCEPT !.op = "session", !.on = {i}, !.v = v]
  <2>1. /\ v \in Version /\ Start(u, r) /\ author' = [author EXCEPT ![i][v] = u]
        /\ session' = session
    BY <1>1 DEF PublishAsync
  <2>2. r.op = "session" /\ r.on = {i} /\ r.v = v
    BY DEF Idle
  <2>. HIDE DEF v, r
  <2>3. author'[i][v] = u
    BY <2>1 DEF TypeOK
  <2>4. req'[u] = r /\ \A j \in Items : shown'[u][j] = 0
    BY <2>1, StartFacts
  <2>5. SessionsAreOwn(u)'
    <3>1. \A j \in Items : Own(u, j, session[u][j])'
      BY <2>1, OwnSessionsKept DEF UserReads
    <3>. QED BY <2>2, <2>3, <2>4, <3>1 DEF SessionsAreOwn, Own
  <2>6. PageIsKnown(u)' /\ PageIsCounted(u)'
    BY <2>2, <2>4 DEF PageIsKnown, PageIsCounted
  <2>. QED BY <2>4, <2>5, <2>6, NothingShown DEF UserReads
<1>2. CASE LoseSession(u, i) \/ Purge(u, i)
  <2>1. /\ session' = [session EXCEPT ![u][i] = 0]
        /\ UNCHANGED <<author, data, rds, req, shown>>
    BY <1>2 DEF LoseSession, Purge, tablesRW
  <2>2. \A j \in Items : session'[u][j] = IF j = i THEN 0 ELSE session[u][j]
    BY <2>1 DEF TypeOK, Views
  <2>. QED
    BY <2>1, <2>2
    DEF UserReads, SessionsAreOwn, Own, PageIsKnown, PageIsCounted, Listed, ShownIsKnown
<1>3. CASE WriteSession(u)
  <2>1. PICK j \in req[u].on : session' = [session EXCEPT ![u][j] = req[u].v]
    BY <1>3 DEF WriteSession
  <2>2. /\ UNCHANGED <<author, data, rds, shown>> /\ Finish(u) /\ req[u].op = "session"
    BY <1>3 DEF WriteSession, tablesRW
  <2>3. j \in Items /\ Own(u, j, req[u].v)
    BY <2>1, <2>2 DEF TypeOK, UserReads, SessionsAreOwn
  <2>4. \A k \in Items : session'[u][k] = IF k = j THEN req[u].v ELSE session[u][k]
    BY <2>1, <2>3 DEF TypeOK, Views
  <2>5. \A k \in Items : Own(u, k, session[u][k])'
    BY <2>2, <2>3, <2>4 DEF UserReads, SessionsAreOwn, Own
  <2>6. req'[u].op = "idle"
    BY <2>2, FinishFacts
  <2>7. ShownIsKnown(u)'
    BY <2>2 DEF UserReads, ShownIsKnown
  <2>. QED BY <2>5, <2>6, <2>7, NothingRuns DEF UserReads
<1>. QED BY <1>1, <1>2, <1>3

(* A session read gives the user's own command, or none.                   *)
LEMMA SessionReadOwn ==
  ASSUME TypeOK, NEW u \in Users, UserReads(u), NEW i \in Items,
         NEW s \in SessionRead(u, i)
  PROVE  Own(u, i, s) /\ s \in 0 .. MaxVersion
<1>1. s = 0 \/ s = session[u][i] \/ author[i][s] = u
  BY DEF SessionRead, OwnVersions
<1>. QED BY <1>1, SessionReadTypes DEF UserReads, SessionsAreOwn, Own

(* The first half of a read keeps the invariant of reads.                  *)
LEMMA StartReads ==
  ASSUME TypeOK, TypeOK', NEW u \in Users, UserReads(u),
         \/ \E i \in Items : GetSession(u, i)
         \/ \E page \in SUBSET Items : ListQuery(u, page) \/ RdsQuery(u, page)
  PROVE  UserReads(u)'
<1>1. UNCHANGED <<author, data, rds, session>>
  BY DEF GetSession, ListQuery, RdsQuery, tablesRW
<1>2. \A i \in Items : Own(u, i, session[u][i])'
  BY <1>1 DEF UserReads, SessionsAreOwn, Own
<1>3. ASSUME NEW i \in Items, GetSession(u, i) PROVE UserReads(u)'
  <2>1. PICK s \in SessionRead(u, i) :
          Start(u, [Idle EXCEPT !.op = "get", !.on = {i}, !.v = s])
    BY <1>3 DEF GetSession
  <2>. DEFINE r == [Idle EXCEPT !.op = "get", !.on = {i}, !.v = s]
  <2>2. r.op = "get" /\ r.on = {i} /\ r.v = s
    BY DEF Idle
  <2>. HIDE DEF r
  <2>3. req'[u] = r /\ \A j \in Items : shown'[u][j] = 0
    BY <2>1, StartFacts DEF r
  <2>4. Own(u, i, s)
    BY SessionReadOwn
  <2>5. SessionsAreOwn(u)'
    BY <1>1, <1>2, <2>2, <2>3, <2>4 DEF SessionsAreOwn, Own
  <2>6. PageIsKnown(u)' /\ PageIsCounted(u)'
    BY <2>2, <2>3 DEF PageIsKnown, PageIsCounted
  <2>. QED BY <2>3, <2>5, <2>6, NothingShown DEF UserReads
<1>4. ASSUME NEW page \in SUBSET Items, ListQuery(u, page) PROVE UserReads(u)'
  <2>0. PICK b \in Views :
          /\ \A i \in Items : IF i \in page THEN b[i] \in DataRead(i) ELSE b[i] = 0
          /\ Start(u, [Idle EXCEPT !.op = "list", !.on = page, !.base = b])
    BY <1>4 DEF ListQuery
  <2>. DEFINE r == [Idle EXCEPT !.op = "list", !.on = page, !.base = b]
  <2>1. r.op = "list" /\ r.base = b
    BY DEF Idle
  <2>2. req'[u] = r /\ \A j \in Items : shown'[u][j] = 0
    BY <2>0, StartFacts
  <2>3. \A i \in Items : b[i] <= data[i]
    BY <2>0, Values, DataReadTypes
  <2>. HIDE DEF r
  <2>4. PageIsKnown(u)'
    BY <1>1, <2>1, <2>2, <2>3 DEF PageIsKnown
  <2>5. SessionsAreOwn(u)' /\ PageIsCounted(u)'
    BY <1>2, <2>1, <2>2 DEF SessionsAreOwn, PageIsCounted
  <2>. QED BY <2>2, <2>4, <2>5, NothingShown DEF UserReads
<1>5. ASSUME NEW page \in SUBSET Items, RdsQuery(u, page) PROVE UserReads(u)'
  <2>. DEFINE b == [i \in Items |-> IF i \in page /\ InRds(i) THEN rds[i] ELSE 0]
              n == Cardinality({i \in Items : InRds(i)})
              r == [Idle EXCEPT !.op = "rds", !.on = page, !.base = b, !.count = n]
  <2>1. r.op = "rds" /\ r.base = b /\ r.on = page /\ r.count = n
    BY DEF Idle
  <2>2. req'[u] = r /\ \A j \in Items : shown'[u][j] = 0
    BY <1>5, StartFacts DEF RdsQuery
  <2>3. \A i \in Items : b[i] <= rds[i]
    BY Values
  <2>4. page = Items => Listed(b) = {i \in Items : InRds(i)}
    BY DEF Listed, InRds
  <2>. HIDE DEF b, r
  <2>5. PageIsKnown(u)'
    BY <1>1, <2>1, <2>2, <2>3 DEF PageIsKnown
  <2>6. PageIsCounted(u)'
    BY <2>1, <2>2, <2>4 DEF PageIsCounted, Listed
  <2>7. SessionsAreOwn(u)'
    BY <1>2, <2>1, <2>2 DEF SessionsAreOwn
  <2>. QED BY <2>2, <2>5, <2>6, <2>7, NothingShown DEF UserReads
<1>. QED BY <1>3, <1>4, <1>5

(* The second half of a read keeps the invariant of reads.                 *)
LEMMA MergeReads ==
  ASSUME TypeOK, TypeOK', NEW u \in Users, UserReads(u),
         GetData(u) \/ ListMerge(u) \/ RdsMerge(u)
  PROVE  UserReads(u)'
<1>1. UNCHANGED <<author, data, rds, session>>
  BY DEF GetData, ListMerge, RdsMerge, tablesRW
<1>2. \A i \in Items : Own(u, i, session[u][i])'
  BY <1>1 DEF UserReads, SessionsAreOwn, Own
<1>3. req'[u].op = "idle"
  BY FinishFacts DEF GetData, ListMerge, RdsMerge
<1>. DEFINE Known(i, n) == n <= data[i] \/ n <= rds[i] \/ author[i][n] = u
<1>4. ASSUME \A i \in Items : Known(i, shown'[u][i]) PROVE UserReads(u)'
  <2>1. \A i \in Items :
          shown'[u][i] \in Nat /\ data[i] \in Nat /\ rds[i] \in Nat
    BY DEF TypeOK, Views
  <2>2. ShownIsKnown(u)'
    BY <1>1, <1>4, <2>1 DEF ShownIsKnown
  <2>. QED BY <1>2, <1>3, <2>2, NothingRuns DEF UserReads
<1>5. \A i \in Items : Known(i, 0)
  BY Values
<1>6. CASE GetData(u)
  <2>1. PICK i \in Items, d \in 0 .. MaxVersion, again \in 0 .. MaxVersion,
             found \in CommandsRead : GetAnswer(u, i, d, again, found)
    BY <1>6, GetAnswers
  <2>. DEFINE answer == GetShown(u, i, d, again, found)
  <2>2. Own(u, i, req[u].v) /\ d <= data[i] /\ again <= data[i]
    BY <1>6, <2>1, DataReadTypes DEF GetData, UserReads, SessionsAreOwn, GetAnswer
  <2>3. Known(i, answer)
    BY <2>2, Values DEF Merged, Own, GetShown
  <2>4. \A j \in Items : shown'[u][j] = IF j = i THEN answer ELSE 0
    BY <2>1 DEF TypeOK, Idle, GetAnswer
  <2>. HIDE DEF Known, answer
  <2>. QED BY <1>4, <1>5, <2>3, <2>4
<1>7. CASE ListMerge(u)
  <2>. DEFINE base == req[u].base
              Shown(i, s, found) ==
                IF s = 0 \/ CaughtUp(s, base[i]) THEN Merged(s, base[i])
                ELSE IF ~found THEN base[i]
                ELSE IF s \in gone[i] THEN 0
                ELSE Merged(s, base[i])
  <2>1. PICK s \in Views, found \in CommandsRead :
          /\ \A i \in Items : s[i] \in SessionRead(u, i)
          /\ shown' = [shown EXCEPT ![u] = [i \in Items |-> Shown(i, s[i], i \in found)]]
    BY <1>7 DEF ListMerge
  <2>2. \A i \in Items : base[i] <= data[i] /\ Own(u, i, s[i])
    BY <1>7, <2>1, SessionReadOwn DEF ListMerge, UserReads, PageIsKnown
  <2>3. \A i \in Items : Known(i, Shown(i, s[i], i \in found))
    BY <1>5, <2>2 DEF Merged, Own
  <2>. HIDE DEF Known, Shown
  <2>4. \A i \in Items : shown'[u][i] = Shown(i, s[i], i \in found)
    BY <2>1 DEF TypeOK
  <2>. QED BY <1>4, <2>3, <2>4
<1>8. CASE RdsMerge(u)
  <2>1. PICK s \in Views, read \in Views, found \in CommandsRead,
             hidden \in SUBSET (Items \ req[u].on) :
          RdsAnswer(u, s, read, found, hidden)
    BY <1>8, RdsMerges
  <2>. DEFINE Shown(i) == RdsShown(u, s, read, found, hidden, i)
  <2>2. \A i \in Items : req[u].base[i] <= rds[i] /\ Own(u, i, s[i])
    BY <1>8, <2>1, SessionReadOwn DEF RdsMerge, UserReads, PageIsKnown, RdsAnswer
  <2>3. \A i \in Items : Known(i, Shown(i))
    BY <1>5, <2>2 DEF Own, RdsShown, RdsChanged
  <2>. HIDE DEF Known, Shown
  <2>4. \A i \in Items : shown'[u][i] = Shown(i)
    BY <2>1 DEF TypeOK, RdsAnswer, Shown
  <2>. QED BY <1>4, <2>3, <2>4
<1>. QED BY <1>6, <1>7, <1>8

LEMMA ReadInvInit == Init => ReadInv
<1>. SUFFICES ASSUME Init PROVE ReadInv
  OBVIOUS
<1>1. TypeOK
  BY TypesInit
<1>2. IssuedInOrder
  <2>1. \A i \in Items : Issued(i) = 1 .. 0
    BY DEF Init, Issued
  <2>2. \A i \in Items : Latest(i) = 0
    BY <2>1, LatestIs
  <2>3. ASSUME NEW i \in Items
        PROVE  settled[i] <= data[i] /\ data[i] <= 0 /\ rds[i] <= 0
    <3>1. data[i] = 0 /\ settled[i] = 0 /\ rds[i] = 0
      BY <2>3 DEF Init
    <3>. QED BY <3>1
  <2>. QED BY <2>1, <2>2, <2>3 DEF IssuedInOrder
<1>3. ASSUME NEW u \in Users PROVE UserReads(u)
  BY <1>3 DEF Init, Idle, UserReads, SessionsAreOwn, Own, PageIsKnown, PageIsCounted, ShownIsKnown
<1>. QED BY <1>1, <1>2, <1>3 DEF ReadInv

(* Every step keeps the invariant of reads.                                *)
LEMMA ReadInvStep == ReadInv /\ [Next]_vars => ReadInv'
<1>. SUFFICES ASSUME ReadInv, [Next]_vars PROVE ReadInv'
  OBVIOUS
<1>1. TypeOK /\ TypeOK' /\ IssuedInOrder /\ IssuedInOrder' /\ TablesGrow
  BY TypesStep, TablesStep DEF ReadInv
<1>2. ASSUME NEW u \in Users, SameUser(u) PROVE UserReads(u)'
  BY <1>1, <1>2, SameUserReads DEF ReadInv
<1>3. ASSUME NEW w \in Users, UserStep(w), NEW u \in Users PROVE UserReads(u)'
  <2>1. CASE u # w
    BY <1>1, <1>2, <1>3, <2>1, OthersKept
  <2>2. CASE u = w
    <3>1. UserReads(u)
      BY DEF ReadInv
    <3>2. CASE WriteSession(u)
      <4>1. \E i \in Items : TRUE
        BY <1>1, <3>2 DEF WriteSession, TypeOK
      <4>. QED BY <1>1, <3>1, <3>2, <4>1, WriteReads
    <3>. QED BY <1>1, <1>3, <2>2, <3>1, <3>2, WriteReads, StartReads, MergeReads DEF UserStep, Read
  <2>. QED BY <2>1, <2>2
<1>4. ASSUME NEW i \in Items, SyncData(i) \/ Settle(i) \/ SyncRds(i), NEW u \in Users
      PROVE  UserReads(u)'
  BY <1>2, <1>4, ReadModelsStep
<1>5. ASSUME UNCHANGED vars, NEW u \in Users PROVE UserReads(u)'
  BY <1>2, <1>5 DEF vars, SameUser
<1>6. \A u \in Users : UserReads(u)'
  BY <1>3, <1>4, <1>5 DEF Next, UserStep
<1>. QED BY <1>1, <1>6 DEF ReadInv

(* What makes the users' privacy inductive: versions are issued in order,  *)
(* and sessions, requests and pages hold only what the user published or a *)
(* read model shows.                                                       *)
THEOREM ReadInvariant == Spec => []ReadInv
BY ReadInvInit, ReadInvStep, PTL DEF Spec

(* Types, for all faults.                                                  *)
THEOREM ReadTypeCorrect == Spec => []TypeOK
<1>1. ReadInv => TypeOK
  BY DEF ReadInv
<1>. QED BY <1>1, ReadInvariant, PTL

(* No user is shown a command that another user published before a read    *)
(* model shows it, for all faults.                                         *)
THEOREM PendingStaysPrivate == Spec => []PendingIsPrivate
<1>1. ReadInv => PendingIsPrivate
  BY DEF ReadInv, UserReads, ShownIsKnown, PendingIsPrivate
<1>. QED BY <1>1, ReadInvariant, PTL

-----------------------------------------------------------------------------
(***************************************************************************)
(* A user sees what this user wrote, as long as the session row is there,  *)
(* and what every copy of the data table had when it was deleted.  The     *)
(* session row and its command must be visible when a request reads them,  *)
(* the delete be over by then, and the external read model be no further   *)
(* than the data table, by which its syncs are judged.  Nothing is assumed *)
(* of the reads of the data table: each may be older than the one before.  *)
(***************************************************************************)
Timely == Faults \cap {"stale", "late_purge", "rds_first"} = {}

(* What a session of version s adds to a row of version v makes up for the *)
(* distance to the floor.                                                  *)
Covered(u, i, s, v) == floor[u][i] > v => s >= floor[u][i]

FloorIsIssued(u) == \A i \in Items : floor[u][i] <= Latest(i)

SessionsCover(u) ==
  \A i \in Items :
    /\ Covered(u, i, session[u][i], settled[i])
    /\ session[u][i] # 0 => session[u][i] >= floor[u][i] \/ <<u, i>> \in purges

RequestsCover(u) ==
  /\ req[u].op = "session" =>
       \A i \in req[u].on : floor[u][i] <= req[u].v /\ req[u].v <= Latest(i)
  /\ req[u].op = "get" =>
       \A i \in req[u].on : /\ req[u].on = {i}
                            /\ Covered(u, i, req[u].v, settled[i])
                            /\ session[u][i] # 0 => req[u].v = session[u][i]
  /\ req[u].op = "list" =>
       \A i \in Items : req[u].base[i] # 0 => Covered(u, i, session[u][i], req[u].base[i])

PurgesAreSafe(u) ==
  \A i \in Items : <<u, i>> \in purges => req[u].op = "idle" /\ floor[u][i] <= data[i]

UserFloors(u) ==
  FloorIsIssued(u) /\ SessionsCover(u) /\ RequestsCover(u) /\ PurgesAreSafe(u)

RdsFollows == \A i \in Items : rds[i] <= data[i]

FloorInv ==
  /\ ReadInv
  /\ RdsFollows
  /\ \A u \in Users : UserFloors(u)

LEMMA FloorValues ==
  ASSUME TypeOK, NEW u \in Users, NEW i \in Items
  PROVE  /\ data[i] \in Nat /\ settled[i] \in Nat /\ rds[i] \in Nat /\ Latest(i) \in Nat
         /\ session[u][i] \in Nat /\ shown[u][i] \in Nat /\ floor[u][i] \in Nat
         /\ req[u].base[i] \in Nat /\ req[u].v \in Nat /\ req[u].on \subseteq Items
BY Values, LatestType

(* The floor is raised to what was shown, and never lowered.               *)
LEMMA FloorRaised ==
  ASSUME TypeOK, NEW u \in Users, NEW view, Raise(u, view)
  PROVE  \A i \in Items : floor'[u][i] = IF view[i] > floor[u][i] THEN view[i] ELSE floor[u][i]
BY DEF TypeOK, Raise

(* An answer raises the floor to what it shows, up to what is settled.     *)
LEMMA FloorRead ==
  ASSUME TypeOK, TypeOK', NEW u \in Users, RaiseRead(u), NEW i \in Items
  PROVE  \/ floor'[u][i] = floor[u][i]
         \/ /\ floor'[u][i] = shown'[u][i] /\ floor'[u][i] > floor[u][i]
            /\ shown'[u][i] <= settled[i]
<1>. DEFINE view == [j \in Items |-> IF shown'[u][j] <= settled[j] THEN shown'[u][j] ELSE 0]
<1>1. floor'[u][i] = IF view[i] > floor[u][i] THEN view[i] ELSE floor[u][i]
  BY FloorRaised DEF RaiseRead
<1>2. view[i] = IF shown'[u][i] <= settled[i] THEN shown'[u][i] ELSE 0
  OBVIOUS
<1>3. floor[u][i] \in Nat
  BY FloorValues
<1>. HIDE DEF view
<1>. QED BY <1>1, <1>2, <1>3

(* A user who takes no step keeps the floors.                              *)
LEMMA SameUserFloors ==
  ASSUME TypeOK, TypeOK', TablesGrow, NEW u \in Users, UserFloors(u), SameUser(u)
  PROVE  UserFloors(u)'
<1>1. ASSUME NEW i \in Items
      PROVE  /\ data[i] \in Nat /\ data'[i] \in Nat /\ Latest(i) \in Nat /\ Latest(i)' \in Nat
             /\ floor[u][i] \in Nat /\ floor'[u][i] = floor[u][i]
             /\ session[u][i] \in Nat /\ session'[u][i] = session[u][i]
             /\ data[i] <= data'[i] /\ Latest(i) <= Latest(i)'
             /\ settled[i] \in Nat /\ settled'[i] \in Nat /\ settled[i] <= settled'[i]
  <2>1. data'[i] \in Nat /\ settled'[i] \in Nat
    BY DEF TypeOK, Views
  <2>2. Latest(i)' \in Nat
    <3>1. /\ IsFiniteSet(1 .. MaxVersion)
          /\ {v \in Version : author'[i][v] # Nobody} \subseteq 1 .. MaxVersion
      BY FS_Interval
    <3>. QED BY <3>1, FS_Subset, FS_CardinalityType DEF Latest
  <2>. QED BY <2>1, <2>2, FloorValues DEF SameUser, TablesGrow
<1>2. req[u].on \subseteq Items /\ req[u].v \in Nat /\ \A i \in Items : req[u].base[i] \in Nat
  BY FloorValues DEF TypeOK
<1>3. FloorIsIssued(u)'
  BY <1>1 DEF UserFloors, FloorIsIssued
<1>4. SessionsCover(u)'
  BY <1>1 DEF UserFloors, SessionsCover, Covered, SameUser
<1>5. RequestsCover(u)'
  <2>1. CASE req[u].op = "session"
    BY <1>1, <1>2, <2>1 DEF UserFloors, RequestsCover, SameUser
  <2>2. CASE req[u].op = "get"
    BY <1>1, <1>2, <2>2 DEF UserFloors, RequestsCover, SameUser, Covered
  <2>3. CASE req[u].op = "list"
    BY <1>1, <1>2, <2>3 DEF UserFloors, RequestsCover, SameUser, Covered
  <2>. QED BY <2>1, <2>2, <2>3 DEF RequestsCover, SameUser
<1>6. PurgesAreSafe(u)'
  BY <1>1 DEF UserFloors, PurgesAreSafe, SameUser
<1>. QED BY <1>3, <1>4, <1>5, <1>6 DEF UserFloors

(* Without "late_purge" no delete is under way when a request starts.      *)
LEMMA NoPurgeRuns ==
  ASSUME Timely, NEW u \in Users, MayStart(u)
  PROVE  \A i \in Items : <<u, i>> \notin purges
BY DEF Timely, MayStart

(* Publishing keeps the floors.                                            *)
LEMMA PublishFloors ==
  ASSUME TypeOK, TypeOK', IssuedInOrder, TablesGrow, Timely, NEW u \in Users, UserFloors(u),
         NEW i \in Items, NEW d \in BOOLEAN, PublishAsync(u, i, d)
  PROVE  UserFloors(u)'
<1>. DEFINE v == Latest(i) + 1
            r == [Idle EXCEPT !.op = "session", !.on = {i}, !.v = v]
<1>1. v \in Version /\ Start(u, r) /\ UNCHANGED <<data, settled, session, purges, floor>>
  BY DEF PublishAsync
<1>2. r.op = "session" /\ r.on = {i} /\ r.v = v
  BY DEF Idle
<1>3. Latest(i)' = v
  <2>1. Issued(i) = 1 .. Latest(i) /\ Latest(i) \in 0 .. MaxVersion
    BY IssuedIs
  <2>. HIDE DEF v
  <2>2. author' = [author EXCEPT ![i][v] = u]
    BY DEF PublishAsync, v
  <2>3. \A n \in Version : author'[i][n] = IF n = v THEN u ELSE author[i][n]
    BY <2>2 DEF TypeOK
  <2>4. {n \in Version : author'[i][n] # Nobody} = 1 .. v
    BY <1>1, <2>1, <2>3 DEF Issued, v
  <2>5. Cardinality(1 .. v) = v
    BY <1>1, IntervalCount
  <2>. QED BY <2>4, <2>5 DEF Latest
<1>4. \A j \in Items : floor[u][j] <= Latest(j) /\ Latest(j) \in Nat /\ floor[u][j] \in Nat
  BY FloorValues DEF UserFloors, FloorIsIssued
<1>5. v > Latest(i) /\ v \in Nat
  BY <1>4
<1>. HIDE DEF v, r
<1>6. req'[u] = r /\ MayStart(u)
  BY <1>1, StartFacts DEF Start
<1>7. FloorIsIssued(u)'
  <2>1. \A j \in Items : j # i => author'[j] = author[j]
    BY DEF PublishAsync, TypeOK
  <2>2. \A j \in Items : j # i => Latest(j)' = Latest(j)
    BY <2>1 DEF Latest
  <2>. QED BY <1>1, <1>3, <1>4, <1>5, <2>2 DEF FloorIsIssued
<1>8. RequestsCover(u)'
  BY <1>1, <1>2, <1>3, <1>4, <1>5, <1>6 DEF RequestsCover
<1>9. SessionsCover(u)' /\ PurgesAreSafe(u)'
  BY <1>1, <1>6, NoPurgeRuns DEF UserFloors, SessionsCover, PurgesAreSafe, Covered
<1>. QED BY <1>7, <1>8, <1>9 DEF UserFloors

(* Writing the session keeps the floors.                                   *)
LEMMA WriteFloors ==
  ASSUME TypeOK, TypeOK', NEW u \in Users, UserFloors(u), WriteSession(u)
  PROVE  UserFloors(u)'
<1>1. /\ UNCHANGED <<author, data, settled, purges>> /\ Finish(u) /\ req[u].op = "session"
  BY DEF WriteSession, tablesRW
<1>2. PICK i \in req[u].on :
        /\ session' = [session EXCEPT ![u][i] = req[u].v]
        /\ Raise(u, [j \in Items |-> IF j = i THEN req[u].v ELSE 0])
  BY DEF WriteSession
<1>. DEFINE n == req[u].v
<1>3. i \in Items /\ n \in Nat /\ floor[u][i] <= n /\ n <= Latest(i)
  BY <1>1, <1>2 DEF TypeOK, UserFloors, RequestsCover
<1>4. \A j \in Items :
        /\ floor[u][j] \in Nat /\ data[j] \in Nat /\ settled[j] \in Nat
        /\ session[u][j] \in Nat /\ Latest(j) \in Nat /\ Latest(j)' = Latest(j)
  BY <1>1, FloorValues DEF Latest
<1>. HIDE DEF n
<1>5. \A j \in Items : session'[u][j] = IF j = i THEN n ELSE session[u][j]
  BY <1>2, <1>3 DEF TypeOK, Views, n
<1>6. \A j \in Items : floor'[u][j] = IF j = i THEN n ELSE floor[u][j]
  <2>. DEFINE view == [j \in Items |-> IF j = i THEN n ELSE 0]
  <2>1. \A j \in Items :
          floor'[u][j] = IF view[j] > floor[u][j] THEN view[j] ELSE floor[u][j]
    BY <1>2, FloorRaised DEF n
  <2>2. \A j \in Items : view[j] = IF j = i THEN n ELSE 0
    OBVIOUS
  <2>. HIDE DEF view
  <2>. QED BY <1>3, <1>4, <2>1, <2>2
<1>7. req'[u].op = "idle" /\ \A j \in Items : <<u, j>> \notin purges
  BY <1>1, FinishFacts DEF UserFloors, PurgesAreSafe
<1>8. FloorIsIssued(u)'
  BY <1>3, <1>4, <1>6 DEF UserFloors, FloorIsIssued
<1>9. SessionsCover(u)'
  BY <1>1, <1>3, <1>4, <1>5, <1>6 DEF UserFloors, SessionsCover, Covered
<1>10. RequestsCover(u)' /\ PurgesAreSafe(u)'
  BY <1>1, <1>7 DEF RequestsCover, PurgesAreSafe
<1>. QED BY <1>8, <1>9, <1>10 DEF UserFloors

(* A session that goes, by its TTL or by its delete.                       *)
LEMMA GoneFloors ==
  ASSUME TypeOK, TypeOK', NEW u \in Users, UserFloors(u),
         NEW i \in Items, LoseSession(u, i) \/ Purge(u, i)
  PROVE  UserFloors(u)'
<1>1. /\ session' = [session EXCEPT ![u][i] = 0]
      /\ UNCHANGED <<author, data, settled, req>>
  BY DEF LoseSession, Purge, tablesRW
<1>2. \A j \in Items : session'[u][j] = IF j = i THEN 0 ELSE session[u][j]
  BY <1>1 DEF TypeOK, Views
<1>3. \A j \in Items :
        /\ floor[u][j] \in Nat /\ data[j] \in Nat /\ settled[j] \in Nat
        /\ session[u][j] \in Nat /\ Latest(j) \in Nat /\ Latest(j)' = Latest(j)
        /\ req[u].base[j] \in Nat
  BY <1>1, FloorValues DEF Latest
<1>4. /\ req[u].on \subseteq Items /\ req[u].v \in Nat
  BY DEF TypeOK
<1>5. CASE LoseSession(u, i)
  <2>1. /\ \A j \in Items : floor'[u][j] = IF j = i THEN 0 ELSE floor[u][j]
        /\ purges' = purges
    BY <1>5 DEF LoseSession, TypeOK, Views
  <2>2. FloorIsIssued(u)' /\ SessionsCover(u)' /\ PurgesAreSafe(u)'
    BY <1>1, <1>2, <1>3, <2>1
    DEF UserFloors, FloorIsIssued, SessionsCover, Covered, PurgesAreSafe
  <2>3. RequestsCover(u)'
    BY <1>1, <1>2, <1>3, <1>4, <2>1 DEF UserFloors, RequestsCover, Covered
  <2>. QED BY <2>2, <2>3 DEF UserFloors
<1>6. CASE Purge(u, i)
  <2>1. /\ <<u, i>> \in purges /\ purges' = purges \ {<<u, i>>}
        /\ floor' = [floor EXCEPT ![u][i] =
                       IF @ <= data[i] /\ @ > settled[i] THEN settled[i] ELSE @]
    BY <1>6 DEF Purge
  <2>2. req[u].op = "idle" /\ floor[u][i] <= data[i]
    BY <2>1 DEF UserFloors, PurgesAreSafe
  <2>3. \A j \in Items : j # i => (<<u, j>> \in purges' <=> <<u, j>> \in purges)
    BY <2>1
  <2>4. /\ \A j \in Items : j # i => floor'[u][j] = floor[u][j]
        /\ floor'[u][i] <= floor[u][i] /\ floor'[u][i] <= settled[i] /\ floor'[u][i] \in Nat
    <3>1. \A j \in Items : floor'[u][j] =
            IF j = i /\ floor[u][i] <= data[i] /\ floor[u][i] > settled[i] THEN settled[i]
            ELSE floor[u][j]
      BY <2>1 DEF TypeOK, Views
    <3>. QED BY <1>3, <2>2, <3>1
  <2>5. FloorIsIssued(u)'
    BY <1>3, <2>4 DEF UserFloors, FloorIsIssued
  <2>6. PurgesAreSafe(u)' /\ RequestsCover(u)'
    <3>1. req'[u].op = "idle" /\ <<u, i>> \notin purges'
      BY <1>1, <2>1, <2>2
    <3>2. \A j \in Items : <<u, j>> \in purges' => floor'[u][j] <= data'[j]
      BY <1>1, <2>3, <2>4, <3>1 DEF UserFloors, PurgesAreSafe
    <3>. QED BY <3>1, <3>2 DEF PurgesAreSafe, RequestsCover
  <2>7. SessionsCover(u)'
    BY <1>1, <1>2, <1>3, <2>3, <2>4 DEF UserFloors, SessionsCover, Covered
  <2>. QED BY <2>5, <2>6, <2>7 DEF UserFloors
<1>. QED BY <1>5, <1>6

(* The first half of a read keeps the floors.                              *)
LEMMA StartFloors ==
  ASSUME TypeOK, TypeOK', Timely, NEW u \in Users, UserFloors(u),
         \/ \E i \in Items : GetSession(u, i)
         \/ \E page \in SUBSET Items : ListQuery(u, page) \/ RdsQuery(u, page)
  PROVE  UserFloors(u)'
<1>1. UNCHANGED <<author, data, settled, rds, session, purges, floor>>
  BY DEF GetSession, ListQuery, RdsQuery, tablesRW
<1>2. MayStart(u)
  BY DEF GetSession, ListQuery, RdsQuery, Start
<1>3. FloorIsIssued(u)' /\ SessionsCover(u)' /\ PurgesAreSafe(u)'
  BY <1>1, <1>2, NoPurgeRuns
  DEF UserFloors, FloorIsIssued, SessionsCover, PurgesAreSafe, Covered, Latest
<1>4. ASSUME NEW i \in Items, GetSession(u, i) PROVE RequestsCover(u)'
  <2>1. Start(u, [Idle EXCEPT !.op = "get", !.on = {i}, !.v = session[u][i]])
    BY <1>4 DEF GetSession, SessionRead, Timely
  <2>. DEFINE r == [Idle EXCEPT !.op = "get", !.on = {i}, !.v = session[u][i]]
  <2>2. r.op = "get" /\ r.on = {i} /\ r.v = session[u][i]
    BY DEF Idle
  <2>. HIDE DEF r
  <2>3. req'[u] = r
    BY <2>1, StartFacts DEF r
  <2>4. Covered(u, i, session[u][i], settled[i])
    BY DEF UserFloors, SessionsCover
  <2>. QED BY <1>1, <2>2, <2>3, <2>4 DEF RequestsCover, Covered
<1>5. ASSUME NEW page \in SUBSET Items, ListQuery(u, page) PROVE RequestsCover(u)'
  <2>1. PICK b \in Views :
          /\ \A i \in Items : IF i \in page THEN b[i] \in DataRead(i) ELSE b[i] = 0
          /\ Start(u, [Idle EXCEPT !.op = "list", !.on = page, !.base = b])
    BY <1>5 DEF ListQuery
  <2>. DEFINE r == [Idle EXCEPT !.op = "list", !.on = page, !.base = b]
  <2>2. r.op = "list" /\ r.base = b
    BY DEF Idle
  <2>3. req'[u] = r
    BY <2>1, StartFacts
  <2>. HIDE DEF r
  <2>4. ASSUME NEW i \in Items, b[i] # 0 PROVE Covered(u, i, session[u][i], b[i])
    <3>1. b[i] \in Nat /\ settled[i] <= b[i]
      BY <2>1, <2>4, DataReadTypes DEF Views
    <3>2. Covered(u, i, session[u][i], settled[i])
      BY DEF UserFloors, SessionsCover
    <3>. QED BY <3>1, <3>2, FloorValues DEF Covered
  <2>. QED BY <1>1, <2>2, <2>3, <2>4 DEF RequestsCover, Covered
<1>6. ASSUME NEW page \in SUBSET Items, RdsQuery(u, page) PROVE RequestsCover(u)'
  <2>. DEFINE b == [i \in Items |-> IF i \in page /\ InRds(i) THEN rds[i] ELSE 0]
              n == Cardinality({i \in Items : InRds(i)})
              r == [Idle EXCEPT !.op = "rds", !.on = page, !.base = b, !.count = n]
  <2>2. r.op = "rds"
    BY DEF Idle
  <2>3. req'[u] = r
    BY <1>6, StartFacts DEF RdsQuery
  <2>. HIDE DEF r
  <2>1. req'[u].op = "rds"
    BY <2>2, <2>3
  <2>. QED BY <2>1 DEF RequestsCover
<1>. QED BY <1>3, <1>4, <1>5, <1>6 DEF UserFloors

(* A merge that leaves the floor at what the data table shows, or at what  *)
(* a session makes up for, and deletes only sessions it caught up with.    *)
LEMMA AnswerFloors ==
  ASSUME TypeOK, TypeOK', NEW u \in Users, UserFloors(u), req'[u].op = "idle",
         UNCHANGED <<author, data, settled, session>>,
         \A i \in Items :
           /\ floor'[u][i] # floor[u][i] =>
                /\ floor'[u][i] <= settled[i]
                /\ session[u][i] # 0 => session[u][i] >= floor'[u][i] \/ <<u, i>> \in purges'
           /\ <<u, i>> \in purges => <<u, i>> \in purges'
           /\ <<u, i>> \in purges' => floor'[u][i] <= data[i],
         \A i \in Items : settled[i] <= data[i] /\ data[i] <= Latest(i)
  PROVE  UserFloors(u)'
<1>1. \A i \in Items :
        /\ floor[u][i] \in Nat /\ floor'[u][i] \in Nat
        /\ data[i] \in Nat /\ settled[i] \in Nat
        /\ session[u][i] \in Nat /\ Latest(i) \in Nat /\ Latest(i)' = Latest(i)
  <2>1. \A i \in Items : floor'[u][i] \in Nat
    BY DEF TypeOK, Views
  <2>2. \A i \in Items : Latest(i)' = Latest(i)
    BY DEF Latest
  <2>. QED BY <2>1, <2>2, FloorValues
<1>2. FloorIsIssued(u)'
  <2>1. \A i \in Items : floor[u][i] <= Latest(i)
    BY DEF UserFloors, FloorIsIssued
  <2>2. \A i \in Items : floor'[u][i] <= Latest(i)
    <3>. SUFFICES ASSUME NEW i \in Items PROVE floor'[u][i] <= Latest(i)
      OBVIOUS
    <3>1. floor'[u][i] # floor[u][i] => floor'[u][i] <= settled[i]
      OBVIOUS
    <3>2. settled[i] <= data[i] /\ data[i] <= Latest(i)
      OBVIOUS
    <3>. QED BY <1>1, <2>1, <3>1, <3>2
  <2>. QED BY <1>1, <2>2 DEF FloorIsIssued
<1>3. SessionsCover(u)'
  BY <1>1 DEF UserFloors, SessionsCover, Covered
<1>4. RequestsCover(u)' /\ PurgesAreSafe(u)'
  BY DEF RequestsCover, PurgesAreSafe
<1>. QED BY <1>2, <1>3, <1>4 DEF UserFloors

(* A read of one item shows no less than the floor.                        *)
LEMMA GetFloors ==
  ASSUME TypeOK, TypeOK', IssuedInOrder, Timely, NEW u \in Users, UserFloors(u), GetData(u)
  PROVE  UserFloors(u)'
<1>1. PICK i \in Items, d \in 0 .. MaxVersion, again \in 0 .. MaxVersion,
           found \in CommandsRead : GetAnswer(u, i, d, again, found)
  BY GetAnswers
<1>2. i \in req[u].on /\ i \in found /\ d \in DataRead(i)
  BY <1>1 DEF CommandsRead, Timely, GetAnswer
<1>3. /\ UNCHANGED <<author, data, settled, session>> /\ req'[u].op = "idle" /\ RaiseRead(u)
      /\ req[u].op = "get"
  BY FinishFacts DEF GetData, tablesRW
<1>4. \A j \in Items : shown'[u][j] = IF j = i THEN Merged(req[u].v, d) ELSE 0
  BY <1>1, <1>2 DEF TypeOK, Idle, GetAnswer, GetShown
<1>5. \A j \in Items :
        /\ floor[u][j] \in Nat /\ data[j] \in Nat /\ settled[j] \in Nat /\ session[u][j] \in Nat
        /\ settled[j] <= data[j] /\ data[j] <= Latest(j)
  BY FloorValues DEF IssuedInOrder
<1>6. /\ req[u].v \in 0 .. MaxVersion /\ d \in 0 .. MaxVersion /\ d <= data[i]
      /\ Covered(u, i, req[u].v, settled[i])
      /\ session[u][i] # 0 => req[u].v = session[u][i]
  BY <1>2, <1>3, Values, DataReadTypes DEF UserFloors, RequestsCover
<1>7. \A j \in Items : <<u, j>> \notin purges
  BY <1>3 DEF UserFloors, PurgesAreSafe
<1>8. ASSUME NEW j \in Items
      PROVE  /\ floor'[u][j] # floor[u][j] =>
                  /\ floor'[u][j] <= settled[j]
                  /\ session[u][j] # 0 =>
                       session[u][j] >= floor'[u][j] \/ <<u, j>> \in purges'
             /\ <<u, j>> \in purges' => floor'[u][j] <= data[j]
  <2>1. CASE j # i
    <3>1. floor'[u][j] = floor[u][j]
      BY <1>3, <1>4, <1>5, <2>1, FloorRead
    <3>. QED BY <1>1, <1>7, <2>1, <3>1 DEF GetAnswer
  <2>2. CASE j = i
    <3>. DEFINE s == req[u].v
                m == Merged(s, d)
    <3>1. /\ s = 0 \/ CaughtUp(s, d) => m = d /\ d >= s
          /\ s # 0 /\ ~CaughtUp(s, d) => m = s
      BY <1>6, MergedCases
    <3>2. \/ floor'[u][i] = floor[u][i]
          \/ floor'[u][i] = m /\ m <= settled[i]
      BY <1>2, <1>3, <1>4, FloorRead
    <3>3. <<u, i>> \in purges' <=> s # 0 /\ CaughtUp(s, d)
      BY <1>1, <1>2, <1>7 DEF Stale, GetAnswer
    <3>4. s \in Nat /\ d \in Nat /\ (floor[u][i] > settled[i] => s >= floor[u][i])
      BY <1>6 DEF Covered
    <3>. HIDE DEF s, m
    <3>5. <<u, i>> \in purges' => floor'[u][i] <= data[i]
      BY <1>2, <1>5, <1>6, <3>1, <3>2, <3>3, <3>4
    <3>6. floor'[u][i] # floor[u][i] /\ session[u][i] # 0 =>
            session[u][i] >= floor'[u][i] \/ <<u, i>> \in purges'
      BY <1>2, <1>5, <1>6, <3>1, <3>2, <3>3, <3>4 DEF s
    <3>. QED BY <1>2, <2>2, <3>2, <3>5, <3>6
  <2>. QED BY <2>1, <2>2
<1>. QED BY <1>3, <1>5, <1>7, <1>8, AnswerFloors

(* A merged list shows no less than the floor.                             *)
LEMMA ListFloors ==
  ASSUME TypeOK, TypeOK', IssuedInOrder, Timely, NEW u \in Users, UserReads(u),
         UserFloors(u), ListMerge(u)
  PROVE  UserFloors(u)'
<1>. DEFINE base == req[u].base
            Shown(i, s, found) ==
              IF s = 0 \/ CaughtUp(s, base[i]) THEN Merged(s, base[i])
              ELSE IF ~found THEN base[i]
              ELSE IF s \in gone[i] THEN 0
              ELSE Merged(s, base[i])
<1>1. PICK s \in Views, found \in CommandsRead :
        /\ \A i \in Items : s[i] \in SessionRead(u, i)
        /\ shown' = [shown EXCEPT ![u] = [i \in Items |-> Shown(i, s[i], i \in found)]]
        /\ purges' = purges \cup {<<u, i>> : i \in {j \in Items : Stale(s[j], base[j])}}
  BY DEF ListMerge
<1>2. /\ UNCHANGED <<author, data, settled, session>> /\ req'[u].op = "idle" /\ RaiseRead(u)
      /\ req[u].op = "list"
  BY FinishFacts DEF ListMerge, tablesRW
<1>3. \A i \in Items : s[i] = session[u][i] /\ i \in found
  BY <1>1 DEF SessionRead, CommandsRead, Timely
<1>4. \A i \in Items : <<u, i>> \notin purges
  BY <1>2 DEF UserFloors, PurgesAreSafe
<1>5. \A i \in Items : <<u, i>> \in purges' <=> Stale(s[i], base[i])
  BY <1>1, <1>4
<1>. HIDE DEF Shown
<1>6. \A i \in Items : shown'[u][i] = Shown(i, s[i], i \in found)
  BY <1>1 DEF TypeOK
<1>7. ASSUME NEW i \in Items
      PROVE  /\ floor'[u][i] # floor[u][i] =>
                  /\ floor'[u][i] <= settled[i]
                  /\ session[u][i] # 0 =>
                       session[u][i] >= floor'[u][i] \/ <<u, i>> \in purges'
             /\ <<u, i>> \in purges' => floor'[u][i] <= data[i]
  <2>. DEFINE n == session[u][i]
              b == base[i]
              m == Merged(n, b)
  <2>1. n \in 0 .. MaxVersion /\ b \in 0 .. MaxVersion
    BY Values
  <2>2. /\ n = 0 \/ CaughtUp(n, b) => m = b /\ b >= n
        /\ n # 0 /\ ~CaughtUp(n, b) => m = n
    BY <2>1, MergedCases
  <2>3. <<u, i>> \in purges' <=> n # 0 /\ CaughtUp(n, b)
    BY <1>3, <1>5 DEF Stale
  <2>4. shown'[u][i] \in {0, m}
    BY <1>3, <1>6 DEF Shown
  <2>5. b <= data[i] /\ (floor[u][i] > settled[i] => n >= floor[u][i])
    BY <1>2 DEF UserReads, PageIsKnown, UserFloors, SessionsCover, Covered
  <2>6. /\ floor[u][i] \in Nat /\ data[i] \in Nat /\ settled[i] \in Nat
        /\ settled[i] <= data[i]
    BY FloorValues DEF IssuedInOrder
  <2>7. \/ floor'[u][i] = floor[u][i]
        \/ floor'[u][i] = m /\ m <= settled[i]
    BY <1>2, <2>4, <2>6, FloorRead
  <2>. HIDE DEF m, b, n
  <2>8. <<u, i>> \in purges' => floor'[u][i] <= data[i]
    BY <2>1, <2>2, <2>3, <2>5, <2>6, <2>7
  <2>9. floor'[u][i] # floor[u][i] /\ n # 0 =>
          n >= floor'[u][i] \/ <<u, i>> \in purges'
    BY <2>1, <2>2, <2>3, <2>7
  <2>. QED BY <2>7, <2>8, <2>9 DEF n
<1>8. \A i \in Items : settled[i] <= data[i] /\ data[i] <= Latest(i)
  BY DEF IssuedInOrder
<1>. QED BY <1>2, <1>4, <1>7, <1>8, AnswerFloors

(* Nor does a merged list from the relational store.                       *)
LEMMA RdsFloors ==
  ASSUME TypeOK, TypeOK', IssuedInOrder, Timely, RdsFollows, NEW u \in Users, UserReads(u),
         UserFloors(u), RdsMerge(u)
  PROVE  UserFloors(u)'
<1>1. PICK s \in Views, read \in Views, found \in CommandsRead,
           hidden \in SUBSET (Items \ req[u].on) :
        RdsAnswer(u, s, read, found, hidden)
  BY RdsMerges
<1>2. /\ UNCHANGED <<author, data, settled, session, floor>> /\ req'[u].op = "idle"
      /\ req[u].op = "rds"
  BY FinishFacts DEF RdsMerge, tablesRW
<1>3. \A i \in Items : s[i] = session[u][i] /\ read[i] <= data[i] /\ read[i] \in Nat
  BY <1>1, DataReadTypes DEF SessionRead, Timely, RdsAnswer
<1>4. \A i \in Items : <<u, i>> \notin purges
  BY <1>2 DEF UserFloors, PurgesAreSafe
<1>5. ASSUME NEW i \in Items, <<u, i>> \in purges' PROVE floor[u][i] <= data[i]
  <2>. DEFINE n == session[u][i]
              b == req[u].base[i]
  <2>1. /\ n \in Nat /\ b \in Nat /\ data[i] \in Nat /\ rds[i] \in Nat
        /\ floor[u][i] \in Nat /\ settled[i] \in Nat
    BY FloorValues
  <2>2. /\ b <= rds[i] /\ rds[i] <= data[i] /\ settled[i] <= data[i]
        /\ floor[u][i] > settled[i] => n >= floor[u][i]
    BY <1>2
    DEF UserReads, PageIsKnown, UserFloors, SessionsCover, Covered, RdsFollows, IssuedInOrder
  <2>3. CaughtUp(n, b) \/ CaughtUp(n, read[i])
    BY <1>1, <1>3, <1>4, <1>5 DEF RdsAnswer, RdsSynced
  <2>. HIDE DEF n, b
  <2>. QED BY <1>3, <2>1, <2>2, <2>3 DEF CaughtUp
<1>6. \A i \in Items : settled[i] <= data[i] /\ data[i] <= Latest(i)
  BY DEF IssuedInOrder
<1>. QED BY <1>2, <1>4, <1>5, <1>6, AnswerFloors

(* The relational store never gets ahead of the data table.                *)
LEMMA RdsStep ==
  ASSUME TypeOK, Timely, RdsFollows, [Next]_vars
  PROVE  RdsFollows'
<1>1. \A j \in Items : data[j] \in Nat /\ rds[j] \in Nat
  BY DEF TypeOK, Views
<1>2. ASSUME UNCHANGED tablesRW PROVE RdsFollows'
  BY <1>2 DEF tablesRW, RdsFollows
<1>3. ASSUME NEW u \in Users, UserStep(u) PROVE RdsFollows'
  <2>1. UNCHANGED <<data, rds>>
    BY <1>3 DEF UserStep, Read, PublishAsync, LoseSession, Purge, WriteSession, GetSession,
                GetData, ListQuery, RdsQuery, ListMerge, RdsMerge, tablesRW
  <2>. QED BY <2>1 DEF RdsFollows
<1>4. ASSUME NEW i \in Items, SyncData(i) PROVE RdsFollows'
  BY <1>1, <1>4 DEF SyncData, RdsFollows, TypeOK, Views
<1>5. ASSUME NEW i \in Items, SyncRds(i) PROVE RdsFollows'
  <2>1. rds[i] < data[i] /\ rds' = [rds EXCEPT ![i] = @ + 1] /\ data' = data
    BY <1>5 DEF SyncRds, Timely
  <2>2. \A j \in Items : rds'[j] = IF j = i THEN rds[j] + 1 ELSE rds[j]
    BY <2>1 DEF TypeOK, Views
  <2>. QED BY <1>1, <2>1, <2>2 DEF RdsFollows
<1>6. ASSUME NEW i \in Items, Settle(i) PROVE RdsFollows'
  BY <1>6 DEF Settle, RdsFollows
<1>. QED
  BY <1>2, <1>3, <1>4, <1>5, <1>6 DEF Next, UserStep, vars, tablesRW

LEMMA FloorInvInit == Init => FloorInv
<1>. SUFFICES ASSUME Init PROVE FloorInv
  OBVIOUS
<1>1. ReadInv /\ TypeOK
  BY ReadInvInit DEF ReadInv
<1>2. RdsFollows
  BY DEF Init, RdsFollows
<1>3. ASSUME NEW u \in Users PROVE UserFloors(u)
  <2>1. /\ purges = {} /\ req[u].op = "idle"
        /\ \A i \in Items :
             floor[u][i] = 0 /\ session[u][i] = 0 /\ data[i] = 0 /\ settled[i] = 0
    BY DEF Init, Idle
  <2>2. \A i \in Items : Latest(i) \in Nat
    BY LatestType
  <2>. QED
    BY <2>1, <2>2
    DEF UserFloors, FloorIsIssued, SessionsCover, RequestsCover, PurgesAreSafe, Covered
<1>. QED BY <1>1, <1>2, <1>3 DEF FloorInv

(* Every step keeps the invariant of floors.                               *)
LEMMA FloorInvStep ==
  ASSUME Timely, FloorInv, [Next]_vars
  PROVE  FloorInv'
<1>1. /\ TypeOK /\ TypeOK' /\ IssuedInOrder /\ TablesGrow /\ RdsFollows /\ ReadInv'
      /\ \A u \in Users : UserReads(u) /\ UserFloors(u)
  BY ReadInvStep, TablesStep DEF FloorInv, ReadInv
<1>2. RdsFollows'
  BY <1>1, RdsStep
<1>3. ASSUME NEW u \in Users, SameUser(u) PROVE UserFloors(u)'
  BY <1>1, <1>3, SameUserFloors
<1>4. ASSUME NEW u \in Users, UserStep(u) PROVE UserFloors(u)'
  <2>1. CASE \E i \in Items : \E d \in BOOLEAN : PublishAsync(u, i, d)
    BY <1>1, <2>1, PublishFloors
  <2>2. CASE \E i \in Items : LoseSession(u, i) \/ Purge(u, i)
    BY <1>1, <2>2, GoneFloors
  <2>3. CASE WriteSession(u)
    BY <1>1, <2>3, WriteFloors
  <2>4. CASE Read(u)
    BY <1>1, <2>4, StartFloors, GetFloors, ListFloors, RdsFloors DEF Read
  <2>. QED BY <1>4, <2>1, <2>2, <2>3, <2>4 DEF UserStep
<1>5. ASSUME NEW w \in Users, UserStep(w), NEW u \in Users PROVE UserFloors(u)'
  BY <1>1, <1>3, <1>4, <1>5, OthersKept
<1>6. ASSUME NEW i \in Items, SyncData(i) \/ Settle(i) \/ SyncRds(i), NEW u \in Users
      PROVE  UserFloors(u)'
  BY <1>3, <1>6, ReadModelsStep
<1>7. ASSUME UNCHANGED vars, NEW u \in Users PROVE UserFloors(u)'
  BY <1>3, <1>7 DEF vars, SameUser
<1>8. \A u \in Users : UserFloors(u)'
  BY <1>5, <1>6, <1>7 DEF Next, UserStep
<1>. QED BY <1>1, <1>2, <1>8 DEF FloorInv

(* A session row is at hand, in time, for whatever the user has a right to *)
(* see and the data table does not show.                                   *)
THEOREM FloorInvariant ==
  ASSUME Timely
  PROVE  Spec => []FloorInv
<1>1. FloorInv /\ [Next]_vars => FloorInv'
  BY FloorInvStep
<1>. QED BY <1>1, FloorInvInit, PTL DEF Spec

-----------------------------------------------------------------------------
(***************************************************************************)
(* The answers.                                                            *)
(***************************************************************************)
LEMMA AnswerSteps ==
  ASSUME TypeOK, [Next]_vars, NEW u \in Users, NEW op \in Ops \ {"idle"}, Answers(u, op)
  PROVE  /\ op = "get" => GetData(u)
         /\ op = "list" => ListMerge(u)
         /\ op = "rds" => RdsMerge(u)
<1>1. req'[u] # req[u] /\ req[u].op = op /\ op # "idle"
  BY DEF Answers
<1>2. UserStep(u)
  <2>1. ~UNCHANGED vars
    BY <1>1 DEF vars
  <2>2. \A i \in Items : ~SyncData(i) /\ ~Settle(i) /\ ~SyncRds(i)
    BY <1>1 DEF SyncData, Settle, SyncRds
  <2>3. \A w \in Users : UserStep(w) => w = u
    BY <1>1, OthersKept DEF SameUser
  <2>. QED BY <2>1, <2>2, <2>3 DEF Next, UserStep
<1>3. /\ \A i \in Items, d \in BOOLEAN : ~PublishAsync(u, i, d)
      /\ \A i \in Items : ~GetSession(u, i)
      /\ \A page \in SUBSET Items : ~ListQuery(u, page) /\ ~RdsQuery(u, page)
  BY <1>1 DEF PublishAsync, GetSession, ListQuery, RdsQuery, Start, MayStart
<1>4. \A i \in Items : ~LoseSession(u, i) /\ ~Purge(u, i)
  BY <1>1 DEF LoseSession, Purge
<1>5. WriteSession(u) \/ GetData(u) \/ ListMerge(u) \/ RdsMerge(u)
  BY <1>2, <1>3, <1>4 DEF UserStep, Read
<1>. QED BY <1>1, <1>5 DEF WriteSession, GetData, ListMerge, RdsMerge

(* getItem shows a user at least what this user wrote, until the session   *)
(* row is lost or deleted, and what was settled from then on: when session *)
(* rows and commands are visible in time, for any loss of session rows and *)
(* any age of the data rows that are read.                                 *)
THEOREM GetShowsOwnWrites ==
  ASSUME Timely
  PROVE  Spec => GetSeesOwnWrites
<1>1. ASSUME FloorInv, [Next]_vars, NEW u \in Users, Answers(u, "get"), NEW i \in req[u].on
      PROVE  shown'[u][i] >= floor[u][i]
  <2>1. TypeOK /\ GetData(u)
    BY <1>1, AnswerSteps DEF FloorInv, ReadInv, Ops
  <2>2. PICK k \in Items, d \in 0 .. MaxVersion, again \in 0 .. MaxVersion,
             found \in CommandsRead : GetAnswer(u, k, d, again, found)
    BY <2>1, GetAnswers
  <2>3. /\ i \in Items /\ k = i /\ i \in found /\ d \in DataRead(i)
        /\ Covered(u, i, req[u].v, settled[i])
    BY <1>1, <2>1, <2>2
    DEF FloorInv, UserFloors, RequestsCover, GetData, TypeOK, GetAnswer, CommandsRead, Timely
  <2>4. shown'[u][i] = Merged(req[u].v, d)
    BY <2>1, <2>2, <2>3 DEF TypeOK, Idle, GetAnswer, GetShown
  <2>5. /\ req[u].v \in 0 .. MaxVersion /\ d \in 0 .. MaxVersion /\ settled[i] <= d
        /\ floor[u][i] \in 0 .. MaxVersion /\ settled[i] \in 0 .. MaxVersion
    BY <2>1, <2>2, <2>3, Values, DataReadTypes
  <2>. QED BY <2>3, <2>4, <2>5, MergedCases DEF Covered
<1>2. FloorInv /\ [Next]_vars =>
        \A u \in Users : Answers(u, "get") => \A i \in req[u].on : shown'[u][i] >= floor[u][i]
  BY <1>1
<1>. QED BY <1>2, FloorInvariant, PTL DEF Spec, GetSeesOwnWrites

(* listItemsByPk does too, for every item it lists, and leaves an item out *)
(* only if it is deleted or every copy of the data table has what the user *)
(* has a right to see.                                                     *)
THEOREM ListShowsOwnWrites ==
  ASSUME Timely
  PROVE  Spec => ListSeesOwnWrites
<1>1. ASSUME FloorInv, [Next]_vars, NEW u \in Users, Answers(u, "list"), NEW i \in Items
      PROVE  IF shown'[u][i] # 0 THEN shown'[u][i] >= floor[u][i]
             ELSE \/ settled[i] >= floor[u][i]
                  \/ \E v \in gone[i] : v >= floor[u][i]
  <2>. DEFINE base == req[u].base
              Shown(j, n, found) ==
                IF n = 0 \/ CaughtUp(n, base[j]) THEN Merged(n, base[j])
                ELSE IF ~found THEN base[j]
                ELSE IF n \in gone[j] THEN 0
                ELSE Merged(n, base[j])
              s == session[u][i]
              b == base[i]
              f == floor[u][i]
  <2>1. TypeOK /\ ListMerge(u)
    BY <1>1, AnswerSteps DEF FloorInv, ReadInv, Ops
  <2>2. shown'[u][i] = Shown(i, s, TRUE)
    <3>1. PICK n \in Views, found \in CommandsRead :
            /\ \A j \in Items : n[j] \in SessionRead(u, j)
            /\ shown' = [shown EXCEPT ![u] = [j \in Items |-> Shown(j, n[j], j \in found)]]
      BY <2>1 DEF ListMerge
    <3>2. n[i] = s /\ (i \in found) = TRUE
      BY <3>1 DEF SessionRead, CommandsRead, Timely
    <3>. HIDE DEF Shown, s
    <3>. QED BY <2>1, <3>1, <3>2 DEF TypeOK
  <2>3. /\ s \in 0 .. MaxVersion /\ b \in 0 .. MaxVersion /\ f \in 0 .. MaxVersion
        /\ settled[i] \in 0 .. MaxVersion
    BY <2>1, Values
  <2>4. /\ f > settled[i] => s >= f
        /\ s # 0 => s >= f
        /\ b # 0 /\ f > b => s >= f
    <3>1. req[u].op = "list" /\ UserFloors(u)
      BY <1>1, <2>1 DEF FloorInv, ListMerge
    <3>2. <<u, i>> \notin purges
      BY <3>1 DEF UserFloors, PurgesAreSafe
    <3>. QED BY <3>1, <3>2 DEF UserFloors, SessionsCover, RequestsCover, Covered
  <2>5. /\ s = 0 \/ CaughtUp(s, b) => Merged(s, b) = b /\ b >= s
        /\ s # 0 /\ ~CaughtUp(s, b) => Merged(s, b) = s
    BY <2>3, MergedCases
  <2>6. \/ shown'[u][i] = 0 /\ s # 0 /\ s \in gone[i]
        \/ shown'[u][i] = Merged(s, b)
    BY <2>2
  <2>7. CaughtUp(s, b) => b # 0 /\ b >= s
    BY <2>3 DEF CaughtUp
  <2>. HIDE DEF s, b, f
  <2>8. CASE shown'[u][i] = 0 /\ s # 0 /\ s \in gone[i]
    BY <2>4, <2>8 DEF f
  <2>9. CASE shown'[u][i] = Merged(s, b)
    <3>1. CASE s # 0 /\ ~CaughtUp(s, b)
      BY <2>4, <2>5, <2>9, <3>1 DEF f
    <3>2. CASE s = 0 \/ CaughtUp(s, b)
      BY <2>3, <2>4, <2>5, <2>7, <2>9, <3>2 DEF f
    <3>. QED BY <3>1, <3>2
  <2>. QED BY <2>6, <2>8, <2>9
<1>2. FloorInv /\ [Next]_vars =>
        \A u \in Users : Answers(u, "list") =>
          \A i \in Items :
            IF shown'[u][i] # 0 THEN shown'[u][i] >= floor[u][i]
            ELSE \/ settled[i] >= floor[u][i]
                 \/ \E v \in gone[i] : v >= floor[u][i]
  BY <1>1
<1>. QED BY <1>2, FloorInvariant, PTL DEF Spec, ListSeesOwnWrites

(* What is listed after rows were added and others were taken out.         *)
LEMMA ListedCount ==
  ASSUME NEW L, NEW A, NEW B, IsFiniteSet(L), IsFiniteSet(A), B \subseteq L,
         A \cap L = {}
  PROVE  Cardinality((L \ B) \cup A) = Cardinality(L) + Cardinality(A) - Cardinality(B)
<1>1. IsFiniteSet(B) /\ IsFiniteSet(L \ B)
  BY FS_Subset, FS_Difference
<1>2. Cardinality(L \ B) = Cardinality(L) - Cardinality(B)
  <2>1. L \cap B = B
    OBVIOUS
  <2>2. Cardinality(L \ B) = Cardinality(L) - Cardinality(L \cap B)
    BY FS_Difference
  <2>. QED BY <2>1, <2>2
<1>3. Cardinality((L \ B) \cup A) = Cardinality(L \ B) + Cardinality(A) - 0
  <2>1. (L \ B) \cap A = {}
    OBVIOUS
  <2>2. Cardinality((L \ B) \cup A) =
          Cardinality(L \ B) + Cardinality(A) - Cardinality((L \ B) \cap A)
    BY <1>1, FS_Union
  <2>. QED BY <2>1, <2>2, FS_EmptySet
<1>4. /\ Cardinality(L) \in Nat /\ Cardinality(A) \in Nat /\ Cardinality(B) \in Nat
  BY <1>1, FS_CardinalityType
<1>. QED BY <1>2, <1>3, <1>4

(* The total of listItems is the number of items on a page with every row, *)
(* whatever was merged into it, for all faults.                            *)
THEOREM TotalsAreListed == Spec => TotalIsListed
<1>1. ASSUME ReadInv, [Next]_vars, NEW u \in Users, Answers(u, "rds"), req[u].on = Items
      PROVE  total'[u] = Cardinality({i \in Items : shown'[u][i] # 0})
  <2>1. TypeOK /\ RdsMerge(u)
    BY <1>1, AnswerSteps DEF ReadInv, Ops
  <2>2. PICK s \in Views, read \in Views, found \in CommandsRead,
             hidden \in SUBSET (Items \ req[u].on) :
          RdsAnswer(u, s, read, found, hidden)
    BY <2>1, RdsMerges
  <2>. DEFINE base == req[u].base
              Pending(i) == i \in RdsChanged(u, s, read, found)
              Changed(n) == RdsCounted(u, s, read, found, hidden, n)
  <2>3. hidden = {}
    BY <1>1, <2>2
  <2>4. \A i \in Items : shown'[u][i] = RdsShown(u, s, read, found, hidden, i)
    BY <2>1, <2>2 DEF TypeOK, RdsAnswer
  <2>5. total'[u] = req[u].count + Cardinality(Changed(1)) - Cardinality(Changed(-1))
    BY <2>1, <2>2 DEF TypeOK, RdsAnswer
  <2>6. req[u].count = Cardinality(Listed(base))
    BY <1>1, <2>1 DEF ReadInv, UserReads, PageIsCounted, RdsMerge
  <2>7. /\ Changed(-1) \subseteq Listed(base) /\ Changed(1) \cap Listed(base) = {}
        /\ {i \in Items : shown'[u][i] # 0} = (Listed(base) \ Changed(-1)) \cup Changed(1)
    <3>. DEFINE Dropped(i) == Pending(i) /\ s[i] \in gone[i] /\ base[i] # 0
                Added(i) == Pending(i) /\ s[i] \notin gone[i] /\ base[i] = 0
    <3>1. Changed(-1) = {i \in Items : Dropped(i)} /\ Changed(1) = {i \in Items : Added(i)}
      BY <2>3 DEF Delta, RdsCounted, RdsChanged
    <3>2. \A i \in Items : shown'[u][i] # 0 <=> (base[i] # 0 /\ ~Dropped(i)) \/ Added(i)
      BY <2>3, <2>4 DEF RdsShown, RdsChanged
    <3>. HIDE DEF Changed, Pending
    <3>. QED BY <3>1, <3>2 DEF Listed
  <2>8. IsFiniteSet(Listed(base)) /\ IsFiniteSet(Changed(1))
    <3>1. Listed(base) \subseteq Items /\ Changed(1) \subseteq Items
      BY DEF Listed, RdsCounted, RdsChanged
    <3>. QED BY <3>1, CountType
  <2>. HIDE DEF Changed
  <2>. QED BY <2>5, <2>6, <2>7, <2>8, ListedCount
<1>2. ReadInv /\ [Next]_vars =>
        \A u \in Users : Answers(u, "rds") /\ req[u].on = Items =>
          total'[u] = Cardinality({i \in Items : shown'[u][i] # 0})
  BY <1>1
<1>. QED BY <1>2, ReadInvariant, PTL DEF Spec, TotalIsListed
=============================================================================
