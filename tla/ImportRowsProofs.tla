-------------------------- MODULE ImportRowsProofs --------------------------
(***************************************************************************)
(* What the import tells of its rows, proved for all messages, rows and    *)
(* deliveries, with every fault.                                           *)
(***************************************************************************)
EXTENDS ImportRows, ItemStoreProofs

Commands2 == [op : Messages \X (Nat \ {0}), row : Nat]

StoreTypes ==
  /\ DOMAIN call = Clients
  /\ log \in [Items -> Seq(Commands2)]
  /\ synced \in [Items -> Nat]
  /\ \A i \in Items : synced[i] <= Len(log[i])

RowTypes ==
  /\ status \in [Single -> {"none", "CREATED", "QUEUED", "PROCESSING"} \cup Ended]
  /\ inserted \in [Messages -> {"none", "new", "published", "queued"}]
  /\ parent \in [status : {"CREATED"} \cup Ended, total : Nat, processed : Nat,
                 succeeded : Nat, failed : Nat, loader : {"none"} \cup Ended]
  /\ parent.processed = parent.succeeded + parent.failed
  /\ notices \subseteq Single \X Ended

(* Every command is that of a row for its item.                            *)
FromRows ==
  \A i \in Items : \A v \in DOMAIN log[i] :
    LET o == log[i][v].op IN
    /\ o[2] \in DOMAIN content[o[1]]
    /\ content[o[1]][o[2]].key = i /\ content[o[1]][o[2]].value = log[i][v].row

Imported(m) == {k \in DOMAIN content[m] : ImportedRow(m, k)}

(* The progress q of delivery w when the rows S of its message are         *)
(* imported: the rows before the one that a batch is at are among them,    *)
(* unless the batch knows of an error.                                     *)
Progressed(w, q, S) ==
  /\ q \in Progress
  /\ q.row \in DOMAIN content[Message(w)]
  /\ q.at = "none" => q.row = 1 /\ ~q.error
  /\ q.at \in {"completed", "count", "finalize", "catch"} => Message(w) \in Single
  /\ q.at \in {"count", "finalize"} => Message(w) \in Children
  /\ q.at = "finalize" => q.final \in Ended
  /\ q.at \in {"compare", "publish"} /\ ~q.error =>
       \A k \in DOMAIN content[Message(w)] : k < q.row => k \in S
  /\ q.at \in {"completed", "count", "finalize", "over"} => DOMAIN content[Message(w)] \subseteq S

ProgressOf(w, q) == Progressed(w, q, Imported(Message(w)))

(* The call r of a delivery at row k of its message: it replaces a state   *)
(* that is another one.                                                    *)
CallOf(w, k, r) ==
  LET row == content[Message(w)][k] IN
  /\ r.step = "publish" /\ r.todo = <<>>
  /\ r.op = <<Message(w), k>> /\ r.item = row.key /\ r.row = row.value
  /\ r.version \in 0 .. synced[row.key]
  /\ r.version # 0 => log[row.key][r.version].row # row.value

WorkIsSound ==
  /\ DOMAIN work = Clients
  /\ \A w \in Clients :
       /\ ProgressOf(w, work[w])
       /\ IF work[w].at = "publish" THEN CallOf(w, work[w].row, call[w]) ELSE call[w] = Idle

ToldOnlyImported ==
  \A m \in Single :
    status[m] = "COMPLETED" \/ <<m, "COMPLETED">> \in notices => ImportedRow(m, 1)

RowsInv ==
  StoreTypes /\ RowTypes /\ FromRows /\ RowsApplyOnce /\ WorkIsSound /\ ToldOnlyImported

(* What a handler was delivered.                                           *)
LEMMA MessageTypes ==
  ASSUME NEW w \in Clients
  PROVE  /\ Message(w) \in Messages
         /\ content[Message(w)] \in Seq([key : Items, value : Nat])
         /\ Len(content[Message(w)]) \in Nat \ {0}
         /\ DOMAIN content[Message(w)] = 1 .. Len(content[Message(w)])
         /\ Message(w) \in Single => DOMAIN content[Message(w)] = {1}
<1>1. Message(w) \in Messages
  BY ClientsAssumption DEF Message
<1>2. /\ content[Message(w)] \in Seq([key : Items, value : Nat])
      /\ Len(content[Message(w)]) > 0
      /\ Message(w) \in Single => Len(content[Message(w)]) = 1
  BY <1>1, MessagesAssumption
<1>. QED BY <1>1, <1>2

LEMMA RowTyped ==
  ASSUME NEW m \in Messages, NEW k \in DOMAIN content[m]
  PROVE  content[m][k].key \in Items /\ content[m][k].value \in Nat
<1>1. content[m] \in Seq([key : Items, value : Nat])
  BY MessagesAssumption
<1>2. \A T : \A t \in Seq(T) : \A n \in DOMAIN t : t[n] \in T
  OBVIOUS
<1>3. content[m][k] \in [key : Items, value : Nat]
  BY <1>1, <1>2, Zenon
<1>. QED BY <1>3

LEMMA RowsInvInit == RowsInit => RowsInv
<1> SUFFICES ASSUME RowsInit PROVE RowsInv
  OBVIOUS
<1>1. StoreTypes /\ RowTypes /\ ToldOnlyImported
  BY DEF RowsInit, StoreInit, StoreTypes, RowTypes, ToldOnlyImported, Ended
<1>2. FromRows /\ RowsApplyOnce
  BY DEF RowsInit, StoreInit, FromRows, RowsApplyOnce
<1>3. ASSUME NEW w \in Clients
      PROVE  ProgressOf(w, work[w]) /\ work[w].at # "publish" /\ call[w] = Idle
  <2>1. work[w] = [at |-> "none", row |-> 1, error |-> FALSE, final |-> "none"]
    BY DEF RowsInit
  <2>2. 1 \in DOMAIN content[Message(w)]
    BY MessageTypes
  <2>. QED BY <2>1, <2>2 DEF ProgressOf, Progressed, Progress, RowsInit, StoreInit
<1>4. DOMAIN work = Clients
  BY DEF RowsInit
<1>. QED BY <1>1, <1>2, <1>3, <1>4 DEF RowsInv, WorkIsSound

(***************************************************************************)
(* Steps that leave the commands alone.                                    *)
(***************************************************************************)
LEMMA SameLog ==
  ASSUME RowsInv, UNCHANGED <<log, synced>>
  PROVE  /\ FromRows' /\ RowsApplyOnce'
         /\ \A m, k : ImportedRow(m, k)' <=> ImportedRow(m, k)
         /\ \A w, q : ProgressOf(w, q)' <=> ProgressOf(w, q)
         /\ \A w, k, r : CallOf(w, k, r)' <=> CallOf(w, k, r)
<1>1. \A m, k : ImportedRow(m, k)' <=> ImportedRow(m, k)
  BY DEF ImportedRow
<1>. QED BY <1>1 DEF RowsInv, FromRows, RowsApplyOnce, ProgressOf, Progressed, Imported, CallOf

(* Delivery w goes on from progress work[w] to q, and neither publishes.   *)
LEMMA GoesOn ==
  ASSUME RowsInv, RowTypes', UNCHANGED storeVars, NEW w \in Clients, NEW q,
         ProgressOf(w, q), work[w].at # "publish", q.at # "publish",
         work' = [work EXCEPT ![w] = q], ToldOnlyImported'
  PROVE  RowsInv'
<1>1. StoreTypes'
  BY DEF RowsInv, StoreTypes, storeVars
<1>2. \A u \in Clients : work'[u] = IF u = w THEN q ELSE work[u]
  BY DEF RowsInv, WorkIsSound
<1>3. UNCHANGED <<log, synced, call>>
  BY DEF storeVars
<1>4. ASSUME NEW u \in Clients
      PROVE  /\ ProgressOf(u, work'[u])
             /\ IF work'[u].at = "publish" THEN CallOf(u, work'[u].row, call[u]) ELSE call[u] = Idle
  BY <1>2 DEF RowsInv, WorkIsSound
<1>5. WorkIsSound'
  <2>1. DOMAIN work' = Clients
    BY DEF RowsInv, WorkIsSound
  <2>. QED BY <1>3, <1>4, <2>1, SameLog DEF WorkIsSound
<1>. QED BY <1>1, <1>3, <1>5, SameLog DEF RowsInv

(* Nothing happens but what the row, its parent or a notice says.          *)
LEMMA OnlySaid ==
  ASSUME RowsInv, RowTypes', UNCHANGED <<storeVars, work>>, ToldOnlyImported'
  PROVE  RowsInv'
<1>1. UNCHANGED <<log, synced, call, work>>
  BY DEF storeVars
<1>2. StoreTypes'
  BY <1>1 DEF RowsInv, StoreTypes
<1>3. WorkIsSound'
  BY <1>1, SameLog DEF RowsInv, WorkIsSound
<1>. QED BY <1>1, <1>2, <1>3, SameLog DEF RowsInv

(* A step without a new notice keeps the notices true.                     *)
LEMMA SameTold ==
  ASSUME RowsInv, UNCHANGED log, notices' \subseteq notices,
         \A m \in Single : status'[m] = "COMPLETED" => status[m] = "COMPLETED" \/ ImportedRow(m, 1)
  PROVE  ToldOnlyImported'
BY DEF RowsInv, ToldOnlyImported, ImportedRow

(* What follows a row whose import succeeded, or did not.                  *)
LEMMA AfterRowSound ==
  ASSUME RowsInv, NEW w \in Clients, work[w].at \in {"compare", "publish"}, NEW error \in BOOLEAN,
         NEW S, Progressed(w, work[w], S), ~error => work[w].row \in S
  PROVE  \E q : /\ AfterRow(w, error) = [work EXCEPT ![w] = q]
                /\ Progressed(w, q, S) /\ q.at # "publish"
<1> DEFINE m == Message(w)
           p == work[w]
           failed == BatchError(w, error)
<1>1. /\ p \in Progress /\ DOMAIN work = Clients
      /\ p.row \in DOMAIN content[m] /\ failed \in BOOLEAN /\ failed = (p.error \/ error)
  BY DEF RowsInv, WorkIsSound, Progressed, Progress, BatchError
<1>2. CASE m \in Single
  <2> DEFINE q == [p EXCEPT !.at = IF error THEN "catch" ELSE "completed"]
  <2>1. AfterRow(w, error) = [work EXCEPT ![w] = q]
    BY <1>2 DEF AfterRow
  <2>2. q \in Progress /\ q.row = p.row /\ q.at = IF error THEN "catch" ELSE "completed"
    BY <1>1 DEF Progress
  <2>3. ~error => DOMAIN content[m] \subseteq S
    BY <1>1, <1>2, MessageTypes
  <2>4. Progressed(w, q, S)
    BY <1>1, <1>2, <2>2, <2>3 DEF Progressed
  <2> HIDE DEF q
  <2>. QED BY <2>1, <2>2, <2>4
<1>3. ~error /\ ~p.error => \A k \in DOMAIN content[m] : k <= p.row => k \in S
  <2>1. \A k \in DOMAIN content[m] : k \in Int /\ p.row \in Int
    BY <1>1, MessageTypes
  <2>2. ~p.error => \A k \in DOMAIN content[m] : k < p.row => k \in S
    BY <1>1 DEF Progressed
  <2>. QED BY <2>1, <2>2
<1>4. CASE m \notin Single /\ p.row < Len(content[m])
  <2> DEFINE q == [p EXCEPT !.at = "compare", !.row = p.row + 1, !.error = failed]
  <2>1. AfterRow(w, error) = [work EXCEPT ![w] = q]
    BY <1>4 DEF AfterRow
  <2>2. q \in Progress /\ q.row = p.row + 1 /\ q.at = "compare" /\ q.error = failed
    <3>1. p.row \in Nat \ {0} /\ p.row + 1 \in Nat \ {0}
      BY <1>1 DEF Progress
    <3> HIDE DEF failed
    <3>. QED BY <1>1, <3>1 DEF Progress
  <2>3. q.row \in DOMAIN content[m] /\ \A k \in DOMAIN content[m] : k < q.row => k <= p.row
    BY <1>1, <1>4, <2>2, MessageTypes
  <2>4. Progressed(w, q, S)
    BY <1>1, <1>3, <2>2, <2>3 DEF Progressed
  <2> HIDE DEF q
  <2>. QED BY <2>1, <2>2, <2>4
<1>5. CASE m \notin Single /\ ~(p.row < Len(content[m]))
  <2> DEFINE q == [p EXCEPT !.at = IF failed THEN "thrown" ELSE "over", !.error = failed]
  <2>1. AfterRow(w, error) = [work EXCEPT ![w] = q]
    BY <1>5 DEF AfterRow
  <2>2. q \in Progress /\ q.row = p.row /\ q.at = (IF failed THEN "thrown" ELSE "over")
    BY <1>1 DEF Progress
  <2>3. \A k \in DOMAIN content[m] : k <= p.row
    BY <1>1, <1>5, MessageTypes
  <2>4. ~failed => DOMAIN content[m] \subseteq S
    BY <1>1, <1>3, <2>3
  <2>5. Progressed(w, q, S)
    BY <1>1, <2>2, <2>4 DEF Progressed
  <2> HIDE DEF q
  <2>. QED BY <2>1, <2>2, <2>5
<1>. QED BY <1>2, <1>4, <1>5

(***************************************************************************)
(* The types, apart from those of the commands and the deliveries.         *)
(***************************************************************************)
LEMMA RowTypesStep ==
  ASSUME RowsInv, [RowsNext]_rowVars
  PROVE  RowTypes'
<1> USE DEF RowTypes
<1>1. RowTypes
  BY DEF RowsInv
<1>2. CASE UNCHANGED rowVars
  BY <1>1, <1>2 DEF rowVars
<1>3. ASSUME NEW m \in Single,
             \/ CreateImport(m) \/ OnRowInsert(m) \/ \E s \in Ended : CommandFinished(m, s)
      PROVE  RowTypes'
  BY <1>1, <1>3, MessagesAssumption
  DEF CreateImport, OnRowInsert, PublishRowImport, MarkRowQueued, CommandFinished, Ended
<1>4. ASSUME NEW m \in Messages, SendBatch(m)
      PROVE  RowTypes'
  BY <1>1, <1>4 DEF SendBatch
<1>5. ASSUME NEW w \in Clients, Receive(w) \/ ReceiveAgain(w)
      PROVE  RowTypes'
  BY <1>1, <1>5 DEF Receive, ReceiveAgain, Process
<1>6. ASSUME NEW w \in Clients, Handle(w)
      PROVE  RowTypes'
  <2>1. CASE \/ Compare(w) \/ StrategyFails(w) \/ PublishRow(w) \/ Complete(w) \/ Catch(w)
    BY <1>1, <2>1 DEF Compare, StrategyFails, PublishRow, Complete, Catch, Ended
  <2>2. CASE IncrementParentJobCounters(w)
    <3>1. /\ parent' = [parent EXCEPT !.processed = @ + 1, !.succeeded = @ + 1, !.failed = @]
          /\ UNCHANGED <<status, inserted, notices>>
      BY <2>2 DEF IncrementParentJobCounters, Counted
    <3>2. /\ parent'.status = parent.status /\ parent'.total = parent.total
          /\ parent'.processed = parent.processed + 1 /\ parent'.succeeded = parent.succeeded + 1
          /\ parent'.failed = parent.failed /\ parent'.loader = parent.loader
      BY <1>1, <3>1
    <3>3. parent.processed \in Nat /\ parent.succeeded \in Nat /\ parent.failed \in Nat
      BY <1>1
    <3>4. parent'.processed = parent'.succeeded + parent'.failed
      BY <1>1, <3>2, <3>3
    <3> DEFINE n == parent.processed + 1
               k == parent.succeeded + 1
    <3>6. parent' = [parent EXCEPT !.processed = n, !.succeeded = k]
      BY <1>1, <3>1
    <3>7. n \in Nat /\ k \in Nat
      BY <3>3
    <3> HIDE DEF n, k
    <3>5. parent' \in [status : {"CREATED"} \cup Ended, total : Nat, processed : Nat,
                       succeeded : Nat, failed : Nat, loader : {"none"} \cup Ended]
      BY <1>1, <3>6, <3>7
    <3>. QED BY <1>1, <3>1, <3>4, <3>5
  <2>3. CASE FinalizeParent(w)
    <3>1. work[w].final \in Ended
      BY <2>3 DEF FinalizeParent, At, RowsInv, WorkIsSound, ProgressOf, Progressed
    <3>. QED BY <1>1, <2>3, <3>1 DEF FinalizeParent
  <2>. QED BY <1>6, <2>1, <2>2, <2>3 DEF Handle
<1>7. CASE Load
  <2>1. CASE CsvLoader
    <3>1. Cardinality(Children) \in Nat
      BY MessagesAssumption, FS_CardinalityType
    <3>. QED BY <1>1, <2>1, <3>1 DEF CsvLoader, SetTotal, FinalStatus, Ended
  <2>2. CASE CsvLoaderFinalizes
    BY <1>1, <2>2 DEF CsvLoaderFinalizes, Ended
  <2>. QED BY <1>7, <2>1, <2>2 DEF Load
<1>8. ASSUME NEW i \in Items, SyncRow(i) \/ FinishFails(i) \/ SyncFails(i)
      PROVE  RowTypes'
  BY <1>1, <1>8 DEF SyncRow, FinishFails, SyncFails, Notify, Ended
<1>. QED BY <1>2, <1>3, <1>4, <1>5, <1>6, <1>7, <1>8 DEF RowsNext

(***************************************************************************)
(* The steps.                                                              *)
(***************************************************************************)
LEMMA HandlerSteps ==
  ASSUME RowsInv, RowTypes', NEW w \in Clients,
         \/ Process(w) \/ StrategyFails(w) \/ Complete(w) \/ Catch(w)
         \/ IncrementParentJobCounters(w) \/ FinalizeParent(w)
         \/ Compare(w) /\ Equal(w)
  PROVE  RowsInv'
<1> DEFINE p == work[w]
<1>1. ProgressOf(w, p) /\ p \in Progress /\ DOMAIN work = Clients
  BY DEF RowsInv, WorkIsSound, ProgressOf, Progressed
<1>2. CASE Process(w)
  <2> DEFINE q == [p EXCEPT !.at = "compare"]
  <2>1. work' = [work EXCEPT ![w] = q] /\ p.at = "none"
    BY <1>2 DEF Process, At
  <2>2. q \in Progress /\ q.row = p.row /\ q.error = p.error /\ q.at = "compare"
    BY <1>1 DEF Progress
  <2>3. ProgressOf(w, q)
    BY <1>1, <2>1, <2>2, MessageTypes DEF ProgressOf, Progressed
  <2>4. ToldOnlyImported' /\ UNCHANGED storeVars
    <3>1. \A m \in Single : status'[m] = "COMPLETED" => status[m] = "COMPLETED"
      BY <1>2 DEF Process, RowsInv, RowTypes
    <3>. QED BY <1>2, <3>1, SameTold DEF Process, storeVars
  <2> HIDE DEF q
  <2>. QED BY <2>1, <2>2, <2>3, <2>4, GoesOn
<1>3. CASE StrategyFails(w)
  <2>1. work' = AfterRow(w, TRUE) /\ p.at = "compare" /\ UNCHANGED <<storeVars, status, notices>>
    BY <1>3 DEF StrategyFails
  <2>2. ToldOnlyImported'
    BY <2>1, SameTold DEF storeVars
  <2>3. PICK q : AfterRow(w, TRUE) = [work EXCEPT ![w] = q] /\ ProgressOf(w, q) /\ q.at # "publish"
    <3>1. Progressed(w, p, Imported(Message(w)))
      BY <1>1 DEF ProgressOf
    <3>2. \E q : /\ AfterRow(w, TRUE) = [work EXCEPT ![w] = q]
                 /\ Progressed(w, q, Imported(Message(w))) /\ q.at # "publish"
      BY <2>1, <3>1, AfterRowSound
    <3>. QED BY <3>2 DEF ProgressOf
  <2>. QED BY <2>1, <2>2, <2>3, GoesOn
<1>4. CASE Complete(w)
  <2> DEFINE q == [p EXCEPT !.at = IF Message(w) \in Children THEN "count" ELSE "over"]
  <2>1. work' = [work EXCEPT ![w] = q] /\ p.at = "completed"
    BY <1>4 DEF Complete, At
  <2>2. q \in Progress /\ q.row = p.row /\ q.at \in {"count", "over"}
    BY <1>1 DEF Progress
  <2>3. ProgressOf(w, q) /\ ImportedRow(Message(w), 1)
    BY <1>1, <2>1, <2>2, MessageTypes DEF ProgressOf, Progressed, Imported
  <2>4. ToldOnlyImported' /\ UNCHANGED storeVars
    <3>1. \A m \in Single : status'[m] = "COMPLETED" => status[m] = "COMPLETED" \/ m = Message(w)
      BY <1>4 DEF Complete, RowsInv, RowTypes
    <3>. QED BY <1>4, <2>3, <3>1, SameTold DEF Complete, storeVars
  <2> HIDE DEF q
  <2>. QED BY <2>1, <2>2, <2>3, <2>4, GoesOn
<1>5. CASE Catch(w)
  <2> DEFINE q == [p EXCEPT !.at = "thrown"]
  <2>1. work' = [work EXCEPT ![w] = q] /\ p.at = "catch"
    BY <1>5 DEF Catch, At
  <2>2. q \in Progress /\ q.row = p.row /\ q.at = "thrown"
    BY <1>1 DEF Progress
  <2>3. ProgressOf(w, q)
    BY <1>1, <2>1, <2>2 DEF ProgressOf, Progressed
  <2>4. ToldOnlyImported' /\ UNCHANGED storeVars
    <3>1. \A m \in Single : status'[m] = "COMPLETED" => status[m] = "COMPLETED"
      BY <1>5 DEF Catch, RowsInv, RowTypes
    <3>. QED BY <1>5, <3>1, SameTold DEF Catch, storeVars
  <2> HIDE DEF q
  <2>. QED BY <2>1, <2>2, <2>3, <2>4, GoesOn
<1>6. CASE IncrementParentJobCounters(w)
  <2> DEFINE over == AllProcessed(Counted(parent, TRUE))
             final == IF over THEN FinalStatus(Counted(parent, TRUE)) ELSE "none"
             q == [p EXCEPT !.at = IF over THEN "finalize" ELSE "over", !.final = final]
  <2>1. work' = [work EXCEPT ![w] = q] /\ p.at = "count" /\ UNCHANGED <<storeVars, status, notices>>
    BY <1>6, <1>1 DEF IncrementParentJobCounters
  <2>2. final \in {"none"} \cup Ended /\ (over => final \in Ended)
    BY DEF FinalStatus, Ended
  <2> HIDE DEF over, final
  <2>3. /\ q \in Progress /\ q.row = p.row /\ q.at = (IF over THEN "finalize" ELSE "over")
        /\ q.final = final
    BY <1>1, <2>2 DEF Progress
  <2>4. ProgressOf(w, q)
    BY <1>1, <2>1, <2>2, <2>3 DEF ProgressOf, Progressed
  <2>5. ToldOnlyImported'
    BY <2>1, SameTold DEF storeVars
  <2>6. q.at # "publish"
    BY <2>3
  <2> HIDE DEF q
  <2>. QED BY <2>1, <2>4, <2>5, <2>6, GoesOn
<1>7. CASE FinalizeParent(w)
  <2> DEFINE q == [p EXCEPT !.at = "over"]
  <2>1. work' = [work EXCEPT ![w] = q] /\ p.at = "finalize" /\ UNCHANGED <<storeVars, status, notices>>
    BY <1>7 DEF FinalizeParent, At
  <2>2. q \in Progress /\ q.row = p.row /\ q.at = "over"
    BY <1>1 DEF Progress
  <2>3. ProgressOf(w, q)
    BY <1>1, <2>1, <2>2 DEF ProgressOf, Progressed
  <2>4. ToldOnlyImported'
    BY <2>1, SameTold DEF storeVars
  <2> HIDE DEF q
  <2>. QED BY <2>1, <2>2, <2>3, <2>4, GoesOn
<1>8. CASE Compare(w) /\ Equal(w)
  <2>1. work' = AfterRow(w, FALSE) /\ p.at = "compare" /\ UNCHANGED <<storeVars, status, notices>>
    BY <1>8 DEF Compare
  <2>2. ToldOnlyImported'
    BY <2>1, SameTold DEF storeVars
  <2>3. ImportedRow(Message(w), p.row)
    <3> DEFINE i == TheRow(w).key
    <3>1. i \in Items /\ p.row \in DOMAIN content[Message(w)]
      BY <1>1, RowTyped, MessageTypes DEF TheRow, ProgressOf, Progressed
    <3>2. synced[i] \in Nat /\ synced[i] # 0 /\ synced[i] <= Len(log[i]) /\ log[i] \in Seq(Commands2)
      BY <1>8, <3>1 DEF Equal, HasRow, RowsInv, StoreTypes
    <3>3. synced[i] \in DOMAIN log[i] /\ log[i][synced[i]].row = TheRow(w).value
      BY <1>8, <3>2 DEF Equal, Row
    <3>. QED BY <3>3 DEF ImportedRow, TheRow
  <2>4. p.row \in Imported(Message(w))
    BY <1>1, <2>3 DEF ProgressOf, Progressed, Imported
  <2>5. PICK q : AfterRow(w, FALSE) = [work EXCEPT ![w] = q] /\ ProgressOf(w, q) /\ q.at # "publish"
    <3>1. Progressed(w, p, Imported(Message(w)))
      BY <1>1 DEF ProgressOf
    <3>2. \E q : /\ AfterRow(w, FALSE) = [work EXCEPT ![w] = q]
                 /\ Progressed(w, q, Imported(Message(w))) /\ q.at # "publish"
      BY <2>1, <2>4, <3>1, AfterRowSound
    <3>. QED BY <3>2 DEF ProgressOf
  <2>. QED BY <2>1, <2>2, <2>5, GoesOn
<1>. QED BY <1>2, <1>3, <1>4, <1>5, <1>6, <1>7, <1>8

(* A call is begun for the row that was compared, at the version of the    *)
(* data row.                                                               *)
LEMMA CompareStep ==
  ASSUME RowsInv, RowTypes', NEW w \in Clients, Compare(w), ~Equal(w)
  PROVE  RowsInv'
<1> DEFINE p == work[w]
           i == TheRow(w).key
           r == Call(RowId(w), i, synced[i], TheRow(w).value)
           q == [p EXCEPT !.at = "publish"]
<1>1. ProgressOf(w, p) /\ p \in Progress /\ DOMAIN work = Clients /\ p.at = "compare"
  BY DEF RowsInv, WorkIsSound, ProgressOf, Progressed, Compare
<1>2. /\ work' = [work EXCEPT ![w] = q] /\ call' = [call EXCEPT ![w] = r]
      /\ UNCHANGED <<log, synced, status, notices>>
  BY DEF Compare, Begin
<1>3. i \in Items /\ synced[i] \in Nat
  BY <1>1, RowTyped, MessageTypes DEF TheRow, ProgressOf, Progressed, RowsInv, StoreTypes
<1>4. CallOf(w, p.row, r)
  <2>1. synced[i] # 0 => log[i][synced[i]].row # TheRow(w).value
    BY DEF Equal, HasRow, Row
  <2>2. /\ r.step = "publish" /\ r.todo = <<>> /\ r.op = RowId(w) /\ r.item = i
        /\ r.row = TheRow(w).value /\ r.version = synced[i]
    BY DEF Call
  <2>3. TheRow(w) = content[Message(w)][p.row] /\ RowId(w) = <<Message(w), p.row>>
    BY DEF TheRow, RowId
  <2>4. synced[i] \in 0 .. synced[i]
    BY <1>3
  <2> HIDE DEF r
  <2>. QED BY <2>1, <2>2, <2>3, <2>4 DEF CallOf
<1>5. q \in Progress /\ q.row = p.row /\ q.error = p.error /\ q.at = "publish"
  BY <1>1 DEF Progress
<1>6. ProgressOf(w, q)
  BY <1>1, <1>5 DEF ProgressOf, Progressed
<1> HIDE DEF q, r
<1>7. \A u \in Clients : /\ work'[u] = (IF u = w THEN q ELSE work[u])
                         /\ call'[u] = (IF u = w THEN r ELSE call[u])
  BY <1>2, <1>1 DEF RowsInv, StoreTypes
<1>8. \A u \in Clients :
        /\ ProgressOf(u, work'[u])
        /\ IF work'[u].at = "publish" THEN CallOf(u, work'[u].row, call'[u]) ELSE call'[u] = Idle
  BY <1>4, <1>5, <1>6, <1>7 DEF RowsInv, WorkIsSound
<1>9. WorkIsSound'
  <2>1. DOMAIN work' = Clients
    BY <1>1, <1>2
  <2>. QED BY <1>2, <1>8, <2>1, SameLog DEF WorkIsSound
<1>10. StoreTypes'
  BY <1>2 DEF RowsInv, StoreTypes
<1>11. ToldOnlyImported'
  BY <1>2, SameTold
<1>. QED BY <1>2, <1>9, <1>10, <1>11, SameLog DEF RowsInv

(* The put of a command: it replaces a state of another row.               *)
LEMMA PublishStep ==
  ASSUME RowsInv, RowTypes', NEW w \in Clients, PublishRow(w)
  PROVE  RowsInv'
<1>0. PICK m, n, i, x, u0, e, refused :
        /\ m = Message(w) /\ n = work[w].row
        /\ i = content[m][n].key /\ x = content[m][n].value
        /\ u0 = call[w].version /\ e = [op |-> call[w].op, row |-> call[w].row]
        /\ refused = Refused(call[w].item, call[w].version)
  OBVIOUS
<1>1. /\ ProgressOf(w, work[w]) /\ work[w] \in Progress /\ DOMAIN work = Clients
      /\ DOMAIN call = Clients /\ work[w].at = "publish" /\ CallOf(w, n, call[w])
  BY <1>0 DEF PublishRow, RowsInv, WorkIsSound, StoreTypes, ProgressOf, Progressed
<1>2. /\ n \in DOMAIN content[m] /\ m \in Messages /\ n \in Nat \ {0}
      /\ i \in Items /\ x \in Nat
  BY <1>0, <1>1, RowTyped, MessageTypes DEF ProgressOf, Progressed
<1>3. /\ call[w].todo = <<>> /\ call[w].item = i /\ call[w].row = x /\ call[w].op = <<m, n>>
      /\ u0 \in 0 .. synced[i] /\ (u0 # 0 => log[i][u0].row # x)
  BY <1>0, <1>1 DEF CallOf
<1>4. log[i] \in Seq(Commands2) /\ synced[i] \in Nat /\ synced[i] <= Len(log[i])
  BY <1>2 DEF RowsInv, StoreTypes
<1>5. ~NotDirty(i, u0, x)
  BY <1>3 DEF NotDirty
<1>6. /\ log' = IF refused THEN log ELSE [log EXCEPT ![i] = Append(@, e)]
      /\ call' = [call EXCEPT ![w] = Idle] /\ UNCHANGED synced
      /\ work' = AfterRow(w, refused) /\ UNCHANGED <<status, notices>>
  BY <1>0, <1>3, <1>5 DEF PublishRow, Publish
<1>7. refused = (Len(log[i]) # u0)
  BY <1>0, <1>3 DEF Refused
<1>8. e \in Commands2 /\ e.op = <<m, n>> /\ e.row = x
  <2>1. e = [op |-> <<m, n>>, row |-> x]
    BY <1>0, <1>3
  <2>. QED BY <1>2, <2>1 DEF Commands2
<1>9. /\ log' \in [Items -> Seq(Commands2)]
      /\ \A j \in Items : \A v \in DOMAIN log[j] : v \in DOMAIN log'[j] /\ log'[j][v] = log[j][v]
      /\ \A j \in Items : Len(log[j]) <= Len(log'[j])
      /\ ~refused => Len(log[i]) + 1 \in DOMAIN log'[i] /\ log'[i][Len(log[i]) + 1] = e
      /\ \A j \in Items : \A v \in DOMAIN log'[j] :
           v \in DOMAIN log[j] \/ (~refused /\ j = i /\ v = Len(log[i]) + 1)
  <2>1. log \in [Items -> Seq(Commands2)] /\ \A j \in Items : log[j] \in Seq(Commands2)
    BY DEF RowsInv, StoreTypes
  <2>2. CASE refused
    <3>1. log' = log /\ \A j \in Items : Len(log[j]) \in Nat
      BY <1>6, <2>1, <2>2, LenProperties
    <3>2. \A j \in Items : Len(log[j]) <= Len(log'[j])
      BY <3>1
    <3>3. log' \in [Items -> Seq(Commands2)]
      BY <2>1, <3>1
    <3>4. \A j \in Items : \A v \in DOMAIN log[j] : v \in DOMAIN log'[j] /\ log'[j][v] = log[j][v]
      BY <3>1
    <3>5. \A j \in Items : \A v \in DOMAIN log'[j] : v \in DOMAIN log[j]
      BY <3>1
    <3>. QED BY <2>2, <3>2, <3>3, <3>4, <3>5
  <2>3. CASE ~refused
    <3>1. log' = [log EXCEPT ![i] = Append(@, e)]
      BY <1>6, <2>3
    <3>2. /\ log' \in [Items -> Seq(Commands2)]
          /\ \A j \in Items : \A v \in DOMAIN log[j] : v \in DOMAIN log'[j] /\ log'[j][v] = log[j][v]
          /\ \A j \in Items : Len(log[j]) <= Len(log'[j])
          /\ Len(log[i]) + 1 \in DOMAIN log'[i] /\ log'[i][Len(log[i]) + 1] = e
          /\ \A j \in Items : \A v \in DOMAIN log'[j] : v \in DOMAIN log[j] \/ (j = i /\ v = Len(log[i]) + 1)
      BY <1>2, <1>8, <2>1, <3>1, LogGrows
    <3>. QED BY <2>3, <3>2
  <2>. QED BY <2>2, <2>3
<1>10. \A c \in Messages : \A k : k \in DOMAIN content[c] /\ ImportedRow(c, k) => ImportedRow(c, k)'
  <2>1. \A c \in Messages : \A k : k \in DOMAIN content[c] => content[c][k].key \in Items
    BY RowTyped
  <2>. QED BY <1>9, <2>1 DEF ImportedRow
<1>11. ~refused => ImportedRow(m, n)'
  BY <1>0, <1>8, <1>9 DEF ImportedRow
<1>12. StoreTypes'
  BY <1>1, <1>6, <1>9 DEF RowsInv, StoreTypes
<1>13. FromRows'
  <2>1. ASSUME NEW j \in Items, NEW v \in DOMAIN log'[j]
        PROVE  LET o == log'[j][v].op IN
               /\ o[2] \in DOMAIN content[o[1]]
               /\ content[o[1]][o[2]].key = j /\ content[o[1]][o[2]].value = log'[j][v].row
    <3>1. CASE v \in DOMAIN log[j]
      BY <1>9, <3>1 DEF RowsInv, FromRows
    <3>2. CASE ~refused /\ j = i /\ v = Len(log[i]) + 1
      <4>1. log'[j][v].op = <<m, n>> /\ log'[j][v].row = x
        BY <1>8, <1>9, <3>2
      <4>2. <<m, n>>[1] = m /\ <<m, n>>[2] = n
        OBVIOUS
      <4>3. n \in DOMAIN content[m] /\ content[m][n].key = j /\ content[m][n].value = x
        BY <1>0, <1>2, <3>2
      <4>. QED BY <4>1, <4>2, <4>3
    <3>. QED BY <1>9, <2>1, <3>1, <3>2
  <2>. QED BY <2>1 DEF FromRows
<1>14. RowsApplyOnce'
  <2>1. ASSUME NEW j \in Items, NEW v \in 2 .. Len(log'[j])
        PROVE  log'[j][v].op # log'[j][v - 1].op
    <3>1. log'[j] \in Seq(Commands2) /\ log[j] \in Seq(Commands2)
          /\ v \in DOMAIN log'[j] /\ v - 1 \in DOMAIN log'[j]
      BY <1>9 DEF RowsInv, StoreTypes
    <3>2. CASE v \in DOMAIN log[j]
      <4>1. v - 1 \in DOMAIN log[j] /\ v \in 2 .. Len(log[j])
        BY <3>1, <3>2
      <4>. QED BY <1>9, <3>2, <4>1 DEF RowsInv, RowsApplyOnce
    <3>3. CASE ~refused /\ j = i /\ v = Len(log[i]) + 1
      <4>1. u0 = v - 1 /\ v - 1 \in DOMAIN log[i] /\ log[i][v - 1].row # x
        <5>1. Len(log[i]) \in Nat /\ DOMAIN log[i] = 1 .. Len(log[i])
          BY <1>4, LenProperties
        <5>2. u0 = v - 1 /\ v - 1 = Len(log[i]) /\ v - 1 # 0
          <6>1. Len(log[i]) = u0 /\ u0 \in Nat /\ v = u0 + 1 /\ v \in 2 .. Len(log'[j])
            BY <1>7, <2>1, <3>3, <5>1
          <6>2. v \in Int /\ v >= 2
            BY <2>1, <3>1
          <6>. QED BY <6>1, <6>2
        <5>. QED BY <1>3, <5>1, <5>2
      <4>2. log'[i][v].op = <<m, n>> /\ log'[i][v - 1] = log[i][v - 1]
        BY <1>2, <1>8, <1>9, <3>3, <4>1
      <4>3. log[i][v - 1].op # <<m, n>>
        <5>1. LET o == log[i][v - 1].op IN content[o[1]][o[2]].value = log[i][v - 1].row
          BY <1>2, <4>1 DEF RowsInv, FromRows
        <5>2. <<m, n>>[1] = m /\ <<m, n>>[2] = n
          OBVIOUS
        <5>. QED BY <1>0, <4>1, <5>1, <5>2
      <4>. QED BY <3>3, <4>2, <4>3
    <3>. QED BY <1>9, <3>1, <3>2, <3>3
  <2>. QED BY <2>1 DEF RowsApplyOnce
<1>15. ToldOnlyImported'
  <2>1. \A c \in Single : c \in Messages /\ 1 \in DOMAIN content[c]
    BY MessagesAssumption
  <2>. QED BY <1>6, <1>10, <2>1 DEF RowsInv, ToldOnlyImported
<1>16. \A u \in Clients : \A q : ProgressOf(u, q) => ProgressOf(u, q)'
  <2>1. ASSUME NEW u \in Clients, NEW q, ProgressOf(u, q)
        PROVE  ProgressOf(u, q)'
    <3>1. Message(u) \in Messages
      BY MessageTypes
    <3>. QED BY <1>10, <2>1, <3>1 DEF ProgressOf, Progressed, Imported
  <2>. QED BY <2>1
<1>17. PICK q : /\ AfterRow(w, refused) = [work EXCEPT ![w] = q]
                /\ ProgressOf(w, q)' /\ q.at # "publish"
  <2> DEFINE S == Imported(m)'
  <2>1. Progressed(w, work[w], S)
    BY <1>0, <1>1, <1>16 DEF ProgressOf, Message
  <2>2. ~refused => n \in S
    BY <1>0, <1>2, <1>11 DEF Imported
  <2>3. refused \in BOOLEAN
    BY <1>7
  <2> HIDE DEF S
  <2>4. \E q : /\ AfterRow(w, refused) = [work EXCEPT ![w] = q]
               /\ Progressed(w, q, S) /\ q.at # "publish"
    BY <1>0, <1>1, <2>1, <2>2, <2>3, AfterRowSound
  <2>5. \A q : ProgressOf(w, q)' <=> Progressed(w, q, S)
    BY <1>0 DEF ProgressOf, S, Progressed, Message
  <2>. QED BY <2>4, <2>5
<1>18. \A u \in Clients : /\ work'[u] = (IF u = w THEN q ELSE work[u])
                          /\ call'[u] = (IF u = w THEN Idle ELSE call[u])
  BY <1>0, <1>1, <1>6, <1>17
<1>19. ASSUME NEW u \in Clients, u # w, work[u].at = "publish"
       PROVE  CallOf(u, work[u].row, call[u])'
  <2>1. CallOf(u, work[u].row, call[u]) /\ work[u].row \in DOMAIN content[Message(u)]
    BY <1>19 DEF RowsInv, WorkIsSound, ProgressOf, Progressed
  <2> DEFINE j == content[Message(u)][work[u].row].key
             v == call[u].version
  <2>2. j \in Items /\ v \in 0 .. synced[j]
    BY <2>1, RowTyped, MessageTypes DEF CallOf
  <2>3. v # 0 => v \in DOMAIN log[j]
    BY <2>2 DEF RowsInv, StoreTypes
  <2>4. v # 0 => log'[j][v] = log[j][v]
    BY <1>9, <2>2, <2>3
  <2>5. work'[u] = work[u] /\ call'[u] = call[u]
    BY <1>18, <1>19
  <2>. QED BY <1>6, <2>1, <2>4, <2>5 DEF CallOf
<1>20. WorkIsSound'
  <2>1. ASSUME NEW u \in Clients
        PROVE  /\ ProgressOf(u, work[u])'
               /\ IF work'[u].at = "publish" THEN CallOf(u, work[u].row, call[u])' ELSE call'[u] = Idle
    <3>1. CASE u = w
      BY <1>0, <1>17, <1>18, <3>1 DEF ProgressOf, Progressed
    <3>2. CASE u # w
      <4>1. work'[u] = work[u] /\ call'[u] = call[u]
        BY <1>18, <3>2
      <4>2. ProgressOf(u, work[u])'
        BY <1>16, <4>1 DEF RowsInv, WorkIsSound, ProgressOf, Progressed
      <4>. QED BY <1>19, <3>2, <4>1, <4>2 DEF RowsInv, WorkIsSound
    <3>. QED BY <3>1, <3>2
  <2>2. DOMAIN work' = Clients
    BY <1>0, <1>1, <1>6, <1>17
  <2>. QED BY <2>1, <2>2 DEF WorkIsSound
<1>. QED BY <1>12, <1>13, <1>14, <1>15, <1>20 DEF RowsInv

(* The data row follows the commands, and the row that asked for the next  *)
(* of them is told.                                                        *)
LEMMA SyncStep ==
  ASSUME RowsInv, RowTypes', NEW i \in Items, SyncRow(i) \/ FinishFails(i)
  PROVE  RowsInv'
<1>1. /\ synced' = [synced EXCEPT ![i] = @ + 1] /\ UNCHANGED <<log, call, work, status>>
      /\ synced[i] < Len(log[i]) /\ (Notify(i, "COMPLETED") \/ Notify(i, "FAILED"))
  BY DEF SyncRow, FinishFails, Sync
<1>2. /\ synced \in [Items -> Nat] /\ log \in [Items -> Seq(Commands2)] /\ DOMAIN call = Clients
      /\ \A j \in Items : synced[j] <= Len(log[j])
  BY DEF RowsInv, StoreTypes
<1>3. Len(log[i]) \in Nat /\ DOMAIN log[i] = 1 .. Len(log[i])
  BY <1>2, LenProperties
<1>4. synced' \in [Items -> Nat] /\ \A j \in Items : synced[j] <= synced'[j] /\ synced'[j] <= Len(log[j])
  BY <1>1, <1>2, <1>3
<1>5. StoreTypes'
  BY <1>1, <1>2, <1>4 DEF StoreTypes
<1>6. FromRows' /\ RowsApplyOnce'
  BY <1>1 DEF RowsInv, FromRows, RowsApplyOnce
<1>7. ASSUME NEW m \in Single, <<m, "COMPLETED">> \in notices', <<m, "COMPLETED">> \notin notices
      PROVE  ImportedRow(m, 1)'
  <2> DEFINE v == synced[i] + 1
             o == log[i][v].op
  <2>1. m = o[1]
    BY <1>1, <1>7 DEF Notify
  <2>2. v \in DOMAIN log[i]
    BY <1>1, <1>2, <1>3
  <2>3. o[2] \in DOMAIN content[m] /\ content[m][o[2]].key = i /\ content[m][o[2]].value = log[i][v].row
    BY <2>1, <2>2 DEF RowsInv, FromRows
  <2>4. content[m] \in Seq([key : Items, value : Nat]) /\ Len(content[m]) = 1
    BY MessagesAssumption
  <2>5. o[2] = 1
    BY <2>3, <2>4, LenProperties
  <2>. QED BY <1>1, <2>2, <2>3, <2>5 DEF ImportedRow
<1>8. ToldOnlyImported'
  BY <1>1, <1>7 DEF RowsInv, ToldOnlyImported, ImportedRow
<1>9. WorkIsSound'
  <2>1. ASSUME NEW w \in Clients
        PROVE  /\ ProgressOf(w, work[w])'
               /\ IF work[w].at = "publish" THEN CallOf(w, work[w].row, call[w])' ELSE call[w] = Idle
    <3>1. ProgressOf(w, work[w])'
      BY <1>1 DEF RowsInv, WorkIsSound, ProgressOf, Progressed, Imported, ImportedRow
    <3>2. CASE work[w].at = "publish"
      <4>1. CallOf(w, work[w].row, call[w]) /\ work[w].row \in DOMAIN content[Message(w)]
        BY <3>2 DEF RowsInv, WorkIsSound, ProgressOf, Progressed
      <4> DEFINE j == content[Message(w)][work[w].row].key
      <4>2. j \in Items /\ call[w].version \in 0 .. synced[j]
        BY <4>1, RowTyped, MessageTypes DEF CallOf
      <4>3. call[w].version \in 0 .. synced'[j]
        BY <1>2, <1>4, <4>2
      <4>. QED BY <1>1, <3>1, <3>2, <4>1, <4>3 DEF CallOf
    <3>3. CASE work[w].at # "publish"
      BY <3>1, <3>3 DEF RowsInv, WorkIsSound
    <3>. QED BY <3>2, <3>3
  <2>. QED BY <1>1, <2>1 DEF RowsInv, WorkIsSound
<1>. QED BY <1>5, <1>6, <1>8, <1>9 DEF RowsInv

(* Every step keeps the rows' invariant.                                   *)
LEMMA RowsInvStep ==
  ASSUME RowsInv, [RowsNext]_rowVars
  PROVE  RowsInv'
<1>1. RowTypes'
  BY RowTypesStep
<1>2. CASE UNCHANGED rowVars
  BY <1>1, <1>2, SameTold, OnlySaid DEF rowVars, storeVars
<1>3. ASSUME NEW m \in Single, CreateImport(m) \/ OnRowInsert(m)
      PROVE  RowsInv'
  <2>1. UNCHANGED <<storeVars, work, notices>>
    BY <1>3 DEF CreateImport, OnRowInsert, PublishRowImport, MarkRowQueued
  <2>2. \A n \in Single : status'[n] = "COMPLETED" => status[n] = "COMPLETED"
    BY <1>3 DEF CreateImport, OnRowInsert, PublishRowImport, MarkRowQueued, RowsInv, RowTypes
  <2>3. ToldOnlyImported'
    BY <2>1, <2>2, SameTold DEF storeVars
  <2>. QED BY <1>1, <2>1, <2>3, OnlySaid
<1>4. ASSUME NEW m \in Single, NEW s \in Ended, CommandFinished(m, s)
      PROVE  RowsInv'
  <2>1. UNCHANGED <<storeVars, work>> /\ notices' \subseteq notices /\ <<m, s>> \in notices
    BY <1>4 DEF CommandFinished
  <2>2. ASSUME NEW n \in Single, status'[n] = "COMPLETED"
        PROVE  status[n] = "COMPLETED" \/ ImportedRow(n, 1)
    <3>1. status' = [status EXCEPT ![m] = s] /\ DOMAIN status = Single
      BY <1>4 DEF CommandFinished, RowsInv, RowTypes
    <3>. QED BY <2>1, <2>2, <3>1 DEF RowsInv, ToldOnlyImported
  <2>3. ToldOnlyImported'
    BY <2>1, <2>2, SameTold DEF storeVars
  <2>. QED BY <1>1, <2>1, <2>3, OnlySaid
<1>5. ASSUME NEW m \in Messages, SendBatch(m)
      PROVE  RowsInv'
  BY <1>1, <1>5, SameTold, OnlySaid DEF SendBatch, storeVars
<1>6. ASSUME NEW w \in Clients, Receive(w) \/ ReceiveAgain(w) \/ Handle(w)
      PROVE  RowsInv'
  <2>1. CASE Receive(w) \/ ReceiveAgain(w)
    BY <1>1, <2>1, HandlerSteps DEF Receive, ReceiveAgain
  <2>2. CASE Handle(w)
    BY <1>1, <2>2, HandlerSteps, CompareStep, PublishStep DEF Handle
  <2>. QED BY <1>6, <2>1, <2>2
<1>7. CASE Load
  BY <1>1, <1>7, SameTold, OnlySaid DEF Load, CsvLoader, CsvLoaderFinalizes, storeVars
<1>8. ASSUME NEW i \in Items, SyncFails(i)
      PROVE  RowsInv'
  <2>1. UNCHANGED <<storeVars, work, status, notices>>
    BY <1>8 DEF SyncFails
  <2>2. ToldOnlyImported'
    BY <2>1 DEF RowsInv, ToldOnlyImported, ImportedRow, storeVars
  <2>. QED BY <1>1, <2>1, <2>2, OnlySaid
<1>. QED BY <1>2, <1>3, <1>4, <1>5, <1>6, <1>7, <1>8, SyncStep, <1>1 DEF RowsNext

(* What a row has to have when it says COMPLETED is known by RowsInv at    *)
(* every step.                                                             *)
THEOREM RowsInvariant == RowsSpec => []RowsInv
<1>1. RowsInit => RowsInv
  BY RowsInvInit
<1>2. RowsInv /\ [RowsNext]_rowVars => RowsInv'
  BY RowsInvStep
<1>. QED BY <1>1, <1>2, PTL DEF RowsSpec

(* No row is lost quietly: a single row that says COMPLETED, and every row *)
(* of a batch that is not delivered again, has its command.                *)
THEOREM CompletedRowsAreImported == RowsSpec => []CompletedMeansImported
<1>1. RowsInv => CompletedMeansImported
  <2> SUFFICES ASSUME RowsInv PROVE CompletedMeansImported
    OBVIOUS
  <2>1. \A m \in Single : status[m] = "COMPLETED" => ImportedRow(m, 1)
    BY DEF RowsInv, ToldOnlyImported
  <2>2. \A w \in Clients : work[w].at = "over" =>
          \A k \in DOMAIN content[Message(w)] : ImportedRow(Message(w), k)
    BY DEF RowsInv, WorkIsSound, ProgressOf, Progressed, Imported
  <2>. QED BY <2>1, <2>2 DEF CompletedMeansImported
<1>. QED BY <1>1, RowsInvariant, PTL

(* The progress of the deliveries is a function of them, whatever happens. *)
LEMMA WorkIsFunction ==
  ASSUME work = [w \in Clients |-> work[w]], [RowsNext]_rowVars
  PROVE  work' = [w \in Clients |-> work'[w]]
<1>1. ASSUME NEW w \in Clients, NEW p, work' = [work EXCEPT ![w] = p]
      PROVE  work' = [x \in Clients |-> work'[x]]
  BY <1>1
<1>2. CASE \E w \in Clients, p \in STRING : work' = [work EXCEPT ![w].at = p]
  BY <1>2
<1>3. ASSUME NEW w \in Clients, NEW error, work' = AfterRow(w, error)
      PROVE  work' = [x \in Clients |-> work'[x]]
  BY <1>3, <1>1 DEF AfterRow
<1>4. ASSUME NEW w \in Clients, Receive(w) \/ ReceiveAgain(w)
      PROVE  work' = [x \in Clients |-> work'[x]]
  BY <1>4, <1>2 DEF Receive, ReceiveAgain, Process, At
<1>5. ASSUME NEW w \in Clients, Handle(w)
      PROVE  work' = [x \in Clients |-> work'[x]]
  <2>1. CASE Compare(w)
    BY <2>1, <1>1, <1>2, <1>3 DEF Compare
  <2>2. CASE StrategyFails(w) \/ PublishRow(w)
    BY <2>2, <1>3 DEF StrategyFails, PublishRow
  <2>3. CASE Complete(w) \/ Catch(w) \/ FinalizeParent(w)
    BY <2>3, <1>2 DEF Complete, Catch, FinalizeParent, At
  <2>4. CASE IncrementParentJobCounters(w)
    BY <2>4 DEF IncrementParentJobCounters
  <2>. QED BY <1>5, <2>1, <2>2, <2>3, <2>4 DEF Handle
<1>6. CASE UNCHANGED work
  BY <1>6
<1>7. CASE UNCHANGED rowVars
  BY <1>7, <1>6 DEF rowVars
<1>8. CASE \E m \in Single : CreateImport(m) \/ OnRowInsert(m)
                             \/ \E s \in Ended : CommandFinished(m, s)
  BY <1>8, <1>6 DEF CreateImport, OnRowInsert, PublishRowImport, MarkRowQueued, CommandFinished
<1>9. CASE (\E m \in Messages : SendBatch(m)) \/ Load
  BY <1>9, <1>6 DEF SendBatch, Load, CsvLoader, CsvLoaderFinalizes
<1>10. CASE \E i \in Items : SyncRow(i) \/ FinishFails(i) \/ SyncFails(i)
  BY <1>10, <1>6 DEF SyncRow, FinishFails, SyncFails
<1>. QED BY <1>4, <1>5, <1>7, <1>8, <1>9, <1>10 DEF RowsNext

(* The variables keep their types; the counters of a job always agree, and *)
(* a command is on its way for a delivery exactly when this publishes.     *)
THEOREM RowsTypeCorrect == RowsSpec => []RowsTypeOK
<1>1. RowsInit => work = [w \in Clients |-> work[w]]
  BY DEF RowsInit
<1>2. work = [w \in Clients |-> work[w]] /\ [RowsNext]_rowVars
        => (work = [w \in Clients |-> work[w]])'
  BY WorkIsFunction
<1>3. ASSUME RowsInv, work = [w \in Clients |-> work[w]]
      PROVE  RowsTypeOK
  <2>1. work \in [Clients -> Progress]
    BY <1>3 DEF RowsInv, WorkIsSound, ProgressOf, Progressed
  <2>2. \A w \in Clients : work[w].at = "publish" <=> call[w] # Idle
    BY <1>3 DEF RowsInv, WorkIsSound, CallOf, Idle
  <2>3. \A i \in Items : synced[i] <= Len(log[i])
    BY <1>3 DEF RowsInv, StoreTypes
  <2>4. RowTypes
    BY <1>3 DEF RowsInv
  <2>. QED BY <2>1, <2>2, <2>3, <2>4 DEF RowsTypeOK, RowTypes
<1>. QED BY <1>1, <1>2, <1>3, RowsInvariant, PTL DEF RowsSpec

(* However often a row is delivered, it is never published on top of its   *)
(* own command.                                                            *)
THEOREM RowsArePublishedOnce == RowsSpec => []RowsApplyOnce
<1>1. RowsInv => RowsApplyOnce
  BY DEF RowsInv
<1>. QED BY <1>1, RowsInvariant, PTL

(***************************************************************************)
(* A CSV job and the rows that it counts: what COMPLETED means, proved for *)
(* any number of rows.  SQS must not deliver a child twice without cause:  *)
(* such a child would be counted twice.                                    *)
(***************************************************************************)
AfterCount == {"finalize", "over"}

(* The children that the counters know.                                    *)
CountedRows == {m \in Children : \E d \in Delivery : work[<<m, d>>].at \in AfterCount}

(* A child is delivered again only when all its deliveries have thrown.    *)
TriedInTurn ==
  \A m \in Children : \A d \in Delivery : \A c \in Delivery :
    c < d /\ work[<<m, d>>].at # "none" => work[<<m, c>>].at = "thrown"

(* COMPLETED is in the job, or about to be written there.                  *)
SaysCompleted ==
  \/ parent.status = "COMPLETED" \/ parent.loader = "COMPLETED"
  \/ \E w \in Clients : work[w].at = "finalize" /\ work[w].final = "COMPLETED"

ParentInv ==
  /\ TriedInTurn
  /\ parent.processed = Cardinality(CountedRows)
  /\ parent.total \in {0, Cardinality(Children)}
  /\ SaysCompleted => CountedRows = Children

(* Each child message has its own handlers.                                *)
LEMMA ChildClients ==
  /\ \A m \in Children : \A d \in Delivery : <<m, d>> \in Clients /\ Message(<<m, d>>) = m
  /\ \A w \in Clients : w[2] \in Delivery /\ w = <<Message(w), w[2]>> /\ Message(w) \in Messages
  /\ Delivery \subseteq Nat \ {0}
<1>1. Delivery \subseteq Nat \ {0}
  BY DeliveryAssumption DEF Delivery
<1>2. \A m \in Children : m \in Messages
  BY MessagesAssumption
<1>. QED BY <1>1, <1>2, ClientsAssumption DEF Message

LEMMA ParentInvInit == RowsInit => ParentInv
<1> SUFFICES ASSUME RowsInit PROVE ParentInv
  OBVIOUS
<1>1. \A w \in Clients : work[w].at = "none"
  BY DEF RowsInit
<1>2. \A m \in Children : \A d \in Delivery : work[<<m, d>>].at = "none"
  BY <1>1, ChildClients
<1>3. CountedRows = {}
  BY <1>2 DEF CountedRows, AfterCount
<1>4. Cardinality(CountedRows) = 0
  BY <1>3, FS_EmptySet
<1>5. TriedInTurn
  BY <1>2 DEF TriedInTurn
<1>6. /\ parent.status = "CREATED" /\ parent.loader = "none" /\ parent.total = 0
      /\ parent.processed = 0
  BY DEF RowsInit
<1>7. ~SaysCompleted
  BY <1>1, <1>6 DEF SaysCompleted
<1>. QED BY <1>4, <1>5, <1>6, <1>7 DEF ParentInv

(* A handler's step moves no other handler.                                *)
LEMMA ChangedWork ==
  ASSUME RowsInv, NEW w \in Clients, NEW q, work' = [work EXCEPT ![w] = q]
  PROVE  \A u \in Clients : work'[u] = IF u = w THEN q ELSE work[u]
BY DEF RowsInv, WorkIsSound

(* A child is delivered again only when the deliveries before it have      *)
(* thrown.                                                                 *)
LEMMA TurnKept ==
  ASSUME RowsInv, TriedInTurn, NEW w \in Clients, NEW q, work' = [work EXCEPT ![w] = q],
         Message(w) \in Children => work[w].at # "thrown" /\ (work[w].at # "none" \/ Due(w))
  PROVE  TriedInTurn'
<1> SUFFICES ASSUME NEW m \in Children, NEW d \in Delivery, NEW c \in Delivery,
                    c < d, work'[<<m, d>>].at # "none"
             PROVE  work'[<<m, c>>].at = "thrown"
  BY DEF TriedInTurn
<1>1. /\ <<m, d>> \in Clients /\ <<m, c>> \in Clients /\ c \in Nat /\ d \in Nat /\ c # d
      /\ Message(<<m, d>>) = m /\ Message(<<m, c>>) = m
  BY ChildClients
<1>2. work[<<m, d>>].at # "none" => work[<<m, c>>].at = "thrown"
  BY DEF TriedInTurn
<1>3. CASE w = <<m, c>>
  <2>1. work'[<<m, d>>] = work[<<m, d>>]
    BY <1>1, <1>3, ChangedWork
  <2>. QED BY <1>1, <1>2, <1>3, <2>1
<1>4. CASE w = <<m, d>>
  <2>1. work'[<<m, c>>] = work[<<m, c>>]
    BY <1>1, <1>4, ChangedWork
  <2>2. CASE work[w].at # "none"
    BY <1>2, <1>4, <2>1, <2>2
  <2>3. CASE Due(w)
    <3>1. d > 1 /\ d - 1 \in Delivery
      <4>1. c >= 1 /\ d <= MaxDeliveries /\ MaxDeliveries \in Nat
        BY <1>1, DeliveryAssumption DEF Delivery
      <4>. QED BY <1>1, <4>1 DEF Delivery
    <3>2. work[<<m, d - 1>>].at = "thrown"
      BY <1>4, <2>3, <3>1 DEF Due, Previous
    <3>3. CASE c = d - 1
      BY <2>1, <3>2, <3>3
    <3>4. CASE c # d - 1
      <4>1. c < d - 1
        BY <1>1, <3>4
      <4>2. work[<<m, c>>].at = "thrown"
        BY <3>1, <3>2, <4>1 DEF TriedInTurn
      <4>. QED BY <2>1, <4>2
    <3>. QED BY <3>3, <3>4
  <2>. QED BY <1>1, <1>4, <2>2, <2>3
<1>5. CASE w # <<m, c>> /\ w # <<m, d>>
  BY <1>1, <1>2, <1>5, ChangedWork
<1>. QED BY <1>3, <1>4, <1>5

(* A step of a delivery that is not counted by it.                         *)
LEMMA NotCounted ==
  ASSUME RowsInv, NEW w \in Clients, NEW q, work' = [work EXCEPT ![w] = q],
         Message(w) \in Children => (q.at \in AfterCount <=> work[w].at \in AfterCount)
  PROVE  CountedRows' = CountedRows
<1>1. ASSUME NEW m \in Children, NEW d \in Delivery
      PROVE  work'[<<m, d>>].at \in AfterCount <=> work[<<m, d>>].at \in AfterCount
  <2>1. <<m, d>> \in Clients /\ Message(<<m, d>>) = m
    BY ChildClients
  <2>2. CASE w = <<m, d>>
    BY <2>1, <2>2, ChangedWork
  <2>3. CASE w # <<m, d>>
    BY <2>1, <2>3, ChangedWork
  <2>. QED BY <2>2, <2>3
<1>. QED BY <1>1 DEF CountedRows, AfterCount

(* The count of a row that was not counted before.                         *)
LEMMA OneMore ==
  ASSUME RowsInv, TriedInTurn, NEW w \in Clients, NEW q, work' = [work EXCEPT ![w] = q],
         Message(w) \in Children, work[w].at = "count", q.at \in AfterCount
  PROVE  /\ CountedRows' = CountedRows \cup {Message(w)}
         /\ Cardinality(CountedRows') = Cardinality(CountedRows) + 1
<1> DEFINE n == Message(w)
<1>1. ASSUME NEW m \in Children, NEW d \in Delivery
      PROVE  work'[<<m, d>>].at \in AfterCount <=> <<m, d>> = w \/ work[<<m, d>>].at \in AfterCount
  <2>1. <<m, d>> \in Clients
    BY ChildClients
  <2>2. CASE <<m, d>> = w
    <3>1. work'[w] = q
      BY DEF RowsInv, WorkIsSound
    <3>. QED BY <2>2, <3>1
  <2>3. CASE <<m, d>> # w
    BY <2>1, <2>3, ChangedWork
  <2>. QED BY <2>2, <2>3
<1>2. w = <<n, w[2]>> /\ w[2] \in Delivery
  BY ChildClients
<1>3. n \notin CountedRows
  <2> SUFFICES ASSUME NEW d \in Delivery, work[<<n, d>>].at \in AfterCount
               PROVE  FALSE
    BY DEF CountedRows
  <2>1. d # w[2] /\ d \in Nat /\ w[2] \in Nat
    BY <1>2, ChildClients DEF AfterCount
  <2>2. CASE d < w[2]
    BY <1>2, <2>2 DEF TriedInTurn, AfterCount
  <2>3. CASE w[2] < d
    BY <1>2, <2>3 DEF TriedInTurn, AfterCount
  <2>. QED BY <2>1, <2>2, <2>3
<1>4. CountedRows' = CountedRows \cup {n}
  <2>1. \A m \in Children : m \in CountedRows' <=> m \in CountedRows \/ m = n
    <3>1. ASSUME NEW m \in Children, m \in CountedRows'
          PROVE  m \in CountedRows \/ m = n
      <4>1. PICK d \in Delivery : work'[<<m, d>>].at \in AfterCount
        BY <3>1 DEF CountedRows, AfterCount
      <4>2. Message(<<m, d>>) = m
        BY ChildClients
      <4>. QED BY <1>1, <4>1, <4>2 DEF CountedRows
    <3>2. ASSUME NEW m \in Children, m \in CountedRows \/ m = n
          PROVE  m \in CountedRows'
      <4>1. \E d \in Delivery : work'[<<m, d>>].at \in AfterCount
        BY <1>1, <1>2, <3>2 DEF CountedRows
      <4>. QED BY <4>1 DEF CountedRows, AfterCount
    <3>. QED BY <3>1, <3>2
  <2>. QED BY <2>1 DEF CountedRows
<1>5. IsFiniteSet(CountedRows)
  BY MessagesAssumption, FS_Subset DEF CountedRows
<1>. QED BY <1>3, <1>4, <1>5, FS_AddElement

(* A count that reaches the number of children has counted each of them.   *)
LEMMA AllCounted ==
  ASSUME NEW C, C \subseteq Children, Cardinality(C) >= Cardinality(Children)
  PROVE  C = Children
<1>1. IsFiniteSet(Children) /\ IsFiniteSet(C) /\ Cardinality(C) <= Cardinality(Children)
  BY MessagesAssumption, FS_Subset
<1>2. Cardinality(C) \in Nat /\ Cardinality(Children) \in Nat
  BY <1>1, FS_CardinalityType
<1>. QED BY <1>1, <1>2, FS_Subset

(* A step of one delivery that the parent does not see.                    *)
LEMMA Unseen ==
  ASSUME RowsInv, ParentInv, NEW w \in Clients, NEW q, work' = [work EXCEPT ![w] = q],
         UNCHANGED parent, q.at # "finalize",
         Message(w) \in Children => /\ work[w].at # "thrown"
                                    /\ work[w].at # "none" \/ Due(w)
                                    /\ q.at \in AfterCount <=> work[w].at \in AfterCount
  PROVE  ParentInv'
<1>1. TriedInTurn'
  BY TurnKept DEF ParentInv
<1>2. CountedRows' = CountedRows
  BY NotCounted
<1>3. \A u \in Clients : work'[u].at = "finalize" => work'[u] = work[u]
  BY ChangedWork
<1>4. SaysCompleted' => SaysCompleted
  BY <1>3 DEF SaysCompleted
<1>. QED BY <1>1, <1>2, <1>4 DEF ParentInv

(* Where a handler goes when its row has been tried.                       *)
LEMMA AfterRowAt ==
  ASSUME NEW w \in Clients, work[w] \in Progress, NEW error \in BOOLEAN
  PROVE  \E q : /\ AfterRow(w, error) = [work EXCEPT ![w] = q]
                /\ q.at \in {"catch", "completed", "compare", "thrown", "over"}
                /\ Message(w) \in Single => q.at \in {"catch", "completed"}
<1> DEFINE m == Message(w)
           p == work[w]
           failed == BatchError(w, error)
           single == [p EXCEPT !.at = IF error THEN "catch" ELSE "completed"]
           again == [p EXCEPT !.at = "compare", !.row = p.row + 1, !.error = failed]
           end == [p EXCEPT !.at = IF failed THEN "thrown" ELSE "over", !.error = failed]
           q == IF m \in Single THEN single ELSE IF p.row < Len(content[m]) THEN again ELSE end
<1>1. AfterRow(w, error) = [work EXCEPT ![w] = q]
  BY DEF AfterRow
<1>2. /\ single.at \in {"catch", "completed"} /\ again.at = "compare"
      /\ end.at \in {"thrown", "over"}
  BY DEF Progress
<1> HIDE DEF single, again, end
<1>3. /\ q.at \in {"catch", "completed", "compare", "thrown", "over"}
      /\ m \in Single => q.at \in {"catch", "completed"}
  BY <1>2
<1> HIDE DEF q
<1>. QED BY <1>1, <1>3

(* Handling a row leaves the counters alone.                               *)
LEMMA HandleKeepsParent ==
  ASSUME RowsInv, ParentInv, NEW w \in Clients,
         \/ Compare(w) \/ StrategyFails(w) \/ PublishRow(w) \/ Complete(w) \/ Catch(w)
  PROVE  ParentInv'
<1>1. work[w] \in Progress
  BY DEF RowsInv, WorkIsSound, ProgressOf, Progressed
<1>2. Message(w) \in Children => Message(w) \in Single
  BY MessagesAssumption
<1>3. UNCHANGED parent /\ work[w].at \in {"compare", "publish", "completed", "catch"}
  BY DEF Compare, StrategyFails, PublishRow, Complete, Catch, At
<1>4. ASSUME NEW error \in BOOLEAN, work' = AfterRow(w, error)
      PROVE  ParentInv'
  <2>1. PICK q : /\ work' = [work EXCEPT ![w] = q]
                 /\ q.at \in {"catch", "completed", "compare", "thrown", "over"}
                 /\ Message(w) \in Single => q.at \in {"catch", "completed"}
    BY <1>1, <1>4, AfterRowAt
  <2>. QED BY <1>2, <1>3, <2>1, Unseen DEF AfterCount
<1>5. ASSUME NEW to \in {"publish", "count", "over", "thrown"},
             work' = [work EXCEPT ![w].at = to], Message(w) \in Children => to # "over"
      PROVE  ParentInv'
  <2> DEFINE q == [work[w] EXCEPT !.at = to]
  <2>1. work' = [work EXCEPT ![w] = q] /\ q.at = to
    BY <1>1, <1>5 DEF Progress
  <2> HIDE DEF q
  <2>. QED BY <1>3, <1>5, <2>1, Unseen DEF AfterCount
<1>6. CASE Compare(w)
  <2>1. work' = AfterRow(w, FALSE) \/ work' = [work EXCEPT ![w].at = "publish"]
    BY <1>6 DEF Compare
  <2>. QED BY <1>4, <1>5, <2>1
<1>7. CASE StrategyFails(w)
  BY <1>4, <1>7 DEF StrategyFails
<1>8. CASE PublishRow(w)
  <2>1. Refused(call[w].item, call[w].version) \in BOOLEAN
    BY DEF Refused
  <2>. QED BY <1>4, <1>8, <2>1 DEF PublishRow
<1>9. CASE Complete(w)
  <2>1. work' = [work EXCEPT ![w].at = IF Message(w) \in Children THEN "count" ELSE "over"]
    BY <1>9 DEF Complete, At
  <2>2. CASE Message(w) \in Children
    BY <1>5, <2>1, <2>2
  <2>3. CASE Message(w) \notin Children
    BY <1>5, <2>1, <2>3
  <2>. QED BY <2>2, <2>3
<1>10. CASE Catch(w)
  BY <1>5, <1>10 DEF Catch, At
<1>. QED BY <1>6, <1>7, <1>8, <1>9, <1>10

(* A child is counted once, when it has ended.                             *)
LEMMA CountKeepsParent ==
  ASSUME RowsInv, ParentInv, NEW w \in Clients, IncrementParentJobCounters(w)
  PROVE  ParentInv'
<1> DEFINE p == Counted(parent, TRUE)
           over == AllProcessed(p)
           final == IF over THEN FinalStatus(p) ELSE "none"
           q == [work[w] EXCEPT !.at = IF over THEN "finalize" ELSE "over", !.final = final]
<1>1. /\ work' = [work EXCEPT ![w] = q] /\ work[w].at = "count" /\ parent' = p
      /\ work[w] \in Progress /\ DOMAIN work = Clients
  BY DEF IncrementParentJobCounters, RowsInv, WorkIsSound, ProgressOf, Progressed
<1>2. q.at = (IF over THEN "finalize" ELSE "over") /\ q.final = final
  BY <1>1 DEF Progress
<1>3. /\ parent'.processed = parent.processed + 1 /\ parent'.total = parent.total
      /\ parent'.status = parent.status /\ parent'.loader = parent.loader
  BY <1>1 DEF Counted, RowsInv, RowTypes
<1>4. over => parent.total > 0 /\ parent.processed + 1 >= parent.total
  BY <1>1, <1>3 DEF AllProcessed
<1> HIDE DEF p, over, final, q
<1>5. Message(w) \in Children
  BY <1>1 DEF RowsInv, WorkIsSound, ProgressOf, Progressed
<1>6. TriedInTurn'
  BY <1>1, TurnKept DEF ParentInv
<1>7. /\ CountedRows' = CountedRows \cup {Message(w)}
      /\ Cardinality(CountedRows') = Cardinality(CountedRows) + 1
  BY <1>1, <1>2, <1>5, OneMore DEF ParentInv, AfterCount
<1>8. CountedRows' \subseteq Children
  BY DEF CountedRows
<1>9. SaysCompleted' => CountedRows' = Children
  <2>1. CASE SaysCompleted
    BY <1>7, <1>8, <2>1 DEF ParentInv
  <2>2. CASE over
    <3>1. Cardinality(CountedRows') >= Cardinality(Children)
      BY <1>4, <1>7, <2>2 DEF ParentInv
    <3>. QED BY <1>8, <3>1, AllCounted
  <2>3. CASE ~SaysCompleted /\ ~over
    <3>1. \A u \in Clients : work'[u].at = "finalize" => work'[u] = work[u]
      BY <1>1, <1>2, <2>3, ChangedWork
    <3>. QED BY <1>3, <2>3, <3>1 DEF SaysCompleted
  <2>. QED BY <2>1, <2>2, <2>3
<1>. QED BY <1>3, <1>6, <1>7, <1>9 DEF ParentInv

(* The parent ends only when every child is counted.                       *)
LEMMA FinalizeKeepsParent ==
  ASSUME RowsInv, ParentInv, NEW w \in Clients, FinalizeParent(w)
  PROVE  ParentInv'
<1> DEFINE q == [work[w] EXCEPT !.at = "over"]
<1>1. /\ work' = [work EXCEPT ![w] = q] /\ work[w].at = "finalize"
      /\ parent' = [parent EXCEPT !.status = work[w].final]
      /\ work[w] \in Progress
  BY DEF FinalizeParent, At, RowsInv, WorkIsSound, ProgressOf, Progressed
<1>2. q.at = "over"
  BY <1>1 DEF Progress
<1> HIDE DEF q
<1>3. /\ parent'.processed = parent.processed /\ parent'.total = parent.total
      /\ parent'.status = work[w].final /\ parent'.loader = parent.loader
  BY <1>1 DEF RowsInv, RowTypes
<1>4. TriedInTurn'
  BY <1>1, TurnKept DEF ParentInv
<1>5. CountedRows' = CountedRows
  BY <1>1, <1>2, NotCounted DEF AfterCount
<1>6. \A u \in Clients : work'[u].at = "finalize" => work'[u] = work[u]
  BY <1>1, <1>2, ChangedWork
<1>7. SaysCompleted' => SaysCompleted
  BY <1>1, <1>3, <1>6 DEF SaysCompleted
<1>. QED BY <1>3, <1>4, <1>5, <1>7 DEF ParentInv

(* The loader's step keeps the parent's invariant.                         *)
LEMMA LoadKeepsParent ==
  ASSUME RowsInv, ParentInv, Load
  PROVE  ParentInv'
<1>1. UNCHANGED work
  BY DEF Load, CsvLoader, CsvLoaderFinalizes
<1>2. TriedInTurn' /\ CountedRows' = CountedRows
  BY <1>1 DEF ParentInv, TriedInTurn, CountedRows
<1>3. CountedRows \subseteq Children
  BY DEF CountedRows
<1>4. CASE CsvLoader
  <2>1. /\ parent'.processed = parent.processed /\ parent'.total = Cardinality(Children)
        /\ parent'.status = parent.status
        /\ parent'.loader # "none" => parent.processed >= Cardinality(Children)
    BY <1>4 DEF CsvLoader, SetTotal, RowsInv, RowTypes
  <2>2. SaysCompleted' => SaysCompleted \/ parent.processed >= Cardinality(Children)
    BY <1>1, <2>1 DEF SaysCompleted
  <2>3. SaysCompleted' => CountedRows = Children
    BY <1>3, <2>2, AllCounted DEF ParentInv
  <2>. QED BY <1>2, <2>1, <2>3 DEF ParentInv
<1>5. CASE CsvLoaderFinalizes
  <2>1. /\ parent'.processed = parent.processed /\ parent'.total = parent.total
        /\ parent'.status = parent.loader /\ parent'.loader = "none"
    BY <1>5 DEF CsvLoaderFinalizes, RowsInv, RowTypes
  <2>2. SaysCompleted' => SaysCompleted
    BY <1>1, <2>1 DEF SaysCompleted
  <2>. QED BY <1>2, <2>1, <2>2 DEF ParentInv
<1>. QED BY <1>4, <1>5 DEF Load

(* Every step keeps the parent's invariant while no child is delivered     *)
(* again.                                                                  *)
LEMMA ParentInvStep ==
  ASSUME Redelivered \cap Children = {}, RowsInv, ParentInv, [RowsNext]_rowVars
  PROVE  ParentInv'
<1>1. CASE UNCHANGED <<work, parent>>
  BY <1>1 DEF ParentInv, TriedInTurn, CountedRows, SaysCompleted
<1>2. ASSUME NEW w \in Clients, Receive(w) \/ ReceiveAgain(w)
      PROVE  ParentInv'
  <2> DEFINE q == [work[w] EXCEPT !.at = "compare"]
  <2>1. work' = [work EXCEPT ![w] = q] /\ UNCHANGED parent /\ work[w].at = "none"
    BY <1>2 DEF Receive, ReceiveAgain, Process, At
  <2>2. Message(w) \in Children => Due(w)
    BY <1>2 DEF Receive, ReceiveAgain
  <2>3. q.at = "compare"
    BY DEF RowsInv, WorkIsSound, ProgressOf, Progressed, Progress
  <2> HIDE DEF q
  <2>. QED BY <2>1, <2>2, <2>3, Unseen DEF AfterCount
<1>3. ASSUME NEW w \in Clients, Handle(w)
      PROVE  ParentInv'
  BY <1>3, HandleKeepsParent, CountKeepsParent, FinalizeKeepsParent DEF Handle
<1>4. CASE Load
  BY <1>4, LoadKeepsParent
<1>5. ASSUME NEW m \in Single,
             \/ CreateImport(m) \/ OnRowInsert(m) \/ \E s \in Ended : CommandFinished(m, s)
      PROVE  ParentInv'
  BY <1>1, <1>5 DEF CreateImport, OnRowInsert, PublishRowImport, MarkRowQueued, CommandFinished
<1>6. ASSUME NEW m \in Messages, SendBatch(m)
      PROVE  ParentInv'
  BY <1>1, <1>6 DEF SendBatch
<1>7. ASSUME NEW i \in Items, SyncRow(i) \/ FinishFails(i) \/ SyncFails(i)
      PROVE  ParentInv'
  BY <1>1, <1>7 DEF SyncRow, FinishFails, SyncFails
<1>8. CASE UNCHANGED rowVars
  BY <1>1, <1>8 DEF rowVars
<1>. QED BY <1>2, <1>3, <1>4, <1>5, <1>6, <1>7, <1>8 DEF RowsNext

(* A CSV job says COMPLETED only when all the rows it counts have their    *)
(* commands, for any number of rows and whichever of csv_loader and the    *)
(* last row ends it.                                                       *)
THEOREM CompletedParentMeansRows ==
  ASSUME Redelivered \cap Children = {}
  PROVE  RowsSpec => []ParentMeansRows
<1>1. RowsInit => ParentInv
  BY ParentInvInit
<1>2. RowsInv /\ ParentInv /\ [RowsNext]_rowVars => ParentInv'
  BY ParentInvStep
<1>3. RowsInv /\ ParentInv => ParentMeansRows
  <2> SUFFICES ASSUME RowsInv, ParentInv, parent.status = "COMPLETED", NEW m \in Children
               PROVE  ImportedRow(m, 1)
    BY DEF ParentMeansRows
  <2>1. PICK d \in Delivery : work[<<m, d>>].at \in AfterCount
    BY DEF ParentInv, SaysCompleted, CountedRows
  <2>2. <<m, d>> \in Clients /\ Message(<<m, d>>) = m
    BY ChildClients
  <2>3. 1 \in DOMAIN content[m]
    BY <2>2, MessageTypes
  <2>. QED BY <2>1, <2>2, <2>3 DEF AfterCount, RowsInv, WorkIsSound, ProgressOf, Progressed, Imported
<1>. QED BY <1>1, <1>2, <1>3, RowsInvariant, PTL DEF RowsSpec
=============================================================================
