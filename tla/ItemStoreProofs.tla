-------------------------- MODULE ItemStoreProofs --------------------------
(***************************************************************************)
(* What one command more does to the commands of the items, for whatever   *)
(* states the services keep.                                               *)
(***************************************************************************)
EXTENDS ItemStore, FiniteSetTheorems, SequenceTheorems, TLAPS

(* A log of commands that is appended to.                                  *)
LEMMA LogGrows ==
  ASSUME NEW E, log \in [Items -> Seq(E)], NEW i \in Items, NEW e \in E,
         log' = [log EXCEPT ![i] = Append(@, e)]
  PROVE  /\ log' \in [Items -> Seq(E)]
         /\ \A j \in Items : \A v \in DOMAIN log[j] : v \in DOMAIN log'[j] /\ log'[j][v] = log[j][v]
         /\ \A j \in Items : Len(log[j]) <= Len(log'[j])
         /\ Len(log[i]) + 1 \in DOMAIN log'[i] /\ log'[i][Len(log[i]) + 1] = e
         /\ \A j \in Items : \A v \in DOMAIN log'[j] : v \in DOMAIN log[j] \/ (j = i /\ v = Len(log[i]) + 1)
<1> DEFINE t == Append(log[i], e)
<1>1. \A j \in Items : /\ log[j] \in Seq(E) /\ Len(log[j]) \in Nat
                       /\ DOMAIN log[j] = 1 .. Len(log[j])
  BY LenProperties
<1>2. /\ t \in Seq(E) /\ Len(t) = Len(log[i]) + 1 /\ DOMAIN t = 1 .. Len(log[i]) + 1
      /\ \A v \in 1 .. Len(log[i]) : t[v] = log[i][v]
      /\ t[Len(log[i]) + 1] = e
  <2>1. log[i] \in Seq(E)
    BY <1>1
  <2>2. t \in Seq(E) /\ Len(t) = Len(log[i]) + 1
        /\ \A v \in 1 .. Len(log[i]) : t[v] = log[i][v]
        /\ t[Len(log[i]) + 1] = e
    BY <2>1, AppendProperties
  <2>3. DOMAIN t = 1 .. Len(t)
    BY <2>2, LenProperties
  <2>. QED BY <2>2, <2>3
<1> HIDE DEF t
<1>3. \A j \in Items : log'[j] = (IF j = i THEN t ELSE log[j])
  BY DEF t
<1>4. log' \in [Items -> Seq(E)]
  BY <1>1, <1>2, <1>3
<1>5. \A j \in Items : \A v \in DOMAIN log[j] : v \in DOMAIN log'[j] /\ log'[j][v] = log[j][v]
  <2>1. \A v \in 1 .. Len(log[i]) : v \in 1 .. Len(log[i]) + 1
    BY <1>1
  <2>. QED BY <1>1, <1>2, <1>3, <2>1
<1>6. \A j \in Items : Len(log[j]) <= Len(log'[j])
  BY <1>1, <1>2, <1>3
<1>7. Len(log[i]) + 1 \in DOMAIN log'[i] /\ log'[i][Len(log[i]) + 1] = e
  BY <1>1, <1>2, <1>3
<1>8. \A j \in Items : \A v \in DOMAIN log'[j] : v \in DOMAIN log[j] \/ (j = i /\ v = Len(log[i]) + 1)
  <2>1. \A v \in 1 .. Len(log[i]) + 1 : v \in 1 .. Len(log[i]) \/ v = Len(log[i]) + 1
    BY <1>1
  <2>2. DOMAIN log'[i] = 1 .. Len(log[i]) + 1 /\ DOMAIN log[i] = 1 .. Len(log[i])
    BY <1>1, <1>2, <1>3
  <2>3. \A j \in Items : j # i => log'[j] = log[j]
    BY <1>3
  <2>4. ASSUME NEW j \in Items, NEW v \in DOMAIN log'[j]
        PROVE  v \in DOMAIN log[j] \/ (j = i /\ v = Len(log[i]) + 1)
    <3>1. CASE j = i
      BY <2>1, <2>2, <2>4, <3>1
    <3>2. CASE j # i
      BY <2>3, <2>4, <3>2
    <3>. QED BY <3>1, <3>2
  <2>. QED BY <2>4
<1>. QED BY <1>4, <1>5, <1>6, <1>7, <1>8

(* A publication appends its command to the version that it was made for,  *)
(* or nothing.                                                             *)
LEMMA PublishAppends ==
  ASSUME NEW E, log \in [Items -> Seq(E)], NEW c \in Clients, Publish(c),
         call[c].item \in Items, [op |-> call[c].op, row |-> call[c].row] \in E
  PROVE  LET i == call[c].item
             e == [op |-> call[c].op, row |-> call[c].row]
         IN /\ log' \in [Items -> Seq(E)]
            /\ \A j \in Items : \A v \in DOMAIN log[j] : v \in DOMAIN log'[j] /\ log'[j][v] = log[j][v]
            /\ \A j \in Items : Len(log[j]) <= Len(log'[j])
            /\ \A j \in Items : \A v \in DOMAIN log'[j] :
                 \/ v \in DOMAIN log[j]
                 \/ /\ j = i /\ v = Len(log[i]) + 1 /\ log'[j][v] = e
                    /\ call[c].version = Len(log[i])
<1>1. PICK i, e, v0, dirty :
        /\ i = call[c].item /\ e = [op |-> call[c].op, row |-> call[c].row]
        /\ v0 = call[c].version /\ dirty = NotDirty(i, v0, call[c].row)
  OBVIOUS
<1>2. i \in Items /\ e \in E
  BY <1>1
<1>3. CASE log' = log
  <2>1. \A j \in Items : Len(log[j]) <= Len(log[j])
    BY LenProperties
  <2>. QED BY <1>3, <2>1
<1>4. CASE log' = [log EXCEPT ![i] = Append(@, e)] /\ Len(log[i]) = v0
  BY <1>1, <1>2, <1>4, LogGrows
<1>5. log' = log \/ (log' = [log EXCEPT ![i] = Append(@, e)] /\ Len(log[i]) = v0)
  BY <1>1 DEF Publish, Refused
<1>. QED BY <1>3, <1>4, <1>5
=============================================================================
