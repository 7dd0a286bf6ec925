---------------------------- MODULE MCImportRows ----------------------------
(***************************************************************************)
(* Two rows of one CSV job and a third row, all for one item, and a batch  *)
(* with a value for this item and one for a second item; together says     *)
(* which of them come, so the states are the sum of the cases.             *)
(***************************************************************************)
EXTENDS ImportRows

MCMessages == {"row1", "row2", "row3", "batch"}
MCClients == MCMessages \X Delivery

R(k, x) == [key |-> k, value |-> x]
MCContent == [row1 |-> <<R("a", 1)>>, row2 |-> <<R("a", 3)>>,
              row3 |-> <<R("a", 1)>>,
              batch |-> <<R("a", 2), R("b", 1)>>]
MCVersions == [a |-> 4, b |-> 4]

VARIABLE together

Together == {{"row1", "row2"}, {"row1", "batch"}, {"row1", "row3"}}

MCInit == RowsInit /\ together \in Together
MCNext ==
  /\ RowsNext
  /\ \A m \in Messages : inserted'[m] # "none" => m \in together
  /\ UNCHANGED together
MCSpec == MCInit /\ [][MCNext]_<<rowVars, together>> /\ RowsFairness
=============================================================================
