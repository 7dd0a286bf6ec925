---------------------------- MODULE MCImportJobs ----------------------------
(***************************************************************************)
(* An archive of a file of two batches and one with only a header, whose   *)
(* jobs are delivered up to twice, the second one's only with a cause.     *)
(***************************************************************************)
EXTENDS ImportJobs, TLC

CONSTANTS b1, b2

TwoFiles == (1 :> {b1, b2}) @@ (2 :> {})

MCNext == Next /\ (handler'[2][2] # "none" => handler'[2][1] = "failed")

MCSpec == Init /\ [][MCNext]_vars /\ Fairness
=============================================================================
