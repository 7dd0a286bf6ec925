--------------------------- MODULE MCCommandSync ---------------------------
(***************************************************************************)
(* CommandSync on small instances: up to three commands, the data table    *)
(* and one custom handler (model values dds and custom).                   *)
(***************************************************************************)
EXTENDS CommandSyncInv

(* The async pipeline without failures implements AggregateLog, liveness   *)
(* included: commands are applied in the order they were accepted, each    *)
(* past state of the data row is archived before it is overwritten, and    *)
(* every accepted command is applied in the end.                           *)
ImplementsAggregateLog == Log!FairSpec
=============================================================================
