-------------------------- MODULE MCReadYourWrites --------------------------
(***************************************************************************)
(* ReadYourWrites with two users and one item.                             *)
(***************************************************************************)
EXTENDS ReadYourWrites
=============================================================================
