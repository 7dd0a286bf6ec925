---------------------------- MODULE AggregateLog ----------------------------
(***************************************************************************)
(* What the command pipeline promises of one aggregate, without saying     *)
(* how: commands are accepted one after the other, the data row applies    *)
(* them in that order, and the state it leaves is archived before it is    *)
(* overwritten.                                                            *)
(***************************************************************************)
EXTENDS Integers

CONSTANT MaxVersion   (* bound: the most commands accepted                  *)

VARIABLES
  accepted,  (* how many commands were accepted                             *)
  applied,   (* how many of them the data row shows                         *)
  archived   (* the past states of the data row that were kept              *)

logVars == <<accepted, applied, archived>>

Init == accepted = 0 /\ applied = 0 /\ archived = {}

Accept ==
  /\ accepted < MaxVersion
  /\ accepted' = accepted + 1
  /\ UNCHANGED <<applied, archived>>

Archive ==
  /\ applied > 0 /\ applied < accepted
  /\ applied \notin archived
  /\ archived' = archived \cup {applied}
  /\ UNCHANGED <<accepted, applied>>

Apply ==
  /\ applied < accepted
  /\ applied = 0 \/ applied \in archived
  /\ applied' = applied + 1
  /\ UNCHANGED <<accepted, archived>>

Next == Accept \/ Archive \/ Apply

Spec == Init /\ [][Next]_logVars

(* The pipeline never rests while an accepted command is not applied.      *)
FairSpec == Spec /\ WF_logVars(Archive) /\ WF_logVars(Apply)
=============================================================================
