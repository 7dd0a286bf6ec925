------------------------- MODULE MCStepFunctionTask -------------------------
(***************************************************************************)
(* A task with two sub-tasks: its message is delivered up to twice, or two *)
(* Lambdas serve the messages of its sub-tasks.                            *)
(***************************************************************************)
EXTENDS StepFunctionTask

CONSTANTS a1, a2

VARIABLE scope

MCInit == Init /\ scope \in {"twice", "overlap"}

MCNext ==
  /\ Next /\ UNCHANGED scope
  /\ scope = "twice" => /\ snapshot'[a2] = NoSnapshot
                        /\ ~\E d \in Delivery, s \in Subs : CompleteUnheard(d, s)
  /\ scope = "overlap" => handler'[2] = "none"

MCSpec == MCInit /\ [][MCNext]_<<vars, scope>> /\ Fairness
=============================================================================
