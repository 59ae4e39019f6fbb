--------------------------- MODULE MCStepControl ---------------------------
(* Instance of StepControl for TLC: the bounds are in the configurations.   *)
EXTENDS StepControl
=============================================================================
