--------------------------- MODULE MCStepLifecycle ----------------------------
(* Instances of StepLifecycle for TLC.                                       *)
EXTENDS StepLifecycle
===============================================================================
