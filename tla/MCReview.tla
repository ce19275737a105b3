------------------------------ MODULE MCReview ------------------------------
(* The instance of ReviewLifecycle that TLC checks: one reviewer and the gate.  *)
EXTENDS ReviewLifecycle
=============================================================================
