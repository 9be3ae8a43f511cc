---------------------------- MODULE MCLifecycle ----------------------------
(* One station for TLC: two requests of any kind next to the restore task, *)
(* without symmetry, because the run also checks liveness.                 *)
EXTENDS Lifecycle
=============================================================================
