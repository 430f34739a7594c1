--------------------------- MODULE MCCoordinator ---------------------------
(* A small worker: the constants are in Coordinator.cfg.                   *)
EXTENDS Coordinator
=============================================================================
