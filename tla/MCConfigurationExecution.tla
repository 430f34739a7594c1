---------------------- MODULE MCConfigurationExecution ----------------------
(***************************************************************************)
(* Two packages that bring the same application: one with a workflow and a  *)
(* link to an existing DocType, the other with a field of that DocType.     *)
(***************************************************************************)
EXTENDS ConfigurationExecution, TLC

CONSTANTS app, twin, new, old, masters, q1, q2

Doc(kind, s) == [kind |-> kind, of |-> s]

MCDocuments ==
  app :> <<Doc("master", masters), Doc("doctype", new), Doc("workflow", new)>>
  @@ twin :> <<Doc("doctype", new), Doc("field", old)>>

MCLocks == app :> {new, old, masters} @@ twin :> {new, old}

RequestSymmetry == Permutations(Requests)
=============================================================================
