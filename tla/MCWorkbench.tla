---------------------------- MODULE MCWorkbench ----------------------------
(* Constants for model checking the conversation page.                     *)
EXTENDS Workbench

CONSTANTS a, n

\* One conversation on file, a newer one that a message may make.
MCOrder == <<n, a>>
MCMatch == [q \in Queries |-> IF q = "" THEN Ids ELSE {a}]
=============================================================================
