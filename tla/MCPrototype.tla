---------------------------- MODULE MCPrototype ----------------------------
(* Constants for model checking the prototype page.                        *)
EXTENDS Prototype

CONSTANTS alpha, beta, repair, other, blank

MCTenants == {alpha, beta}
MCTexts == {repair, other, blank}
\* One page of every kind canAccess tells apart that a step starts from.
MCPages == {"work", "build", "repairs", "platform", "account"}
=============================================================================
