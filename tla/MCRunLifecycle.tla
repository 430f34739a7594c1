----------------------------- MODULE MCRunLifecycle -----------------------------
(* Small instances of RunLifecycle: who owns which conversation. *)
EXTENDS RunLifecycle, TLC

CONSTANTS alice, bob, a1, a2, b1, c1, c2

\* alice has two conversations, bob one.
MCOwner == a1 :> alice @@ a2 :> alice @@ b1 :> bob

\* One conversation.
MCOwnerOne == a1 :> alice

MCOwnerTwo == a1 :> alice @@ b1 :> bob
MCOwnerSame == a1 :> alice @@ a2 :> alice

ClaimerSymmetry == Permutations(Claimers)
=============================================================================
