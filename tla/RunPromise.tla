----------------------------- MODULE RunPromise -----------------------------
(***************************************************************************)
(* What a Site promises the owner of a message, whatever its workers,      *)
(* containers and requests do: the message waits, may be worked on while   *)
(* the Site has room, and ends once and for all.  RunLifecycle implements  *)
(* it (RunLifecycle!PromiseKept); nothing of claims, leases, capabilities, *)
(* authorizations or time is left here.                                    *)
(***************************************************************************)
EXTENDS Integers, FiniteSets

CONSTANTS
  Runs,   \* the messages
  Room    \* how many may be worked on at a time

VARIABLE stage   \* stage[r]: how far message r has come

Stages == {"none", "waiting", "working", "stopping", "asking",
           "answered", "asked", "failed", "cancelled"}

\* Somebody works on these.
AtWork == {r \in Runs : stage[r] \in {"working", "stopping", "asking"}}

Init == stage = [r \in Runs |-> "none"]

Move(r, from, to) == stage[r] = from /\ stage' = [stage EXCEPT ![r] = to]

Submit(r) == Move(r, "none", "waiting")

\* The owner wants no answer any more.
Withdraw(r) == Move(r, "waiting", "cancelled") \/ Move(r, "working", "stopping")

\* The work ends; one that its owner stopped ends without an answer.
Conclude(r) ==
  \/ Move(r, "working", "answered") \/ Move(r, "working", "failed")
  \/ Move(r, "working", "asking")
  \/ Move(r, "stopping", "cancelled") \/ Move(r, "stopping", "failed")
  \/ Move(r, "asking", "asked") \/ Move(r, "asking", "failed")

Lapsed(s) == IF s = "asking" THEN "asked" ELSE "failed"

\* The Site gives up on what took too long or cannot be begun, and begins at
\* most one message, in the room that leaves.
Attend(lapsed, begun) ==
  /\ \A r \in lapsed : stage[r] \in {"waiting", "working", "stopping", "asking"}
  /\ \A r \in begun : stage[r] = "waiting"
  /\ \A r, s \in begun : r = s
  /\ begun # {} => Cardinality(AtWork \ lapsed) < Room
  /\ stage' = [r \in Runs |-> IF r \in begun THEN "working"
                              ELSE IF r \in lapsed THEN Lapsed(stage[r])
                              ELSE stage[r]]

Next ==
  \/ \E r \in Runs : Submit(r) \/ Withdraw(r) \/ Conclude(r)
  \/ \E lapsed, begun \in SUBSET Runs : Attend(lapsed, begun)

Spec == Init /\ [][Next]_stage
=============================================================================
