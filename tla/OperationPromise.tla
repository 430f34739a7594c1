--------------------------- MODULE OperationPromise ---------------------------
(***************************************************************************)
(* What a Site promises the owner of a proposed operation, whatever its    *)
(* requests, its scheduler and other users do: the operation waits, is     *)
(* withdrawn or confirmed once, and a confirmed one is carried out in one  *)
(* stroke, on the version that was proposed, or not at all; what the owner *)
(* is told is what became of it.  OperationProposal implements it          *)
(* (OperationProposal!PromiseKept); nothing of requests, transactions,     *)
(* locks or deaths is left here.                                           *)
(***************************************************************************)
EXTENDS Integers

CONSTANTS
  Proposals,
  Documents,
  Target       \* the document a proposal is about

VARIABLES
  stage,    \* stage[p]: how far proposal p has come
  kind,     \* what it would do
  frozen,   \* the version of its document it was made for
  version,  \* the documents' versions
  applied,  \* how often p was carried out
  told      \* what its owner was told

vars == <<stage, kind, frozen, version, applied, told>>

Kinds == {"save", "make", "create", "fill"}

Init ==
  /\ stage = [p \in Proposals |-> "none"]
  /\ kind = [p \in Proposals |-> "none"]
  /\ frozen = [p \in Proposals |-> 0]
  /\ version = [d \in Documents |-> 0]
  /\ applied = [p \in Proposals |-> 0]
  /\ told = [p \in Proposals |-> {}]

Propose(p) ==
  /\ stage[p] = "none"
  /\ stage' = [stage EXCEPT ![p] = "open"]
  /\ \E k \in Kinds : kind' = [kind EXCEPT ![p] = k]
  /\ frozen' = [frozen EXCEPT ![p] = version[Target[p]]]
  /\ UNCHANGED <<version, applied, told>>

\* Its owner rejects a proposal, or time has passed for some.
Withdraw(lapsed) ==
  /\ \A p \in lapsed : stage[p] = "open"
  /\ stage' = [p \in Proposals |-> IF p \in lapsed THEN "withdrawn" ELSE stage[p]]
  /\ UNCHANGED <<kind, frozen, version, applied, told>>

Confirm(p) ==
  /\ stage[p] = "open"
  /\ stage' = [stage EXCEPT ![p] = "confirmed"]
  /\ UNCHANGED <<kind, frozen, version, applied, told>>

\* It is over, and its owner is told how.
End(p, outcome) ==
  /\ stage[p] = "confirmed"
  /\ stage' = [stage EXCEPT ![p] = outcome]
  /\ told' = [told EXCEPT ![p] = @ \cup {outcome}]
  /\ UNCHANGED <<kind, frozen>>

AsProposed(p) == kind[p] = "create" \/ version[Target[p]] = frozen[p]

CarryOut(p) ==
  /\ AsProposed(p)
  /\ kind[p] # "fill"
  /\ End(p, "Succeeded")
  /\ applied' = [applied EXCEPT ![p] = @ + 1]
  /\ version' = IF kind[p] = "save" THEN [version EXCEPT ![Target[p]] = @ + 1] ELSE version

Authorize(p) ==
  /\ AsProposed(p)
  /\ kind[p] = "fill"
  /\ End(p, "Authorized")
  /\ UNCHANGED <<applied, version>>

GiveUp(p) ==
  /\ End(p, "Failed") \/ End(p, "Unknown")
  /\ UNCHANGED <<applied, version>>

\* The owner asks; of one that is not over yet, or whose end nobody saw,
\* nothing is known.
Tell(p) ==
  /\ stage[p] \notin {"none", "open", "withdrawn"}
  /\ told' = [told EXCEPT ![p] = @ \cup
                {IF stage[p] = "confirmed" THEN "Unknown" ELSE stage[p]}]
  /\ UNCHANGED <<stage, kind, frozen, version, applied>>

\* Anyone else saves a document.
Edit(d) ==
  /\ version' = [version EXCEPT ![d] = @ + 1]
  /\ UNCHANGED <<stage, kind, frozen, applied, told>>

Next ==
  \/ \E p \in Proposals :
       \/ Propose(p) \/ Confirm(p) \/ CarryOut(p) \/ Authorize(p) \/ GiveUp(p) \/ Tell(p)
  \/ \E lapsed \in SUBSET Proposals : Withdraw(lapsed)
  \/ \E d \in Documents : Edit(d)

Spec == Init /\ [][Next]_vars
=============================================================================
