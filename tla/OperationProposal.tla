--------------------------- MODULE OperationProposal ---------------------------
(***************************************************************************)
(* A business operation the agent proposes and its owner confirms: a frozen *)
(* DS Operation Proposal, and the DS Execution Record of what became of it. *)
(*                                                                         *)
(*   frappe_app/dsherp_bridge/operations.py  _propose, confirm, reject,      *)
(*                                           expire_proposals, get_proposal  *)
(*                                                                         *)
(* confirm commits its intent before it touches any business document, then *)
(* does the business write and records the evidence in a second             *)
(* transaction; a failure rolls that one back and is recorded in a third.   *)
(* A step here is one committed transaction, or the part of an open one up  *)
(* to the next lock it may wait for. Rows a transaction read FOR UPDATE stay *)
(* locked until it ends; the worker process may die between any two steps.  *)
(*                                                                         *)
(* Permission, field and read-back checks are the choice between going on   *)
(* and Fail. Every proposal here has an originating run.                    *)
(***************************************************************************)
EXTENDS Integers, FiniteSets

CONSTANTS
  Proposals,
  Runs,        \* the model runs that propose
  Documents,   \* the records proposals freeze a version of
  Requests,    \* confirm requests, each made once
  NoProposal,  \* what a request not yet made confirms
  Origin,      \* [Proposals -> Runs]
  Target,      \* [Proposals -> Documents]
  MayBe,       \* bound: [Proposals -> SUBSET Kinds], what each may propose
  MaxEdits     \* bound: how often others edit one document

Kinds == {"save",    \* update, submit, cancel: writes the target
          "make",    \* inserts a document mapped from the locked target
          "create",  \* inserts a document; the target is its structure, unlocked
          "fill"}    \* authorizes the browser to fill a form, writes nothing

ASSUME ProposalsAssumption ==
  /\ Origin \in [Proposals -> Runs]
  /\ Target \in [Proposals -> Documents]
  /\ MayBe \in [Proposals -> SUBSET Kinds]
  /\ NoProposal \notin Proposals
  /\ MaxEdits \in Nat

VARIABLES
  run,      \* DS Model Run.status, as far as confirm asks
  status,   \* DS Operation Proposal.status, "None" before it exists
  kind,     \* payload.action, "none" before the proposal exists
  frozen,   \* payload.version
  lapsed,   \* expires_at has passed
  version,  \* the document's modified stamp: how often it was saved
  edits,    \* how often others saved it
  applied,  \* business writes committed for the proposal
  told,     \* the outcomes its owner was shown
  req       \* the confirm requests and the execution record each created

vars ==
  <<run, status, kind, frozen, lapsed, version, edits, applied, told, req>>
fixed == <<kind, frozen>>
beside == <<run, lapsed, edits>>

Outcomes == {"Succeeded", "Authorized", "Failed", "Unknown"}
Stages == {"new",      \* not made yet
           "intent",   \* its intent is committed
           "checked",  \* the proposal is locked again and may still go ahead
           "saved",    \* the business method ran, nothing is committed
           "failing",  \* rolled back, the failure not recorded yet
           "over"}     \* answered, or died

NewRequest == [stage |-> "new", of |-> NoProposal, row |-> "None",
               wrote |-> FALSE, result |-> "None"]

TypeOK ==
  /\ run \in [Runs -> {"Running", "Succeeded", "Ended"}]
  /\ status \in [Proposals ->
                   Outcomes \cup {"None", "Pending", "Rejected", "Expired"}]
  /\ kind \in [Proposals -> Kinds \cup {"none"}]
  /\ frozen \in [Proposals -> Nat]
  /\ lapsed \in [Proposals -> BOOLEAN]
  /\ version \in [Documents -> Nat]
  /\ edits \in [Documents -> 0..MaxEdits]
  /\ applied \in [Proposals -> Nat]
  /\ told \in [Proposals -> SUBSET Outcomes]
  /\ req \in [Requests ->
                [stage : Stages, of : Proposals \cup {NoProposal},
                 row : Outcomes \cup {"None", "Running"}, wrote : BOOLEAN,
                 result : {"None", "Failed", "Unknown"}]]

Init ==
  /\ run = [r \in Runs |-> "Running"]
  /\ status = [p \in Proposals |-> "None"]
  /\ kind = [p \in Proposals |-> "none"]
  /\ frozen = [p \in Proposals |-> 0]
  /\ lapsed = [p \in Proposals |-> FALSE]
  /\ version = [d \in Documents |-> 0]
  /\ edits = [d \in Documents |-> 0]
  /\ applied = [p \in Proposals |-> 0]
  /\ told = [p \in Proposals |-> {}]
  /\ req = [c \in Requests |-> NewRequest]

-----------------------------------------------------------------------------
\* The proposal's row is locked from confirm's second read of it on.
ProposalFree(p) ==
  \A c \in Requests : req[c].of = p => req[c].stage \notin {"checked", "saved"}

\* Variation: the target is read without FOR UPDATE.
NoDocumentLock(d) == TRUE

\* The target's row is locked from the business method on, but for a create,
\* which only reads the structure's stamp.
DocumentFree(d) ==
  \A c \in Requests :
    req[c].stage = "saved" /\ kind[req[c].of] # "create" => Target[req[c].of] # d

Rows(p) == {c \in Requests : req[c].of = p /\ req[c].row # "None"}

\* Variation: an unfinished execution is shown as a failure.
ShownAsFailed(row) == IF row = "Running" THEN "Failed" ELSE row

\* _execution_result
Shown(row) == IF row = "Running" THEN "Unknown" ELSE row

\* The outcome of a confirmation that went through.
Outcome(p) == IF kind[p] = "fill" THEN "Authorized" ELSE "Succeeded"

-----------------------------------------------------------------------------
\* The run and its proposals.

Propose(p) ==
  /\ status[p] = "None"
  /\ run[Origin[p]] = "Running"
  /\ status' = [status EXCEPT ![p] = "Pending"]
  /\ \E k \in MayBe[p] : kind' = [kind EXCEPT ![p] = k]
  /\ frozen' = [frozen EXCEPT ![p] = version[Target[p]]]
  /\ UNCHANGED <<beside, version, applied, told, req>>

RunEnds(r) ==
  /\ run[r] = "Running"
  /\ \E end \in {"Succeeded", "Ended"} : run' = [run EXCEPT ![r] = end]
  /\ UNCHANGED <<status, fixed, lapsed, version, edits, applied, told, req>>

Lapse(p) ==
  /\ status[p] # "None"
  /\ ~lapsed[p]
  /\ lapsed' = [lapsed EXCEPT ![p] = TRUE]
  /\ UNCHANGED <<run, status, fixed, version, edits, applied, told, req>>

\* Its owner looks at the proposal, or confirms what was confirmed before.
Ask(p) ==
  /\ \E c \in Rows(p) : told' = [told EXCEPT ![p] = @ \cup {Shown(req[c].row)}]
  /\ UNCHANGED <<run, status, fixed, lapsed, version, edits, applied, req>>

\* Anyone else saves the document.
EditDocument(d) ==
  /\ edits[d] < MaxEdits
  /\ DocumentFree(d)
  /\ edits' = [edits EXCEPT ![d] = @ + 1]
  /\ version' = [version EXCEPT ![d] = @ + 1]
  /\ UNCHANGED <<run, status, fixed, lapsed, applied, told, req>>

Reject(p) ==
  /\ ProposalFree(p)
  /\ status[p] = "Pending"
  /\ status' = [status EXCEPT ![p] = "Rejected"]
  /\ UNCHANGED <<beside, fixed, version, applied, told, req>>

\* Variation: what was confirmed is left to its execution record.
LapsedUnconfirmed ==
  {p \in Proposals : status[p] = "Pending" /\ lapsed[p] /\ Rows(p) = {}}

LapsedProposals == {p \in Proposals : status[p] = "Pending" /\ lapsed[p]}

\* The scheduler's sweep locks the rows one by one and commits them together.
ExpireProposals ==
  /\ LapsedProposals # {}
  /\ \A p \in LapsedProposals : ProposalFree(p)
  /\ status' = [p \in Proposals |->
                  IF p \in LapsedProposals THEN "Expired" ELSE status[p]]
  /\ UNCHANGED <<beside, fixed, version, applied, told, req>>

-----------------------------------------------------------------------------
\* confirm

\* Variation: nobody looks for an earlier execution record.
AnotherChance(p) == TRUE

\* Variation: a confirmation whose process died is tried again.
DiedOrUnconfirmed(p) == \A c \in Rows(p) : req[c].stage = "over"

\* The record found under lock, and the unique key behind it.
Unconfirmed(p) == Rows(p) = {}

Intend(c, p) ==
  /\ req[c].stage = "new"
  /\ ProposalFree(p)
  /\ Unconfirmed(p)
  /\ status[p] = "Pending"
  /\ run[Origin[p]] = "Succeeded"
  /\ req' = [req EXCEPT ![c] = [@ EXCEPT !.stage = "intent", !.of = p,
                                         !.row = "Running"]]
  /\ UNCHANGED <<beside, status, fixed, version, applied, told>>

Begin(c) ==
  /\ req[c].stage = "intent"
  /\ ProposalFree(req[c].of)
  /\ ~lapsed[req[c].of]
  /\ req' = [req EXCEPT ![c].stage = "checked"]
  /\ UNCHANGED <<beside, status, fixed, version, applied, told>>

\* The business method, inside the open transaction.
Save(c) ==
  LET p == req[c].of
  IN /\ req[c].stage = "checked"
     /\ kind[p] = "create" \/ DocumentFree(Target[p])
     /\ version[Target[p]] = frozen[p]
     /\ req' = [req EXCEPT ![c] = [@ EXCEPT !.stage = "saved",
                                            !.wrote = kind[p] # "fill"]]
     /\ UNCHANGED <<beside, status, fixed, version, applied, told>>

\* What is in the transaction when it commits.
Committed(c) ==
  LET p == req[c].of
  IN IF req[c].wrote
     THEN /\ applied' = [applied EXCEPT ![p] = @ + 1]
          /\ version' = IF kind[p] = "save"
                        THEN [version EXCEPT ![Target[p]] = @ + 1] ELSE version
     ELSE UNCHANGED <<applied, version>>

\* The record, the proposal and whatever was written become durable together.
Conclude(c, result) ==
  /\ req' = [req EXCEPT ![c] = [@ EXCEPT !.stage = "over", !.row = result,
                                         !.wrote = FALSE]]
  /\ status' = [status EXCEPT ![req[c].of] = result]
  /\ told' = [told EXCEPT ![req[c].of] = @ \cup {result}]
  /\ Committed(c)
  /\ UNCHANGED <<beside, fixed>>

Succeed(c) == req[c].stage = "saved" /\ Conclude(c, Outcome(req[c].of))

\* Variation: the failed transaction is not rolled back.
KeepWrites(c) == req[c].wrote

\* What the rollback leaves of the business write.
LeftByRollback(c) == FALSE

\* Any check or business rule refuses ("Failed"), or something unexpected
\* happens ("Unknown"): a stale snapshot, a lock timeout, a lost connection.
Fail(c) ==
  /\ req[c].stage \in {"intent", "checked", "saved"}
  /\ \E result \in {"Failed", "Unknown"} :
       req' = [req EXCEPT ![c] = [@ EXCEPT !.stage = "failing",
                                  !.wrote = LeftByRollback(c), !.result = result]]
  /\ UNCHANGED <<beside, status, fixed, version, applied, told>>

RecordFailure(c) ==
  /\ req[c].stage = "failing"
  /\ ProposalFree(req[c].of)
  /\ Conclude(c, req[c].result)

\* The process dies: an open transaction is gone, the intent is not.
Crash(c) ==
  /\ req[c].stage \in {"intent", "checked", "saved", "failing"}
  /\ req' = [req EXCEPT ![c] = [@ EXCEPT !.stage = "over", !.wrote = FALSE]]
  /\ UNCHANGED <<beside, status, fixed, version, applied, told>>

-----------------------------------------------------------------------------
RequestStep(c) ==
  Begin(c) \/ Save(c) \/ Succeed(c) \/ Fail(c) \/ RecordFailure(c) \/ Crash(c)

ProposalStep(p) ==
  \/ Propose(p) \/ Lapse(p) \/ Ask(p) \/ Reject(p)
  \/ \E c \in Requests : Intend(c, p)

Next ==
  \/ \E p \in Proposals : ProposalStep(p)
  \/ \E r \in Runs : RunEnds(r)
  \/ \E d \in Documents : EditDocument(d)
  \/ ExpireProposals
  \/ \E c \in Requests : RequestStep(c)

Spec == Init /\ [][Next]_vars

\* Time passes, the scheduler keeps sweeping, and a request ends or dies.
Fairness ==
  /\ \A p \in Proposals : WF_vars(Lapse(p))
  /\ SF_vars(ExpireProposals)
  /\ \A c \in Requests : WF_vars(RequestStep(c))

FairSpec == Spec /\ Fairness

-----------------------------------------------------------------------------
(* What must hold. *)

\* However often a proposal is confirmed, and wherever a confirmation dies, its
\* business write commits at most once ("never retried automatically").
AppliedOnce == \A p \in Proposals : applied[p] <= 1

\* The execution record says Succeeded exactly when the business write is
\* durable: neither exists without the other, after any failure or crash.
EvidenceIsTrue ==
  \A p \in Proposals :
    applied[p] > 0 <=> \E c \in Rows(p) : req[c].row = "Succeeded"

\* What an owner was shown stays true: a failure they saw never turns out to
\* have been carried out, also when they looked in the middle of it.
AnswersStand ==
  \A p \in Proposals :
    /\ "Failed" \in told[p] => applied[p] = 0
    /\ "Succeeded" \in told[p] => applied[p] > 0
    /\ Cardinality(told[p] \ {"Unknown"}) <= 1

\* A write lands on the very version its owner confirmed; nobody's save slips
\* in between the version check and the commit.
AppliedAsConfirmed ==
  [][\A p \in Proposals :
       applied'[p] # applied[p] /\ kind[p] # "create" =>
         version[Target[p]] = frozen[p]]_vars

\* "reject and expire are terminal without execution": what its owner rejected
\* is not carried out afterwards.
RejectedIsNotExecuted ==
  [][\A p \in Proposals :
       status[p] = "Rejected" => applied'[p] = applied[p]]_vars

\* What became of a proposal: its execution record says, where there is one; a
\* reject or a lapse after the intent changes the status and nothing else.
Standing(p) ==
  IF Rows(p) # {}
  THEN LET row == req[CHOOSE c \in Rows(p) : TRUE].row
       IN IF row = "Running" THEN "confirmed" ELSE row
  ELSE CASE status[p] = "None" -> "none"
         [] status[p] = "Pending" -> "open"
         [] OTHER -> "withdrawn"

Promise == INSTANCE OperationPromise WITH stage <- [p \in Proposals |-> Standing(p)]

\* Whatever requests, transactions, locks and deaths are in between, confirming
\* is one stroke for its owner: an operation is withdrawn or confirmed once, is
\* carried out on the version it was made for or not at all, and what its owner
\* is told is what became of it (OperationPromise, implemented by Next).
PromiseKept == Promise!Spec

\* No proposal stays open for ever, also when the request confirming it died.
PendingEnds ==
  \A p \in Proposals : status[p] = "Pending" ~> status[p] # "Pending"
=============================================================================
