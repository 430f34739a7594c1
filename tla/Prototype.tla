----------------------------- MODULE Prototype -----------------------------
(***************************************************************************)
(* The building prototype of the workspace page: the reducer of model.js   *)
(* (one record, one event at a time) under the pages of App.jsx, which     *)
(* decide what a user can send it.  A requirement becomes a candidate, a   *)
(* publisher confirms that candidate in a dialog, and publishing it may    *)
(* succeed, fail, meet a changed target, stop halfway or end unknown.      *)
(*                                                                         *)
(* An event the reducer refuses (it throws, and send shows the message)    *)
(* leaves the state as it was, so a refusal is not an action here; the     *)
(* controls the pages show are, and OffersAreKept says which of them the   *)
(* reducer may not refuse.  Left out: labels, tables, tabs, the scripted   *)
(* answer of the assistant page, none of which change the state.           *)
(***************************************************************************)
EXTENDS Integers, Sequences

CONSTANTS
    Tenants,      \* the synthetic enterprises
    FirstTenant,  \* the one a page starts in
    Texts,        \* requirement texts; Blank is one that trims to nothing
    Blank,
    FirstText,    \* the requirement every demonstration starts from
    Pages,        \* pages a user goes to
    None,         \* JavaScript's null
    MaxRevision,  \* bound: edits of one demonstration
    MaxTarget,    \* bound: changes of the target configuration
    MaxTasks,     \* bound: publishing tasks of one demonstration
    MaxRepairs    \* bound: repair reports

Roles == {"employee", "designer", "publisher", "operator"}

outcomes == {"success", "failed", "conflict", "partial", "unknown"}

Candidate == [version : Nat, requirement : Texts, targetVersion : Nat]
Confirmation == [tenant : Tenants, role : Roles, version : Nat]
Report == [status : outcomes, version : Nat]
Task == [id : Nat, status : outcomes, version : Nat]

ASSUME PrototypeAssumption ==
    /\ FirstTenant \in Tenants
    /\ FirstText \in Texts \ {Blank}
    /\ Blank \in Texts
    /\ {"work", "build"} \subseteq Pages
    /\ None \notin Candidate \cup Confirmation \cup Report
    /\ {MaxRevision, MaxTarget, MaxTasks, MaxRepairs} \subseteq Nat

VARIABLES
    state,   \* App's state: everything the reducer reads and returns
    modal    \* the dialog in front of the page: "none", "confirm" or "repair"

vars == <<state, modal>>

initialState(tenant, role) ==
    [tenant |-> tenant, role |-> role, page |-> "work", sessionValid |-> TRUE,
     requirement |-> FirstText, revision |-> 1, targetVersion |-> 0,
     candidate |-> None, confirmation |-> None, result |-> None,
     publishedVersion |-> 0, history |-> <<>>, repairs |-> 0]

Init ==
    /\ state = initialState(FirstTenant, "publisher")
    /\ modal = "none"

-----------------------------------------------------------------------------
(* What the reducer asks before it acts.                                   *)

canAccess(page) ==
    /\ state.sessionValid
    /\ CASE page = "platform" -> state.role = "operator"
         [] state.role = "operator" -> page = "account"
         [] page \in {"build", "catalog", "releases"} ->
                state.role \in {"designer", "publisher"}
         [] page = "settings" -> state.role = "publisher"
         [] page = "repairs" -> state.publishedVersion > 0
         [] OTHER -> page \in {"work", "assistant", "todos", "tasks", "account"}

requirePublisher == state.role = "publisher"

Unresolved == state.result # None /\ state.result.status \in {"unknown", "partial"}

requireKnown == ~ Unresolved

MayPreview ==
    /\ requireKnown
    /\ state.revision > state.publishedVersion
    /\ canAccess("build")
    /\ state.requirement # Blank

MayConfirm ==
    /\ requirePublisher
    /\ state.revision > state.publishedVersion
    /\ requireKnown
    /\ state.candidate # None

MayPublish ==
    /\ requirePublisher
    /\ requireKnown
    /\ state.confirmation # None
    /\ state.candidate # None
    /\ state.confirmation.version = state.candidate.version
    /\ state.confirmation.tenant = state.tenant

\* A task ends: its report is shown and filed before the earlier ones.
finish(history, status) ==
    LET report == [status |-> status, version |-> state.candidate.version]
    IN [state EXCEPT
            !.confirmation = None,
            !.result = report,
            !.publishedVersion =
                IF status = "success" THEN state.candidate.version ELSE @,
            !.targetVersion = IF status = "success" THEN @ + 1 ELSE @,
            !.history = <<[id |-> Len(history) + 1, status |-> status,
                           version |-> state.candidate.version]>> \o history]

-----------------------------------------------------------------------------
(* The header and the menu: on every page of a valid session, behind any   *)
(* open dialog.                                                            *)

Reachable == state.sessionValid /\ modal = "none"

ChooseTenant(tenant) ==
    /\ Reachable
    /\ state' = initialState(tenant, state.role)
    /\ UNCHANGED modal

\* Variation: the confirmation outlives the role it was given in.
ChooseRoleOnly(role) ==
    /\ Reachable
    /\ state' = [state EXCEPT !.role = role]
    /\ UNCHANGED modal

ChooseRole(role) ==
    /\ Reachable
    /\ state' = [state EXCEPT !.role = role, !.confirmation = None]
    /\ UNCHANGED modal

\* The menu lists what the role can open; buttons of the pages also lead to
\* "work", "build", "assistant", "todos" and "repairs", and a page the role
\* cannot open shows a refusal with a way back.
Navigate(page) ==
    /\ Reachable
    /\ \/ canAccess(page)
       \/ /\ state.page \in {"work", "catalog", "releases"} /\ canAccess(state.page)
          /\ page = "build"
       \/ ~ canAccess(state.page)
          /\ page = IF state.role = "operator" THEN "platform" ELSE "work"
    /\ state' = [state EXCEPT !.page = page]
    /\ UNCHANGED modal

Expire ==
    /\ Reachable /\ state.page = "account" /\ canAccess("account")
    /\ state' = [initialState(state.tenant, state.role) EXCEPT
                    !.sessionValid = FALSE, !.requirement = Blank]
    /\ UNCHANGED modal

\* An expired page can only be entered again, from the beginning.
Reenter ==
    /\ ~ state.sessionValid
    /\ state' = initialState(FirstTenant, "publisher")
    /\ modal' = "none"

-----------------------------------------------------------------------------
(* The build page.                                                         *)

OnBuild == Reachable /\ state.page = "build" /\ canAccess("build")

Edit(text) ==
    /\ OnBuild
    /\ requireKnown
    /\ state.role # "operator"
    /\ state.revision < MaxRevision
    /\ state' = [state EXCEPT !.requirement = text, !.revision = @ + 1,
                    !.candidate = None, !.confirmation = None, !.result = None]
    /\ UNCHANGED modal

Preview ==
    /\ OnBuild
    /\ MayPreview
    /\ state' = [state EXCEPT
                    !.candidate = [version |-> state.revision,
                                   requirement |-> state.requirement,
                                   targetVersion |-> state.targetVersion],
                    !.confirmation = None, !.result = None]
    /\ UNCHANGED modal

\* Variation: a candidate already published is offered for confirmation again.
OfferConfirmAgain ==
    /\ OnBuild
    /\ state.candidate # None
    /\ state.confirmation = None
    /\ state.role = "publisher"
    /\ ~ Unresolved

\* The version tab: which of its buttons stand on the page.
OfferConfirm ==
    /\ OnBuild
    /\ state.candidate # None
    /\ state.confirmation = None
    /\ state.role = "publisher"
    /\ (state.result # None => state.result.status # "success")
    /\ ~ Unresolved

OfferPublish ==
    OnBuild /\ state.candidate # None /\ state.confirmation # None /\ ~ Unresolved

OpenConfirm ==
    /\ OfferConfirm
    /\ modal' = "confirm"
    /\ UNCHANGED state

CloseModal ==
    /\ modal # "none"
    /\ modal' = "none"
    /\ UNCHANGED state

Confirm ==
    /\ modal = "confirm"
    /\ MayConfirm
    /\ state' = [state EXCEPT
                    !.confirmation = [tenant |-> state.tenant, role |-> state.role,
                                      version |-> state.candidate.version]]
    /\ modal' = "none"

Publish(outcome) ==
    /\ OfferPublish
    /\ MayPublish
    /\ Len(state.history) < MaxTasks
    /\ state' = finish(state.history,
                       IF state.targetVersion # state.candidate.targetVersion
                       THEN "conflict" ELSE outcome)
    /\ UNCHANGED modal

\* The native back office changes what the candidate was previewed against.
TargetChanged ==
    /\ OnBuild
    /\ state.candidate # None
    /\ ~ Unresolved
    /\ state.targetVersion < MaxTarget
    /\ state' = [state EXCEPT !.targetVersion = @ + 1]
    /\ UNCHANGED modal

\* Variation: the read back is filed as one more task.
ReconcileAsAnother ==
    /\ OnBuild
    /\ state.candidate # None
    /\ requirePublisher
    /\ state.result # None
    /\ state.result.status = "unknown"
    /\ state' = finish(state.history, "success")
    /\ UNCHANGED modal

\* The read back of an unknown task says that its candidate is installed.
Reconcile ==
    /\ OnBuild
    /\ state.candidate # None
    /\ requirePublisher
    /\ state.result # None
    /\ state.result.status = "unknown"
    /\ state' = finish(Tail(state.history), "success")
    /\ UNCHANGED modal

-----------------------------------------------------------------------------
(* The page of the published application.                                  *)

OnRepairs == state.page = "repairs" /\ canAccess("repairs") /\ state.role # "designer"

OpenRepair ==
    /\ OnRepairs /\ modal = "none"
    /\ modal' = "repair"
    /\ UNCHANGED state

Repair ==
    /\ OnRepairs /\ modal = "repair"
    /\ state.repairs < MaxRepairs
    /\ state' = [state EXCEPT !.repairs = @ + 1]
    /\ modal' = "none"

-----------------------------------------------------------------------------
HeaderStep ==
    \/ \E tenant \in Tenants : ChooseTenant(tenant)
    \/ \E role \in Roles : ChooseRole(role)
    \/ \E page \in Pages : Navigate(page)
    \/ Expire \/ Reenter

BuildStep ==
    \/ \E text \in Texts : Edit(text)
    \/ \E outcome \in outcomes : Publish(outcome)
    \/ Preview \/ OpenConfirm \/ CloseModal \/ Confirm
    \/ TargetChanged \/ Reconcile

Next == HeaderStep \/ BuildStep \/ OpenRepair \/ Repair

Spec == Init /\ [][Next]_vars

-----------------------------------------------------------------------------
(* What must hold.                                                         *)

\* The types of model.js's record and of the dialog in front of the page.
TypeOK ==
    /\ state \in [tenant : Tenants, role : Roles, page : Pages,
                  sessionValid : BOOLEAN, requirement : Texts,
                  revision : Nat, targetVersion : Nat,
                  candidate : Candidate \cup {None},
                  confirmation : Confirmation \cup {None},
                  result : Report \cup {None}, publishedVersion : Nat,
                  history : Seq(Task), repairs : Nat]
    /\ modal \in {"none", "confirm", "repair"}

\* A candidate is always the current text at its current revision, previewed
\* against a target no newer than today's: an edit, a switch or an expiry
\* leaves no candidate of another text behind (transition, "edit" and "tenant").
CandidateIsCurrent ==
    state.candidate # None =>
        /\ state.candidate.version = state.revision
        /\ state.candidate.requirement = state.requirement
        /\ state.candidate.targetVersion =< state.targetVersion

\* A confirmation in force is for the candidate on the page, given in the
\* enterprise and the role that is on the page now, and never stands beside a
\* report nobody has checked (transition, "role", "edit", "preview", "publish").
ConfirmationBinds ==
    state.confirmation # None =>
        /\ state.candidate # None
        /\ state.confirmation.version = state.candidate.version
        /\ state.confirmation.tenant = state.tenant
        /\ state.confirmation.role = state.role
        /\ state.role = "publisher"
        /\ ~ Unresolved

\* The task list tells what happened: numbered without a gap, an unknown or
\* partial task only at its head and still on the page, no version published
\* twice or out of order, and the published version the newest success
\* (finish and the "reconcile" event of transition).
HistoryTells ==
    /\ \A i \in 1..Len(state.history) :
          LET task == state.history[i] IN
          /\ task.id = Len(state.history) - i + 1
          /\ task.status \in {"unknown", "partial"} =>
                i = 1 /\ state.result = [status |-> task.status, version |-> task.version]
          /\ task.version =< state.revision
          /\ task.status = "success" =>
                /\ task.version =< state.publishedVersion
                /\ \A j \in 1..(i - 1) :
                      state.history[j].status = "success" =>
                          state.history[j].version > task.version
    /\ state.publishedVersion > 0 =>
          \E i \in 1..Len(state.history) :
              /\ state.history[i].status = "success"
              /\ state.history[i].version = state.publishedVersion

\* A button of the version tab, and the dialog once it is open, is never
\* refused by the reducer: what the page offers is what may be done
\* (App.jsx's conditions against the checks of "confirm" and "publish").
OffersAreKept ==
    /\ OfferConfirm => MayConfirm
    /\ modal = "confirm" => MayConfirm
    /\ OfferPublish => MayPublish
=============================================================================
