--------------------------- MODULE PrototypeProofs ---------------------------
(***************************************************************************)
(* What the prototype page keeps for any enterprises, texts and pages and  *)
(* any number of edits, publishing tasks and changes of the target.        *)
(***************************************************************************)
EXTENDS Prototype, SequenceTheorems, TLAPS

StateType ==
    [tenant : Tenants, role : Roles, page : Pages, sessionValid : BOOLEAN,
     requirement : Texts, revision : Nat, targetVersion : Nat,
     candidate : Candidate \cup {None}, confirmation : Confirmation \cup {None},
     result : Report \cup {None}, publishedVersion : Nat,
     history : Seq(Task), repairs : Nat]

\* A report on the page is of a task on file: what a read back replaces is there.
ReportIsFiled == state.result # None => state.history # <<>>

\* Every demonstration starts well typed.
LEMMA InitialType ==
    ASSUME NEW tenant \in Tenants, NEW role \in Roles
    PROVE  initialState(tenant, role) \in StateType
BY PrototypeAssumption DEF initialState, StateType

\* A task that ends leaves a well typed record.
LEMMA FinishType ==
    ASSUME state \in StateType, state.candidate # None,
           NEW history \in Seq(Task), NEW status \in outcomes
    PROVE  finish(history, status) \in StateType
<1> DEFINE version == state.candidate.version
           report == [status |-> status, version |-> version]
           task == [id |-> Len(history) + 1, status |-> status, version |-> version]
<1>1. version \in Nat
  BY DEF StateType, Candidate
<1>2. report \in Report /\ task \in Task
  BY <1>1, LenProperties DEF Report, Task
<1>3. <<task>> \o history \in Seq(Task)
  BY <1>2
<1> DEFINE published == IF status = "success" THEN version ELSE state.publishedVersion
           target == IF status = "success" THEN state.targetVersion + 1
                     ELSE state.targetVersion
<1>4. published \in Nat /\ target \in Nat
  BY <1>1 DEF StateType
<1>5. finish(history, status) =
        [state EXCEPT !.confirmation = None, !.result = report,
           !.publishedVersion = published, !.targetVersion = target,
           !.history = <<task>> \o history]
  BY DEF finish
<1> HIDE DEF version, report, task, published, target
<1> QED
  BY <1>2, <1>3, <1>4, <1>5, ZenonT(40) DEF StateType

\* Another requirement is a requirement.
LEMMA TextType ==
    ASSUME NEW record \in StateType, NEW text \in Texts
    PROVE  [record EXCEPT !.requirement = text] \in StateType
BY DEF StateType

\* The next revision is one.
LEMMA RevisionType ==
    ASSUME NEW record \in StateType
    PROVE  [record EXCEPT !.revision = @ + 1] \in StateType
BY DEF StateType

\* The types are kept by every step.
LEMMA TypeStep == TypeOK /\ ReportIsFiled /\ [Next]_vars => TypeOK'
<1> SUFFICES ASSUME state \in StateType, ReportIsFiled,
                    modal \in {"none", "confirm", "repair"}, [Next]_vars
             PROVE  state' \in StateType /\ modal' \in {"none", "confirm", "repair"}
  BY DEF TypeOK, StateType
<1>1. ASSUME NEW tenant \in Tenants, ChooseTenant(tenant) PROVE state' \in StateType
  <2>1. state.role \in Roles
    BY DEF StateType
  <2> QED
    BY <1>1, <2>1, InitialType DEF ChooseTenant
<1>2. ASSUME NEW role \in Roles, ChooseRole(role) PROVE state' \in StateType
  BY <1>2 DEF ChooseRole, StateType
<1>3. ASSUME NEW page \in Pages, Navigate(page) PROVE state' \in StateType
  BY <1>3 DEF Navigate, StateType
<1>4. ASSUME Expire PROVE state' \in StateType
  <2>1. state.tenant \in Tenants /\ state.role \in Roles
    BY DEF StateType
  <2>2. PICK i \in StateType :
          state' = [i EXCEPT !.sessionValid = FALSE, !.requirement = Blank]
    BY <1>4, <2>1, InitialType DEF Expire
  <2>3. [i EXCEPT !.requirement = Blank] \in StateType
    BY TextType, PrototypeAssumption
  <2>4. state' = [[i EXCEPT !.requirement = Blank] EXCEPT !.sessionValid = FALSE]
    BY <2>2 DEF StateType
  <2> QED
    BY <2>3, <2>4 DEF StateType
<1>5. ASSUME Reenter PROVE state' \in StateType
  <2>1. FirstTenant \in Tenants /\ "publisher" \in Roles
    BY PrototypeAssumption DEF Roles
  <2> QED
    BY <1>5, <2>1, InitialType DEF Reenter
<1>6. ASSUME NEW text \in Texts, Edit(text) PROVE state' \in StateType
  <2>1. PICK r \in StateType : r = [state EXCEPT !.requirement = text]
    BY TextType
  <2>2. PICK q \in StateType : q = [r EXCEPT !.revision = @ + 1]
    BY RevisionType
  <2>3. state' = [q EXCEPT !.candidate = None, !.confirmation = None, !.result = None]
    BY <1>6, <2>1, <2>2 DEF Edit, StateType
  <2> QED
    BY <2>3 DEF StateType
<1>7. ASSUME Preview PROVE state' \in StateType
  <2>1. [version |-> state.revision, requirement |-> state.requirement,
         targetVersion |-> state.targetVersion] \in Candidate
    BY DEF StateType, Candidate
  <2> QED
    BY <1>7, <2>1 DEF Preview, StateType
<1>8. ASSUME Confirm PROVE state' \in StateType
  <2>1. state.candidate # None
    BY <1>8 DEF Confirm, MayConfirm
  <2>2. [tenant |-> state.tenant, role |-> state.role,
         version |-> state.candidate.version] \in Confirmation
    BY <2>1 DEF StateType, Candidate, Confirmation
  <2> QED
    BY <1>8, <2>2 DEF Confirm, StateType
<1>9. ASSUME NEW outcome \in outcomes, Publish(outcome) PROVE state' \in StateType
  <2>1. state.candidate # None /\ state.history \in Seq(Task)
    BY <1>9 DEF Publish, OfferPublish, StateType
  <2>2. \E status \in outcomes : state' = finish(state.history, status)
    BY <1>9 DEF Publish, outcomes
  <2> QED
    BY <2>1, <2>2, FinishType
<1>10. ASSUME TargetChanged PROVE state' \in StateType
  BY <1>10 DEF TargetChanged, StateType
<1>11. ASSUME Reconcile PROVE state' \in StateType
  <2>1. state.candidate # None /\ state.history \in Seq(Task)
    BY <1>11 DEF Reconcile, StateType
  <2>2. Tail(state.history) \in Seq(Task)
    BY <1>11, <2>1 DEF Reconcile, ReportIsFiled
  <2> QED
    BY <1>11, <2>1, <2>2, FinishType DEF Reconcile, outcomes
<1>12. ASSUME Repair PROVE state' \in StateType
  BY <1>12 DEF Repair, StateType
<1>13. ASSUME OpenConfirm \/ CloseModal \/ OpenRepair \/ UNCHANGED vars
       PROVE  state' \in StateType
  BY <1>13 DEF OpenConfirm, CloseModal, OpenRepair, vars
<1>14. modal' \in {"none", "confirm", "repair"}
  BY DEF Next, HeaderStep, BuildStep, ChooseTenant, ChooseRole, Navigate, Expire,
         Reenter, Edit, Publish, Preview, OpenConfirm, CloseModal, Confirm,
         TargetChanged, Reconcile, OpenRepair, Repair, vars
<1> QED
  BY <1>1, <1>2, <1>3, <1>4, <1>5, <1>6, <1>7, <1>8, <1>9, <1>10, <1>11, <1>12,
     <1>13, <1>14 DEF Next, HeaderStep, BuildStep

\* A report comes with its task and stays with it.
LEMMA ReportStep == TypeOK /\ ReportIsFiled /\ [Next]_vars => ReportIsFiled'
<1> SUFFICES ASSUME state \in StateType, ReportIsFiled, [Next]_vars
             PROVE  ReportIsFiled'
  BY DEF TypeOK, StateType
<1>1. ASSUME NEW history \in Seq(Task), NEW status \in outcomes,
             state.candidate # None, state' = finish(history, status)
      PROVE  ReportIsFiled'
  <2>1. state'.history = <<[id |-> Len(history) + 1, status |-> status,
                            version |-> state.candidate.version]>> \o history
    BY <1>1 DEF finish, StateType
  <2>2. state'.history # <<>>
    BY <2>1
  <2> QED
    BY <2>2 DEF ReportIsFiled
<1>2. ASSUME NEW outcome \in outcomes, Publish(outcome) PROVE ReportIsFiled'
  BY <1>1, <1>2 DEF Publish, OfferPublish, StateType, outcomes
<1>3. CASE Reconcile
  <2>1. Tail(state.history) \in Seq(Task)
    BY <1>3 DEF Reconcile, ReportIsFiled, StateType
  <2> QED
    BY <1>1, <1>3, <2>1 DEF Reconcile, outcomes
<1>4. ASSUME state'.result = None \/ (/\ state'.result = state.result
                                     /\ state'.history = state.history)
      PROVE  ReportIsFiled'
  BY <1>4 DEF ReportIsFiled
<1>5. CASE \/ \E tenant \in Tenants : ChooseTenant(tenant)
           \/ Expire \/ Reenter \/ Preview \/ \E text \in Texts : Edit(text)
  <2>1. ASSUME Expire PROVE state'.result = None
    BY <2>1 DEF Expire, initialState
  <2>2. ASSUME Preview \/ \E text \in Texts : Edit(text) PROVE state'.result = None
    BY <2>2 DEF Preview, Edit, StateType
  <2>3. ASSUME (\E tenant \in Tenants : ChooseTenant(tenant)) \/ Reenter
        PROVE  state'.result = None
    BY <2>3 DEF ChooseTenant, Reenter, initialState
  <2>4. state'.result = None
    BY <1>5, <2>1, <2>2, <2>3
  <2> QED
    BY <1>4, <2>4
<1>6. CASE \/ \E role \in Roles : ChooseRole(role)
           \/ \E page \in Pages : Navigate(page)
           \/ Confirm \/ TargetChanged \/ Repair
           \/ OpenConfirm \/ CloseModal \/ OpenRepair \/ UNCHANGED vars
  <2>1. state'.result = state.result /\ state'.history = state.history
    BY <1>6 DEF ChooseRole, Navigate, Confirm, TargetChanged, Repair, OpenConfirm,
                CloseModal, OpenRepair, vars, StateType
  <2> QED
    BY <1>4, <2>1
<1> QED
  BY <1>2, <1>3, <1>5, <1>6 DEF Next, HeaderStep, BuildStep

\* Types and reports together.
LEMMA TypeSafety == Spec => [](TypeOK /\ ReportIsFiled)
<1>1. Init => TypeOK /\ ReportIsFiled
  <2> SUFFICES ASSUME Init PROVE TypeOK /\ ReportIsFiled
    OBVIOUS
  <2>1. state \in StateType
    BY InitialType, PrototypeAssumption DEF Init, Roles
  <2>2. state.result = None
    BY DEF Init, initialState
  <2> QED
    BY <2>1, <2>2 DEF Init, TypeOK, StateType, ReportIsFiled
<1> QED
  BY <1>1, TypeStep, ReportStep, PTL DEF Spec

\* The record and the dialog keep their types, whatever is sent and however it
\* ends (transition); a read back always finds the task it replaces.
THEOREM TypeCorrect == Spec => []TypeOK
BY TypeSafety, PTL

-----------------------------------------------------------------------------
(* What the page offers, and what is confirmed.                            *)

\* Why an offer is never refused: a candidate is of the current revision, and
\* that revision is newer than the published one unless the report on the page
\* says it was just published.
OfferInv ==
    /\ CandidateIsCurrent
    /\ ConfirmationBinds
    /\ state.publishedVersion =< state.revision
    /\ state.confirmation # None => state.revision > state.publishedVersion
    /\ state.candidate # None /\ (state.result # None => state.result.status # "success")
         => state.revision > state.publishedVersion
    /\ modal = "confirm" => MayConfirm

\* What the end of a task changes.
LEMMA FinishFields ==
    ASSUME state \in StateType, NEW history, NEW status
    PROVE  LET s == finish(history, status) IN
           /\ s.tenant = state.tenant /\ s.role = state.role
           /\ s.revision = state.revision /\ s.requirement = state.requirement
           /\ s.candidate = state.candidate /\ s.confirmation = None
           /\ s.result = [status |-> status, version |-> state.candidate.version]
           /\ s.publishedVersion = IF status = "success" THEN state.candidate.version
                                   ELSE state.publishedVersion
           /\ s.targetVersion = IF status = "success" THEN state.targetVersion + 1
                                ELSE state.targetVersion
BY DEF finish, StateType

\* A task that ends publishes its candidate or leaves it to be published.
LEMMA FinishKeepsOffers ==
    ASSUME state \in StateType, OfferInv, state.candidate # None,
           NEW history, NEW status \in outcomes, state' = finish(history, status),
           modal' # "confirm",
           status # "success" => state.revision > state.publishedVersion
    PROVE  OfferInv'
<1>1. /\ state.candidate \in Candidate /\ state.revision \in Nat
      /\ state.targetVersion \in Nat /\ state.publishedVersion \in Nat
  BY DEF StateType
<1>2. /\ state'.revision = state.revision /\ state'.requirement = state.requirement
      /\ state'.candidate = state.candidate /\ state'.confirmation = None
      /\ state'.result = [status |-> status, version |-> state.candidate.version]
      /\ state'.publishedVersion = IF status = "success" THEN state.candidate.version
                                   ELSE state.publishedVersion
      /\ state'.targetVersion = IF status = "success" THEN state.targetVersion + 1
                                ELSE state.targetVersion
  BY FinishFields
<1>3. /\ state.candidate.version = state.revision
      /\ state.candidate.requirement = state.requirement
      /\ state.candidate.targetVersion =< state.targetVersion
      /\ state.candidate.targetVersion \in Nat
      /\ state.publishedVersion =< state.revision
  BY <1>1 DEF OfferInv, CandidateIsCurrent, Candidate
<1>4. CandidateIsCurrent'
  BY <1>1, <1>2, <1>3 DEF CandidateIsCurrent
<1>5. state'.publishedVersion =< state'.revision
  BY <1>1, <1>2, <1>3
<1>6. state'.result # None /\ state'.result.status = status
  <2>1. [status |-> status, version |-> state.candidate.version] \in Report
    BY <1>1 DEF Report, Candidate
  <2> QED
    BY <1>2, <2>1, PrototypeAssumption
<1>7. state'.result.status # "success" => state'.revision > state'.publishedVersion
  BY <1>2, <1>6
<1> QED
  BY <1>2, <1>4, <1>5, <1>6, <1>7 DEF OfferInv, ConfirmationBinds

\* Every step keeps what is offered and what is confirmed.
LEMMA OfferStep == TypeOK /\ OfferInv /\ [Next]_vars => OfferInv'
<1> SUFFICES ASSUME state \in StateType, OfferInv, [Next]_vars PROVE OfferInv'
  BY DEF TypeOK, StateType
<1>1. /\ state.revision \in Nat /\ state.targetVersion \in Nat
      /\ state.publishedVersion \in Nat /\ state.candidate \in Candidate \cup {None}
  BY DEF StateType
<1>2. CASE \/ \E tenant \in Tenants : ChooseTenant(tenant)
           \/ Expire \/ Reenter
  <2>1. state'.publishedVersion = 0 /\ state'.revision = 1
    <3>1. CASE Expire
      BY <3>1 DEF Expire, initialState
    <3>2. CASE Reenter \/ \E tenant \in Tenants : ChooseTenant(tenant)
      BY <3>2 DEF Reenter, ChooseTenant, initialState
    <3> QED
      BY <1>2, <3>1, <3>2
  <2>2. state'.candidate = None /\ state'.confirmation = None
    <3>1. CASE Expire
      BY <3>1 DEF Expire, initialState
    <3>2. CASE Reenter \/ \E tenant \in Tenants : ChooseTenant(tenant)
      BY <3>2 DEF Reenter, ChooseTenant, initialState
    <3> QED
      BY <1>2, <3>1, <3>2
  <2>3. modal' # "confirm"
    BY <1>2 DEF Expire, Reenter, ChooseTenant, Reachable
  <2> QED
    BY <2>1, <2>2, <2>3 DEF OfferInv, CandidateIsCurrent, ConfirmationBinds
<1>3. ASSUME NEW text \in Texts, Edit(text) PROVE OfferInv'
  <2>1. /\ state'.candidate = None /\ state'.confirmation = None /\ modal' # "confirm"
        /\ state'.revision = state.revision + 1
        /\ state'.publishedVersion = state.publishedVersion
    BY <1>3 DEF Edit, OnBuild, Reachable, StateType
  <2>2. state'.publishedVersion =< state'.revision
    BY <1>1, <2>1 DEF OfferInv
  <2> QED
    BY <2>1, <2>2 DEF OfferInv, CandidateIsCurrent, ConfirmationBinds
<1>4. CASE Preview
  <2>1. /\ state'.candidate = [version |-> state.revision,
                               requirement |-> state.requirement,
                               targetVersion |-> state.targetVersion]
        /\ state'.confirmation = None /\ modal' # "confirm"
        /\ state'.revision = state.revision /\ state'.requirement = state.requirement
        /\ state'.targetVersion = state.targetVersion
        /\ state'.publishedVersion = state.publishedVersion
        /\ state.revision > state.publishedVersion
    BY <1>4 DEF Preview, MayPreview, OnBuild, Reachable, StateType
  <2> QED
    BY <1>1, <2>1 DEF OfferInv, CandidateIsCurrent, ConfirmationBinds
<1>5. ASSUME NEW outcome \in outcomes, Publish(outcome) PROVE OfferInv'
  <2>1. /\ state.candidate # None /\ state.confirmation # None /\ modal' # "confirm"
        /\ \E status \in outcomes : state' = finish(state.history, status)
    BY <1>5 DEF Publish, OfferPublish, OnBuild, Reachable, outcomes
  <2>2. state.revision > state.publishedVersion
    BY <2>1 DEF OfferInv
  <2> QED
    BY <2>1, <2>2, FinishKeepsOffers
<1>6. CASE Reconcile
  BY <1>6, FinishKeepsOffers DEF Reconcile, OnBuild, Reachable, outcomes
<1>7. CASE Confirm
  <2>1. /\ state.candidate # None /\ state.role = "publisher" /\ ~ Unresolved
        /\ state.revision > state.publishedVersion
    BY <1>7 DEF Confirm, MayConfirm, requirePublisher, requireKnown
  <2>2. /\ state'.confirmation = [tenant |-> state.tenant, role |-> state.role,
                                  version |-> state.candidate.version]
        /\ state'.candidate = state.candidate /\ state'.tenant = state.tenant
        /\ state'.role = state.role /\ state'.result = state.result
        /\ state'.revision = state.revision /\ state'.requirement = state.requirement
        /\ state'.targetVersion = state.targetVersion
        /\ state'.publishedVersion = state.publishedVersion
        /\ modal' # "confirm"
    BY <1>7 DEF Confirm, StateType
  <2> QED
    BY <2>1, <2>2 DEF OfferInv, CandidateIsCurrent, ConfirmationBinds, Unresolved
<1>8. ASSUME NEW role \in Roles, ChooseRole(role) PROVE OfferInv'
  <2>1. /\ state'.confirmation = None /\ state'.candidate = state.candidate
        /\ state'.result = state.result /\ state'.revision = state.revision
        /\ state'.requirement = state.requirement
        /\ state'.targetVersion = state.targetVersion
        /\ state'.publishedVersion = state.publishedVersion
        /\ modal' # "confirm"
    BY <1>8 DEF ChooseRole, Reachable, StateType
  <2> QED
    BY <2>1 DEF OfferInv, CandidateIsCurrent, ConfirmationBinds
<1>9. CASE TargetChanged \/ Repair \/ \E page \in Pages : Navigate(page)
  <2>1. /\ state'.confirmation = state.confirmation /\ state'.candidate = state.candidate
        /\ state'.tenant = state.tenant /\ state'.role = state.role
        /\ state'.result = state.result /\ state'.revision = state.revision
        /\ state'.requirement = state.requirement
        /\ state'.publishedVersion = state.publishedVersion
        /\ state'.targetVersion \in {state.targetVersion, state.targetVersion + 1}
        /\ modal' # "confirm"
    BY <1>9 DEF TargetChanged, Repair, Navigate, OnBuild, Reachable, StateType
  <2>2. state.candidate # None =>
          state.candidate.targetVersion \in Nat
            /\ state.candidate.targetVersion =< state'.targetVersion
    BY <1>1, <2>1 DEF OfferInv, CandidateIsCurrent, Candidate
  <2> QED
    BY <2>1, <2>2 DEF OfferInv, CandidateIsCurrent, ConfirmationBinds, Unresolved
<1>10. CASE OpenConfirm
  <2>1. MayConfirm /\ state' = state
    BY <1>10 DEF OpenConfirm, OfferConfirm, OfferInv, MayConfirm, requirePublisher, requireKnown
  <2> QED
    BY <2>1 DEF OfferInv, CandidateIsCurrent, ConfirmationBinds, Unresolved, MayConfirm,
                requirePublisher, requireKnown
<1>11. CASE CloseModal \/ OpenRepair \/ UNCHANGED vars
  <2>1. state' = state /\ (modal' = "confirm" => modal = "confirm")
    BY <1>11 DEF CloseModal, OpenRepair, vars
  <2> QED
    BY <2>1 DEF OfferInv, CandidateIsCurrent, ConfirmationBinds, Unresolved, MayConfirm,
                requirePublisher, requireKnown
<1> QED
  BY <1>2, <1>3, <1>4, <1>5, <1>6, <1>7, <1>8, <1>9, <1>10, <1>11
     DEF Next, HeaderStep, BuildStep

\* Offers and confirmations, with the types they rest on.
LEMMA OfferSafety == Spec => []OfferInv
<1>1. Init => OfferInv
  BY DEF Init, initialState, OfferInv, CandidateIsCurrent, ConfirmationBinds
<1> QED
  BY <1>1, OfferStep, TypeSafety, PTL DEF Spec

\* A confirmation in force is always the one the page needs, in any enterprise
\* and role and after any number of edits and tasks (transition).
THEOREM ConfirmationsBind == Spec => []ConfirmationBinds
<1>1. OfferInv => ConfirmationBinds
  BY DEF OfferInv
<1> QED
  BY <1>1, OfferSafety, PTL

\* No button of the version tab is ever refused, for any history of the page
\* (App.jsx against the checks of transition).
THEOREM OffersHold == Spec => []OffersAreKept
<1>1. OfferInv => OffersAreKept
  <2> SUFFICES ASSUME OfferInv PROVE OffersAreKept
    OBVIOUS
  <2>1. OfferConfirm => MayConfirm
    BY DEF OfferConfirm, OfferInv, MayConfirm, requirePublisher, requireKnown
  <2>2. OfferPublish => MayPublish
    BY DEF OfferPublish, OfferInv, ConfirmationBinds, MayPublish, requirePublisher, requireKnown
  <2> QED
    BY <2>1, <2>2 DEF OffersAreKept, OfferInv
<1> QED
  BY <1>1, OfferSafety, PTL

-----------------------------------------------------------------------------
(* What the task list tells. *)

\* The report on the page is of the newest task.
ReportIsHead ==
    state.result # None => state.history # <<>> /\ state.history[1].status = state.result.status

HistoryInv == HistoryTells /\ ReportIsHead

\* Tasks another one may be filed before: none is open.
Settled(history) ==
    /\ \A i \in 1..Len(history) :
          /\ history[i].id = Len(history) - i + 1
          /\ history[i].status \notin {"unknown", "partial"}
          /\ history[i].version =< state.revision
          /\ history[i].status = "success" =>
                /\ history[i].version =< state.publishedVersion
                /\ \A j \in 1..(i - 1) :
                      history[j].status = "success" => history[j].version > history[i].version
    /\ state.publishedVersion > 0 =>
          \E i \in 1..Len(history) :
              history[i].status = "success" /\ history[i].version = state.publishedVersion

\* A task filed before the earlier ones: theirs are moved by one.
LEMMA Filed ==
    ASSUME NEW task \in Task, NEW history \in Seq(Task)
    PROVE  LET h == <<task>> \o history IN
           /\ h # <<>> /\ Len(h) = Len(history) + 1 /\ h[1] = task
           /\ \A i \in 2..Len(h) : i - 1 \in 1..Len(history) /\ h[i] = history[i - 1]
OBVIOUS

LEMMA FinishTells ==
    ASSUME state \in StateType, state.candidate # None,
           state.candidate.version = state.revision,
           state.revision > state.publishedVersion,
           NEW history \in Seq(Task), Settled(history), NEW status \in outcomes,
           state' = finish(history, status)
    PROVE  HistoryInv'
<1> DEFINE task == [id |-> Len(history) + 1, status |-> status,
                    version |-> state.candidate.version]
           h == <<task>> \o history
<1>1. state.revision \in Nat /\ state.publishedVersion \in Nat /\ Len(history) \in Nat
  BY DEF StateType
<1>2. task \in Task /\ task.id = Len(history) + 1 /\ task.status = status
        /\ task.version = state.revision
  BY <1>1 DEF Task
<1>3. /\ state'.history = h /\ state'.revision = state.revision
      /\ state'.result = [status |-> task.status, version |-> task.version]
      /\ state'.publishedVersion = IF status = "success" THEN state.revision
                                   ELSE state.publishedVersion
  BY <1>2, FinishFields DEF finish, StateType
<1> HIDE DEF task
<1>4. /\ h # <<>> /\ Len(h) = Len(history) + 1 /\ h[1] = task
      /\ \A i \in 2..Len(h) : i - 1 \in 1..Len(history) /\ h[i] = history[i - 1]
  BY <1>2, Filed
<1> HIDE DEF h
<1>5. ASSUME NEW i \in 1..Len(history)
      PROVE  history[i].version \in Nat /\ history[i] = h[i + 1]
  <2>1. history[i] \in Task
    OBVIOUS
  <2>2. i + 1 \in 2..Len(h) /\ (i + 1) - 1 = i
    BY <1>1, <1>4
  <2>3. h[i + 1] = history[(i + 1) - 1]
    BY <1>4, <2>2
  <2> QED
    BY <2>1, <2>2, <2>3 DEF Task
<1>6. ASSUME NEW i \in 1..Len(h)
      PROVE  /\ h[i].id = Len(h) - i + 1
             /\ h[i].status \in {"unknown", "partial"} =>
                   i = 1 /\ state'.result = [status |-> h[i].status, version |-> h[i].version]
             /\ h[i].version =< state'.revision
             /\ h[i].status = "success" => h[i].version =< state'.publishedVersion
  <2>1. CASE i = 1
    BY <1>1, <1>2, <1>3, <1>4, <2>1
  <2>2. CASE i # 1
    <3>1. i \in 2..Len(h)
      BY <1>1, <1>4, <2>2
    <3>2. i - 1 \in 1..Len(history) /\ h[i] = history[i - 1]
      BY <1>4, <3>1
    <3>3. state.publishedVersion =< state'.publishedVersion
      BY <1>1, <1>3
    <3> QED
      BY <1>1, <1>3, <1>4, <1>5, <2>2, <3>2, <3>3 DEF Settled
  <2> QED
    BY <2>1, <2>2
<1>7. ASSUME NEW i \in 1..Len(h), NEW j \in 1..(i - 1),
             h[i].status = "success", h[j].status = "success"
      PROVE  h[j].version > h[i].version
  <2>1. i \in 2..Len(h)
    BY <1>1, <1>4
  <2>2. i - 1 \in 1..Len(history) /\ h[i] = history[i - 1]
    BY <1>4, <2>1
  <2>3. history[i - 1].version =< state.publishedVersion /\ history[i - 1].version \in Nat
    BY <1>5, <1>7, <2>2 DEF Settled
  <2>4. CASE j = 1
    BY <1>1, <1>2, <1>4, <2>2, <2>3, <2>4
  <2>5. CASE j # 1
    <3>1. j \in 2..Len(h) /\ j - 1 \in 1..((i - 1) - 1)
      BY <1>1, <1>4, <2>5
    <3>2. h[j] = history[j - 1]
      BY <1>4, <3>1
    <3> QED
      BY <1>7, <2>2, <3>1, <3>2 DEF Settled
  <2> QED
    BY <2>4, <2>5
<1>8. state'.publishedVersion > 0 =>
        \E i \in 1..Len(h) : h[i].status = "success" /\ h[i].version = state'.publishedVersion
  <2>1. CASE status = "success"
    <3>1. 1 \in 1..Len(h)
      BY <1>1, <1>4
    <3> QED
      BY <1>2, <1>3, <1>4, <2>1, <3>1
  <2>2. CASE status # "success" /\ state.publishedVersion > 0
    <3>1. PICK i \in 1..Len(history) :
            history[i].status = "success" /\ history[i].version = state.publishedVersion
      BY <2>2 DEF Settled
    <3>2. i + 1 \in 1..Len(h) /\ h[i + 1] = history[i]
      BY <1>1, <1>4, <1>5
    <3> QED
      BY <1>3, <2>2, <3>1, <3>2
  <2> QED
    BY <1>3, <2>1, <2>2
<1>9. HistoryTells'
  BY <1>3, <1>6, <1>7, <1>8 DEF HistoryTells
<1>10. ReportIsHead'
  BY <1>3, <1>4 DEF ReportIsHead
<1> QED
  BY <1>9, <1>10 DEF HistoryInv

\* A task list that nothing is open in.
LEMMA KnownIsSettled ==
    ASSUME state \in StateType, HistoryInv, ~ Unresolved
    PROVE  Settled(state.history)
<1>1. ASSUME NEW i \in 1..Len(state.history)
      PROVE  state.history[i].status \notin {"unknown", "partial"}
  <2>1. SUFFICES ASSUME state.history[i].status \in {"unknown", "partial"} PROVE FALSE
    OBVIOUS
  <2>2. state.result = [status |-> state.history[i].status, version |-> state.history[i].version]
    BY <2>1 DEF HistoryInv, HistoryTells
  <2>3. state.history[i] \in Task
    BY DEF StateType
  <2>4. state.result \in Report /\ state.result # None
    BY <2>2, <2>3, PrototypeAssumption DEF Task, Report
  <2> QED
    BY <2>1, <2>2, <2>4 DEF Unresolved
<1> QED
  BY <1>1 DEF HistoryInv, HistoryTells, Settled

\* What is left once the unknown task is taken off.
LEMMA TailIsSettled ==
    ASSUME state \in StateType, HistoryInv, state.result # None,
           state.result.status = "unknown"
    PROVE  Tail(state.history) \in Seq(Task) /\ Settled(Tail(state.history))
<1> DEFINE h == state.history
           t == Tail(state.history)
<1>1. h \in Seq(Task) /\ h # <<>> /\ h[1].status = "unknown"
  BY DEF StateType, HistoryInv, ReportIsHead
<1>2. /\ t \in Seq(Task) /\ Len(t) = Len(h) - 1 /\ Len(t) \in Nat
      /\ \A i \in 1..Len(t) : i + 1 \in 1..Len(h) /\ t[i] = h[i + 1]
  BY <1>1
<1>3. /\ \A i \in 1..Len(h) :
           /\ h[i].id = Len(h) - i + 1
           /\ h[i].status \in {"unknown", "partial"} => i = 1
           /\ h[i].version =< state.revision
           /\ h[i].status = "success" =>
                /\ h[i].version =< state.publishedVersion
                /\ \A j \in 1..(i - 1) : h[j].status = "success" => h[j].version > h[i].version
      /\ state.publishedVersion > 0 =>
           \E i \in 1..Len(h) : h[i].status = "success" /\ h[i].version = state.publishedVersion
  BY DEF HistoryInv, HistoryTells
<1> HIDE DEF h, t
<1>4. ASSUME NEW i \in 1..Len(t)
      PROVE  /\ t[i].id = Len(t) - i + 1
             /\ t[i].status \notin {"unknown", "partial"}
             /\ t[i].version =< state.revision
             /\ t[i].status = "success" => t[i].version =< state.publishedVersion
  <2>1. i + 1 \in 1..Len(h) /\ t[i] = h[i + 1] /\ i + 1 # 1
    BY <1>2
  <2> QED
    BY <1>2, <1>3, <2>1
<1>5. ASSUME NEW i \in 1..Len(t), NEW j \in 1..(i - 1),
             t[i].status = "success", t[j].status = "success"
      PROVE  t[j].version > t[i].version
  <2>1. j \in 1..Len(t) /\ j + 1 \in 1..((i + 1) - 1)
    BY <1>2
  <2>2. t[i] = h[i + 1] /\ t[j] = h[j + 1] /\ i + 1 \in 1..Len(h)
    BY <1>2, <2>1
  <2> QED
    BY <1>3, <1>5, <2>1, <2>2
<1>6. ASSUME state.publishedVersion > 0
      PROVE  \E i \in 1..Len(t) :
                t[i].status = "success" /\ t[i].version = state.publishedVersion
  <2>1. PICK i \in 1..Len(h) : h[i].status = "success" /\ h[i].version = state.publishedVersion
    BY <1>3, <1>6
  <2>2. i # 1
    BY <1>1, <2>1
  <2>3. i - 1 \in 1..Len(t) /\ (i - 1) + 1 = i
    BY <1>2, <2>2
  <2>4. t[i - 1] = h[i]
    BY <1>2, <2>3
  <2> QED
    BY <2>1, <2>3, <2>4
<1> QED
  BY <1>2, <1>4, <1>5, <1>6 DEF Settled, t

\* A step that files nothing: it may take the report away once it is known.
LEMMA StandsTold ==
    ASSUME state \in StateType, HistoryInv, state'.history = state.history,
           state'.publishedVersion = state.publishedVersion,
           state'.revision \in Nat, state'.revision >= state.revision,
           \/ state'.result = state.result
           \/ state'.result = None /\ ~ Unresolved
    PROVE  HistoryInv'
<1>1. ReportIsHead'
  BY DEF HistoryInv, ReportIsHead
<1>2. ASSUME NEW i \in 1..Len(state.history)
      PROVE  /\ state.history[i].version =< state'.revision
             /\ state.history[i].status \in {"unknown", "partial"} => state'.result = state.result
  <2>1. state.history[i].version \in Nat /\ state.revision \in Nat
    <3>1. state.history \in Seq(Task) /\ state.revision \in Nat
      BY DEF StateType
    <3>2. state.history[i] \in Task
      BY <3>1
    <3> QED
      BY <3>1, <3>2 DEF Task
  <2>2. state.history[i].version =< state.revision
    BY DEF HistoryInv, HistoryTells
  <2>3. ~ Unresolved => state.history[i].status \notin {"unknown", "partial"}
    BY KnownIsSettled DEF Settled
  <2> QED
    BY <2>1, <2>2, <2>3
<1>3. HistoryTells'
  BY <1>2 DEF HistoryInv, HistoryTells
<1> QED
  BY <1>1, <1>3 DEF HistoryInv

LEMMA HistoryStep == TypeOK /\ OfferInv /\ HistoryInv /\ [Next]_vars => HistoryInv'
<1> SUFFICES ASSUME state \in StateType, OfferInv, HistoryInv, [Next]_vars
             PROVE  HistoryInv'
  BY DEF TypeOK, StateType
<1>1. state.revision \in Nat
  BY DEF StateType
<1>2. CASE \/ \E tenant \in Tenants : ChooseTenant(tenant)
           \/ Expire \/ Reenter
  <2>1. CASE Expire
    BY <2>1 DEF Expire, initialState, HistoryInv, HistoryTells, ReportIsHead
  <2>2. CASE Reenter \/ \E tenant \in Tenants : ChooseTenant(tenant)
    BY <2>2 DEF Reenter, ChooseTenant, initialState, HistoryInv, HistoryTells, ReportIsHead
  <2> QED
    BY <1>2, <2>1, <2>2
<1>3. CASE Preview \/ \E text \in Texts : Edit(text)
  <2>1. /\ state'.history = state.history /\ state'.result = None /\ ~ Unresolved
        /\ state'.publishedVersion = state.publishedVersion
        /\ state'.revision \in {state.revision, state.revision + 1}
    BY <1>3 DEF Preview, Edit, MayPreview, requireKnown, StateType
  <2> QED
    BY <1>1, <2>1, StandsTold
<1>4. CASE \/ \E role \in Roles : ChooseRole(role)
           \/ \E page \in Pages : Navigate(page)
           \/ Confirm \/ TargetChanged \/ Repair
           \/ OpenConfirm \/ CloseModal \/ OpenRepair \/ UNCHANGED vars
  <2>1. /\ state'.result = state.result /\ state'.history = state.history
        /\ state'.revision = state.revision
        /\ state'.publishedVersion = state.publishedVersion
    BY <1>4 DEF ChooseRole, Navigate, Confirm, TargetChanged, Repair, OpenConfirm,
                CloseModal, OpenRepair, vars, StateType
  <2> QED
    BY <1>1, <2>1, StandsTold
<1>5. ASSUME state.candidate # None PROVE state.candidate.version = state.revision
  BY <1>5 DEF OfferInv, CandidateIsCurrent
<1>6. ASSUME NEW outcome \in outcomes, Publish(outcome) PROVE HistoryInv'
  <2>1. /\ state.candidate # None /\ state.confirmation # None /\ ~ Unresolved
        /\ \E status \in outcomes : state' = finish(state.history, status)
    BY <1>6 DEF Publish, OfferPublish, outcomes
  <2>2. state.revision > state.publishedVersion /\ state.history \in Seq(Task)
    BY <2>1 DEF OfferInv, StateType
  <2> QED
    BY <1>5, <2>1, <2>2, KnownIsSettled, FinishTells
<1>7. CASE Reconcile
  <2>1. /\ state.candidate # None /\ state.result # None /\ state.result.status = "unknown"
        /\ state' = finish(Tail(state.history), "success") /\ "success" \in outcomes
    BY <1>7 DEF Reconcile, outcomes
  <2>2. state.revision > state.publishedVersion
    BY <2>1 DEF OfferInv
  <2> QED
    BY <1>5, <2>1, <2>2, TailIsSettled, FinishTells
<1> QED
  BY <1>2, <1>3, <1>4, <1>6, <1>7 DEF Next, HeaderStep, BuildStep

\* The task list tells what happened, after any number of edits, tasks and
\* read backs (finish and "reconcile" of transition).
THEOREM HistoryIsTold == Spec => []HistoryTells
<1>1. Init => HistoryInv
  BY DEF Init, initialState, HistoryInv, HistoryTells, ReportIsHead
<1>2. HistoryInv => HistoryTells
  BY DEF HistoryInv
<1> QED
  BY <1>1, <1>2, HistoryStep, TypeSafety, OfferSafety, PTL DEF Spec
=============================================================================
