-------------------------- MODULE RunLifecycleProofs --------------------------
(***************************************************************************)
(* What RunLifecycle keeps for every number of runs, owners, claims and    *)
(* every budget: what an open claim may rely on and the room it never      *)
(* exceeds; what a stop, a lease that passed and an authorization that is  *)
(* gone put an end to; and that it implements RunPromise.                  *)
(***************************************************************************)
EXTENDS RunLifecycle, FiniteSetTheorems, TLAPS

\* Constants as the provers use them.
LEMMA Budgets ==
  /\ NumRuns \in Nat /\ SiteConcurrency \in Nat \ {0} /\ SweepLimit \in Nat
  /\ QueueExpires \in Nat /\ ClaimAck \in Nat /\ Lease \in Nat
  /\ RunTotal \in Nat /\ KillGrace \in Nat /\ MaxAge \in Nat
  /\ HeartbeatTicks \in Nat /\ MaxCalls \in Nat
BY BudgetAssumption DEF MaxAge

\* A run is none of the sentinel zero.
LEMMA RunsArePositive == 0 \notin Runs /\ Runs \subseteq Nat /\ Runs \subseteq 0..NumRuns
BY Budgets DEF Runs

\* Rows a claim holds are runs.
LEMMA WrittenType ==
  ASSUME NEW k \in ClaimViews
  PROVE  Written(k) \subseteq Runs
BY Budgets DEF ClaimViews, Written, Runs

\* Marking rows as changed keeps every claim a claim.
LEMMA TouchedType ==
  ASSUME claims \in [Claimers -> ClaimViews], NEW rows
  PROVE  TouchedClaims(rows) \in [Claimers -> ClaimViews]
<1>1. ASSUME NEW c \in Claimers, claims[c].open
      PROVE  [claims[c] EXCEPT !.stale = @ \cup (rows \cap Written(claims[c]))]
               \in ClaimViews
  <2>1. claims[c] \in ClaimViews
    OBVIOUS
  <2>2. rows \cap Written(claims[c]) \subseteq Runs
    BY <2>1, WrittenType
  <2>3. claims[c].stale \cup (rows \cap Written(claims[c])) \in SUBSET Runs
    BY <2>1, <2>2 DEF ClaimViews
  <2> QED
    BY <2>1, <2>3 DEF ClaimViews
<1> QED
  BY <1>1 DEF TouchedClaims

\* Dropping leaves a grant state.
LEMMA DropType == \A g \in Grants : Drop(g) \in Grants
BY DEF Grants, Drop

\* Counting down stays within the same bound.
LEMMA LessType ==
  \A n \in Nat :
    Less(n) \in Nat /\ \A m \in Nat : n \in 0..m => Less(n) \in 0..m
BY DEF Less

-----------------------------------------------------------------------------
(* Types. Every action moves few variables; the others keep theirs. *)

\* The tables start well typed.
LEMMA TypeInit == Init => TypeOK
<1> SUFFICES ASSUME Init PROVE TypeOK
  OBVIOUS
<1>1. NoClaim \in ClaimViews
  BY Budgets DEF NoClaim, ClaimViews
<1>2. claims \in [Claimers -> ClaimViews]
  BY <1>1 DEF Init
<1>3. MaxAge \in Nat /\ HeartbeatTicks \in Nat /\ MaxCalls \in Nat
  BY Budgets
<1>4. /\ 0 \in Nat /\ 0 \in 0..MaxAge /\ 0 \in 0..HeartbeatTicks
      /\ 0 \in 0..MaxCalls
  BY <1>3
<1>5. /\ status \in [Runs -> Statuses] /\ grant \in [Runs -> Grants]
      /\ conv \in [Runs -> Conversations \cup {NoConversation}]
      /\ archive \in [Conversations -> {"open", "checked", "archived"}]
  BY DEF Init, Statuses, Grants
<1>6. /\ expiry \in [Runs -> Nat] /\ age \in [Runs -> 0..MaxAge]
      /\ calls \in [Runs -> 0..MaxCalls] /\ beat \in 0..HeartbeatTicks
  BY <1>4 DEF Init
<1>7. /\ cap \in [Runs -> BOOLEAN] /\ settled \in [Runs -> BOOLEAN]
      /\ facts \in [Runs -> SUBSET Facts] /\ hold \in BOOLEAN
      /\ refusing \in [Runs -> SUBSET Facts]
  BY DEF Init
<1> QED
  BY <1>2, <1>5, <1>6, <1>7 DEF TypeOK

\* A message keeps the types.
LEMMA TypeSend ==
  ASSUME TypeOK, NEW r \in Runs, NEW c \in Conversations, Send(r, c)
  PROVE  TypeOK'
<1>1. QueueExpires \in Nat
  BY Budgets
<1> QED
  BY <1>1 DEF TypeOK, Send, Statuses, Grants, aside

\* So does a cancel,
LEMMA TypeCancel ==
  ASSUME TypeOK, NEW r \in Runs, Cancel(r)
  PROVE  TypeOK'
<1>1. claims' \in [Claimers -> ClaimViews]
  BY TouchedType DEF TypeOK, Cancel
<1>2. grant' \in [Runs -> Grants]
  BY DropType DEF TypeOK, Cancel
<1>3. status' \in [Runs -> Statuses] /\ expiry' \in [Runs -> Nat]
  BY DEF TypeOK, Cancel, Statuses
<1> QED
  BY <1>1, <1>2, <1>3 DEF TypeOK, Cancel, aside

\* and the three steps of archiving a conversation.
LEMMA TypeArchive ==
  ASSUME TypeOK, NEW c \in Conversations,
         ArchiveCheck(c) \/ ArchiveSave(c) \/ RestoreSession(c)
  PROVE  TypeOK'
BY DEF TypeOK, ArchiveCheck, ArchiveSave, RestoreSession, runVars

\* What a claim takes from its view.
LEMMA PickFacts ==
  ASSUME NEW pick \in ClaimPick, pick # 0
  PROVE  LET active == ClaimActive \ (Oldest(LeaseExpired) \cup Oldest(InputExpired))
         IN  /\ pick \in Runs /\ status[pick] = "Queued"
             /\ ~(Cardinality(active) >= SiteConcurrency)
             /\ \A s \in active : OwnerOf(s) # OwnerOf(pick)
<1> DEFINE active == ClaimActive \ (Oldest(LeaseExpired) \cup Oldest(InputExpired))
           candidates == {r \in Runs : /\ status[r] = "Queued"
                                       /\ expiry[r] > 0
                                       /\ \A s \in active : OwnerOf(s) # OwnerOf(r)}
<1>1. ~(Cardinality(active) >= SiteConcurrency) /\ pick \in candidates
  <2>1. ClaimPick = IF candidates = {} \/ Cardinality(active) >= SiteConcurrency
                    THEN {0}
                    ELSE {r \in candidates : \A s \in candidates : r <= s}
    BY DEF ClaimPick
  <2> HIDE DEF candidates, active
  <2> QED
    BY <2>1
<1> QED
  BY <1>1

\* The pick is a run or nothing.
LEMMA PickType == ClaimPick \subseteq 0..NumRuns
<1> SUFFICES ASSUME NEW pick \in ClaimPick, pick # 0 PROVE pick \in 0..NumRuns
  BY Budgets
<1> QED
  BY PickFacts, RunsArePositive

\* What claim_run reads is a claim's view.
LEMMA ViewType ==
  ASSUME NEW pick \in ClaimPick
  PROVE  [open |-> TRUE, queued |-> Oldest(QueueExpired),
          leases |-> Oldest(LeaseExpired), inputs |-> Oldest(InputExpired),
          pick |-> pick, age |-> 0, stale |-> {}] \in ClaimViews
<1>1. /\ Oldest(QueueExpired) \subseteq Runs
      /\ Oldest(LeaseExpired) \subseteq Runs
      /\ Oldest(InputExpired) \subseteq Runs
  BY DEF Oldest, QueueExpired, LeaseExpired, InputExpired
<1>2. pick \in 0..NumRuns /\ 0 \in 0..ClaimAck
  BY PickType, Budgets
<1> QED
  BY <1>1, <1>2 DEF ClaimViews

\* The claim's view keeps the types,
LEMMA TypeClaimBegin ==
  ASSUME TypeOK, NEW c \in Claimers, ClaimBegin(c)
  PROVE  TypeOK'
<1>1. claims' \in [Claimers -> ClaimViews]
  BY ViewType DEF TypeOK, ClaimBegin
<1>2. beat' \in 0..HeartbeatTicks
  BY Budgets DEF ClaimBegin
<1> QED
  BY <1>1, <1>2 DEF TypeOK, ClaimBegin, runVars

\* its writes do, whatever it decided,
LEMMA TypeClaimCommit ==
  ASSUME TypeOK, NEW c \in Claimers, NEW outcome \in Statuses,
         ClaimCommit(c, outcome)
  PROVE  TypeOK'
<1>1. claims[c] \in ClaimViews
  BY DEF TypeOK
<1>2. claims' \in [Claimers -> ClaimViews]
  <2>1. NoClaim \in ClaimViews
    BY Budgets DEF NoClaim, ClaimViews
  <2>2. TouchedClaims(Written(claims[c])) \in [Claimers -> ClaimViews]
    BY TouchedType DEF TypeOK
  <2> QED
    BY <2>1, <2>2 DEF ClaimCommit
<1>3. status' \in [Runs -> Statuses]
  BY DEF TypeOK, ClaimCommit, Statuses
<1>4. cap' \in [Runs -> BOOLEAN]
  BY DEF TypeOK, ClaimCommit
<1>5. expiry' \in [Runs -> Nat]
  <2>1. ClaimAck - claims[c].age \in Nat
    BY <1>1, Budgets DEF ClaimViews
  <2> QED
    BY <2>1 DEF TypeOK, ClaimCommit
<1>6. age' \in [Runs -> 0..MaxAge]
  BY Budgets DEF TypeOK, ClaimCommit
<1>7. grant' \in [Runs -> Grants]
  BY DropType DEF TypeOK, ClaimCommit
<1> QED
  BY <1>2, <1>3, <1>4, <1>5, <1>6, <1>7 DEF TypeOK, ClaimCommit, aside

\* and its rollback.
LEMMA TypeClaimAbort ==
  ASSUME TypeOK, NEW c \in Claimers, ClaimAbort(c)
  PROVE  TypeOK'
<1>1. NoClaim \in ClaimViews
  BY Budgets DEF NoClaim, ClaimViews
<1>2. grant' \in [Runs -> Grants]
  BY DropType DEF TypeOK, ClaimAbort
<1> QED
  BY <1>1, <1>2 DEF TypeOK, ClaimAbort, aside

\* A claim's three ends are one commit with different outcomes.
LEMMA ClaimEnds ==
  ASSUME NEW c \in Claimers, ClaimNothing(c) \/ ClaimRun(c) \/ ClaimRefuse(c)
  PROVE  \E outcome \in {"None", "Running", "Failed"} :
           /\ ClaimCommit(c, outcome)
           /\ outcome = "None" => claims[c].pick = 0
BY DEF ClaimNothing, ClaimRun, ClaimRefuse

\* Whatever an executor asks for, the types are kept.
LEMMA TypeExecutor ==
  ASSUME TypeOK, NEW r \in Runs, ExecutorStep(r)
  PROVE  TypeOK'
<1> USE DEF aside
<1>1. ASSUME claims' = TouchedClaims({r}) \/ claims' = claims
      PROVE  claims' \in [Claimers -> ClaimViews]
  BY <1>1, TouchedType DEF TypeOK
<1>2. CASE RenewLease(r)
  BY <1>1, <1>2, Budgets DEF TypeOK, RenewLease
<1>3. CASE ReserveModelCall(r)
  <2>1. calls[r] + 1 \in 0..MaxCalls
    BY <1>3, Budgets DEF TypeOK, ReserveModelCall, MaySpend
  <2> QED
    BY <1>1, <1>3, <2>1 DEF TypeOK, ReserveModelCall
<1>4. CASE OverBudget(r) \/ RefuseTool(r) \/ DetectLoop(r)
  <2>1. ASSUME NEW fact \in Facts, Refuse(r, fact)
        PROVE  TypeOK'
    BY <2>1 DEF TypeOK, Refuse, runVars
  <2> QED
    BY <1>4, <2>1 DEF OverBudget, RefuseTool, DetectLoop, Facts
<1>5. CASE RecordRefusal(r) \/ ReportTimeout(r)
  BY <1>5 DEF TypeOK, RecordRefusal, ReportTimeout, Facts
<1>6. CASE ReadSource(r)
  BY <1>1, <1>6 DEF TypeOK, ReadSource, Facts
<1>7. CASE RequestInput(r)
  BY <1>1, <1>7 DEF TypeOK, RequestInput, Statuses
<1>8. ASSUME NEW asked \in {"Succeeded", "Failed", "Cancelled", "NeedsInput"},
             Finish(r, asked)
      PROVE  TypeOK'
  <2>1. Verdict(r, asked) \in Statuses
    BY DEF Verdict, Ruling, Statuses
  <2>2. grant' \in [Runs -> Grants]
    BY <1>8, DropType DEF TypeOK, Finish
  <2>3. age' \in [Runs -> 0..MaxAge]
    BY <1>8, Budgets DEF TypeOK, Finish
  <2> QED
    BY <1>1, <1>8, <2>1, <2>2, <2>3 DEF TypeOK, Finish
<1> QED
  BY <1>2, <1>3, <1>4, <1>5, <1>6, <1>7, <1>8 DEF ExecutorStep

\* A tick keeps the types.
LEMMA TypeTick ==
  ASSUME TypeOK, Tick
  PROVE  TypeOK'
<1>1. expiry' \in [Runs -> Nat] /\ beat' \in 0..HeartbeatTicks
  BY Budgets DEF TypeOK, Tick, Less
<1>2. age' \in [Runs -> 0..MaxAge]
  <2>1. ASSUME NEW r \in Runs, age[r] < MaxAge PROVE age[r] + 1 \in 0..MaxAge
    BY <2>1, Budgets DEF TypeOK
  <2> QED
    BY <2>1 DEF TypeOK, Tick
<1>3. claims' \in [Claimers -> ClaimViews]
  <2>1. ASSUME NEW c \in Claimers, claims[c].age < ClaimAck
        PROVE  [claims[c] EXCEPT !.age = @ + 1] \in ClaimViews
    <3>1. claims[c] \in ClaimViews
      BY DEF TypeOK
    <3>2. claims[c].age + 1 \in 0..ClaimAck
      BY <2>1, <3>1, Budgets DEF ClaimViews
    <3> QED
      BY <3>1, <3>2 DEF ClaimViews
  <2> QED
    BY <2>1 DEF TypeOK, Tick
<1> QED
  BY <1>1, <1>2, <1>3 DEF TypeOK, Tick

\* The surroundings keep the types.
LEMMA TypeOthers ==
  ASSUME TypeOK,
         \/ \E r \in Runs : LoseGrant(r)
         \/ WorkerHeartbeat \/ ClaimHeld \/ OpenHold \/ EndHold
         \/ UNCHANGED vars
  PROVE  TypeOK'
<1> USE DEF TypeOK, runVars, aside
<1>1. ASSUME NEW r \in Runs, LoseGrant(r) PROVE TypeOK'
  BY <1>1 DEF LoseGrant, Grants
<1>2. CASE WorkerHeartbeat \/ ClaimHeld
  BY <1>2, Budgets DEF WorkerHeartbeat, ClaimHeld
<1>3. CASE OpenHold \/ EndHold
  BY <1>3 DEF OpenHold, EndHold
<1>4. CASE UNCHANGED vars
  BY <1>4 DEF vars
<1> QED
  BY <1>1, <1>2, <1>3, <1>4

\* Every step keeps the types.
LEMMA TypeStep ==
  ASSUME TypeOK, [Next]_vars
  PROVE  TypeOK'
<1>1. ASSUME NEW c \in Claimers, ClaimStep(c) PROVE TypeOK'
  <2>1. CASE ClaimNothing(c) \/ ClaimRun(c) \/ ClaimRefuse(c)
    <3>1. {"None", "Running", "Failed"} \subseteq Statuses
      BY DEF Statuses
    <3> QED
      BY <2>1, <3>1, ClaimEnds, TypeClaimCommit
  <2> QED
    BY <1>1, <2>1, TypeClaimBegin, TypeClaimAbort DEF ClaimStep
<1> QED
  BY <1>1, TypeSend, TypeCancel, TypeArchive, TypeExecutor, TypeTick, TypeOthers
     DEF Next

\* Every variable keeps its type in every state of every instance.
THEOREM TypeCorrect == Spec => []TypeOK
<1>1. Init => TypeOK
  BY TypeInit
<1>2. TypeOK /\ [Next]_vars => TypeOK'
  BY TypeStep
<1> QED
  BY <1>1, <1>2, PTL DEF Spec

-----------------------------------------------------------------------------
(***************************************************************************)
(* Room and owners. Only ClaimCommit starts a run. Every other step is      *)
(* quiet: it starts none, moves at most the rows it marks in the open       *)
(* claims, and leaves those claims' views alone.                            *)
(***************************************************************************)
SameView(k, l) ==
  /\ l.queued = k.queued /\ l.leases = k.leases /\ l.inputs = k.inputs
  /\ l.pick = k.pick

QuietClaims(rows) ==
  \A c \in Claimers : claims'[c].open =>
    /\ claims[c].open
    /\ SameView(claims[c], claims'[c])
    /\ claims[c].stale \cup (rows \cap Written(claims[c])) \subseteq claims'[c].stale

QuietRows(rows) ==
  \A r \in Runs : status[r] # "None" =>
    /\ status'[r] # "None" /\ conv'[r] = conv[r]
    /\ r \notin rows => status'[r] = status[r] /\ cap'[r] = cap[r]

Quiet(rows) ==
  QuietClaims(rows) /\ QuietRows(rows) /\ InFlightRuns' \subseteq InFlightRuns

Exclusive == \A c, d \in Claimers : claims[c].open /\ claims[d].open => c = d

\* What is in flight can be counted, and a part of it is no larger.
LEMMA FiniteRuns ==
  /\ IsFiniteSet(InFlightRuns)
  /\ \A S \in SUBSET InFlightRuns :
       /\ IsFiniteSet(S) /\ Cardinality(S) \in Nat
       /\ Cardinality(S) <= Cardinality(InFlightRuns)
<1>1. IsFiniteSet(Runs)
  BY Budgets, FS_Interval DEF Runs
<1>2. InFlightRuns \in SUBSET Runs
  BY DEF InFlightRuns
<1>3. IsFiniteSet(InFlightRuns)
  BY <1>1, <1>2, FS_Subset
<1> QED
  BY <1>3, FS_Subset, FS_CardinalityType

\* Marking rows in the open claims leaves their views as they were.
LEMMA TouchedQuiet ==
  ASSUME claims \in [Claimers -> ClaimViews], NEW rows,
         claims' = TouchedClaims(rows) \/ (claims' = claims /\ rows = {})
  PROVE  QuietClaims(rows)
<1> SUFFICES ASSUME NEW c \in Claimers, claims'[c].open
             PROVE  /\ claims[c].open
                    /\ SameView(claims[c], claims'[c])
                    /\ claims[c].stale \cup (rows \cap Written(claims[c]))
                         \subseteq claims'[c].stale
  BY DEF QuietClaims
<1>1. claims[c] \in ClaimViews
  OBVIOUS
<1>2. CASE claims' = claims /\ rows = {}
  BY <1>1, <1>2 DEF SameView
<1>3. CASE claims' = TouchedClaims(rows)
  <2> DEFINE stale == claims[c].stale \cup (rows \cap Written(claims[c]))
  <2>1. claims'[c] = IF claims[c].open
                     THEN [claims[c] EXCEPT !.stale = stale] ELSE claims[c]
    BY <1>3 DEF TouchedClaims
  <2> HIDE DEF stale
  <2>2. claims[c].open
    BY <1>1, <2>1 DEF ClaimViews
  <2>3. SameView(claims[c], claims'[c]) /\ claims'[c].stale = stale
    BY <1>1, <2>1, <2>2 DEF ClaimViews, SameView
  <2> QED
    BY <2>2, <2>3 DEF stale
<1> QED
  BY <1>2, <1>3

\* A quiet step keeps what the open claims rest on.
LEMMA QuietKeepsClaims ==
  ASSUME TypeOK, TypeOK', ClaimInvariant, NEW rows, Quiet(rows)
  PROVE  /\ Exclusive'
         /\ \A c \in Claimers : claims'[c].open =>
              ViewInv(claims[c])' /\ RoomInv(claims[c])'
<1>1. Exclusive'
  BY DEF ClaimInvariant, Exclusive, Quiet, QuietClaims
<1>2. ASSUME NEW c \in Claimers, claims'[c].open
      PROVE  ViewInv(claims[c])' /\ RoomInv(claims[c])'
  <2> DEFINE k == claims[c]
             l == claims'[c]
  <2>1. /\ k.open /\ SameView(k, l)
        /\ k.stale \cup (rows \cap Written(k)) \subseteq l.stale
    BY <1>2 DEF Quiet, QuietClaims
  <2>2. k \in ClaimViews /\ Written(k) \subseteq Runs /\ Written(l) = Written(k)
    BY <2>1, WrittenType DEF TypeOK, SameView, Written
  <2>3. ViewInv(k) /\ RoomInv(k)
    BY <2>1 DEF ClaimInvariant
  <2>4. ASSUME NEW r \in Written(k)
        PROVE  /\ r \in Runs /\ status[r] # "None" /\ status'[r] # "None"
               /\ conv'[r] = conv[r]
               /\ r \notin l.stale =>
                    r \notin k.stale /\ status'[r] = status[r] /\ cap'[r] = cap[r]
    BY <2>1, <2>2, <2>3 DEF ViewInv, Quiet, QuietRows
  <2>5. ViewInv(claims[c])'
    <3>1. \A r \in Written(l) : status'[r] # "None"
      BY <2>2, <2>4
    <3>2. /\ l.queued \subseteq Written(k) /\ l.leases \subseteq Written(k)
          /\ l.inputs \subseteq Written(k) /\ ({l.pick} \ {0}) \subseteq Written(k)
      BY <2>1 DEF SameView, Written
    <3>3. \A r \in (l.queued \cup ({l.pick} \ {0})) \ l.stale : status'[r] = "Queued"
      BY <2>1, <2>3, <2>4, <3>2 DEF SameView, ViewInv
    <3>4. \A r \in l.leases \ l.stale : status'[r] \in Executable
      BY <2>1, <2>3, <2>4, <3>2 DEF SameView, ViewInv
    <3>5. \A r \in l.inputs \ l.stale : status'[r] = "NeedsInput" /\ cap'[r]
      BY <2>1, <2>3, <2>4, <3>2 DEF SameView, ViewInv
    <3> QED
      BY <3>1, <3>3, <3>4, <3>5 DEF ViewInv, Written
  <2>6. RoomInv(claims[c])'
    <3> DEFINE stay == InFlightRuns' \ (l.leases \cup l.inputs)
    <3> SUFFICES ASSUME l.pick # 0
                 PROVE  /\ Cardinality(stay) < SiteConcurrency
                        /\ \A r \in stay : Owner[conv'[r]] # Owner[conv'[l.pick]]
      BY DEF RoomInv, StayingRuns, OwnerOf
    <3>1. stay \subseteq StayingRuns(k)
      BY <2>1 DEF StayingRuns, SameView, Quiet
    <3>2. StayingRuns(k) \subseteq InFlightRuns /\ k.pick = l.pick
      BY <2>1 DEF StayingRuns, SameView
    <3>3. /\ Cardinality(StayingRuns(k)) < SiteConcurrency
          /\ \A r \in StayingRuns(k) : OwnerOf(r) # OwnerOf(k.pick)
      BY <2>3, <3>2 DEF RoomInv
    <3>4. /\ IsFiniteSet(StayingRuns(k)) /\ Cardinality(StayingRuns(k)) \in Nat
      BY <3>2, FiniteRuns
    <3>5. /\ Cardinality(stay) <= Cardinality(StayingRuns(k))
          /\ Cardinality(stay) \in Nat
      BY <3>1, <3>4, FS_Subset, FS_CardinalityType
    <3>6. conv'[l.pick] = conv[k.pick]
      BY <2>1, <2>4, <3>2 DEF Written, SameView
    <3>7. \A r \in StayingRuns(k) : conv'[r] = conv[r]
      BY <3>2 DEF InFlightRuns, InFlight, Executable, Quiet, QuietRows
    <3> HIDE DEF stay
    <3> QED
      BY <3>1, <3>2, <3>3, <3>4, <3>5, <3>6, <3>7, Budgets DEF OwnerOf
  <2> QED
    BY <2>5, <2>6
<1> QED
  BY <1>1, <1>2

\* A quiet step adds no run to those in flight.
LEMMA QuietKeepsRoom ==
  ASSUME NEW rows, Quiet(rows), SiteCapacity, OwnerExclusive
  PROVE  SiteCapacity' /\ OwnerExclusive'
<1>1. InFlightRuns' \in SUBSET InFlightRuns
  BY DEF Quiet
<1>2. SiteCapacity'
  <2>1. Cardinality(InFlightRuns') <= Cardinality(InFlightRuns)
    BY <1>1, FiniteRuns
  <2>2. Cardinality(InFlightRuns') \in Nat /\ Cardinality(InFlightRuns) \in Nat
    BY <1>1, FiniteRuns
  <2> QED
    BY <2>1, <2>2, Budgets DEF SiteCapacity
<1>3. \A r \in InFlightRuns : conv'[r] = conv[r]
  BY DEF InFlightRuns, InFlight, Executable, Quiet, QuietRows
<1> QED
  BY <1>1, <1>2, <1>3 DEF OwnerExclusive, OwnerOf

\* The steps that start no claim and end none.
QuietNext ==
  \/ \E r \in Runs, c \in Conversations : Send(r, c)
  \/ \E c \in Conversations :
       ArchiveCheck(c) \/ ArchiveSave(c) \/ RestoreSession(c)
  \/ \E r \in Runs : Cancel(r) \/ ExecutorStep(r) \/ LoseGrant(r)
  \/ \E c \in Claimers : ClaimAbort(c)
  \/ WorkerHeartbeat \/ ClaimHeld \/ OpenHold \/ EndHold \/ Tick
  \/ UNCHANGED vars

\* Nothing moves but what these predicates do not look at.
LEMMA StillQuiet ==
  ASSUME TypeOK, CapabilityInv, UNCHANGED <<status, conv, cap, claims>>
  PROVE  Quiet({}) /\ CapabilityInv'
<1>1. QuietClaims({})
  BY TouchedQuiet DEF TypeOK
<1> QED
  BY <1>1 DEF Quiet, QuietRows, InFlightRuns, InFlight, CapabilityInv

\* One run moves on, is marked in the claims that saw it, and does not start.
LEMMA OneRunQuiet ==
  ASSUME TypeOK, CapabilityInv, NEW r \in Runs, conv' = conv,
         claims' = TouchedClaims({r}),
         NEW new \in Statuses \ {"None"}, status' = [status EXCEPT ![r] = new],
         NEW held \in BOOLEAN, cap' = [cap EXCEPT ![r] = held],
         new \in Executable => held,
         held => new \in Executable \cup {"NeedsInput"},
         new \in Executable \/ (new = "NeedsInput" /\ held) => InFlight(r)
  PROVE  Quiet({r}) /\ CapabilityInv'
<1>1. QuietClaims({r})
  BY TouchedQuiet DEF TypeOK
<1>2. QuietRows({r})
  BY DEF TypeOK, QuietRows
<1>3. InFlightRuns' \subseteq InFlightRuns
  BY DEF TypeOK, InFlightRuns, InFlight
<1>4. CapabilityInv'
  BY DEF TypeOK, CapabilityInv
<1> QED
  BY <1>1, <1>2, <1>3, <1>4 DEF Quiet

\* A message is queued: it starts nothing.
LEMMA SendQuiet ==
  ASSUME TypeOK, CapabilityInv, NEW r \in Runs, NEW c \in Conversations, Send(r, c)
  PROVE  Quiet({}) /\ CapabilityInv'
<1>1. QuietClaims({})
  BY TouchedQuiet DEF TypeOK, Send
<1>2. QuietRows({})
  BY DEF TypeOK, Send, QuietRows
<1>3. InFlightRuns' \subseteq InFlightRuns
  BY DEF TypeOK, Send, InFlightRuns, InFlight, Executable
<1>4. CapabilityInv'
  BY DEF TypeOK, Send, CapabilityInv, Executable
<1> QED
  BY <1>1, <1>2, <1>3, <1>4 DEF Quiet

\* A cancel starts nothing and marks its row.
LEMMA CancelQuiet ==
  ASSUME TypeOK, CapabilityInv, NEW r \in Runs, Cancel(r)
  PROVE  Quiet({r}) /\ CapabilityInv'
<1> DEFINE new == IF status[r] = "Queued" THEN "Cancelled" ELSE "Cancelling"
<1>1. cap' = [cap EXCEPT ![r] = cap[r]] /\ cap[r] \in BOOLEAN
  BY DEF TypeOK, Cancel
<1>2. status' = [status EXCEPT ![r] = new] /\ new \in Statuses \ {"None"}
  BY DEF Cancel, Statuses
<1>3. new \in Executable => cap[r] /\ InFlight(r)
  <2>1. ASSUME status[r] = "Running" PROVE cap[r] /\ InFlight(r)
    <3>1. status[r] \in Executable
      BY <2>1 DEF Executable
    <3>2. InFlight(r)
      BY <3>1 DEF InFlight
    <3>3. cap[r]
      BY <3>1 DEF CapabilityInv
    <3> QED
      BY <3>2, <3>3
  <2> QED
    BY <2>1 DEF Cancel, Executable
<1>4. cap[r] => new \in Executable \cup {"NeedsInput"}
  BY DEF Cancel, CapabilityInv, Executable
<1>5. conv' = conv /\ claims' = TouchedClaims({r}) /\ new # "NeedsInput"
  BY DEF Cancel
<1> HIDE DEF new
<1> QED
  BY <1>1, <1>2, <1>3, <1>4, <1>5, OneRunQuiet

\* No executor request starts a run.
LEMMA ExecutorQuiet ==
  ASSUME TypeOK, CapabilityInv, NEW r \in Runs, ExecutorStep(r)
  PROVE  \E rows : Quiet(rows) /\ CapabilityInv'
<1>1. ASSUME Executing(r) PROVE InFlight(r) /\ cap[r]
  BY <1>1 DEF Executing, InFlight
<1>2. ASSUME Executing(r), UNCHANGED <<status, conv, cap>>,
             claims' = TouchedClaims({r})
      PROVE  Quiet({r}) /\ CapabilityInv'
  <2>1. status' = [status EXCEPT ![r] = status[r]] /\ cap' = [cap EXCEPT ![r] = cap[r]]
    BY <1>2 DEF TypeOK
  <2>2. status[r] \in Statuses \ {"None"} /\ cap[r] \in BOOLEAN
    BY <1>2 DEF TypeOK, Executing, Executable
  <2> QED
    BY <1>1, <1>2, <2>1, <2>2, OneRunQuiet DEF Executing
<1>3. CASE RenewLease(r) \/ ReserveModelCall(r) \/ ReadSource(r)
  <2>1. Quiet({r}) /\ CapabilityInv'
    BY <1>2, <1>3 DEF RenewLease, ReserveModelCall, ReadSource
  <2> QED
    BY <2>1
<1>4. CASE \/ OverBudget(r) \/ RefuseTool(r) \/ DetectLoop(r)
           \/ RecordRefusal(r) \/ ReportTimeout(r)
  <2>1. Quiet({}) /\ CapabilityInv'
    BY <1>4, StillQuiet
       DEF OverBudget, RefuseTool, DetectLoop, RecordRefusal, ReportTimeout,
           Refuse, runVars
  <2> QED
    BY <2>1
<1>5. CASE RequestInput(r)
  <2>1. cap' = [cap EXCEPT ![r] = TRUE]
    BY <1>1, <1>5 DEF TypeOK, RequestInput
  <2>2. Quiet({r}) /\ CapabilityInv'
    BY <1>1, <1>5, <2>1, OneRunQuiet DEF RequestInput, Statuses, Executable
  <2> QED
    BY <2>2
<1>6. ASSUME NEW asked \in {"Succeeded", "Failed", "Cancelled", "NeedsInput"},
             Finish(r, asked)
      PROVE  Quiet({r}) /\ CapabilityInv'
  <2>1. Verdict(r, asked) \in (Statuses \ {"None"}) \ Executable
    BY DEF Verdict, Ruling, Statuses, Executable
  <2>2. /\ status' = [status EXCEPT ![r] = Verdict(r, asked)]
        /\ cap' = [cap EXCEPT ![r] = FALSE]
        /\ conv' = conv /\ claims' = TouchedClaims({r})
    BY <1>6 DEF Finish
  <2> QED
    BY <2>1, <2>2, OneRunQuiet
<1> QED
  BY <1>3, <1>4, <1>5, <1>6 DEF ExecutorStep

\* A rolled back claim leaves the rows alone.
LEMMA AbortQuiet ==
  ASSUME TypeOK, CapabilityInv, NEW c \in Claimers, ClaimAbort(c)
  PROVE  Quiet({}) /\ CapabilityInv'
<1>1. QuietClaims({})
  BY DEF TypeOK, ClaimAbort, NoClaim, QuietClaims, SameView
<1> QED
  BY <1>1 DEF ClaimAbort, Quiet, QuietRows, InFlightRuns, InFlight, CapabilityInv

\* Time moves no row.
LEMMA TickQuiet ==
  ASSUME TypeOK, CapabilityInv, Tick
  PROVE  Quiet({}) /\ CapabilityInv'
<1>1. QuietClaims({})
  <2> SUFFICES ASSUME NEW c \in Claimers, claims'[c].open
               PROVE  /\ claims[c].open /\ SameView(claims[c], claims'[c])
                      /\ claims[c].stale \subseteq claims'[c].stale
    BY DEF QuietClaims
  <2>1. claims[c] \in ClaimViews
    BY DEF TypeOK
  <2>2. \/ claims'[c] = claims[c]
        \/ claims'[c] = [claims[c] EXCEPT !.age = claims[c].age + 1]
    BY DEF Tick
  <2>3. CASE claims'[c] = [claims[c] EXCEPT !.age = claims[c].age + 1]
    <3> DEFINE later == claims[c].age + 1
    <3>1. claims'[c] = [claims[c] EXCEPT !.age = later]
      BY <2>3
    <3> HIDE DEF later
    <3> QED
      BY <2>1, <3>1 DEF ClaimViews, SameView
  <2> QED
    BY <2>2, <2>3 DEF SameView
<1> QED
  BY <1>1 DEF Tick, Quiet, QuietRows, InFlightRuns, InFlight, CapabilityInv

\* All steps but a claim's view and its commit are quiet.
LEMMA QuietSteps ==
  ASSUME TypeOK, CapabilityInv, QuietNext
  PROVE  \E rows : Quiet(rows) /\ CapabilityInv'
<1>1. ASSUME NEW r \in Runs, Cancel(r) \/ ExecutorStep(r) \/ LoseGrant(r)
      PROVE  \E rows : Quiet(rows) /\ CapabilityInv'
  <2>1. CASE LoseGrant(r)
    BY <2>1, StillQuiet DEF LoseGrant
  <2> QED
    BY <1>1, <2>1, CancelQuiet, ExecutorQuiet
<1>2. ASSUME NEW c \in Conversations,
             ArchiveCheck(c) \/ ArchiveSave(c) \/ RestoreSession(c)
      PROVE  Quiet({}) /\ CapabilityInv'
  BY <1>2, StillQuiet DEF ArchiveCheck, ArchiveSave, RestoreSession, runVars
<1>3. CASE \/ WorkerHeartbeat \/ ClaimHeld \/ OpenHold \/ EndHold
           \/ UNCHANGED vars
  BY <1>3, StillQuiet
     DEF WorkerHeartbeat, ClaimHeld, OpenHold, EndHold, vars, runVars
<1> QED
  BY <1>1, <1>2, <1>3, SendQuiet, AbortQuiet, TickQuiet DEF QuietNext

\* What a claim counts as busy is what is in flight (InFlight).
LEMMA StayingIsActive ==
  ASSUME NEW leases, NEW inputs
  PROVE  InFlightRuns \ (leases \cup inputs) = ClaimActive \ (leases \cup inputs)
BY DEF InFlightRuns, InFlight, ClaimActive

\* What a claim has just read, it has read.
LEMMA BeginKeepsClaims ==
  ASSUME TypeOK, ClaimInvariant, NEW c \in Claimers, ClaimBegin(c)
  PROVE  ClaimInvariant'
<1> PICK pick \in ClaimPick :
      claims' = [claims EXCEPT ![c] =
         [open |-> TRUE, queued |-> Oldest(QueueExpired),
          leases |-> Oldest(LeaseExpired), inputs |-> Oldest(InputExpired),
          pick |-> pick, age |-> 0, stale |-> {}]]
  BY DEF ClaimBegin
<1> DEFINE k == [open |-> TRUE, queued |-> Oldest(QueueExpired),
          leases |-> Oldest(LeaseExpired), inputs |-> Oldest(InputExpired),
          pick |-> pick, age |-> 0, stale |-> {}]
<1>1. claims'[c] = k /\ \A d \in Claimers \ {c} : claims'[d] = claims[d]
  BY DEF TypeOK
<1>2. \A d \in Claimers : claims'[d].open => d = c
  BY <1>1 DEF ClaimBegin, ClaimsUnlocked
<1>3. UNCHANGED <<status, conv, cap>>
  BY DEF ClaimBegin, runVars
<1>4. CapabilityInv'
  BY <1>3 DEF ClaimInvariant, CapabilityInv
<1>5. ViewInv(k)
  <2>1. /\ \A r \in Oldest(QueueExpired) : status[r] = "Queued"
        /\ \A r \in Oldest(LeaseExpired) : status[r] \in Executable
        /\ \A r \in Oldest(InputExpired) : status[r] = "NeedsInput" /\ cap[r]
    BY DEF Oldest, QueueExpired, LeaseExpired, InputExpired
  <2>2. pick # 0 => status[pick] = "Queued"
    BY PickFacts
  <2> QED
    BY <2>1, <2>2 DEF ViewInv, Written, Executable
<1>6. RoomInv(k)
  <2> SUFFICES ASSUME pick # 0
               PROVE  /\ Cardinality(StayingRuns(k)) < SiteConcurrency
                      /\ \A r \in StayingRuns(k) : OwnerOf(r) # OwnerOf(pick)
    BY DEF RoomInv
  <2>1. StayingRuns(k)
          = ClaimActive \ (Oldest(LeaseExpired) \cup Oldest(InputExpired))
    BY StayingIsActive DEF StayingRuns
  <2>2. Cardinality(StayingRuns(k)) \in Nat
    BY FiniteRuns DEF StayingRuns
  <2> DEFINE stay == StayingRuns(k)
  <2>3. /\ ~(Cardinality(stay) >= SiteConcurrency)
        /\ \A r \in stay : OwnerOf(r) # OwnerOf(pick)
    BY <2>1, PickFacts
  <2> HIDE DEF stay
  <2>4. Cardinality(stay) < SiteConcurrency
    BY <2>2, <2>3, Budgets DEF stay
  <2> QED
    BY <2>3, <2>4 DEF stay
<1>7. ViewInv(claims[c])' /\ RoomInv(claims[c])'
  BY <1>1, <1>3, <1>5, <1>6
     DEF ViewInv, RoomInv, StayingRuns, InFlightRuns, InFlight, OwnerOf, Written
<1> QED
  BY <1>2, <1>4, <1>7 DEF ClaimInvariant

\* What a commit makes of each row: swept, asked for input and forgotten, handed
\* out or given up, or left alone.
LEMMA CommitRows ==
  ASSUME TypeOK, ClaimInvariant, NEW c \in Claimers,
         NEW outcome \in {"None", "Running", "Failed"}, ClaimCommit(c, outcome),
         outcome = "None" => claims[c].pick = 0,
         NEW r \in Runs
  PROVE  \/ status'[r] = "Failed" /\ ~cap'[r]
         \/ status'[r] = "NeedsInput" /\ ~cap'[r]
         \/ r = claims[c].pick /\ status'[r] = "Running" /\ cap'[r]
         \/ /\ r \notin claims[c].leases \cup claims[c].inputs
            /\ status'[r] = status[r] /\ cap'[r] = cap[r]
<1> DEFINE k == claims[c]
<1>1. k \in ClaimViews /\ ViewInv(k) /\ FreshView(k)
  BY DEF TypeOK, ClaimInvariant, ClaimCommit
<1>2. /\ status'[r] = IF r \in k.queued \cup k.leases THEN "Failed"
                      ELSE IF r = k.pick THEN outcome ELSE status[r]
      /\ cap'[r] = IF \/ r \in k.queued \cup k.leases
                      \/ r = k.pick /\ outcome = "Failed"
                      \/ r \in k.inputs
                   THEN FALSE
                   ELSE IF r = k.pick /\ outcome = "Running" THEN TRUE ELSE cap[r]
  BY DEF ClaimCommit
<1>3. cap[r] \in BOOLEAN /\ r # 0
  BY RunsArePositive DEF TypeOK
<1>4. ASSUME r \in k.inputs PROVE status[r] = "NeedsInput" /\ r # k.pick
  <2>1. r \notin k.stale /\ k.pick \notin k.stale \ {0}
    BY <1>1, <1>4 DEF FreshView, Written
  <2> QED
    BY <1>1, <1>3, <1>4, <2>1 DEF ViewInv
<1> HIDE DEF k
<1>5. CASE r \in k.queued \cup k.leases
  BY <1>2, <1>5
<1>6. CASE r \notin k.queued \cup k.leases /\ r \in k.inputs
  BY <1>2, <1>4, <1>6
<1>7. CASE r \notin k.queued \cup k.leases \cup k.inputs /\ r = k.pick
  <2>1. outcome # "None"
    BY <1>3, <1>7 DEF k
  <2>2. CASE outcome = "Running"
    BY <1>2, <1>7, <2>2 DEF k
  <2>3. CASE outcome = "Failed"
    BY <1>2, <1>7, <2>3
  <2> QED
    BY <2>1, <2>2, <2>3
<1>8. CASE r \notin k.queued \cup k.leases \cup k.inputs /\ r # k.pick
  <2>1. status'[r] = status[r]
    BY <1>2, <1>8
  <2>2. cap'[r] = cap[r]
    BY <1>2, <1>8
  <2> QED
    BY <1>8, <2>1, <2>2 DEF k
<1> QED
  BY <1>5, <1>6, <1>7, <1>8

\* A commit leaves in flight what its sweeps spared, and the run it hands out.
LEMMA CommitFlights ==
  ASSUME TypeOK, ClaimInvariant, NEW c \in Claimers,
         NEW outcome \in {"None", "Running", "Failed"}, ClaimCommit(c, outcome),
         outcome = "None" => claims[c].pick = 0
  PROVE  /\ InFlightRuns' \subseteq
              StayingRuns(claims[c]) \cup ({claims[c].pick} \ {0})
         /\ CapabilityInv'
<1>1. ASSUME NEW r \in Runs, InFlight(r)'
      PROVE  r \in StayingRuns(claims[c]) \cup ({claims[c].pick} \ {0})
  <2>1. CASE r = claims[c].pick
    BY <2>1, RunsArePositive
  <2>2. CASE /\ r \notin claims[c].leases \cup claims[c].inputs
             /\ status'[r] = status[r] /\ cap'[r] = cap[r]
    <3>1. InFlight(r)
      BY <1>1, <2>2 DEF InFlight
    <3> QED
      BY <2>2, <3>1 DEF StayingRuns, InFlightRuns
  <2>3. \/ status'[r] \in Executable
        \/ status'[r] = "NeedsInput" /\ cap'[r]
    BY <1>1 DEF InFlight
  <2> QED
    BY <2>1, <2>2, <2>3, CommitRows DEF Executable
<1>2. ASSUME NEW r \in Runs
      PROVE  /\ status'[r] \in Executable => cap'[r]
             /\ cap'[r] => status'[r] \in Executable \cup {"NeedsInput"}
  <2>1. /\ status[r] \in Executable => cap[r]
        /\ cap[r] => status[r] \in Executable \cup {"NeedsInput"}
    BY DEF ClaimInvariant, CapabilityInv
  <2>2. CASE status'[r] = "Failed" /\ ~cap'[r]
    BY <2>2 DEF Executable
  <2>3. CASE status'[r] = "NeedsInput" /\ ~cap'[r]
    BY <2>3 DEF Executable
  <2>4. CASE status'[r] = "Running" /\ cap'[r]
    BY <2>4 DEF Executable
  <2>5. CASE status'[r] = status[r] /\ cap'[r] = cap[r]
    BY <2>1, <2>5
  <2> QED
    BY <2>2, <2>3, <2>4, <2>5, CommitRows
<1> QED
  BY <1>1, <1>2 DEF InFlightRuns, CapabilityInv

\* The commit of the only open claim leaves none open, and the run it hands out
\* takes the room and the owner that its view found free.
LEMMA CommitKeeps ==
  ASSUME TypeOK, ClaimInvariant, NEW c \in Claimers,
         NEW outcome \in {"None", "Running", "Failed"}, ClaimCommit(c, outcome),
         outcome = "None" => claims[c].pick = 0, OwnerExclusive, SiteCapacity
  PROVE  ClaimInvariant' /\ SiteCapacity' /\ OwnerExclusive'
<1> DEFINE k == claims[c]
           stay == StayingRuns(k)
           flights == InFlightRuns'
<1>1. /\ flights \subseteq stay \cup ({k.pick} \ {0})
      /\ CapabilityInv'
  BY CommitFlights
<1>2. k.open /\ k.pick \in 0..NumRuns /\ RoomInv(k)
  BY DEF TypeOK, ClaimViews, ClaimInvariant, ClaimCommit
<1>3. ASSUME NEW d \in Claimers PROVE ~claims'[d].open
  <2>1. CASE d = c
    BY <2>1 DEF ClaimCommit, TouchedClaims, NoClaim
  <2>2. CASE d # c
    <3>1. ~claims[d].open
      BY <1>2, <2>2 DEF ClaimInvariant
    <3>2. claims'[d] = claims[d]
      BY <2>2, <3>1 DEF ClaimCommit, TouchedClaims
    <3> QED
      BY <3>1, <3>2
  <2> QED
    BY <2>1, <2>2
<1>4. ClaimInvariant'
  BY <1>1, <1>3 DEF ClaimInvariant
<1>5. stay \subseteq InFlightRuns /\ conv' = conv
  BY DEF StayingRuns, ClaimCommit
<1>6. /\ IsFiniteSet(stay) /\ Cardinality(stay) \in Nat
      /\ Cardinality(stay) <= Cardinality(InFlightRuns)
      /\ Cardinality(InFlightRuns) \in Nat
  BY <1>5, FiniteRuns
<1> HIDE DEF stay, flights
<1>7. SiteCapacity'
  <2>1. CASE k.pick = 0
    <3>1. Cardinality(flights) <= Cardinality(stay) /\ Cardinality(flights) \in Nat
      BY <1>1, <1>6, <2>1, FS_Subset, FS_CardinalityType
    <3> QED
      BY <1>6, <3>1, Budgets DEF SiteCapacity, flights
  <2>2. CASE k.pick # 0
    <3>1. Cardinality(stay) < SiteConcurrency
      BY <1>2, <2>2 DEF RoomInv, stay
    <3>2. /\ IsFiniteSet(stay \cup {k.pick})
          /\ Cardinality(stay \cup {k.pick}) \in Nat
          /\ Cardinality(stay \cup {k.pick}) <= Cardinality(stay) + 1
      <4>1. /\ IsFiniteSet(stay \cup {k.pick})
            /\ Cardinality(stay \cup {k.pick}) =
                 IF k.pick \in stay THEN Cardinality(stay) ELSE Cardinality(stay) + 1
        BY <1>6, FS_AddElement
      <4> QED
        BY <1>6, <4>1
    <3>3. flights \subseteq stay \cup {k.pick}
      BY <1>1
    <3>4. Cardinality(flights) <= Cardinality(stay \cup {k.pick})
      BY <3>2, <3>3, FS_Subset
    <3>5. Cardinality(flights) \in Nat
      BY <3>2, <3>3, FS_Subset, FS_CardinalityType
    <3> QED
      BY <1>6, <3>1, <3>2, <3>4, <3>5, Budgets DEF SiteCapacity, flights
  <2> QED
    BY <2>1, <2>2
<1>8. OwnerExclusive'
  <2> SUFFICES ASSUME NEW r \in flights, NEW s \in flights,
                      Owner[conv[r]] = Owner[conv[s]]
               PROVE  r = s
    BY <1>5 DEF OwnerExclusive, OwnerOf, flights
  <2>1. \A q \in stay : k.pick # 0 => Owner[conv[q]] # Owner[conv[k.pick]]
    BY <1>2 DEF RoomInv, OwnerOf, stay
  <2>2. \A p, q \in stay : Owner[conv[p]] = Owner[conv[q]] => p = q
    BY <1>5 DEF OwnerExclusive, OwnerOf
  <2> QED
    BY <1>1, <2>1, <2>2
<1> QED
  BY <1>4, <1>7, <1>8

-----------------------------------------------------------------------------
\* The inductive invariant. SiteCapacity and OwnerExclusive are not inductive:
\* a commit starts the run its view chose, and what makes that safe is that the
\* view is still true of the runs that stay (RoomInv) and of the rows it writes
\* (ViewInv), which only holds while one claim is open at a time.
ClaimSafety == TypeOK /\ ClaimInvariant /\ SiteCapacity /\ OwnerExclusive

\* An empty Site is safe.
LEMMA SafetyInit == Init => ClaimSafety
<1> SUFFICES ASSUME Init PROVE ClaimSafety
  OBVIOUS
<1>1. TypeOK
  BY TypeInit
<1>2. InFlightRuns = {}
  BY DEF Init, InFlightRuns, InFlight, Executable
<1>3. ClaimInvariant
  BY DEF Init, ClaimInvariant, CapabilityInv, Executable, NoClaim
<1>4. SiteCapacity
  BY <1>2, FS_EmptySet, Budgets DEF SiteCapacity
<1>5. OwnerExclusive
  BY <1>2 DEF OwnerExclusive
<1> QED
  BY <1>1, <1>3, <1>4, <1>5 DEF ClaimSafety

\* One step of anyone keeps it safe.
LEMMA SafetyStep == ClaimSafety /\ [Next]_vars => ClaimSafety'
<1> SUFFICES ASSUME ClaimSafety, [Next]_vars PROVE ClaimSafety'
  OBVIOUS
<1> USE DEF ClaimSafety
<1>1. TypeOK'
  BY TypeStep
<1>2. CASE QuietNext
  <2>1. PICK rows : Quiet(rows) /\ CapabilityInv'
    BY <1>2, QuietSteps DEF ClaimInvariant
  <2>2. ClaimInvariant'
    BY <1>1, <2>1, QuietKeepsClaims DEF ClaimInvariant, Exclusive
  <2>3. SiteCapacity' /\ OwnerExclusive'
    BY <2>1, QuietKeepsRoom
  <2> QED
    BY <1>1, <2>2, <2>3
<1>3. ASSUME NEW c \in Claimers, ClaimBegin(c) PROVE ClaimSafety'
  <2>1. ClaimInvariant'
    BY <1>3, BeginKeepsClaims
  <2>2. UNCHANGED <<status, conv, cap>>
    BY <1>3 DEF ClaimBegin, runVars
  <2>3. SiteCapacity' /\ OwnerExclusive'
    BY <2>2 DEF SiteCapacity, OwnerExclusive, OwnerOf, InFlightRuns, InFlight
  <2> QED
    BY <1>1, <2>1, <2>3
<1>4. ASSUME NEW c \in Claimers, ClaimNothing(c) \/ ClaimRun(c) \/ ClaimRefuse(c)
      PROVE  ClaimSafety'
  <2>1. \E outcome \in {"None", "Running", "Failed"} :
          ClaimCommit(c, outcome) /\ (outcome = "None" => claims[c].pick = 0)
    BY <1>4 DEF ClaimNothing, ClaimRun, ClaimRefuse
  <2> QED
    BY <1>1, <2>1, CommitKeeps
<1> QED
  BY <1>2, <1>3, <1>4 DEF Next, ClaimStep, QuietNext

\* Hence it always is.
LEMMA Safety == Spec => []ClaimSafety
<1>1. Init => ClaimSafety
  BY SafetyInit
<1>2. ClaimSafety /\ [Next]_vars => ClaimSafety'
  BY SafetyStep
<1> QED
  BY <1>1, <1>2, PTL DEF Spec

\* What an open claim read still holds of the rows it is going to write, for
\* any number of runs, claims, owners and conversations (claim_run).
THEOREM ClaimViewsHold == Spec => []ClaimInvariant
<1>1. ClaimSafety => ClaimInvariant
  BY DEF ClaimSafety
<1> QED
  BY <1>1, Safety, PTL

\* However claims, cancels, finishes and sweeps interleave, a Site never has
\* more executors than dsherp_site_concurrency (claim_run).
THEOREM CapacityHolds == Spec => []SiteCapacity
<1>1. ClaimSafety => SiteCapacity
  BY DEF ClaimSafety
<1> QED
  BY <1>1, Safety, PTL

\* An owner never has two runs in flight, a question being written back
\* included (claim_run).
THEOREM OwnersAreExclusive == Spec => []OwnerExclusive
<1>1. ClaimSafety => OwnerExclusive
  BY DEF ClaimSafety
<1> QED
  BY <1>1, Safety, PTL

-----------------------------------------------------------------------------
(* What the steps do to the rows of the runs. *)

\* Drop leaves nothing that could be used.
LEMMA DroppedIsGone == \A g : Drop(g) # "held"
BY DEF Drop

\* A claim's commit sweeps a row, starts its pick, or leaves the row alone but for
\* an input's capability; the row it starts is still the queued one it saw.
RowAtCommit(r, c, outcome) ==
  \/ /\ status'[r] = status[r] /\ expiry'[r] = expiry[r] /\ grant'[r] = grant[r]
     /\ cap'[r] => cap[r]
  \/ /\ status'[r] = "Failed" /\ grant'[r] # "held"
     /\ expiry'[r] = 0 \/ status[r] = "Queued"
  \/ /\ status[r] = "Queued" /\ status'[r] = "Running"
     /\ outcome = "Running" /\ r = claims[c].pick /\ grant'[r] = grant[r]

\* A commit does that to every row.
LEMMA RowsOfCommit ==
  ASSUME TypeOK, ClaimInvariant, NEW c \in Claimers,
         NEW outcome \in {"None", "Running", "Failed"}, ClaimCommit(c, outcome),
         outcome = "None" => claims[c].pick = 0, NEW r \in Runs
  PROVE  RowAtCommit(r, c, outcome)
<1> DEFINE k == claims[c]
           swept == k.queued \cup k.leases
           closed == r \in swept \/ (r = k.pick /\ outcome = "Failed")
           started == r = k.pick /\ outcome = "Running"
<1>1. r = k.pick => status[r] = "Queued"
  BY RunsArePositive DEF ClaimInvariant, ClaimCommit, ViewInv, FreshView, Written
<1>2. r = k.pick => outcome \in {"Running", "Failed"}
  BY RunsArePositive
<1>3. /\ status'[r] = IF r \in swept THEN "Failed"
                      ELSE IF r = k.pick THEN outcome ELSE status[r]
      /\ cap'[r] = IF closed \/ r \in k.inputs THEN FALSE
                   ELSE IF started THEN TRUE ELSE cap[r]
      /\ grant'[r] = IF closed THEN Drop(grant[r]) ELSE grant[r]
  BY DEF ClaimCommit
<1>4. expiry'[r] = IF started THEN ClaimAck - k.age
                   ELSE IF closed THEN 0 ELSE expiry[r]
  BY DEF ClaimCommit
<1> HIDE DEF swept, k
<1>5. CASE closed
  BY <1>1, <1>2, <1>3, <1>4, <1>5, DroppedIsGone DEF RowAtCommit, k
<1>6. CASE ~closed /\ started
  BY <1>1, <1>3, <1>6 DEF RowAtCommit, k
<1>7. CASE ~closed /\ ~started
  <2>1. r # k.pick /\ r \notin swept
    BY <1>2, <1>7
  <2> QED
    BY <1>3, <1>4, <1>7, <2>1 DEF RowAtCommit
<1> QED
  BY <1>5, <1>6, <1>7

\* The steps that touch no run: archiving, heartbeats, windows, the beginning of
\* a claim, and a refusal that is not committed yet.
LEMMA BesideRuns ==
  ASSUME \/ \E c \in Conversations :
              ArchiveCheck(c) \/ ArchiveSave(c) \/ RestoreSession(c)
         \/ WorkerHeartbeat \/ ClaimHeld \/ OpenHold \/ EndHold
         \/ \E c \in Claimers : ClaimBegin(c)
         \/ \E r \in Runs : OverBudget(r) \/ RefuseTool(r) \/ DetectLoop(r)
         \/ UNCHANGED vars
  PROVE  UNCHANGED runVars
BY DEF ArchiveCheck, ArchiveSave, RestoreSession, WorkerHeartbeat, ClaimHeld,
       OpenHold, EndHold, ClaimBegin, OverBudget, RefuseTool, DetectLoop, Refuse,
       vars

\* What an executor may write back, and a claim that commits.
Asked == {"Succeeded", "Failed", "Cancelled", "NeedsInput"}

Commits ==
  \E c \in Claimers, outcome \in {"None", "Running", "Failed"} :
    /\ ClaimCommit(c, outcome)
    /\ outcome = "None" => claims[c].pick = 0
    /\ outcome = "Running" => ActorAllowed(claims[c].pick)

\* A step of anyone is one of these.
LEMMA StepsByRows ==
  ASSUME [Next]_vars
  PROVE  \/ UNCHANGED runVars
         \/ \E r \in Runs, c \in Conversations : Send(r, c)
         \/ \E r \in Runs : Cancel(r) \/ LoseGrant(r) \/ RenewLease(r)
                \/ ReserveModelCall(r) \/ RecordRefusal(r) \/ ReportTimeout(r)
                \/ ReadSource(r) \/ RequestInput(r)
         \/ \E r \in Runs, asked \in Asked : Finish(r, asked)
         \/ Commits
         \/ \E c \in Claimers : ClaimAbort(c)
         \/ Tick
<1>1. CASE UNCHANGED vars
  BY <1>1, BesideRuns
<1>2. CASE Next
  <2>1. ASSUME NEW r \in Runs, ExecutorStep(r)
        PROVE  \/ UNCHANGED runVars
               \/ RenewLease(r) \/ ReserveModelCall(r) \/ RecordRefusal(r)
               \/ ReportTimeout(r) \/ ReadSource(r) \/ RequestInput(r)
               \/ \E asked \in Asked : Finish(r, asked)
    BY <2>1, BesideRuns DEF ExecutorStep, Asked
  <2>2. ASSUME NEW c \in Claimers, ClaimStep(c)
        PROVE  UNCHANGED runVars \/ Commits \/ ClaimAbort(c)
    BY <2>2, BesideRuns DEF ClaimStep, ClaimNothing, ClaimRun, ClaimRefuse, Commits
  <2> QED
    BY <1>2, <2>1, <2>2, BesideRuns DEF Next
<1> QED
  BY <1>1, <1>2

-----------------------------------------------------------------------------
(* Authorizations. *)

\* Whoever ends a run takes its authorization off file.
LEMMA GrantStep == ClaimSafety /\ GrantDropped /\ [Next]_vars => GrantDropped'
<1> SUFFICES ASSUME ClaimSafety, GrantDropped, [Next]_vars,
                    NEW r \in Runs, status'[r] \in Terminal
             PROVE  grant'[r] # "held"
  BY DEF GrantDropped
<1> USE DEF ClaimSafety
<1>1. CASE UNCHANGED runVars
  BY <1>1 DEF runVars, GrantDropped
<1>2. ASSUME NEW s \in Runs, NEW c \in Conversations, Send(s, c)
      PROVE  grant'[r] # "held"
  BY <1>2 DEF Send, TypeOK, GrantDropped, Terminal
<1>3. ASSUME NEW s \in Runs, Cancel(s) PROVE grant'[r] # "held"
  BY <1>3, DroppedIsGone DEF Cancel, TypeOK, GrantDropped, Terminal
<1>4. ASSUME NEW s \in Runs, LoseGrant(s) PROVE grant'[r] # "held"
  BY <1>4 DEF LoseGrant, TypeOK, GrantDropped
<1>5. ASSUME NEW s \in Runs,
             \/ RenewLease(s) \/ ReserveModelCall(s) \/ RecordRefusal(s)
             \/ ReportTimeout(s) \/ ReadSource(s)
      PROVE  grant'[r] # "held"
  BY <1>5 DEF RenewLease, ReserveModelCall, RecordRefusal, ReportTimeout, ReadSource,
              GrantDropped
<1>6. ASSUME NEW s \in Runs, RequestInput(s) PROVE grant'[r] # "held"
  BY <1>6 DEF RequestInput, TypeOK, GrantDropped, Terminal
<1>7. ASSUME NEW s \in Runs, NEW asked \in Asked, Finish(s, asked)
      PROVE  grant'[r] # "held"
  BY <1>7, DroppedIsGone DEF Finish, TypeOK, GrantDropped
<1>8. CASE Commits
  <2>1. PICK c \in Claimers, outcome \in {"None", "Running", "Failed"} :
          ClaimCommit(c, outcome) /\ (outcome = "None" => claims[c].pick = 0)
    BY <1>8 DEF Commits
  <2>2. RowAtCommit(r, c, outcome)
    BY <2>1, RowsOfCommit
  <2> QED
    BY <2>2 DEF RowAtCommit, GrantDropped, Terminal
<1>9. ASSUME NEW c \in Claimers, ClaimAbort(c) PROVE grant'[r] # "held"
  <2>1. status'[r] = status[r] /\ (grant'[r] = grant[r] \/ grant'[r] = Drop(grant[r]))
    BY <1>9 DEF ClaimAbort
  <2> QED
    BY <2>1, DroppedIsGone DEF GrantDropped
<1>10. CASE Tick
  BY <1>10 DEF Tick, GrantDropped
<1> QED
  BY <1>1, <1>2, <1>3, <1>4, <1>5, <1>6, <1>7, <1>8, <1>9, <1>10, StepsByRows

\* However a run ends (finish_run, either sweep, a refusal at its claim, a
\* cancel in the queue), its member's authorization is not on file afterwards.
THEOREM GrantsAreDropped == Spec => []GrantDropped
<1>1. Init => GrantDropped
  BY DEF Init, GrantDropped, Terminal
<1>2. ClaimSafety /\ GrantDropped /\ [Next]_vars => GrantDropped'
  BY GrantStep
<1> QED
  BY <1>1, <1>2, Safety, PTL DEF Spec

-----------------------------------------------------------------------------
(* Stops. *)

\* What a run is concluded with, whatever its executor asked for.
LEMMA Verdicts ==
  ASSUME NEW r, NEW asked \in Asked, MayFinish(r, asked)
  PROVE  /\ Verdict(r, asked) \in Terminal \cup {"NeedsInput"}
         /\ status[r] = "Cancelling"
              => Verdict(r, asked) \in {"Cancelled", "Failed", "BudgetExceeded"}
BY DEF Asked, MayFinish, Verdict, Ruling, Terminal

\* Once a stop was asked for, no step makes an answer or a question of the run.
LEMMA StopStep ==
  ASSUME ClaimSafety, [Next]_vars, NEW r \in Runs, status[r] = "Cancelling"
  PROVE  status'[r] \in {"Cancelling", "Cancelled", "Failed", "BudgetExceeded"}
<1>1. CASE UNCHANGED runVars
  BY <1>1 DEF runVars
<1>2. ASSUME NEW s \in Runs, NEW c \in Conversations, Send(s, c)
      PROVE  status'[r] = status[r]
  BY <1>2 DEF Send, ClaimSafety, TypeOK
<1>3. ASSUME NEW s \in Runs, Cancel(s) PROVE status'[r] = status[r]
  BY <1>3 DEF Cancel, ClaimSafety, TypeOK
<1>4. ASSUME NEW s \in Runs,
             \/ LoseGrant(s) \/ RenewLease(s) \/ ReserveModelCall(s)
             \/ RecordRefusal(s) \/ ReportTimeout(s) \/ ReadSource(s)
      PROVE  status'[r] = status[r]
  BY <1>4 DEF LoseGrant, RenewLease, ReserveModelCall, RecordRefusal, ReportTimeout,
              ReadSource
<1>5. ASSUME NEW s \in Runs, RequestInput(s) PROVE status'[r] = status[r]
  BY <1>5 DEF RequestInput, ClaimSafety, TypeOK
<1>6. ASSUME NEW s \in Runs, NEW asked \in Asked, Finish(s, asked)
      PROVE  status'[r] \in {"Cancelling", "Cancelled", "Failed", "BudgetExceeded"}
  <2>1. MayFinish(s, asked) /\ status' = [status EXCEPT ![s] = Verdict(s, asked)]
    BY <1>6 DEF Finish
  <2> QED
    BY <2>1, Verdicts DEF ClaimSafety, TypeOK
<1>7. CASE Commits
  <2>1. PICK c \in Claimers, outcome \in {"None", "Running", "Failed"} :
          ClaimCommit(c, outcome) /\ (outcome = "None" => claims[c].pick = 0)
    BY <1>7 DEF Commits
  <2>2. RowAtCommit(r, c, outcome)
    BY <2>1, RowsOfCommit DEF ClaimSafety
  <2> QED
    BY <2>2 DEF RowAtCommit
<1>8. ASSUME NEW c \in Claimers, ClaimAbort(c) PROVE status'[r] = status[r]
  BY <1>8 DEF ClaimAbort
<1>9. CASE Tick
  BY <1>9 DEF Tick
<1> QED
  BY <1>1, <1>2, <1>3, <1>4, <1>5, <1>6, <1>7, <1>8, <1>9, StepsByRows

\* An owner's stop is final: a success or a question written back after it is
\* recorded as the cancellation, or the run fails (cancel_run, finish_run).
THEOREM StopsAreHonoured == Spec => CancelHonoured
<1>1. ClaimSafety /\ [Next]_vars
        => [\A r \in Runs : status[r] = "Cancelling" =>
              status'[r] \in {"Cancelling", "Cancelled", "Failed", "BudgetExceeded"}
           ]_vars
  BY StopStep
<1> QED
  BY <1>1, Safety, PTL DEF Spec, CancelHonoured

-----------------------------------------------------------------------------
(* Spending. *)

\* A run whose usage was settled waits, works and stops no more.
SettledInv ==
  \A r \in Runs : settled[r] => status[r] \in Terminal \cup {"NeedsInput"}

LEMMA SettledStep == ClaimSafety /\ SettledInv /\ [Next]_vars => SettledInv'
<1> SUFFICES ASSUME ClaimSafety, SettledInv, [Next]_vars,
                    NEW r \in Runs, settled'[r]
             PROVE  status'[r] \in Terminal \cup {"NeedsInput"}
  BY DEF SettledInv
<1> DEFINE kept == settled'[r] = settled[r] /\ status'[r] = status[r]
<1>1. CASE UNCHANGED runVars
  BY <1>1 DEF runVars, SettledInv
<1>2. ASSUME NEW s \in Runs, NEW c \in Conversations, Send(s, c) PROVE kept
  <2>1. ~settled[s]
    BY <1>2 DEF Send, SettledInv, Terminal, ClaimSafety, TypeOK
  <2> QED
    BY <1>2, <2>1 DEF Send, ClaimSafety, TypeOK
<1>3. ASSUME NEW s \in Runs, Cancel(s) \/ RequestInput(s) PROVE kept
  <2>1. ~settled[s]
    BY <1>3 DEF Cancel, RequestInput, SettledInv, Terminal, ClaimSafety, TypeOK
  <2> QED
    BY <1>3, <2>1 DEF Cancel, RequestInput, ClaimSafety, TypeOK
<1>4. ASSUME NEW s \in Runs,
             \/ LoseGrant(s) \/ RenewLease(s) \/ ReserveModelCall(s)
             \/ RecordRefusal(s) \/ ReportTimeout(s) \/ ReadSource(s)
      PROVE  kept
  BY <1>4 DEF LoseGrant, RenewLease, ReserveModelCall, RecordRefusal, ReportTimeout,
              ReadSource
<1>5. ASSUME NEW s \in Runs, NEW asked \in Asked, Finish(s, asked)
      PROVE  kept \/ status'[r] \in Terminal \cup {"NeedsInput"}
  <2>1. /\ MayFinish(s, asked)
        /\ status' = [status EXCEPT ![s] = Verdict(s, asked)]
        /\ settled' = [settled EXCEPT ![s] = TRUE]
    BY <1>5 DEF Finish
  <2>2. Verdict(s, asked) \in Terminal \cup {"NeedsInput"}
    BY <2>1, Verdicts
  <2>3. CASE r = s
    BY <2>1, <2>2, <2>3 DEF ClaimSafety, TypeOK
  <2>4. CASE r # s
    BY <2>1, <2>4 DEF ClaimSafety, TypeOK
  <2> QED
    BY <2>3, <2>4
<1>6. CASE Commits
  <2>1. PICK c \in Claimers, outcome \in {"None", "Running", "Failed"} :
          ClaimCommit(c, outcome) /\ (outcome = "None" => claims[c].pick = 0)
    BY <1>6 DEF Commits
  <2>2. settled[r] /\ RowAtCommit(r, c, outcome)
    BY <2>1, RowsOfCommit DEF ClaimSafety, ClaimCommit
  <2> QED
    BY <2>2 DEF RowAtCommit, SettledInv, Terminal
<1>7. ASSUME NEW c \in Claimers, ClaimAbort(c) PROVE kept
  BY <1>7 DEF ClaimAbort
<1>8. CASE Tick
  BY <1>8 DEF Tick, SettledInv
<1>9. kept => status'[r] \in Terminal \cup {"NeedsInput"}
  BY DEF SettledInv
<1> QED
  BY <1>1, <1>2, <1>3, <1>4, <1>5, <1>6, <1>7, <1>8, <1>9, StepsByRows

LEMMA SettledIsOver == Spec => []SettledInv
<1>1. Init => SettledInv
  BY DEF Init, SettledInv
<1>2. ClaimSafety /\ SettledInv /\ [Next]_vars => SettledInv'
  BY SettledStep
<1> QED
  BY <1>1, <1>2, Safety, PTL DEF Spec

\* Calls are spent by reservations alone, and each passes every check.
LEMMA SpendStep ==
  ASSUME ClaimSafety, SettledInv, [Next]_vars, NEW r \in Runs, calls'[r] # calls[r]
  PROVE  /\ status[r] = "Running" /\ ~settled[r]
         /\ "loop" \notin facts[r]
         /\ calls'[r] <= MaxCalls
<1>1. calls' = calls \/ \E s \in Runs : ReserveModelCall(s)
  BY StepsByRows
     DEF runVars, Send, Cancel, LoseGrant, RenewLease, RecordRefusal, ReportTimeout,
         ReadSource, RequestInput, Finish, Commits, ClaimCommit, ClaimAbort, Tick
<1>2. PICK s \in Runs : ReserveModelCall(s)
  BY <1>1
<1>3. r = s /\ calls'[r] = calls[r] + 1 /\ MaySpend(r)
  BY <1>2 DEF ReserveModelCall, ClaimSafety, TypeOK
<1>4. calls'[r] <= MaxCalls
  BY <1>3, Budgets DEF MaySpend, ClaimSafety, TypeOK
<1> QED
  BY <1>3, <1>4 DEF MaySpend, SettledInv, Terminal, ClaimSafety, TypeOK

\* No call is reserved for a run that was stopped, asked, ended, was settled,
\* had no call left or was caught in a loop (reserve_model_call).
THEOREM SpendingEnds == Spec => NoSpendAfterStop
<1>1. ClaimSafety /\ SettledInv /\ [Next]_vars
        => [\A r \in Runs : calls'[r] # calls[r] =>
              /\ status[r] = "Running" /\ ~ settled[r]
              /\ "loop" \notin facts[r]
              /\ calls'[r] <= MaxCalls]_vars
  BY SpendStep
<1> QED
  BY <1>1, Safety, SettledIsOver, PTL DEF Spec, NoSpendAfterStop

-----------------------------------------------------------------------------
(* Leases. *)

\* The calls and facts of a run change only by what its executor is let do.
LEMMA RecordsStep ==
  ASSUME ClaimSafety, [Next]_vars, NEW r \in Runs
  PROVE  /\ (Executing(r) /\ ActorAllowed(r)) \/ calls'[r] = calls[r]
         /\ Executing(r) \/ facts'[r] \subseteq facts[r] \cup refusing[r]
<1>1. \/ calls' = calls /\ facts' = facts
      \/ \E s \in Runs :
           ReserveModelCall(s) \/ RecordRefusal(s) \/ ReportTimeout(s) \/ ReadSource(s)
  BY StepsByRows
     DEF runVars, Send, Cancel, LoseGrant, RenewLease, RequestInput, Finish, Commits,
         ClaimCommit, ClaimAbort, Tick
<1>2. ASSUME NEW s \in Runs, ReserveModelCall(s)
      PROVE  /\ (r = s /\ Executing(r) /\ ActorAllowed(r)) \/ calls'[r] = calls[r]
             /\ facts'[r] = facts[r]
  BY <1>2 DEF ReserveModelCall, MaySpend, ClaimSafety, TypeOK
<1>3. ASSUME NEW s \in Runs, RecordRefusal(s)
      PROVE  calls'[r] = calls[r] /\ facts'[r] \subseteq facts[r] \cup refusing[r]
  BY <1>3 DEF RecordRefusal, ClaimSafety, TypeOK
<1>4. ASSUME NEW s \in Runs, ReportTimeout(s) \/ ReadSource(s)
      PROVE  calls'[r] = calls[r] /\ ((r = s /\ Executing(r)) \/ facts'[r] = facts[r])
  BY <1>4 DEF ReportTimeout, ReadSource, ClaimSafety, TypeOK
<1> QED
  BY <1>1, <1>2, <1>3, <1>4

\* Nothing but a lease renewed in time gives a run in flight more time, and a run
\* whose lease passed is only asked to stop or swept.
LEMMA LeaseStep ==
  ASSUME ClaimSafety, [Next]_vars, NEW r \in InFlightRuns, expiry[r] = 0
  PROVE  expiry'[r] = 0 /\ status'[r] \in {status[r], "Cancelling", "Failed"}
<1>1. r \in Runs /\ InFlight(r) /\ status[r] \notin {"None", "Queued"} /\ ~Executing(r)
  BY DEF InFlightRuns, InFlight, Executable, Executing
<1>2. CASE UNCHANGED runVars
  BY <1>2 DEF runVars
<1>3. ASSUME NEW s \in Runs, NEW c \in Conversations, Send(s, c)
      PROVE  expiry'[r] = expiry[r] /\ status'[r] = status[r]
  BY <1>1, <1>3 DEF Send, ClaimSafety, TypeOK
<1>4. ASSUME NEW s \in Runs, Cancel(s)
      PROVE  expiry'[r] = expiry[r] /\ status'[r] \in {status[r], "Cancelling"}
  BY <1>1, <1>4 DEF Cancel, ClaimSafety, TypeOK
<1>5. ASSUME NEW s \in Runs,
             \/ LoseGrant(s) \/ ReserveModelCall(s) \/ RecordRefusal(s)
             \/ ReportTimeout(s) \/ ReadSource(s)
      PROVE  expiry'[r] = expiry[r] /\ status'[r] = status[r]
  BY <1>5 DEF LoseGrant, ReserveModelCall, RecordRefusal, ReportTimeout, ReadSource
<1>6. ASSUME NEW s \in Runs, RenewLease(s) \/ RequestInput(s)
      PROVE  expiry'[r] = expiry[r] /\ status'[r] = status[r]
  BY <1>1, <1>6 DEF RenewLease, RequestInput, ClaimSafety, TypeOK
<1>7. ASSUME NEW s \in Runs, NEW asked \in Asked, Finish(s, asked)
      PROVE  expiry'[r] = expiry[r] /\ status'[r] = status[r]
  BY <1>1, <1>7 DEF Finish, ClaimSafety, TypeOK
<1>8. CASE Commits
  <2>1. PICK c \in Claimers, outcome \in {"None", "Running", "Failed"} :
          ClaimCommit(c, outcome) /\ (outcome = "None" => claims[c].pick = 0)
    BY <1>8 DEF Commits
  <2>2. RowAtCommit(r, c, outcome)
    BY <1>1, <2>1, RowsOfCommit DEF ClaimSafety
  <2> QED
    BY <1>1, <2>2 DEF RowAtCommit
<1>9. ASSUME NEW c \in Claimers, ClaimAbort(c)
      PROVE  expiry'[r] = expiry[r] /\ status'[r] = status[r]
  BY <1>9 DEF ClaimAbort
<1>10. CASE Tick
  BY <1>1, <1>10 DEF Tick, Less
<1> QED
  BY <1>2, <1>3, <1>4, <1>5, <1>6, <1>7, <1>8, <1>9, <1>10, StepsByRows

\* Past its lease an executor can do nothing with its capability: it only waits
\* for the sweep (run_status, every endpoint's capability check, claim_run).
THEOREM LeasesBind == Spec => ExpiredIsInert
<1>1. ClaimSafety /\ [Next]_vars
        => [\A r \in InFlightRuns : expiry[r] = 0 =>
              /\ calls'[r] = calls[r] /\ expiry'[r] = 0
              /\ facts'[r] \subseteq facts[r] \cup refusing[r]
              /\ status'[r] \in {status[r], "Cancelling", "Failed"}]_vars
  <2> SUFFICES ASSUME ClaimSafety, [Next]_vars, NEW r \in InFlightRuns, expiry[r] = 0
               PROVE  /\ calls'[r] = calls[r] /\ expiry'[r] = 0
                      /\ facts'[r] \subseteq facts[r] \cup refusing[r]
                      /\ status'[r] \in {status[r], "Cancelling", "Failed"}
    OBVIOUS
  <2>1. r \in Runs /\ ~Executing(r)
    BY DEF InFlightRuns, Executing
  <2> QED
    BY <2>1, RecordsStep, LeaseStep
<1> QED
  BY <1>1, Safety, PTL DEF Spec, ExpiredIsInert

-----------------------------------------------------------------------------
(* How long a run may hold its place: the safety under QueuedLeaves and         *)
(* InFlightEnds.                                                               *)

LeaseCeiling == IF ClaimAck <= Lease THEN Lease ELSE ClaimAck

\* A message waits no longer than the queue lets it, and what a lease still gives
\* a run in flight lies no further from its claim than its container may live,
\* and one lease more.
HeldBriefly ==
  \A r \in Runs :
    /\ status[r] = "Queued" => expiry[r] <= QueueExpires
    /\ InFlight(r) => age[r] + expiry[r] <= MaxAge + LeaseCeiling

\* Nobody prolongs a message's wait, makes a run in flight younger, or gives it
\* time once its container must be gone.
TimeRunsOut ==
  [][\A r \in Runs :
       /\ status[r] = "Queued" /\ status'[r] = "Queued" => expiry'[r] <= expiry[r]
       /\ InFlight(r) /\ InFlight(r)' =>
            /\ age[r] <= age'[r]
            /\ age[r] = MaxAge => expiry'[r] <= expiry[r]]_vars

\* What a step leaves of a run's time: its expiry is kept or counted down, a
\* lease is renewed, or the run was not there, is begun or is over.
TimeOf(r) ==
  \/ /\ expiry'[r] = expiry[r] \/ expiry'[r] = Less(expiry[r])
     /\ age'[r] = age[r]
     /\ status'[r] = "Queued" => status[r] = "Queued"
     /\ InFlight(r)' => InFlight(r)
  \/ /\ expiry'[r] = Less(expiry[r])
     /\ age[r] < MaxAge /\ age'[r] = age[r] + 1
     /\ status'[r] = status[r] /\ InFlight(r)
  \/ /\ age[r] < MaxAge /\ age'[r] = age[r] /\ expiry'[r] = Lease
     /\ status'[r] = status[r] /\ status[r] \in Executable
  \/ /\ status[r] = "None" /\ status'[r] = "Queued" /\ expiry'[r] = QueueExpires
  \/ /\ status[r] = "Queued" /\ status'[r] = "Running"
     /\ age'[r] = 0 /\ expiry'[r] \in 0..ClaimAck
  \/ status'[r] # "Queued" /\ ~InFlight(r)'

\* A claim's commit begins a run with the acknowledgement still due, closes it,
\* or leaves its time alone.
LEMMA TimeAtCommit ==
  ASSUME TypeOK, ClaimInvariant, NEW c \in Claimers,
         NEW outcome \in {"None", "Running", "Failed"}, ClaimCommit(c, outcome),
         outcome = "None" => claims[c].pick = 0, NEW r \in Runs
  PROVE  TimeOf(r)
<1> DEFINE k == claims[c]
           swept == k.queued \cup k.leases
<1>1. k \in ClaimViews /\ k.age \in 0..ClaimAck
  BY DEF TypeOK, ClaimViews
<1>2. /\ r = k.pick => status[r] = "Queued" /\ outcome # "None"
      /\ r \in k.inputs => status[r] = "NeedsInput"
  BY RunsArePositive DEF ClaimInvariant, ClaimCommit, ViewInv, FreshView, Written
<1>3. /\ status'[r] = IF r \in swept THEN "Failed"
                      ELSE IF r = k.pick THEN outcome ELSE status[r]
      /\ cap'[r] = IF r \in swept \/ (r = k.pick /\ outcome = "Failed") \/ r \in k.inputs
                   THEN FALSE
                   ELSE IF r = k.pick /\ outcome = "Running" THEN TRUE ELSE cap[r]
      /\ expiry'[r] = IF r = k.pick /\ outcome = "Running" THEN ClaimAck - k.age
                      ELSE IF r \in swept \/ (r = k.pick /\ outcome = "Failed") THEN 0
                      ELSE expiry[r]
      /\ age'[r] = IF r \in Written(k) THEN 0 ELSE age[r]
  BY DEF ClaimCommit
<1>4. Written(k) = swept \cup k.inputs \cup ({k.pick} \ {0})
  BY DEF Written
<1>5. ClaimAck - k.age \in 0..ClaimAck
  BY <1>1, Budgets
<1> HIDE DEF k, swept
<1>6. CASE r \in swept \/ (r = k.pick /\ outcome = "Failed")
  BY <1>3, <1>6 DEF TimeOf, InFlight, Executable
<1>7. CASE r \notin swept /\ r = k.pick /\ outcome = "Running"
  <2>1. r \in Written(k)
    BY <1>4, <1>7, RunsArePositive
  <2> QED
    BY <1>2, <1>3, <1>5, <1>7, <2>1 DEF TimeOf
<1>8. CASE r \notin swept /\ r # k.pick /\ r \in k.inputs
  BY <1>2, <1>3, <1>8 DEF TimeOf, InFlight, Executable
<1>9. CASE r \notin swept /\ r # k.pick /\ r \notin k.inputs
  BY <1>3, <1>4, <1>9 DEF TimeOf, InFlight
<1> QED
  BY <1>2, <1>6, <1>7, <1>8, <1>9

\* So does every other step.
LEMMA TimeStep ==
  ASSUME ClaimSafety, [Next]_vars, NEW r \in Runs
  PROVE  TimeOf(r)
<1> USE DEF ClaimSafety
<1> DEFINE kept == /\ expiry'[r] = expiry[r] /\ age'[r] = age[r]
                   /\ status'[r] = status[r] /\ cap'[r] = cap[r]
<1>1. kept => TimeOf(r)
  BY DEF TimeOf, InFlight
<1>2. CASE UNCHANGED runVars
  BY <1>1, <1>2 DEF runVars
<1>3. ASSUME NEW s \in Runs, NEW c \in Conversations, Send(s, c)
      PROVE  TimeOf(r)
  <2>1. kept \/ (r = s /\ status[r] = "None" /\ status'[r] = "Queued"
                   /\ expiry'[r] = QueueExpires)
    BY <1>3 DEF Send, TypeOK
  <2> QED
    BY <1>1, <2>1 DEF TimeOf
<1>4. ASSUME NEW s \in Runs, Cancel(s) PROVE TimeOf(r)
  <2>1. CASE r # s
    BY <1>1, <1>4, <2>1 DEF Cancel, TypeOK
  <2>2. CASE r = s /\ status[s] = "Queued"
    BY <1>4, <2>2 DEF Cancel, TypeOK, TimeOf, InFlight, Executable
  <2>3. CASE r = s /\ status[s] = "Running"
    BY <1>4, <2>3 DEF Cancel, TypeOK, TimeOf, InFlight, Executable
  <2> QED
    BY <1>4, <2>1, <2>2, <2>3 DEF Cancel
<1>5. ASSUME NEW s \in Runs,
             \/ LoseGrant(s) \/ ReserveModelCall(s) \/ RecordRefusal(s)
             \/ ReportTimeout(s) \/ ReadSource(s)
      PROVE  TimeOf(r)
  BY <1>1, <1>5 DEF LoseGrant, ReserveModelCall, RecordRefusal, ReportTimeout, ReadSource
<1>6. ASSUME NEW s \in Runs, RenewLease(s) PROVE TimeOf(r)
  <2>1. CASE r # s
    BY <1>1, <1>6, <2>1 DEF RenewLease, TypeOK
  <2>2. CASE r = s
    BY <1>6, <2>2 DEF RenewLease, TypeOK, TimeOf
  <2> QED
    BY <2>1, <2>2
<1>7. ASSUME NEW s \in Runs, RequestInput(s) PROVE TimeOf(r)
  <2>1. CASE r # s
    BY <1>1, <1>7, <2>1 DEF RequestInput, TypeOK
  <2>2. CASE r = s
    BY <1>7, <2>2 DEF RequestInput, Executing, TypeOK, TimeOf, InFlight, Executable
  <2> QED
    BY <2>1, <2>2
<1>8. ASSUME NEW s \in Runs, NEW asked \in Asked, Finish(s, asked) PROVE TimeOf(r)
  <2>1. CASE r # s
    BY <1>1, <1>8, <2>1 DEF Finish, TypeOK
  <2>2. CASE r = s
    <3>1. MayFinish(r, asked) /\ status'[r] = Verdict(r, asked) /\ ~cap'[r]
      BY <1>8, <2>2 DEF Finish, TypeOK
    <3>2. Verdict(r, asked) \in Terminal \cup {"NeedsInput"}
      BY <3>1, Verdicts
    <3> QED
      BY <3>1, <3>2 DEF TimeOf, InFlight, Executable, Terminal
  <2> QED
    BY <2>1, <2>2
<1>9. CASE Commits
  BY <1>9, TimeAtCommit DEF Commits
<1>10. ASSUME NEW c \in Claimers, ClaimAbort(c) PROVE TimeOf(r)
  BY <1>1, <1>10 DEF ClaimAbort
<1>11. CASE Tick
  <2>1. /\ expiry'[r] = Less(expiry[r]) /\ status'[r] = status[r] /\ cap'[r] = cap[r]
        /\ age'[r] = IF InFlight(r) /\ age[r] < MaxAge THEN age[r] + 1 ELSE age[r]
    BY <1>11 DEF Tick
  <2> QED
    BY <2>1 DEF TimeOf, InFlight
<1> QED
  BY <1>2, <1>3, <1>4, <1>5, <1>6, <1>7, <1>8, <1>9, <1>10, <1>11, StepsByRows

\* Whatever its executor, its owner and the claims do, a message's wait and a run's
\* leases are over by a moment fixed when they began (run_status renews while the
\* container lives, claim_run gives claim_ack_seconds).
THEOREM PlacesAreHeldBriefly == Spec => []HeldBriefly
<1>1. Init => HeldBriefly
  BY DEF Init, HeldBriefly, InFlight, Executable
<1>2. ClaimSafety /\ HeldBriefly /\ [Next]_vars => HeldBriefly'
  <2> SUFFICES ASSUME ClaimSafety, HeldBriefly, [Next]_vars, NEW r \in Runs
               PROVE  /\ status'[r] = "Queued" => expiry'[r] <= QueueExpires
                      /\ InFlight(r)' => age'[r] + expiry'[r] <= MaxAge + LeaseCeiling
    BY DEF HeldBriefly
  <2>1. TimeOf(r)
    BY TimeStep
  <2>2. /\ expiry[r] \in Nat /\ age[r] \in 0..MaxAge
        /\ MaxAge \in Nat /\ ClaimAck \in Nat /\ Lease \in Nat /\ QueueExpires \in Nat
    BY Budgets DEF ClaimSafety, TypeOK
  <2>3. LeaseCeiling \in Nat /\ ClaimAck <= LeaseCeiling /\ Lease <= LeaseCeiling
    BY <2>2 DEF LeaseCeiling
  <2>4. /\ status[r] = "Queued" => expiry[r] <= QueueExpires
        /\ InFlight(r) => age[r] + expiry[r] <= MaxAge + LeaseCeiling
    BY DEF HeldBriefly
  <2>5. Less(expiry[r]) <= expiry[r] /\ (expiry[r] > 0 => Less(expiry[r]) + 1 = expiry[r])
        /\ (expiry[r] = 0 => Less(expiry[r]) = 0) /\ Less(expiry[r]) \in Nat
    BY <2>2 DEF Less
  <2>6. /\ status'[r] = "Queued" => ~InFlight(r)'
        /\ status[r] = "Queued" => ~InFlight(r)
        /\ status'[r] = "None" => ~InFlight(r)'
        /\ status[r] \in Executable => InFlight(r)
    BY DEF InFlight, Executable
  <2> HIDE DEF LeaseCeiling
  <2> QED
    BY <2>1, <2>2, <2>3, <2>4, <2>5, <2>6 DEF TimeOf
<1> QED
  BY <1>1, <1>2, Safety, PTL DEF Spec

\* Nor does any step put that moment off.
THEOREM NoTimeIsWon == Spec => TimeRunsOut
<1>1. ClaimSafety /\ [Next]_vars
        => [\A r \in Runs :
              /\ status[r] = "Queued" /\ status'[r] = "Queued" => expiry'[r] <= expiry[r]
              /\ InFlight(r) /\ InFlight(r)' =>
                   /\ age[r] <= age'[r]
                   /\ age[r] = MaxAge => expiry'[r] <= expiry[r]]_vars
  <2> SUFFICES ASSUME ClaimSafety, [Next]_vars, NEW r \in Runs
               PROVE  /\ status[r] = "Queued" /\ status'[r] = "Queued"
                           => expiry'[r] <= expiry[r]
                      /\ InFlight(r) /\ InFlight(r)' =>
                           /\ age[r] <= age'[r]
                           /\ age[r] = MaxAge => expiry'[r] <= expiry[r]
    OBVIOUS
  <2>1. TimeOf(r)
    BY TimeStep
  <2>2. expiry[r] \in Nat /\ age[r] \in 0..MaxAge /\ MaxAge \in Nat
    BY Budgets DEF ClaimSafety, TypeOK
  <2>3. Less(expiry[r]) <= expiry[r]
    BY <2>2 DEF Less
  <2>4. /\ status[r] = "Queued" => ~InFlight(r) /\ status[r] \notin Executable
        /\ status[r] = "Queued" => status[r] \notin {"None", "Running"}
    BY DEF InFlight, Executable
  <2>5. /\ age[r] <= age[r] /\ age[r] <= age[r] + 1
        /\ age[r] < MaxAge => age[r] # MaxAge
        /\ expiry[r] <= expiry[r]
    BY <2>2
  <2>6. ASSUME status[r] = "Queued", status'[r] = "Queued"
        PROVE  expiry'[r] <= expiry[r]
    BY <2>1, <2>3, <2>4, <2>5, <2>6 DEF TimeOf
  <2>7. ASSUME InFlight(r), InFlight(r)'
        PROVE  /\ age[r] <= age'[r]
               /\ age[r] = MaxAge => expiry'[r] <= expiry[r]
    <3>1. status[r] # "None" \/ status'[r] # "Queued"
      BY <2>7 DEF InFlight, Executable
    <3> QED
      BY <2>1, <2>3, <2>4, <2>5, <2>7, <3>1 DEF TimeOf
  <2> QED
    BY <2>6, <2>7
<1> QED
  BY <1>1, Safety, PTL DEF Spec, TimeRunsOut

\* Only its own beginning opens a claim.
LEMMA OpenedByBegin ==
  ASSUME TypeOK, ClaimInvariant, [Next]_vars, NEW c \in Claimers,
         ~claims[c].open, claims'[c].open
  PROVE  ClaimBegin(c)
<1>1. ~QuietNext
  <2>1. QuietNext => \E rows : QuietClaims(rows)
    BY QuietSteps DEF Quiet, ClaimInvariant
  <2> QED
    BY <2>1 DEF QuietClaims
<1>2. PICK d \in Claimers :
        ClaimBegin(d) \/ ClaimNothing(d) \/ ClaimRun(d) \/ ClaimRefuse(d)
  BY <1>1 DEF Next, QuietNext, ClaimStep
<1>3. CASE ClaimBegin(d)
  BY <1>3 DEF ClaimBegin, TypeOK
<1>4. CASE ClaimNothing(d) \/ ClaimRun(d) \/ ClaimRefuse(d)
  <2>1. PICK outcome \in {"None", "Running", "Failed"} : ClaimCommit(d, outcome)
    BY <1>4, ClaimEnds
  <2>2. claims' = [TouchedClaims(Written(claims[d])) EXCEPT ![d] = NoClaim]
    BY <2>1 DEF ClaimCommit
  <2>3. ~TouchedClaims(Written(claims[d]))[c].open
    BY DEF TouchedClaims
  <2>4. ~claims'[c].open
    BY <2>2, <2>3 DEF NoClaim, TouchedClaims
  <2> QED
    BY <2>4
<1> QED
  BY <1>2, <1>3, <1>4

\* Each sweep of a claim takes the oldest row of its backlog, however long that is.
LapsedGoFirst ==
  [][\A c \in Claimers : ~claims[c].open /\ claims'[c].open =>
       /\ \A r \in QueueExpired :
            (\A s \in QueueExpired : r <= s) => r \in claims'[c].queued
       /\ \A r \in LeaseExpired :
            (\A s \in LeaseExpired : r <= s) => r \in claims'[c].leases
       /\ \A r \in InputExpired :
            (\A s \in InputExpired : r <= s) => r \in claims'[c].inputs]_vars

\* The first of some runs is among the oldest of them.
LEMMA FirstIsOldest ==
  ASSUME NEW S \in SUBSET Runs, NEW r \in S, \A s \in S : r <= s
  PROVE  r \in Oldest(S)
<1>1. {s \in S : s < r} = {}
  <2>1. ASSUME NEW s \in S PROVE ~(s < r)
    <3>1. s \in Nat /\ r \in Nat /\ r <= s
      BY RunsArePositive
    <3> QED
      BY <3>1
  <2> QED
    BY <2>1
<1>2. Cardinality({s \in S : s < r}) = 0
  BY <1>1, FS_EmptySet
<1> QED
  BY <1>2, BudgetAssumption DEF Oldest

\* So no backlog starves behind SWEEP_LIMIT: its head leaves with the next claim
\* that commits (the three sweeps of claim_run, oldest first).
THEOREM HeadsAreSwept == Spec => LapsedGoFirst
<1>1. ClaimSafety /\ [Next]_vars
        => [\A c \in Claimers : ~claims[c].open /\ claims'[c].open =>
              /\ \A r \in QueueExpired :
                   (\A s \in QueueExpired : r <= s) => r \in claims'[c].queued
              /\ \A r \in LeaseExpired :
                   (\A s \in LeaseExpired : r <= s) => r \in claims'[c].leases
              /\ \A r \in InputExpired :
                   (\A s \in InputExpired : r <= s) => r \in claims'[c].inputs]_vars
  <2> SUFFICES ASSUME ClaimSafety, [Next]_vars, NEW c \in Claimers,
                      ~claims[c].open, claims'[c].open
               PROVE  /\ \A r \in QueueExpired :
                           (\A s \in QueueExpired : r <= s) => r \in claims'[c].queued
                      /\ \A r \in LeaseExpired :
                           (\A s \in LeaseExpired : r <= s) => r \in claims'[c].leases
                      /\ \A r \in InputExpired :
                           (\A s \in InputExpired : r <= s) => r \in claims'[c].inputs
    OBVIOUS
  <2>1. ClaimBegin(c)
    BY OpenedByBegin DEF ClaimSafety
  <2>2. /\ claims'[c].queued = Oldest(QueueExpired)
        /\ claims'[c].leases = Oldest(LeaseExpired)
        /\ claims'[c].inputs = Oldest(InputExpired)
    BY <2>1 DEF ClaimBegin, ClaimSafety, TypeOK
  <2>3. /\ QueueExpired \in SUBSET Runs /\ LeaseExpired \in SUBSET Runs
        /\ InputExpired \in SUBSET Runs
    BY DEF QueueExpired, LeaseExpired, InputExpired
  <2> QED
    BY <2>2, <2>3, FirstIsOldest
<1> QED
  BY <1>1, Safety, PTL DEF Spec, LapsedGoFirst

-----------------------------------------------------------------------------
(* Lost authorizations. *)

\* Without its authorization a run is not begun, asked about or answered.
LEMMA UnaskedStep ==
  ASSUME ClaimSafety, SsoEnforced, [Next]_vars, NEW r \in Runs,
         grant[r] \in {"lost", "dropped"}
  PROVE  status'[r] \notin {"Running", "NeedsInput", "Succeeded"} \ {status[r]}
<1>1. ~ActorAllowed(r)
  BY DEF ActorAllowed
<1>2. CASE UNCHANGED runVars
  BY <1>2 DEF runVars
<1>3. ASSUME NEW s \in Runs, NEW c \in Conversations, Send(s, c)
      PROVE  status'[r] \in {status[r], "Queued"}
  BY <1>3 DEF Send, ClaimSafety, TypeOK
<1>4. ASSUME NEW s \in Runs, Cancel(s)
      PROVE  status'[r] \in {status[r], "Cancelled", "Cancelling"}
  BY <1>4 DEF Cancel, ClaimSafety, TypeOK
<1>5. ASSUME NEW s \in Runs,
             \/ LoseGrant(s) \/ RenewLease(s) \/ ReserveModelCall(s)
             \/ RecordRefusal(s) \/ ReportTimeout(s) \/ ReadSource(s)
      PROVE  status'[r] = status[r]
  BY <1>5 DEF LoseGrant, RenewLease, ReserveModelCall, RecordRefusal, ReportTimeout,
              ReadSource
<1>6. ASSUME NEW s \in Runs, RequestInput(s) PROVE status'[r] = status[r]
  BY <1>1, <1>6 DEF RequestInput, ClaimSafety, TypeOK
<1>7. ASSUME NEW s \in Runs, NEW asked \in Asked, Finish(s, asked)
      PROVE  status'[r] \in {status[r], "Failed", "Cancelled", "BudgetExceeded"}
  <2>1. MayFinish(s, asked) /\ status' = [status EXCEPT ![s] = Verdict(s, asked)]
    BY <1>7 DEF Finish
  <2>2. CASE r # s
    BY <2>1, <2>2 DEF ClaimSafety, TypeOK
  <2>3. CASE r = s
    <3>1. Verdict(s, asked) \in {status[s], "Failed", "Cancelled", "BudgetExceeded"}
      BY <1>1, <2>1, <2>3 DEF Asked, MayFinish, Verdict, Ruling
    <3> QED
      BY <2>1, <2>3, <3>1 DEF ClaimSafety, TypeOK
  <2> QED
    BY <2>2, <2>3
<1>8. CASE Commits
  <2>1. PICK c \in Claimers, outcome \in {"None", "Running", "Failed"} :
          /\ ClaimCommit(c, outcome)
          /\ outcome = "None" => claims[c].pick = 0
          /\ outcome = "Running" => ActorAllowed(claims[c].pick)
    BY <1>8 DEF Commits
  <2>2. RowAtCommit(r, c, outcome)
    BY <2>1, RowsOfCommit DEF ClaimSafety
  <2> QED
    BY <1>1, <2>1, <2>2 DEF RowAtCommit
<1>9. ASSUME NEW c \in Claimers, ClaimAbort(c) PROVE status'[r] = status[r]
  BY <1>9 DEF ClaimAbort
<1>10. CASE Tick
  BY <1>10 DEF Tick
<1> QED
  BY <1>2, <1>3, <1>4, <1>5, <1>6, <1>7, <1>8, <1>9, <1>10, StepsByRows

\* On a Site that enforces the platform login, losing the authorization early
\* fails a run closed at its next check; it never goes on unasked (grants.py).
THEOREM LossFailsClosed ==
  ASSUME SsoEnforced
  PROVE  Spec => LostGrantFailsClosed
<1>1. ClaimSafety /\ [Next]_vars
        => [\A r \in Runs : grant[r] \in {"lost", "dropped"} =>
              /\ calls'[r] = calls[r]
              /\ status'[r] \notin {"Running", "NeedsInput", "Succeeded"} \ {status[r]}
           ]_vars
  <2> SUFFICES ASSUME ClaimSafety, [Next]_vars, NEW r \in Runs,
                      grant[r] \in {"lost", "dropped"}
               PROVE  /\ calls'[r] = calls[r]
                      /\ status'[r] \notin
                           {"Running", "NeedsInput", "Succeeded"} \ {status[r]}
    OBVIOUS
  <2>1. ~ActorAllowed(r)
    BY DEF ActorAllowed
  <2> QED
    BY <2>1, RecordsStep, UnaskedStep
<1> QED
  BY <1>1, Safety, PTL DEF Spec, LostGrantFailsClosed

-----------------------------------------------------------------------------
(* Conversations. *)

\* Only a message makes a run active, and runs never change conversations.
LEMMA ActiveStep ==
  ASSUME ClaimSafety, [Next]_vars, NEW r \in Runs
  PROVE  \/ conv'[r] = conv[r] /\ (Active(r)' => Active(r))
         \/ \E c \in Conversations : Send(r, c)
<1>1. CASE UNCHANGED runVars
  BY <1>1 DEF runVars, Active, InFlight, Executable
<1>2. ASSUME NEW s \in Runs, NEW c \in Conversations, Send(s, c), s # r
      PROVE  conv'[r] = conv[r] /\ (Active(r)' => Active(r))
  BY <1>2 DEF Send, ClaimSafety, TypeOK, Active, InFlight, Executable
<1>3. ASSUME NEW s \in Runs, Cancel(s)
      PROVE  conv'[r] = conv[r] /\ (Active(r)' => Active(r))
  BY <1>3 DEF Cancel, ClaimSafety, TypeOK, Active, InFlight, Executable
<1>4. ASSUME NEW s \in Runs,
             \/ LoseGrant(s) \/ RenewLease(s) \/ ReserveModelCall(s)
             \/ RecordRefusal(s) \/ ReportTimeout(s) \/ ReadSource(s)
      PROVE  conv'[r] = conv[r] /\ (Active(r)' => Active(r))
  BY <1>4 DEF LoseGrant, RenewLease, ReserveModelCall, RecordRefusal, ReportTimeout,
              ReadSource, Active, InFlight, Executable
<1>5. ASSUME NEW s \in Runs, RequestInput(s)
      PROVE  conv'[r] = conv[r] /\ (Active(r)' => Active(r))
  BY <1>5 DEF RequestInput, ClaimSafety, TypeOK, Active, InFlight, Executable
<1>6. ASSUME NEW s \in Runs, NEW asked \in Asked, Finish(s, asked)
      PROVE  conv'[r] = conv[r] /\ (Active(r)' => Active(r))
  <2>1. /\ MayFinish(s, asked) /\ conv' = conv
        /\ status' = [status EXCEPT ![s] = Verdict(s, asked)]
        /\ cap' = [cap EXCEPT ![s] = FALSE]
    BY <1>6 DEF Finish
  <2>2. Verdict(s, asked) \in Terminal \cup {"NeedsInput"}
    BY <2>1, Verdicts
  <2>3. CASE r = s
    <3>1. status'[r] \in Terminal \cup {"NeedsInput"} /\ cap'[r] = FALSE
      BY <2>1, <2>2, <2>3 DEF ClaimSafety, TypeOK
    <3> QED
      BY <2>1, <3>1 DEF Active, InFlight, Executable, Terminal
  <2>4. CASE r # s
    <3>1. status'[r] = status[r] /\ cap'[r] = cap[r]
      BY <2>1, <2>4 DEF ClaimSafety, TypeOK
    <3> QED
      BY <2>1, <3>1 DEF Active, InFlight, Executable
  <2> QED
    BY <2>3, <2>4
<1>7. CASE Commits
  <2>1. PICK c \in Claimers, outcome \in {"None", "Running", "Failed"} :
          ClaimCommit(c, outcome) /\ (outcome = "None" => claims[c].pick = 0)
    BY <1>7 DEF Commits
  <2>2. conv' = conv /\ RowAtCommit(r, c, outcome)
    BY <2>1, RowsOfCommit DEF ClaimSafety, ClaimCommit
  <2> QED
    BY <2>2 DEF RowAtCommit, Active, InFlight, Executable
<1>8. ASSUME NEW c \in Claimers, ClaimAbort(c)
      PROVE  conv'[r] = conv[r] /\ (Active(r)' => Active(r))
  BY <1>8 DEF ClaimAbort, Active, InFlight, Executable
<1>9. CASE Tick
  BY <1>9 DEF Tick, Active, InFlight, Executable
<1> QED
  BY <1>1, <1>2, <1>3, <1>4, <1>5, <1>6, <1>7, <1>8, <1>9, StepsByRows

LEMMA SerialStep ==
  ClaimSafety /\ ConversationSerial /\ [Next]_vars => ConversationSerial'
<1> SUFFICES ASSUME ClaimSafety, ConversationSerial, [Next]_vars,
                    NEW r \in Runs, NEW s \in Runs,
                    Active(r)', Active(s)', conv'[r] = conv'[s]
             PROVE  r = s
  BY DEF ConversationSerial
<1>1. ASSUME NEW q \in Runs, NEW t \in Runs, NEW c \in Conversations, Send(q, c),
             Active(t)', conv'[t] = conv'[q]
      PROVE  t = q
  <2> SUFFICES ASSUME t # q PROVE FALSE
    OBVIOUS
  <2>1. conv'[q] = c /\ conv'[t] = conv[t] /\ status'[t] = status[t] /\ cap'[t] = cap[t]
    BY <1>1 DEF Send, ClaimSafety, TypeOK
  <2>2. Active(t) /\ conv[t] = c
    BY <1>1, <2>1 DEF Active, InFlight, Executable
  <2> QED
    BY <1>1, <2>2 DEF Send, ConversationFree
<1>2. CASE \E c \in Conversations : Send(r, c)
  BY <1>1, <1>2
<1>3. CASE \E c \in Conversations : Send(s, c)
  BY <1>1, <1>3
<1>4. CASE /\ conv'[r] = conv[r] /\ Active(r)
           /\ conv'[s] = conv[s] /\ Active(s)
  BY <1>4 DEF ConversationSerial
<1> QED
  BY <1>2, <1>3, <1>4, ActiveStep

\* A conversation has one active run at a time, whatever claims, sweeps, cancels
\* and finishes make of its earlier ones (send_message).
THEOREM ConversationsAreSerial == Spec => []ConversationSerial
<1>1. Init => ConversationSerial
  BY DEF Init, ConversationSerial, Active, InFlight, Executable
<1>2. ClaimSafety /\ ConversationSerial /\ [Next]_vars => ConversationSerial'
  BY SerialStep
<1> QED
  BY <1>1, <1>2, Safety, PTL DEF Spec

-----------------------------------------------------------------------------
(* Every step of a Site, whatever claims are open, is one of the promise's   *)
(* steps or none at all.                                                     *)

\* The promise's state, read off the Site's rows.
stage == [r \in Runs |-> StageOf(r)]

\* One run moves, the others stand still.
OnlyOne(r) == \A s \in Runs \ {r} : status'[s] = status[s] /\ cap'[s] = cap[s]

\* A run's stage depends on its status and its capability alone.
LEMMA SameStage ==
  ASSUME NEW r \in Runs, status'[r] = status[r], cap'[r] = cap[r]
  PROVE  StageOf(r)' = StageOf(r)
BY DEF StageOf

\* What moves one run moves one message.
LEMMA MovesOne ==
  ASSUME NEW r \in Runs, OnlyOne(r)
  PROVE  stage' = [stage EXCEPT ![r] = StageOf(r)']
<1>1. \A s \in Runs \ {r} : StageOf(s)' = StageOf(s)
  BY SameStage DEF OnlyOne
<1> QED
  BY <1>1 DEF stage

\* Rows whose status and capability stand still leave the promise alone.
LEMMA NoMove ==
  ASSUME UNCHANGED <<status, cap>>
  PROVE  stage' = stage
<1>1. \A s \in Runs : StageOf(s)' = StageOf(s)
  BY SameStage
<1> QED
  BY <1>1 DEF stage

\* A step of the promise, spelled out over the Site's rows.
PromiseStep ==
  \/ \E r \in Runs :
       Promise!Submit(r) \/ Promise!Withdraw(r) \/ Promise!Conclude(r)
  \/ \E lapsed, begun \in SUBSET Runs : Promise!Attend(lapsed, begun)
  \/ stage' = stage

\* A message is submitted.
LEMMA SendSubmits ==
  ASSUME TypeOK, NEW r \in Runs, NEW c \in Conversations, Send(r, c)
  PROVE  Promise!Submit(r)
<1>1. OnlyOne(r) /\ status[r] = "None" /\ status'[r] = "Queued"
  BY DEF OnlyOne, Send, TypeOK
<1>2. StageOf(r) = "none" /\ StageOf(r)' = "waiting"
  BY <1>1 DEF StageOf
<1> QED
  BY <1>1, <1>2, MovesOne DEF Promise!Submit, Promise!Move, stage

\* A cancel withdraws what waits and asks what works to stop.
LEMMA CancelWithdraws ==
  ASSUME TypeOK, NEW r \in Runs, Cancel(r)
  PROVE  Promise!Withdraw(r)
<1>1. OnlyOne(r)
  BY DEF OnlyOne, Cancel, TypeOK
<1>2. \/ status[r] = "Queued" /\ status'[r] = "Cancelled"
      \/ status[r] = "Running" /\ status'[r] = "Cancelling"
  BY DEF Cancel, TypeOK
<1>3. \/ StageOf(r) = "waiting" /\ StageOf(r)' = "cancelled"
      \/ StageOf(r) = "working" /\ StageOf(r)' = "stopping"
  BY <1>2 DEF StageOf
<1> QED
  BY <1>1, <1>3, MovesOne DEF Promise!Withdraw, Promise!Move, stage

\* An executor that asks its owner concludes its work.
LEMMA QuestionConcludes ==
  ASSUME TypeOK, NEW r \in Runs, RequestInput(r)
  PROVE  Promise!Conclude(r)
<1>1. /\ OnlyOne(r) /\ cap'[r] /\ status[r] = "Running"
      /\ status'[r] = "NeedsInput"
  BY DEF OnlyOne, RequestInput, Executing, TypeOK
<1>2. StageOf(r) = "working" /\ StageOf(r)' = "asking"
  BY <1>1 DEF StageOf
<1> QED
  BY <1>1, <1>2, MovesOne DEF Promise!Conclude, Promise!Move, stage

\* So does one that writes its result back, whatever it asked to be recorded.
LEMMA FinishConcludes ==
  ASSUME TypeOK, NEW r \in Runs,
         NEW asked \in {"Succeeded", "Failed", "Cancelled", "NeedsInput"},
         Finish(r, asked)
  PROVE  Promise!Conclude(r)
<1>1. /\ OnlyOne(r) /\ cap[r] /\ ~cap'[r]
      /\ status[r] \in {"Running", "Cancelling", "NeedsInput"}
      /\ status'[r] = Verdict(r, asked)
  BY DEF OnlyOne, Finish, Executing, Executable, TypeOK
<1>2. \/ Verdict(r, asked) \in {"Failed", "BudgetExceeded"}
      \/ status[r] = "Running" /\ Verdict(r, asked) = "Succeeded"
      \/ status[r] = "Cancelling" /\ Verdict(r, asked) = "Cancelled"
      \/ status[r] = "NeedsInput" /\ Verdict(r, asked) = "NeedsInput"
  BY <1>1 DEF Finish, MayFinish, Verdict, Ruling, Executable
<1>3. CASE Verdict(r, asked) \in {"Failed", "BudgetExceeded"}
  <2>1. StageOf(r) \in {"working", "stopping", "asking"} /\ StageOf(r)' = "failed"
    BY <1>1, <1>3 DEF StageOf
  <2> QED
    BY <1>1, <2>1, MovesOne DEF Promise!Conclude, Promise!Move, stage
<1>4. CASE status[r] = "Running" /\ Verdict(r, asked) = "Succeeded"
  <2>1. StageOf(r) = "working" /\ StageOf(r)' = "answered"
    BY <1>1, <1>4 DEF StageOf
  <2> QED
    BY <1>1, <2>1, MovesOne DEF Promise!Conclude, Promise!Move, stage
<1>5. CASE status[r] = "Cancelling" /\ Verdict(r, asked) = "Cancelled"
  <2>1. StageOf(r) = "stopping" /\ StageOf(r)' = "cancelled"
    BY <1>1, <1>5 DEF StageOf
  <2> QED
    BY <1>1, <2>1, MovesOne DEF Promise!Conclude, Promise!Move, stage
<1>6. CASE status[r] = "NeedsInput" /\ Verdict(r, asked) = "NeedsInput"
  <2>1. StageOf(r) = "asking" /\ StageOf(r)' = "asked"
    BY <1>1, <1>6 DEF StageOf
  <2> QED
    BY <1>1, <2>1, MovesOne DEF Promise!Conclude, Promise!Move, stage
<1> QED
  BY <1>2, <1>3, <1>4, <1>5, <1>6

-----------------------------------------------------------------------------
(* A claim.                                                                *)

\* What a claim gives up on, and what it begins.
LapsedOf(k, outcome) ==
  k.queued \cup k.leases \cup k.inputs
    \cup (IF outcome = "Failed" THEN {k.pick} \ {0} ELSE {})

BegunOf(k, outcome) ==
  IF outcome = "Running"
  THEN {k.pick} \ ({0} \cup k.queued \cup k.leases) ELSE {}

\* The rows a claim writes are still as its view saw them.
LEMMA ClaimedRows ==
  ASSUME TypeOK, ClaimInvariant, NEW c \in Claimers,
         claims[c].open, FreshView(claims[c])
  PROVE  /\ Written(claims[c]) \subseteq Runs
         /\ \A r \in claims[c].queued \cup ({claims[c].pick} \ {0}) :
              status[r] = "Queued"
         /\ \A r \in claims[c].leases : status[r] \in Executable
         /\ \A r \in claims[c].inputs : status[r] = "NeedsInput" /\ cap[r]
<1> DEFINE k == claims[c]
<1>1. k \in ClaimViews /\ ViewInv(k)
  BY DEF TypeOK, ClaimInvariant
<1>2. \A r \in k.queued \cup k.leases \cup k.inputs \cup ({k.pick} \ {0}) :
        r \notin k.stale
  BY DEF FreshView, Written
<1> HIDE DEF k
<1>3. /\ \A r \in k.queued \cup ({k.pick} \ {0}) : status[r] = "Queued"
      /\ \A r \in k.leases : status[r] \in Executable
      /\ \A r \in k.inputs : status[r] = "NeedsInput" /\ cap[r]
  BY <1>1, <1>2 DEF ViewInv
<1> QED
  BY <1>1, <1>3, WrittenType DEF k

\* A claim's commit attends to the messages: it gives up on those its sweeps
\* found and on one its owner may no longer have answered, and begins at most
\* one, in the room RoomInv says is still there.
LEMMA CommitAttends ==
  ASSUME TypeOK, ClaimInvariant, NEW c \in Claimers,
         NEW outcome \in {"None", "Running", "Failed"}, ClaimCommit(c, outcome),
         outcome = "None" => claims[c].pick = 0
  PROVE  \E lapsed, begun \in SUBSET Runs : Promise!Attend(lapsed, begun)
<1> DEFINE k == claims[c]
           lapsed == LapsedOf(k, outcome)
           begun == BegunOf(k, outcome)
<1>1. k.open /\ FreshView(k) /\ RoomInv(k)
  BY DEF ClaimCommit, ClaimInvariant
<1>2. /\ Written(k) \subseteq Runs
      /\ \A r \in k.queued \cup ({k.pick} \ {0}) : status[r] = "Queued"
      /\ \A r \in k.leases : status[r] \in Executable
      /\ \A r \in k.inputs : status[r] = "NeedsInput" /\ cap[r]
  BY <1>1, ClaimedRows
<1>3. lapsed \in SUBSET Runs /\ begun \in SUBSET Runs
  BY <1>2 DEF Written, LapsedOf, BegunOf
<1>4. \A r \in lapsed : StageOf(r) \in {"waiting", "working", "stopping", "asking"}
  BY <1>2 DEF LapsedOf, StageOf, Executable
<1>5. /\ \A r \in begun : StageOf(r) = "waiting"
      /\ \A r, s \in begun : r = s
  BY <1>2 DEF BegunOf, StageOf
<1>6. ASSUME begun # {}
      PROVE  Cardinality({r \in Runs : StageOf(r) \in {"working", "stopping", "asking"}}
                           \ lapsed) < SiteConcurrency
  <2>1. k.pick # 0 /\ outcome = "Running"
    BY <1>6 DEF BegunOf
  <2>2. \A r \in Runs : StageOf(r) \in {"working", "stopping", "asking"} <=> InFlight(r)
    BY DEF TypeOK, Statuses, StageOf, InFlight, Executable
  <2>3. {r \in Runs : StageOf(r) \in {"working", "stopping", "asking"}} \ lapsed
          = StayingRuns(k)
    <3>1. \A r \in k.queued : ~InFlight(r)
      BY <1>2 DEF InFlight, Executable
    <3> QED
      BY <2>1, <2>2, <3>1 DEF LapsedOf, StayingRuns, InFlightRuns
  <2> QED
    BY <1>1, <2>1, <2>3 DEF RoomInv
<1>7. ASSUME NEW r \in Runs
      PROVE  StageOf(r)' = IF r \in begun THEN "working"
                           ELSE IF r \in lapsed THEN Promise!Lapsed(StageOf(r))
                           ELSE StageOf(r)
  <2>1. /\ status'[r] = IF r \in k.queued \cup k.leases THEN "Failed"
                        ELSE IF r = k.pick THEN outcome ELSE status[r]
        /\ cap'[r] = IF \/ r \in k.queued \cup k.leases
                        \/ r = k.pick /\ outcome = "Failed"
                        \/ r \in k.inputs
                     THEN FALSE
                     ELSE IF r = k.pick /\ outcome = "Running" THEN TRUE ELSE cap[r]
    BY DEF ClaimCommit
  <2>2. r # 0
    BY RunsArePositive
  <2> HIDE DEF k
  <2>3. CASE r \in k.queued \cup k.leases
    <3>1. r \notin begun /\ r \in lapsed /\ status'[r] = "Failed"
      BY <2>1, <2>3 DEF BegunOf, LapsedOf
    <3>2. StageOf(r) # "asking"
      BY <1>2, <2>3 DEF StageOf, Executable
    <3> QED
      BY <3>1, <3>2 DEF StageOf, Promise!Lapsed
  <2>4. CASE r \notin k.queued \cup k.leases /\ r \in k.inputs
    <3>1. status[r] = "NeedsInput" /\ cap[r] /\ r # k.pick
      BY <1>2, <2>2, <2>4
    <3>2. status'[r] = "NeedsInput" /\ cap'[r] = FALSE
      BY <2>1, <2>4, <3>1
    <3>3. r \notin begun /\ r \in lapsed
      BY <2>4, <3>1 DEF BegunOf, LapsedOf
    <3> QED
      BY <3>1, <3>2, <3>3 DEF StageOf, Promise!Lapsed
  <2>5. CASE r \notin k.queued \cup k.leases \cup k.inputs /\ r = k.pick
    <3>1. status[r] = "Queued" /\ status'[r] = outcome
      BY <1>2, <2>1, <2>2, <2>5
    <3>2. CASE outcome = "Running"
      BY <2>2, <2>5, <3>1, <3>2 DEF BegunOf, StageOf
    <3>3. CASE outcome = "Failed"
      BY <2>2, <2>5, <3>1, <3>3 DEF BegunOf, LapsedOf, StageOf, Promise!Lapsed
    <3> QED
      BY <2>2, <2>5, <3>2, <3>3 DEF k
  <2>6. CASE r \notin k.queued \cup k.leases \cup k.inputs /\ r # k.pick
    <3>1. r \notin begun /\ r \notin lapsed
      BY <2>6 DEF BegunOf, LapsedOf
    <3>2. status'[r] = status[r]
      BY <2>1, <2>6
    <3>3. cap'[r] = cap[r]
      BY <2>1, <2>6
    <3> QED
      BY <3>1, <3>2, <3>3, SameStage
  <2> QED
    BY <2>3, <2>4, <2>5, <2>6
<1> HIDE DEF k, lapsed, begun
<1>8. Promise!Attend(lapsed, begun)
  <2>1. stage' = [r \in Runs |-> IF r \in begun THEN "working"
                                 ELSE IF r \in lapsed
                                      THEN Promise!Lapsed(stage[r])
                                      ELSE stage[r]]
    BY <1>7, Zenon DEF stage
  <2>2. \A r \in Runs : stage[r] = StageOf(r)
    BY DEF stage
  <2>3. Promise!AtWork = {r \in Runs : StageOf(r) \in {"working", "stopping", "asking"}}
    BY <2>2 DEF Promise!AtWork, stage
  <2>4. /\ \A r \in lapsed : stage[r] \in {"waiting", "working", "stopping", "asking"}
        /\ \A r \in begun : stage[r] = "waiting"
    BY <1>3, <1>4, <1>5, <2>2
  <2>5. begun # {} => Cardinality(Promise!AtWork \ lapsed) < SiteConcurrency
    BY <1>6, <2>3
  <2>6. /\ \A r \in lapsed : [q \in Runs |-> StageOf(q)][r]
                              \in {"waiting", "working", "stopping", "asking"}
        /\ \A r \in begun : [q \in Runs |-> StageOf(q)][r] = "waiting"
    BY <2>4 DEF stage
  <2>7. [r \in Runs |-> StageOf(r)]'
          = [r \in Runs |->
               IF r \in begun THEN "working"
               ELSE IF r \in lapsed
                    THEN Promise!Lapsed([q \in Runs |-> StageOf(q)][r])
                    ELSE [q \in Runs |-> StageOf(q)][r]]
    BY <2>1 DEF stage
  <2>8. Promise!Cardinality(Promise!AtWork \ lapsed) = Cardinality(Promise!AtWork \ lapsed)
    BY DEF Promise!Cardinality, Cardinality
  <2> QED
    BY <1>5, <2>5, <2>6, <2>7, <2>8 DEF Promise!Attend
<1> QED
  BY <1>3, <1>8

-----------------------------------------------------------------------------
\* Every other step leaves the messages where they are.
LEMMA OthersStand ==
  ASSUME TypeOK,
         \/ \E c \in Conversations :
              ArchiveCheck(c) \/ ArchiveSave(c) \/ RestoreSession(c)
         \/ \E r \in Runs : LoseGrant(r)
         \/ \E c \in Claimers : ClaimBegin(c) \/ ClaimAbort(c)
         \/ \E r \in Runs :
              \/ RenewLease(r) \/ ReserveModelCall(r) \/ OverBudget(r)
              \/ RefuseTool(r) \/ DetectLoop(r) \/ RecordRefusal(r)
              \/ ReportTimeout(r) \/ ReadSource(r)
         \/ WorkerHeartbeat \/ ClaimHeld \/ OpenHold \/ EndHold \/ Tick
         \/ UNCHANGED vars
  PROVE  stage' = stage
<1>1. UNCHANGED <<status, cap>>
  BY DEF ArchiveCheck, ArchiveSave, RestoreSession, LoseGrant, ClaimBegin,
         ClaimAbort, RenewLease, ReserveModelCall, OverBudget, RefuseTool,
         DetectLoop, Refuse, RecordRefusal, ReportTimeout, ReadSource,
         WorkerHeartbeat, ClaimHeld, OpenHold, EndHold, Tick, vars, runVars
<1> QED
  BY <1>1, NoMove

\* One step of anyone is a step of the promise or none.
LEMMA StepKeepsPromise ==
  ASSUME ClaimSafety, [Next]_vars
  PROVE  PromiseStep
<1> USE DEF ClaimSafety
<1>1. ASSUME NEW r \in Runs, NEW c \in Conversations, Send(r, c)
      PROVE  PromiseStep
  BY <1>1, SendSubmits DEF PromiseStep
<1>2. ASSUME NEW r \in Runs, Cancel(r) PROVE PromiseStep
  BY <1>2, CancelWithdraws DEF PromiseStep
<1>3. ASSUME NEW r \in Runs, RequestInput(r) PROVE PromiseStep
  BY <1>3, QuestionConcludes DEF PromiseStep
<1>4. ASSUME NEW r \in Runs,
             \E asked \in {"Succeeded", "Failed", "Cancelled", "NeedsInput"} :
               Finish(r, asked)
      PROVE  PromiseStep
  BY <1>4, FinishConcludes DEF PromiseStep
<1>5. ASSUME NEW c \in Claimers, ClaimNothing(c) \/ ClaimRun(c) \/ ClaimRefuse(c)
      PROVE  PromiseStep
  <2>1. \E outcome \in {"None", "Running", "Failed"} :
          ClaimCommit(c, outcome) /\ (outcome = "None" => claims[c].pick = 0)
    BY <1>5 DEF ClaimNothing, ClaimRun, ClaimRefuse
  <2> QED
    BY <2>1, CommitAttends DEF PromiseStep
<1> QED
  BY <1>1, <1>2, <1>3, <1>4, <1>5, OthersStand
     DEF Next, ClaimStep, ExecutorStep, PromiseStep

\* For any number of runs, owners, claims and any budgets, a Site keeps what
\* RunPromise promises: no claim begins a message beside more than the Site has
\* room for, and none is answered, revived or ruled otherwise after its end
\* (send_message, cancel_run, claim_run, run_tool and finish_run together).
THEOREM SiteKeepsPromise == Spec => PromiseKept
<1>1. Init => Promise!Init
  <2> SUFFICES ASSUME Init PROVE Promise!Init
    OBVIOUS
  <2>1. \A r \in Runs : StageOf(r) = "none"
    BY DEF Init, StageOf
  <2> QED
    BY <2>1 DEF Promise!Init
<1>2. ClaimSafety /\ [Next]_vars => [Promise!Next]_stage
  BY StepKeepsPromise DEF PromiseStep, Promise!Next
<1> QED
  BY <1>1, <1>2, Safety, PTL DEF Spec, PromiseKept, Promise!Spec, stage
=============================================================================
