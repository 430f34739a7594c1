----------------------------- MODULE RunLifecycle -----------------------------
(***************************************************************************)
(* One Site's DS Model Run rows: how a message becomes a queued run, how   *)
(* the runtime user claims it, what its executor may do with the run's     *)
(* capability, and how it ends.                                            *)
(*                                                                         *)
(*   frappe_app/dsherp_bridge/context_api.py        send_message, cancel_run *)
(*   frappe_app/dsherp_bridge/context_execution.py  claim_run, run_status,   *)
(*                 reserve_model_call, run_tool, record_run_event, finish_run *)
(*   frappe_app/dsherp_bridge/grants.py             the run's platform grant *)
(*                                                                         *)
(* Every request is one database transaction and one action, but for       *)
(* claim_run, which reads the table once and writes it at its end: its     *)
(* view and its commit are two actions and other requests run in between.  *)
(* A row changed since the view makes MariaDB refuse the claim's lock on   *)
(* it (innodb_snapshot_isolation) and the whole claim rolls back.          *)
(*                                                                         *)
(* Moments are kept as the ticks left until they pass, so no clock grows.  *)
(***************************************************************************)
EXTENDS Integers, FiniteSets

CONSTANTS
  Users,            \* members who own conversations
  Conversations,    \* DS Conversation rows
  NoConversation,   \* what a run not yet created belongs to
  Owner,            \* [Conversations -> Users]
  NumRuns,          \* bound: how many messages are ever sent
  Claimers,         \* claim_run requests that may be open at a time
  SiteConcurrency,  \* dsherp_site_concurrency
  SweepLimit,       \* SWEEP_LIMIT
  QueueExpires,     \* queue_expires_seconds, in ticks like those below
  ClaimAck,         \* claim_ack_seconds
  Lease,            \* lease_seconds
  RenewBelow,       \* lease_renew_below_seconds
  RunTotal,         \* run_total_seconds
  KillGrace,        \* what the host adds before it kills the container
  RulingSlack,      \* what finish_run forgives a reported timeout
  HeartbeatTicks,   \* heartbeat_stale_seconds
  MaxCalls,         \* model_max_calls
  SsoEnforced,      \* sso_enforced()
  Archivable,       \* bound: the conversations whose owners ever archive them
  FactKinds,        \* bound: the facts this instance lets the server record
  RefusalKinds      \* bound: those of them a refused request may leave

Runs == 1..NumRuns

Facts == {"attempted",    \* a recorded source, or a tool_refused event
          "over_budget",  \* a budget_exceeded event
          "loop",         \* a loop_detected event
          "timed_out"}    \* runtime_failed with reason run_total_exceeded

MaxAge == RunTotal + KillGrace

ASSUME OwnersAssumption ==
  /\ Owner \in [Conversations -> Users]
  /\ NoConversation \notin Conversations
  /\ Archivable \subseteq Conversations

ASSUME BudgetAssumption ==
  /\ {NumRuns, SiteConcurrency, SweepLimit, QueueExpires, ClaimAck, Lease,
      RenewBelow, RunTotal, HeartbeatTicks} \subseteq Nat \ {0}
  /\ {KillGrace, RulingSlack, MaxCalls} \subseteq Nat
  /\ RenewBelow < Lease
  /\ SsoEnforced \in BOOLEAN
  /\ FactKinds \subseteq Facts
  /\ RefusalKinds \subseteq FactKinds

VARIABLES
  status,   \* DS Model Run.status, "None" before the row exists
  conv,     \* DS Model Run.conversation
  expiry,   \* ticks until queue_expires_at while queued, until expires_at after
  age,      \* ticks since the claimed event, read while in flight
  cap,      \* whether capability_hash is set
  grant,    \* the run's entry in the Site cache
  facts,    \* what the server recorded about the run
  calls,    \* model_calls
  settled,  \* whether finish_run wrote the run's actual usage
  archive,  \* DS Conversation.archived, and a request past its check
  beat,     \* ticks for which the worker heartbeat stays fresh
  hold,     \* whether dsherp_hold_until lies ahead
  refusing, \* refusals rolled back whose event is not committed yet
  claims    \* the open claim_run transactions

runVars == <<status, conv, expiry, age, cap, grant, facts, calls, settled>>
aside == <<archive, beat, hold, refusing>>
vars == <<runVars, aside, claims>>

Statuses == {"None", "Queued", "Running", "Cancelling", "NeedsInput",
             "Succeeded", "Failed", "Cancelled", "BudgetExceeded"}
Terminal == {"Succeeded", "Failed", "Cancelled", "BudgetExceeded"}
Executable == {"Running", "Cancelling"}

\* "none": submitted without a platform session; "lost": expired or flushed
Grants == {"none", "held", "lost", "dropped"}

\* What an open claim holds: the rows each sweep found, the run it would hand
\* out (0: none), the ticks since its `now`, and those rows changed by others.
ClaimViews ==
  [open : BOOLEAN, queued : SUBSET Runs, leases : SUBSET Runs,
   inputs : SUBSET Runs, pick : 0..NumRuns, age : 0..ClaimAck,
   stale : SUBSET Runs]

NoClaim == [open |-> FALSE, queued |-> {}, leases |-> {}, inputs |-> {},
            pick |-> 0, age |-> 0, stale |-> {}]

TypeOK ==
  /\ status \in [Runs -> Statuses]
  /\ conv \in [Runs -> Conversations \cup {NoConversation}]
  /\ expiry \in [Runs -> Nat]
  /\ age \in [Runs -> 0..MaxAge]
  /\ cap \in [Runs -> BOOLEAN]
  /\ grant \in [Runs -> Grants]
  /\ facts \in [Runs -> SUBSET Facts]
  /\ calls \in [Runs -> 0..MaxCalls]
  /\ settled \in [Runs -> BOOLEAN]
  /\ archive \in [Conversations -> {"open", "checked", "archived"}]
  /\ beat \in 0..HeartbeatTicks
  /\ hold \in BOOLEAN
  /\ refusing \in [Runs -> SUBSET Facts]
  /\ claims \in [Claimers -> ClaimViews]

Init ==
  /\ status = [r \in Runs |-> "None"]
  /\ conv = [r \in Runs |-> NoConversation]
  /\ expiry = [r \in Runs |-> 0]
  /\ age = [r \in Runs |-> 0]
  /\ cap = [r \in Runs |-> FALSE]
  /\ grant = [r \in Runs |-> "none"]
  /\ facts = [r \in Runs |-> {}]
  /\ calls = [r \in Runs |-> 0]
  /\ settled = [r \in Runs |-> FALSE]
  /\ archive = [c \in Conversations |-> "open"]
  /\ beat = 0
  /\ hold = FALSE
  /\ refusing = [r \in Runs |-> {}]
  /\ claims = [c \in Claimers |-> NoClaim]

-----------------------------------------------------------------------------
\* A run some executor may still be working on: it holds a session directory.
InFlight(r) == status[r] \in Executable \/ (status[r] = "NeedsInput" /\ cap[r])

InFlightRuns == {r \in Runs : InFlight(r)}

\* What the owner's transcript calls active.
Active(r) == status[r] = "Queued" \/ InFlight(r)

OwnerOf(r) == Owner[conv[r]]

\* Variation: the capability alone, whatever became of its lease.
HoldsCapability(r) == status[r] \in Executable \cup {"NeedsInput"} /\ cap[r]

\* The capability check every executor endpoint passes first.
Executing(r) ==
  /\ status[r] \in Executable \cup {"NeedsInput"}
  /\ cap[r]
  /\ expiry[r] > 0

\* The executor still acts for the owner; what else a permission check may find
\* is the choice between an action and the refusal of it.
ActorAllowed(r) == SsoEnforced => grant[r] = "held"

\* The rows a claim locks or writes, and the claims that saw rows now changed.
Written(k) == k.queued \cup k.leases \cup k.inputs \cup ({k.pick} \ {0})

TouchedClaims(rows) ==
  [c \in Claimers |->
     IF claims[c].open
     THEN [claims[c] EXCEPT !.stale = @ \cup (rows \cap Written(claims[c]))]
     ELSE claims[c]]

Drop(g) == IF g = "none" THEN "none" ELSE "dropped"

-----------------------------------------------------------------------------
\* Owners.

\* Variation: only what waits or runs counts, not what is stopping or asking.
ConversationQuiet(c) ==
  \A s \in Runs : conv[s] = c => status[s] \notin {"Queued", "Running"}

ConversationFree(c) == \A s \in Runs : conv[s] = c => ~Active(s)

\* A message: refused while no worker is known alive, and in a conversation
\* that is archived or busy.
Send(r, c) ==
  /\ status[r] = "None"
  /\ \A s \in Runs : s < r => status[s] # "None"
  /\ beat > 0
  /\ archive[c] # "archived"
  /\ ConversationFree(c)
  /\ status' = [status EXCEPT ![r] = "Queued"]
  /\ conv' = [conv EXCEPT ![r] = c]
  /\ expiry' = [expiry EXCEPT ![r] = QueueExpires]
  /\ \E g \in {"held"} \cup (IF SsoEnforced THEN {} ELSE {"none"}) :
       grant' = [grant EXCEPT ![r] = g]
  /\ UNCHANGED <<age, cap, facts, calls, settled, aside, claims>>

\* Variation: the queued run's authorization stays on file.
CancelOnly(r) ==
  /\ status[r] = "Queued"
  /\ status' = [status EXCEPT ![r] = "Cancelled"]
  /\ expiry' = [expiry EXCEPT ![r] = 0]
  /\ claims' = TouchedClaims({r})
  /\ UNCHANGED <<conv, age, cap, grant, facts, calls, settled, aside>>

Cancel(r) ==
  /\ status[r] \in {"Queued", "Running"}
  /\ IF status[r] = "Queued"
     THEN /\ status' = [status EXCEPT ![r] = "Cancelled"]
          /\ expiry' = [expiry EXCEPT ![r] = 0]
          /\ grant' = [grant EXCEPT ![r] = Drop(@)]
     ELSE /\ status' = [status EXCEPT ![r] = "Cancelling"]
          /\ UNCHANGED <<expiry, grant>>
  /\ claims' = TouchedClaims({r})
  /\ UNCHANGED <<conv, age, cap, facts, calls, settled, aside>>

\* archive_session reads the runs without a lock, and saves the conversation.
ArchiveCheck(c) ==
  /\ c \in Archivable
  /\ archive[c] = "open"
  /\ \E r \in Runs : conv[r] = c
  /\ ConversationFree(c)
  /\ archive' = [archive EXCEPT ![c] = "checked"]
  /\ UNCHANGED <<runVars, beat, hold, refusing, claims>>

ArchiveSave(c) ==
  /\ archive[c] = "checked"
  /\ archive' = [archive EXCEPT ![c] = "archived"]
  /\ UNCHANGED <<runVars, beat, hold, refusing, claims>>

RestoreSession(c) ==
  /\ archive[c] = "archived"
  /\ archive' = [archive EXCEPT ![c] = "open"]
  /\ UNCHANGED <<runVars, beat, hold, refusing, claims>>

-----------------------------------------------------------------------------
\* The worker, as the Site's runtime user.

WorkerHeartbeat ==
  /\ beat' = HeartbeatTicks
  /\ UNCHANGED <<runVars, archive, hold, refusing, claims>>

\* A backup window freezes the queue; the claim leaves only its heartbeat.
ClaimHeld ==
  /\ hold
  /\ beat' = HeartbeatTicks
  /\ UNCHANGED <<runVars, archive, hold, refusing, claims>>

Oldest(S) == {r \in S : Cardinality({s \in S : s < r}) < SweepLimit}

\* Variation: no lock on the runtime user's row.
NoClaimLock == TRUE

ClaimsUnlocked == \A d \in Claimers : ~claims[d].open

\* Variations: the backlog is left to the candidates' own filter; a run being
\* cancelled is left to its executor.
NoQueueExpired == {}
RunningExpired == {r \in Runs : status[r] = "Running" /\ expiry[r] = 0}

QueueExpired == {r \in Runs : status[r] = "Queued" /\ expiry[r] = 0}
LeaseExpired == {r \in Runs : status[r] \in Executable /\ expiry[r] = 0}
InputExpired ==
  {r \in Runs : status[r] = "NeedsInput" /\ cap[r] /\ expiry[r] = 0}

\* Variation: a run that asked for input no longer counts.
ExecutableRuns == {r \in Runs : status[r] \in Executable}

\* The rows whose owners are busy and that count against the Site.
ClaimActive ==
  {r \in Runs : status[r] \in Executable}
    \cup {r \in Runs : status[r] = "NeedsInput" /\ cap[r]}

\* The oldest queued run of an owner who is not busy, while the Site has room;
\* the claim's own sweeps are already visible to it.
ClaimPick ==
  LET active == ClaimActive \ (Oldest(LeaseExpired) \cup Oldest(InputExpired))
      candidates == {r \in Runs : /\ status[r] = "Queued"
                                  /\ expiry[r] > 0
                                  /\ \A s \in active : OwnerOf(s) # OwnerOf(r)}
  IN IF candidates = {} \/ Cardinality(active) >= SiteConcurrency
     THEN {0}
     ELSE {r \in candidates : \A s \in candidates : r <= s}

\* claim_run past its gate, up to its view of the table.
ClaimBegin(c) ==
  /\ ~hold
  /\ ClaimsUnlocked
  /\ beat' = HeartbeatTicks
  /\ \E pick \in ClaimPick :
       claims' = [claims EXCEPT ![c] =
         [open |-> TRUE, queued |-> Oldest(QueueExpired),
          leases |-> Oldest(LeaseExpired), inputs |-> Oldest(InputExpired),
          pick |-> pick, age |-> 0, stale |-> {}]]
  /\ UNCHANGED <<runVars, archive, hold, refusing>>

\* Variation: the claim's writes land on whatever the rows have become.
AnyView(k) == TRUE

\* No row the claim locks or writes has changed since its view.
FreshView(k) == Written(k) \cap k.stale = {}

\* The claim's writes: its sweeps, and the run it hands out or gives up on.
ClaimCommit(c, outcome) ==
  LET k == claims[c]
      swept == k.queued \cup k.leases
      Closed(r) == r \in swept \/ (r = k.pick /\ outcome = "Failed")
      Started(r) == r = k.pick /\ outcome = "Running"
  IN /\ k.open
     /\ FreshView(k)
     /\ status' = [r \in Runs |-> IF r \in swept THEN "Failed"
                                  ELSE IF r = k.pick THEN outcome
                                  ELSE status[r]]
     /\ cap' = [r \in Runs |-> IF Closed(r) \/ r \in k.inputs THEN FALSE
                               ELSE IF Started(r) THEN TRUE ELSE cap[r]]
     /\ expiry' = [r \in Runs |-> IF Started(r) THEN ClaimAck - k.age
                                  ELSE IF Closed(r) THEN 0 ELSE expiry[r]]
     /\ age' = [r \in Runs |-> IF r \in Written(k) THEN 0 ELSE age[r]]
     /\ grant' = [r \in Runs |-> IF Closed(r) THEN Drop(grant[r]) ELSE grant[r]]
     /\ claims' = [TouchedClaims(Written(k)) EXCEPT ![c] = NoClaim]
     /\ UNCHANGED <<conv, facts, calls, settled, aside>>

ClaimNothing(c) == claims[c].pick = 0 /\ ClaimCommit(c, "None")

ClaimRun(c) ==
  /\ claims[c].pick # 0
  /\ ActorAllowed(claims[c].pick)
  /\ ClaimCommit(c, "Running")

\* The owner may no longer read what the conversation rests on.
ClaimRefuse(c) == claims[c].pick # 0 /\ ClaimCommit(c, "Failed")

\* A stale row, a lost connection: the rows roll back, the cache does not.
ClaimAbort(c) ==
  LET k == claims[c]
  IN /\ k.open
     /\ \E gone \in SUBSET ((k.queued \cup k.leases) \ k.stale) :
          grant' = [r \in Runs |->
                      IF r \in gone THEN Drop(grant[r]) ELSE grant[r]]
     /\ claims' = [claims EXCEPT ![c] = NoClaim]
     /\ UNCHANGED <<status, conv, expiry, age, cap, facts, calls, settled,
                    aside>>

-----------------------------------------------------------------------------
\* The executor: whoever holds the run's capability.

\* run_status, polled by the container as long as the host lets it live.
RenewLease(r) ==
  /\ Executing(r)
  /\ status[r] \in Executable
  /\ age[r] < MaxAge
  /\ expiry[r] < RenewBelow
  /\ expiry' = [expiry EXCEPT ![r] = Lease]
  /\ claims' = TouchedClaims({r})
  /\ UNCHANGED <<status, conv, age, cap, grant, facts, calls, settled, aside>>

\* Variations: loops only recorded; the member's authorization asked at the
\* claim alone.
SpendInLoop(r) ==
  status[r] = "Running" /\ ActorAllowed(r) /\ calls[r] < MaxCalls
SpendUnasked(r) ==
  status[r] = "Running" /\ "loop" \notin facts[r] /\ calls[r] < MaxCalls

MaySpend(r) ==
  /\ status[r] = "Running"
  /\ ActorAllowed(r)
  /\ "loop" \notin facts[r]
  /\ calls[r] < MaxCalls

ReserveModelCall(r) ==
  /\ Executing(r)
  /\ MaySpend(r)
  /\ calls' = [calls EXCEPT ![r] = @ + 1]
  /\ claims' = TouchedClaims({r})
  /\ UNCHANGED <<status, conv, expiry, age, cap, grant, facts, settled, aside>>

\* A refusal first rolls its request back, and with it the lock on the row ...
Refuse(r, fact) ==
  /\ Executing(r)
  /\ fact \in RefusalKinds \ refusing[r]
  /\ refusing' = [refusing EXCEPT ![r] = @ \cup {fact}]
  /\ UNCHANGED <<runVars, archive, beat, hold, claims>>

OverBudget(r) == status[r] = "Running" /\ Refuse(r, "over_budget")

RefuseTool(r) == Refuse(r, "attempted")

DetectLoop(r) == Refuse(r, "loop")

\* ... and then commits its event alone, whatever became of the run; one that
\* cannot be committed is lost.
RecordRefusal(r) ==
  /\ \E fact \in refusing[r] :
       /\ facts' = [facts EXCEPT ![r] = @ \cup {fact}]
       /\ refusing' = [refusing EXCEPT ![r] = @ \ {fact}]
  /\ UNCHANGED <<status, conv, expiry, age, cap, grant, calls, settled, archive,
                 beat, hold, claims>>

\* record_run_event: the runner's own word, believed only by Ruling below.
ReportTimeout(r) ==
  /\ Executing(r)
  /\ "timed_out" \in FactKinds
  /\ facts' = [facts EXCEPT ![r] = @ \cup {"timed_out"}]
  /\ UNCHANGED <<status, conv, expiry, age, cap, grant, calls, settled, aside,
                 claims>>

\* A tool that read something: its source is a column of the run row.
ReadSource(r) ==
  /\ Executing(r)
  /\ status[r] = "Running"
  /\ ActorAllowed(r)
  /\ facts' = [facts EXCEPT ![r] = @ \cup ({"attempted"} \cap FactKinds)]
  /\ claims' = TouchedClaims({r})
  /\ UNCHANGED <<status, conv, expiry, age, cap, grant, calls, settled, aside>>

RequestInput(r) ==
  /\ Executing(r)
  /\ status[r] = "Running"
  /\ ActorAllowed(r)
  /\ status' = [status EXCEPT ![r] = "NeedsInput"]
  /\ claims' = TouchedClaims({r})
  /\ UNCHANGED <<conv, expiry, age, cap, grant, facts, calls, settled, aside>>

Ruling(r) ==
  IF \/ facts[r] \cap {"loop", "over_budget"} # {}
     \/ "timed_out" \in facts[r] /\ age[r] >= RunTotal - RulingSlack
  THEN "BudgetExceeded" ELSE "Failed"

\* Variation: the success of a run its owner asked to stop.
VerdictAsAsked(r, asked) == IF asked = "Failed" THEN Ruling(r) ELSE asked

\* The status finish_run writes for the one its caller asked for.
Verdict(r, asked) ==
  IF asked = "Failed" THEN Ruling(r)
  ELSE IF asked = "Succeeded" /\ status[r] = "Cancelling" THEN "Cancelled"
  ELSE asked

MayFinish(r, asked) ==
  \/ asked = "Failed"
  \/ asked = "Cancelled" /\ status[r] = "Cancelling"
  \/ asked = "NeedsInput" /\ status[r] = "NeedsInput"
  \/ /\ asked = "Succeeded"
     /\ status[r] \in Executable
     /\ "attempted" \in facts[r]
     /\ ActorAllowed(r)

Finish(r, asked) ==
  /\ Executing(r)
  /\ MayFinish(r, asked)
  /\ status' = [status EXCEPT ![r] = Verdict(r, asked)]
  /\ cap' = [cap EXCEPT ![r] = FALSE]
  /\ expiry' = [expiry EXCEPT ![r] = 0]
  /\ age' = [age EXCEPT ![r] = 0]
  /\ grant' = [grant EXCEPT ![r] = Drop(@)]
  /\ settled' = [settled EXCEPT ![r] = TRUE]
  /\ claims' = TouchedClaims({r})
  /\ UNCHANGED <<conv, facts, calls, aside>>

-----------------------------------------------------------------------------
\* The surroundings.

\* A cache flush, or the entry's own lifetime.
LoseGrant(r) ==
  /\ grant[r] = "held"
  /\ grant' = [grant EXCEPT ![r] = "lost"]
  /\ UNCHANGED <<status, conv, expiry, age, cap, facts, calls, settled, aside,
                 claims>>

OpenHold ==
  /\ ~hold
  /\ hold' = TRUE
  /\ UNCHANGED <<runVars, archive, beat, refusing, claims>>

\* The host closes the window, or its epoch second passes.
EndHold ==
  /\ hold
  /\ hold' = FALSE
  /\ UNCHANGED <<runVars, archive, beat, refusing, claims>>

Less(n) == IF n > 0 THEN n - 1 ELSE 0

Tick ==
  /\ expiry' = [r \in Runs |-> Less(expiry[r])]
  /\ age' = [r \in Runs |-> IF InFlight(r) /\ age[r] < MaxAge
                            THEN age[r] + 1 ELSE age[r]]
  /\ beat' = Less(beat)
  /\ claims' = [c \in Claimers |->
                  IF claims[c].open /\ claims[c].age < ClaimAck
                  THEN [claims[c] EXCEPT !.age = @ + 1] ELSE claims[c]]
  /\ UNCHANGED <<status, conv, cap, grant, facts, calls, settled, archive, hold,
                 refusing>>

ClaimStep(c) ==
  \/ ClaimBegin(c) \/ ClaimNothing(c) \/ ClaimRun(c) \/ ClaimRefuse(c)
  \/ ClaimAbort(c)

ExecutorStep(r) ==
  \/ RenewLease(r) \/ ReserveModelCall(r) \/ OverBudget(r) \/ RefuseTool(r)
  \/ DetectLoop(r) \/ RecordRefusal(r) \/ ReportTimeout(r) \/ ReadSource(r)
  \/ RequestInput(r)
  \/ \E asked \in {"Succeeded", "Failed", "Cancelled", "NeedsInput"} :
       Finish(r, asked)

Next ==
  \/ \E r \in Runs, c \in Conversations : Send(r, c)
  \/ \E c \in Conversations :
       ArchiveCheck(c) \/ ArchiveSave(c) \/ RestoreSession(c)
  \/ \E r \in Runs : Cancel(r) \/ ExecutorStep(r) \/ LoseGrant(r)
  \/ \E c \in Claimers : ClaimStep(c)
  \/ WorkerHeartbeat \/ ClaimHeld \/ OpenHold \/ EndHold \/ Tick

Spec == Init /\ [][Next]_vars

\* The host's service manager keeps the worker polling, a window's epoch second
\* passes, and a claim does not fail for ever. Nothing is assumed of executors,
\* containers or owners: they may stop at any point.
Fairness ==
  /\ WF_vars(Tick)
  /\ WF_vars(EndHold)
  /\ SF_vars(\E c \in Claimers : ClaimBegin(c))
  /\ \A c \in Claimers :
       /\ SF_vars(ClaimNothing(c) \/ ClaimRun(c) \/ ClaimRefuse(c))
       /\ WF_vars(ClaimAbort(c) /\ ~FreshView(claims[c]))

FairSpec == Spec /\ Fairness

-----------------------------------------------------------------------------
(* What must hold. *)

\* Only a run somebody executes, or one that just asked for input, has its
\* capability on file.
CapabilityInv ==
  \A r \in Runs :
    /\ status[r] \in Executable => cap[r]
    /\ cap[r] => status[r] \in Executable \cup {"NeedsInput"}

ViewInv(k) ==
  /\ \A r \in Written(k) : status[r] # "None"
  /\ \A r \in (k.queued \cup ({k.pick} \ {0})) \ k.stale : status[r] = "Queued"
  /\ \A r \in k.leases \ k.stale : status[r] \in Executable
  /\ \A r \in k.inputs \ k.stale : status[r] = "NeedsInput" /\ cap[r]

StayingRuns(k) == InFlightRuns \ (k.leases \cup k.inputs)

RoomInv(k) ==
  k.pick # 0 => /\ Cardinality(StayingRuns(k)) < SiteConcurrency
                /\ \A r \in StayingRuns(k) : OwnerOf(r) # OwnerOf(k.pick)

\* The invariant behind the next two: what an open claim decided on its view
\* still holds of every row it will write and nobody else has written since, and
\* the room it found is still there, because only one claim is open at a time
\* (claim_run's lock on the runtime user's row) and nothing else starts a run.
ClaimInvariant ==
  /\ CapabilityInv
  /\ \A c, d \in Claimers : claims[c].open /\ claims[d].open => c = d
  /\ \A c \in Claimers : claims[c].open => ViewInv(claims[c]) /\ RoomInv(claims[c])

\* Never more executors than the Site allows, whatever claims overlap
\* (claim_run counts the runs in flight under the runtime user's row lock).
SiteCapacity == Cardinality(InFlightRuns) <= SiteConcurrency

\* No owner has two runs in flight: a run that asked for input still holds its
\* native session until its executor hands it back (claim_run, busy_owners).
OwnerExclusive ==
  \A r, s \in InFlightRuns : OwnerOf(r) = OwnerOf(s) => r = s

\* A conversation has one active run at a time, although send_message looks,
\* and claims, sweeps, cancels and finishes move the others' states.
ConversationSerial ==
  \A r, s \in Runs : Active(r) /\ Active(s) /\ conv[r] = conv[s] => r = s

\* What a run's row means to the owner of its message.
StageOf(r) ==
  CASE status[r] = "None" -> "none"
    [] status[r] = "Queued" -> "waiting"
    [] status[r] = "Running" -> "working"
    [] status[r] = "Cancelling" -> "stopping"
    [] status[r] = "NeedsInput" -> IF cap[r] THEN "asking" ELSE "asked"
    [] status[r] = "Succeeded" -> "answered"
    [] status[r] = "Cancelled" -> "cancelled"
    [] status[r] \in {"Failed", "BudgetExceeded"} -> "failed"

Promise == INSTANCE RunPromise WITH
  Room <- SiteConcurrency, stage <- [r \in Runs |-> StageOf(r)]

\* A message is worked on while the Site has room, stopped when its owner says
\* so, and ended once: no late claim, sweep, cancel or write back begins a run
\* beside others, revives a closed one or changes its outcome, also not that of
\* a question handed to its owner (RunPromise, implemented by Next).
PromiseKept == Promise!Spec

\* Once its owner asked for a stop, no answer and no question comes back: a
\* success written back after it is recorded as the cancellation it is.
CancelHonoured ==
  [][\A r \in Runs : status[r] = "Cancelling" =>
       status'[r] \in {"Cancelling", "Cancelled", "Failed", "BudgetExceeded"}
  ]_vars

\* Past its lease a run is inert: nobody spends, reads, renews or concludes
\* with its capability any more, and only a sweep ends it; all that may still
\* arrive is the event of a refusal made in time.
ExpiredIsInert ==
  [][\A r \in InFlightRuns : expiry[r] = 0 =>
       /\ calls'[r] = calls[r] /\ expiry'[r] = 0
       /\ facts'[r] \subseteq facts[r] \cup refusing[r]
       /\ status'[r] \in {status[r], "Cancelling", "Failed"}]_vars

\* No model call is reserved once the run was cancelled, asked for input,
\* ended, had its usage settled, spent its calls, or was caught repeating itself
\* (reserve_model_call).
NoSpendAfterStop ==
  [][\A r \in Runs : calls'[r] # calls[r] =>
       /\ status[r] = "Running" /\ ~ settled[r]
       /\ "loop" \notin facts[r]
       /\ calls'[r] <= MaxCalls]_vars

\* No terminal run has its member's authorization on file (grants.py).
GrantDropped == \A r \in Runs : status[r] \in Terminal => grant[r] # "held"

\* "Losing it early (a cache flush) fails the run closed at its next check; it
\* never lets the run continue unasked" (grants.py).
LostGrantFailsClosed ==
  [][\A r \in Runs : grant[r] \in {"lost", "dropped"} =>
       /\ calls'[r] = calls[r]
       /\ status'[r] \notin {"Running", "NeedsInput", "Succeeded"} \ {status[r]}
  ]_vars

\* "An active run must end before its conversation can be archived": an archived
\* conversation is read-only, no run of it is waiting or working.
ArchivedIsQuiet ==
  \A c \in Conversations : archive[c] = "archived" => ConversationFree(c)

\* Every queued message is claimed, refused or told it waited too long.
QueuedLeaves == \A r \in Runs : status[r] = "Queued" ~> status[r] # "Queued"

\* Every claimed run ends, whatever becomes of its container and its worker's
\* requests: a dead or endless executor cannot hold its owner and the Site.
InFlightEnds == \A r \in Runs : InFlight(r) ~> ~InFlight(r)
=============================================================================
