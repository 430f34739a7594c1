# Verification of dsherp

dsherp is an assistant for ERPNext. A member writes a message on a Site; a host
worker claims the resulting *run*, executes it in an isolated container against
a model provider, and the container reads ERP data and proposes operations with
nothing but the run's *capability*. What an operation writes happens only when
its owner confirms the frozen *proposal*. This directory holds TLA+ models of
that machinery, the TLC configurations that check them, and TLAPS proofs.

Paths below are relative to the repository; `bridge/` abbreviates
`frappe_app/dsherp_bridge/`.

## 1. The system

| Part | Where | State it keeps | Operations |
|---|---|---|---|
| Run lifecycle | `bridge/context_api.py`, `context_execution.py`, `grants.py` | DS Model Run and DS Conversation rows, DS Run Event rows, the run's platform grant and the worker heartbeat in the cache, the hold gate in the Site configuration | `send_message`, `cancel_run`, `archive_session`, `restore_session`; `worker_heartbeat`, `claim_run`; `run_status`, `reserve_model_call`, `run_tool`, `record_run_event`, `finish_run` |
| Proposals | `bridge/operations.py` | DS Operation Proposal, DS Execution Record, the business documents | `propose_*`, `confirm`, `reject`, `expire_proposals`, `get_proposal` |
| Configuration execution | `bridge/configuration_execution.py`, `configuration_locks.py`, `configuration.py` | bundles, confirmations, executions with steps, advisory locks | confirm preview and publish, native saves, first business records |
| Budgets, events, usage | `bridge/run_budget.py`, `context_events.py`, `usage.py` | Site configuration, event rows, settled columns | read by the first two |
| Worker coordinator | `dsherp/context_worker.py`, `provider_circuit.py` | slots, per Site failure counters and skips, the circuit and its trial | `tick`, `run_claimed`, `record`, `allow` |
| Container runtime | `runtime/context-plugin.cjs`, `model-guard.cjs`, `prompt-sections.cjs` | native sessions, the one writer's reservation, the guard's flag, pinned files | `session/open`, `session/prompt`, `dsherp/session/cancel`, `shutdown`, the guard around each provider call |
| Executor | `dsherp/context_runner.py` | a polling loop, a poisoned flag | polls, reserves, calls tools, writes back |
| Conversation page | `frontend/src/AgentWorkbench.jsx`, `context-api.js` | rail, search, selection, the shown conversation, draft, generations | search, choose, send, cancel, archive, poll |
| Drawer and cards | `frontend/src/ContextSidebar.jsx`, `OperationProposal.jsx`, `ConfigurationProposal.jsx`, `ConfigurationBundle.jsx`, `form-fill.js` | the shown conversation, one ticket, the page's unsaved fields, each card's claim and answer, the open native draft | open, close, send, poll; confirm, reject, verify, fill |
| Building prototype | `frontend/src/App.jsx`, `model.js` | one record of tenant, role, candidate, confirmation, report and history | the reducer's events, as the pages offer them |
| Configuration transfer | `bridge/configuration_transfer.py`, `configuration_transport.py` | transfers and their window, a grant in the cache | prepare, accept, export, receipt |
| Login and membership | `bridge/sso.py`, `frappe_app/dsherp_platform/` | OAuth identities, memberships | validate a grant |
| Host commands | `dsherp/admin.py`, `backup.py`, `restore_drill.py`, `release_*` | files, docker, bench | run by hand or by timers |

How they interact: browser to Site by HTTP (page, drawer and cards poll and may
lose any answer); worker to every Site by HTTP as the Site's runtime user
(heartbeat, claim) and, with the capability it was handed, as the executor
(events, finish); container to Site by HTTP with the same capability, at the
same time as the worker. The Sites' shared state is MariaDB (repeatable read;
`innodb_snapshot_isolation` refuses a lock or a write on a row changed since the
transaction's view), its advisory locks, and a Redis cache that takes no part in
transactions. Nothing is pushed.

What is hard in it, and what makes it correct:

- **claim_run** reads the whole table once and then sweeps, counts and picks by
  that view, while owners cancel and executors write back. Correct: never more
  executors than the Site allows, never two for one owner, no closed run
  revived, every queued run leaves the queue, every claimed run ends.
- **Leases.** Executors, containers and responses get lost. Correct: past its
  lease a capability is inert, and a lease cannot be renewed for ever.
- **Verdicts.** A run's end is ruled from what the server itself recorded.
  Correct: a cancelled run gives no answer, a looping run spends nothing more, a
  closed run has no authorization on file.
- **confirm** makes its intent durable, then does the business write and its
  evidence in one transaction, then, when that failed, records the failure in a
  third. Correct: at most one write whatever dies or repeats, evidence exactly
  when the write is durable, on the version that was confirmed, and nothing an
  owner saw turns out false.
- **Configuration execution** runs native DDL that commits by itself, document
  by document. Correct: its record tells what is there wherever it stopped,
  nobody changes its structures across its commits, it stops when the rights or
  the preview it was confirmed on are withdrawn.
- **The coordinator** decides from counters and a circuit fed by outcomes that
  arrive late. Correct: a trial is never lost, a Site that answers heartbeats
  and fails every claim is left alone, an open circuit is probed.
- **The container** opens sessions and calls the model across awaits. Correct:
  one writer, nothing native outlives the teardown, nothing is asked of the
  provider after a refusal.
- **The pages** know only what late answers tell. Correct: what is shown is what
  is selected, a draft goes out once, a drawer never hangs, a card never claims
  what did not happen.

`PROJECT.json` lists the hazards at their lines.

## 2. The modules

**RunLifecycle.tla** is one Site. Each request is one action because it is one
database transaction that locks the row it decides on (`_run` and `cancel_run`
read `FOR UPDATE`, `send_message` and `cancel_run` hold the owner's User row;
`run_status` does not lock, but a row changed since its view refuses its write).
The exceptions are modelled as such:

- `claim_run` is two actions: `ClaimBegin`, its lock on the runtime user's row
  and its view of the table (which rows each sweep takes, the oldest first and
  at most `SweepLimit`; which run it picks), and `ClaimCommit`, its writes. Any
  other request may run in between, and several claims may be open as far as the
  lock lets them (`ClaimsUnlocked`). A row the claim will lock or write that
  another request changed is put in the claim's `stale` set (`TouchedClaims`);
  the claim then cannot commit (`FreshView`) and rolls back (`ClaimAbort`),
  except for the grants it already dropped from the cache.
- `_refuse` rolls its request back, which gives the row lock up, and commits its
  event afterwards: `Refuse`, then `RecordRefusal` at any later moment, or never.
- `archive_session` takes no lock: `ArchiveCheck`, then `ArchiveSave`.

| Variable | Code |
|---|---|
| `status`, `conv`, `cap`, `calls` | DS Model Run `status`, `conversation`, whether `capability_hash` is set, `model_calls` |
| `expiry` | ticks until `queue_expires_at` (queued) or `expires_at` (claimed) |
| `age` | ticks since the `claimed` event |
| `grant` | the cache entry `dsherp_run_grant:<run>`: never there, held, lost by a flush or its lifetime, dropped by the code |
| `facts`, `refusing` | the events and sources decisions read; refusals not committed yet |
| `settled` | `finish_run` wrote the run's actual usage |
| `archive` | DS Conversation `archived`, and an archive request past its check |
| `beat`, `hold` | `dsherp_worker_heartbeat`, `dsherp_hold_until` |
| `claims` | the open `claim_run` transactions |

The executor side is deliberately unconstrained: whoever holds the capability
may call any endpoint in any order, repeat it, or stop. That covers the
container and the worker acting at once, lost responses, retries and deaths.
What is bounded is what the host does for certain: it kills the container
`KillGrace` after `RunTotal` (`run_claimed`'s timeout), after which nobody polls
`run_status` (`RenewLease`'s bound on `age`).

**RunPromise.tla** is what a Site promises the owner of a message, with claims,
leases, capabilities and time abstracted away: it waits, is worked on while there
is room, ends once, and a withdrawn one gives no answer. RunLifecycle implements
it: `Promise == INSTANCE RunPromise WITH stage <- ...`, checked as the property
`PromiseKept` and proved.

**OperationProposal.tla** is one Site's proposals. `Intend`, `Begin`, `Save`,
`Succeed` / `Fail`, `RecordFailure` are `confirm` cut at its commits and at the
locks it may wait for; `Crash` ends it after any of them. The proposal's row is
locked from `Begin` to the end of that transaction (`ProposalFree`), the target
document from the business method on (`DocumentFree`); `reject`, the expiry
sweep and other people's saves wait for those locks and for nothing else. The
four `Kinds` differ in what `confirm` locks and writes. `told` records what the
owner was shown, by `get_proposal` or by a confirmation.

**OperationPromise.tla** is what a Site promises the owner of a proposal, with
requests, transactions, locks and deaths abstracted away: it is withdrawn or
confirmed once, carried out in one stroke on the version it was made for or not
at all, and its owner is told what became of it. OperationProposal implements it
with `stage` read from the execution record where there is one (`Standing`), as
`get_proposal` does: a proposal is *confirmed* from the durable intent on, its
native save is invisible until the commit that also writes the evidence, and a
rejection that slips in behind the intent changes nothing. Checked as
`PromiseKept` and proved.

**ConfigurationExecution.tla** is `_confirm` of a configuration package: `Ask`
(all it reads by its first view, the baseline among it), `Intend` (advisory
locks and the durable intent), then per document `Announce` (the step recorded
as Running), `Begin` (rights, receipt and records looked at once more), `Insert`
(native; DDL commits by itself, masters and workflows do not) and `Record`;
`Stop` when anything raises, `Crash` anywhere. `written` is what is durable on
the Site because of a package, `steps` what its execution says. Native saves
(`Save`) and first business records (`CreateRecord`) meet the locks; rights and
receipts are withdrawn at any moment (`Withdraw`).

**Coordinator.tla** is the worker's loop and the circuit breaker. A tick is cut
at its locks and calls: heartbeats, gate, probe, `allow`, the claims; runs end on
their threads between any two of them and tell the breaker (`RunEnds`). `missed`
is history: claims of a Site that failed in a row.

**ContainerRuntime.tla** is the plugins in the container: starting, opening and
replacing a session across two awaits (`Reserve` inside `Open`, `Listed`,
`Native`), shutdown and teardown, and the guard: a model call is *reserving*,
*streaming* or *finished*, with the pinned files and the disabled flag looked at
around each await. `refused` is history.

**Workbench.tla** is the conversation page. A handler runs to its first await in
one step, with React's commit and effect clean-ups; what follows an await runs
when the answer arrives. Generations only serve to tell whether a ticket is the
newest, so each call carries that as a flag. The rail's updates (`filter`,
`patch`, a page put behind the rows shown) keep some rows in their order: `Kept`
says which, as a sequence of positions rather than a recursion, so that the
provers can read it. **Sidebar.tla** is the drawer in
the same style with its single ticket; **SidebarCards.tla** composes it with the
cards it shows (`Next` is a drawer step with what it does to the card, or a step
of the card): late answers, requests whose end is unknown, the native draft
under a form fill. The drawer's `page` is the page as a handler captured it last
(`setPage` in `show`, `send` and the poll); `route` is the one the user is on. A
card stays over a poll (`CardStays`), except that a bundle's card gives way to a
new one as soon as a poll holds its confirmation (`openBundles`, `Filed`); the
draft and the Site's record of the proposal outlive both. **Prototype.tla** is `model.js`'s reducer under the pages of
`App.jsx`; the offers of the version tab are operators beside what the reducer
accepts.

The `MC` modules give functions among the constants their values for TLC, and
the symmetry sets. The `Proofs` modules hold the theorems.

Definitions commented *Variation* are the same operator as a plausible mistake
would write it; no specification uses them. Replacing an operator with its
variation makes TLC report the property `PROJECT.json` pairs it with: the
properties notice such a mistake.

## 3. The runs

| Run | Instance | What it shows |
|---|---|---|
| `RunCapacity` | 2 owners, 2 messages, room for 1, 2 claims | `SiteCapacity`, `ClaimInvariant`, `ConversationSerial`, `ExpiredIsInert`, and the refinement `PromiseKept` |
| `RunOwner` | 1 owner, 2 conversations, 2 messages, room for 2, fair | `OwnerExclusive`, `QueuedLeaves`, `InFlightEnds` |
| `RunExecution` | 1 run, every fact and refusal, 2 calls | `CancelHonoured`, `NoSpendAfterStop`, `GrantDropped`, `LostGrantFailsClosed` |
| `OperationConfirm` | 2 proposals on 1 document, 2 confirm requests, 1 foreign save, fair | `AppliedOnce`, `EvidenceIsTrue`, `AnswersStand`, `AppliedAsConfirmed`, `PendingEnds`, and the refinement `PromiseKept` |
| `ConfigurationExecution` | 2 overlapping packages (3 and 2 documents), 3 structures, 2 processes | `StepsAreTrue`, `StopsWhenWithdrawn`, `StructuresStand` |
| `Coordinator` | 2 Sites, 2 slots, circuit threshold 2, Site threshold 3, fair | `TrialNotLost`, `BlackHoleIsSkipped`, `OpenIsProbed` |
| `ContainerRuntime` | 2 sessions, 2 model calls at once | `OneWriter`, `NothingOutlives`, `NothingAfterRefusal` |
| `Workbench` | 1 conversation on file and 1 a message may make, 2 searches, pages of 1 row, 2 calls at once, 1 draft, 3 other acts, fair | `DraftSentOnce`, `ReadsMatchSelection`, `SearchesInOrder`, `SelectionIsShown` |
| `Sidebar` | the same conversations, 2 pages, 4 kinds of card, 2 calls of the drawer and 2 of cards, 4 acts | `ShownIsSelected`, `PendingIsOwned`, `RefusedShowsNothing`, `PollGoesOn`, `CardTellsTruth`, `ReadBeforeAskingAgain` |
| `Prototype` | 2 tenants, 4 roles, revisions to 3, 3 tasks, 3 target changes, 1 repair | `ConfirmationBinds`, `HistoryTells`, `OffersAreKept` |
| `RunArchive`, `OperationReject` | the instances of RunExecution with two messages, and of OperationConfirm | two promises the code does not keep, below |

A safety property stays in its run also where it is proved: the run is what
notices a change of the model first, and what its mutant is tried on. Type
invariants, which are proved and which every other invariant would break with,
are in no run.

Bounds, and why they are enough.

- *Site.* Two messages and two claims are what each counted conflict needs: two
  runs competing for one place, a run in flight beside a queued one of the same
  owner, a sweep of one run while another is picked, a sweep that takes only
  part of the backlog (`SweepLimit = 1` against two runs), a claim opened while
  another's is unfinished. A tick is coarser than a second; what matters is the
  order the code's own checks enforce (`RenewBelow < Lease`) and that every
  moment can pass before, between and after every other step, which durations of
  one to three ticks give. Refusals are left out of `RunOwner`
  (`RefusalKinds = {}`) because neither its invariant nor its liveness reads them.
  With one owner and room for two, what holds its queue up is the busy owner; that
  a full Site does is part of the same condition and only thinly exercised.
- *Proposals.* One foreign save decides a version check; two confirm requests
  are the repetition and the race; the first proposal is an update and the
  second any of the other kinds.
- *Configuration.* The packages bring the same DocType, so each may run before,
  beside and after the other; one writes every kind of document that behaves
  differently (a master, a DocType, a workflow), the other a field; each locks a
  structure it does not create.
- *Coordinator.* Two slots are an outcome that arrives after another moved the
  circuit; Site threshold 3 lets heartbeats and claims of one Site count beside
  each other; two Sites make the turn matter.
- *Container.* Two sessions and two calls are each pair that can meet; a third
  adds nothing the pairs do not show, and the theorems hold for any number.
- *Pages.* Two calls are two answers in either order; one draft, pressed again
  while its call is out; three or four acts are the longest hazard listed (ask,
  switch, come back, and be refused). The bounds end their behaviours, so these
  configurations and `OperationConfirm`, where every proposal is decided in the
  end, may stop (`CHECK_DEADLOCK FALSE`; so may a container whose start threw).
  The others check for deadlock.

Fairness.

- `RunLifecycle`: time passes; a backup window's epoch second passes; the
  worker, restarted by its service manager, keeps opening claims (`serve_once`),
  and a claim that keeps being possible eventually commits, or notices a stale
  row and rolls back. Nothing is assumed of executors, containers or owners. The
  assumption on claims is strong, because a claim can be refused by a snapshot
  conflict any number of times, but not for ever: each conflict needs somebody
  else's write.
- `OperationProposal`: a proposal's ten minutes pass, the scheduler's sweep runs
  every ten minutes and some time does not meet a locked row, and a request once
  made ends or dies.
- `Coordinator`: the loop goes on; the host is isolated, and the provider
  answers a probe, again and again.
- `Workbench`: an armed poll fires while the page is visible, an answer that is
  due ends its call (arriving or failing), and a poll of a conversation that
  stays selected succeeds some time.

What the failing runs show:

- `RunArchive`: a message accepted between `archive_session`'s check and save
  leaves an archived conversation with an active run.
- `OperationReject`: a proposal rejected between a confirmation's intent and its
  second lock is carried out, and the rejection is overwritten.

Five more departures are in the models and have no run:

- A run closed by `claim_run`'s sweeps is never settled: only `finish_run` calls
  `_usage_of`, although `usage.py:5-6` says a crashed runner never shows up as a
  cheap run (`settled` stays FALSE in RunLifecycle).
- On a Site that still allows password login a run whose grant was flushed goes
  on; `LostGrantFailsClosed` holds, and is checked, with `SsoEnforced`.
- `_confirm` compares a package's baseline by a view opened before it takes its
  locks, so a native save that commits in between is not seen (`Ask` and
  `Intend` of ConfigurationExecution), although `configuration.py:156-160`
  expects its caller to hold the locks.
- Unsaved fields are listed from the form that is open (`options()`) and kept for
  the page captured last (`ContextSidebar.jsx:214-215`). A user who goes from A to
  B and chooses fields there before the next capture has them recorded for A, sees
  them as not chosen once B is captured, and back on A sends A's values of them
  (`Navigate`, `Provide`, `Navigate`, `send`), although
  `ContextSidebar.test.jsx:106` says a choice is not carried over to another
  object. `send`'s check (line 114) compares with the recorded page, so no
  property about it is stated: it would only repeat the check.
- A confirmation prepared on a bundle's card and confirmed there may be asked
  for twice: the answer to a poll that was read before the first request was
  taken puts a fresh card of the confirmation there. `ReadBeforeAskingAgain` says
  how far the page protects (only an answer that brings a new card lets the user
  ask again), and that the Site takes one of the two and no card tells an untruth
  about it is `CardTellsTruth`.

## 4. What is proved

All theorems hold for every value of the constants that satisfies the named
assumptions: positive budgets and `RenewBelow < Lease` (the checks of
`run_budget.budget`), positive thresholds and slots, a package that locks what
it writes, a page of at least one row, a first order of conversations that names
none twice, at least one call at a time, sets that do not contain the null value
(for a card: no reading of a proposal is `None`). A safety theorem is proved
from an inductive invariant by one lemma per action (or per group of actions
that leave the same things alone), the step lemma and PTL.

**RunLifecycleProofs**: `TypeCorrect`, `ClaimViewsHold` (`ClaimInvariant`),
`CapacityHolds` (`SiteCapacity`), `OwnersAreExclusive` (`OwnerExclusive`). The last
three share `ClaimSafety == TypeOK /\ ClaimInvariant /\ SiteCapacity /\
OwnerExclusive`. Capacity alone is not inductive: a claim commits on what it saw
earlier, so the invariant says what an open claim's view still guarantees at its
commit. At most one claim is open; each row a claim will write is as the claim
saw it unless it is marked stale (`ViewInv`); the runs that stay in flight after
its sweeps leave room and do not belong to the picked run's owner (`RoomInv`); a
capability is on file only where an executor may be (`CapabilityInv`). Every step
but a claim's commit is *quiet* (`Quiet`): it starts no run, marks the rows it
moves in the open claims and leaves their views alone. `ClaimBegin` establishes
its own view; for `ClaimCommit` the rows it writes are fresh, and the runs in
flight afterwards are those that stayed and the pick, which is where the
counting happens.

Its second part is how a run may be treated from one step to the next:
`ConversationsAreSerial` (`ConversationSerial`),
`GrantsAreDropped` (`GrantDropped`), `StopsAreHonoured` (`CancelHonoured`),
`SpendingEnds` (`NoSpendAfterStop`), `LeasesBind` (`ExpiredIsInert`), and, for a
Site that enforces the platform login, `LossFailsClosed`
(`LostGrantFailsClosed`). All rest on `ClaimSafety`: `RowsOfCommit` says what a
claim's commit makes of a row (swept, started while still queued, or left alone),
which is where the stale view could go wrong, and `StepsByRows` sorts the other
steps by the rows they write. `SpendingEnds` needs `SettledInv` besides: a run
whose usage was settled waits, works and stops no more.

How long a run may hold its place is the safety under `QueuedLeaves` and
`InFlightEnds`, and proved here: `PlacesAreHeldBriefly` (age and remaining lease of a
run in flight add up to no more than its container's life and one lease or
acknowledgement), `NoTimeIsWon` (no step but a renewal by a container that still
lives puts the end off) and `HeadsAreSwept` (each sweep takes the head of its
backlog, whatever `SWEEP_LIMIT` is). `TimeOf` is the lemma all rest on: what a step
may do to the time of one row. What is left to fairness is only that time passes
and that some claim commits.

Its third part is the refinement, `SiteKeepsPromise`: initial states map to
initial states, and under `ClaimSafety` every step of RunLifecycle is a step of
RunPromise or leaves `stage` alone. A claim's commit is an `Attend` with the
rows it swept as `lapsed` and its pick as `begun`; that there is room is the same
counting as above.

**OperationProposalProofs**: `TypeCorrect`, `NeverTwice` (`AppliedOnce`),
`EvidenceTrue` (`EvidenceIsTrue`), `AnswersTrue` (`AnswersStand`), `LandsAsConfirmed`
(`AppliedAsConfirmed`). The invariant: one request per proposal gets past the
intent (`OneRow`); a request's stage fixes what its record says and whether its
transaction holds a write (`StageOf`); the write is durable exactly when that
record says Succeeded (`AppliedInv`); an answer is Unknown or the record's last
word (`ToldInv`); a document a transaction saved stays locked on the confirmed
version, by one transaction (`LockedInv`).

Its second part is the refinement, `OwnersKeepPromise`. The abstract stage of a
proposal is what its execution record says, and its own status only while there
is none. So what must be shown of every step is what it does to the records
(`StandingRead`, `SameStanding`, `MovesOne`): an intent is a `Confirm`, because a
proposal with a record is not Pending (`StandingInv`); a commit that succeeds is
a `CarryOut` or an `Authorize`, because only one request has the record
(`OneRow`), its transaction holds the write (`StageOf`), and the document is
still on the version that was confirmed (`LockedInv`); the death of a request, a
rollback or a rejection behind an intent moves no stage (`NoMove`).

**ConfigurationExecutionProofs**: `TypeCorrect`, `RecordsTrue` (`StepsAreTrue`),
`WithdrawalStops` (`StopsWhenWithdrawn`), `StructuresKept` (`StructuresStand`). The
invariant: a request owns its confirmation by the row, then by its intent and
its locks (`OwnerInv`); at each stage every document before the current one is
written and recorded, the current one is written at most, nothing after it
(`ProgressInv`); a document is begun late only if it was checked in time, and no
other after it (`LateInv`).

**ContainerRuntimeProofs**: `TypeCorrect`, `WriterIsAlone`, `TeardownIsComplete`,
`RefusalIsFinal`, and `NoCallIsLeft` (a model call is under way only in a turn of an
agent alive, so none outlives a turn or the teardown). `WriterInv`: an open holds
the map's only key from before its first await until it has an agent or failed,
and teardown waits for it.
`GuardInv`: whatever refuses a call raises the flag the others look at after
their own authorization.

**CoordinatorProofs**: `TrialReturns` (every outcome of a run moves a half open
circuit, so only ticks can leave a trial taken: `TrialInv`), `BlackHolesAreFound`
(a Site's counter of failed claims is at least what it missed, and what is
counted of a Site stays below the threshold or the Site is skipped: `SiteInv`).
`TypeCorrect` includes that no more runs are under way than there are slots. A tick
counts them once, before its heartbeats and its probe, so the invariant is that
what it counted is at least what still runs until it has claimed (`SlotsInv`); that
the sites it then asks are no more than its room is a counting argument over their
turns, which all differ (`TurnsDiffer`, `ChosenFit`). `ProbesAreNotPutOff` is the
safety under `OpenIsProbed`: while the circuit is open only a probe sets the time of
the next one later.

**PrototypeProofs**: `TypeCorrect`, `ConfirmationsBind`, `OffersHold`, `HistoryIsTold`
(`HistoryTells`). `OfferInv`: a candidate is of the current revision, and that is
newer than the published one unless the report on the page says it was just
published. Typing needs `ReportIsFiled`: what a read back replaces in the history
is there. `HistoryTells` alone is not inductive either: a read back rewrites the
task it finds, and only `ReportIsHead` (an open report is the head of the list)
says that this is the newest one.

**SidebarProofs**: the drawer (`AlwaysShownIsSelected`, `AlwaysPendingIsOwned`,
`AlwaysRefusedShowsNothing`, `PollingNeverEnds`) and its cards
(`AlwaysCardTellsTruth`, `ReadsBeforeAskingAgain`), under any answers that are late,
out of order or never come. `DrawerInv` says what the one counter of the code
buys: whatever has the newest ticket is for the conversation selected, and either
owns the drawer, alone, or is a poll that leaves it as it is (`TicketInv`); one
timer or one poll at a time, none beside an error that stops it (`PollInv`).
`EffectKeeps` is the effect's own lemma, cited by every handler that changes the
drawer or the error. `CardInv` adds that an answer under way says what the Site
holds and goes on holding (`AnswersInv`), and that a card that asked has claimed
itself until it is answered or thrown away (`AskedInv`). A card disturbs nothing of
the drawer (`CardUndisturbed`), and a step of the drawer either leaves the card or
takes it away with all it asked; what was asked is remembered until another card
is there (`FollowStep`).

**WorkbenchProofs**: `SentOnce` (`DraftSentOnce`), `SearchesKeepOrder`
(`SearchesInOrder`), `ReadsKeepSelection` (`ReadsMatchSelection`), `GuardsAreHeld`,
`PollingNeverEnds`. A generation is a flag that ages calls, so the lemmas about
`NewRail`, `NewSession` and `Stopped` (a call keeps all else, and ages only) carry the
proof. `PageInv`: the guards `sending` and `growing` are up exactly as long as
their call is under way (`OwnersInv`); a search with the newest ticket is the one
asked for last (`RailInv`); a live poll is of the conversation selected
(`PollInv`); the draft in the composer was submitted only if its submission is
still under way, so the guard is up (`DraftInv`).

`TypeCorrect` of the page says more than the sorts of its variables: the rail
lists no conversation twice, and no more than `MaxCalls` calls are under way. It
is proved from `TypeInv`, which adds that nothing is polled while no conversation
is selected (`RestInv`: without it a poll's answer could put a conversation that
is none into the rail). The rail's part rests on lemmas about sequences: `Ranks`
(positions can be listed in their order), `KeptRows` (what is kept of a sequence
without repetition has none either), `PartOfRows` (a page of it), `JoinedRows` (a
page behind rows it shares none with). That a step keeps to `MaxCalls` is
counting (`ImageSized`, `AgedSized`, `MoreSized`, `RoomLeft`): ageing a set of
calls makes it no larger.

`PollingNeverEnds` of the drawer and of the page is the safety core of their
liveness: no step of the user, of the Site or of a lost answer ends the polling.
That the poll then does come, and shows what it should, is what the runs check.

Model-checked only is liveness: `QueuedLeaves`, `InFlightEnds`, `PendingEnds`,
`SelectionIsShown` and `OpenIsProbed`, because fairness and `ENABLED` are outside
the prover. Every other property of a passing run is stated by a theorem.

`PollingNeverEnds`, `PlacesAreHeldBriefly`, `NoTimeIsWon`, `HeadsAreSwept` and
`ProbesAreNotPutOff` are what the prover can say of four of the five.

The type invariants of RunLifecycle, OperationProposal, ConfigurationExecution,
Prototype, ContainerRuntime, Coordinator and Workbench are proved and appear in no
run; those of the drawer and its cards are conjuncts of `DrawerInv` and `CardInv`.

## 5. Abstractions

- A request takes no time, except claims, refusals, archiving, confirmations
  and configuration steps.
- Permission revisions, source re-authorization, quotas, provider and budget
  mismatches are refusals the code may always make: the choice between an action
  and none. `ClaimRefuse` and `Fail` are that choice where it changes state.
- The input and output token totals behave like the call limit and are left out.
- A refused or lost write back is an action not taken.
- `confirm`'s deduplication under a snapshot refusal (its `except` branch) reads
  the winner's record and answers with it: `Ask` of OperationProposal.
- The expiry sweep waits for each lock in turn and commits once; it is one step.
- Proposals have an originating run; one without it only lacks a guard.
- A configuration package's content is what each document writes and what it
  locks; a preview is a publish whose receipt is never withdrawn. A baseline is
  whether a structure was touched since the packages were prepared.
- Circuit and Site deadlines are counted in waits of the loop; the failures of a
  closed circuit are counted no further than the threshold.
- `SearchesInOrder` is about what a search's first page replaces. Rows that
  `growSessions` puts behind it between typing and the debounced search, which are
  of what was typed, are in the model and outside the property.
- On the conversation page titles, renaming, unread marks, attachments and the
  drawers are left out, and the page is taken to be visible; in the drawer the
  poll's growing delay (its timer fires at any moment), the attachment and the
  domain. A bundle has one confirmation: a second one, which asking twice for the
  first or its expiry leads to, and the expiry of a transfer are left out. The Site behind the pages is what its answers can be: RunLifecycle and
  OperationProposal say which of them happen.

## 6. Not modelled

- **Configuration transfer** between two Sites: a sequence of signed refusals
  over digests; what a publish depends on, a receipt that may change, is an input
  of ConfigurationExecution.
- **The host side of the backup window** (waiting for executors and open
  transactions, copying files): file and process I/O. The Site's gate is modelled.
- **Container removal and the shutdown drain** of the worker: bounded retry loops
  over docker.
- **Proposing and freezing** packages and operations beyond the row they make,
  preflight, stock impact, make adapters, read tools, bundle format: pure
  functions and reads over ERPNext documents.
- **Records, archive, portal and transcript rendering** in the browser: lists
  read again on every click, and formatting.
- **Login and membership** (an external service), **usage arithmetic, metrics,
  alerts, evaluations** (observation), **administration, releases, restore
  drills, credentials, sessions on the host** (sequential scripts over docker,
  bench and files).

What would come next: a composition of ConfigurationExecution with a transfer's
window and lease, and the backup window composed with the claim's two steps.
