---------------------------- MODULE Coordinator ----------------------------
(***************************************************************************)
(* The worker's coordinator (context_worker.py) with the provider's        *)
(* circuit breaker (provider_circuit.py): one loop of ticks beats every    *)
(* Site's heart, asks the breaker, and claims runs from the Sites in turn; *)
(* the runs end on threads of their own and tell the breaker how.          *)
(*                                                                         *)
(* A tick is a step between two of its locks or calls, and runs end        *)
(* between any two of them.  Time passes while the loop waits; a deadline  *)
(* is the number of waits left to it.  What a claim does at the Site is    *)
(* RunLifecycle's.  Left out: containers and their removal, the shutdown,  *)
(* metrics and alerts.                                                     *)
(***************************************************************************)
EXTENDS Integers, FiniteSets

CONSTANTS
    NumSites,         \* the profile's sites, 0 .. NumSites - 1 in its order
    Slots,            \* runs at once
    Threshold,        \* provider failures that open the circuit
    SiteThreshold,    \* failed calls after which a Site is left alone
    SiteSkip,         \* waits it is left alone for
    ProbeEvery        \* waits between two probes of the provider

ASSUME CoordinatorAssumption ==
    /\ NumSites \in Nat \ {0}
    /\ Slots \in Nat \ {0}
    /\ Threshold \in Nat \ {0}
    /\ SiteThreshold \in Nat \ {0}
    /\ SiteSkip \in Nat \ {0}
    /\ ProbeEvery \in Nat \ {0}

Sites == 0 .. (NumSites - 1)
KindsOfCall == {"heartbeat", "claim"}
Outcomes == {"ok", "provider_failure", "other"}
Phases == {"wait", "reap", "gate", "probe", "allow", "claim"}

VARIABLES
    phase,      \* where the loop is in its tick
    failures,   \* _site_failures, a counter per Site and kind of call
    skip,       \* _site_skip_until
    next,       \* _next_site
    circuit,    \* the breaker's state
    count,      \* its consecutive failures, no further than Threshold
    used,       \* its half open trial is taken
    probed,     \* waits left until the provider may be probed again
    running,    \* runs whose outcome is not recorded yet
    busy,       \* how many this tick counted
    trial,      \* this tick holds the trial
    missed      \* history: claims of a Site that failed in a row, not skipped yet

siteVars == <<failures, skip>>
breakerVars == <<circuit, count, used, probed>>
tickVars == <<phase, busy, trial, next>>
vars == <<siteVars, breakerVars, tickVars, running, missed>>

TypeOK ==
    /\ phase \in Phases /\ trial \in BOOLEAN /\ next \in Sites
    /\ failures \in [Sites -> [KindsOfCall -> Nat]]
    /\ skip \in [Sites -> Nat] /\ missed \in [Sites -> Nat]
    /\ circuit \in {"closed", "open", "half_open"} /\ used \in BOOLEAN
    /\ count \in 0..Threshold /\ probed \in 0..ProbeEvery
    /\ {running, busy} \subseteq 0..Slots

Init ==
    /\ phase = "wait" /\ busy = 0 /\ trial = FALSE /\ next = 0
    /\ failures = [s \in Sites |-> [k \in KindsOfCall |-> 0]]
    /\ skip = [s \in Sites |-> 0]
    /\ circuit = "closed" /\ count = 0 /\ used = FALSE /\ probed = 0
    /\ running = 0
    /\ missed = [s \in Sites |-> 0]

-----------------------------------------------------------------------------
(* One call to a Site is noted.                                            *)

NoFailures == [k \in KindsOfCall |-> 0]

\* Variation: an answer of any kind clears all that is counted of the Site.
Cleared(s, kind) == NoFailures

Answered(s, kind) == [failures[s] EXCEPT ![kind] = 0]

Failed(s, kind) == [failures[s] EXCEPT ![kind] = @ + 1]

IsBlackHole(f) == f["heartbeat"] + f["claim"] >= SiteThreshold

Noted(s, kind, ok) ==
    IF ok THEN Answered(s, kind)
    ELSE IF IsBlackHole(Failed(s, kind)) THEN NoFailures
    ELSE Failed(s, kind)

SkipNoted(s, kind, ok) ==
    IF ok THEN 0
    ELSE IF IsBlackHole(Failed(s, kind)) THEN SiteSkip
    ELSE skip[s]

NoteSites(asked, answered, kind) ==
    /\ failures' = [s \in Sites |->
                      IF s \in asked THEN Noted(s, kind, s \in answered) ELSE failures[s]]
    /\ skip' = [s \in Sites |->
                  IF s \in asked THEN SkipNoted(s, kind, s \in answered) ELSE skip[s]]

Available == {s \in Sites : skip[s] = 0}

-----------------------------------------------------------------------------
(* A tick.                                                                 *)

Wait ==
    /\ phase = "wait"
    /\ phase' = "reap"
    /\ skip' = [s \in Sites |-> IF skip[s] > 0 THEN skip[s] - 1 ELSE 0]
    /\ probed' = IF probed > 0 THEN probed - 1 ELSE 0
    /\ UNCHANGED <<failures, next, circuit, count, used, running, busy, trial, missed>>

\* Heartbeats go to every available Site; a Site skipped for them is no longer
\* asked for runs, and what it missed is over.
Heartbeats ==
    /\ phase = "reap"
    /\ \E answered \in SUBSET Available : NoteSites(Available, answered, "heartbeat")
    /\ missed' = [s \in Sites |-> IF skip'[s] > 0 THEN 0 ELSE missed[s]]
    /\ busy' = running
    /\ phase' = "gate"
    /\ UNCHANGED <<next, breakerVars, running, trial>>

NotIsolated ==
    /\ phase = "gate"
    /\ phase' = "wait"
    /\ UNCHANGED <<siteVars, breakerVars, next, busy, trial, running, missed>>

\* Variation: a tick that finds the circuit open starts its waiting anew.
ProbeAgainLater == ProbeEvery

ProbeLater == probed

\* _circuit_allows up to the probe, which runs outside the lock.
Gate ==
    /\ phase = "gate"
    /\ IF circuit = "open"
       THEN /\ phase' = IF probed = 0 THEN "probe" ELSE "wait"
            /\ probed' = IF probed = 0 THEN ProbeEvery ELSE ProbeLater
       ELSE phase' = "allow" /\ UNCHANGED probed
    /\ UNCHANGED <<siteVars, circuit, count, used, next, busy, trial, running, missed>>

ProbeFails ==
    /\ phase = "probe"
    /\ phase' = "wait"
    /\ UNCHANGED <<siteVars, breakerVars, next, busy, trial, running, missed>>

ProbeSucceeds ==
    /\ phase = "probe"
    /\ circuit' = "half_open" /\ used' = FALSE
    /\ phase' = "allow"
    /\ UNCHANGED <<siteVars, count, probed, next, busy, trial, running, missed>>

\* The breaker's allow.  A circuit opened by a run since the gate has its whole
\* open time before it and refuses.
Allow ==
    /\ phase = "allow"
    /\ \/ /\ circuit = "closed"
          /\ trial' = FALSE /\ phase' = "claim"
          /\ UNCHANGED used
       \/ /\ circuit = "half_open" /\ ~ used
          /\ trial' = TRUE /\ used' = TRUE /\ phase' = "claim"
       \/ /\ circuit = "open" \/ (circuit = "half_open" /\ used)
          /\ phase' = "wait"
          /\ UNCHANGED <<used, trial>>
    /\ UNCHANGED <<siteVars, circuit, count, probed, next, busy, running, missed>>

Capacity == IF busy >= Slots THEN 0 ELSE IF trial THEN 1 ELSE Slots - busy

\* Variation: the trial is not given back by a tick that claims nothing.
KeepTrial(claimed) == FALSE

GivesBack(claimed) == trial /\ claimed = 0 /\ circuit = "half_open"

EndTick(claimed) ==
    /\ used' = (used /\ ~ GivesBack(claimed))
    /\ trial' = FALSE
    /\ phase' = "wait"

Turn(s) == (s - next) % NumSites

\* Sites under a hold are passed over, and all of them if it cannot be read.
Chosen(held) ==
    LET free == Available \ held IN
    {s \in free : Cardinality({t \in free : Turn(t) < Turn(s)}) < Capacity}

\* Sites answer with a run, without one, or not at all.
Claim ==
    /\ phase = "claim"
    /\ \E held \in SUBSET Sites :
       \E answered \in SUBSET Chosen(held) :
       \E tasks \in SUBSET answered :
          /\ NoteSites(Chosen(held), answered, "claim")
          /\ missed' = [s \in Sites |->
                          IF s \notin Chosen(held) THEN missed[s]
                          ELSE IF s \in answered \/ skip'[s] > 0 THEN 0
                          ELSE missed[s] + 1]
          /\ running' = running + Cardinality(tasks)
          /\ EndTick(Cardinality(tasks))
    /\ next' = IF busy >= Slots THEN next ELSE (next + 1) % NumSites
    /\ UNCHANGED <<circuit, count, probed, busy>>

\* The settings cannot be loaded: tick's finally, and the loop goes on.
NoSettings ==
    /\ phase = "claim"
    /\ EndTick(0)
    /\ UNCHANGED <<siteVars, circuit, count, probed, next, busy, running, missed>>

-----------------------------------------------------------------------------
(* A run's thread: whatever happened to it, its outcome is recorded.       *)

Opens(outcome) ==
    \/ outcome = "other" /\ circuit = "half_open"
    \/ /\ outcome = "provider_failure"
       /\ circuit = "half_open" \/ count + 1 >= Threshold

RunEnds(outcome) ==
    /\ running > 0
    /\ running' = running - 1
    /\ count' = CASE outcome = "ok" -> 0
                  [] outcome = "other" -> count
                  [] outcome = "provider_failure" -> IF count < Threshold THEN count + 1 ELSE count
    /\ circuit' = IF outcome = "ok" THEN "closed"
                  ELSE IF Opens(outcome) THEN "open" ELSE circuit
    /\ used' = (used /\ outcome # "ok" /\ ~ Opens(outcome))
    /\ probed' = IF Opens(outcome) /\ circuit # "open" THEN ProbeEvery ELSE probed
    /\ UNCHANGED <<siteVars, tickVars, missed>>

-----------------------------------------------------------------------------
TickStep ==
    \/ Wait \/ Heartbeats \/ NotIsolated \/ Gate \/ ProbeFails \/ ProbeSucceeds
    \/ Allow \/ Claim \/ NoSettings

Next ==
    \/ TickStep
    \/ \E outcome \in Outcomes : RunEnds(outcome)

\* The loop goes on for ever; the host is isolated and the provider's probe
\* answers again and again, as they do once what ails them is over.
Fairness ==
    /\ WF_vars(TickStep)
    /\ SF_vars(Gate)
    /\ SF_vars(ProbeSucceeds)

Spec == Init /\ [][Next]_vars
FairSpec == Spec /\ Fairness

-----------------------------------------------------------------------------
\* The half open circuit's only trial is never lost: while it is taken, the
\* tick that took it has not decided yet or a run is under way whose outcome
\* will move the circuit on (release_trial in tick and _release_trial).
TrialNotLost ==
    circuit = "half_open" /\ used =>
        (phase = "claim" /\ trial) \/ running > 0

\* A Site whose claims all fail is left alone after SiteThreshold of them,
\* however well its heartbeats answer (the counters of _note_site).
BlackHoleIsSkipped == \A s \in Sites : missed[s] < SiteThreshold

\* An open circuit does not stay open while the provider answers its probes
\* (_last_probe in _circuit_allows and _record_outcome).
OpenIsProbed == circuit = "open" ~> circuit # "open"
=============================================================================
