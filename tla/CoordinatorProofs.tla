-------------------------- MODULE CoordinatorProofs --------------------------
(***************************************************************************)
(* What the coordinator keeps for any number of sites and slots and any    *)
(* thresholds.                                                             *)
(***************************************************************************)
EXTENDS Coordinator, FiniteSetTheorems, TLAPS

\* Why the trial is not lost, with the types the argument needs: every outcome
\* of a run moves a half open circuit, so only ticks can leave a trial taken.
TrialInv ==
    /\ running \in Nat
    /\ used \in BOOLEAN /\ trial \in BOOLEAN
    /\ TrialNotLost

\* Why a black hole is skipped: a Site's own counter of failed claims is at
\* least what it missed, and what is counted of a Site stays below the
\* threshold, or the Site is skipped and nothing counts any more.
SiteInv ==
    /\ failures \in [Sites -> [KindsOfCall -> Nat]]
    /\ missed \in [Sites -> Nat]
    /\ skip \in [Sites -> Nat]
    /\ \A s \in Sites :
          /\ missed[s] =< failures[s]["claim"]
          /\ failures[s]["heartbeat"] + failures[s]["claim"] < SiteThreshold

\* A worker starts with nothing taken and nothing missed.
LEMMA InitHolds == Init => TrialInv /\ SiteInv
<1> SUFFICES ASSUME Init PROVE TrialInv /\ SiteInv
  OBVIOUS
<1>1. TrialInv
  BY DEF Init, TrialInv, TrialNotLost
<1>2. /\ failures \in [Sites -> [KindsOfCall -> Nat]]
      /\ missed \in [Sites -> Nat] /\ skip \in [Sites -> Nat]
  BY DEF Init
<1>3. ASSUME NEW s \in Sites
      PROVE  /\ missed[s] =< failures[s]["claim"]
             /\ failures[s]["heartbeat"] + failures[s]["claim"] < SiteThreshold
  BY CoordinatorAssumption DEF Init, KindsOfCall
<1> QED
  BY <1>1, <1>2, <1>3 DEF SiteInv

\* Sites are finitely many, and so is what a tick claims from them.
LEMMA TasksAreCounted ==
    ASSUME NEW tasks \in SUBSET Sites
    PROVE  Cardinality(tasks) \in Nat
<1>1. IsFiniteSet(Sites)
  BY CoordinatorAssumption, FS_Interval DEF Sites
<1> QED
  BY <1>1, FS_Subset, FS_CardinalityType

\* A claiming tick keeps its trial only in a run.
LEMMA ClaimKeepsTrial ==
    ASSUME TrialInv, Claim
    PROVE  TrialInv'
<1>1. PICK n \in Nat : running' = running + n /\ EndTick(n)
  <2>1. \A held \in SUBSET Sites : Chosen(held) \subseteq Sites
    BY DEF Chosen, Available
  <2> QED
    BY <2>1, TasksAreCounted DEF Claim
<1>2. circuit' = circuit /\ phase = "claim"
  BY DEF Claim
<1>3. ASSUME circuit = "half_open", used'
      PROVE  running' > 0
  <2>1. used /\ (~ trial \/ n # 0)
    BY <1>1, <1>3 DEF EndTick, GivesBack
  <2>2. CASE n # 0
    BY <1>1, <2>2 DEF TrialInv
  <2>3. CASE ~ trial
    BY <1>1, <1>3, <2>1, <2>3 DEF TrialInv, TrialNotLost
  <2> QED
    BY <2>1, <2>2, <2>3
<1>4. running' \in Nat
  BY <1>1 DEF TrialInv
<1>5. used' \in BOOLEAN /\ trial' \in BOOLEAN
  BY <1>1, Zenon DEF EndTick
<1> QED
  BY <1>2, <1>3, <1>4, <1>5 DEF TrialInv, TrialNotLost

\* A run that ends closes a half open circuit or opens it.
LEMMA OutcomeKeepsTrial ==
    ASSUME TrialInv, NEW outcome \in Outcomes, RunEnds(outcome)
    PROVE  TrialInv'
<1>1. circuit' # "half_open"
  BY DEF RunEnds, Opens, Outcomes
<1>2. running' \in Nat /\ trial' \in BOOLEAN
  BY DEF RunEnds, TrialInv, tickVars
<1>3. used' \in BOOLEAN
  BY DEF RunEnds, TrialInv
<1> QED
  BY <1>1, <1>2, <1>3 DEF TrialInv, TrialNotLost

\* No step loses the trial.
LEMMA TrialStep == TrialInv /\ [Next]_vars => TrialInv'
<1> SUFFICES ASSUME TrialInv, [Next]_vars PROVE TrialInv'
  OBVIOUS
<1>1. CASE Claim
  BY <1>1, ClaimKeepsTrial
<1>2. CASE NoSettings
  BY <1>2 DEF NoSettings, EndTick, GivesBack, TrialInv, TrialNotLost
<1>3. CASE Allow
  <2>1. running' = running /\ circuit' = circuit /\ phase = "allow"
    BY <1>3 DEF Allow
  <2>2. CASE circuit = "half_open" /\ ~ used /\ trial' = TRUE /\ used' = TRUE
             /\ phase' = "claim"
    BY <2>1, <2>2 DEF TrialInv, TrialNotLost
  <2>3. CASE used' = used /\ trial' \in BOOLEAN
    BY <2>1, <2>3 DEF TrialInv, TrialNotLost
  <2> QED
    BY <1>3, <2>2, <2>3 DEF Allow, TrialInv
<1>4. CASE ProbeSucceeds
  BY <1>4 DEF ProbeSucceeds, TrialInv, TrialNotLost
<1>5. CASE Wait \/ Heartbeats \/ NotIsolated \/ Gate \/ ProbeFails
  <2>1. /\ phase # "claim"
        /\ UNCHANGED <<circuit, used, trial, running>>
    BY <1>5 DEF Wait, Heartbeats, NotIsolated, Gate, ProbeFails, breakerVars
  <2> QED
    BY <2>1 DEF TrialInv, TrialNotLost
<1>6. ASSUME NEW outcome \in Outcomes, RunEnds(outcome) PROVE TrialInv'
  BY <1>6, OutcomeKeepsTrial
<1>7. CASE UNCHANGED vars
  BY <1>7 DEF vars, breakerVars, tickVars, TrialInv, TrialNotLost
<1> QED
  BY <1>1, <1>2, <1>3, <1>4, <1>5, <1>6, <1>7 DEF Next, TickStep

-----------------------------------------------------------------------------
\* What noting a call makes of a Site's counters.
LEMMA NotedFacts ==
    ASSUME SiteInv, NEW s \in Sites, NEW kind \in KindsOfCall, NEW ok \in BOOLEAN
    PROVE  LET f == Noted(s, kind, ok) IN
           /\ f \in [KindsOfCall -> Nat]
           /\ f["heartbeat"] + f["claim"] < SiteThreshold
           /\ SkipNoted(s, kind, ok) \in Nat
           /\ SkipNoted(s, kind, ok) = 0 =>
                 IF ok THEN f = [failures[s] EXCEPT ![kind] = 0]
                 ELSE f = [failures[s] EXCEPT ![kind] = @ + 1]
<1>1. /\ failures[s] \in [KindsOfCall -> Nat] /\ skip[s] \in Nat
      /\ failures[s]["heartbeat"] + failures[s]["claim"] < SiteThreshold
      /\ SiteThreshold \in Nat \ {0} /\ SiteSkip \in Nat \ {0}
  BY CoordinatorAssumption DEF SiteInv
<1>2. CASE ok
  <2>1. Noted(s, kind, ok) = [failures[s] EXCEPT ![kind] = 0] /\ SkipNoted(s, kind, ok) = 0
    BY <1>2 DEF Noted, Answered, SkipNoted
  <2>2. [failures[s] EXCEPT ![kind] = 0] \in [KindsOfCall -> Nat]
    BY <1>1
  <2>3. [failures[s] EXCEPT ![kind] = 0]["heartbeat"]
          + [failures[s] EXCEPT ![kind] = 0]["claim"] < SiteThreshold
    <3>1. CASE kind = "heartbeat"
      BY <1>1, <3>1 DEF KindsOfCall
    <3>2. CASE kind = "claim"
      BY <1>1, <3>2 DEF KindsOfCall
    <3> QED
      BY <3>1, <3>2 DEF KindsOfCall
  <2>4. 0 \in Nat
    OBVIOUS
  <2> QED
    BY <1>2, <2>1, <2>2, <2>3, <2>4, Zenon
<1>3. CASE ~ ok /\ IsBlackHole(Failed(s, kind))
  <2>1. Noted(s, kind, ok) = NoFailures /\ SkipNoted(s, kind, ok) = SiteSkip
    BY <1>3 DEF Noted, SkipNoted
  <2>2. /\ NoFailures \in [KindsOfCall -> Nat]
        /\ NoFailures["heartbeat"] = 0 /\ NoFailures["claim"] = 0
    BY DEF NoFailures, KindsOfCall
  <2>3. NoFailures["heartbeat"] + NoFailures["claim"] < SiteThreshold
    BY <1>1, <2>2
  <2>4. SkipNoted(s, kind, ok) \in Nat /\ SkipNoted(s, kind, ok) # 0
    BY <1>1, <2>1
  <2> HIDE DEF NoFailures
  <2> QED
    BY <2>1, <2>2, <2>3, <2>4, Zenon
<1>4. CASE ~ ok /\ ~ IsBlackHole(Failed(s, kind))
  <2>1. Noted(s, kind, ok) = Failed(s, kind) /\ SkipNoted(s, kind, ok) = skip[s]
    BY <1>4 DEF Noted, SkipNoted
  <2>2. Failed(s, kind) \in [KindsOfCall -> Nat]
    BY <1>1 DEF Failed, KindsOfCall
  <2>3. Failed(s, kind)["heartbeat"] + Failed(s, kind)["claim"] < SiteThreshold
    BY <1>1, <1>4, <2>2 DEF IsBlackHole, KindsOfCall
  <2> QED
    BY <1>1, <1>4, <2>1, <2>2, <2>3 DEF Failed
<1> QED
  BY <1>2, <1>3, <1>4

\* A heartbeat changes what is counted of claims only by skipping the Site.
LEMMA HeartbeatsKeepSites ==
    ASSUME SiteInv, Heartbeats
    PROVE  SiteInv'
<1>1. PICK answered \in SUBSET Available :
        /\ failures' = [s \in Sites |-> IF s \in Available
                          THEN Noted(s, "heartbeat", s \in answered) ELSE failures[s]]
        /\ skip' = [s \in Sites |-> IF s \in Available
                          THEN SkipNoted(s, "heartbeat", s \in answered) ELSE skip[s]]
  BY DEF Heartbeats, NoteSites
<1>2. missed' = [s \in Sites |-> IF skip'[s] > 0 THEN 0 ELSE missed[s]]
  BY DEF Heartbeats
<1>3. ASSUME NEW s \in Sites
      PROVE  /\ failures'[s] \in [KindsOfCall -> Nat] /\ skip'[s] \in Nat
             /\ missed'[s] \in Nat /\ missed'[s] =< failures'[s]["claim"]
             /\ failures'[s]["heartbeat"] + failures'[s]["claim"] < SiteThreshold
  <2>1. /\ failures[s] \in [KindsOfCall -> Nat] /\ skip[s] \in Nat /\ missed[s] \in Nat
        /\ missed[s] =< failures[s]["claim"]
        /\ failures[s]["heartbeat"] + failures[s]["claim"] < SiteThreshold
    BY DEF SiteInv
  <2>2. CASE s \notin Available
    <3>1. failures'[s] = failures[s] /\ skip'[s] = skip[s]
      BY <1>1, <2>2
    <3> QED
      BY <1>2, <2>1, <3>1 DEF KindsOfCall
  <2>3. CASE s \in Available
    <3> DEFINE ok == s \in answered
    <3>1. failures'[s] = Noted(s, "heartbeat", ok) /\ skip'[s] = SkipNoted(s, "heartbeat", ok)
      BY <1>1, <2>3
    <3>2. /\ failures'[s] \in [KindsOfCall -> Nat] /\ skip'[s] \in Nat
          /\ failures'[s]["heartbeat"] + failures'[s]["claim"] < SiteThreshold
          /\ skip'[s] = 0 =>
                IF ok THEN failures'[s] = [failures[s] EXCEPT !["heartbeat"] = 0]
                ELSE failures'[s] = [failures[s] EXCEPT !["heartbeat"] = @ + 1]
      <4>1. ok \in BOOLEAN /\ "heartbeat" \in KindsOfCall
        BY DEF KindsOfCall
      <4> HIDE DEF ok
      <4> QED
        BY <3>1, <4>1, NotedFacts
    <3>3. skip'[s] = 0 => failures'[s]["claim"] = failures[s]["claim"]
      BY <2>1, <3>2 DEF KindsOfCall
    <3>4. missed'[s] = IF skip'[s] > 0 THEN 0 ELSE missed[s]
      BY <1>2
    <3> QED
      BY <2>1, <3>2, <3>3, <3>4 DEF KindsOfCall
  <2> QED
    BY <2>2, <2>3
<1> QED
  BY <1>1, <1>2, <1>3 DEF SiteInv

\* Each claim a Site misses is counted, and none is missed once it is skipped.
LEMMA ClaimsKeepSites ==
    ASSUME SiteInv, Claim
    PROVE  SiteInv'
<1>1. PICK asked \in SUBSET Sites, answered \in SUBSET Sites :
        /\ failures' = [s \in Sites |-> IF s \in asked
                          THEN Noted(s, "claim", s \in answered) ELSE failures[s]]
        /\ skip' = [s \in Sites |-> IF s \in asked
                          THEN SkipNoted(s, "claim", s \in answered) ELSE skip[s]]
        /\ missed' = [s \in Sites |-> IF s \notin asked THEN missed[s]
                          ELSE IF s \in answered \/ skip'[s] > 0 THEN 0
                          ELSE missed[s] + 1]
  <2>1. \A held \in SUBSET Sites : Chosen(held) \subseteq Sites
    BY DEF Chosen, Available
  <2> QED
    BY <2>1 DEF Claim, NoteSites
<1>2. ASSUME NEW s \in Sites
      PROVE  /\ failures'[s] \in [KindsOfCall -> Nat] /\ skip'[s] \in Nat
             /\ missed'[s] \in Nat /\ missed'[s] =< failures'[s]["claim"]
             /\ failures'[s]["heartbeat"] + failures'[s]["claim"] < SiteThreshold
  <2>1. /\ failures[s] \in [KindsOfCall -> Nat] /\ skip[s] \in Nat /\ missed[s] \in Nat
        /\ missed[s] =< failures[s]["claim"]
        /\ failures[s]["heartbeat"] + failures[s]["claim"] < SiteThreshold
    BY DEF SiteInv
  <2>2. CASE s \notin asked
    <3>1. failures'[s] = failures[s] /\ skip'[s] = skip[s] /\ missed'[s] = missed[s]
      BY <1>1, <2>2
    <3> QED
      BY <2>1, <3>1
  <2>3. CASE s \in asked
    <3> DEFINE ok == s \in answered
    <3>1. failures'[s] = Noted(s, "claim", ok) /\ skip'[s] = SkipNoted(s, "claim", ok)
      BY <1>1, <2>3
    <3>2. /\ failures'[s] \in [KindsOfCall -> Nat] /\ skip'[s] \in Nat
          /\ failures'[s]["heartbeat"] + failures'[s]["claim"] < SiteThreshold
          /\ skip'[s] = 0 =>
                IF ok THEN failures'[s] = [failures[s] EXCEPT !["claim"] = 0]
                ELSE failures'[s] = [failures[s] EXCEPT !["claim"] = @ + 1]
      <4>1. ok \in BOOLEAN /\ "claim" \in KindsOfCall
        BY DEF KindsOfCall
      <4> HIDE DEF ok
      <4> QED
        BY <3>1, <4>1, NotedFacts
    <3>3. missed'[s] = IF ok \/ skip'[s] > 0 THEN 0 ELSE missed[s] + 1
      BY <1>1, <2>3
    <3>4. CASE ok \/ skip'[s] > 0
      BY <3>2, <3>3, <3>4 DEF KindsOfCall
    <3>5. CASE ~ ok /\ skip'[s] = 0
      <4>1. failures'[s]["claim"] = failures[s]["claim"] + 1
        BY <2>1, <3>2, <3>5 DEF KindsOfCall
      <4> QED
        BY <2>1, <3>2, <3>3, <3>5, <4>1 DEF KindsOfCall
    <3> QED
      BY <3>2, <3>4, <3>5
  <2> QED
    BY <2>2, <2>3
<1> QED
  BY <1>1, <1>2 DEF SiteInv

\* Every step keeps what is known of the Sites.
LEMMA SiteStep == SiteInv /\ [Next]_vars => SiteInv'
<1> SUFFICES ASSUME SiteInv, [Next]_vars PROVE SiteInv'
  OBVIOUS
<1>1. CASE Wait
  <2>1. skip' \in [Sites -> Nat]
    BY <1>1 DEF Wait, SiteInv
  <2> QED
    BY <1>1, <2>1 DEF Wait, SiteInv
<1>2. CASE Heartbeats
  BY <1>2, HeartbeatsKeepSites
<1>3. CASE Claim
  BY <1>3, ClaimsKeepSites
<1>4. CASE \/ NotIsolated \/ Gate \/ ProbeFails \/ ProbeSucceeds \/ Allow \/ NoSettings
           \/ \E outcome \in Outcomes : RunEnds(outcome)
           \/ UNCHANGED vars
  <2>1. UNCHANGED <<failures, skip, missed>>
    BY <1>4
       DEF NotIsolated, Gate, ProbeFails, ProbeSucceeds, Allow, NoSettings, RunEnds,
           siteVars, vars
  <2> QED
    BY <2>1 DEF SiteInv
<1> QED
  BY <1>1, <1>2, <1>3, <1>4 DEF Next, TickStep

-----------------------------------------------------------------------------
\* Both invariants hold throughout.
LEMMA CoordinatorSafety == Spec => [](TrialInv /\ SiteInv)
<1> QED
  BY InitHolds, TrialStep, SiteStep, PTL DEF Spec

\* With any number of slots, sites and runs, no order of outcomes, probes and
\* ticks leaves the half open circuit's trial taken by nobody (release_trial).
THEOREM TrialReturns == Spec => []TrialNotLost
<1>1. TrialInv => TrialNotLost
  BY DEF TrialInv
<1> QED
  BY <1>1, CoordinatorSafety, PTL

\* For any threshold a Site whose claims fail that often in a row has been
\* skipped, whatever its heartbeats answered in between (_note_site).
THEOREM BlackHolesAreFound == Spec => []BlackHoleIsSkipped
<1>1. SiteInv => BlackHoleIsSkipped
  <2> SUFFICES ASSUME SiteInv, NEW s \in Sites PROVE missed[s] < SiteThreshold
    BY DEF BlackHoleIsSkipped
  <2>1. /\ failures[s] \in [KindsOfCall -> Nat] /\ missed[s] \in Nat
        /\ missed[s] =< failures[s]["claim"]
        /\ failures[s]["heartbeat"] + failures[s]["claim"] < SiteThreshold
    BY DEF SiteInv
  <2> QED
    BY <2>1, CoordinatorAssumption DEF KindsOfCall
<1> QED
  BY <1>1, CoordinatorSafety, PTL
-----------------------------------------------------------------------------
(* Slots: a tick counts the runs once, and they end beside it from then on. *)

\* What a tick counted is at least what still runs until it has claimed.
SlotsInv ==
    /\ phase \in Phases /\ next \in Sites
    /\ running \in 0..Slots /\ busy \in 0..Slots
    /\ phase \in {"gate", "probe", "allow", "claim"} => running =< busy

\* Two sites have their turn at different places of a tick.
LEMMA TurnsDiffer ==
    ASSUME next \in Sites, NEW s \in Sites, NEW t \in Sites, s # t
    PROVE  Turn(s) \in Nat /\ Turn(t) \in Nat /\ Turn(s) # Turn(t)
<1>1. /\ NumSites \in Nat \ {0} /\ next \in 0..(NumSites - 1)
      /\ s \in 0..(NumSites - 1) /\ t \in 0..(NumSites - 1)
  BY CoordinatorAssumption DEF Sites
<1>2. ASSUME NEW u \in 0..(NumSites - 1)
      PROVE  Turn(u) = IF next =< u THEN u - next ELSE u - next + NumSites
  <2>1. CASE next =< u
    <3>1. u - next \in 0..(NumSites - 1)
      BY <1>1, <2>1
    <3>2. (u - next) % NumSites = u - next
      BY <1>1, <3>1
    <3> QED
      BY <2>1, <3>2 DEF Turn
  <2>2. CASE ~ (next =< u)
    <3>1. u - next + NumSites \in 0..(NumSites - 1)
      BY <1>1, <2>2
    <3>2. (u - next) % NumSites = u - next + NumSites
      BY <1>1, <2>2, <3>1
    <3> QED
      BY <2>2, <3>2 DEF Turn
  <2> QED
    BY <2>1, <2>2
<1>3. /\ Turn(s) = IF next =< s THEN s - next ELSE s - next + NumSites
      /\ Turn(t) = IF next =< t THEN t - next ELSE t - next + NumSites
  BY <1>1, <1>2
<1> QED
  BY <1>1, <1>3

\* A tick asks no more sites for runs than it has room for.
LEMMA ChosenFit ==
    ASSUME SlotsInv, trial \in BOOLEAN, NEW held \in SUBSET Sites
    PROVE  /\ IsFiniteSet(Chosen(held)) /\ Chosen(held) \subseteq Sites
           /\ Capacity \in 0..(Slots - busy)
           /\ Cardinality(Chosen(held)) =< Capacity
<1> DEFINE free == Available \ held
           before(s) == {t \in free : Turn(t) < Turn(s)}
           C == Chosen(held)
           rank == [s \in C |-> Cardinality(before(s))]
<1>1. Capacity \in 0..(Slots - busy)
  BY CoordinatorAssumption DEF Capacity, SlotsInv
<1>2. free \in SUBSET Sites /\ IsFiniteSet(free) /\ C \in SUBSET free
  <2>1. IsFiniteSet(Sites) /\ free \in SUBSET Sites
    BY CoordinatorAssumption, FS_Interval DEF Sites, Available
  <2>2. C \in SUBSET free
    BY DEF Chosen
  <2> QED
    BY <2>1, <2>2, FS_Subset
<1>3. ASSUME NEW s \in C
      PROVE  IsFiniteSet(before(s)) /\ Cardinality(before(s)) \in 0..(Capacity - 1)
  <2>1. before(s) \in SUBSET free
    OBVIOUS
  <2>2. IsFiniteSet(before(s)) /\ Cardinality(before(s)) \in Nat
    BY <1>2, <2>1, FS_Subset, FS_CardinalityType
  <2>3. Cardinality(before(s)) < Capacity
    BY DEF Chosen
  <2> QED
    BY <1>1, <2>2, <2>3
<1>4. ASSUME NEW s \in C, NEW t \in C, Turn(s) < Turn(t)
      PROVE  Cardinality(before(s)) # Cardinality(before(t))
  <2>1. s \in free /\ t \in free /\ \A u \in free : Turn(u) \in Nat
    <3>1. ASSUME NEW u \in free PROVE Turn(u) \in Nat
      <4>1. u \in Sites /\ next \in Sites
        BY <1>2 DEF SlotsInv
      <4>2. u - next \in Int
        BY <4>1, CoordinatorAssumption DEF Sites
      <4> QED
        BY <4>2, CoordinatorAssumption DEF Turn
    <3> QED
      BY <1>2, <3>1
  <2>2. before(s) \in SUBSET before(t) /\ s \in before(t) /\ s \notin before(s)
    <3>1. \A u \in free : Turn(u) < Turn(s) => Turn(u) < Turn(t)
      BY <1>4, <2>1
    <3>2. ~ (Turn(s) < Turn(s))
      BY <2>1
    <3> QED
      BY <1>4, <2>1, <3>1, <3>2
  <2> HIDE DEF before, C
  <2>3. before(s) # before(t)
    BY <2>2
  <2> QED
    BY <1>3, <2>2, <2>3, FS_Subset
<1>5. ASSUME NEW s \in C, NEW t \in C, rank[s] = rank[t]
      PROVE  s = t
  <2>1. next \in Sites /\ s \in Sites /\ t \in Sites
    BY <1>2 DEF SlotsInv
  <2>2. Cardinality(before(s)) = Cardinality(before(t))
    BY <1>5
  <2> HIDE DEF before, C, rank
  <2>3. ~ (Turn(s) < Turn(t)) /\ ~ (Turn(t) < Turn(s))
    BY <1>4, <2>2
  <2> QED
    BY <2>1, <2>3, TurnsDiffer
<1>6. rank \in Injection(C, 0..(Capacity - 1))
  <2>1. rank \in [C -> 0..(Capacity - 1)]
    BY <1>3
  <2>2. DOMAIN rank = C
    OBVIOUS
  <2> HIDE DEF rank, C
  <2> QED
    BY <1>5, <2>1, <2>2 DEF Injection, IsInjective
<1>7. IsFiniteSet(0..(Capacity - 1)) /\ Cardinality(0..(Capacity - 1)) = Capacity
  <2>1. Capacity \in Nat
    BY <1>1 DEF SlotsInv
  <2>2. IsFiniteSet(0..(Capacity - 1))
        /\ Cardinality(0..(Capacity - 1)) = IF 0 =< Capacity - 1 THEN Capacity - 1 - 0 + 1 ELSE 0
    BY <2>1, FS_Interval
  <2> QED
    BY <2>1, <2>2
<1>8. IsFiniteSet(C) /\ Cardinality(C) =< Cardinality(0..(Capacity - 1))
  <2> HIDE DEF rank, C
  <2> QED
    BY <1>6, <1>7, FS_Injection
<1> QED
  BY <1>1, <1>2, <1>7, <1>8

\* What a tick claims fits beside what still runs of what it counted.
LEMMA ClaimsFit ==
    ASSUME SlotsInv, trial \in BOOLEAN, Claim
    PROVE  SlotsInv'
<1>1. PICK held \in SUBSET Sites, tasks \in SUBSET Sites :
        /\ tasks \in SUBSET Chosen(held)
        /\ running' = running + Cardinality(tasks)
        /\ phase = "claim" /\ phase' = "wait" /\ busy' = busy
  <2>1. \A held \in SUBSET Sites : Chosen(held) \subseteq Sites
    BY DEF Chosen, Available
  <2> QED
    BY <2>1 DEF Claim, EndTick
<1>2. /\ Capacity \in 0..(Slots - busy) /\ Cardinality(tasks) \in Nat
      /\ Cardinality(tasks) =< Capacity
  <2>1. /\ IsFiniteSet(Chosen(held)) /\ Capacity \in 0..(Slots - busy)
        /\ Cardinality(Chosen(held)) =< Capacity
    BY ChosenFit
  <2>2. /\ IsFiniteSet(tasks) /\ Cardinality(tasks) =< Cardinality(Chosen(held))
        /\ Cardinality(tasks) \in Nat /\ Cardinality(Chosen(held)) \in Nat
    BY <1>1, <2>1, FS_Subset, FS_CardinalityType
  <2> QED
    BY <2>1, <2>2
<1>3. running' \in 0..Slots
  BY <1>1, <1>2, CoordinatorAssumption DEF SlotsInv
<1>4. next' \in Sites
  <2>1. next \in 0..(NumSites - 1) /\ NumSites \in Nat \ {0}
    BY CoordinatorAssumption DEF SlotsInv, Sites
  <2>2. (next + 1) % NumSites \in 0..(NumSites - 1)
    BY <2>1
  <2> QED
    BY <2>1, <2>2 DEF Claim, Sites
<1> QED
  BY <1>1, <1>3, <1>4 DEF SlotsInv, Phases

\* So no step takes more slots than there are.
LEMMA SlotsStep == TrialInv /\ SlotsInv /\ [Next]_vars => SlotsInv'
<1> SUFFICES ASSUME TrialInv, SlotsInv, [Next]_vars PROVE SlotsInv'
  OBVIOUS
<1>1. CASE Claim
  BY <1>1, ClaimsFit DEF TrialInv
<1>2. CASE Heartbeats
  BY <1>2 DEF Heartbeats, SlotsInv, Phases
<1>3. CASE NoSettings
  BY <1>3 DEF NoSettings, EndTick, SlotsInv, Phases
<1>4. CASE Wait \/ NotIsolated \/ Gate \/ ProbeFails \/ ProbeSucceeds \/ Allow
  <2>1. /\ UNCHANGED <<next, busy, running>>
        /\ phase' \in {"wait", "reap"} \/
             (phase \in {"gate", "probe", "allow"} /\ phase' \in {"probe", "allow", "claim"})
    BY <1>4 DEF Wait, NotIsolated, Gate, ProbeFails, ProbeSucceeds, Allow
  <2> QED
    BY <2>1 DEF SlotsInv, Phases
<1>5. ASSUME NEW outcome \in Outcomes, RunEnds(outcome) PROVE SlotsInv'
  <2>1. /\ running > 0 /\ running' = running - 1
        /\ UNCHANGED <<phase, busy, next>>
    BY <1>5 DEF RunEnds, tickVars
  <2> QED
    BY <2>1, CoordinatorAssumption DEF SlotsInv
<1>6. CASE UNCHANGED vars
  BY <1>6 DEF vars, tickVars, SlotsInv
<1> QED
  BY <1>1, <1>2, <1>3, <1>4, <1>5, <1>6 DEF Next, TickStep

LEMMA SlotsAreKept == Spec => []SlotsInv
<1>1. Init => SlotsInv
  BY CoordinatorAssumption DEF Init, SlotsInv, Sites, Phases
<1> QED
  BY <1>1, SlotsStep, CoordinatorSafety, PTL DEF Spec

\* The breaker's own counters.
BreakerInv ==
    /\ circuit \in {"closed", "open", "half_open"}
    /\ count \in 0..Threshold /\ probed \in 0..ProbeEvery

LEMMA BreakerStep == BreakerInv /\ [Next]_vars => BreakerInv'
<1> SUFFICES ASSUME BreakerInv, [Next]_vars PROVE BreakerInv'
  OBVIOUS
<1> USE CoordinatorAssumption
<1>1. CASE Wait \/ Gate
  <2>1. UNCHANGED <<circuit, count>>
    BY <1>1 DEF Wait, Gate
  <2>2. probed' \in 0..ProbeEvery
    BY <1>1 DEF Wait, Gate, ProbeLater, BreakerInv
  <2> QED
    BY <2>1, <2>2 DEF BreakerInv
<1>2. CASE \/ Heartbeats \/ NotIsolated \/ ProbeFails \/ Allow \/ Claim \/ NoSettings
           \/ UNCHANGED vars
  <2>1. UNCHANGED <<circuit, count, probed>>
    BY <1>2 DEF Heartbeats, NotIsolated, ProbeFails, Allow, Claim, NoSettings, vars,
                breakerVars
  <2> QED
    BY <2>1 DEF BreakerInv
<1>3. CASE ProbeSucceeds
  BY <1>3 DEF ProbeSucceeds, BreakerInv
<1>4. ASSUME NEW outcome \in Outcomes, RunEnds(outcome) PROVE BreakerInv'
  <2>1. circuit' \in {"closed", "open", "half_open"} /\ probed' \in 0..ProbeEvery
    BY <1>4 DEF RunEnds, BreakerInv
  <2>2. count' \in 0..Threshold
    BY <1>4 DEF RunEnds, Outcomes, BreakerInv
  <2> QED
    BY <2>1, <2>2 DEF BreakerInv
<1> QED
  BY <1>1, <1>2, <1>3, <1>4 DEF Next, TickStep

\* Every variable keeps its type, and the worker runs no more at once than it has
\* slots, however its runs end while a tick is under way (_claim_runs, _capacity).
THEOREM TypeCorrect == Spec => []TypeOK
<1>1. Init => BreakerInv
  BY CoordinatorAssumption DEF Init, BreakerInv
<1>2. TrialInv /\ SiteInv /\ SlotsInv /\ BreakerInv => TypeOK
  BY DEF TrialInv, SiteInv, SlotsInv, BreakerInv, TypeOK
<1> QED
  BY <1>1, <1>2, BreakerStep, SlotsAreKept, CoordinatorSafety, PTL DEF Spec

-----------------------------------------------------------------------------
(* Probes: the safety under OpenIsProbed.                                      *)

\* While the circuit is open nothing puts its next probe off, neither ticks that
\* find it open nor runs of an earlier time that fail, but the probe itself.
ProbeComesNearer ==
    [][circuit = "open" /\ circuit' = "open" =>
         probed' =< probed \/ (probed = 0 /\ phase' = "probe")]_vars

\* An open circuit is probed after ProbeEvery waits, also when other runs go on
\* failing and the loop goes round in between (_last_probe, record).
THEOREM ProbesAreNotPutOff == Spec => ProbeComesNearer
<1>1. BreakerInv /\ [Next]_vars
        => [circuit = "open" /\ circuit' = "open" =>
              probed' =< probed \/ (probed = 0 /\ phase' = "probe")]_vars
  <2> SUFFICES ASSUME BreakerInv, [Next]_vars, circuit = "open", circuit' = "open"
               PROVE  probed' =< probed \/ (probed = 0 /\ phase' = "probe")
    OBVIOUS
  <2>1. probed \in Nat
    BY CoordinatorAssumption DEF BreakerInv
  <2>2. CASE Wait
    BY <2>1, <2>2 DEF Wait
  <2>3. CASE Gate
    BY <2>1, <2>3 DEF Gate, ProbeLater
  <2>4. CASE \/ Heartbeats \/ NotIsolated \/ ProbeFails \/ ProbeSucceeds \/ Allow
             \/ Claim \/ NoSettings \/ UNCHANGED vars
    <3>1. probed' = probed
      BY <2>4 DEF Heartbeats, NotIsolated, ProbeFails, ProbeSucceeds, Allow, Claim,
                  NoSettings, vars, breakerVars
    <3> QED
      BY <2>1, <3>1
  <2>5. ASSUME NEW outcome \in Outcomes, RunEnds(outcome) PROVE probed' =< probed
    BY <2>1, <2>5 DEF RunEnds
  <2> QED
    BY <2>2, <2>3, <2>4, <2>5 DEF Next, TickStep
<1>2. Init => BreakerInv
  BY CoordinatorAssumption DEF Init, BreakerInv
<1> QED
  BY <1>1, <1>2, BreakerStep, PTL DEF Spec, ProbeComesNearer
=============================================================================
