----------------------- MODULE ContainerRuntimeProofs -----------------------
(***************************************************************************)
(* What the container's plugins keep for any number of sessions and of     *)
(* model calls under way.                                                  *)
(***************************************************************************)
EXTENDS ContainerRuntime, TLAPS

OpenType == [id : Sessions, resume : BOOLEAN, at : {"list", "native"}]
CallType == [purpose : {"conversation", "compaction"}, system : BOOLEAN,
             at : {"reserving", "streaming", "finished"}]

\* Why there is one writer: an open holds the Map's only key from before its
\* first await until it has an agent or has failed, and teardown waits for it.
WriterInv ==
    /\ opens \subseteq OpenType
    /\ opened = agents /\ agents \subseteq handles
    /\ \A i, j \in handles : i = j
    /\ \A o \in opens : o.id = opening /\ o.id \in handles
    /\ \A o, p \in opens : o = p
    /\ opens = {} \/ agents = {}
    /\ disposed => closing /\ opens = {} /\ agents = {}

\* Why nothing follows a refusal: whatever refuses a call raises the flag that
\* the others look at after their own authorization.
GuardInv ==
    /\ calls \subseteq CallType
    /\ \A c \in calls : c.system
    /\ refused => disabled

-----------------------------------------------------------------------------
\* The container starts with nothing open and nothing refused.
LEMMA InitHolds == Init => WriterInv /\ GuardInv
BY DEF Init, WriterInv, GuardInv

\* Steps that touch no session.
LEMMA ElsewhereKeepsWriter ==
    ASSUME WriterInv, UNCHANGED <<sessionVars, closing, disposed>>
    PROVE  WriterInv'
BY DEF WriterInv, sessionVars

\* A failed open gives its key back.
LEMMA FailedOpenKeepsWriter ==
    ASSUME WriterInv, NEW o \in opens, OpenFails(o), UNCHANGED <<closing, disposed>>
    PROVE  WriterInv'
<1>1. opens' = {} /\ handles' = {} /\ agents' = {} /\ opened' = {}
  BY DEF OpenFails, WriterInv
<1> QED
  BY <1>1 DEF WriterInv, OpenFails

\* Every step keeps one writer.
LEMMA WriterStep == WriterInv /\ [Next]_vars => WriterInv'
<1> SUFFICES ASSUME WriterInv, [Next]_vars PROVE WriterInv'
  OBVIOUS
<1>1. ASSUME NEW id \in Sessions, NEW resume \in BOOLEAN, Open(id, resume)
      PROVE  WriterInv'
  <2>1. opens = {} /\ agents = {} /\ ~ disposed /\ handles = {}
    BY <1>1 DEF Open, Serving, WriterInv
  <2>2. PICK o \in OpenType : o.id = id /\ opens' = {o}
    BY <1>1, <2>1 DEF Open, OpenType
  <2>3. /\ handles' = {id} /\ opening' = id
        /\ agents' = {} /\ opened' = {} /\ ~ disposed'
    BY <1>1, <2>1 DEF Open, Reserve, WriterInv
  <2> QED
    BY <2>2, <2>3 DEF WriterInv
<1>2. ASSUME NEW o \in opens, Listed(o) PROVE WriterInv'
  <2>1. CASE o.id \in persisted
    BY <1>2, <2>1, FailedOpenKeepsWriter DEF Listed
  <2>2. CASE o.id \notin persisted
    <3>1. opens = {o} /\ o \in OpenType
      BY DEF WriterInv
    <3>2. PICK p \in OpenType : p.id = o.id /\ opens' = {p}
      BY <1>2, <2>2, <3>1 DEF Listed, OpenType
    <3>3. UNCHANGED <<handles, opened, opening, agents, closing, disposed>>
      BY <1>2, <2>2 DEF Listed
    <3> QED
      BY <3>1, <3>2, <3>3 DEF WriterInv
  <2> QED
    BY <2>1, <2>2
<1>3. ASSUME NEW o \in opens, Native(o) PROVE WriterInv'
  <2>1. CASE OpenFails(o)
    BY <1>3, <2>1, FailedOpenKeepsWriter DEF Native
  <2>2. CASE ~ OpenFails(o)
    <3>1. opens = {o} /\ agents = {} /\ opened = {} /\ handles = {o.id} /\ ~ disposed
      BY DEF WriterInv
    <3>2. /\ opens' = {} /\ agents' = {o.id} /\ opened' = {o.id}
          /\ handles' = {o.id} /\ ~ disposed'
      BY <1>3, <2>2, <3>1 DEF Native
    <3> QED
      BY <3>2 DEF WriterInv
  <2> QED
    BY <2>1, <2>2
<1>4. CASE Teardown
  <2>1. opens = {}
    BY <1>4 DEF Teardown, OpeningSettled, WriterInv
  <2>2. /\ opens' = {} /\ agents' = {} /\ opened' = {} /\ handles' = {}
        /\ closing'
    BY <1>4, <2>1 DEF Teardown, WriterInv
  <2> QED
    BY <2>2 DEF WriterInv
<1>5. CASE dispose
  BY <1>5 DEF dispose, WriterInv, sessionVars
<1>6. CASE \/ Start \/ ChangeFiles \/ initialize \/ GuardStep \/ TurnEnds
           \/ \E id \in Sessions : prompt(id) \/ cancel(id)
           \/ UNCHANGED vars
  <2>1. UNCHANGED <<sessionVars, closing, disposed>>
    BY <1>6
       DEF Start, ChangeFiles, initialize, GuardStep, TurnEnds, prompt, cancel,
           Call, Allowed, Refused, Finish, StreamEnds, StreamThrows, guardOnly, vars
  <2> QED
    BY <2>1, ElsewhereKeepsWriter
<1> QED
  BY <1>1, <1>2, <1>3, <1>4, <1>5, <1>6 DEF Next, Request

-----------------------------------------------------------------------------
\* A call that goes on goes on as the call it was.
LEMMA AdvanceKeepsGuard ==
    ASSUME GuardInv, NEW c \in calls,
           NEW to \in {"reserving", "streaming", "finished"}, Advance(c, to)
    PROVE  GuardInv'
<1>1. [c EXCEPT !.at = to] \in CallType /\ [c EXCEPT !.at = to].system
  BY DEF GuardInv, CallType
<1> QED
  BY <1>1 DEF GuardInv, Advance

\* A call that throws raises the flag.
LEMMA ThrowKeepsGuard ==
    ASSUME GuardInv, NEW c, Throw(c)
    PROVE  GuardInv'
BY DEF GuardInv, Throw

\* Every step keeps the guard.
LEMMA GuardStepKeeps == GuardInv /\ [Next]_vars => GuardInv'
<1> SUFFICES ASSUME GuardInv, [Next]_vars PROVE GuardInv'
  OBVIOUS
<1>1. ASSUME NEW purpose \in {"conversation", "compaction"},
             NEW carries \in BOOLEAN, Call(purpose, carries)
      PROVE  GuardInv'
  <2> DEFINE c == [purpose |-> purpose, system |-> carries, at |-> "reserving"]
  <2>1. CASE carries /\ check
    <3>1. c \in CallType /\ c.system
      BY <2>1 DEF CallType
    <3>2. calls' = calls \cup {c} /\ UNCHANGED <<disabled, refused>>
      BY <1>1, <2>1 DEF Call
    <3> QED
      BY <3>1, <3>2 DEF GuardInv
  <2>2. CASE ~ (carries /\ check)
    BY <1>1, <2>2, ThrowKeepsGuard DEF Call
  <2> QED
    BY <2>1, <2>2
<1>2. ASSUME NEW c \in calls,
             Allowed(c) \/ Refused(c) \/ Finish(c) \/ StreamEnds(c) \/ StreamThrows(c)
      PROVE  GuardInv'
  <2>1. CASE Throw(c)
    BY <2>1, ThrowKeepsGuard
  <2>2. CASE Advance(c, "streaming") \/ Advance(c, "finished")
    BY <2>2, AdvanceKeepsGuard
  <2>3. CASE calls' = calls \ {c} /\ UNCHANGED <<disabled, refused>>
    BY <2>3 DEF GuardInv
  <2> QED
    BY <1>2, <2>1, <2>2, <2>3 DEF Allowed, Refused, Finish, StreamEnds, StreamThrows
<1>3. CASE Teardown
  BY <1>3 DEF Teardown, GuardInv
<1>4. CASE \/ Start \/ ChangeFiles \/ Request \/ TurnEnds
           \/ \E o \in opens : Listed(o) \/ Native(o)
           \/ UNCHANGED vars
  <2>1. UNCHANGED guardVars
    BY <1>4
       DEF Start, ChangeFiles, Request, TurnEnds, Listed, Native, initialize,
           dispose, prompt, cancel, Open, vars
  <2> QED
    BY <2>1 DEF GuardInv, guardVars
<1> QED
  BY <1>1, <1>2, <1>3, <1>4 DEF Next, GuardStep

\* Only an authorization that finds the flag down starts a stream.
LEMMA StreamsAreAllowed ==
    ASSUME GuardInv, [Next]_vars, NEW c \in calls' \ calls, c.at = "streaming"
    PROVE  ~ refused /\ check /\ c.system
<1>1. ASSUME NEW d \in calls, Allowed(d) PROVE ~ refused /\ check /\ c.system
  <2>1. check /\ ~ disabled /\ Advance(d, "streaming")
    BY <1>1 DEF Allowed, StillEnabled, Throw
  <2>2. c = [d EXCEPT !.at = "streaming"] /\ d \in CallType /\ d.system
    BY <2>1 DEF Advance, GuardInv
  <2>3. c.system
    BY <2>2 DEF CallType
  <2> QED
    BY <2>1, <2>3 DEF GuardInv
<1>2. ASSUME NEW d \in calls, Finish(d) PROVE FALSE
  <2>1. Advance(d, "finished")
    BY <1>2 DEF Finish, Throw
  <2>2. c = [d EXCEPT !.at = "finished"] /\ d \in CallType
    BY <2>1 DEF Advance, GuardInv
  <2> QED
    BY <2>2 DEF CallType
<1>3. ASSUME NEW purpose \in {"conversation", "compaction"},
             NEW carries \in BOOLEAN, Call(purpose, carries)
      PROVE  FALSE
  BY <1>3 DEF Call, Throw
<1>4. ASSUME NEW d \in calls, Refused(d) \/ StreamEnds(d) \/ StreamThrows(d) PROVE FALSE
  BY <1>4 DEF Refused, StreamEnds, StreamThrows, Throw
<1>5. CASE \/ Start \/ ChangeFiles \/ Request \/ TurnEnds \/ Teardown
           \/ \E o \in opens : Listed(o) \/ Native(o)
           \/ UNCHANGED vars
  BY <1>5
     DEF Start, ChangeFiles, Request, TurnEnds, Teardown, Listed, Native, initialize,
         dispose, prompt, cancel, Open, vars, guardVars
<1> QED
  BY <1>1, <1>2, <1>3, <1>4, <1>5 DEF Next, GuardStep

-----------------------------------------------------------------------------
\* Both invariants hold throughout.
LEMMA RuntimeSafety == Spec => [](WriterInv /\ GuardInv)
<1> QED
  BY InitHolds, WriterStep, GuardStepKeeps, PTL DEF Spec

\* However many opens a client sends, and whenever it sends them, a runtime has
\* at most one native session open or being opened (session/open).
THEOREM WriterIsAlone == Spec => []OneWriter
<1>1. WriterInv => OneWriter
  BY DEF WriterInv, OneWriter
<1> QED
  BY <1>1, RuntimeSafety, PTL

\* Whatever is under way when the container is told to shut down, nothing native
\* survives its teardown (dispose).
THEOREM TeardownIsComplete == Spec => []NothingOutlives
<1>1. WriterInv => NothingOutlives
  BY DEF WriterInv, NothingOutlives
<1> QED
  BY <1>1, RuntimeSafety, PTL

\* However many calls of the model are under way, none reaches the provider
\* after one was refused, over changed files or without its skill (createGuard).
THEOREM RefusalIsFinal == Spec => NothingAfterRefusal
<1>1. GuardInv /\ [Next]_vars =>
        [\A c \in calls' \ calls : c.at = "streaming" => ~ refused /\ check /\ c.system]_vars
  BY StreamsAreAllowed
<1> QED
  BY <1>1, RuntimeSafety, PTL DEF Spec, NothingAfterRefusal

-----------------------------------------------------------------------------
\* What else the variables hold.
PartsInv ==
    /\ up \in {"starting", "up", "dead"} /\ files \in {"initial", "changed"}
    /\ {skills, options, closing, disposed, disabled, refused} \subseteq BOOLEAN
    /\ handles \subseteq Sessions /\ opening \in Sessions \cup {None}
    /\ persisted \subseteq Sessions /\ agents \subseteq persisted
    /\ status \in {"idle", "running", "cancelling"}

\* The sessions of a step are those of an open.
LEMMA SessionsStep ==
    ASSUME WriterInv, PartsInv, [Next]_vars
    PROVE  /\ handles' \subseteq Sessions /\ opening' \in Sessions \cup {None}
           /\ persisted' \subseteq Sessions /\ agents' \subseteq persisted'
<1>1. ASSUME NEW id \in Sessions, NEW resume \in BOOLEAN, Open(id, resume)
      PROVE  /\ handles' \subseteq Sessions /\ opening' \in Sessions \cup {None}
             /\ UNCHANGED <<persisted, agents>>
  BY <1>1 DEF Open, Reserve, PartsInv
<1>2. ASSUME NEW o \in opens, Listed(o) \/ Native(o)
      PROVE  /\ handles' \subseteq Sessions /\ opening' = opening
             /\ persisted' \subseteq Sessions /\ agents' \subseteq persisted'
  <2>1. o.id \in Sessions
    BY DEF WriterInv, OpenType
  <2> QED
    BY <1>2, <2>1 DEF Listed, Native, OpenFails, PartsInv
<1>3. CASE Teardown
  BY <1>3 DEF Teardown, PartsInv
<1>4. CASE \/ Start \/ ChangeFiles \/ initialize \/ dispose \/ GuardStep \/ TurnEnds
           \/ \E id \in Sessions : prompt(id) \/ cancel(id)
           \/ UNCHANGED vars
  <2>1. UNCHANGED sessionVars
    BY <1>4
       DEF Start, ChangeFiles, initialize, dispose, GuardStep, TurnEnds, prompt, cancel,
           Call, Allowed, Refused, Finish, StreamEnds, StreamThrows, guardOnly, vars
  <2> QED
    BY <2>1 DEF sessionVars, PartsInv
<1> QED
  BY <1>1, <1>2, <1>3, <1>4 DEF Next, Request, PartsInv

\* The flags stay flags.
LEMMA FlagsStep ==
    ASSUME GuardInv, PartsInv, [Next]_vars
    PROVE  /\ up' \in {"starting", "up", "dead"} /\ files' \in {"initial", "changed"}
           /\ {skills, options, closing, disposed, disabled, refused}' \subseteq BOOLEAN
           /\ status' \in {"idle", "running", "cancelling"}
<1> USE DEF PartsInv
<1>1. CASE Start
  BY <1>1 DEF Start, fileVars, guardVars
<1>2. CASE ChangeFiles
  BY <1>2 DEF ChangeFiles, guardVars
<1>3. CASE Request
  BY <1>3 DEF Request, initialize, dispose, prompt, cancel, Open, fileVars, guardVars
<1>4. CASE \E o \in opens : Listed(o) \/ Native(o)
  BY <1>4 DEF Listed, Native, fileVars, guardVars
<1>5. CASE Teardown \/ TurnEnds
  BY <1>5 DEF Teardown, TurnEnds, fileVars, guardVars
<1>6. CASE GuardStep
  <2>1. guardOnly /\ disabled' \in BOOLEAN /\ refused' \in BOOLEAN
    BY <1>6 DEF GuardStep, Call, Allowed, Refused, Finish, StreamEnds, StreamThrows,
                Throw, Advance
  <2> QED
    BY <2>1 DEF guardOnly, fileVars
<1>7. CASE UNCHANGED vars
  BY <1>7 DEF vars, fileVars, guardVars
<1> QED
  BY <1>1, <1>2, <1>3, <1>4, <1>5, <1>6, <1>7 DEF Next

LEMMA PartsHold == Spec => []PartsInv
<1>1. Init => PartsInv
  BY DEF Init, PartsInv
<1>2. WriterInv /\ GuardInv /\ PartsInv /\ [Next]_vars => PartsInv'
  <2> SUFFICES ASSUME WriterInv, GuardInv, PartsInv, [Next]_vars PROVE PartsInv'
    OBVIOUS
  <2> QED
    BY SessionsStep, FlagsStep DEF PartsInv
<1> QED
  BY <1>1, <1>2, RuntimeSafety, PTL DEF Spec

\* Every variable keeps its type; in particular an agent alive is on disk, so that
\* a later run can resume it (session/open).
THEOREM TypeCorrect == Spec => []TypeOK
<1>1. WriterInv /\ GuardInv /\ PartsInv => TypeOK
  BY DEF WriterInv, GuardInv, PartsInv, TypeOK, OpenType, CallType
<1> QED
  BY <1>1, RuntimeSafety, PartsHold, PTL

-----------------------------------------------------------------------------
\* A call of the model is made in a turn of an agent alive, under a started
\* runtime; so none is left when the turn, the agent or the runtime is gone.
CallsHaveTheirTurn ==
    /\ calls # {} => status # "idle"
    /\ status # "idle" => agents # {} /\ up = "up" /\ ~ disposed

\* Nothing is opened before the start, nor after a failed one.
StartInv == up = "up" \/ (agents = {} /\ opens = {})

\* A turn is begun on an agent and ends after its calls; the teardown ends it with
\* its agent.
LEMMA TurnStep ==
    WriterInv /\ StartInv /\ CallsHaveTheirTurn /\ [Next]_vars
      => StartInv' /\ CallsHaveTheirTurn'
<1> SUFFICES ASSUME WriterInv, StartInv, CallsHaveTheirTurn, [Next]_vars
             PROVE  StartInv' /\ CallsHaveTheirTurn'
  OBVIOUS
<1> USE DEF CallsHaveTheirTurn, StartInv
<1>1. CASE Start
  BY <1>1 DEF Start, sessionVars, guardVars
<1>2. ASSUME NEW id \in Sessions, prompt(id) \/ cancel(id)
      PROVE  StartInv' /\ CallsHaveTheirTurn'
  <2>1. up = "up" /\ agents # {} /\ ~ disposed
    BY <1>2 DEF prompt, cancel, Serving, handleFor, WriterInv
  <2>2. UNCHANGED <<up, agents, disposed, calls>> /\ status' # "idle"
    BY <1>2 DEF prompt, cancel, sessionVars, guardVars
  <2> QED
    BY <2>1, <2>2
<1>3. CASE GuardStep
  <2>1. (calls # {} \/ status = "running") /\ guardOnly
    BY <1>3 DEF GuardStep, Call, Allowed, Refused, Finish, StreamEnds, StreamThrows
  <2> QED
    BY <2>1 DEF guardOnly, sessionVars
<1>4. CASE Teardown
  <2>1. opens = {} /\ opened = agents
    BY <1>4 DEF Teardown, OpeningSettled, WriterInv
  <2>2. agents' = {} /\ opens' = {} /\ calls' = {} /\ status' = "idle"
    BY <1>4, <2>1 DEF Teardown
  <2> QED
    BY <2>2
<1>5. CASE TurnEnds
  BY <1>5 DEF TurnEnds, sessionVars, guardVars
<1>6. ASSUME NEW o \in opens, Listed(o) \/ Native(o)
      PROVE  StartInv' /\ CallsHaveTheirTurn'
  <2>1. UNCHANGED <<up, disposed, status, calls>>
    BY <1>6 DEF Listed, Native, guardVars
  <2>2. agents = {} /\ status = "idle" /\ up = "up"
    BY DEF WriterInv
  <2> QED
    BY <2>1, <2>2
<1>7. ASSUME NEW id \in Sessions, NEW resume \in BOOLEAN, Open(id, resume)
      PROVE  StartInv' /\ CallsHaveTheirTurn'
  BY <1>7 DEF Open, Serving, guardVars
<1>8. CASE ChangeFiles \/ initialize \/ dispose \/ UNCHANGED vars
  <2>1. UNCHANGED <<up, disposed, agents, opens, status, calls>>
    BY <1>8 DEF ChangeFiles, initialize, dispose, vars, sessionVars, guardVars
  <2> QED
    BY <2>1
<1> QED
  BY <1>1, <1>2, <1>3, <1>4, <1>5, <1>6, <1>7, <1>8 DEF Next, Request

\* However turns, cancels, failures and the teardown meet, no call of the model is
\* left over from a turn that is no more (session/prompt, dispose, createGuard).
THEOREM NoCallIsLeft == Spec => []CallsHaveTheirTurn
<1>1. Init => StartInv /\ CallsHaveTheirTurn
  BY DEF Init, StartInv, CallsHaveTheirTurn
<1> QED
  BY <1>1, TurnStep, RuntimeSafety, PTL DEF Spec
=============================================================================
