-------------------------- MODULE ContainerRuntime --------------------------
(***************************************************************************)
(* The dsherp plugins inside a run's container: the protocol that opens    *)
(* one native session and drives it (context-plugin.cjs), the system       *)
(* prompt's sections (prompt-sections.cjs), and the guard every call of    *)
(* the model passes (model-guard.cjs), the calls of a compaction as well   *)
(* as those of the conversation.                                           *)
(*                                                                         *)
(* Requests, native factories, model calls and changes of the mounted      *)
(* files interleave at every await.  What the Site answers a reservation   *)
(* with is RunLifecycle's ReserveModelCall: here it allows or refuses.     *)
(* Left out: the reports of a call, whose failures the guard swallows,     *)
(* session/exists, which reads, and the official server's own state.       *)
(***************************************************************************)
EXTENDS Integers, FiniteSets

CONSTANTS
    Sessions,   \* session identities
    None,       \* no session
    MaxCalls    \* bound: model calls under way at once

ASSUME RuntimeAssumption == None \notin Sessions

VARIABLES
    up,         \* "starting", "up", or "dead": apply threw
    files,      \* the pinned files: as at start or changed since
    skills,     \* the mounted skills agree with their manifest
    options,    \* initialize has ended
    closing,    \* dispose was called
    disposed,   \* teardown has ended
    handles,    \* the Map's keys
    opened,     \* those whose value is a native handle
    opening,    \* the session of the last open, None before
    opens,      \* opens whose promise is not settled
    persisted,  \* sessions on disk
    agents,     \* native agents alive
    status,     \* of the agent: "idle", "running" or "cancelling"
    disabled,   \* the guard's flag
    calls,      \* model calls in the guard
    refused     \* history: a call was refused or failed

fileVars == <<files, skills>>
sessionVars == <<handles, opened, opening, opens, persisted, agents>>
guardVars == <<disabled, calls, refused>>
vars == <<up, fileVars, options, closing, disposed, sessionVars, status, guardVars>>

TypeOK ==
    /\ up \in {"starting", "up", "dead"} /\ files \in {"initial", "changed"}
    /\ {skills, options, closing, disposed, disabled, refused} \subseteq BOOLEAN
    /\ handles \subseteq Sessions /\ opened \subseteq handles
    /\ opening \in Sessions \cup {None}
    /\ opens \subseteq [id : Sessions, resume : BOOLEAN, at : {"list", "native"}]
    /\ persisted \subseteq Sessions /\ agents \subseteq persisted
    /\ status \in {"idle", "running", "cancelling"}
    /\ calls \subseteq [purpose : {"conversation", "compaction"}, system : BOOLEAN,
                       at : {"reserving", "streaming", "finished"}]

Init ==
    /\ up = "starting"
    /\ files = "initial" /\ skills \in BOOLEAN
    /\ options = FALSE /\ closing = FALSE /\ disposed = FALSE
    /\ handles = {} /\ opened = {} /\ opening = None /\ opens = {}
    /\ persisted \in SUBSET Sessions
    /\ agents = {} /\ status = "idle"
    /\ disabled = FALSE /\ calls = {} /\ refused = FALSE

-----------------------------------------------------------------------------
(* The container's files, and the start.                                   *)

watchFiles == files = "initial"

verifyBusinessSkills == skills

check == watchFiles /\ verifyBusinessSkills

ChangeFiles ==
    /\ up = "up"
    /\ \/ files' = (IF files = "initial" THEN "changed" ELSE "initial") /\ UNCHANGED skills
       \/ skills' = ~ skills /\ UNCHANGED files
    /\ UNCHANGED <<up, options, closing, disposed, sessionVars, status, guardVars>>

\* The guard's apply: skills that do not fit their manifest end the start, and
\* so does a domain, a deployment digest or a revision that is not the run's.
GuardStarts == IF verifyBusinessSkills THEN BOOLEAN ELSE {FALSE}

\* The sections' apply verifies the skills again and builds the skill's text.
SectionsStart == IF verifyBusinessSkills THEN BOOLEAN ELSE {FALSE}

Start ==
    /\ up = "starting"
    /\ \E guard \in GuardStarts, sections \in SectionsStart :
          up' = IF guard /\ sections THEN "up" ELSE "dead"
    /\ UNCHANGED <<fileVars, options, closing, disposed, sessionVars, status, guardVars>>

-----------------------------------------------------------------------------
(* The protocol.                                                           *)

Serving == up = "up" /\ ~ closing

initialize ==
    /\ Serving /\ ~ options
    /\ options' = TRUE
    /\ UNCHANGED <<up, fileVars, closing, disposed, sessionVars, status, guardVars>>

\* Variation: the session is entered in the Map once its agent is there.
ReserveLater(id) == handles

Reserve(id) == handles \cup {id}

Open(id, resume) ==
    /\ Serving /\ options
    /\ handles = {}
    /\ handles' = Reserve(id)
    /\ opening' = id
    /\ opens' = opens \cup {[id |-> id, resume |-> resume,
                             at |-> IF resume THEN "native" ELSE "list"]}
    /\ UNCHANGED <<up, fileVars, options, closing, disposed, opened, persisted, agents,
                   status, guardVars>>

OpenFails(o) ==
    /\ handles' = handles \ {o.id}
    /\ opens' = opens \ {o}
    /\ UNCHANGED <<opened, opening, persisted, agents>>

Listed(o) ==
    /\ o.at = "list"
    /\ IF o.id \in persisted
       THEN OpenFails(o)
       ELSE /\ opens' = (opens \ {o}) \cup {[o EXCEPT !.at = "native"]}
            /\ UNCHANGED <<handles, opened, opening, persisted, agents>>
    /\ UNCHANGED <<up, fileVars, options, closing, disposed, status, guardVars>>

\* The native factory resumes or creates the agent, or fails.
Native(o) ==
    /\ o.at = "native"
    /\ \/ /\ o.resume => o.id \in persisted
          /\ agents' = agents \cup {o.id}
          /\ persisted' = persisted \cup {o.id}
          /\ handles' = handles \cup {o.id}
          /\ opened' = opened \cup {o.id}
          /\ opens' = opens \ {o}
          /\ UNCHANGED opening
       \/ OpenFails(o)
    /\ UNCHANGED <<up, fileVars, options, closing, disposed, status, guardVars>>

handleFor(id) == id \in opened \cap agents

prompt(id) ==
    /\ Serving /\ options /\ handleFor(id)
    /\ status = "idle"
    /\ status' = "running"
    /\ UNCHANGED <<up, fileVars, options, closing, disposed, sessionVars, guardVars>>

cancel(id) ==
    /\ Serving /\ options /\ handleFor(id)
    /\ status = "running"
    /\ status' = "cancelling"
    /\ UNCHANGED <<up, fileVars, options, closing, disposed, sessionVars, guardVars>>

\* The shutdown request, and the effect's cleanup.
dispose ==
    /\ up = "up" /\ ~ closing
    /\ closing' = TRUE
    /\ UNCHANGED <<up, fileVars, options, disposed, sessionVars, status, guardVars>>

\* Variation: the teardown does not wait for an open that is under way.
NothingToWaitFor == TRUE

OpeningSettled == \A o \in opens : o.id # opening

\* The handles are disposed of, and with an agent its turn and its calls.
Teardown ==
    /\ closing /\ ~ disposed /\ OpeningSettled
    /\ disposed' = TRUE
    /\ agents' = agents \ opened
    /\ handles' = {} /\ opened' = {}
    /\ status' = "idle" /\ calls' = {}
    /\ UNCHANGED <<up, fileVars, options, closing, opening, opens, persisted, disabled, refused>>

-----------------------------------------------------------------------------
(* The guard.                                                              *)

guardOnly == UNCHANGED <<up, fileVars, options, closing, disposed, sessionVars, status>>

Throw(c) ==
    /\ calls' = calls \ {c}
    /\ disabled' = TRUE
    /\ refused' = TRUE

Advance(c, to) ==
    /\ calls' = (calls \ {c}) \cup {[c EXCEPT !.at = to]}
    /\ UNCHANGED <<disabled, refused>>

\* requireSystemFor: the system prompt carries the pinned skill.  A call of a
\* disabled guard throws at once and leaves everything as it is.
Call(purpose, carries) ==
    /\ status = "running" /\ Cardinality(calls) < MaxCalls
    /\ \A c \in calls : c.purpose # purpose
    /\ ~ disabled
    /\ LET c == [purpose |-> purpose, system |-> carries, at |-> "reserving"] IN
       IF carries /\ check
       THEN calls' = calls \cup {c} /\ UNCHANGED <<disabled, refused>>
       ELSE Throw(c)
    /\ guardOnly

\* Variation: an authorization that has come is used, whatever came before it.
WasAuthorized == TRUE

StillEnabled == ~ disabled

\* The Site allows the call; the files and the flag are looked at again.
Allowed(c) ==
    /\ c.at = "reserving"
    /\ IF check /\ StillEnabled THEN Advance(c, "streaming") ELSE Throw(c)
    /\ guardOnly

Refused(c) ==
    /\ c.at = "reserving"
    /\ Throw(c)
    /\ guardOnly

\* The finish chunk has come and goes on once the report is sent or lost.
Finish(c) ==
    /\ c.at = "streaming"
    /\ IF check THEN Advance(c, "finished") ELSE Throw(c)
    /\ guardOnly

StreamEnds(c) ==
    /\ c.at \in {"streaming", "finished"}
    /\ IF check THEN calls' = calls \ {c} /\ UNCHANGED <<disabled, refused>> ELSE Throw(c)
    /\ guardOnly

\* The provider or the connection fails, or the turn is cancelled.
StreamThrows(c) ==
    /\ c.at \in {"streaming", "finished"}
    /\ Throw(c)
    /\ guardOnly

TurnEnds ==
    /\ status # "idle" /\ calls = {}
    /\ status' = "idle"
    /\ UNCHANGED <<up, fileVars, options, closing, disposed, sessionVars, guardVars>>

-----------------------------------------------------------------------------
Request ==
    \/ initialize \/ dispose
    \/ \E id \in Sessions :
          prompt(id) \/ cancel(id) \/ \E resume \in BOOLEAN : Open(id, resume)

GuardStep ==
    \/ \E purpose \in {"conversation", "compaction"}, carries \in BOOLEAN : Call(purpose, carries)
    \/ \E c \in calls : Allowed(c) \/ Refused(c) \/ Finish(c) \/ StreamEnds(c) \/ StreamThrows(c)

Next ==
    \/ Start \/ ChangeFiles \/ Request
    \/ \E o \in opens : Listed(o) \/ Native(o)
    \/ Teardown \/ GuardStep \/ TurnEnds

Spec == Init /\ [][Next]_vars

-----------------------------------------------------------------------------
\* One runtime has one session writer: two open requests at once, or one after
\* a failed one, never have two opens or native agents between them (the
\* reservation in session/open).
OneWriter ==
    /\ \A o, p \in opens : o = p
    /\ \A i, j \in agents : i = j
    /\ opens = {} \/ agents = {}

\* After the teardown nothing native is left alive or on its way, whatever was
\* being opened when it began (dispose and opening).
NothingOutlives == disposed => agents = {} /\ opens = {}

\* The provider is asked only under what was verified at the start, by a call
\* whose system prompt carries the skill, and never after another call was
\* refused or failed, even when both were authorized at the same time and the
\* refusal was swallowed (the guard's flag and its second look at it).
NothingAfterRefusal ==
    [][\A c \in calls' \ calls :
          c.at = "streaming" => ~ refused /\ check /\ c.system]_vars
=============================================================================
