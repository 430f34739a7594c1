------------------------------ MODULE Sidebar ------------------------------
(***************************************************************************)
(* The Agent drawer on a business page (ContextSidebar.jsx): it opens the  *)
(* user's last conversation, sends messages with what the user allows it   *)
(* to see of the page, polls, and may be closed, emptied or switched while *)
(* calls are under way.                                                    *)
(*                                                                         *)
(* One counter, generation, outdates everything: an operation takes a new  *)
(* ticket, and what comes back with an old one is dropped.  As only its    *)
(* being the newest is ever asked, each call carries that as a flag.       *)
(* pending and busy always move together and are one variable; so is the   *)
(* error line with its errorRetryable.  A handler runs to its first await  *)
(* in one step, with the effects React runs for it.                        *)
(*                                                                         *)
(* What the drawer knows of the page it was read when a handler last       *)
(* captured it; the user may have gone on since.                           *)
(*                                                                         *)
(* Left out: the poll's growing delay (time is not modelled: its timer     *)
(* fires at any moment), the attachment, the domain, titles and layout.    *)
(***************************************************************************)
EXTENDS Integers, FiniteSets

CONSTANTS
    Ids,        \* conversations that exist or may be made
    Held,       \* those on file at first
    Last,       \* the one list_sessions puts first
    Routes,     \* business pages the user moves between
    None,
    MaxCalls,   \* bound: calls under way at once
    MaxActs     \* bound: things the user does

ASSUME SidebarAssumption ==
    /\ Held \subseteq Ids
    /\ Last \in Held
    /\ None \notin Ids \cup Routes

VARIABLES
    site,       \* the Site's conversations: made, active, and how the proposal
                \* in it reads: None, "Unready" while its run goes on, "Pending",
                \* or however it was closed
    allowed,    \* the user still has the right to them
    calls,      \* calls under way
    open,       \* the drawer
    listed,     \* the history list
    session,    \* the conversation shown
    selected,   \* selected.current
    pending,    \* an operation owns the drawer
    error,      \* "", "transient" (retryable), "permission" or "other"
    armed,      \* the poll's timer is running
    question,   \* something is written in the composer
    route,      \* the page under the drawer
    page,       \* the page as it was captured last, or None
    provided,   \* the page the unsaved fields are kept for, or None
    acts        \* things the user did so far

siteVars == <<site, allowed>>
shownVars == <<listed, session, selected>>
inputVars == <<question, route, page, provided>>
sidebarVars == <<siteVars, calls, open, shownVars, pending, error, armed, inputVars, acts>>

View(i) == [id |-> i, active |-> site[i].active, proposal |-> site[i].proposal]

SiteIds == {i \in Ids : site[i].made}

Hard == {"permission", "other"}

-----------------------------------------------------------------------------
Call(op, i) == [op |-> op, id |-> i, ticket |-> TRUE, live |-> TRUE, reply |-> None]

Room == Cardinality(calls) < MaxCalls

\* ++generation.current
Outdated(cs) == {[c EXCEPT !.ticket = FALSE] : c \in cs}

\* The effect that polls depends on the drawer and on the error line: a change
\* of either stops its poll and starts a timer, unless the error forbids it.
Effect(cs, opened, now) ==
    /\ open' = opened
    /\ error' = now
    /\ IF opened = open /\ now = error
       THEN armed' = armed /\ calls' = cs
       ELSE /\ armed' = (opened /\ now \notin Hard)
            /\ calls' = {IF c.op = "poll" THEN [c EXCEPT !.live = FALSE] ELSE c : c \in cs}

\* The page may refuse a snapshot (too large, a field gone); show only sets
\* the message then, and not whether trying again may help.
Untaken == IF error = "transient" THEN "transient" ELSE "other"

SidebarInit ==
    /\ site = [i \in Ids |->
                 [made |-> i \in Held, active |-> i = Last,
                  proposal |-> IF i = Last THEN "Unready" ELSE None]]
    /\ allowed = TRUE
    /\ calls = {} /\ open = FALSE
    /\ listed = {} /\ session = None /\ selected = None
    /\ pending = FALSE /\ error = "" /\ armed = FALSE
    /\ question = FALSE /\ route \in Routes /\ page = None /\ provided = None
    /\ acts = 0

-----------------------------------------------------------------------------
(* The Site.                                                               *)

CarryOut(c) ==
    /\ c.op \in {"send", "cancel"} /\ c.reply = None /\ allowed
    /\ \E i \in Ids :
          /\ IF c.op = "send" /\ c.id = None THEN ~ site[i].made ELSE i = c.id
          /\ c.op = "send" => ~ site[i].active
          /\ site' = [site EXCEPT ![i].made = TRUE, ![i].active = (c.op = "send")]
          /\ calls' = (calls \ {c}) \cup {[c EXCEPT !.reply = View(i)']}
    /\ UNCHANGED <<allowed, open, shownVars, pending, error, armed, inputVars, acts>>

\* A run ends: if it proposed something, that can be confirmed from now on.
RunEnds(i) ==
    /\ site[i].active
    /\ site' = [site EXCEPT ![i].active = FALSE,
                            ![i].proposal = IF @ = "Unready" THEN "Pending" ELSE @]
    /\ UNCHANGED <<allowed, calls, open, shownVars, pending, error, armed, inputVars, acts>>

ChangeRights ==
    /\ allowed' = ~ allowed
    /\ UNCHANGED <<site, calls, open, shownVars, pending, error, armed, inputVars>>

-----------------------------------------------------------------------------
(* What the user does.                                                     *)

restore(op, i, opened) ==
    /\ session' = None
    /\ pending' = TRUE
    /\ selected' = IF op = "get" THEN i ELSE selected
    /\ Effect(Outdated(calls) \cup {Call(op, i)}, opened, "")
    /\ UNCHANGED <<siteVars, listed, question, route, provided>>

show ==
    /\ ~ open
    /\ \/ Room /\ restore("list", selected, TRUE) /\ page' = route
       \/ /\ Effect(calls, TRUE, Untaken)
          /\ UNCHANGED <<siteVars, shownVars, pending, inputVars>>

RefreshStatus ==
    open /\ error # "" /\ Room /\ restore("list", selected, TRUE) /\ UNCHANGED page

OpenFromHistory ==
    open /\ Room /\ (\E i \in listed : restore("get", i, TRUE)) /\ UNCHANGED page

\* Variation: closing the drawer leaves the operation that owned it.
closeOnly ==
    /\ open
    /\ session' = None /\ listed' = {}
    /\ Effect(Outdated(calls), FALSE, error)
    /\ UNCHANGED <<siteVars, selected, pending, inputVars>>

close ==
    /\ open
    /\ session' = None /\ listed' = {} /\ pending' = FALSE
    /\ Effect(Outdated(calls), FALSE, error)
    /\ UNCHANGED <<siteVars, selected, inputVars>>

fresh ==
    /\ open
    /\ session' = None /\ selected' = None /\ pending' = FALSE
    /\ question' = FALSE /\ provided' = None
    /\ Effect(Outdated(calls), open, "")
    /\ UNCHANGED <<siteVars, listed, route, page>>

Write ==
    /\ open /\ ~ question
    /\ question' = TRUE
    /\ UNCHANGED <<siteVars, calls, open, shownVars, pending, error, armed, route, page,
                   provided>>

\* Unsaved fields are chosen, or all of them taken back.  They are listed from
\* the form that is open now and kept for the page captured last.
Provide ==
    /\ open /\ page # None
    /\ provided' \in {page, None} \ {provided}
    /\ UNCHANGED <<siteVars, calls, open, shownVars, pending, error, armed, question,
                   route, page>>

\* The drawer stays while the Desk goes to another page.
Navigate(r) ==
    /\ r # route
    /\ route' = r
    /\ UNCHANGED <<siteVars, calls, open, shownVars, pending, error, armed, question,
                   page, provided>>

MaySend == open /\ ~ pending /\ question /\ error \notin Hard

FieldsOfThisPage == provided \in {None, route}

\* A message is refused before it leaves: the page refuses a snapshot of itself
\* or of the fields, or the fields are kept for another page and given up.
send ==
    /\ MaySend /\ Room
    /\ \/ /\ FieldsOfThisPage
          /\ pending' = TRUE /\ page' = route
          /\ Effect(Outdated(calls) \cup {Call("send", selected)}, open, "")
          /\ UNCHANGED <<siteVars, shownVars, question, route, provided>>
       \/ /\ \/ UNCHANGED <<page, provided>>
             \/ /\ page' = route /\ provided # None
                /\ provided' = IF FieldsOfThisPage THEN provided ELSE None
          /\ session' = None /\ listed' = {}
          /\ Effect(Outdated(calls), open, "other")
          /\ UNCHANGED <<siteVars, selected, pending, question, route>>

cancel ==
    /\ open /\ Room
    /\ session # None /\ session.active /\ ~ pending
    /\ pending' = TRUE
    /\ Effect(Outdated(calls) \cup {Call("cancel", session.id)}, open, error)
    /\ UNCHANGED <<siteVars, shownVars, inputVars>>

Poll ==
    /\ armed /\ Room /\ ~ pending /\ selected # None
    /\ armed' = FALSE /\ page' = route
    /\ calls' = calls \cup {Call("poll", selected)}
    /\ UNCHANGED <<siteVars, open, shownVars, pending, error, question, route, provided>>

\* With nothing selected it only looks at the page.
PollPage ==
    /\ armed /\ ~ pending /\ selected = None
    /\ page' = route
    /\ UNCHANGED <<siteVars, calls, open, shownVars, pending, error, armed, question,
                   route, provided>>

PollUntaken ==
    /\ armed /\ ~ pending
    /\ Effect(calls, open, "other")
    /\ UNCHANGED <<siteVars, shownVars, pending, inputVars>>

-----------------------------------------------------------------------------
(* What comes back.                                                        *)

\* Variation: what comes back is shown, whoever asked for it.
IsAny(c) == TRUE

IsNewest(c) == c.ticket

\* Variation: what nobody waits for starts no timer either.
NoTimer(c) == armed

\* The timer starts again after a poll its effect did not stop.
TimerAfter(c) == armed \/ (c.op = "poll" /\ c.live)

Drop(c) ==
    /\ calls' = calls \ {c}
    /\ armed' = TimerAfter(c)
    /\ UNCHANGED <<siteVars, open, shownVars, pending, error, inputVars>>

ListArrives(c) ==
    LET i == IF c.id # None THEN c.id ELSE Last IN
    /\ c.op = "list" /\ IsNewest(c) /\ allowed
    /\ listed' = SiteIds
    /\ selected' = i
    /\ calls' = (calls \ {c}) \cup {Call("get", i)}
    /\ UNCHANGED <<siteVars, open, session, pending, error, armed, inputVars>>

GetArrives(c) ==
    /\ c.op = "get" /\ IsNewest(c) /\ allowed
    /\ session' = View(c.id)
    /\ pending' = FALSE
    /\ calls' = calls \ {c}
    /\ UNCHANGED <<siteVars, open, listed, selected, error, armed, inputVars>>

SendArrives(c) ==
    /\ c.op = "send" /\ IsNewest(c) /\ c.reply # None
    /\ selected' = c.reply.id /\ session' = c.reply
    /\ listed' = listed \cup {c.reply.id}
    /\ question' = FALSE /\ pending' = FALSE
    /\ calls' = calls \ {c}
    /\ UNCHANGED <<siteVars, open, error, armed, route, page, provided>>

CancelArrives(c) ==
    /\ c.op = "cancel" /\ IsNewest(c) /\ c.reply # None
    /\ session' = c.reply
    /\ pending' = FALSE
    /\ calls' = calls \ {c}
    /\ UNCHANGED <<siteVars, open, listed, selected, error, armed, inputVars>>

PollArrives(c) ==
    /\ c.op = "poll" /\ c.live /\ IsNewest(c) /\ allowed
    /\ session' = View(c.id)
    /\ open' = open
    /\ error' = IF error = "transient" THEN "" ELSE error
    /\ armed' = TRUE
    /\ calls' = calls \ {c}
    /\ UNCHANGED <<siteVars, listed, selected, pending, inputVars>>

Arrive(c) ==
    \/ ListArrives(c) \/ GetArrives(c) \/ SendArrives(c) \/ CancelArrives(c)
    \/ PollArrives(c)
    \/ (~ IsNewest(c) \/ (c.op = "poll" /\ ~ c.live)) /\ Drop(c)

\* fail(): the drawer lets go of everything it showed.
fail(c, kind) ==
    /\ session' = None /\ listed' = {} /\ pending' = FALSE
    /\ Effect(Outdated(calls \ {c}), open, kind)
    /\ UNCHANGED <<siteVars, selected, inputVars>>

\* A poll that fails keeps what is shown and tries again if that may help.
PollFails(c, kind) ==
    /\ error' = kind
    /\ armed' = (kind \notin Hard)
    /\ calls' = calls \ {c}
    /\ UNCHANGED <<siteVars, open, shownVars, pending, inputVars>>

\* Variation: a refused poll is one more failed poll.
AlwaysKept(c, kind) == c.op = "poll"

KeptByPoll(c, kind) == c.op = "poll" /\ kind # "permission"

Fail(c) ==
    \E kind \in IF allowed THEN {"transient", "other"} ELSE {"permission"} :
        \/ c.ticket /\ c.live /\ KeptByPoll(c, kind) /\ PollFails(c, kind)
        \/ c.ticket /\ c.live /\ ~ KeptByPoll(c, kind) /\ fail(c, kind)
        \/ ~ (c.ticket /\ c.live) /\ Drop(c)

-----------------------------------------------------------------------------
UserStep ==
    /\ acts < MaxActs
    /\ acts' = acts + 1
    /\ \/ show \/ RefreshStatus \/ OpenFromHistory \/ close \/ fresh \/ Provide
       \/ send \/ cancel \/ ChangeRights
       \/ \E r \in Routes : Navigate(r)

CallStep ==
    /\ \E c \in calls : Arrive(c) \/ Fail(c)
    /\ UNCHANGED acts

SidebarStep ==
    \/ UserStep
    \/ (Poll \/ PollPage \/ PollUntaken \/ Write) /\ UNCHANGED acts
    \/ CallStep
    \/ \E c \in calls : CarryOut(c)
    \/ \E i \in Ids : RunEnds(i)

-----------------------------------------------------------------------------
(* What must hold.                                                         *)

\* The conversation shown is the one the next message goes to: no late answer
\* of a list, a load, a poll, a cancel or an earlier message puts another one
\* on the drawer (the tickets of restore, send, cancel and poll).
ShownIsSelected == session # None => open /\ session.id = selected

\* The drawer is never owned by nobody: while it is pending, and so neither
\* polls nor sends, the call that will free it is under way with the newest
\* ticket (the finally blocks, fail, close and fresh).
PendingIsOwned ==
    pending => \E c \in calls : c.ticket /\ c.op \in {"list", "get", "send", "cancel"}

\* Once the Site has refused the user, nothing of a conversation is left on
\* the drawer until it is read again (fail, and permissionError in the poll).
RefusedShowsNothing == error = "permission" => session = None /\ listed = {}

\* While the drawer is open and no error forbids it, its timer runs or a poll
\* is under way that will start it: no answer that is dropped, overtaken or
\* refused, and nothing the user does, ends the polling (the effect and what
\* follows its await).
PollGoesOn ==
    open /\ error \notin Hard => armed \/ \E c \in calls : c.op = "poll" /\ c.live
=============================================================================
