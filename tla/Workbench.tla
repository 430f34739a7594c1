----------------------------- MODULE Workbench -----------------------------
(***************************************************************************)
(* The conversation page (AgentWorkbench.jsx): a rail of conversations     *)
(* found by a search, the conversation that is open, a composer, and a     *)
(* poll of the open conversation.  Everything the page knows comes from    *)
(* calls that are answered late, out of order or not at all.               *)
(*                                                                         *)
(* A handler runs to its first await in one step, React's commit and the   *)
(* clean up of the effects included; what follows an await runs in the     *)
(* step where the answer arrives.  A generation (railGeneration,           *)
(* sessionGeneration) only serves to tell whether a ticket is still the    *)
(* newest: each call carries that as a flag, and bumping the generation    *)
(* clears it in the calls under way.  selected and selectedRef always      *)
(* agree, and so do query and queryRef.                                    *)
(*                                                                         *)
(* Left out: titles and renaming, the unread marks, attachments, the       *)
(* drawers and the error line, none of which a load or a send reads.       *)
(***************************************************************************)
EXTENDS Integers, FiniteSets, Sequences, SequencesExt

CONSTANTS
    Order,        \* the conversations, in the order the server lists them
    Held,         \* those that exist when the page opens
    Queries,      \* what may stand in the search field
    Everything,   \* the empty search
    Match,        \* Match[q]: the conversations a search finds
    PageSize,     \* rows of one page of results
    None,
    MaxCalls,     \* bound: calls under way at once
    MaxDrafts,    \* bound: messages typed
    MaxActs       \* bound: things the user does besides typing a message

Ids == ToSet(Order)
Drafts == 1..MaxDrafts

ASSUME WorkbenchAssumption ==
    /\ Order \in Seq(Ids) /\ IsInjective(Order)
    /\ Held \subseteq Ids
    /\ Everything \in Queries
    /\ Match \in [Queries -> SUBSET Ids]
    /\ PageSize \in Nat \ {0} /\ MaxCalls \in Nat \ {0} /\ MaxDrafts \in Nat
    /\ None \notin Ids

\* What get_session, send_message and cancel_run return of a conversation.
View(i, conversation) ==
    [id |-> i, archived |-> conversation.archived, active |-> conversation.active]

Views == [id : Ids, archived : BOOLEAN, active : BOOLEAN]

VARIABLES
    server,     \* the Site's conversations: made, archived, active
    calls,      \* calls of the page that have not come back
    rail,       \* rows listed
    railQuery,  \* the search whose first page the list was started from
    asked,      \* the search of the newest load
    page,
    hasMore,
    query,      \* the search field; due: its debounce timer is running
    due,
    selected,   \* the conversation the page is on, None for a new one
    session,    \* the conversation shown
    armed,      \* the poll's timer is running
    busy,
    sending,    \* the single submission guard
    growing,
    question,   \* the draft in the composer, 0 when it is empty
    typed,      \* drafts typed so far
    acts,       \* those done so far
    sends       \* submissions of each draft that have not failed

railVars == <<rail, railQuery, page, hasMore>>
searchVars == <<query, due>>
draftVars == <<question, typed, sends>>
vars == <<server, calls, railVars, asked, searchVars, selected, session, armed,
          busy, sending, growing, draftVars, acts>>

-----------------------------------------------------------------------------
(* The Site's answers.                                                     *)

\* The rows of s that are in S, in their order: SelectSeq, without its recursion.
Kept(s, S) ==
    LET at == {n \in DOMAIN s : s[n] \in S}
    IN [k \in 1..Cardinality(at) |->
          s[CHOOSE n \in at : Cardinality({m \in at : m =< n}) = k]]

Listed(q) == Kept(Order, {i \in Match[q] : server[i].made /\ ~ server[i].archived})

Rows(q, p) ==
    LET found == Listed(q)
    IN SubSeq(found, (p - 1) * PageSize + 1,
              IF p * PageSize < Len(found) THEN p * PageSize ELSE Len(found))

-----------------------------------------------------------------------------
(* Calls under way.                                                        *)

Call(op, from, id, q, p) ==
    [op |-> op, from |-> from, id |-> id, query |-> q, page |-> p, draft |-> 0,
     rail |-> TRUE, session |-> TRUE, live |-> TRUE, reply |-> None]

Search(from, q, p) == Call("search", from, None, q, p)
Read(op, from, i) == Call(op, from, i, Everything, 1)

Room == Cardinality(calls) < MaxCalls

\* ++railGeneration.current
NewRail(cs) ==
    {IF c.op \in {"search", "pollRail"} THEN [c EXCEPT !.rail = FALSE] ELSE c : c \in cs}

\* ++sessionGeneration.current
NewSession(cs) ==
    {IF c.op \in {"open", "choose"} THEN [c EXCEPT !.session = FALSE] ELSE c : c \in cs}

IsPoll(c) == c.op \in {"poll", "pollRail"}

\* select(id): the poll of another conversation is stopped with its effect.
Stopped(cs, id) ==
    IF id = selected THEN cs
    ELSE {IF IsPoll(c) THEN [c EXCEPT !.live = FALSE] ELSE c : c \in cs}

Select(id) ==
    /\ selected' = id
    /\ armed' = IF id = selected THEN armed ELSE id # None

-----------------------------------------------------------------------------
Init ==
    /\ server = [i \in Ids |-> [made |-> i \in Held, archived |-> FALSE, active |-> FALSE]]
    /\ rail = <<>> /\ railQuery = Everything /\ asked = Everything
    /\ page = 1 /\ hasMore = FALSE
    /\ query = Everything /\ due = TRUE
    /\ selected \in Held \cup {None}
    /\ calls = IF selected = None THEN {} ELSE {Read("choose", "initial", selected)}
    /\ armed = (selected # None)
    /\ session = None
    /\ busy = TRUE /\ sending = FALSE /\ growing = FALSE
    /\ acts = 0
    /\ question = 0 /\ typed = 0 /\ sends = [d \in Drafts |-> 0]

-----------------------------------------------------------------------------
(* The Site: it carries out a call when it likes, and runs end by          *)
(* themselves.  A read returns what the Site holds when it comes back.     *)

Writes == {"send", "cancel", "archive", "restore"}

CarryOut(c) ==
    /\ c.op \in Writes
    /\ c.reply = None
    /\ \E i \in Ids :
          /\ IF c.op = "send" /\ c.id = None THEN ~ server[i].made ELSE i = c.id
          /\ c.op \in {"send", "archive"} => ~ server[i].active /\ ~ server[i].archived
          /\ server' = [server EXCEPT ![i] =
                [made |-> TRUE,
                 archived |-> (c.op = "archive" \/ (c.op = "cancel" /\ @.archived)),
                 active |-> (c.op = "send" \/ (c.op = "restore" /\ @.active))]]
          /\ calls' = (calls \ {c}) \cup {[c EXCEPT !.reply = View(i, server'[i])]}
    /\ UNCHANGED <<railVars, asked, searchVars, selected, session, armed, busy,
                   sending, growing, draftVars>>

RunEnds(i) ==
    /\ server[i].active
    /\ server' = [server EXCEPT ![i].active = FALSE]
    /\ UNCHANGED <<calls, railVars, asked, searchVars, selected, session, armed,
                   busy, sending, growing, draftVars>>

-----------------------------------------------------------------------------
(* What the user does.                                                     *)

TypeQuery(q) ==
    /\ q # query
    /\ query' = q
    /\ due' = TRUE
    /\ calls' = {IF c.from = "query" THEN [c EXCEPT !.live = FALSE] ELSE c : c \in calls}
    /\ UNCHANGED <<server, railVars, asked, selected, session, armed, busy,
                   sending, growing, draftVars>>

\* The debounce ends: a search starts and outdates the ones before it.
QueryEffect ==
    /\ due /\ Room
    /\ due' = FALSE
    /\ busy' = TRUE
    /\ asked' = query
    /\ calls' = NewRail(calls) \cup {Search("query", query, 1)}
    /\ UNCHANGED <<server, railVars, query, selected, session, armed, sending,
                   growing, draftVars>>

\* "Read again", and the archive's list telling that it changed.
Reload ==
    /\ Room
    /\ asked' = query
    /\ calls' = NewRail(calls) \cup {Search("reload", query, 1)}
    /\ UNCHANGED <<server, railVars, searchVars, selected, session, armed, busy,
                   sending, growing, draftVars>>

\* A row of the list, or a conversation opened from the archive's list.
choose(i) ==
    /\ Room
    /\ i \in ToSet(rail) \/ server[i].archived
    /\ Select(i)
    /\ busy' = TRUE
    /\ calls' = Stopped(NewSession(calls), i) \cup {Read("choose", "choose", i)}
    /\ UNCHANGED <<server, railVars, asked, searchVars, session, sending, growing,
                   draftVars>>

growSessions ==
    /\ Room
    /\ ~ growing /\ hasMore
    /\ growing' = TRUE
    /\ calls' = calls \cup {Search("grow", query, page + 1)}
    /\ UNCHANGED <<server, railVars, asked, searchVars, selected, session, armed,
                   busy, sending, draftVars>>

fresh ==
    /\ Select(None)
    /\ session' = None
    /\ question' = 0
    /\ calls' = Stopped(NewSession(calls), None)
    /\ UNCHANGED <<server, railVars, asked, searchVars, busy, sending, growing,
                   typed, sends>>

TypeQuestion ==
    /\ typed < MaxDrafts
    /\ typed' = typed + 1
    /\ question' = typed + 1
    /\ UNCHANGED <<server, calls, railVars, asked, searchVars, selected, session,
                   armed, busy, sending, growing, sends>>

\* Variation: the guard against a second submission is the disabled button's.
MaySendUnguarded ==
    /\ question # 0
    /\ session # None => ~ session.archived

MaySend ==
    /\ ~ sending
    /\ question # 0
    /\ session # None => ~ session.archived

send ==
    /\ Room
    /\ MaySend
    /\ sending' = TRUE
    /\ busy' = TRUE
    /\ sends' = [sends EXCEPT ![question] = @ + 1]
    /\ calls' = calls \cup {[Read("send", "send", selected) EXCEPT !.draft = question,
                                                                  !.query = query]}
    /\ UNCHANGED <<server, railVars, asked, searchVars, selected, session, armed,
                   growing, question, typed>>

\* The stop button, while it is not spinning.
cancel ==
    /\ Room
    /\ session # None /\ session.active /\ ~ busy
    /\ busy' = TRUE
    /\ calls' = calls \cup {Read("cancel", "cancel", session.id)}
    /\ UNCHANGED <<server, railVars, asked, searchVars, selected, session, armed,
                   sending, growing, draftVars>>

toggleArchive ==
    /\ Room
    /\ session # None
    /\ busy' = TRUE
    /\ calls' = calls \cup
          {[Read(IF session.archived THEN "restore" ELSE "archive", "archive", session.id)
              EXCEPT !.query = query]}
    /\ UNCHANGED <<server, railVars, asked, searchVars, selected, session, armed,
                   sending, growing, draftVars>>

Poll ==
    /\ Room
    /\ armed
    /\ armed' = FALSE
    /\ calls' = calls \cup {Read("poll", "poll", selected)}
    /\ UNCHANGED <<server, railVars, asked, searchVars, selected, session, busy,
                   sending, growing, draftVars>>

-----------------------------------------------------------------------------
(* What an answer does.                                                    *)

\* The finally of whoever started the load or made the call.
Settle(c) ==
    /\ sending' = (sending /\ c.from # "send")
    /\ growing' = (growing /\ c.from # "grow")
    /\ busy' = (busy /\ ~ (\/ c.from \in {"send", "cancel", "archive"}
                          \/ (c.from = "query" /\ c.live)
                          \/ (c.from = "choose" /\ c.session)))

Unsettled == UNCHANGED <<sending, growing, busy>>

\* Variation: a search is shown whenever it comes back.
IsAnyRail(c) == TRUE

IsNewestRail(c) == c.rail

Target(c) ==
    LET rows == Rows(c.query, c.page) IN
    CASE selected \in ToSet(rows) -> selected
      [] selected \notin ToSet(rows) /\ c.query = Everything /\ selected # None -> selected
      [] OTHER -> IF rows = <<>> THEN None ELSE Head(rows)

ShowPage(c) ==
    /\ railQuery' = IF c.from = "grow" THEN railQuery ELSE c.query
    /\ page' = c.page
    /\ hasMore' = (Len(Listed(c.query)) > c.page * PageSize)

Appended(rows) == rail \o Kept(rows, Ids \ ToSet(rail))

SearchArrives(c) ==
    LET others == calls \ {c} IN
    /\ c.op = "search"
    /\ UNCHANGED <<server, asked, searchVars, draftVars>>
    /\ \/ /\ ~ IsNewestRail(c)
          /\ calls' = others
          /\ Settle(c)
          /\ UNCHANGED <<railVars, selected, session, armed>>
       \/ /\ IsNewestRail(c) /\ c.from = "grow"
          /\ ShowPage(c)
          /\ rail' = Appended(Rows(c.query, c.page))
          /\ calls' = others
          /\ Settle(c)
          /\ UNCHANGED <<selected, session, armed>>
       \/ /\ IsNewestRail(c) /\ c.from # "grow" /\ Target(c) # None
          /\ ShowPage(c)
          /\ rail' = Rows(c.query, c.page)
          /\ Select(Target(c))
          /\ calls' = Stopped(NewSession(others), Target(c)) \cup
                         {[Read("open", c.from, Target(c)) EXCEPT !.live = c.live]}
          /\ Unsettled
          /\ UNCHANGED session
       \/ /\ IsNewestRail(c) /\ c.from # "grow" /\ Target(c) = None
          /\ ShowPage(c)
          /\ rail' = Rows(c.query, c.page)
          /\ calls' = NewSession(others)
          /\ session' = None
          /\ Settle(c)
          /\ UNCHANGED <<selected, armed>>

\* Variation: a conversation that was asked for is shown when it comes.
IsAnyRead(c) == TRUE

\* The ticket is the newest and the selection is still the one asked for.
IsNewestRead(c) == c.session /\ selected = c.id

ReadArrives(c) ==
    /\ c.op \in {"open", "choose"}
    /\ session' = IF IsNewestRead(c) THEN View(c.id, server[c.id]) ELSE session
    /\ calls' = calls \ {c}
    /\ Settle(c)
    /\ UNCHANGED <<server, railVars, asked, searchVars, selected, armed, draftVars>>

PollArrives(c) ==
    /\ c.op = "poll"
    /\ \/ /\ c.live
          /\ session' = View(c.id, server[c.id])
          /\ calls' = (calls \ {c}) \cup {Call("pollRail", "poll", None, query, 1)}
       \/ /\ ~ c.live
          /\ calls' = calls \ {c}
          /\ UNCHANGED session
    /\ Unsettled
    /\ UNCHANGED <<server, railVars, asked, searchVars, selected, armed, draftVars>>

PollRailArrives(c) ==
    /\ c.op = "pollRail"
    /\ rail' = LET rows == Rows(c.query, c.page)
               IN IF c.live /\ c.rail /\ c.query = query
                  THEN rows \o Kept(rail, Ids \ ToSet(rows))
                  ELSE rail
    /\ armed' = (armed \/ c.live)
    /\ calls' = calls \ {c}
    /\ Unsettled
    /\ UNCHANGED <<server, railQuery, page, hasMore, asked, searchVars, selected,
                   session, draftVars>>

\* The sent conversation is opened whatever the page is on by now, and the
\* list is read again with the search that stood in the field at submission.
SendArrives(c) ==
    LET sent == c.reply IN
    /\ c.op = "send"
    /\ Select(sent.id)
    /\ session' = sent
    /\ question' = 0
    /\ asked' = c.query
    /\ calls' = Stopped(NewRail(calls \ {c}), sent.id) \cup {Search("send", c.query, 1)}
    /\ UNCHANGED <<server, railVars, searchVars, typed, sends, sending, busy, growing>>

CancelArrives(c) ==
    /\ c.op = "cancel"
    /\ session' = c.reply
    /\ calls' = calls \ {c}
    /\ Settle(c)
    /\ UNCHANGED <<server, railVars, asked, searchVars, selected, armed, draftVars>>

ArchiveArrives(c) ==
    /\ c.op \in {"archive", "restore"}
    /\ session' = None
    /\ Select(None)
    /\ asked' = c.query
    /\ calls' = Stopped(NewRail(calls \ {c}), None) \cup {Search("archive", c.query, 1)}
    /\ Unsettled
    /\ UNCHANGED <<server, railVars, searchVars, draftVars>>

Arrive(c) ==
    /\ c.op \in Writes => c.reply # None
    /\ \/ SearchArrives(c) \/ ReadArrives(c) \/ PollArrives(c) \/ PollRailArrives(c)
       \/ SendArrives(c) \/ CancelArrives(c) \/ ArchiveArrives(c)

\* Variation: a failed poll is the last one.
FailUnarmed(c) ==
    /\ calls' = calls \ {c}
    /\ Settle(c)
    /\ sends' = IF c.op = "send" THEN [sends EXCEPT ![c.draft] = @ - 1] ELSE sends
    /\ UNCHANGED <<server, railVars, asked, searchVars, selected, session, armed,
                   question, typed>>

\* The call fails, before or after the Site took it.
Fail(c) ==
    /\ calls' = calls \ {c}
    /\ Settle(c)
    /\ armed' = (armed \/ (IsPoll(c) /\ c.live))
    /\ sends' = IF c.op = "send" THEN [sends EXCEPT ![c.draft] = @ - 1] ELSE sends
    /\ UNCHANGED <<server, railVars, asked, searchVars, selected, session, question,
                   typed>>

-----------------------------------------------------------------------------
UserStep ==
    /\ acts < MaxActs
    /\ acts' = acts + 1
    /\ \/ \E q \in Queries : TypeQuery(q)
       \/ \E i \in Ids : choose(i)
       \/ Reload \/ growSessions \/ fresh
       \/ send \/ cancel \/ toggleArchive

Progress(c) == (CarryOut(c) \/ Arrive(c) \/ Fail(c)) /\ UNCHANGED acts

Next ==
    \/ UserStep
    \/ (QueryEffect \/ Poll \/ TypeQuestion \/ \E i \in Ids : RunEnds(i)) /\ UNCHANGED acts
    \/ \E c \in calls : Progress(c)

\* Calls end, the poll's timer fires, and of the reads of a conversation that
\* are made again and again some come through; nothing is assumed of the user.
LivePollOf(i) == {c \in calls : c.op = "poll" /\ c.id = i /\ c.live}

Fairness ==
    /\ SF_vars(Poll /\ UNCHANGED acts)
    /\ WF_vars(\E c \in calls : Progress(c))
    /\ WF_vars(\E c \in calls : c.op = "pollRail" /\ c.live /\ Progress(c))
    /\ \A i \in Ids : SF_vars(\E c \in LivePollOf(i) : Arrive(c) /\ UNCHANGED acts)

Spec == Init /\ [][Next]_vars
FairSpec == Spec /\ Fairness

-----------------------------------------------------------------------------
(* What must hold.                                                         *)

\* The types of the page's state (AgentWorkbench.jsx's useState and useRef).
TypeOK ==
    /\ server \in [Ids -> [made : BOOLEAN, archived : BOOLEAN, active : BOOLEAN]]
    /\ Cardinality(calls) =< MaxCalls
    /\ rail \in Seq(Ids) /\ IsInjective(rail)
    /\ {railQuery, asked, query} \subseteq Queries
    /\ page \in Nat
    /\ {hasMore, due, armed, busy, sending, growing} \subseteq BOOLEAN
    /\ selected \in Ids \cup {None}
    /\ session \in Views \cup {None}
    /\ question \in 0..typed /\ typed \in 0..MaxDrafts
    /\ sends \in [Drafts -> Nat]

\* A read that was asked for before the user went elsewhere never takes over
\* the page: whatever a load, a click or a poll reads is shown only while it
\* is the conversation selected (the tickets of loadSessions and choose, and
\* `stopped` in the poll's effect).
ReadsMatchSelection ==
    [][(\E c \in calls : c.op \in {"open", "choose", "poll"} /\ c \notin calls')
         /\ session' # session /\ session' # None
         /\ (\A c \in calls : c.op \in {"send", "cancel"} => c \in calls')
       => session'.id = selected']_vars

\* Searches may overtake each other, the list never goes back: it changes to
\* the rows of another search only if that is the newest one started
\* (railGeneration in loadSessions).  Rows that growSessions puts behind it are
\* not covered: between typing and the search itself they are already those of
\* what was typed.
SearchesInOrder == [][railQuery' # railQuery => railQuery' = asked]_vars

\* A message is submitted once: pressing Enter again, a list that reloads or
\* an answer that is late never submits a draft a second time, unless its
\* submission failed and the page said so (send).
DraftSentOnce == \A d \in Drafts : sends[d] =< 1

\* A conversation that stays selected is shown in the end, whatever failed or
\* came late, and shown again if something else took its place: the poll goes
\* on after every answer and every failure (the poll's effect).
SelectionIsShown ==
    \A i \in Ids : selected = i ~> (selected # i \/ (session # None /\ session.id = i))
=============================================================================
