--------------------------- MODULE SidebarProofs ---------------------------
(***************************************************************************)
(* What the drawer and the cards on it keep for any conversations and      *)
(* pages, any number of calls under way and any length of use, however     *)
(* late, in whatever order or never the answers come.                      *)
(***************************************************************************)
EXTENDS SidebarCards, TLAPS

Views == [id : Ids, active : BOOLEAN, proposal : Readings \cup {None}]

Calls == [op : {"list", "get", "send", "cancel", "poll"}, id : Ids \cup {None},
          ticket : BOOLEAN, live : BOOLEAN, reply : Views \cup {None}]

Errors == {"", "transient"} \cup Hard

SiteType ==
    /\ site \in [Ids -> [made : BOOLEAN, active : BOOLEAN, proposal : Readings \cup {None}]]
    /\ allowed \in BOOLEAN

DrawerType ==
    /\ open \in BOOLEAN /\ pending \in BOOLEAN /\ armed \in BOOLEAN
    /\ listed \subseteq Ids /\ session \in Views \cup {None} /\ selected \in Ids \cup {None}
    /\ error \in Errors
    /\ route \in Routes /\ page \in Routes \cup {None} /\ provided \in Routes \cup {None}

\* A call is about a conversation, but for a list and a first message; only a
\* poll can be stopped by its effect; a cancel answers for its conversation.
IsCall(c) ==
    /\ c \in Calls
    /\ c.op \in {"get", "cancel", "poll"} => c.id \in Ids
    /\ c.op # "poll" => c.live
    /\ c.op = "cancel" /\ c.reply # None => c.reply.id = c.id

CallsType == \A c \in calls : IsCall(c)

\* The call that owns the drawer, or the polls that leave it alone: whatever
\* has the newest ticket is for the conversation selected.
TicketInv ==
    /\ \A c \in calls : c.ticket =>
         /\ open /\ error # "permission" /\ c.id = selected
         /\ c.op = "poll" <=> ~ pending
         /\ c.op \in {"list", "get"} => session = None
    /\ \A c, d \in calls : c.ticket /\ d.ticket /\ pending => c = d

IsLivePoll(c) == c.op = "poll" /\ c.live

\* One timer or one poll at a time, and none beside an error that stops it.
PollInv ==
    /\ armed => open /\ error \notin Hard /\ \A c \in calls : ~ IsLivePoll(c)
    /\ \A c \in calls : IsLivePoll(c) => open /\ error \notin Hard
    /\ \A c, d \in calls : IsLivePoll(c) /\ IsLivePoll(d) => c = d

CallsInv == CallsType /\ TicketInv /\ PollInv

DrawerInv ==
    /\ SiteType /\ DrawerType /\ CallsInv
    /\ ShownIsSelected /\ PendingIsOwned /\ RefusedShowsNothing

CardCalls == [op : {"confirm", "reject", "verify", "prepare", "transfer", "publish"},
              mine : BOOLEAN, reply : Readings \cup {None}]

CardType ==
    /\ claimed \in BOOLEAN
    /\ local \in Readings \cup {None}
    /\ bundle \in [transfer : BOOLEAN, confirmation : BOOLEAN]
    /\ asked \in {"no", "waiting", "done", "failed"}
    /\ cardCalls \subseteq CardCalls
    /\ filling \subseteq [stage : {"rows", "check"}, mine : BOOLEAN]
    /\ DOMAIN form = Parts

\* How a proposal may have ended once the Site took a request for it.
Outcomes == {"Executing", "Succeeded", "Failed", "Rejected", "Authorized"}

\* An answer under way says what the Site holds, and keeps holding; a fill
\* under way was authorized by it.
AnswersInv ==
    /\ \A c \in cardCalls :
         c.op \in {"confirm", "reject"} /\ c.reply # None =>
             site[Last].proposal = c.reply /\ c.reply \in Outcomes
    /\ \A c \in cardCalls : c.op = "reject" => c.reply \in {None, "Rejected"}
    /\ filling # {} => site[Last].proposal = "Authorized"

Requests == {c \in cardCalls : c.mine /\ c.op # "verify"}

\* A card that asked has claimed itself until it is answered, and one thrown
\* away asks no more; a bundle that leads to a confirmation was answered.
AskedInv ==
    /\ \A c \in Requests : claimed /\ asked = "waiting"
    /\ \A c, d \in Requests : c = d
    /\ asked \in {"waiting", "failed"} => claimed \/ Given = None
    /\ bundle.confirmation /\ local = None => asked \notin {"waiting", "failed"}

CardInv == SiteType /\ CardType /\ AnswersInv /\ AskedInv /\ CardTellsTruth

-----------------------------------------------------------------------------
(* What the drawer does to the calls under way. *)

\* Calls under way that may stand after a step: well formed, and polling no more
\* than those before it.
Tame(cs) ==
    /\ \A c \in cs : IsCall(c)
    /\ (\E c \in cs : IsLivePoll(c)) => \E d \in calls : IsLivePoll(d)
    /\ \A c, d \in cs : IsLivePoll(c) /\ IsLivePoll(d) => c = d

\* Those that are left are tame.
LEMMA TameRest ==
    ASSUME CallsInv, NEW S \in SUBSET calls
    PROVE  Tame(S)
BY DEF CallsInv, CallsType, PollInv, Tame

\* So are they once their tickets are old.
LEMMA TameOutdated ==
    ASSUME NEW S, Tame(S)
    PROVE  Tame(Outdated(S)) /\ \A c \in Outdated(S) : ~ c.ticket
<1>1. ASSUME NEW d \in S
      PROVE  LET c == [d EXCEPT !.ticket = FALSE] IN
             /\ IsCall(c) /\ ~ c.ticket
             /\ IsLivePoll(c) <=> IsLivePoll(d)
  BY DEF Tame, IsCall, IsLivePoll, Calls
<1>2. \A c \in Outdated(S) : \E d \in S : c = [d EXCEPT !.ticket = FALSE]
  BY DEF Outdated
<1>3. \A c \in Outdated(S) : IsCall(c) /\ ~ c.ticket
  BY <1>1, <1>2
<1>4. (\E c \in Outdated(S) : IsLivePoll(c)) => \E d \in calls : IsLivePoll(d)
  BY <1>1, <1>2 DEF Tame
<1>5. ASSUME NEW c \in Outdated(S), NEW e \in Outdated(S), IsLivePoll(c), IsLivePoll(e)
      PROVE  c = e
  <2>1. PICK d \in S : c = [d EXCEPT !.ticket = FALSE]
    BY <1>2
  <2>2. PICK f \in S : e = [f EXCEPT !.ticket = FALSE]
    BY <1>2
  <2>3. IsLivePoll(d) /\ IsLivePoll(f)
    BY <1>1, <1>5, <2>1, <2>2
  <2> QED
    BY <2>1, <2>2, <2>3 DEF Tame
<1> QED
  BY <1>3, <1>4, <1>5 DEF Tame

\* A new call that is no poll joins them.
LEMMA TameNew ==
    ASSUME NEW cs, Tame(cs), NEW new, IsCall(new), new.op # "poll"
    PROVE  Tame(cs \cup {new})
BY DEF Tame, IsLivePoll

\* The effect touches polls alone, and keeps one timer or one poll.
LEMMA EffectKeeps ==
    ASSUME CallsInv, NEW cs, Tame(cs), NEW opened \in BOOLEAN, NEW now \in Errors,
           open \in BOOLEAN, armed \in BOOLEAN, Effect(cs, opened, now)
    PROVE  /\ CallsType' /\ PollInv' /\ armed' \in BOOLEAN
           /\ open' = opened /\ error' = now
           /\ \A c \in calls' : \E d \in cs :
                c.op = d.op /\ c.id = d.id /\ c.ticket = d.ticket
           /\ \A d \in cs : d.op # "poll" => d \in calls'
           /\ \A c \in calls' : c.op # "poll" => c \in cs
<1>1. open' = opened /\ error' = now
  BY DEF Effect
<1>2. CASE opened = open /\ now = error
  <2>1. calls' = cs /\ armed' = armed
    BY <1>2 DEF Effect
  <2> QED
    BY <1>1, <1>2, <2>1 DEF CallsInv, CallsType, PollInv, Tame
<1>3. CASE ~(opened = open /\ now = error)
  <2> DEFINE Stop(c) == IF c.op = "poll" THEN [c EXCEPT !.live = FALSE] ELSE c
  <2>1. calls' = {Stop(c) : c \in cs} /\ armed' = (opened /\ now \notin Hard)
    BY <1>3 DEF Effect
  <2>2. ASSUME NEW d \in cs
        PROVE  /\ IsCall(Stop(d)) /\ ~ IsLivePoll(Stop(d))
               /\ Stop(d).op = d.op /\ Stop(d).id = d.id /\ Stop(d).ticket = d.ticket
               /\ d.op # "poll" => Stop(d) = d
    BY DEF Tame, IsCall, IsLivePoll, Calls
  <2> HIDE DEF Stop
  <2>3. PollInv'
    <3>1. \A c \in calls' : ~ IsLivePoll(c)
      BY <2>1, <2>2
    <3>2. armed' => opened /\ now \notin Hard
      BY <2>1
    <3> QED
      BY <1>1, <3>1, <3>2 DEF PollInv, IsLivePoll, Hard
  <2>4. CallsType'
    BY <2>1, <2>2 DEF CallsType, IsCall
  <2> QED
    BY <1>1, <2>1, <2>2, <2>3, <2>4
<1> QED
  BY <1>2, <1>3

Shown == ShownIsSelected /\ PendingIsOwned /\ RefusedShowsNothing

\* The drawer lets go of what it showed and of what it asked for.
LEMMA LetGo ==
    ASSUME DrawerInv, NEW S \in SUBSET calls, NEW opened \in BOOLEAN, NEW now \in Errors,
           Effect(Outdated(S), opened, now),
           session' = None, pending' = FALSE, now = "permission" => listed' = {}
    PROVE  CallsInv' /\ Shown' /\ armed' \in BOOLEAN /\ open' = opened /\ error' = now
<1>1. Tame(Outdated(S)) /\ \A c \in Outdated(S) : ~ c.ticket
  BY TameRest, TameOutdated DEF DrawerInv
<1>2. /\ CallsType' /\ PollInv' /\ armed' \in BOOLEAN
      /\ open' = opened /\ error' = now /\ \A c \in calls' : ~ c.ticket
  BY <1>1, EffectKeeps DEF DrawerInv, DrawerType
<1>3. TicketInv'
  BY <1>2 DEF TicketInv
<1> QED
  BY <1>2, <1>3
     DEF CallsInv, Shown, ShownIsSelected, PendingIsOwned, RefusedShowsNothing

\* A call takes the drawer.
LEMMA TakeOver ==
    ASSUME DrawerInv, NEW new, IsCall(new), new.ticket,
           new.op \in {"list", "get", "send", "cancel"}, new.id = selected',
           NEW now \in Errors, now # "permission",
           Effect(Outdated(calls) \cup {new}, TRUE, now),
           pending' = TRUE, session' # None => session'.id = selected',
           new.op \in {"list", "get"} => session' = None
    PROVE  CallsInv' /\ Shown' /\ armed' \in BOOLEAN /\ open' = TRUE /\ error' = now
<1> DEFINE cs == Outdated(calls) \cup {new}
<1>1. Tame(cs) /\ \A c \in cs : c.ticket => c = new
  BY TameRest, TameOutdated, TameNew DEF DrawerInv
<1> HIDE DEF cs
<1>2. Effect(cs, TRUE, now) /\ new \in cs
  BY DEF cs
<1>3. /\ CallsType' /\ PollInv' /\ armed' \in BOOLEAN /\ open' = TRUE /\ error' = now
      /\ \A c \in calls' : \E d \in cs : c.op = d.op /\ c.id = d.id /\ c.ticket = d.ticket
      /\ new \in calls'
      /\ \A c \in calls' : c.op # "poll" => c \in cs
  BY <1>1, <1>2, EffectKeeps DEF DrawerInv, DrawerType
<1>4. \A c \in calls' : c.ticket => c = new
  BY <1>1, <1>3
<1>5. TicketInv'
  BY <1>3, <1>4 DEF TicketInv
<1> QED
  BY <1>3, <1>5 DEF CallsInv, Shown, ShownIsSelected, PendingIsOwned, RefusedShowsNothing

\* The call that owned the drawer has come back and shows what it brought.
LEMMA OwnerDone ==
    ASSUME DrawerInv, NEW c \in calls, c.ticket, c.op # "poll",
           calls' = calls \ {c}, pending' = FALSE, session'.id = selected',
           UNCHANGED <<open, error, armed>>
    PROVE  CallsInv' /\ Shown'
<1>1. pending /\ open /\ error # "permission"
  BY DEF DrawerInv, CallsInv, TicketInv, DrawerType
<1>2. \A d \in calls' : ~ d.ticket
  BY <1>1 DEF DrawerInv, CallsInv, TicketInv
<1>3. CallsType' /\ PollInv'
  BY DEF DrawerInv, CallsInv, CallsType, PollInv
<1>4. TicketInv'
  BY <1>2 DEF TicketInv
<1> QED
  BY <1>1, <1>3, <1>4
     DEF CallsInv, Shown, ShownIsSelected, PendingIsOwned, RefusedShowsNothing

-----------------------------------------------------------------------------
(* The drawer's steps. *)

\* A step that leaves the calls and what is shown alone.
LEMMA StandsStill ==
    ASSUME DrawerInv, SiteType', DrawerType',
           UNCHANGED <<calls, open, shownVars, pending, error, armed>>
    PROVE  DrawerInv'
<1>1. CallsInv'
  BY DEF DrawerInv, CallsInv, CallsType, TicketInv, PollInv, shownVars
<1> QED
  BY <1>1 DEF DrawerInv, ShownIsSelected, PendingIsOwned, RefusedShowsNothing, shownVars

\* What a conversation is read as.
LEMMA ViewType ==
    ASSUME SiteType, NEW i \in Ids
    PROVE  View(i) \in Views /\ View(i).id = i
BY DEF SiteType, View, Views

\* The Site's own steps.
LEMMA SiteStep ==
    ASSUME DrawerInv,
           \/ \E i \in Ids : RunEnds(i)
           \/ ChangeRights \/ Write \/ Provide \/ PollPage
           \/ \E r \in Routes : Navigate(r)
    PROVE  DrawerInv'
<1>1. SiteType'
  <2>1. ASSUME NEW i \in Ids, RunEnds(i) PROVE SiteType'
    <3>1. PICK reading : reading = IF site[i].proposal = "Unready" THEN "Pending"
                                   ELSE site[i].proposal
      OBVIOUS
    <3>2. reading \in Readings \cup {None}
      BY <3>1 DEF DrawerInv, SiteType, Readings
    <3>3. allowed' = allowed /\ site' = [site EXCEPT ![i] = [site[i] EXCEPT !.active = FALSE,
                                                                          !.proposal = reading]]
      BY <2>1, <3>1 DEF RunEnds, DrawerInv, SiteType
    <3>4. [site[i] EXCEPT !.active = FALSE, !.proposal = reading]
            \in [made : BOOLEAN, active : BOOLEAN, proposal : Readings \cup {None}]
      BY <3>2 DEF DrawerInv, SiteType
    <3> QED
      BY <3>3, <3>4 DEF DrawerInv, SiteType
  <2> QED
    BY <2>1 DEF ChangeRights, Write, Provide, PollPage, Navigate, siteVars, DrawerInv,
                SiteType
<1>2. DrawerType'
  BY DEF RunEnds, ChangeRights, Write, Provide, PollPage, Navigate, siteVars, shownVars, inputVars,
         DrawerInv, DrawerType
<1>3. UNCHANGED <<calls, open, shownVars, pending, error, armed>>
  BY DEF RunEnds, ChangeRights, Write, Provide, PollPage, Navigate
<1> QED
  BY <1>1, <1>2, <1>3, StandsStill

\* A restore takes the drawer.
LEMMA RestoreStep ==
    ASSUME DrawerInv, NEW op \in {"list", "get"}, NEW i \in Ids \cup {None},
           op = "list" => i = selected, op = "get" => i \in Ids,
           restore(op, i, TRUE), page' \in Routes \cup {None}
    PROVE  DrawerInv'
<1> DEFINE new == Call(op, i)
<1>1. IsCall(new) /\ new.ticket /\ new.op = op /\ new.id = i
  BY DEF Call, IsCall, Calls
<1>2. /\ Effect(Outdated(calls) \cup {new}, TRUE, "")
      /\ pending' = TRUE /\ session' = None /\ selected' = i
      /\ UNCHANGED <<siteVars, listed, question, route, provided>>
  BY DEF restore
<1>3. "" \in Errors /\ "" # "permission"
  BY DEF Errors
<1> HIDE DEF new
<1>4. CallsInv' /\ Shown' /\ armed' \in BOOLEAN /\ open' = TRUE /\ error' = ""
  BY <1>1, <1>2, <1>3, TakeOver
<1> QED
  BY <1>2, <1>3, <1>4
     DEF DrawerInv, Shown, SiteType, DrawerType, siteVars

\* The drawer opens.
LEMMA ShowStep == ASSUME DrawerInv, show PROVE DrawerInv'
<1>1. CASE restore("list", selected, TRUE) /\ page' = route
  BY <1>1, RestoreStep DEF DrawerInv, DrawerType
<1>2. CASE /\ Effect(calls, TRUE, Untaken)
           /\ UNCHANGED <<siteVars, shownVars, pending, inputVars>>
  <2>1. Untaken \in {"transient", "other"} /\ Untaken \in Errors
    BY DEF Untaken, Errors, Hard
  <2>2. ~ open /\ \A c \in calls : ~ c.ticket
    BY DEF show, DrawerInv, CallsInv, TicketInv
  <2>3. Tame(calls)
    BY TameRest DEF DrawerInv
  <2>4. /\ CallsType' /\ PollInv' /\ armed' \in BOOLEAN
        /\ open' = TRUE /\ error' = Untaken /\ \A c \in calls' : ~ c.ticket
    BY <1>2, <2>1, <2>2, <2>3, EffectKeeps DEF DrawerInv, DrawerType
  <2>5. TicketInv'
    BY <2>4 DEF TicketInv
  <2>6. ~ pending /\ session = None
    BY <2>2 DEF DrawerInv, PendingIsOwned, ShownIsSelected
  <2>7. ShownIsSelected' /\ PendingIsOwned' /\ RefusedShowsNothing'
    BY <1>2, <2>1, <2>4, <2>6
       DEF shownVars, ShownIsSelected, PendingIsOwned, RefusedShowsNothing
  <2> QED
    BY <1>2, <2>1, <2>4, <2>5, <2>7
       DEF DrawerInv, CallsInv, SiteType, DrawerType, siteVars, shownVars, inputVars
<1> QED
  BY <1>1, <1>2 DEF show

\* What lets go of the drawer: closing and emptying it, a message the page
\* refuses, and a failure.
LEMMA LettingGo ==
    ASSUME DrawerInv, NEW S \in SUBSET calls, NEW opened \in BOOLEAN, NEW now \in Errors,
           Effect(Outdated(S), opened, now),
           session' = None, pending' = FALSE, listed' \in {listed, {}},
           now = "permission" => listed' = {},
           selected' \in {selected, None}, page' \in {page, route},
           provided' \in {provided, None}, UNCHANGED <<siteVars, route>>
    PROVE  DrawerInv'
<1>1. CallsInv' /\ Shown' /\ armed' \in BOOLEAN /\ open' = opened /\ error' = now
  BY LetGo
<1> QED
  BY <1>1 DEF DrawerInv, Shown, SiteType, DrawerType, siteVars

LEMMA CloseStep == ASSUME DrawerInv, close PROVE DrawerInv'
<1>1. Effect(Outdated(calls), FALSE, error) /\ error \in Errors
  BY DEF close, DrawerInv, DrawerType
<1> QED
  BY <1>1, LettingGo DEF close, inputVars

LEMMA FreshStep == ASSUME DrawerInv, fresh PROVE DrawerInv'
<1>1. Effect(Outdated(calls), open, "") /\ "" \in Errors /\ open \in BOOLEAN
  BY DEF fresh, DrawerInv, DrawerType, Errors
<1> QED
  BY <1>1, LettingGo DEF fresh

LEMMA SendStep == ASSUME DrawerInv, send PROVE DrawerInv'
<1>1. open /\ ~ pending
  BY DEF send, MaySend
<1>2. CASE /\ pending' = TRUE
           /\ Effect(Outdated(calls) \cup {Call("send", selected)}, open, "")
           /\ page' = route
           /\ UNCHANGED <<siteVars, shownVars, route, provided>>
  <2> DEFINE new == Call("send", selected)
  <2>1. IsCall(new) /\ new.ticket /\ new.op = "send" /\ new.id = selected
    BY DEF Call, IsCall, Calls, DrawerInv, DrawerType
  <2>2. Effect(Outdated(calls) \cup {new}, TRUE, "") /\ "" \in Errors
    BY <1>1, <1>2 DEF DrawerInv, DrawerType, Errors
  <2>3. new.id = selected' /\ (session' # None => session'.id = selected')
    BY <1>2, <2>1 DEF shownVars, DrawerInv, ShownIsSelected
  <2> HIDE DEF new
  <2>4. CallsInv' /\ Shown' /\ armed' \in BOOLEAN /\ open' = TRUE /\ error' = ""
    BY <1>2, <2>1, <2>2, <2>3, TakeOver
  <2> QED
    BY <1>2, <2>2, <2>4
       DEF DrawerInv, Shown, SiteType, DrawerType, siteVars, shownVars
<1>3. CASE /\ page' \in {page, route} /\ provided' \in {provided, None}
           /\ session' = None /\ listed' = {}
           /\ Effect(Outdated(calls), open, "other")
           /\ UNCHANGED <<siteVars, selected, pending, question, route>>
  <2>1. "other" \in Errors /\ open \in BOOLEAN /\ pending' = FALSE
    BY <1>1, <1>3 DEF DrawerInv, DrawerType, Errors, Hard
  <2> QED
    BY <1>3, <2>1, LettingGo
<1> QED
  BY <1>2, <1>3 DEF send

LEMMA CancelStep == ASSUME DrawerInv, cancel PROVE DrawerInv'
<1> DEFINE new == Call("cancel", session.id)
<1>1. /\ open /\ session \in Views /\ session.id \in Ids /\ session.id = selected
      /\ error # "permission" /\ error \in Errors
  BY DEF cancel, DrawerInv, DrawerType, Views, ShownIsSelected, RefusedShowsNothing
<1>2. IsCall(new) /\ new.ticket /\ new.op = "cancel" /\ new.id = selected
  BY <1>1 DEF Call, IsCall, Calls
<1>3. /\ Effect(Outdated(calls) \cup {new}, TRUE, error)
      /\ pending' = TRUE /\ UNCHANGED <<siteVars, shownVars, inputVars>>
  BY <1>1 DEF cancel, DrawerInv, DrawerType
<1> HIDE DEF new
<1>4. new.id = selected' /\ session'.id = selected'
  BY <1>1, <1>2, <1>3 DEF shownVars
<1>5. CallsInv' /\ Shown' /\ armed' \in BOOLEAN /\ open' = TRUE /\ error' = error
  BY <1>1, <1>2, <1>3, <1>4, TakeOver
<1> QED
  BY <1>1, <1>3, <1>5
     DEF DrawerInv, Shown, SiteType, DrawerType, siteVars, shownVars, inputVars

\* A poll leaves with the ticket that is the newest anyhow.
LEMMA PollStep == ASSUME DrawerInv, Poll PROVE DrawerInv'
<1> DEFINE new == Call("poll", selected)
<1>1. /\ open /\ ~ pending /\ selected \in Ids /\ error \notin Hard
      /\ \A c \in calls : ~ IsLivePoll(c)
  BY DEF Poll, DrawerInv, DrawerType, CallsInv, PollInv
<1>2. IsCall(new) /\ IsLivePoll(new) /\ new.op = "poll" /\ new.id = selected
  BY <1>1 DEF Call, IsCall, Calls, IsLivePoll
<1>3. /\ calls' = calls \cup {new} /\ armed' = FALSE
      /\ page' = route
      /\ UNCHANGED <<siteVars, open, shownVars, pending, error, route, provided>>
  BY DEF Poll
<1> HIDE DEF new
<1>4. CallsType'
  BY <1>2, <1>3 DEF DrawerInv, CallsInv, CallsType, IsCall
<1>5. PollInv'
  BY <1>1, <1>2, <1>3 DEF PollInv, IsLivePoll
<1>6. TicketInv'
  BY <1>1, <1>2, <1>3 DEF DrawerInv, CallsInv, TicketInv, Hard, shownVars
<1> QED
  BY <1>1, <1>3, <1>4, <1>5, <1>6
     DEF DrawerInv, CallsInv, SiteType, DrawerType, siteVars, shownVars,
         ShownIsSelected, PendingIsOwned, RefusedShowsNothing

\* The page refuses what a poll wants to send of it.
LEMMA UntakenStep == ASSUME DrawerInv, PollUntaken PROVE DrawerInv'
<1>1. /\ Effect(calls, open, "other") /\ ~ pending /\ open
      /\ UNCHANGED <<siteVars, shownVars, pending, inputVars>>
  BY DEF PollUntaken, DrawerInv, CallsInv, PollInv
<1>2. Tame(calls) /\ open \in BOOLEAN /\ "other" \in Errors
  BY TameRest DEF DrawerInv, DrawerType, Errors, Hard
<1>3. /\ CallsType' /\ PollInv' /\ armed' \in BOOLEAN /\ open' = open /\ error' = "other"
      /\ \A c \in calls' : \E d \in calls :
           c.op = d.op /\ c.id = d.id /\ c.ticket = d.ticket
  BY <1>1, <1>2, EffectKeeps DEF DrawerInv, DrawerType
<1>4. TicketInv'
  <2>1. ASSUME NEW c \in calls', c.ticket
        PROVE  /\ open' /\ error' # "permission" /\ c.id = selected'
               /\ c.op = "poll" <=> ~ pending'
               /\ c.op \in {"list", "get"} => session' = None
    <3>1. PICK d \in calls : c.op = d.op /\ c.id = d.id /\ c.ticket = d.ticket
      BY <1>3
    <3> QED
      BY <1>1, <1>3, <2>1, <3>1 DEF DrawerInv, CallsInv, TicketInv, shownVars
  <2> QED
    BY <1>1, <2>1 DEF TicketInv
<1> QED
  BY <1>1, <1>2, <1>3, <1>4
     DEF DrawerInv, CallsInv, SiteType, DrawerType, siteVars, shownVars, inputVars,
         ShownIsSelected, PendingIsOwned, RefusedShowsNothing

\* What nobody waits for any more is thrown away; the timer starts again if it
\* was the poll's.
LEMMA DropStep ==
    ASSUME DrawerInv, NEW c \in calls, Drop(c), ~ c.ticket \/ (c.op = "poll" /\ ~ c.live)
    PROVE  DrawerInv'
<1>1. /\ calls' = calls \ {c} /\ armed' = (armed \/ (c.op = "poll" /\ c.live))
      /\ UNCHANGED <<siteVars, open, shownVars, pending, error, inputVars>>
  BY DEF Drop, TimerAfter
<1>2. armed' \in BOOLEAN /\ (armed' => armed \/ IsLivePoll(c))
  BY <1>1 DEF IsLivePoll, DrawerInv, DrawerType
<1>3. CallsType' /\ TicketInv'
  BY <1>1 DEF DrawerInv, CallsInv, CallsType, TicketInv, shownVars
<1>4. PollInv'
  BY <1>1, <1>2 DEF DrawerInv, CallsInv, PollInv, IsLivePoll
<1>5. PendingIsOwned'
  BY <1>1 DEF DrawerInv, PendingIsOwned
<1> QED
  BY <1>1, <1>2, <1>3, <1>4, <1>5
     DEF DrawerInv, CallsInv, SiteType, DrawerType, siteVars, shownVars, inputVars,
         ShownIsSelected, RefusedShowsNothing

\* The list names the conversation, and the drawer's call goes on to load it.
LEMMA ListStep == ASSUME DrawerInv, NEW c \in calls, ListArrives(c) PROVE DrawerInv'
<1> DEFINE i == IF c.id # None THEN c.id ELSE Last
           new == Call("get", i)
<1>1. c \in Calls /\ c.ticket /\ c.op = "list"
  BY DEF ListArrives, IsNewest, DrawerInv, CallsInv, CallsType, IsCall
<1>2. i \in Ids
  BY <1>1, SidebarAssumption DEF Calls
<1>3. /\ calls' = (calls \ {c}) \cup {new} /\ selected' = i /\ listed' = SiteIds
      /\ UNCHANGED <<siteVars, open, session, pending, error, armed, inputVars>>
  BY DEF ListArrives
<1>4. IsCall(new) /\ new.ticket /\ new.op = "get" /\ new.id = i
  BY <1>2 DEF Call, IsCall, Calls
<1>5. /\ pending /\ open /\ error # "permission" /\ session = None
      /\ \A d \in calls \ {c} : ~ d.ticket
  BY <1>1 DEF DrawerInv, CallsInv, TicketInv, DrawerType
<1> HIDE DEF new, i
<1>6. CallsType'
  BY <1>3, <1>4 DEF DrawerInv, CallsInv, CallsType, IsCall
<1>7. PollInv'
  BY <1>3, <1>4 DEF DrawerInv, CallsInv, PollInv, IsLivePoll
<1>8. \A d \in calls' : d.ticket => d = new
  BY <1>3, <1>5
<1>9. TicketInv'
  BY <1>3, <1>4, <1>5, <1>8 DEF TicketInv
<1>10. PendingIsOwned'
  BY <1>3, <1>4 DEF PendingIsOwned
<1>11. DrawerType' /\ SiteType'
  BY <1>2, <1>3 DEF DrawerInv, DrawerType, SiteType, siteVars, inputVars, SiteIds
<1> QED
  BY <1>3, <1>5, <1>6, <1>7, <1>9, <1>10, <1>11
     DEF DrawerInv, CallsInv, ShownIsSelected, RefusedShowsNothing

\* The other answers of the call that owns the drawer.
LEMMA OwnerStep ==
    ASSUME DrawerInv, NEW c \in calls, GetArrives(c) \/ SendArrives(c) \/ CancelArrives(c)
    PROVE  DrawerInv'
<1>1. /\ IsCall(c) /\ c.ticket /\ c.op # "poll"
      /\ calls' = calls \ {c} /\ pending' = FALSE
      /\ UNCHANGED <<siteVars, open, error, armed, route, page, provided>>
  BY DEF GetArrives, SendArrives, CancelArrives, IsNewest, inputVars,
         DrawerInv, CallsInv, CallsType
<1>2. c.id = selected
  BY <1>1 DEF DrawerInv, CallsInv, TicketInv
<1>3. /\ session' \in Views /\ session'.id = selected'
      /\ selected' \in Ids \cup {None} /\ listed' \subseteq Ids
  <2>1. CASE GetArrives(c)
    <3>1. c.id \in Ids
      BY <1>1, <2>1 DEF GetArrives, IsCall
    <3>2. View(c.id) \in Views /\ View(c.id).id = c.id
      BY <3>1, ViewType DEF DrawerInv
    <3> QED
      BY <1>2, <2>1, <3>1, <3>2 DEF GetArrives, DrawerInv, DrawerType
  <2>2. CASE SendArrives(c)
    <3>1. c.reply \in Views /\ c.reply.id \in Ids
      BY <1>1, <2>2 DEF SendArrives, IsCall, Calls, Views
    <3> QED
      BY <2>2, <3>1 DEF SendArrives, DrawerInv, DrawerType
  <2>3. CASE CancelArrives(c)
    <3>1. c.reply \in Views /\ c.reply.id = c.id
      BY <1>1, <2>3 DEF CancelArrives, IsCall, Calls
    <3> QED
      BY <1>2, <2>3, <3>1 DEF CancelArrives, DrawerInv, DrawerType
  <2> QED
    BY <2>1, <2>2, <2>3
<1>4. CallsInv' /\ Shown'
  BY <1>1, <1>3, OwnerDone
<1>5. DrawerType' /\ SiteType'
  BY <1>1, <1>3 DEF DrawerInv, DrawerType, SiteType, siteVars
<1> QED
  BY <1>4, <1>5 DEF DrawerInv, Shown

\* A poll's answer or failure leaves what else is under way alone.
LEMMA PolledStep ==
    ASSUME DrawerInv, NEW c \in calls, c.ticket, IsLivePoll(c),
           calls' = calls \ {c}, error' \in Errors \ {"permission"},
           armed' \in BOOLEAN, armed' => error' \notin Hard,
           session' = session \/ (session' \in Views /\ session'.id = c.id),
           UNCHANGED <<siteVars, open, listed, selected, pending, inputVars>>
    PROVE  DrawerInv'
<1>1. /\ open /\ ~ pending /\ c.id = selected
      /\ \A d \in calls' : ~ IsLivePoll(d)
  BY DEF DrawerInv, DrawerType, CallsInv, TicketInv, PollInv, IsLivePoll
<1>2. CallsType'
  BY DEF DrawerInv, CallsInv, CallsType
<1>3. PollInv'
  BY <1>1 DEF PollInv, IsLivePoll, Hard
<1>4. TicketInv'
  BY <1>1 DEF DrawerInv, CallsInv, TicketInv
<1>5. ShownIsSelected' /\ PendingIsOwned' /\ RefusedShowsNothing'
  BY <1>1 DEF DrawerInv, ShownIsSelected, PendingIsOwned, RefusedShowsNothing
<1>6. DrawerType' /\ SiteType'
  BY <1>1 DEF DrawerInv, DrawerType, SiteType, siteVars, inputVars
<1> QED
  BY <1>2, <1>3, <1>4, <1>5, <1>6 DEF DrawerInv, CallsInv

LEMMA PollArrivesStep == ASSUME DrawerInv, NEW c \in calls, PollArrives(c) PROVE DrawerInv'
<1>1. c.ticket /\ IsLivePoll(c) /\ c.id \in Ids /\ error \notin Hard
  BY DEF PollArrives, IsNewest, IsLivePoll, DrawerInv, CallsInv, CallsType, IsCall, PollInv
<1>2. View(c.id) \in Views /\ View(c.id).id = c.id
  BY <1>1, ViewType DEF DrawerInv
<1>3. error' \in Errors \ Hard
  BY <1>1 DEF PollArrives, DrawerInv, DrawerType, Errors, Hard
<1>4. error' \in Errors \ {"permission"} /\ armed' = TRUE
  BY <1>3 DEF PollArrives, Hard
<1> QED
  BY <1>1, <1>2, <1>3, <1>4, PolledStep DEF PollArrives

LEMMA FailStep == ASSUME DrawerInv, NEW c \in calls, Fail(c) PROVE DrawerInv'
<1>1. PICK why \in IF allowed THEN {"transient", "other"} ELSE {"permission"} :
        \/ c.ticket /\ c.live /\ KeptByPoll(c, why) /\ PollFails(c, why)
        \/ c.ticket /\ c.live /\ ~ KeptByPoll(c, why) /\ fail(c, why)
        \/ ~ (c.ticket /\ c.live) /\ Drop(c)
  BY DEF Fail
<1>2. why \in Errors
  BY DEF Errors, Hard
<1>3. CASE c.ticket /\ c.live /\ KeptByPoll(c, why) /\ PollFails(c, why)
  <2>1. IsLivePoll(c) /\ why # "permission"
    BY <1>3 DEF KeptByPoll, IsLivePoll
  <2>2. error' \in Errors \ {"permission"} /\ armed' \in BOOLEAN
        /\ (armed' => error' \notin Hard)
    BY <1>2, <1>3, <2>1 DEF PollFails
  <2> QED
    BY <1>3, <2>1, <2>2, PolledStep DEF PollFails, shownVars
<1>4. CASE c.ticket /\ c.live /\ ~ KeptByPoll(c, why) /\ fail(c, why)
  <2>1. open \in BOOLEAN /\ Effect(Outdated(calls \ {c}), open, why)
    BY <1>4 DEF fail, DrawerInv, DrawerType
  <2> QED
    BY <1>2, <1>4, <2>1, LettingGo DEF fail, inputVars
<1>5. CASE ~ (c.ticket /\ c.live) /\ Drop(c)
  <2>1. ~ c.live => c.op = "poll"
    BY DEF DrawerInv, CallsInv, CallsType, IsCall
  <2> QED
    BY <1>5, <2>1, DropStep
<1> QED
  BY <1>1, <1>3, <1>4, <1>5

\* The Site carries a message or a stop out; its answer is under way.
LEMMA CarryOutStep == ASSUME DrawerInv, NEW c \in calls, CarryOut(c) PROVE DrawerInv'
<1>1. PICK i \in Ids :
        /\ IF c.op = "send" /\ c.id = None THEN ~ site[i].made ELSE i = c.id
        /\ site' = [site EXCEPT ![i].made = TRUE, ![i].active = (c.op = "send")]
        /\ calls' = (calls \ {c}) \cup {[c EXCEPT !.reply = View(i)']}
  BY DEF CarryOut
<1> DEFINE new == [c EXCEPT !.reply = View(i)']
<1>2. IsCall(c) /\ c.op \in {"send", "cancel"}
  BY DEF CarryOut, DrawerInv, CallsInv, CallsType
<1>3. SiteType'
  <2>1. PICK sent \in BOOLEAN : sent = (c.op = "send")
    OBVIOUS
  <2>2. /\ site' = [site EXCEPT ![i].made = TRUE, ![i].active = sent]
        /\ allowed' = allowed
    BY <1>1, <2>1 DEF CarryOut
  <2> QED
    BY <2>2 DEF DrawerInv, SiteType
<1>4. View(i)' \in Views /\ View(i)'.id = i
  BY <1>3 DEF SiteType, View, Views
<1>5. /\ IsCall(new) /\ new.op = c.op /\ new.id = c.id /\ new.ticket = c.ticket
      /\ ~ IsLivePoll(new)
  <2>1. new \in Calls /\ new.reply = View(i)'
    BY <1>2, <1>4 DEF IsCall, Calls
  <2>2. /\ new.op = c.op /\ new.id = c.id /\ new.ticket = c.ticket /\ new.live = c.live
    BY <1>2 DEF IsCall, Calls
  <2>3. c.op = "cancel" => i = c.id
    BY <1>1
  <2> HIDE DEF new
  <2> QED
    BY <1>2, <1>4, <2>1, <2>2, <2>3 DEF IsCall, IsLivePoll
<1>6. /\ calls' = (calls \ {c}) \cup {new}
      /\ UNCHANGED <<open, shownVars, pending, error, armed, inputVars>>
  BY <1>1 DEF CarryOut
<1> HIDE DEF new
<1>7. CallsType'
  BY <1>5, <1>6 DEF DrawerInv, CallsInv, CallsType, IsCall
<1>8. PollInv'
  BY <1>5, <1>6 DEF DrawerInv, CallsInv, PollInv, IsLivePoll
<1>9. TicketInv'
  BY <1>5, <1>6 DEF DrawerInv, CallsInv, TicketInv, shownVars
<1>10. PendingIsOwned'
  BY <1>2, <1>5, <1>6 DEF DrawerInv, PendingIsOwned
<1> QED
  BY <1>3, <1>6, <1>7, <1>8, <1>9, <1>10
     DEF DrawerInv, CallsInv, DrawerType, shownVars, inputVars, ShownIsSelected,
         RefusedShowsNothing

\* Every step of the drawer.
LEMMA DrawerStep == ASSUME DrawerInv, SidebarStep PROVE DrawerInv'
<1>1. CASE UserStep
  <2>1. CASE RefreshStatus \/ OpenFromHistory
    BY <2>1, RestoreStep DEF RefreshStatus, OpenFromHistory, DrawerInv, DrawerType
  <2> QED
    BY <1>1, <2>1, ShowStep, CloseStep, FreshStep, SendStep, CancelStep, SiteStep
       DEF UserStep
<1>2. CASE (Poll \/ PollPage \/ PollUntaken \/ Write) /\ UNCHANGED acts
  BY <1>2, PollStep, UntakenStep, SiteStep
<1>3. CASE CallStep
  <2>1. PICK c \in calls : Arrive(c) \/ Fail(c)
    BY <1>3 DEF CallStep
  <2>2. CASE Arrive(c)
    BY <2>2, ListStep, OwnerStep, PollArrivesStep, DropStep DEF Arrive, IsNewest
  <2> QED
    BY <2>1, <2>2, FailStep
<1> QED
  BY <1>1, <1>2, <1>3, CarryOutStep, SiteStep DEF SidebarStep

\* What the Site may answer.
LEMMA ResultsType ==
    ASSUME SiteType, NEW op, NEW reply \in Results(op)
    PROVE  reply \in Readings \cup {None}
<1>1. site[Last].proposal \in Readings \cup {None}
  BY SidebarAssumption DEF SiteType
<1> QED
  BY <1>1 DEF Results, Readings

\* A card changes nothing of the drawer, and of the Site at most how its
\* proposal reads: once.
LEMMA CardUndisturbed ==
    ASSUME DrawerInv, CardType, CardStep
    PROVE  /\ UNCHANGED <<allowed, calls, open, shownVars, pending, error, armed, inputVars>>
           /\ DrawerInv'
<1>1. /\ UNCHANGED <<allowed, calls, open, shownVars, pending, error, armed, inputVars>>
      /\ site' = site \/ \E status \in Readings \cup {None} : Resolve(status)
  <2>1. ASSUME NEW c \in cardCalls, Take(c)
        PROVE  \E status \in Readings \cup {None} : Resolve(status)
    BY <2>1, ResultsType DEF Take, DrawerInv
  <2>2. ASSUME Expire PROVE \E status \in Readings \cup {None} : Resolve(status)
    BY <2>2 DEF Expire, Readings
  <2>3. UNCHANGED <<allowed, calls, open, shownVars, pending, error, armed, inputVars>>
    BY DEF CardStep, Undisturbed, confirm, reject, verify, Expire, bundleOp, Take, Lost,
           Answered, FillRows, FillCheck, EditForm
  <2>4. site' = site \/ Expire \/ \E c \in cardCalls : Take(c)
    BY DEF CardStep, confirm, reject, verify, bundleOp, Lost, Answered, FillRows, FillCheck,
           EditForm
  <2> QED
    BY <2>1, <2>2, <2>3, <2>4
<1>2. SiteType'
  BY <1>1, SidebarAssumption DEF Resolve, DrawerInv, SiteType
<1>3. DrawerType'
  BY <1>1 DEF DrawerInv, DrawerType, shownVars, inputVars
<1> QED
  BY <1>1, <1>2, <1>3, StandsStill

\* A closed drawer owns nothing.
LEMMA DrawerInit == ASSUME Init PROVE DrawerInv
<1>1. SiteType
  <2>1. ASSUME NEW i \in Ids
        PROVE  /\ (i \in Held) \in BOOLEAN /\ (i = Last) \in BOOLEAN
               /\ (IF i = Last THEN "Unready" ELSE None) \in Readings \cup {None}
    BY DEF Readings
  <2>2. allowed \in BOOLEAN
    BY DEF Init, SidebarInit
  <2>3. site = [i \in Ids |->
                  [made |-> i \in Held, active |-> i = Last,
                   proposal |-> IF i = Last THEN "Unready" ELSE None]]
    BY DEF Init, SidebarInit
  <2> QED
    BY <2>1, <2>2, <2>3, Zenon DEF SiteType
<1>2. DrawerType
  BY DEF Init, SidebarInit, DrawerType, Errors
<1> QED
  BY <1>1, <1>2
     DEF Init, SidebarInit, DrawerInv, CallsInv, CallsType, TicketInv, PollInv,
         ShownIsSelected, PendingIsOwned, RefusedShowsNothing

-----------------------------------------------------------------------------
(* The cards. *)

\* The drawer's steps leave a proposal that was taken as it is.
LEMMA ProposalStands ==
    ASSUME DrawerInv, SidebarStep
    PROVE  site'[Last].proposal = site[Last].proposal \/ site[Last].proposal = "Unready"
<1>1. ASSUME NEW c \in calls, CarryOut(c)
      PROVE  site'[Last].proposal = site[Last].proposal
  BY <1>1, SidebarAssumption DEF CarryOut, DrawerInv, SiteType
<1>2. ASSUME NEW i \in Ids, RunEnds(i)
      PROVE  site'[Last].proposal = site[Last].proposal \/ site[Last].proposal = "Unready"
  BY <1>2, SidebarAssumption DEF RunEnds, DrawerInv, SiteType
<1>3. \/ site' = site
      \/ \E c \in calls : CarryOut(c)
      \/ \E i \in Ids : RunEnds(i)
  BY DEF SidebarStep, UserStep, CallStep, show, RefreshStatus, OpenFromHistory, restore,
         close, fresh, Provide, send, cancel, ChangeRights, Navigate, Poll, PollPage,
         PollUntaken, Write, Arrive, ListArrives, GetArrives, SendArrives, CancelArrives,
         PollArrives, Drop, Fail, PollFails, fail, siteVars
<1> QED
  BY <1>1, <1>2, <1>3

\* A card follows the drawer: it stays, or a new one takes its place.
LEMMA FollowStep ==
    ASSUME DrawerInv, CardInv, SiteType', SidebarStep, CardFollows
    PROVE  CardInv'
<1>1. site'[Last].proposal = site[Last].proposal \/ site[Last].proposal = "Unready"
  BY ProposalStands
<1>2. kind' = kind /\ form' = form
  BY DEF CardFollows
<1>3. CASE Given # None /\ UNCHANGED <<cardState, cardCalls, filling>>
  <2>1. UNCHANGED <<claimed, local, bundle, asked, cardCalls, filling, form, kind>>
    BY <1>2, <1>3 DEF cardState
  <2>2. CardType' /\ AskedInv'
    BY <1>3, <2>1 DEF CardInv, CardType, AskedInv, Requests
  <2>3. AnswersInv'
    BY <1>1, <2>1 DEF CardInv, AnswersInv, Outcomes
  <2>4. CardTellsTruth'
    BY <1>1, <2>1 DEF CardInv, CardTellsTruth
  <2> QED
    BY <2>2, <2>3, <2>4 DEF CardInv
<1>4. CASE /\ claimed' = FALSE /\ local' = None /\ verified' = None
           /\ bundle' = [NoBundle EXCEPT !.transfer = (Given' = "Transferred")]
           /\ asked' = IF Given' = None THEN asked ELSE "no"
           /\ cardCalls' = {[c EXCEPT !.mine = FALSE] : c \in cardCalls}
           /\ filling' = {[f EXCEPT !.mine = FALSE] : f \in filling}
  <2>1. ASSUME NEW c \in cardCalls
        PROVE  LET d == [c EXCEPT !.mine = FALSE] IN
               d \in CardCalls /\ ~ d.mine /\ d.op = c.op /\ d.reply = c.reply
    BY DEF CardInv, CardType, CardCalls
  <2>2. CardType'
    <3>1. cardCalls' \subseteq CardCalls
      BY <1>4, <2>1
    <3>2. filling' \subseteq [stage : {"rows", "check"}, mine : BOOLEAN]
      BY <1>4 DEF CardInv, CardType
    <3>3. bundle' \in [transfer : BOOLEAN, confirmation : {FALSE}]
      BY <1>4 DEF NoBundle
    <3> QED
      BY <1>2, <1>4, <3>1, <3>2, <3>3 DEF CardInv, CardType, CardCalls
  <2>3. Requests' = {}
    BY <1>4, <2>1 DEF Requests
  <2>4. AskedInv'
    <3>1. bundle'.confirmation = FALSE
      BY <1>4 DEF NoBundle
    <3> QED
      BY <1>4, <2>3, <3>1 DEF AskedInv
  <2>5. AnswersInv'
    <3>1. filling' # {} => filling # {}
      BY <1>4
    <3>2. ASSUME NEW d \in cardCalls'
          PROVE  \E c \in cardCalls : d.op = c.op /\ d.reply = c.reply
      BY <1>4, <2>1
    <3>3. ASSUME NEW d \in cardCalls', d.op \in {"confirm", "reject"}, d.reply # None
          PROVE  site'[Last].proposal = d.reply /\ d.reply \in Outcomes
      BY <1>1, <3>2, <3>3 DEF CardInv, AnswersInv, Outcomes
    <3>4. \A d \in cardCalls' : d.op = "reject" => d.reply \in {None, "Rejected"}
      BY <3>2 DEF CardInv, AnswersInv
    <3> QED
      BY <1>1, <3>1, <3>3, <3>4 DEF CardInv, AnswersInv
  <2>6. CardTellsTruth'
    BY <1>1, <1>2, <1>4, CardsAssumption DEF CardInv, CardTellsTruth, Readings
  <2> QED
    BY <2>2, <2>4, <2>5, <2>6 DEF CardInv
<1> QED
  BY <1>3, <1>4 DEF CardFollows, CardStays

\* A card asks: at most one request of a card is under way.
LEMMA AskStep ==
    ASSUME CardInv, NEW op \in {"confirm", "reject", "prepare", "transfer", "publish"}, Ask(op),
           asked \notin {"waiting", "failed"},
           \/ local' \in {"Running", "Rejecting"}
           \/ ~ bundle.confirmation /\ local' = local,
           UNCHANGED <<site, allowed, kind, bundle, form, filling>>
    PROVE  CardInv'
<1> DEFINE new == [op |-> op, mine |-> TRUE, reply |-> None]
<1>1. new \in CardCalls /\ new.reply = None /\ new.op = op
  BY DEF CardCalls
<1>2. claimed' = TRUE /\ asked' = "waiting" /\ cardCalls' = cardCalls \cup {new}
  BY DEF Ask
<1> HIDE DEF new
<1>3. local' \in Readings \cup {None} /\ SiteType'
  BY DEF CardInv, CardType, SiteType, Readings
<1>4. CardType'
  BY <1>1, <1>2, <1>3 DEF CardInv, CardType
<1>5. AnswersInv'
  BY <1>1, <1>2 DEF CardInv, AnswersInv
<1>6. Requests = {}
  BY DEF CardInv, AskedInv
<1>7. \A c \in Requests' : c = new
  BY <1>2, <1>6 DEF Requests
<1>8. AskedInv'
  BY <1>2, <1>7, CardsAssumption DEF AskedInv, Readings
<1>9. CardTellsTruth'
  BY DEF CardInv, CardTellsTruth
<1> QED
  BY <1>3, <1>4, <1>5, <1>8, <1>9 DEF CardInv

\* Its buttons ask only when nothing was asked, or it was answered.
LEMMA ButtonsAsk ==
    ASSUME CardInv,
           confirm \/ reject \/ \E op \in {"prepare", "transfer", "publish"} : bundleOp(op)
    PROVE  /\ asked \notin {"waiting", "failed"}
           /\ \E op \in {"confirm", "reject", "prepare", "transfer", "publish"} : Ask(op)
BY CardsAssumption
   DEF confirm, reject, bundleOp, MayConfirm, Unfiled, Readings, CardInv, AskedInv

LEMMA ButtonStep ==
    ASSUME CardInv, Undisturbed,
           confirm \/ reject \/ \E op \in {"prepare", "transfer", "publish"} : bundleOp(op)
    PROVE  CardInv'
<1>1. asked \notin {"waiting", "failed"}
  BY ButtonsAsk
<1>2. UNCHANGED <<site, allowed, kind, bundle, form, filling>>
  BY DEF Undisturbed, confirm, reject, bundleOp
<1>3. CASE confirm
  BY <1>1, <1>2, <1>3, AskStep DEF confirm
<1>4. CASE reject
  BY <1>1, <1>2, <1>4, AskStep DEF reject
<1>5. ASSUME NEW op \in {"prepare", "transfer", "publish"}, bundleOp(op) PROVE CardInv'
  <2>1. Ask(op) /\ ~ bundle.confirmation /\ local' = local
    BY <1>5 DEF bundleOp
  <2> QED
    BY <1>1, <1>2, <2>1, AskStep
<1> QED
  BY <1>3, <1>4, <1>5

\* A card's own step shows no other card.
LEMMA SameCard == ASSUME Undisturbed PROVE Given' = Given
BY DEF Undisturbed, shownVars, Given

\* A step that asks to verify, and leaves the rest of the card alone.
LEMMA VerifyStep == ASSUME CardInv, verify PROVE CardInv'
<1> DEFINE new == [op |-> "verify", mine |-> TRUE, reply |-> None]
<1>1. new \in CardCalls /\ new.reply = None /\ new.op = "verify"
  BY DEF CardCalls
<1>2. /\ cardCalls' = cardCalls \cup {new}
      /\ UNCHANGED <<site, allowed, kind, claimed, local, bundle, asked, form, filling>>
  BY DEF verify, Undisturbed, cardState
<1> HIDE DEF new
<1>3. Requests' = Requests /\ Given' = Given
  BY <1>1, <1>2, SameCard DEF Requests, verify
<1> QED
  BY <1>1, <1>2, <1>3
     DEF CardInv, SiteType, CardType, AnswersInv, AskedInv, CardTellsTruth

\* The Site's word on a proposal that was waiting for it.
LEMMA ResolveStep ==
    ASSUME CardInv, site[Last].proposal \notin Outcomes,
           NEW status \in Readings, Resolve(status),
           UNCHANGED <<allowed, kind, claimed, local, bundle, asked, form, filling>>
    PROVE  /\ SiteType' /\ CardTellsTruth' /\ filling = {}
           /\ site'[Last].proposal = status
           /\ \A c \in cardCalls : c.op \in {"confirm", "reject"} => c.reply = None
<1>1. SiteType' /\ site'[Last].proposal = status
  BY SidebarAssumption DEF Resolve, CardInv, SiteType
<1>2. filling = {} /\ \A c \in cardCalls : c.op \in {"confirm", "reject"} => c.reply = None
  BY DEF CardInv, AnswersInv, Outcomes
<1>3. CardTellsTruth'
  BY DEF CardInv, CardTellsTruth, Outcomes
<1> QED
  BY <1>1, <1>2, <1>3

LEMMA ExpireStep == ASSUME CardInv, Expire PROVE CardInv'
<1>1. /\ site[Last].proposal \notin Outcomes /\ Resolve("Expired") /\ "Expired" \in Readings
      /\ UNCHANGED <<allowed, kind, claimed, local, bundle, asked, form, filling, cardCalls>>
      /\ Given' = Given
  BY SameCard DEF Expire, Undisturbed, cardVars, cardState, Readings, Waiting, Outcomes
<1>2. /\ SiteType' /\ CardTellsTruth' /\ filling = {}
      /\ \A c \in cardCalls : c.op \in {"confirm", "reject"} => c.reply = None
  BY <1>1, ResolveStep
<1> QED
  BY <1>1, <1>2 DEF CardInv, CardType, AnswersInv, AskedInv, Requests

LEMMA TakeStep == ASSUME CardInv, NEW c \in cardCalls, Take(c) PROVE CardInv'
<1>1. PICK reply \in Results(c.op) :
        Resolve(reply) /\ cardCalls' = (cardCalls \ {c}) \cup {[c EXCEPT !.reply = reply]}
  BY DEF Take
<1> DEFINE new == [c EXCEPT !.reply = reply]
<1>2. c.op \in {"confirm", "reject"} => reply \in Outcomes /\ site[Last].proposal \notin Outcomes
  BY <1>1 DEF Results, Waiting, Outcomes
<1>3. c.op = "reject" => reply = "Rejected"
  BY <1>1 DEF Results
<1>4. c.op \notin {"confirm", "reject"} =>
        reply = site[Last].proposal \/ (reply \in Readings /\ site[Last].proposal \notin Outcomes)
  BY <1>1 DEF Results, Unfiled, Outcomes, Readings
<1>5. reply \in Readings \cup {None}
  BY <1>1, ResultsType DEF CardInv
<1>6. new \in CardCalls /\ new.op = c.op /\ new.mine = c.mine /\ new.reply = reply
  BY <1>5 DEF CardInv, CardType, CardCalls
<1>7. /\ cardCalls' = (cardCalls \ {c}) \cup {new}
      /\ UNCHANGED <<allowed, kind, claimed, local, bundle, asked, form, filling>>
      /\ Given' = Given
  BY <1>1, SameCard DEF Take, Undisturbed, cardState
<1> HIDE DEF new
<1>8. CardType'
  BY <1>6, <1>7 DEF CardInv, CardType
<1>9. AskedInv'
  <2>1. \A d \in Requests' : d \in Requests \ {c} \/ (d = new /\ c \in Requests)
    BY <1>6, <1>7 DEF Requests
  <2> QED
    BY <1>7, <2>1 DEF CardInv, AskedInv
<1>10. CASE site[Last].proposal \notin Outcomes /\ reply \in Readings
  <2>1. /\ SiteType' /\ CardTellsTruth' /\ filling = {} /\ site'[Last].proposal = reply
        /\ \A d \in cardCalls : d.op \in {"confirm", "reject"} => d.reply = None
    BY <1>1, <1>7, <1>10, ResolveStep
  <2>2. AnswersInv'
    BY <1>2, <1>3, <1>6, <1>7, <2>1 DEF AnswersInv, CardInv
  <2> QED
    BY <1>8, <1>9, <2>1, <2>2 DEF CardInv
<1>11. CASE c.op \notin {"confirm", "reject"} /\ reply = site[Last].proposal
  <2>1. site' = site
    BY <1>1, <1>11, SidebarAssumption DEF Resolve, CardInv, SiteType
  <2>2. AnswersInv'
    BY <1>6, <1>7, <1>11, <2>1 DEF CardInv, AnswersInv
  <2> QED
    BY <1>7, <1>8, <1>9, <2>1, <2>2 DEF CardInv, SiteType, CardTellsTruth
<1>12. Outcomes \subseteq Readings
  BY DEF Outcomes, Readings
<1> QED
  BY <1>2, <1>4, <1>10, <1>11, <1>12

\* A call of a card that ends leaves those of the others; none of its own asks
\* any more if it was one.
LEMMA RequestEnds ==
    ASSUME CardInv, NEW c \in cardCalls, cardCalls' = cardCalls \ {c}
    PROVE  /\ cardCalls' \subseteq CardCalls
           /\ Requests' \subseteq Requests
           /\ c.mine /\ c.op # "verify" =>
                claimed /\ asked = "waiting" /\ Requests' = {}
BY DEF CardInv, CardType, AskedInv, Requests

LEMMA LostStep == ASSUME CardInv, NEW c \in cardCalls, Lost(c) PROVE CardInv'
<1>1. /\ cardCalls' = cardCalls \ {c}
      /\ UNCHANGED <<site, allowed, kind, bundle, form, filling>>
      /\ Given' = Given
  BY SameCard DEF Lost, Undisturbed
<1>2. /\ cardCalls' \subseteq CardCalls /\ Requests' \subseteq Requests
      /\ c.mine /\ c.op # "verify" => claimed /\ asked = "waiting" /\ Requests' = {}
  BY <1>1, RequestEnds
<1>3. /\ asked' = IF c.mine /\ c.op # "verify" THEN "failed" ELSE asked
      /\ \/ local' = "Unknown" /\ claimed' = TRUE
         \/ local' = local /\ claimed' = claimed
  BY DEF Lost, Unanswered
<1>4. SiteType' /\ AnswersInv'
  BY <1>1 DEF CardInv, SiteType, AnswersInv
<1>5. CardType'
  BY <1>1, <1>2, <1>3 DEF CardInv, CardType, Readings
<1>6. AskedInv'
  <2>1. \A r \in Requests' : claimed' /\ asked' = "waiting"
    BY <1>2, <1>3 DEF CardInv, AskedInv
  <2>2. \A r, q \in Requests' : r = q
    BY <1>2 DEF CardInv, AskedInv
  <2>3. asked' \in {"waiting", "failed"} => claimed' \/ Given' = None
    BY <1>1, <1>2, <1>3 DEF CardInv, AskedInv, Unanswered
  <2>4. (bundle.confirmation /\ local = None)' => asked' \notin {"waiting", "failed"}
    BY <1>1, <1>2, <1>3, CardsAssumption DEF CardInv, AskedInv, Readings
  <2> QED
    BY <2>1, <2>2, <2>3, <2>4 DEF AskedInv
<1>7. CardTellsTruth'
  BY <1>1, <1>3 DEF CardInv, CardTellsTruth
<1> QED
  BY <1>4, <1>5, <1>6, <1>7 DEF CardInv

\* What an answer does to the rest of the card, the draft apart.
LEMMA AnsweredAsked ==
    ASSUME CardInv, NEW c \in cardCalls, cardCalls' = cardCalls \ {c}, Given' = Given,
           asked' = IF c.mine /\ c.op # "verify" THEN "done" ELSE asked,
           \/ claimed' = claimed
           \/ c.mine /\ c.op # "verify",
           \/ bundle' = bundle /\ (local' = local \/ local' \in Readings)
           \/ c.mine /\ c.op # "verify"
    PROVE  AskedInv'
<1>1. /\ Requests' \subseteq Requests
      /\ c.mine /\ c.op # "verify" => Requests' = {}
  BY RequestEnds
<1>2. CASE c.mine /\ c.op # "verify"
  BY <1>1, <1>2 DEF AskedInv
<1>3. CASE ~ (c.mine /\ c.op # "verify")
  <2>1. UNCHANGED <<claimed, bundle, asked>> /\ (local' = local \/ local' \in Readings)
    BY <1>3
  <2>2. local' = None => local = None
    BY <2>1, CardsAssumption
  <2> QED
    BY <1>1, <2>1, <2>2 DEF CardInv, AskedInv
<1> QED
  BY <1>2, <1>3

LEMMA AnsweredStep == ASSUME CardInv, NEW c \in cardCalls, Answered(c) PROVE CardInv'
<1>1. /\ c.reply # None /\ cardCalls' = cardCalls \ {c}
      /\ asked' = IF c.mine /\ c.op # "verify" THEN "done" ELSE asked
      /\ UNCHANGED <<site, allowed, kind>> /\ Given' = Given
  BY SameCard DEF Answered, Undisturbed
<1>2. c \in CardCalls /\ cardCalls' \subseteq CardCalls
  BY <1>1, RequestEnds DEF CardInv, CardType
<1>3. SiteType' /\ (asked \in {"no", "waiting", "done", "failed"})'
  BY <1>1 DEF CardInv, CardType, SiteType
<1>4. c.op \in {"confirm", "reject"} => site[Last].proposal = c.reply /\ c.reply \in Outcomes
  BY <1>1 DEF CardInv, AnswersInv
<1>5. CASE c.op = "confirm" /\ c.reply = "Authorized"
  <2>1. /\ UNCHANGED <<claimed, verified, bundle>>
        /\ IF FormAsProposed
           THEN /\ form' = [form EXCEPT !["field"] = "filled"]
                /\ filling' = filling \cup {[stage |-> "rows", mine |-> c.mine]}
                /\ local' = local
           ELSE /\ local' \in {"Unknown", local}
                /\ UNCHANGED <<form, filling>>
    BY <1>5 DEF Answered
  <2>2. site'[Last].proposal = "Authorized"
    BY <1>1, <1>4, <1>5
  <2>3. [stage |-> "rows", mine |-> c.mine] \in [stage : {"rows", "check"}, mine : BOOLEAN]
    BY <1>2 DEF CardCalls
  <2>4. /\ filling' \subseteq [stage : {"rows", "check"}, mine : BOOLEAN]
        /\ DOMAIN form' = Parts /\ local' \in {"Unknown", local}
    BY <2>1, <2>3 DEF CardInv, CardType
  <2>5. CardType'
    BY <1>2, <1>3, <2>1, <2>4 DEF CardInv, CardType, Readings
  <2>6. AskedInv'
    BY <1>1, <2>1, <2>4, AnsweredAsked DEF Readings
  <2>7. AnswersInv'
    BY <1>1, <2>2 DEF CardInv, AnswersInv
  <2>8. CardTellsTruth'
    BY <1>1, <2>2, <2>4 DEF CardInv, CardTellsTruth
  <2> QED
    BY <1>3, <2>5, <2>6, <2>7, <2>8 DEF CardInv
<1>6. CASE c.op \in {"confirm", "reject"} /\ c.reply # "Authorized"
  <2>1. /\ local' = IF c.mine THEN c.reply ELSE local
        /\ UNCHANGED <<claimed, verified, bundle, form, filling>>
    BY <1>6 DEF Answered, ShownAs
  <2>2. local' \in {c.reply, local} /\ c.reply \in Readings /\ site'[Last].proposal = c.reply
    BY <1>1, <1>4, <1>6, <2>1 DEF Outcomes, Readings
  <2>3. CardType'
    BY <1>2, <1>3, <2>1, <2>2 DEF CardInv, CardType
  <2>4. AskedInv'
    BY <1>1, <2>1, <2>2, AnsweredAsked
  <2>5. AnswersInv'
    BY <1>1, <2>1 DEF CardInv, AnswersInv
  <2>6. CardTellsTruth'
    BY <1>1, <1>4, <1>6, <2>1, <2>2 DEF CardInv, CardTellsTruth, Outcomes
  <2> QED
    BY <1>3, <2>3, <2>4, <2>5, <2>6 DEF CardInv
<1>7. CASE c.op = "verify"
  <2>1. UNCHANGED <<claimed, local, bundle, form, filling>>
    BY <1>7 DEF Answered
  <2>2. CardType' /\ AnswersInv' /\ CardTellsTruth'
    BY <1>1, <1>2, <1>3, <2>1 DEF CardInv, CardType, AnswersInv, CardTellsTruth
  <2>3. AskedInv'
    BY <1>1, <2>1, AnsweredAsked
  <2> QED
    BY <1>3, <2>2, <2>3 DEF CardInv
<1>8. CASE c.op \notin {"confirm", "reject", "verify"}
  <2>1. /\ bundle' = IF ~ c.mine THEN bundle
                     ELSE IF c.op = "transfer" THEN [bundle EXCEPT !.transfer = TRUE]
                     ELSE [bundle EXCEPT !.confirmation = TRUE]
        /\ claimed' = (claimed /\ ~ (c.mine /\ c.op = "transfer"))
        /\ UNCHANGED <<local, verified, form, filling>>
    BY <1>8 DEF Answered
  <2>2. CardType' /\ AnswersInv' /\ CardTellsTruth'
    <3>1. claimed' \in BOOLEAN /\ bundle' \in [transfer : BOOLEAN, confirmation : BOOLEAN]
      BY <2>1 DEF CardInv, CardType
    <3> QED
      BY <1>1, <1>2, <1>3, <2>1, <3>1 DEF CardInv, CardType, AnswersInv, CardTellsTruth
  <2>3. AskedInv'
    <3>1. ~ c.mine => bundle' = bundle /\ claimed' = claimed
      BY <2>1 DEF CardInv, CardType
    <3> QED
      BY <1>1, <1>8, <2>1, <3>1, AnsweredAsked
  <2> QED
    BY <1>3, <2>2, <2>3 DEF CardInv
<1> QED
  BY <1>1, <1>5, <1>6, <1>7, <1>8 DEF CardInv, AnswersInv

\* The draft.
LEMMA FillRowsStep == ASSUME CardInv, NEW f \in filling, FillRows(f) PROVE CardInv'
<1>1. /\ form' = [form EXCEPT !["row"] = "filled"]
      /\ filling' = (filling \ {f}) \cup {[f EXCEPT !.stage = "check"]}
      /\ UNCHANGED <<site, allowed, kind, claimed, local, bundle, asked, cardCalls>>
      /\ Given' = Given
  BY SameCard DEF FillRows, Undisturbed, cardState
<1>2. site[Last].proposal = "Authorized"
  BY DEF CardInv, AnswersInv
<1>3. CardType'
  <2>1. [f EXCEPT !.stage = "check"] \in [stage : {"rows", "check"}, mine : BOOLEAN]
    BY DEF CardInv, CardType
  <2> QED
    BY <1>1, <2>1 DEF CardInv, CardType
<1> QED
  BY <1>1, <1>2, <1>3
     DEF CardInv, SiteType, AnswersInv, AskedInv, Requests, CardTellsTruth

LEMMA FillCheckStep == ASSUME CardInv, NEW f \in filling, FillCheck(f) PROVE CardInv'
<1>1. /\ local' \in {local, "Applied", "Unknown"} /\ filling' = filling \ {f}
      /\ UNCHANGED <<site, allowed, kind, claimed, bundle, asked, cardCalls, form>>
      /\ Given' = Given
  BY SameCard DEF FillCheck, Undisturbed
<1>2. site[Last].proposal = "Authorized"
  BY DEF CardInv, AnswersInv
<1>3. CardType'
  BY <1>1 DEF CardInv, CardType, Readings
<1>4. AskedInv'
  BY <1>1, CardsAssumption DEF CardInv, AskedInv, Requests, Readings
<1>5. CardTellsTruth'
  BY <1>1, <1>2 DEF CardInv, CardTellsTruth
<1> QED
  BY <1>1, <1>2, <1>3, <1>4, <1>5 DEF CardInv, SiteType, AnswersInv

LEMMA EditFormStep == ASSUME CardInv, NEW part \in Parts, EditForm(part) PROVE CardInv'
<1>1. /\ form' = [form EXCEPT ![part] = "edited"]
      /\ UNCHANGED <<site, allowed, kind, claimed, local, bundle, asked, cardCalls, filling>>
      /\ Given' = Given
  BY SameCard DEF EditForm, Undisturbed, cardState
<1>2. \A q \in Parts : form'[q] = "filled" => form[q] = "filled"
  BY <1>1 DEF CardInv, CardType
<1>3. CardTellsTruth'
  BY <1>1, <1>2 DEF CardInv, CardTellsTruth
<1> QED
  BY <1>1, <1>3
     DEF CardInv, SiteType, CardType, AnswersInv, AskedInv, Requests

\* Every step of a card.
LEMMA CardStepKeeps ==
    ASSUME DrawerInv, CardInv, CardStep
    PROVE  DrawerInv' /\ CardInv'
<1>1. Undisturbed /\ DrawerInv'
  BY CardUndisturbed DEF CardInv, Undisturbed
<1> QED
  BY <1>1, ButtonStep, VerifyStep, ExpireStep, TakeStep, LostStep, AnsweredStep,
     FillRowsStep, FillCheckStep, EditFormStep DEF CardStep

LEMMA CardInit == ASSUME Init PROVE CardInv
<1>1. SiteType
  BY DrawerInit DEF DrawerInv
<1>2. /\ claimed = FALSE /\ local = None /\ asked = "no" /\ cardCalls = {} /\ filling = {}
      /\ bundle = NoBundle /\ form = [part \in Parts |-> "base"]
  BY DEF Init
<1>3. CardType
  BY <1>2 DEF CardType, NoBundle
<1>4. AnswersInv /\ AskedInv
  BY <1>2 DEF AnswersInv, AskedInv, Requests
<1>5. CardTellsTruth
  BY <1>2, CardsAssumption DEF CardTellsTruth, Readings
<1> QED
  BY <1>1, <1>3, <1>4, <1>5 DEF CardInv

LEMMA Inductive ==
    ASSUME DrawerInv, CardInv, [Next]_vars
    PROVE  DrawerInv' /\ CardInv'
<1>1. CASE SidebarStep /\ CardFollows
  <2>1. DrawerInv' /\ SiteType'
    BY <1>1, DrawerStep DEF DrawerInv
  <2> QED
    BY <1>1, <2>1, FollowStep
<1>2. CASE UNCHANGED vars
  <2>1. UNCHANGED <<site, allowed, calls, open, listed, session, selected, pending, error,
                    armed, question, route, page, provided, kind, claimed, local, bundle, asked,
                    cardCalls, form, filling>>
    BY <1>2 DEF vars, sidebarVars, siteVars, shownVars, inputVars, cardVars, cardState
  <2>2. SiteType' /\ DrawerType'
    BY <2>1 DEF DrawerInv, SiteType, DrawerType
  <2>3. DrawerInv'
    BY <2>1, <2>2, StandsStill DEF shownVars
  <2>4. CardInv'
    BY <2>1, <2>2
       DEF CardInv, CardType, AnswersInv, AskedInv, Requests, Given, CardTellsTruth
  <2> QED
    BY <2>3, <2>4
<1> QED
  BY <1>1, <1>2, CardStepKeeps DEF Next

LEMMA AlwaysInv == Spec => [](DrawerInv /\ CardInv)
<1>1. Init => DrawerInv /\ CardInv
  BY DrawerInit, CardInit
<1>2. DrawerInv /\ CardInv /\ [Next]_vars => (DrawerInv /\ CardInv)'
  BY Inductive
<1> QED
  BY <1>1, <1>2, PTL DEF Spec

-----------------------------------------------------------------------------
(* What the drawer and its cards promise. *)

\* However late a list, a load, a poll or the answer to a message comes, the
\* conversation shown is the one the next message goes to.
THEOREM AlwaysShownIsSelected == Spec => []ShownIsSelected
<1>1. DrawerInv => ShownIsSelected
  BY DEF DrawerInv
<1> QED
  BY <1>1, AlwaysInv, PTL

\* A drawer that is pending waits for a call that is under way and newest.
THEOREM AlwaysPendingIsOwned == Spec => []PendingIsOwned
<1>1. DrawerInv => PendingIsOwned
  BY DEF DrawerInv
<1> QED
  BY <1>1, AlwaysInv, PTL

\* After a refusal no conversation is left on the drawer.
THEOREM AlwaysRefusedShowsNothing == Spec => []RefusedShowsNothing
<1>1. DrawerInv => RefusedShowsNothing
  BY DEF DrawerInv
<1> QED
  BY <1>1, AlwaysInv, PTL

\* A card never claims an execution, a rejection or a fill that did not happen.
THEOREM AlwaysCardTellsTruth == Spec => []CardTellsTruth
<1>1. CardInv => CardTellsTruth
  BY DEF CardInv
<1> QED
  BY <1>1, AlwaysInv, PTL

\* A card whose request has no known end asks nothing more of the Site.
LEMMA AskingIsNew ==
    ASSUME CardInv, Next, NEW c \in cardCalls' \ cardCalls,
           c.mine, c.reply = None, c.op # "verify"
    PROVE  asked \notin {"waiting", "failed"}
<1>1. ASSUME NEW d \in cardCalls, Take(d) PROVE FALSE
  <2>1. PICK reply : cardCalls' = (cardCalls \ {d}) \cup {[d EXCEPT !.reply = reply]}
    BY <1>1 DEF Take
  <2>2. d.reply = None /\ d \in CardCalls
    BY <1>1 DEF Take, CardInv, CardType
  <2>3. [d EXCEPT !.reply = reply].reply = None => [d EXCEPT !.reply = reply] = d
    BY <2>2 DEF CardCalls
  <2> QED
    BY <2>1, <2>3
<1>2. ~ CardFollows
  <2> DEFINE others == {[d EXCEPT !.mine = FALSE] : d \in cardCalls}
  <2>1. \A d \in others : ~ d.mine
    <3>1. ASSUME NEW d \in cardCalls PROVE ~ [d EXCEPT !.mine = FALSE].mine
      BY DEF CardInv, CardType, CardCalls
    <3> QED
      BY <3>1
  <2>2. CardFollows => cardCalls' = cardCalls \/ cardCalls' = others
    BY DEF CardFollows
  <2> HIDE DEF others
  <2> QED
    BY <2>1, <2>2
<1>3. ~ verify
  BY DEF verify
<1>4. /\ ~ Expire
      /\ ~ \E d \in cardCalls : Lost(d) \/ Answered(d)
      /\ ~ \E f \in filling : FillRows(f) \/ FillCheck(f)
      /\ ~ \E part \in Parts : EditForm(part)
  BY DEF Expire, Lost, Answered, FillRows, FillCheck, EditForm, cardVars
<1> QED
  BY <1>1, <1>2, <1>3, <1>4, ButtonsAsk DEF Next, CardStep

\* A request whose end is not known is not sent again before an answer to a read
\* of the conversation has put a new card there: a reload, or for a bundle the
\* poll that finds its confirmation on file (claimed, requested).
THEOREM ReadsBeforeAskingAgain == Spec => ReadBeforeAskingAgain
<1>1. DrawerInv /\ CardInv /\ [Next]_vars =>
        [\A c \in cardCalls' \ cardCalls :
            c.mine /\ c.reply = None /\ c.op # "verify" =>
                asked \notin {"waiting", "failed"}]_vars
  BY AskingIsNew
<1> QED
  BY <1>1, AlwaysInv, PTL DEF Spec, ReadBeforeAskingAgain

-----------------------------------------------------------------------------
(* The poll. *)

Polled == \E c \in calls : IsLivePoll(c)

\* A step that neither opens the drawer nor ends an error keeps the poll ...
LEMMA StillPolled ==
    ASSUME PollGoesOn, UNCHANGED <<open, error>>, armed => armed',
           \A c \in calls : IsLivePoll(c) => armed' \/ Polled'
    PROVE  PollGoesOn'
BY DEF PollGoesOn, Polled, IsLivePoll

\* ... and the effect starts it anew.
LEMMA EffectPolls ==
    ASSUME PollGoesOn, NEW cs, NEW opened, NEW now, Effect(cs, opened, now),
           now \notin Hard /\ Polled => \E c \in cs : IsLivePoll(c)
    PROVE  PollGoesOn'
<1>1. CASE opened = open /\ now = error
  <2>1. UNCHANGED <<open, error, armed>> /\ calls' = cs
    BY <1>1 DEF Effect
  <2>2. error \notin Hard /\ Polled => Polled'
    BY <1>1, <2>1 DEF Polled, IsLivePoll
  <2> QED
    BY <2>1, <2>2 DEF PollGoesOn, Polled, IsLivePoll
<1>2. CASE ~ (opened = open /\ now = error)
  BY <1>2 DEF Effect, PollGoesOn, Hard
<1> QED
  BY <1>1, <1>2

\* A new ticket stops no poll.
LEMMA OutdatedPolls ==
    ASSUME CallsInv, NEW S \in SUBSET calls, NEW c \in S, IsLivePoll(c)
    PROVE  \E d \in Outdated(S) : IsLivePoll(d)
<1>1. c \in Calls
  BY DEF CallsInv, CallsType, IsCall
<1>2. [c EXCEPT !.ticket = FALSE] \in Outdated(S)
  BY DEF Outdated
<1>3. IsLivePoll([c EXCEPT !.ticket = FALSE])
  BY <1>1 DEF IsLivePoll, Calls
<1> QED
  BY <1>2, <1>3

LEMMA UserLetsPoll ==
    ASSUME DrawerInv, PollGoesOn,
           \/ show \/ RefreshStatus \/ OpenFromHistory \/ close \/ fresh \/ Provide
           \/ send \/ cancel \/ ChangeRights \/ Poll \/ PollPage \/ PollUntaken \/ Write
           \/ \E r \in Routes : Navigate(r)
           \/ \E i \in Ids : RunEnds(i)
    PROVE  PollGoesOn'
<1>1. Polled => \E c \in Outdated(calls) : IsLivePoll(c)
  BY OutdatedPolls DEF DrawerInv, Polled
<1>2. ASSUME NEW op, NEW i, restore(op, i, TRUE) PROVE PollGoesOn'
  <2>1. Effect(Outdated(calls) \cup {Call(op, i)}, TRUE, "")
    BY <1>2 DEF restore
  <2> QED
    BY <1>1, <2>1, EffectPolls
<1>3. CASE show \/ RefreshStatus \/ OpenFromHistory
  <2>1. CASE Effect(calls, TRUE, Untaken)
    BY <2>1, EffectPolls DEF Polled
  <2> QED
    BY <1>2, <1>3, <2>1 DEF show, RefreshStatus, OpenFromHistory
<1>4. CASE close \/ fresh \/ send \/ cancel
  <2>1. \E cs, opened, now : Effect(cs, opened, now) /\ Outdated(calls) \subseteq cs
    BY <1>4 DEF close, fresh, send, cancel
  <2> QED
    BY <1>1, <2>1, EffectPolls
<1>5. CASE Poll
  <2>1. Call("poll", selected) \in calls' /\ UNCHANGED <<open, error>>
    BY <1>5 DEF Poll
  <2>2. IsLivePoll(Call("poll", selected))
    BY DEF IsLivePoll, Call
  <2> QED
    BY <2>1, <2>2 DEF PollGoesOn, Polled, IsLivePoll
<1>6. CASE PollUntaken
  BY <1>6, EffectPolls DEF PollUntaken, Polled
<1>7. CASE \/ Provide \/ ChangeRights \/ PollPage \/ Write
           \/ \E r \in Routes : Navigate(r)
           \/ \E i \in Ids : RunEnds(i)
  <2>1. UNCHANGED <<calls, open, error, armed>>
    BY <1>7 DEF Provide, ChangeRights, PollPage, Write, Navigate, RunEnds
  <2> QED
    BY <2>1 DEF PollGoesOn, Polled, IsLivePoll
<1> QED
  BY <1>3, <1>4, <1>5, <1>6, <1>7

\* A poll that comes back, is thrown away or fails starts the timer again,
\* unless an error stops it.
LEMMA AnswersLetPoll ==
    ASSUME DrawerInv, PollGoesOn, NEW c \in calls, CarryOut(c) \/ Arrive(c) \/ Fail(c)
    PROVE  PollGoesOn'
<1>1. CASE \/ CarryOut(c) \/ ListArrives(c) \/ GetArrives(c) \/ SendArrives(c)
           \/ CancelArrives(c)
  <2>1. calls \ {c} \subseteq calls' /\ ~ IsLivePoll(c) /\ UNCHANGED <<open, error, armed>>
    BY <1>1 DEF CarryOut, ListArrives, GetArrives, SendArrives, CancelArrives, IsLivePoll
  <2>2. \A d \in calls : IsLivePoll(d) => Polled'
    BY <2>1 DEF Polled, IsLivePoll
  <2> QED
    BY <2>1, <2>2, StillPolled
<1>2. CASE PollArrives(c)
  BY <1>2 DEF PollArrives, PollGoesOn
<1>3. CASE Drop(c)
  <2>1. /\ calls' = calls \ {c} /\ armed' = (armed \/ IsLivePoll(c))
        /\ UNCHANGED <<open, error>>
    BY <1>3 DEF Drop, TimerAfter, IsLivePoll
  <2>2. \A d \in calls : IsLivePoll(d) => armed' \/ Polled'
    BY <2>1 DEF Polled, IsLivePoll
  <2> QED
    BY <2>1, <2>2, StillPolled
<1>4. ASSUME NEW why, c.ticket, c.live, KeptByPoll(c, why), PollFails(c, why)
      PROVE  PollGoesOn'
  BY <1>4 DEF PollFails, PollGoesOn
<1>5. ASSUME NEW why, c.ticket, c.live, ~ KeptByPoll(c, why), fail(c, why)
      PROVE  PollGoesOn'
  <2>1. Effect(Outdated(calls \ {c}), open, why)
    BY <1>5 DEF fail
  <2>2. IsLivePoll(c) => why \in Hard
    BY <1>5 DEF KeptByPoll, IsLivePoll, Hard
  <2>3. \A d \in calls \ {c} : IsLivePoll(d) =>
            \E e \in Outdated(calls \ {c}) : IsLivePoll(e)
    BY OutdatedPolls DEF DrawerInv
  <2>4. why \notin Hard /\ Polled => \E e \in Outdated(calls \ {c}) : IsLivePoll(e)
    BY <2>2, <2>3 DEF Polled
  <2> QED
    BY <2>1, <2>4, EffectPolls
<1> QED
  BY <1>1, <1>2, <1>3, <1>4, <1>5 DEF Arrive, Fail

\* The open drawer never stops reading its conversation: no answer, failure or
\* move of the user leaves it without a timer or a poll that starts one, unless
\* an error is shown that forbids it (the effect that polls, and what follows
\* its await).
THEOREM PollingNeverEnds == Spec => []PollGoesOn
<1>1. Init => PollGoesOn
  BY DEF Init, SidebarInit, PollGoesOn
<1>2. DrawerInv /\ CardInv /\ PollGoesOn /\ [Next]_vars => PollGoesOn'
  <2> SUFFICES ASSUME DrawerInv, CardInv, PollGoesOn, [Next]_vars PROVE PollGoesOn'
    OBVIOUS
  <2>1. CASE SidebarStep
    BY <2>1, UserLetsPoll, AnswersLetPoll DEF SidebarStep, UserStep, CallStep
  <2>2. CASE UNCHANGED vars \/ CardStep
    <3>1. UNCHANGED <<calls, open, error, armed>>
      BY <2>2, CardUndisturbed DEF CardInv, vars, sidebarVars
    <3> QED
      BY <3>1 DEF PollGoesOn, Polled, IsLivePoll
  <2> QED
    BY <2>1, <2>2 DEF Next
<1> QED
  BY <1>1, <1>2, AlwaysInv, PTL DEF Spec
=============================================================================
