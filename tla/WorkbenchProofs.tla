-------------------------- MODULE WorkbenchProofs --------------------------
(***************************************************************************)
(* What the conversation page keeps for any conversations and searches,    *)
(* any number of calls under way and any length of use, in whatever order  *)
(* the answers come.                                                       *)
(***************************************************************************)
EXTENDS Workbench, SequenceTheorems, FiniteSetTheorems, TLAPS

CallFields ==
    {"op", "from", "id", "query", "page", "draft", "rail", "session", "live", "reply"}

\* A call and who made it.
IsCall(c) ==
    /\ DOMAIN c = CallFields
    /\ {c.rail, c.session, c.live} \subseteq BOOLEAN
    /\ c.op \in {"search", "open", "choose", "poll", "pollRail"} \cup Writes
    /\ IsPoll(c) => c.from = "poll"
    /\ c.op = "send" => c.from = "send" /\ c.draft \in Drafts
    /\ c.op = "cancel" => c.from = "cancel"
    /\ c.op \in {"archive", "restore"} => c.from = "archive"
    /\ c.from = "grow" => c.op = "search"

\* One submission at a time, with the load that follows it, and one further page.
Tame(cs) ==
    /\ \A c \in cs : IsCall(c)
    /\ \A c, d \in cs : c.from = "send" /\ d.from = "send" => c = d
    /\ \A c, d \in cs : c.from = "grow" /\ d.from = "grow" => c = d

\* The two guards are up while what they guard is under way, and no longer.
OwnersInv ==
    /\ sending \in BOOLEAN /\ growing \in BOOLEAN
    /\ sending <=> \E c \in calls : c.from = "send"
    /\ growing <=> \E c \in calls : c.from = "grow"

\* The search that may still be shown is the newest.
RailInv == \A c \in calls : c.op = "search" /\ c.from # "grow" /\ c.rail => c.query = asked

\* The poll that may still be shown is of the conversation selected.
PollInv == \A c \in calls : c.op = "poll" /\ c.live => c.id = selected

\* A draft is submitted while its submission is under way, or it is gone from
\* the composer.
DraftInv ==
    /\ typed \in 0..MaxDrafts /\ question \in 0..typed
    /\ sends \in [Drafts -> {0, 1}]
    /\ \A d \in Drafts : d > typed => sends[d] = 0
    /\ \A c \in calls : c.op = "send" => sends[c.draft] = 1
    /\ question # 0 /\ sends[question] = 1 =>
         \E c \in calls : c.op = "send" /\ c.draft = question

PageInv == Tame(calls) /\ OwnersInv /\ RailInv /\ PollInv /\ DraftInv

-----------------------------------------------------------------------------
(* What a generation does to the calls under way: they lose a flag. *)

Older(c, d) ==
    /\ IsCall(c) /\ c.op = d.op /\ c.from = d.from /\ c.id = d.id
    /\ c.query = d.query /\ c.draft = d.draft
    /\ c.rail => d.rail
    /\ c.live => d.live

\* The calls of cs are those of S, grown older.
Aged(cs, S) ==
    /\ Tame(cs)
    /\ \A c \in cs : \E d \in S : Older(c, d)
    /\ \A d \in S : \E c \in cs : Older(c, d)

LEMMA AgedSame ==
    ASSUME NEW S, Tame(S)
    PROVE  Aged(S, S)
BY DEF Aged, Tame, Older

LEMMA AgedTwice ==
    ASSUME NEW S, NEW cs, NEW more, Aged(cs, S), Aged(more, cs)
    PROVE  Aged(more, S)
<1>1. ASSUME NEW c \in more PROVE \E d \in S : Older(c, d)
  <2>1. PICK b \in cs : Older(c, b)
    BY DEF Aged
  <2>2. PICK d \in S : Older(b, d)
    BY DEF Aged
  <2> QED
    BY <2>1, <2>2 DEF Older
<1>2. ASSUME NEW d \in S PROVE \E c \in more : Older(c, d)
  <2>1. PICK b \in cs : Older(b, d)
    BY DEF Aged
  <2>2. PICK c \in more : Older(c, b)
    BY DEF Aged
  <2> QED
    BY <2>1, <2>2 DEF Older
<1> QED
  BY <1>1, <1>2 DEF Aged

\* Each of the three ways to outdate calls ages them.
LEMMA NewRailAges ==
    ASSUME NEW S, Tame(S)
    PROVE  Aged(NewRail(S), S) /\ \A c \in NewRail(S) : c.op = "search" => ~ c.rail
<1> DEFINE Old(c) == IF c.op \in {"search", "pollRail"} THEN [c EXCEPT !.rail = FALSE] ELSE c
<1>1. ASSUME NEW d \in S
      PROVE  Older(Old(d), d) /\ (Old(d).op = "search" => ~ Old(d).rail)
  BY DEF Tame, IsCall, CallFields, IsPoll, Older
<1>2. NewRail(S) = {Old(d) : d \in S}
  BY DEF NewRail
<1> HIDE DEF Old
<1> QED
  BY <1>1, <1>2 DEF Aged, Tame, Older

LEMMA NewSessionAges ==
    ASSUME NEW S, Tame(S)
    PROVE  Aged(NewSession(S), S)
<1> DEFINE Old(c) == IF c.op \in {"open", "choose"} THEN [c EXCEPT !.session = FALSE] ELSE c
<1>1. ASSUME NEW d \in S PROVE Older(Old(d), d)
  BY DEF Tame, IsCall, CallFields, IsPoll, Older
<1>2. NewSession(S) = {Old(d) : d \in S}
  BY DEF NewSession
<1> HIDE DEF Old
<1> QED
  BY <1>1, <1>2 DEF Aged, Tame, Older

LEMMA StoppedAges ==
    ASSUME NEW S, Tame(S), NEW id
    PROVE  /\ Aged(Stopped(S, id), S)
           /\ id # selected => \A c \in Stopped(S, id) : IsPoll(c) => ~ c.live
<1> DEFINE Old(c) == IF IsPoll(c) THEN [c EXCEPT !.live = FALSE] ELSE c
<1>1. ASSUME NEW d \in S
      PROVE  Older(Old(d), d) /\ (IsPoll(Old(d)) => ~ Old(d).live)
  BY DEF Tame, IsCall, CallFields, IsPoll, Older
<1>2. CASE id = selected
  BY <1>2, AgedSame DEF Stopped
<1>3. CASE id # selected
  <2>1. Stopped(S, id) = {Old(d) : d \in S}
    BY <1>3 DEF Stopped
  <2> HIDE DEF Old
  <2> QED
    BY <1>1, <2>1 DEF Aged, Tame, Older
<1> QED
  BY <1>2, <1>3

\* The clean up of the search effect.
LEMMA TypingAges ==
    ASSUME NEW S, Tame(S)
    PROVE  Aged({IF c.from = "query" THEN [c EXCEPT !.live = FALSE] ELSE c : c \in S}, S)
<1> DEFINE Old(c) == IF c.from = "query" THEN [c EXCEPT !.live = FALSE] ELSE c
<1>1. ASSUME NEW d \in S PROVE Older(Old(d), d)
  BY DEF Tame, IsCall, CallFields, IsPoll, Older
<1> DEFINE cs == {Old(d) : d \in S}
<1>2. \A c \in cs : \E d \in S : c = Old(d)
  OBVIOUS
<1>3. \A d \in S : Old(d) \in cs
  OBVIOUS
<1> HIDE DEF Old, cs
<1>4. Aged(cs, S)
  BY <1>1, <1>2, <1>3 DEF Aged, Tame, Older
<1> QED
  BY <1>4 DEF cs, Old

-----------------------------------------------------------------------------
(* A step ages the calls of S and adds those of new: what it owes. *)

Turn(S, old, new) ==
    /\ S \subseteq calls /\ Aged(old, S)
    /\ \A c \in new : IsCall(c)
    /\ \A c, d \in new : c = d
    /\ calls' = old \cup new

\* The guards: a new call of theirs takes the place of the one that left.
LEMMA OwnersKept ==
    ASSUME PageInv, NEW S, NEW old, NEW new, Turn(S, old, new),
           \A c \in new, d \in S : c.from = d.from => c.from \notin {"send", "grow"},
           sending' \in BOOLEAN, growing' \in BOOLEAN,
           sending' <=> \E c \in S \cup new : c.from = "send",
           growing' <=> \E c \in S \cup new : c.from = "grow"
    PROVE  Tame(calls)' /\ OwnersInv'
<1>1. /\ \A c \in old : \E d \in S : c.from = d.from
      /\ \A d \in S : \E c \in old : c.from = d.from
      /\ Tame(old)
  BY DEF Turn, Aged, Older
<1>2. Tame(calls')
  BY <1>1 DEF Turn, Tame
<1>3. OwnersInv'
  BY <1>1 DEF Turn, OwnersInv
<1>4. Tame(calls)'
  BY <1>2 DEF Tame, IsCall, IsPoll
<1> QED
  BY <1>3, <1>4

\* The list: another search is the newest once the older ones are outdated.
LEMMA RailKept ==
    ASSUME PageInv, NEW S, NEW old, NEW new, Turn(S, old, new),
           asked' = asked \/ \A c \in old : c.op = "search" => ~ c.rail,
           \A c \in new : c.op = "search" /\ c.from # "grow" /\ c.rail => c.query = asked'
    PROVE  RailInv'
<1>1. \A c \in old : \E d \in calls :
        c.op = d.op /\ c.from = d.from /\ c.query = d.query /\ (c.rail => d.rail)
  BY DEF Turn, Aged, Older
<1>2. \A c \in old : c.op = "search" /\ c.from # "grow" /\ c.rail => c.query = asked'
  BY <1>1 DEF PageInv, RailInv
<1> QED
  BY <1>2 DEF Turn, RailInv

\* The poll: another conversation is selected once the polls are stopped.
LEMMA PollKept ==
    ASSUME PageInv, NEW S, NEW old, NEW new, Turn(S, old, new),
           selected' = selected \/ \A c \in old : IsPoll(c) => ~ c.live,
           \A c \in new : c.op = "poll" /\ c.live => c.id = selected'
    PROVE  PollInv'
<1>1. \A c \in old : \E d \in calls : c.op = d.op /\ c.id = d.id /\ (c.live => d.live)
  BY DEF Turn, Aged, Older
<1>2. \A c \in old : c.op = "poll" /\ c.live => c.id = selected'
  BY <1>1 DEF PageInv, PollInv, IsPoll
<1> QED
  BY <1>2 DEF Turn, PollInv

\* The drafts: no submission starts or ends.
LEMMA DraftKept ==
    ASSUME PageInv, NEW S, NEW old, NEW new, Turn(S, old, new),
           UNCHANGED <<typed, sends>>, question' \in {question, 0},
           \A c \in calls \ S : c.op # "send",
           \A c \in new : c.op # "send"
    PROVE  DraftInv'
<1>1. /\ \A c \in old : \E d \in calls : c.op = d.op /\ c.draft = d.draft
      /\ \A d \in S : \E c \in old : c.op = d.op /\ c.draft = d.draft
  BY DEF Turn, Aged, Older
<1>2. typed' \in 0..MaxDrafts /\ question' \in 0..typed'
  BY WorkbenchAssumption DEF PageInv, DraftInv
<1>3. \A c \in calls' : c.op = "send" => sends'[c.draft] = 1
  BY <1>1 DEF Turn, PageInv, DraftInv
<1>4. question' # 0 /\ sends'[question'] = 1 =>
        \E c \in calls' : c.op = "send" /\ c.draft = question'
  BY <1>1 DEF Turn, PageInv, DraftInv
<1> QED
  BY <1>2, <1>3, <1>4 DEF PageInv, DraftInv

-----------------------------------------------------------------------------
(* The steps. *)

\* A handler adds a call, and may outdate those before it.
LEMMA AddStep ==
    ASSUME PageInv, NEW old, Aged(old, calls),
           NEW c, IsCall(c), c.from \notin {"send", "grow"}, calls' = old \cup {c},
           UNCHANGED <<sending, growing, draftVars>>,
           selected' = selected \/ \A d \in old : IsPoll(d) => ~ d.live,
           c.op = "poll" /\ c.live => c.id = selected',
           asked' = asked \/ \A d \in old : d.op = "search" => ~ d.rail,
           c.op = "search" /\ c.rail => c.query = asked'
    PROVE  PageInv'
<1>1. Turn(calls, old, {c})
  BY DEF Turn
<1>2. Tame(calls)' /\ OwnersInv'
  BY <1>1, OwnersKept DEF PageInv, OwnersInv
<1>3. RailInv' /\ PollInv'
  BY <1>1, RailKept, PollKept
<1>4. DraftInv'
  <2>1. c.op # "send"
    BY DEF IsCall
  <2> QED
    BY <1>1, <2>1, DraftKept DEF draftVars
<1> QED
  BY <1>2, <1>3, <1>4 DEF PageInv

\* It may outdate them and add none.
LEMMA AgeStep ==
    ASSUME PageInv, Aged(calls', calls),
           UNCHANGED <<asked, sending, growing, typed, sends>>, question' \in {question, 0},
           selected' = selected \/ \A d \in calls' : IsPoll(d) => ~ d.live
    PROVE  PageInv'
<1>1. Turn(calls, calls', {})
  BY DEF Turn
<1>2. Tame(calls)' /\ OwnersInv'
  BY <1>1, OwnersKept DEF PageInv, OwnersInv
<1> QED
  BY <1>1, <1>2, RailKept, PollKept, DraftKept DEF PageInv

\* The selection moves: the reads before it are old, its poll is stopped.
LEMMA SelectAges ==
    ASSUME NEW S, Tame(S), NEW id
    PROVE  /\ Aged(Stopped(NewSession(S), id), S)
           /\ id # selected => \A c \in Stopped(NewSession(S), id) : IsPoll(c) => ~ c.live
<1>1. Aged(NewSession(S), S) /\ Tame(NewSession(S))
  BY NewSessionAges DEF Aged
<1> QED
  BY <1>1, StoppedAges, AgedTwice

LEMMA QueryStep == ASSUME PageInv, QueryEffect \/ Reload PROVE PageInv'
<1>1. PICK from \in {"query", "reload"} : calls' = NewRail(calls) \cup {Search(from, query, 1)}
  BY DEF QueryEffect, Reload
<1> DEFINE new == Search(from, query, 1)
<1>2. IsCall(new) /\ new.op = "search" /\ new.from = from /\ new.query = query
  BY DEF Search, Call, CallFields, IsCall, IsPoll, Writes
<1>3. Aged(NewRail(calls), calls) /\ \A d \in NewRail(calls) : d.op = "search" => ~ d.rail
  BY NewRailAges DEF PageInv
<1>4. asked' = query /\ UNCHANGED <<sending, growing, selected, draftVars>>
  BY DEF QueryEffect, Reload
<1> HIDE DEF new
<1>5. calls' = NewRail(calls) \cup {new}
  BY <1>1 DEF new
<1> QED
  BY <1>2, <1>3, <1>4, <1>5, AddStep

LEMMA ReadStep == ASSUME PageInv, cancel \/ toggleArchive \/ Poll PROVE PageInv'
<1> DEFINE Fits(c) == /\ IsCall(c) /\ c.from \notin {"send", "grow"}
                      /\ c.op = "poll" => c.id = selected
                      /\ c.op # "search"
<1>1. ASSUME NEW op \in {"cancel", "poll"}, NEW id, op = "poll" => id = selected
      PROVE  Fits(Read(op, op, id))
  BY <1>1 DEF Read, Call, CallFields, IsCall, IsPoll, Writes
<1>2. ASSUME NEW op \in {"archive", "restore"}, NEW id, NEW q
      PROVE  Fits([Read(op, "archive", id) EXCEPT !.query = q])
  BY <1>2 DEF Read, Call, CallFields, IsCall, IsPoll, Writes
<1> HIDE DEF Fits
<1>3. \E new : Fits(new) /\ calls' = calls \cup {new}
  <2>1. CASE cancel
    BY <1>1, <2>1 DEF cancel
  <2>2. CASE Poll
    BY <1>1, <2>2 DEF Poll
  <2>3. CASE toggleArchive
    <3>1. \E op \in {"archive", "restore"} :
            calls' = calls \cup {[Read(op, "archive", session.id) EXCEPT !.query = query]}
      BY <2>3 DEF toggleArchive
    <3> QED
      BY <1>2, <3>1
  <2> QED
    BY <2>1, <2>2, <2>3
<1>4. Aged(calls, calls)
  BY AgedSame DEF PageInv
<1>5. UNCHANGED <<asked, sending, growing, selected, draftVars>>
  BY DEF cancel, toggleArchive, Poll
<1> QED
  BY <1>3, <1>4, <1>5, AddStep DEF Fits

LEMMA ChooseStep == ASSUME PageInv, NEW i \in Ids, choose(i) PROVE PageInv'
<1> DEFINE old == Stopped(NewSession(calls), i)
           new == Read("choose", "choose", i)
<1>1. /\ IsCall(new) /\ new.from \notin {"send", "grow"} /\ new.op = "choose"
  BY DEF Read, Call, CallFields, IsCall, IsPoll, Writes
<1>2. Aged(old, calls) /\ (i # selected => \A c \in old : IsPoll(c) => ~ c.live)
  BY SelectAges DEF PageInv
<1>3. /\ calls' = old \cup {new} /\ selected' = i
      /\ UNCHANGED <<asked, sending, growing, draftVars>>
  BY DEF choose, Select
<1> HIDE DEF old, new
<1> QED
  BY <1>1, <1>2, <1>3, AddStep

LEMMA FreshStep == ASSUME PageInv, fresh PROVE PageInv'
<1>1. /\ Aged(calls', calls)
      /\ None # selected => \A c \in calls' : IsPoll(c) => ~ c.live
  BY SelectAges DEF PageInv, fresh
<1>2. selected' = None /\ UNCHANGED <<asked, sending, growing, typed, sends>> /\ question' = 0
  BY DEF fresh, Select
<1> QED
  BY <1>1, <1>2, AgeStep

LEMMA TypeQueryStep == ASSUME PageInv, NEW q \in Queries, TypeQuery(q) PROVE PageInv'
<1>1. Aged(calls', calls)
  BY TypingAges DEF PageInv, TypeQuery
<1>2. UNCHANGED <<asked, sending, growing, typed, sends, question, selected>>
  BY DEF TypeQuery, draftVars
<1> QED
  BY <1>1, <1>2, AgeStep

LEMMA RunEndsStep == ASSUME PageInv, NEW i \in Ids, RunEnds(i) PROVE PageInv'
<1>1. calls' = calls /\ UNCHANGED <<asked, sending, growing, typed, sends, question, selected>>
  BY DEF RunEnds, draftVars
<1>2. Aged(calls', calls)
  BY <1>1, AgedSame DEF PageInv
<1> QED
  BY <1>1, <1>2, AgeStep

\* A further page takes its guard.
LEMMA GrowStep == ASSUME PageInv, growSessions PROVE PageInv'
<1> DEFINE new == Search("grow", query, page + 1)
<1>1. IsCall(new) /\ new.from = "grow" /\ new.op = "search"
  BY DEF Search, Call, CallFields, IsCall, IsPoll, Writes
<1>2. /\ calls' = calls \cup {new} /\ ~ growing /\ growing' = TRUE
      /\ UNCHANGED <<asked, selected, sending, draftVars>>
  BY DEF growSessions
<1> HIDE DEF new
<1>3. Turn(calls, calls, {new})
  BY <1>1, <1>2, AgedSame DEF Turn, PageInv
<1>4. Tame(calls)' /\ OwnersInv'
  BY <1>1, <1>2, <1>3, OwnersKept DEF PageInv, OwnersInv
<1>5. RailInv' /\ PollInv' /\ DraftInv'
  BY <1>1, <1>2, <1>3, RailKept, PollKept, DraftKept DEF draftVars
<1> QED
  BY <1>4, <1>5 DEF PageInv

\* A submission takes its own, and its draft was not submitted before.
LEMMA SendStep == ASSUME PageInv, send PROVE PageInv'
<1> DEFINE new == [Read("send", "send", selected) EXCEPT !.draft = question, !.query = query]
<1>1. ~ sending /\ question \in Drafts
  BY WorkbenchAssumption DEF send, MaySend, PageInv, DraftInv, Drafts
<1>2. IsCall(new) /\ new.from = "send" /\ new.op = "send" /\ new.draft = question
  BY <1>1 DEF Read, Call, CallFields, IsCall, IsPoll, Writes
<1>3. /\ calls' = calls \cup {new} /\ sending' = TRUE
      /\ sends' = [sends EXCEPT ![question] = @ + 1]
      /\ UNCHANGED <<asked, selected, growing, question, typed>>
  BY DEF send
<1> HIDE DEF new
<1>4. Turn(calls, calls, {new})
  BY <1>2, <1>3, AgedSame DEF Turn, PageInv
<1>5. Tame(calls)' /\ OwnersInv'
  <2>1. OwnersInv /\ growing' = growing /\ growing' \in BOOLEAN
    BY <1>3 DEF PageInv, OwnersInv
  <2>2. new.from # "grow" /\ \A c \in calls : c.from # "send"
    BY <1>1, <1>2, <2>1 DEF OwnersInv
  <2> QED
    BY <1>2, <1>3, <1>4, <2>1, <2>2, OwnersKept DEF PageInv, OwnersInv
<1>6. RailInv' /\ PollInv'
  BY <1>2, <1>3, <1>4, RailKept, PollKept
<1>7. \A c \in calls : c.op # "send"
  BY <1>1 DEF PageInv, Tame, IsCall, OwnersInv
<1>8. sends[question] = 0
  BY <1>1, <1>7 DEF PageInv, DraftInv, Drafts
<1>9. sends' = [sends EXCEPT ![question] = 1]
  BY <1>3, <1>8
<1>10. DraftInv'
  BY <1>1, <1>2, <1>3, <1>7, <1>9 DEF PageInv, DraftInv, Drafts
<1> QED
  BY <1>5, <1>6, <1>10 DEF PageInv

\* A draft typed anew has not been submitted.
LEMMA TypeQuestionStep == ASSUME PageInv, TypeQuestion PROVE PageInv'
<1>1. /\ typed < MaxDrafts /\ typed' = typed + 1 /\ question' = typed + 1
      /\ UNCHANGED <<calls, asked, sending, growing, selected, sends>>
  BY DEF TypeQuestion
<1>2. DraftInv'
  BY <1>1, WorkbenchAssumption DEF PageInv, DraftInv, Drafts
<1> QED
  BY <1>1, <1>2 DEF PageInv, Tame, IsCall, IsPoll, OwnersInv, RailInv, PollInv

\* The Site answers a call, which stays the call it was.
LEMMA CarryOutStep == ASSUME PageInv, NEW c \in calls, CarryOut(c) PROVE PageInv'
<1>1. PICK i \in Ids :
        calls' = (calls \ {c}) \cup {[c EXCEPT !.reply = View(i, server'[i])]}
  BY DEF CarryOut
<1> DEFINE new == [c EXCEPT !.reply = View(i, server'[i])]
<1>2. IsCall(c)
  BY DEF PageInv, Tame
<1>3. /\ IsCall(new) /\ new.op = c.op /\ new.from = c.from /\ new.draft = c.draft
      /\ new.op # "search" /\ new.op # "poll"
  BY <1>2 DEF CarryOut, IsCall, CallFields, IsPoll, Writes
<1>4. /\ calls' = (calls \ {c}) \cup {new}
      /\ UNCHANGED <<asked, selected, sending, growing, sends, question, typed>>
  BY <1>1 DEF CarryOut, draftVars
<1> HIDE DEF new
<1>5. Aged(calls \ {c}, calls \ {c})
  <2>1. Tame(calls \ {c})
    BY DEF PageInv, Tame
  <2> QED
    BY <2>1, AgedSame
<1>6. Turn(calls \ {c}, calls \ {c}, {new})
  BY <1>3, <1>4, <1>5 DEF Turn
<1>7. Tame(calls)' /\ OwnersInv'
  <2>1. /\ \A d \in calls \ {c} :
             d.from = new.from => d.from \notin {"send", "grow"}
    BY <1>3 DEF PageInv, Tame
  <2>2. /\ sending' <=> \E d \in (calls \ {c}) \cup {new} : d.from = "send"
        /\ growing' <=> \E d \in (calls \ {c}) \cup {new} : d.from = "grow"
    BY <1>3, <1>4 DEF PageInv, OwnersInv
  <2> QED
    BY <1>4, <1>6, <2>1, <2>2, OwnersKept DEF PageInv, OwnersInv
<1>8. RailInv' /\ PollInv'
  BY <1>3, <1>4, <1>6, RailKept, PollKept
<1>9. DraftInv'
  BY <1>3, <1>4 DEF PageInv, DraftInv
<1> QED
  BY <1>7, <1>8, <1>9 DEF PageInv

-----------------------------------------------------------------------------
(* What comes back. *)

LEMMA TameRest == ASSUME PageInv, NEW c \in calls PROVE Tame(calls \ {c}) /\ IsCall(c)
BY DEF PageInv, Tame

\* A call has ended: its guard, if it held one, is free.
LEMMA EndStep ==
    ASSUME PageInv, NEW c \in calls, c.op # "send", Aged(calls', calls \ {c}),
           sending' = (sending /\ c.from # "send"), growing' = (growing /\ c.from # "grow"),
           UNCHANGED <<asked, selected, draftVars>>
    PROVE  PageInv'
<1>1. Turn(calls \ {c}, calls', {})
  BY DEF Turn
<1>2. /\ sending' \in BOOLEAN /\ growing' \in BOOLEAN
      /\ sending' <=> \E d \in calls \ {c} : d.from = "send"
      /\ growing' <=> \E d \in calls \ {c} : d.from = "grow"
  BY DEF PageInv, OwnersInv, Tame
<1>3. Tame(calls)' /\ OwnersInv'
  BY <1>1, <1>2, OwnersKept
<1>4. RailInv' /\ PollInv' /\ DraftInv'
  BY <1>1, RailKept, PollKept, DraftKept DEF draftVars
<1> QED
  BY <1>3, <1>4 DEF PageInv

\* A call has ended and another goes on for it, with the guard it held.
LEMMA GoesOn ==
    ASSUME PageInv, NEW c \in calls, NEW old, Aged(old, calls \ {c}),
           NEW new, IsCall(new), calls' = old \cup {new},
           new.from = c.from \/ {new.from, c.from} \cap {"send", "grow"} = {},
           UNCHANGED <<sending, growing>>,
           asked' = asked \/ \A d \in old : d.op = "search" => ~ d.rail,
           new.op = "search" /\ new.from # "grow" /\ new.rail => new.query = asked',
           selected' = selected \/ \A d \in old : IsPoll(d) => ~ d.live,
           new.op # "poll"
    PROVE  /\ Tame(calls)' /\ OwnersInv' /\ RailInv' /\ PollInv'
           /\ Turn(calls \ {c}, old, {new})
<1>1. Turn(calls \ {c}, old, {new})
  BY DEF Turn
<1>2. /\ \A d \in calls \ {c} : new.from = d.from => d.from \notin {"send", "grow"}
      /\ sending' <=> \E d \in (calls \ {c}) \cup {new} : d.from = "send"
      /\ growing' <=> \E d \in (calls \ {c}) \cup {new} : d.from = "grow"
  BY DEF PageInv, OwnersInv, Tame
<1>3. Tame(calls)' /\ OwnersInv'
  BY <1>1, <1>2, OwnersKept DEF PageInv, OwnersInv
<1> QED
  BY <1>1, <1>3, RailKept, PollKept

LEMMA SearchStep == ASSUME PageInv, NEW c \in calls, SearchArrives(c) PROVE PageInv'
<1> DEFINE rest == calls \ {c}
<1>1. Tame(rest) /\ IsCall(c) /\ c.op = "search"
  BY TameRest DEF SearchArrives
<1>2. UNCHANGED <<asked, draftVars>>
  BY DEF SearchArrives
<1>3. CASE /\ calls' = rest \/ calls' = NewSession(rest)
           /\ Settle(c) /\ selected' = selected
  <2>1. Aged(calls', rest)
    BY <1>1, <1>3, AgedSame, NewSessionAges
  <2>2. sending' = (sending /\ c.from # "send") /\ growing' = (growing /\ c.from # "grow")
    BY <1>3 DEF Settle
  <2> QED
    BY <1>1, <1>2, <1>3, <2>1, <2>2, EndStep
<1>4. ASSUME c.from # "grow", NEW i, Select(i), Unsettled,
             calls' = Stopped(NewSession(rest), i)
                        \cup {[Read("open", c.from, i) EXCEPT !.live = c.live]}
      PROVE  PageInv'
  <2> DEFINE old == Stopped(NewSession(rest), i)
             new == [Read("open", c.from, i) EXCEPT !.live = c.live]
  <2>1. IsCall(new) /\ new.op = "open" /\ new.from = c.from
    BY <1>1, <1>4 DEF Read, Call, CallFields, IsCall, IsPoll, Writes
  <2>2. Aged(old, rest) /\ (i # selected => \A d \in old : IsPoll(d) => ~ d.live)
    BY <1>1, SelectAges
  <2>3. calls' = old \cup {new} /\ selected' = i /\ UNCHANGED <<sending, growing>>
    BY <1>4 DEF Select, Unsettled
  <2> HIDE DEF old, new
  <2>4. /\ Tame(calls)' /\ OwnersInv' /\ RailInv' /\ PollInv'
        /\ Turn(rest, old, {new})
    BY <1>2, <2>1, <2>2, <2>3, GoesOn
  <2>5. DraftInv'
    BY <1>1, <1>2, <2>1, <2>4, DraftKept DEF draftVars
  <2> QED
    BY <2>4, <2>5 DEF PageInv
<1> QED
  BY <1>3, <1>4 DEF SearchArrives

LEMMA OthersStep ==
    ASSUME PageInv, NEW c \in calls, ReadArrives(c) \/ CancelArrives(c) \/ PollRailArrives(c)
    PROVE  PageInv'
<1>1. IsCall(c) /\ Aged(calls \ {c}, calls \ {c})
  BY TameRest, AgedSame
<1>2. c.op # "send" /\ calls' = calls \ {c} /\ UNCHANGED <<asked, selected, draftVars>>
  BY DEF ReadArrives, CancelArrives, PollRailArrives
<1>3. sending' = (sending /\ c.from # "send") /\ growing' = (growing /\ c.from # "grow")
  <2>1. CASE Settle(c)
    BY <2>1 DEF Settle
  <2>2. CASE PollRailArrives(c)
    BY <1>1, <2>2 DEF PollRailArrives, Unsettled, IsCall, IsPoll, PageInv, OwnersInv
  <2> QED
    BY <2>1, <2>2 DEF ReadArrives, CancelArrives
<1> QED
  BY <1>1, <1>2, <1>3, EndStep

LEMMA PollStep == ASSUME PageInv, NEW c \in calls, PollArrives(c) PROVE PageInv'
<1>1. IsCall(c) /\ Aged(calls \ {c}, calls \ {c})
  BY TameRest, AgedSame
<1>2. /\ c.op = "poll" /\ c.from = "poll"
      /\ UNCHANGED <<asked, selected, draftVars, sending, growing>>
  BY <1>1 DEF PollArrives, Unsettled, IsCall, IsPoll
<1>3. CASE calls' = calls \ {c}
  BY <1>1, <1>2, <1>3, EndStep DEF PageInv, OwnersInv
<1>4. CASE calls' = (calls \ {c}) \cup {Call("pollRail", "poll", None, query, 1)}
  <2> DEFINE new == Call("pollRail", "poll", None, query, 1)
  <2>1. IsCall(new) /\ new.op = "pollRail" /\ new.from = "poll"
    BY DEF Call, CallFields, IsCall, IsPoll, Writes
  <2> HIDE DEF new
  <2>2. calls' = (calls \ {c}) \cup {new}
    BY <1>4 DEF new
  <2>3. /\ Tame(calls)' /\ OwnersInv' /\ RailInv' /\ PollInv'
        /\ Turn(calls \ {c}, calls \ {c}, {new})
    BY <1>1, <1>2, <2>1, <2>2, GoesOn
  <2>4. DraftInv'
    BY <1>2, <2>1, <2>3, DraftKept DEF draftVars
  <2> QED
    BY <2>3, <2>4 DEF PageInv
<1> QED
  BY <1>3, <1>4 DEF PollArrives

\* Searches and reads before a message or an archive are outdated.
LEMMA ReplaceAges ==
    ASSUME NEW S, Tame(S), NEW id
    PROVE  /\ Aged(Stopped(NewRail(S), id), S)
           /\ \A c \in Stopped(NewRail(S), id) : c.op = "search" => ~ c.rail
           /\ id # selected => \A c \in Stopped(NewRail(S), id) : IsPoll(c) => ~ c.live
<1>1. /\ Aged(NewRail(S), S) /\ Tame(NewRail(S))
      /\ \A c \in NewRail(S) : c.op = "search" => ~ c.rail
  BY NewRailAges DEF Aged
<1>2. /\ Aged(Stopped(NewRail(S), id), NewRail(S))
      /\ id # selected => \A c \in Stopped(NewRail(S), id) : IsPoll(c) => ~ c.live
  BY <1>1, StoppedAges
<1>3. ASSUME NEW c \in Stopped(NewRail(S), id), c.op = "search"
      PROVE  ~ c.rail
  <2>1. PICK d \in NewRail(S) : Older(c, d)
    BY <1>2 DEF Aged
  <2> QED
    BY <1>1, <1>3, <2>1 DEF Older
<1> QED
  BY <1>1, <1>2, <1>3, AgedTwice

\* The message that was sent, and the archive, start the search of the list.
LEMMA ReplaceStep ==
    ASSUME PageInv, NEW c \in calls, NEW i, NEW from \in {"send", "archive"},
           c.op \in Writes, c.from = from, Select(i), asked' = c.query,
           calls' = Stopped(NewRail(calls \ {c}), i) \cup {Search(from, c.query, 1)},
           UNCHANGED <<sending, growing>>
    PROVE  /\ Tame(calls)' /\ OwnersInv' /\ RailInv' /\ PollInv'
           /\ \E old, new : Turn(calls \ {c}, old, {new}) /\ new.op = "search"
<1> DEFINE old == Stopped(NewRail(calls \ {c}), i)
           new == Search(from, c.query, 1)
<1>1. IsCall(new) /\ new.op = "search" /\ new.from = from /\ new.query = c.query
  BY DEF Search, Call, CallFields, IsCall, IsPoll, Writes
<1>2. /\ Aged(old, calls \ {c})
      /\ \A d \in old : d.op = "search" => ~ d.rail
      /\ i # selected => \A d \in old : IsPoll(d) => ~ d.live
  BY TameRest, ReplaceAges
<1>3. selected' = i /\ calls' = old \cup {new}
  BY DEF Select
<1> HIDE DEF old, new
<1>4. /\ Tame(calls)' /\ OwnersInv' /\ RailInv' /\ PollInv'
      /\ Turn(calls \ {c}, old, {new})
  BY <1>1, <1>2, <1>3, GoesOn
<1> QED
  BY <1>1, <1>4

LEMMA ArchiveStep == ASSUME PageInv, NEW c \in calls, ArchiveArrives(c) PROVE PageInv'
<1>1. c.op \in {"archive", "restore"} /\ c.from = "archive"
  BY TameRest DEF ArchiveArrives, IsCall
<1>2. UNCHANGED <<sending, growing, question, typed, sends>>
  BY DEF ArchiveArrives, Unsettled, draftVars
<1>3. /\ Tame(calls)' /\ OwnersInv' /\ RailInv' /\ PollInv'
      /\ \E old, new : Turn(calls \ {c}, old, {new}) /\ new.op = "search"
  BY <1>1, <1>2, ReplaceStep DEF ArchiveArrives, Writes
<1>4. DraftInv'
  BY <1>1, <1>2, <1>3, DraftKept
<1> QED
  BY <1>3, <1>4 DEF PageInv

\* A submission that came through leaves the composer empty.
LEMMA SentStep == ASSUME PageInv, NEW c \in calls, SendArrives(c) PROVE PageInv'
<1>1. c.op = "send" /\ c.from = "send"
  BY TameRest DEF SendArrives, IsCall
<1>2. UNCHANGED <<sending, growing, typed, sends>> /\ question' = 0
  BY DEF SendArrives
<1>3. /\ Tame(calls)' /\ OwnersInv' /\ RailInv' /\ PollInv'
      /\ \E old, new : Turn(calls \ {c}, old, {new}) /\ new.op = "search"
  BY <1>1, <1>2, ReplaceStep DEF SendArrives, Writes
<1>4. \A d \in calls' : d.op # "send"
  <2>1. PICK old, new : Turn(calls \ {c}, old, {new}) /\ new.op = "search"
    BY <1>3
  <2>2. \A d \in calls \ {c} : d.op # "send"
    BY <1>1 DEF PageInv, Tame, IsCall
  <2> QED
    BY <2>1, <2>2 DEF Turn, Aged, Older
<1>5. DraftInv'
  BY <1>2, <1>4, WorkbenchAssumption DEF PageInv, DraftInv
<1> QED
  BY <1>3, <1>5 DEF PageInv

\* One that failed may be submitted again: it counts no more.
LEMMA FailStep == ASSUME PageInv, NEW c \in calls, Fail(c) PROVE PageInv'
<1>1. IsCall(c) /\ Aged(calls \ {c}, calls \ {c})
  BY TameRest, AgedSame
<1>2. /\ calls' = calls \ {c} /\ UNCHANGED <<asked, selected, question, typed>>
      /\ sending' = (sending /\ c.from # "send") /\ growing' = (growing /\ c.from # "grow")
  BY DEF Fail, Settle
<1>3. CASE c.op # "send"
  BY <1>1, <1>2, <1>3, EndStep DEF Fail, draftVars
<1>4. CASE c.op = "send"
  <2>1. Turn(calls \ {c}, calls', {})
    BY <1>1, <1>2 DEF Turn
  <2>2. /\ sending' \in BOOLEAN /\ growing' \in BOOLEAN
        /\ sending' <=> \E d \in calls \ {c} : d.from = "send"
        /\ growing' <=> \E d \in calls \ {c} : d.from = "grow"
    BY <1>2 DEF PageInv, OwnersInv, Tame
  <2>3. Tame(calls)' /\ OwnersInv'
    BY <2>1, <2>2, OwnersKept
  <2>4. RailInv' /\ PollInv'
    BY <1>2, <2>1, RailKept, PollKept
  <2>5. c.draft \in Drafts /\ c.from = "send" /\ sends[c.draft] = 1
    BY <1>1, <1>4 DEF IsCall, PageInv, DraftInv
  <2>6. sends' = [sends EXCEPT ![c.draft] = 0]
    BY <1>4, <2>5 DEF Fail
  <2>7. \A d \in calls' : d.op # "send"
    BY <1>2, <2>5 DEF PageInv, Tame, IsCall
  <2>8. DraftInv'
    <3>1. question # 0 /\ sends[question] = 1 => question = c.draft
      BY <1>2, <2>7 DEF PageInv, DraftInv
    <3> QED
      BY <1>2, <2>5, <2>6, <2>7, <3>1, WorkbenchAssumption DEF PageInv, DraftInv, Drafts
  <2> QED
    BY <2>3, <2>4, <2>8 DEF PageInv
<1> QED
  BY <1>3, <1>4

LEMMA PageInit == ASSUME Init PROVE PageInv
<1>1. /\ \A c \in calls : IsCall(c) /\ c.op = "choose" /\ c.from = "initial"
      /\ \A c, d \in calls : c = d
  <2>1. ASSUME NEW i
        PROVE  LET c == Read("choose", "initial", i) IN
               IsCall(c) /\ c.op = "choose" /\ c.from = "initial"
    BY DEF Read, Call, CallFields, IsCall, IsPoll, Writes
  <2>2. calls = {} \/ calls = {Read("choose", "initial", selected)}
    BY DEF Init
  <2> HIDE DEF IsCall
  <2> QED
    BY <2>1, <2>2
<1>2. Tame(calls) /\ RailInv /\ PollInv
  BY <1>1 DEF Tame, RailInv, PollInv
<1>3. OwnersInv
  BY <1>1 DEF Init, OwnersInv
<1>4. DraftInv
  <2>1. typed = 0 /\ question = 0 /\ sends = [d \in Drafts |-> 0]
    BY DEF Init
  <2>2. typed \in 0..MaxDrafts /\ question \in 0..typed
    BY <2>1, WorkbenchAssumption
  <2> QED
    BY <1>1, <2>1, <2>2 DEF DraftInv
<1> QED
  BY <1>2, <1>3, <1>4 DEF PageInv

LEMMA PageStep == ASSUME PageInv, [Next]_vars PROVE PageInv'
<1>1. CASE UserStep
  BY <1>1, TypeQueryStep, ChooseStep, QueryStep, GrowStep, FreshStep, SendStep, ReadStep
     DEF UserStep
<1>2. CASE QueryEffect \/ Poll \/ TypeQuestion \/ \E i \in Ids : RunEnds(i)
  BY <1>2, QueryStep, ReadStep, TypeQuestionStep, RunEndsStep
<1>3. ASSUME NEW c \in calls, Progress(c) PROVE PageInv'
  <2>1. CASE Arrive(c)
    BY <2>1, SearchStep, OthersStep, PollStep, SentStep, ArchiveStep DEF Arrive
  <2> QED
    BY <1>3, <2>1, CarryOutStep, FailStep DEF Progress
<1>4. CASE UNCHANGED vars
  <2>1. UNCHANGED <<calls, asked, selected, sending, growing, question, typed, sends>>
    BY <1>4 DEF vars, draftVars
  <2>2. Aged(calls', calls)
    BY <2>1, AgedSame DEF PageInv
  <2> QED
    BY <2>1, <2>2, AgeStep
<1> QED
  BY <1>1, <1>2, <1>3, <1>4 DEF Next

LEMMA AlwaysPageInv == Spec => []PageInv
<1>1. Init => PageInv
  BY PageInit
<1>2. PageInv /\ [Next]_vars => PageInv'
  BY PageStep
<1> QED
  BY <1>1, <1>2, PTL DEF Spec

-----------------------------------------------------------------------------
(* What the page promises. *)

\* No draft is submitted twice, unless its submission failed (send).
THEOREM SentOnce == Spec => []DraftSentOnce
<1>1. PageInv => DraftSentOnce
  BY DEF PageInv, DraftInv, DraftSentOnce
<1> QED
  BY <1>1, AlwaysPageInv, PTL

\* The guard against a second submission, and that of the next page, is never
\* left up with nothing under way that would take it down.
THEOREM GuardsAreHeld ==
    Spec => [](/\ sending => \E c \in calls : c.from = "send"
               /\ growing => \E c \in calls : c.from = "grow")
<1>1. PageInv => /\ sending => \E c \in calls : c.from = "send"
                 /\ growing => \E c \in calls : c.from = "grow"
  BY DEF PageInv, OwnersInv
<1> QED
  BY <1>1, AlwaysPageInv, PTL

\* The list never goes back to the rows of a search that was overtaken.
THEOREM SearchesKeepOrder == Spec => SearchesInOrder
<1>1. PageInv /\ [Next]_vars => [railQuery' # railQuery => railQuery' = asked]_vars
  <2> SUFFICES ASSUME PageInv, [Next]_vars, railQuery' # railQuery
               PROVE  railQuery' = asked
    OBVIOUS
  <2>1. PICK c \in calls : SearchArrives(c)
    BY DEF Next, UserStep, Progress, vars, railVars, TypeQuery, choose, Reload, growSessions,
           fresh, send, cancel, toggleArchive, QueryEffect, Poll, TypeQuestion, RunEnds,
           CarryOut, Arrive, Fail, ReadArrives, PollArrives, PollRailArrives, SendArrives,
           CancelArrives, ArchiveArrives
  <2>2. c.op = "search" /\ c.rail /\ c.from # "grow" /\ railQuery' = c.query
    BY <2>1 DEF SearchArrives, ShowPage, IsNewestRail, railVars
  <2> QED
    BY <2>2 DEF PageInv, RailInv
<1> QED
  BY <1>1, AlwaysPageInv, PTL DEF Spec, SearchesInOrder

\* What a load, a click or a poll has read is shown only while it is selected.
THEOREM ReadsKeepSelection == Spec => ReadsMatchSelection
<1>1. PageInv /\ [Next]_vars =>
        [(\E c \in calls : c.op \in {"open", "choose", "poll"} /\ c \notin calls')
           /\ session' # session /\ session' # None
           /\ (\A c \in calls : c.op \in {"send", "cancel"} => c \in calls')
         => session'.id = selected']_vars
  <2> SUFFICES ASSUME PageInv, [Next]_vars, session' # session, session' # None,
                      \A c \in calls : c.op \in {"send", "cancel"} => c \in calls'
               PROVE  session'.id = selected'
    OBVIOUS
  <2>1. PICK c \in calls : ReadArrives(c) \/ PollArrives(c) \/ SendArrives(c) \/ CancelArrives(c)
    BY DEF Next, UserStep, Progress, vars, TypeQuery, choose, Reload, growSessions,
           fresh, send, cancel, toggleArchive, QueryEffect, Poll, TypeQuestion, RunEnds,
           CarryOut, Arrive, Fail, SearchArrives, PollRailArrives, ArchiveArrives
  <2>2. CASE ReadArrives(c)
    BY <2>2 DEF ReadArrives, IsNewestRead, View
  <2>3. CASE PollArrives(c)
    BY <2>3 DEF PollArrives, View, PageInv, PollInv
  <2>4. CASE CancelArrives(c)
    BY <2>4 DEF CancelArrives
  <2>5. CASE SendArrives(c)
    BY <2>5 DEF SendArrives, Select
  <2> QED
    BY <2>1, <2>2, <2>3, <2>4, <2>5
<1> QED
  BY <1>1, AlwaysPageInv, PTL DEF Spec, ReadsMatchSelection

-----------------------------------------------------------------------------
(* The poll. *)

IsLivePoll(c) == IsPoll(c) /\ c.live

\* While a conversation is selected, the timer runs or a poll is under way.
PollGoesOn == selected # None => armed \/ \E c \in calls : IsLivePoll(c)

LivesOn(cs, S) == (\E d \in S : IsLivePoll(d)) => \E c \in cs : IsLivePoll(c)

\* A generation stops no poll.
LEMMA GenerationsLetPoll ==
    ASSUME NEW S, \A d \in S : IsCall(d)
    PROVE  LivesOn(NewRail(S), S) /\ LivesOn(NewSession(S), S)
<1>1. ASSUME NEW d \in S, IsLivePoll(d)
      PROVE  /\ IsLivePoll([d EXCEPT !.rail = FALSE])
             /\ d.op \notin {"open", "choose"}
  BY <1>1 DEF IsCall, CallFields, IsLivePoll, IsPoll
<1>2. ASSUME NEW d \in S, IsLivePoll(d)
      PROVE  \E c \in NewRail(S) : IsLivePoll(c)
  <2>1. CASE d.op \in {"search", "pollRail"}
    <3>1. [d EXCEPT !.rail = FALSE] \in NewRail(S)
      BY <2>1 DEF NewRail
    <3> QED
      BY <1>1, <1>2, <3>1
  <2>2. CASE d.op \notin {"search", "pollRail"}
    <3>1. d \in NewRail(S)
      BY <2>2 DEF NewRail
    <3> QED
      BY <1>2, <3>1
  <2> QED
    BY <2>1, <2>2
<1>3. ASSUME NEW d \in S, IsLivePoll(d)
      PROVE  d \in NewSession(S)
  BY <1>1, <1>3 DEF NewSession
<1> QED
  BY <1>2, <1>3 DEF LivesOn

\* A step that stays on the conversation keeps its poll ...
LEMMA StillPolled ==
    ASSUME PollGoesOn, LivesOn(calls', calls), selected' = selected, armed => armed'
    PROVE  PollGoesOn'
<1>1. (\E c \in calls : IsLivePoll(c)) => \E c \in calls' : IsLivePoll(c)
  BY DEF LivesOn
<1> QED
  BY <1>1 DEF PollGoesOn, IsLivePoll, IsPoll

\* ... and one that moves to another starts its timer.
LEMMA PolledAnew ==
    ASSUME PollGoesOn, NEW id, Select(id), NEW cs, LivesOn(cs, calls),
           Stopped(cs, id) \subseteq calls'
    PROVE  PollGoesOn'
<1>1. CASE id = selected
  <2>1. selected' = selected /\ armed' = armed /\ cs \subseteq calls'
    BY <1>1 DEF Select, Stopped
  <2>2. LivesOn(calls', calls)
    BY <2>1 DEF LivesOn
  <2> QED
    BY <2>1, <2>2, StillPolled
<1>2. CASE id # selected
  BY <1>2 DEF Select, PollGoesOn
<1> QED
  BY <1>1, <1>2

LEMMA UserLetsPoll ==
    ASSUME PageInv, PollGoesOn,
           \/ \E q \in Queries : TypeQuery(q)
           \/ \E i \in Ids : choose(i) \/ RunEnds(i)
           \/ Reload \/ growSessions \/ fresh \/ send \/ cancel \/ toggleArchive
           \/ QueryEffect \/ Poll \/ TypeQuestion
    PROVE  PollGoesOn'
<1>1. /\ LivesOn(NewRail(calls), calls) /\ LivesOn(NewSession(calls), calls)
      /\ \A c \in calls : IsCall(c)
  BY GenerationsLetPoll DEF PageInv, Tame
<1>2. ASSUME NEW i \in Ids, choose(i) PROVE PollGoesOn'
  <2>1. Select(i) /\ Stopped(NewSession(calls), i) \subseteq calls'
    BY <1>2 DEF choose
  <2> QED
    BY <1>1, <2>1, PolledAnew
<1>3. CASE fresh
  <2>1. Select(None) /\ Stopped(NewSession(calls), None) \subseteq calls'
    BY <1>3 DEF fresh
  <2> QED
    BY <1>1, <2>1, PolledAnew
<1>4. CASE Poll
  <2>1. /\ Read("poll", "poll", selected) \in calls'
        /\ IsLivePoll(Read("poll", "poll", selected))
    BY <1>4 DEF Poll, Read, Call, IsLivePoll, IsPoll
  <2> QED
    BY <2>1 DEF PollGoesOn, IsLivePoll, IsPoll
<1>5. ASSUME NEW q \in Queries, TypeQuery(q) PROVE PollGoesOn'
  <2>1. \A d \in calls : IsLivePoll(d) => d \in calls'
    BY <1>1, <1>5 DEF TypeQuery, IsLivePoll, IsCall
  <2> QED
    BY <1>5, <2>1, StillPolled DEF TypeQuery, LivesOn
<1>6. CASE QueryEffect \/ Reload
  <2>1. NewRail(calls) \subseteq calls' /\ UNCHANGED <<selected, armed>>
    BY <1>6 DEF QueryEffect, Reload
  <2> QED
    BY <1>1, <2>1, StillPolled DEF LivesOn
<1>7. CASE \/ growSessions \/ send \/ cancel \/ toggleArchive \/ TypeQuestion
           \/ \E i \in Ids : RunEnds(i)
  <2>1. calls \subseteq calls' /\ UNCHANGED <<selected, armed>>
    BY <1>7 DEF growSessions, send, cancel, toggleArchive, TypeQuestion, RunEnds
  <2> QED
    BY <2>1, StillPolled DEF LivesOn
<1> QED
  BY <1>2, <1>3, <1>4, <1>5, <1>6, <1>7

\* A poll that comes back or fails starts the timer, unless it was stopped.
LEMMA AnswersLetPoll ==
    ASSUME PageInv, PollGoesOn, NEW c \in calls, CarryOut(c) \/ Arrive(c) \/ Fail(c)
    PROVE  PollGoesOn'
<1> DEFINE rest == calls \ {c}
<1>1. IsCall(c) /\ \A d \in rest : IsCall(d)
  BY DEF PageInv, Tame
<1>2. LivesOn(NewRail(rest), rest) /\ LivesOn(NewSession(rest), rest)
  BY <1>1, GenerationsLetPoll
<1>3. ~ IsLivePoll(c) => LivesOn(rest, calls) /\ LivesOn(NewRail(rest), calls)
                           /\ LivesOn(NewSession(rest), calls)
  BY <1>2 DEF LivesOn
<1> HIDE DEF rest
<1>4. CASE CarryOut(c)
  <2>1. rest \subseteq calls' /\ ~ IsLivePoll(c) /\ UNCHANGED <<selected, armed>>
    BY <1>4 DEF CarryOut, Writes, IsLivePoll, IsPoll, rest
  <2> QED
    BY <1>3, <2>1, StillPolled DEF LivesOn
<1>5. CASE Fail(c) \/ PollRailArrives(c)
  <2>1. calls' = rest /\ selected' = selected /\ armed' = (armed \/ IsLivePoll(c))
    BY <1>5 DEF Fail, PollRailArrives, IsLivePoll, IsPoll, rest
  <2> QED
    BY <1>3, <2>1, StillPolled DEF PollGoesOn
<1>6. CASE PollArrives(c)
  <2>1. CASE c.live
    <3>1. Call("pollRail", "poll", None, query, 1) \in calls'
      BY <1>6, <2>1 DEF PollArrives
    <3>2. IsLivePoll(Call("pollRail", "poll", None, query, 1))
      BY DEF Call, IsLivePoll, IsPoll
    <3> QED
      BY <3>1, <3>2 DEF PollGoesOn, IsLivePoll, IsPoll
  <2>2. CASE ~ c.live
    BY <1>3, <1>6, <2>2, StillPolled DEF PollArrives, IsLivePoll, rest
  <2> QED
    BY <2>1, <2>2
<1>7. CASE ReadArrives(c) \/ CancelArrives(c)
  <2>1. calls' = rest /\ ~ IsLivePoll(c) /\ UNCHANGED <<selected, armed>>
    BY <1>7 DEF ReadArrives, CancelArrives, IsLivePoll, IsPoll, rest
  <2> QED
    BY <1>3, <2>1, StillPolled
<1>8. CASE SendArrives(c) \/ ArchiveArrives(c)
  <2>1. ~ IsLivePoll(c)
    BY <1>8 DEF SendArrives, ArchiveArrives, IsLivePoll, IsPoll
  <2>2. \E id : Select(id) /\ Stopped(NewRail(rest), id) \subseteq calls'
    BY <1>8 DEF SendArrives, ArchiveArrives, rest
  <2> QED
    BY <1>3, <2>1, <2>2, PolledAnew
<1>9. CASE SearchArrives(c)
  <2>1. ~ IsLivePoll(c)
    BY <1>9 DEF SearchArrives, IsLivePoll, IsPoll
  <2>2. CASE Select(Target(c)) /\ Stopped(NewSession(rest), Target(c)) \subseteq calls'
    BY <1>3, <2>1, <2>2, PolledAnew
  <2>3. CASE UNCHANGED <<selected, armed>> /\ calls' \in {rest, NewSession(rest)}
    BY <1>3, <2>1, <2>3, StillPolled
  <2> QED
    BY <1>9, <2>2, <2>3 DEF SearchArrives, rest
<1> QED
  BY <1>4, <1>5, <1>6, <1>7, <1>8, <1>9 DEF Arrive

\* The page never stops reading the conversation it is on: no answer, failure
\* or move leaves it without a timer or a poll that will start one. What
\* SelectionIsShown rests on (the poll's effect).
THEOREM PollingNeverEnds == Spec => []PollGoesOn
<1>1. Init => PollGoesOn
  BY DEF Init, PollGoesOn
<1>2. PageInv /\ PollGoesOn /\ [Next]_vars => PollGoesOn'
  <2> SUFFICES ASSUME PageInv, PollGoesOn, [Next]_vars PROVE PollGoesOn'
    OBVIOUS
  <2>1. CASE UNCHANGED vars
    BY <2>1 DEF vars, PollGoesOn, IsLivePoll, IsPoll
  <2> QED
    BY <2>1, UserLetsPoll, AnswersLetPoll DEF Next, UserStep, Progress
<1> QED
  BY <1>1, <1>2, AlwaysPageInv, PTL DEF Spec

-----------------------------------------------------------------------------
(* The rows of a list: what is kept of it, a part of it, two joined. *)

Rank(T, n) == Cardinality({m \in T : m =< n})

\* The members of a set of positions have the ranks 1 to their number, each one
\* its own.
LEMMA Ranks ==
    ASSUME NEW T \in SUBSET Nat, IsFiniteSet(T)
    PROVE  /\ Cardinality(T) \in Nat
           /\ \A k \in 1..Cardinality(T) : \E n \in T : Rank(T, n) = k
           /\ \A n, m \in T : Rank(T, n) = Rank(T, m) => n = m
<1> DEFINE upTo(n) == {m \in T : m =< n}
           rank == [n \in T |-> Rank(T, n)]
<1>1. ASSUME NEW n \in T
      PROVE  /\ IsFiniteSet(upTo(n)) /\ n \in upTo(n) /\ upTo(n) # {}
             /\ Cardinality(upTo(n)) \in 1..Cardinality(T)
  <2>1. upTo(n) \in SUBSET T /\ n \in upTo(n)
    OBVIOUS
  <2>2. IsFiniteSet(upTo(n)) /\ Cardinality(upTo(n)) =< Cardinality(T)
    BY <2>1, FS_Subset
  <2>3. Cardinality(upTo(n)) \in Nat /\ Cardinality(upTo(n)) # 0 /\ Cardinality(T) \in Nat
    BY <2>1, <2>2, FS_CardinalityType, FS_EmptySet
  <2> QED
    BY <2>1, <2>2, <2>3
<1>2. ASSUME NEW n \in T, NEW m \in T, Rank(T, n) = Rank(T, m), n < m
      PROVE  FALSE
  <2>1. upTo(n) \in SUBSET upTo(m) /\ m \in upTo(m) /\ m \notin upTo(n)
    <3>1. n \in Nat /\ m \in Nat /\ n < m
      BY <1>2
    <3>2. \A k \in T : k =< n => k =< m
      BY <3>1
    <3>3. upTo(n) \in SUBSET upTo(m)
      BY <3>2
    <3>4. m \in upTo(m)
      BY <3>1
    <3>5. m \notin upTo(n)
      BY <3>1
    <3> QED
      BY <3>3, <3>4, <3>5
  <2>2. upTo(m) = upTo(n)
    <3>1. IsFiniteSet(upTo(m)) /\ Cardinality(upTo(m)) = Cardinality(upTo(n))
      BY <1>1, <1>2 DEF Rank
    <3> HIDE DEF upTo
    <3> QED
      BY <2>1, <3>1, FS_Subset
  <2> QED
    BY <2>1, <2>2
<1>3. \A n, m \in T : Rank(T, n) = Rank(T, m) => n = m
  BY <1>2
<1>4. rank \in Injection(T, 1..Cardinality(T))
  BY <1>1, <1>3 DEF Rank, Injection, IsInjective
<1>5. Cardinality(T) \in Nat /\ IsFiniteSet(1..Cardinality(T))
      /\ Cardinality(1..Cardinality(T)) = Cardinality(T)
  BY FS_CardinalityType, FS_Interval
<1>6. rank \in Surjection(T, 1..Cardinality(T))
  BY <1>4, <1>5, FS_Injection
<1>7. ASSUME NEW k \in 1..Cardinality(T) PROVE \E n \in T : Rank(T, n) = k
  BY <1>6 DEF Surjection
<1> QED
  BY <1>3, <1>5, <1>7

\* What is kept of a list is a list of what was asked for, no row twice.
LEMMA KeptRows ==
    ASSUME NEW s \in Seq(Ids), NEW S
    PROVE  /\ Kept(s, S) \in Seq(Ids)
           /\ ToSet(Kept(s, S)) \subseteq S
           /\ IsInjective(s) => IsInjective(Kept(s, S))
<1> DEFINE at == {n \in DOMAIN s : s[n] \in S}
           place(k) == CHOOSE n \in at : Cardinality({m \in at : m =< n}) = k
<1>1. at \in SUBSET Nat /\ IsFiniteSet(at)
  <2>1. Len(s) \in Nat /\ DOMAIN s = 1..Len(s)
    OBVIOUS
  <2>2. IsFiniteSet(1..Len(s))
    BY <2>1, FS_Interval
  <2>3. at \in SUBSET (1..Len(s))
    BY <2>1
  <2> QED
    BY <2>2, <2>3, FS_Subset
<1>2. ASSUME NEW k \in 1..Cardinality(at)
      PROVE  place(k) \in at /\ Rank(at, place(k)) = k
  <2> HIDE DEF at
  <2>1. \E n \in at : Rank(at, n) = k
    BY <1>1, Ranks
  <2> QED
    BY <2>1 DEF Rank
<1>3. Cardinality(at) \in Nat
  BY <1>1, FS_CardinalityType
<1>4. Kept(s, S) = [k \in 1..Cardinality(at) |-> s[place(k)]]
  BY DEF Kept
<1>5. \A k \in 1..Cardinality(at) : s[place(k)] \in Ids /\ s[place(k)] \in S
  <2> HIDE DEF place
  <2> QED
    BY <1>2
<1>6. ASSUME IsInjective(s), NEW j \in 1..Cardinality(at), NEW k \in 1..Cardinality(at),
             s[place(j)] = s[place(k)]
      PROVE  j = k
  <2>1. place(j) = place(k)
    <3>1. place(j) \in DOMAIN s /\ place(k) \in DOMAIN s
      BY <1>2
    <3> HIDE DEF place, at
    <3> QED
      BY <1>6, <3>1 DEF IsInjective
  <2> HIDE DEF place, at
  <2> QED
    BY <1>2, <2>1
<1> HIDE DEF place, at
<1>7. Kept(s, S) \in Seq(Ids)
  BY <1>3, <1>4, <1>5
<1> QED
  BY <1>4, <1>5, <1>6, <1>7 DEF ToSet, IsInjective

\* A part of a list without double rows is one.
LEMMA PartOfRows ==
    ASSUME NEW s \in Seq(Ids), IsInjective(s), NEW from \in Nat \ {0}, NEW to \in Nat,
           to =< Len(s)
    PROVE  SubSeq(s, from, to) \in Seq(Ids) /\ IsInjective(SubSeq(s, from, to))
<1>1. SubSeq(s, from, to) \in Seq(Ids)
  OBVIOUS
<1>2. \A k \in DOMAIN SubSeq(s, from, to) :
        from + k - 1 \in DOMAIN s /\ SubSeq(s, from, to)[k] = s[from + k - 1]
  OBVIOUS
<1> DEFINE part == SubSeq(s, from, to)
<1>3. DOMAIN part \subseteq Nat
  BY <1>1
<1> HIDE DEF part
<1>4. ASSUME NEW j \in DOMAIN part, NEW k \in DOMAIN part, part[j] = part[k]
      PROVE  j = k
  <2>1. from + j - 1 = from + k - 1
    BY <1>2, <1>4 DEF part, IsInjective
  <2> QED
    BY <1>3, <2>1
<1>5. IsInjective(part)
  BY <1>4 DEF IsInjective
<1> QED
  BY <1>1, <1>5 DEF part

\* Two lists that share no row are one list without double rows.
LEMMA JoinedRows ==
    ASSUME NEW s \in Seq(Ids), NEW t \in Seq(Ids), IsInjective(s), IsInjective(t),
           ToSet(s) \cap ToSet(t) = {}
    PROVE  s \o t \in Seq(Ids) /\ IsInjective(s \o t)
<1>1. s \o t \in Seq(Ids) /\ DOMAIN (s \o t) = 1..(Len(s) + Len(t))
  OBVIOUS
<1>2. ASSUME NEW k \in 1..(Len(s) + Len(t))
      PROVE  (s \o t)[k] = IF k =< Len(s) THEN s[k] ELSE t[k - Len(s)]
  OBVIOUS
<1>3. ASSUME NEW j \in 1..(Len(s) + Len(t)), NEW k \in 1..(Len(s) + Len(t)),
             (s \o t)[j] = (s \o t)[k]
      PROVE  j = k
  <2>1. \A m \in 1..(Len(s) + Len(t)) :
          IF m =< Len(s) THEN m \in DOMAIN s ELSE m - Len(s) \in DOMAIN t
    OBVIOUS
  <2>2. (j =< Len(s)) <=> (k =< Len(s))
    BY <1>2, <1>3, <2>1 DEF ToSet
  <2> QED
    BY <1>2, <1>3, <2>1, <2>2 DEF IsInjective
<1> QED
  BY <1>1, <1>3 DEF IsInjective

-----------------------------------------------------------------------------
(* The types of the page's state. *)

\* A call asks for a conversation where it needs one.
IsTyped(c) ==
    /\ c.query \in Queries
    /\ c.page \in Nat \ {0}
    /\ c.id \in Ids \cup {None}
    /\ c.op \in {"open", "choose", "poll", "cancel", "archive", "restore"} => c.id \in Ids
    /\ c.reply \in Views \cup {None}

\* At most n calls, of the right types.
Sized(cs, n) ==
    /\ IsFiniteSet(cs) /\ Cardinality(cs) =< n
    /\ \A c \in cs : IsTyped(c)

StateTypes ==
    /\ server \in [Ids -> [made : BOOLEAN, archived : BOOLEAN, active : BOOLEAN]]
    /\ rail \in Seq(Ids) /\ IsInjective(rail)
    /\ {railQuery, asked, query} \subseteq Queries
    /\ page \in Nat \ {0}
    /\ {hasMore, due, armed, busy} \subseteq BOOLEAN
    /\ selected \in Ids \cup {None}
    /\ session \in Views \cup {None}

\* Nothing is polled while no conversation is selected.
RestInv == armed \/ (\E c \in calls : IsLivePoll(c)) => selected # None

TypeInv == PageInv /\ StateTypes /\ Sized(calls, MaxCalls) /\ RestInv

-----------------------------------------------------------------------------
(* How many calls there are. *)

\* As many calls as before, or fewer, each made from one of them.
LEMMA ImageSized ==
    ASSUME NEW n \in Nat, NEW S, Sized(S, n), NEW cs, NEW f \in [S -> cs],
           \A c \in cs : \E d \in S : f[d] = c,
           \A d \in S : IsTyped(f[d])
    PROVE  Sized(cs, n)
<1>1. f \in Surjection(S, cs)
  BY DEF Surjection
<1>2. /\ IsFiniteSet(S) /\ Cardinality(S) \in Nat /\ Cardinality(S) =< n
      /\ IsFiniteSet(cs) /\ Cardinality(cs) =< Cardinality(S)
  BY <1>1, FS_Surjection, FS_CardinalityType DEF Sized
<1>3. Cardinality(cs) \in Nat
  BY <1>2, FS_CardinalityType
<1>4. \A c \in cs : IsTyped(c)
  OBVIOUS
<1> QED
  BY <1>2, <1>3, <1>4 DEF Sized

\* A call that loses a flag keeps its types.
LEMMA FlagKeepsTypes ==
    ASSUME NEW c, IsCall(c), IsTyped(c)
    PROVE  /\ IsTyped([c EXCEPT !.rail = FALSE])
           /\ IsTyped([c EXCEPT !.session = FALSE])
           /\ IsTyped([c EXCEPT !.live = FALSE])
BY DEF IsTyped, IsCall, CallFields

LEMMA AgedSized ==
    ASSUME NEW n \in Nat, NEW S, Tame(S), Sized(S, n), NEW id
    PROVE  /\ Sized(NewRail(S), n) /\ Sized(NewSession(S), n) /\ Sized(Stopped(S, id), n)
           /\ Sized({IF c.from = "query" THEN [c EXCEPT !.live = FALSE] ELSE c : c \in S}, n)
<1>1. ASSUME NEW d \in S
      PROVE  /\ IsTyped(d)
             /\ IsTyped([d EXCEPT !.rail = FALSE])
             /\ IsTyped([d EXCEPT !.session = FALSE])
             /\ IsTyped([d EXCEPT !.live = FALSE])
  BY FlagKeepsTypes DEF Sized, Tame
<1>2. ASSUME NEW f, DOMAIN f = S, f = [d \in S |-> f[d]],
             \A d \in S : f[d] \in {d, [d EXCEPT !.rail = FALSE],
                                    [d EXCEPT !.session = FALSE], [d EXCEPT !.live = FALSE]}
      PROVE  Sized({f[d] : d \in S}, n)
  <2> DEFINE cs == {f[d] : d \in S}
  <2>1. f \in [S -> cs] /\ \A c \in cs : \E d \in S : f[d] = c
    BY <1>2
  <2>2. ASSUME NEW d \in S PROVE IsTyped(f[d])
    <3>1. \/ f[d] = d \/ f[d] = [d EXCEPT !.rail = FALSE]
          \/ f[d] = [d EXCEPT !.session = FALSE] \/ f[d] = [d EXCEPT !.live = FALSE]
      BY <1>2, Zenon
    <3> QED
      BY <1>1, <3>1, Zenon
  <2> HIDE DEF cs
  <2>3. Sized(cs, n)
    BY <2>1, <2>2, ImageSized
  <2> QED
    BY <2>3 DEF cs
<1>3. Sized(NewRail(S), n)
  <2> DEFINE f == [d \in S |-> IF d.op \in {"search", "pollRail"}
                               THEN [d EXCEPT !.rail = FALSE] ELSE d]
  <2>1. Sized({f[d] : d \in S}, n)
    BY <1>2
  <2>2. {f[d] : d \in S} = NewRail(S)
    BY DEF NewRail
  <2> QED
    BY <2>1, <2>2
<1>4. Sized(NewSession(S), n)
  <2> DEFINE f == [d \in S |-> IF d.op \in {"open", "choose"}
                               THEN [d EXCEPT !.session = FALSE] ELSE d]
  <2>1. Sized({f[d] : d \in S}, n)
    BY <1>2
  <2>2. {f[d] : d \in S} = NewSession(S)
    BY DEF NewSession
  <2> QED
    BY <2>1, <2>2
<1>5. Sized(Stopped(S, id), n)
  <2> DEFINE f == [d \in S |-> IF IsPoll(d) THEN [d EXCEPT !.live = FALSE] ELSE d]
  <2>1. Sized({f[d] : d \in S}, n)
    BY <1>2
  <2>2. id # selected => {f[d] : d \in S} = Stopped(S, id)
    BY DEF Stopped
  <2> QED
    BY <2>1, <2>2 DEF Stopped
<1>6. Sized({IF c.from = "query" THEN [c EXCEPT !.live = FALSE] ELSE c : c \in S}, n)
  <2> DEFINE f == [d \in S |-> IF d.from = "query" THEN [d EXCEPT !.live = FALSE] ELSE d]
  <2>1. Sized({f[d] : d \in S}, n)
    BY <1>2
  <2>2. {f[d] : d \in S} = {IF c.from = "query" THEN [c EXCEPT !.live = FALSE] ELSE c : c \in S}
    OBVIOUS
  <2> QED
    BY <2>1, <2>2
<1> QED
  BY <1>3, <1>4, <1>5, <1>6

\* One more.
LEMMA MoreSized ==
    ASSUME NEW n \in Nat, NEW S, Sized(S, n), NEW c, IsTyped(c)
    PROVE  Sized(S \cup {c}, n + 1)
<1>1. IsFiniteSet(S) /\ Cardinality(S) \in Nat /\ Cardinality(S) =< n
  BY FS_CardinalityType DEF Sized
<1>2. /\ IsFiniteSet(S \cup {c})
      /\ Cardinality(S \cup {c}) = IF c \in S THEN Cardinality(S) ELSE Cardinality(S) + 1
  BY <1>1, FS_AddElement
<1>3. Cardinality(S \cup {c}) =< n + 1
  BY <1>1, <1>2
<1>4. \A d \in S \cup {c} : IsTyped(d)
  BY DEF Sized
<1> QED
  BY <1>2, <1>3, <1>4 DEF Sized

\* There is room for another call, and in the place of one that left.
Least == MaxCalls - 1

LEMMA RoomLeft ==
    ASSUME Sized(calls, MaxCalls)
    PROVE  /\ Least \in Nat /\ Least + 1 = MaxCalls /\ MaxCalls \in Nat
           /\ Room => Sized(calls, Least)
           /\ \A c \in calls : Sized(calls \ {c}, Least) /\ Sized(calls \ {c}, MaxCalls)
<1>1. /\ IsFiniteSet(calls) /\ Cardinality(calls) \in Nat /\ Cardinality(calls) =< MaxCalls
      /\ MaxCalls \in Nat \ {0}
  BY FS_CardinalityType, WorkbenchAssumption DEF Sized
<1>2. Room => Sized(calls, Least)
  BY <1>1 DEF Room, Least, Sized
<1>3. ASSUME NEW c \in calls PROVE Sized(calls \ {c}, Least) /\ Sized(calls \ {c}, MaxCalls)
  <2>1. IsFiniteSet(calls \ {c}) /\ Cardinality(calls \ {c}) = Cardinality(calls) - 1
    BY <1>1, FS_RemoveElement
  <2> QED
    BY <1>1, <2>1 DEF Sized, Least
<1> QED
  BY <1>1, <1>2, <1>3 DEF Least

-----------------------------------------------------------------------------
(* What the Site answers. *)

LEMMA RowsTyped ==
    ASSUME NEW q \in Queries, NEW p \in Nat \ {0}
    PROVE  Rows(q, p) \in Seq(Ids) /\ IsInjective(Rows(q, p))
<1> DEFINE found == Listed(q)
           from == (p - 1) * PageSize + 1
           to == IF p * PageSize < Len(found) THEN p * PageSize ELSE Len(found)
<1>1. found \in Seq(Ids) /\ IsInjective(found)
  BY KeptRows, WorkbenchAssumption DEF Listed
<1>2. /\ p - 1 \in Nat /\ PageSize \in Nat
      /\ (p - 1) * PageSize \in Nat /\ p * PageSize \in Nat
  BY WorkbenchAssumption
<1>3. from \in Nat \ {0}
  BY <1>2
<1> HIDE DEF found
<1>4. to \in Nat /\ to =< Len(found)
  <2>1. Len(found) \in Nat
    BY <1>1
  <2> QED
    BY <1>2, <2>1
<1>5. Rows(q, p) = SubSeq(found, from, to)
  BY DEF Rows, found
<1> HIDE DEF from, to
<1> QED
  BY <1>1, <1>3, <1>4, <1>5, PartOfRows

LEMMA TargetTyped ==
    ASSUME TypeInv, NEW c, IsTyped(c)
    PROVE  Target(c) \in Ids \cup {None}
<1>1. Rows(c.query, c.page) \in Seq(Ids)
  BY RowsTyped DEF IsTyped
<1> DEFINE rows == Rows(c.query, c.page)
<1> HIDE DEF rows
<1>2. rows # <<>> => Head(rows) \in Ids
  BY <1>1 DEF rows
<1>3. \/ selected \in ToSet(rows)
      \/ selected \notin ToSet(rows) /\ c.query = Everything /\ selected # None
      \/ selected \notin ToSet(rows) /\ ~ (c.query = Everything /\ selected # None)
  OBVIOUS
<1>4. Target(c) = selected \/ Target(c) = IF rows = <<>> THEN None ELSE Head(rows)
  BY <1>3 DEF Target, rows
<1> QED
  BY <1>2, <1>4 DEF TypeInv, StateTypes

LEMMA ViewTyped == ASSUME TypeInv, NEW i \in Ids PROVE View(i, server[i]) \in Views
BY DEF TypeInv, StateTypes, View, Views

-----------------------------------------------------------------------------
(* The types of what the page keeps. *)

LEMMA UserTypes ==
    ASSUME TypeInv,
           \/ \E q \in Queries : TypeQuery(q)
           \/ \E i \in Ids : choose(i) \/ RunEnds(i)
           \/ Reload \/ growSessions \/ fresh \/ send \/ cancel \/ toggleArchive
           \/ QueryEffect \/ Poll \/ TypeQuestion
    PROVE  StateTypes'
<1> USE DEF TypeInv
<1>1. CASE \E q \in Queries : TypeQuery(q)
  BY <1>1 DEF StateTypes, TypeQuery, railVars
<1>2. ASSUME NEW i \in Ids, choose(i) PROVE StateTypes'
  BY <1>2 DEF StateTypes, choose, Select, railVars, searchVars
<1>3. ASSUME NEW i \in Ids, RunEnds(i) PROVE StateTypes'
  <2>1. server' \in [Ids -> [made : BOOLEAN, archived : BOOLEAN, active : BOOLEAN]]
    BY <1>3 DEF StateTypes, RunEnds
  <2> QED
    BY <1>3, <2>1 DEF StateTypes, RunEnds, railVars, searchVars
<1>4. CASE Reload \/ QueryEffect
  BY <1>4 DEF StateTypes, Reload, QueryEffect, railVars, searchVars
<1>5. CASE growSessions \/ send \/ cancel \/ toggleArchive \/ TypeQuestion \/ Poll
  BY <1>5 DEF StateTypes, growSessions, send, cancel, toggleArchive, TypeQuestion, Poll,
              railVars, searchVars
<1>6. CASE fresh
  BY <1>6 DEF StateTypes, fresh, Select, railVars, searchVars
<1> QED
  BY <1>1, <1>2, <1>3, <1>4, <1>5, <1>6

\* The rows a page of the list adds are not in it yet.
LEMMA RailTyped ==
    ASSUME TypeInv, NEW q \in Queries, NEW p \in Nat \ {0}
    PROVE  LET rows == Rows(q, p)
               rest == Kept(rail, Ids \ ToSet(rows)) IN
           /\ Appended(rows) \in Seq(Ids) /\ IsInjective(Appended(rows))
           /\ rows \o rest \in Seq(Ids) /\ IsInjective(rows \o rest)
<1> DEFINE rows == Rows(q, p)
           more == Kept(rows, Ids \ ToSet(rail))
           rest == Kept(rail, Ids \ ToSet(rows))
<1>1. /\ rows \in Seq(Ids) /\ IsInjective(rows)
      /\ rail \in Seq(Ids) /\ IsInjective(rail)
  BY RowsTyped DEF TypeInv, StateTypes
<1> HIDE DEF rows
<1>2. /\ more \in Seq(Ids) /\ IsInjective(more) /\ ToSet(more) \cap ToSet(rail) = {}
      /\ rest \in Seq(Ids) /\ IsInjective(rest) /\ ToSet(rest) \cap ToSet(rows) = {}
  BY <1>1, KeptRows
<1> HIDE DEF more, rest
<1>3. rail \o more \in Seq(Ids) /\ IsInjective(rail \o more)
  BY <1>1, <1>2, JoinedRows
<1>4. rows \o rest \in Seq(Ids) /\ IsInjective(rows \o rest)
  BY <1>1, <1>2, JoinedRows
<1>5. Appended(rows) = rail \o more
  BY DEF Appended, more
<1> QED
  BY <1>3, <1>4, <1>5 DEF rows, rest

LEMMA SearchTypes ==
    ASSUME TypeInv, NEW c, IsCall(c), IsTyped(c), SearchArrives(c)
    PROVE  StateTypes'
<1>1. /\ Rows(c.query, c.page) \in Seq(Ids) /\ IsInjective(Rows(c.query, c.page))
      /\ Appended(Rows(c.query, c.page)) \in Seq(Ids)
      /\ IsInjective(Appended(Rows(c.query, c.page)))
      /\ Target(c) \in Ids \cup {None}
  BY RowsTyped, RailTyped, TargetTyped DEF IsTyped
<1>2. rail' \in Seq(Ids) /\ IsInjective(rail')
  BY <1>1 DEF SearchArrives, railVars, TypeInv, StateTypes
<1>3. railQuery' \in Queries /\ page' \in Nat \ {0} /\ hasMore' \in BOOLEAN
  <2>1. CASE UNCHANGED railVars
    BY <2>1 DEF railVars, TypeInv, StateTypes
  <2>2. CASE ShowPage(c)
    <3>1. hasMore' = (Len(Listed(c.query)) > c.page * PageSize)
      BY <2>2 DEF ShowPage
    <3>2. hasMore' \in BOOLEAN
      BY <3>1
    <3>3. railQuery' \in {railQuery, c.query} /\ page' = c.page
      BY <2>2 DEF ShowPage
    <3> QED
      BY <3>2, <3>3 DEF TypeInv, StateTypes, IsTyped
  <2> QED
    BY <2>1, <2>2 DEF SearchArrives
<1>4. selected' \in Ids \cup {None} /\ session' \in Views \cup {None}
  BY <1>1 DEF SearchArrives, Select, TypeInv, StateTypes
<1>5. armed' \in BOOLEAN /\ busy' \in BOOLEAN
  BY DEF SearchArrives, Select, Settle, Unsettled, TypeInv, StateTypes
<1>6. UNCHANGED <<server, asked, query, due>>
  BY DEF SearchArrives, searchVars
<1> QED
  BY <1>2, <1>3, <1>4, <1>5, <1>6 DEF TypeInv, StateTypes

LEMMA AnswerTypes ==
    ASSUME TypeInv, NEW c, IsCall(c), IsTyped(c), CarryOut(c) \/ Arrive(c) \/ Fail(c)
    PROVE  StateTypes'
<1> USE DEF TypeInv
<1>1. CASE CarryOut(c)
  <2>1. server' \in [Ids -> [made : BOOLEAN, archived : BOOLEAN, active : BOOLEAN]]
    BY <1>1 DEF StateTypes, CarryOut
  <2> QED
    BY <1>1, <2>1 DEF StateTypes, CarryOut, railVars, searchVars
<1>2. CASE Fail(c)
  BY <1>2 DEF StateTypes, Fail, Settle, railVars, searchVars
<1>3. CASE ReadArrives(c)
  <2>1. View(c.id, server[c.id]) \in Views
    BY <1>3, ViewTyped DEF ReadArrives, IsTyped
  <2> QED
    BY <1>3, <2>1 DEF StateTypes, ReadArrives, Settle, railVars, searchVars
<1>4. CASE PollArrives(c)
  <2>1. View(c.id, server[c.id]) \in Views
    BY <1>4, ViewTyped DEF PollArrives, IsTyped
  <2> QED
    BY <1>4, <2>1 DEF StateTypes, PollArrives, Unsettled, railVars, searchVars
<1>5. CASE PollRailArrives(c)
  <2>1. rail' \in Seq(Ids) /\ IsInjective(rail')
    BY <1>5, RailTyped DEF PollRailArrives, IsTyped, StateTypes
  <2> QED
    BY <1>5, <2>1 DEF StateTypes, PollRailArrives, Unsettled, searchVars
<1>6. CASE SendArrives(c) /\ c.reply # None
  <2>1. c.reply \in Views /\ c.reply.id \in Ids
    BY <1>6 DEF IsTyped, Views
  <2> QED
    BY <1>6, <2>1 DEF StateTypes, SendArrives, Select, IsTyped, railVars, searchVars
<1>7. CASE CancelArrives(c)
  BY <1>7 DEF StateTypes, CancelArrives, Settle, IsTyped, railVars, searchVars
<1>8. CASE ArchiveArrives(c)
  BY <1>8 DEF StateTypes, ArchiveArrives, Select, Unsettled, IsTyped, railVars, searchVars
<1> QED
  BY <1>1, <1>2, <1>3, <1>4, <1>5, <1>6, <1>7, <1>8, SearchTypes
     DEF Arrive, SendArrives, Writes

-----------------------------------------------------------------------------
(* The calls. *)

LEMMA UserCalls ==
    ASSUME TypeInv,
           \/ \E q \in Queries : TypeQuery(q)
           \/ \E i \in Ids : choose(i) \/ RunEnds(i)
           \/ Reload \/ growSessions \/ fresh \/ send \/ cancel \/ toggleArchive
           \/ QueryEffect \/ Poll \/ TypeQuestion
    PROVE  Sized(calls', MaxCalls)
<1>1. Tame(calls) /\ Sized(calls, MaxCalls) /\ StateTypes /\ RestInv
  BY DEF TypeInv, PageInv
<1>2. Least \in Nat /\ Least + 1 = MaxCalls /\ MaxCalls \in Nat
  BY <1>1, RoomLeft
<1>3. ASSUME Room, NEW c, IsTyped(c)
      PROVE  /\ Sized(calls \cup {c}, MaxCalls) /\ Sized(NewRail(calls) \cup {c}, MaxCalls)
             /\ \A id : Sized(Stopped(NewSession(calls), id) \cup {c}, MaxCalls)
  <2>1. Sized(calls, Least)
    BY <1>1, <1>3, RoomLeft
  <2>2. Sized(NewRail(calls), Least) /\ Sized(NewSession(calls), Least)
    BY <1>1, <1>2, <2>1, AgedSized
  <2>3. Tame(NewSession(calls))
    BY <1>1, NewSessionAges DEF Aged
  <2>4. \A id : Sized(Stopped(NewSession(calls), id), Least)
    BY <1>2, <2>2, <2>3, AgedSized
  <2> QED
    BY <1>2, <1>3, <2>1, <2>2, <2>4, MoreSized
<1>4. CASE \E q \in Queries : TypeQuery(q)
  <2>1. calls' = {IF c.from = "query" THEN [c EXCEPT !.live = FALSE] ELSE c : c \in calls}
    BY <1>4 DEF TypeQuery
  <2> QED
    BY <1>1, <1>2, <2>1, AgedSized
<1>5. CASE fresh
  <2>1. Sized(NewSession(calls), MaxCalls) /\ Tame(NewSession(calls))
    BY <1>1, <1>2, AgedSized, NewSessionAges DEF Aged
  <2> QED
    BY <1>2, <1>5, <2>1, AgedSized DEF fresh
<1>6. CASE TypeQuestion \/ \E i \in Ids : RunEnds(i)
  BY <1>1, <1>6 DEF TypeQuestion, RunEnds
<1>7. CASE QueryEffect \/ Reload
  <2>1. PICK from \in {"query", "reload"} : calls' = NewRail(calls) \cup {Search(from, query, 1)}
    BY <1>7 DEF QueryEffect, Reload
  <2>2. IsTyped(Search(from, query, 1)) /\ Room
    BY <1>1, <1>7 DEF Search, Call, IsTyped, StateTypes, QueryEffect, Reload
  <2> QED
    BY <1>3, <2>1, <2>2
<1>8. ASSUME NEW i \in Ids, choose(i) PROVE Sized(calls', MaxCalls)
  <2>1. IsTyped(Read("choose", "choose", i)) /\ Room
    BY <1>8, WorkbenchAssumption DEF choose, Read, Call, IsTyped
  <2> QED
    BY <1>3, <1>8, <2>1 DEF choose
<1>9. CASE growSessions
  <2>1. IsTyped(Search("grow", query, page + 1)) /\ Room
    BY <1>1, <1>9 DEF growSessions, Search, Call, IsTyped, StateTypes
  <2> QED
    BY <1>3, <1>9, <2>1 DEF growSessions
<1>10. CASE send
  <2>1. IsTyped([Read("send", "send", selected) EXCEPT !.draft = question, !.query = query])
        /\ Room
    BY <1>1, <1>10 DEF send, Read, Call, IsTyped, StateTypes
  <2> QED
    BY <1>3, <1>10, <2>1 DEF send
<1>11. CASE cancel
  <2>1. session.id \in Ids
    BY <1>1, <1>11 DEF cancel, StateTypes, Views
  <2>2. IsTyped(Read("cancel", "cancel", session.id)) /\ Room
    BY <1>11, <2>1, WorkbenchAssumption DEF cancel, Read, Call, IsTyped
  <2> QED
    BY <1>3, <1>11, <2>2 DEF cancel
<1>12. CASE toggleArchive
  <2>1. session.id \in Ids
    BY <1>1, <1>12 DEF toggleArchive, StateTypes, Views
  <2>2. PICK op \in {"archive", "restore"} :
          calls' = calls \cup {[Read(op, "archive", session.id) EXCEPT !.query = query]}
    BY <1>12 DEF toggleArchive
  <2>3. IsTyped([Read(op, "archive", session.id) EXCEPT !.query = query]) /\ Room
    BY <1>1, <1>12, <2>1 DEF toggleArchive, Read, Call, IsTyped, StateTypes
  <2> QED
    BY <1>3, <2>2, <2>3
<1>13. CASE Poll
  <2>1. IsTyped(Read("poll", "poll", selected)) /\ Room
    BY <1>1, <1>13, WorkbenchAssumption DEF Poll, Read, Call, IsTyped, StateTypes, RestInv
  <2> QED
    BY <1>3, <1>13, <2>1 DEF Poll
<1> QED
  BY <1>4, <1>5, <1>6, <1>7, <1>8, <1>9, <1>10, <1>11, <1>12, <1>13

LEMMA AnswerCalls ==
    ASSUME TypeInv, NEW c \in calls, CarryOut(c) \/ Arrive(c) \/ Fail(c)
    PROVE  Sized(calls', MaxCalls)
<1> DEFINE rest == calls \ {c}
<1>1. /\ Tame(rest) /\ IsCall(c) /\ IsTyped(c) /\ StateTypes
      /\ Sized(rest, Least) /\ Sized(rest, MaxCalls)
      /\ Least \in Nat /\ Least + 1 = MaxCalls /\ MaxCalls \in Nat
  BY TameRest, RoomLeft DEF TypeInv, Sized
<1>2. ASSUME NEW new, IsTyped(new)
      PROVE  /\ Sized(rest \cup {new}, MaxCalls)
             /\ \A id : Sized(Stopped(NewRail(rest), id) \cup {new}, MaxCalls)
             /\ \A id : Sized(Stopped(NewSession(rest), id) \cup {new}, MaxCalls)
  <2> HIDE DEF rest
  <2>1. /\ Sized(NewRail(rest), Least) /\ Sized(NewSession(rest), Least)
        /\ Tame(NewRail(rest)) /\ Tame(NewSession(rest))
    BY <1>1, AgedSized, NewRailAges, NewSessionAges DEF Aged
  <2>2. \A id : /\ Sized(Stopped(NewRail(rest), id), Least)
                /\ Sized(Stopped(NewSession(rest), id), Least)
    BY <1>1, <2>1, AgedSized
  <2> QED
    BY <1>1, <1>2, <2>2, MoreSized
<1>3. CASE CarryOut(c)
  <2>1. PICK i \in Ids : calls' = rest \cup {[c EXCEPT !.reply = View(i, server'[i])]}
    BY <1>3 DEF CarryOut
  <2>2. View(i, server'[i]) \in Views
    <3>1. StateTypes'
      BY <1>1, <1>3, AnswerTypes
    <3> QED
      BY <3>1 DEF StateTypes, View, Views
  <2>3. IsTyped([c EXCEPT !.reply = View(i, server'[i])])
    BY <1>1, <2>2 DEF IsTyped, IsCall, CallFields
  <2> QED
    BY <1>2, <2>1, <2>3
<1>4. CASE ReadArrives(c) \/ CancelArrives(c) \/ PollRailArrives(c) \/ Fail(c)
  BY <1>1, <1>4 DEF ReadArrives, CancelArrives, PollRailArrives, Fail
<1>5. CASE PollArrives(c)
  <2>1. IsTyped(Call("pollRail", "poll", None, query, 1))
    BY <1>1 DEF Call, IsTyped, StateTypes
  <2> QED
    BY <1>1, <1>2, <1>5, <2>1 DEF PollArrives
<1>6. CASE SendArrives(c) \/ ArchiveArrives(c)
  <2>1. PICK from, id :
          /\ from \in {"send", "archive"}
          /\ calls' = Stopped(NewRail(rest), id) \cup {Search(from, c.query, 1)}
    BY <1>6 DEF SendArrives, ArchiveArrives
  <2>2. IsTyped(Search(from, c.query, 1))
    BY <1>1 DEF Search, Call, IsTyped
  <2> QED
    BY <1>2, <2>1, <2>2
<1>7. CASE SearchArrives(c)
  <2>1. CASE calls' = rest
    BY <1>1, <2>1
  <2>2. CASE calls' = NewSession(rest)
    BY <1>1, <2>2, AgedSized
  <2>3. CASE /\ Target(c) # None
             /\ calls' = Stopped(NewSession(rest), Target(c)) \cup
                           {[Read("open", c.from, Target(c)) EXCEPT !.live = c.live]}
    <3>1. Target(c) \in Ids
      BY <1>1, <2>3, TargetTyped
    <3>2. IsTyped([Read("open", c.from, Target(c)) EXCEPT !.live = c.live])
      BY <3>1, WorkbenchAssumption DEF Read, Call, IsTyped
    <3> QED
      BY <1>2, <2>3, <3>2
  <2> QED
    BY <1>7, <2>1, <2>2, <2>3 DEF SearchArrives
<1> QED
  BY <1>3, <1>4, <1>5, <1>6, <1>7 DEF Arrive

-----------------------------------------------------------------------------
(* No conversation, no poll. *)

Polled(S) == \E d \in S : IsLivePoll(d)

LEMMA AgedPolls == ASSUME NEW S, NEW cs, Aged(cs, S), Polled(cs) PROVE Polled(S)
BY DEF Polled, Aged, Older, IsLivePoll, IsPoll

\* A step that stays on the conversation starts no poll but from the timer, and
\* no timer but from a poll ...
LEMMA RestKept ==
    ASSUME RestInv, selected' = selected,
           armed' => armed \/ Polled(calls), Polled(calls') => armed \/ Polled(calls)
    PROVE  RestInv'
<1>1. Polled(calls)' <=> Polled(calls')
  BY DEF Polled, IsLivePoll, IsPoll
<1> QED
  BY <1>1 DEF RestInv, Polled

\* ... and one that moves stops both.
LEMMA RestMoved ==
    ASSUME RestInv, NEW S, S \subseteq calls, NEW cs, Aged(cs, S), NEW id, Select(id),
           NEW new, ~ IsLivePoll(new), calls' \subseteq Stopped(cs, id) \cup {new}
    PROVE  RestInv'
<1>1. Tame(cs)
  BY DEF Aged
<1>2. CASE id = selected
  <2>1. Stopped(cs, id) = cs /\ selected' = selected /\ armed' = armed
    BY <1>2 DEF Stopped, Select
  <2>2. Polled(calls') => Polled(cs)
    BY <2>1 DEF Polled
  <2>3. Polled(cs) => Polled(calls)
    BY AgedPolls DEF Polled
  <2> QED
    BY <2>1, <2>2, <2>3, RestKept
<1>3. CASE id # selected
  <2>1. \A c \in Stopped(cs, id) : ~ IsLivePoll(c)
    BY <1>1, <1>3, StoppedAges DEF IsLivePoll
  <2>2. selected' = id /\ armed' = (id # None)
    BY <1>3 DEF Select
  <2>3. ~ \E c \in calls' : IsLivePoll(c)
    BY <2>1
  <2> QED
    BY <2>2, <2>3 DEF RestInv, IsLivePoll, IsPoll
<1> QED
  BY <1>2, <1>3

LEMMA UserRests ==
    ASSUME PageInv, RestInv,
           \/ \E q \in Queries : TypeQuery(q)
           \/ \E i \in Ids : choose(i) \/ RunEnds(i)
           \/ Reload \/ growSessions \/ fresh \/ send \/ cancel \/ toggleArchive
           \/ QueryEffect \/ Poll \/ TypeQuestion
    PROVE  RestInv'
<1>1. /\ Tame(calls) /\ Aged(NewRail(calls), calls) /\ Aged(NewSession(calls), calls)
      /\ ~ IsLivePoll(Search("query", query, 1)) /\ ~ IsLivePoll(Search("reload", query, 1))
  BY NewRailAges, NewSessionAges DEF PageInv, Search, Call, IsLivePoll, IsPoll
<1>2. ASSUME NEW i \in Ids, choose(i) PROVE RestInv'
  <2>1. ~ IsLivePoll(Read("choose", "choose", i))
    BY DEF Read, Call, IsLivePoll, IsPoll
  <2>2. /\ Select(i)
        /\ calls' = Stopped(NewSession(calls), i) \cup {Read("choose", "choose", i)}
    BY <1>2 DEF choose
  <2> QED
    BY <1>1, <2>1, <2>2, RestMoved
<1>3. CASE fresh
  <2>1. Select(None) /\ calls' = Stopped(NewSession(calls), None)
    BY <1>3 DEF fresh
  <2> QED
    BY <1>1, <2>1, RestMoved
<1>4. CASE QueryEffect \/ Reload
  <2>1. PICK new : ~ IsLivePoll(new) /\ calls' = NewRail(calls) \cup {new}
    BY <1>1, <1>4 DEF QueryEffect, Reload
  <2>2. Polled(calls') => Polled(calls)
    BY <1>1, <2>1, AgedPolls DEF Polled
  <2> QED
    BY <1>4, <2>2, RestKept DEF QueryEffect, Reload
<1>5. CASE \E q \in Queries : TypeQuery(q)
  <2>1. Aged(calls', calls) /\ UNCHANGED <<selected, armed>>
    BY <1>1, <1>5, TypingAges DEF TypeQuery
  <2> QED
    BY <2>1, AgedPolls, RestKept
<1>6. CASE TypeQuestion \/ \E i \in Ids : RunEnds(i)
  BY <1>6, RestKept DEF TypeQuestion, RunEnds
<1>7. CASE growSessions \/ send \/ cancel \/ toggleArchive
  <2>1. PICK new : ~ IsLivePoll(new) /\ calls' = calls \cup {new}
    BY <1>7 DEF growSessions, send, cancel, toggleArchive, Search, Read, Call, IsLivePoll, IsPoll
  <2> QED
    BY <1>7, <2>1, RestKept DEF growSessions, send, cancel, toggleArchive, Polled
<1>8. CASE Poll
  BY <1>8, RestKept DEF Poll
<1> QED
  BY <1>2, <1>3, <1>4, <1>5, <1>6, <1>7, <1>8

LEMMA AnswerRests ==
    ASSUME PageInv, RestInv, NEW c \in calls, CarryOut(c) \/ Arrive(c) \/ Fail(c)
    PROVE  RestInv'
<1> DEFINE rest == calls \ {c}
<1>1. /\ IsCall(c) /\ Aged(rest, rest)
      /\ Aged(NewRail(rest), rest) /\ Aged(NewSession(rest), rest)
  BY TameRest, AgedSame, NewRailAges, NewSessionAges
<1>2. /\ rest \subseteq calls /\ (Polled(rest) => Polled(calls))
      /\ (IsLivePoll(c) => Polled(calls))
  BY DEF Polled
<1>3. CASE CarryOut(c)
  <2>1. PICK new : calls' = rest \cup {new} /\ new.op = c.op
    <3>1. PICK i \in Ids : calls' = rest \cup {[c EXCEPT !.reply = View(i, server'[i])]}
      BY <1>3 DEF CarryOut
    <3>2. [c EXCEPT !.reply = View(i, server'[i])].op = c.op
      BY <1>1 DEF IsCall, CallFields
    <3> QED
      BY <3>1, <3>2
  <2>2. ~ IsLivePoll(new)
    BY <1>3, <2>1 DEF CarryOut, Writes, IsLivePoll, IsPoll
  <2> QED
    BY <1>2, <1>3, <2>1, <2>2, RestKept DEF CarryOut, Polled
<1>4. CASE Fail(c) \/ PollRailArrives(c)
  <2>1. calls' = rest /\ selected' = selected /\ (armed' => armed \/ IsLivePoll(c))
    BY <1>4 DEF Fail, PollRailArrives, IsLivePoll, IsPoll
  <2> QED
    BY <1>2, <2>1, RestKept
<1>5. CASE ReadArrives(c) \/ CancelArrives(c)
  BY <1>2, <1>5, RestKept DEF ReadArrives, CancelArrives
<1>6. CASE PollArrives(c)
  <2>1. UNCHANGED <<selected, armed>> /\ (c.live => IsLivePoll(c))
    BY <1>6 DEF PollArrives, IsLivePoll, IsPoll
  <2>2. Polled(calls') => Polled(calls)
    BY <1>2, <1>6, <2>1 DEF PollArrives
  <2> QED
    BY <2>1, <2>2, RestKept
<1>7. CASE SendArrives(c) \/ ArchiveArrives(c)
  <2>1. \E from \in {"send", "archive"} : \E id :
          Select(id) /\ calls' = Stopped(NewRail(rest), id) \cup {Search(from, c.query, 1)}
    BY <1>7 DEF SendArrives, ArchiveArrives
  <2>2. \A from : ~ IsLivePoll(Search(from, c.query, 1))
    BY DEF Search, Call, IsLivePoll, IsPoll
  <2> QED
    BY <1>1, <1>2, <2>1, <2>2, RestMoved
<1>8. CASE SearchArrives(c)
  <2>1. CASE UNCHANGED <<selected, armed>> /\ calls' \in {rest, NewSession(rest)}
    BY <1>1, <1>2, <2>1, AgedPolls, RestKept
  <2>2. CASE /\ Select(Target(c))
             /\ calls' = Stopped(NewSession(rest), Target(c)) \cup
                           {[Read("open", c.from, Target(c)) EXCEPT !.live = c.live]}
    <3>1. ~ IsLivePoll([Read("open", c.from, Target(c)) EXCEPT !.live = c.live])
      BY DEF Read, Call, IsLivePoll, IsPoll
    <3> QED
      BY <1>1, <1>2, <2>2, <3>1, RestMoved
  <2> QED
    BY <1>8, <2>1, <2>2 DEF SearchArrives
<1> QED
  BY <1>3, <1>4, <1>5, <1>6, <1>7, <1>8 DEF Arrive

-----------------------------------------------------------------------------
LEMMA TypesInit == ASSUME Init PROVE TypeInv
<1>1. PageInv
  BY PageInit
<1>2. /\ 1 \in Nat \ {0} /\ <<>> \in Seq(Ids) /\ IsInjective(<<>>)
  BY DEF IsInjective
<1>3. StateTypes
  <2>1. server \in [Ids -> [made : BOOLEAN, archived : BOOLEAN, active : BOOLEAN]]
    BY DEF Init
  <2> QED
    BY <1>2, <2>1, WorkbenchAssumption DEF Init, StateTypes
<1>4. Sized(calls, MaxCalls)
  <2>1. calls = {} \/ \E i \in Ids : calls = {Read("choose", "initial", i)}
    BY WorkbenchAssumption DEF Init
  <2>2. \A i \in Ids : IsTyped(Read("choose", "initial", i))
    BY WorkbenchAssumption DEF Read, Call, IsTyped
  <2>3. IsFiniteSet(calls) /\ Cardinality(calls) \in {0, 1}
    BY <2>1, FS_EmptySet, FS_Singleton
  <2> QED
    BY <2>1, <2>2, <2>3, WorkbenchAssumption DEF Sized
<1>5. RestInv
  BY DEF Init, RestInv
<1> QED
  BY <1>1, <1>3, <1>4, <1>5 DEF TypeInv

LEMMA TypesStep == ASSUME TypeInv, [Next]_vars PROVE TypeInv'
<1>1. PageInv /\ StateTypes /\ Sized(calls, MaxCalls) /\ RestInv /\ PageInv'
  BY PageStep DEF TypeInv
<1>2. StateTypes' /\ Sized(calls', MaxCalls) /\ RestInv'
  <2>1. CASE UNCHANGED vars
    BY <1>1, <2>1 DEF vars, railVars, searchVars, StateTypes, RestInv, IsLivePoll, IsPoll
  <2>2. ASSUME NEW c \in calls, Progress(c)
        PROVE  StateTypes' /\ Sized(calls', MaxCalls) /\ RestInv'
    <3>1. IsCall(c) /\ IsTyped(c)
      BY <1>1 DEF PageInv, Tame, Sized
    <3> QED
      BY <1>1, <2>2, <3>1, AnswerTypes, AnswerCalls, AnswerRests DEF Progress
  <2> QED
    BY <1>1, <2>1, <2>2, UserTypes, UserCalls, UserRests DEF Next, UserStep
<1>3. Sized(calls, MaxCalls)'
  BY <1>2 DEF Sized, IsTyped
<1> QED
  BY <1>1, <1>2, <1>3 DEF TypeInv

\* The types of the page's state, the number of calls under way, and the list:
\* it never shows a conversation twice, however its pages and the polls' first
\* pages are joined (loadSessions, growSessions, the poll's effect).
THEOREM TypeCorrect == Spec => []TypeOK
<1>1. Init => TypeInv
  BY TypesInit
<1>2. TypeInv /\ [Next]_vars => TypeInv'
  BY TypesStep
<1>3. TypeInv => TypeOK
  BY DEF TypeInv, StateTypes, Sized, PageInv, OwnersInv, DraftInv, TypeOK
<1> QED
  BY <1>1, <1>2, <1>3, PTL DEF Spec
=============================================================================
