---------------------------- MODULE SidebarCards ----------------------------
(***************************************************************************)
(* The drawer together with the card of something to confirm in the        *)
(* conversation it shows: an operation or a form fill                      *)
(* (OperationProposal.jsx, form-fill.js), or a configuration bundle with   *)
(* the confirmation it leads to (ConfigurationBundle.jsx,                  *)
(* ConfigurationProposal.jsx).  The card lives as long as the drawer shows *)
(* the conversation: a poll gives it newer facts and keeps its state, a    *)
(* reload throws it away, and its promises go on without it.  A poll that  *)
(* finds a bundle's confirmation on file takes the bundle's card away and  *)
(* puts a new one for the confirmation in its place.                       *)
(*                                                                         *)
(* What the Site does with a confirmation is OperationProposal's; here it  *)
(* takes one request for a waiting proposal and refuses the others.        *)
(*                                                                         *)
(* Left out: a bundle's second confirmation, which a repeated request for  *)
(* one or an expired first one leads to, and the expiry of a transfer.     *)
(***************************************************************************)
EXTENDS Sidebar

CONSTANTS
    FormRoute,    \* the page of the draft a form fill is for
    Kinds,        \* which cards a conversation may hold
    MaxCardCalls  \* bound: calls of cards under way

\* How a proposal reads: what the Site says of it and what a card adds.  A
\* bundle is "Pending" while it has no confirmation, "Transferred" once it was
\* sent to the preview Site and "Filed" while its confirmation waits; from then
\* on it reads as the confirmation does.
Readings ==
    {"Unready", "Pending", "Transferred", "Filed", "Executing", "Succeeded", "Failed",
     "Rejected", "Authorized", "Expired", "Running", "Rejecting", "Unknown", "Applied"}

ASSUME CardsAssumption ==
    /\ FormRoute \in Routes
    /\ None \notin Readings
    /\ Kinds \subseteq {"update", "fill", "preview", "source"}

VARIABLES
    kind,        \* the card of this conversation
    claimed,     \* claimed.current of the card, requested.current of a bundle
    local,       \* the card's own state, None until it asks
    verified,    \* what "verify" read
    bundle,      \* the bundle's transfer and confirmation
    cardCalls,   \* calls of cards, of this one (mine) or of one thrown away
    form,        \* the native draft's field and child row
    filling,     \* fills under way in the draft
    asked        \* how the last request of this card ended

cardState == <<claimed, local, verified, bundle, asked>>
cardVars == <<kind, cardState, cardCalls, form, filling>>
vars == <<sidebarVars, cardVars>>

Parts == {"field", "row"}
NoBundle == [transfer |-> FALSE, confirmation |-> FALSE]
IsBundle == kind \in {"preview", "source"}

\* What can be confirmed, and a bundle without a confirmation.
Waiting == IF IsBundle THEN "Filed" ELSE "Pending"
Unfiled == {"Unready", "Pending", "Transferred"}

\* What the card was given: the reading of the proposal in the conversation
\* shown, None when no card is on the drawer.
Given == IF session # None /\ session.id = Last THEN session.proposal ELSE None

\* isExpired looks at the clock, not at what was read.
Expired == site[Last].proposal = "Expired"

Resolve(status) == site' = [site EXCEPT ![Last].proposal = status]

Init ==
    /\ SidebarInit
    /\ kind \in Kinds
    /\ claimed = FALSE /\ local = None /\ verified = None
    /\ bundle = NoBundle /\ asked = "no"
    /\ cardCalls = {} /\ filling = {}
    /\ form = [part \in Parts |-> "base"]

-----------------------------------------------------------------------------
Ask(op) ==
    /\ Cardinality(cardCalls) < MaxCardCalls
    /\ acts < MaxActs /\ acts' = acts + 1
    /\ claimed' = TRUE
    /\ asked' = "waiting"
    /\ cardCalls' = cardCalls \cup {[op |-> op, mine |-> TRUE, reply |-> None]}

Undisturbed == UNCHANGED <<allowed, calls, open, shownVars, pending, error, armed, inputVars>>

\* The card of a proposal, or of the confirmation a bundle's card was given.
MayConfirm ==
    /\ Given # None /\ local = None /\ ~ Expired
    /\ (Given = Waiting /\ ~ claimed) \/ bundle.confirmation

confirm ==
    /\ MayConfirm
    /\ Ask("confirm")
    /\ local' = "Running"
    /\ Undisturbed
    /\ UNCHANGED <<site, kind, verified, bundle, form, filling>>

reject ==
    /\ MayConfirm /\ ~ IsBundle
    /\ Ask("reject")
    /\ local' = "Rejecting"
    /\ Undisturbed
    /\ UNCHANGED <<site, kind, verified, bundle, form, filling>>

\* A bundle's buttons: confirm a preview here, or send the bundle to the
\* preview Site and read its result back.
bundleOp(op) ==
    /\ IsBundle /\ ~ bundle.confirmation
    /\ ~ claimed /\ Given \in Unfiled \ {"Unready"}
    /\ CASE op = "prepare" -> kind = "preview"
         [] op = "transfer" -> kind = "source" /\ ~ bundle.transfer
         [] op = "publish" -> kind = "source" /\ bundle.transfer
    /\ Ask(op)
    /\ Undisturbed
    /\ UNCHANGED <<site, kind, local, verified, bundle, form, filling>>

\* "Verify the business result", once the end is unknown or a failure; the
\* confirmation inside a bundle's card has no such button.
verify ==
    /\ Given # None /\ ~ bundle.confirmation
    /\ (IF local # None THEN local ELSE Given) \in {"Unknown", "Failed"}
    /\ \A c \in cardCalls : ~ (c.mine /\ c.op = "verify")
    /\ Cardinality(cardCalls) < MaxCardCalls
    /\ acts < MaxActs /\ acts' = acts + 1
    /\ cardCalls' = cardCalls \cup {[op |-> "verify", mine |-> TRUE, reply |-> None]}
    /\ Undisturbed
    /\ UNCHANGED <<site, kind, cardState, form, filling>>

-----------------------------------------------------------------------------
(* The Site, and time.                                                     *)

\* How the proposal reads when the Site has carried out a request; none if it
\* refuses it.
Results(op) ==
    LET now == site[Last].proposal IN
    CASE op = "confirm" /\ now = Waiting ->
             IF kind = "fill" THEN {"Authorized"} ELSE {"Succeeded", "Failed", "Executing"}
      [] op = "reject" /\ now = Waiting -> {"Rejected"}
      [] op \in {"confirm", "reject"} /\ now # Waiting -> {}
      [] op = "transfer" /\ now = "Pending" -> {"Transferred"}
      [] op \in {"prepare", "publish"} /\ now \in Unfiled -> {"Filed"}
      [] OTHER -> {now}

Take(c) ==
    /\ c.reply = None
    /\ \E reply \in Results(c.op) :
          /\ Resolve(reply)
          /\ cardCalls' = (cardCalls \ {c}) \cup {[c EXCEPT !.reply = reply]}
    /\ Undisturbed
    /\ UNCHANGED <<acts, kind, cardState, form, filling>>

Expire ==
    /\ site[Last].proposal = Waiting
    /\ Resolve("Expired")
    /\ Undisturbed
    /\ UNCHANGED <<acts, cardVars>>

-----------------------------------------------------------------------------
(* What an answer does.  A card thrown away changes nothing any more, but  *)
(* an authorized fill goes on in the draft.                                *)

\* Variation: a request without an answer is shown as a card never pressed.
UnansweredAsNew == [local |-> None, claimed |-> FALSE]

Unanswered == [local |-> "Unknown", claimed |-> TRUE]

Lost(c) ==
    /\ cardCalls' = cardCalls \ {c}
    /\ IF c.mine /\ c.op \in {"confirm", "reject"}
       THEN local' = Unanswered.local /\ claimed' = Unanswered.claimed
       ELSE UNCHANGED <<local, claimed>>
    /\ asked' = IF c.mine /\ c.op # "verify" THEN "failed" ELSE asked
    /\ Undisturbed
    /\ UNCHANGED <<site, acts, kind, verified, bundle, form, filling>>

\* form-fill.js checks everything, then writes the fields.
FormAsProposed == route = FormRoute /\ \A part \in Parts : form[part] = "base"

\* Variation: whatever the Site answered is shown as done.
ShownAsDone(c) == IF c.op = "confirm" THEN "Succeeded" ELSE "Rejected"

ShownAs(c) == c.reply

Answered(c) ==
    /\ c.reply # None
    /\ cardCalls' = cardCalls \ {c}
    /\ CASE c.op = "confirm" /\ c.reply = "Authorized" ->
                /\ IF FormAsProposed
                   THEN /\ form' = [form EXCEPT !["field"] = "filled"]
                        /\ filling' = filling \cup {[stage |-> "rows", mine |-> c.mine]}
                        /\ UNCHANGED local
                   ELSE /\ local' = IF c.mine THEN "Unknown" ELSE local
                        /\ UNCHANGED <<form, filling>>
                /\ UNCHANGED <<claimed, verified, bundle>>
         [] c.op \in {"confirm", "reject"} /\ c.reply # "Authorized" ->
                /\ local' = IF c.mine THEN ShownAs(c) ELSE local
                /\ UNCHANGED <<claimed, verified, bundle, form, filling>>
         [] c.op = "verify" ->
                /\ verified' = IF c.mine THEN c.reply ELSE verified
                /\ UNCHANGED <<claimed, local, bundle, form, filling>>
         [] OTHER ->
                /\ bundle' = IF ~ c.mine THEN bundle
                             ELSE IF c.op = "transfer" THEN [bundle EXCEPT !.transfer = TRUE]
                             ELSE [bundle EXCEPT !.confirmation = TRUE]
                /\ claimed' = (claimed /\ ~ (c.mine /\ c.op = "transfer"))
                /\ UNCHANGED <<local, verified, form, filling>>
    /\ asked' = IF c.mine /\ c.op # "verify" THEN "done" ELSE asked
    /\ Undisturbed
    /\ UNCHANGED <<site, acts, kind>>

\* The fields' own handlers have run; the child rows are written as they are.
FillRows(f) ==
    /\ f.stage = "rows"
    /\ form' = [form EXCEPT !["row"] = "filled"]
    /\ filling' = (filling \ {f}) \cup {[f EXCEPT !.stage = "check"]}
    /\ Undisturbed
    /\ UNCHANGED <<site, acts, kind, cardState, cardCalls>>

FormFilled == \A part \in Parts : form[part] = "filled"

FillCheck(f) ==
    /\ f.stage = "check"
    /\ local' = IF ~ f.mine THEN local ELSE IF FormFilled THEN "Applied" ELSE "Unknown"
    /\ filling' = filling \ {f}
    /\ Undisturbed
    /\ UNCHANGED <<site, acts, kind, claimed, verified, bundle, asked, cardCalls, form>>

EditForm(part) ==
    /\ kind = "fill"
    /\ acts < MaxActs /\ acts' = acts + 1
    /\ form' = [form EXCEPT ![part] = "edited"]
    /\ Undisturbed
    /\ UNCHANGED <<site, kind, cardState, cardCalls, filling>>

-----------------------------------------------------------------------------
\* The card stays as it is: the conversation is shown before and after, and no
\* confirmation has taken the place of a bundle (openBundles; one that expired
\* takes no place).
CardStays ==
    /\ Given # None /\ Given' # None
    /\ IsBundle /\ Given \in Unfiled => Given' \in Unfiled \cup {"Expired"}

\* What a step of the drawer does to the card on it.  Of a request, asked is
\* remembered until a new card is there.
CardFollows ==
    /\ UNCHANGED <<kind, form>>
    /\ IF CardStays
       THEN UNCHANGED <<cardState, cardCalls, filling>>
       ELSE /\ claimed' = FALSE /\ local' = None /\ verified' = None
            /\ bundle' = [NoBundle EXCEPT !.transfer = (Given' = "Transferred")]
            /\ asked' = IF Given' = None THEN asked ELSE "no"
            /\ cardCalls' = {[c EXCEPT !.mine = FALSE] : c \in cardCalls}
            /\ filling' = {[f EXCEPT !.mine = FALSE] : f \in filling}

CardStep ==
    \/ confirm \/ reject \/ verify \/ Expire
    \/ \E op \in {"prepare", "transfer", "publish"} : bundleOp(op)
    \/ \E c \in cardCalls : Take(c) \/ Lost(c) \/ Answered(c)
    \/ \E f \in filling : FillRows(f) \/ FillCheck(f)
    \/ \E part \in Parts : EditForm(part)

Next == (SidebarStep /\ CardFollows) \/ CardStep

Spec == Init /\ [][Next]_vars

-----------------------------------------------------------------------------
\* What a card says of its proposal is so at the Site, and the draft is only
\* filled by an authorization the Site gave: a late, lost or foreign answer
\* never makes a card claim an execution, a rejection or a fill that did not
\* happen (confirm and reject of OperationProposal.jsx).
CardTellsTruth ==
    /\ local \in {"Succeeded", "Rejected"} => site[Last].proposal = local
    /\ local = "Applied" => site[Last].proposal = "Authorized"
    /\ (\E part \in Parts : form[part] = "filled") => site[Last].proposal = "Authorized"

\* A request whose end is not known is not sent again from the same card: the
\* user is asked again only after an answer to a read of the conversation has
\* put a new card there (claimed and requested, which a failure does not clear).
\* For an operation that read is a reload; for a bundle it may also be the poll
\* that finds its confirmation on file, and such a poll may be older than the
\* request, so that both are on their way: that the Site takes one of them and
\* no card tells an untruth of it is CardTellsTruth.
ReadBeforeAskingAgain ==
    [][\A c \in cardCalls' \ cardCalls :
          c.mine /\ c.reply = None /\ c.op # "verify" =>
              asked \notin {"waiting", "failed"}]_vars
=============================================================================
