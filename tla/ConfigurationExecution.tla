------------------------ MODULE ConfigurationExecution ------------------------
(***************************************************************************)
(* One Site applies configuration packages: a confirmed package is written *)
(* document by document, each a step of its DS Configuration Execution.    *)
(*                                                                         *)
(*   frappe_app/dsherp_bridge/configuration_execution.py   _confirm        *)
(*   frappe_app/dsherp_bridge/configuration_locks.py                       *)
(*                                                                         *)
(* Native DDL commits by itself, so neither a rollback nor the end of a    *)
(* transaction delimits an execution: its steps are recorded one by one,   *)
(* and advisory locks of its connection keep native saves and other        *)
(* executions away from the structures it writes.  The process may die     *)
(* between any two steps.  A confirmation that lapsed, lacks a permission  *)
(* or finds a lock taken is Refuse, a native save that fails is no step,   *)
(* and a preview is a publish whose receipt is never withdrawn.            *)
(***************************************************************************)
EXTENDS Integers, Sequences

CONSTANTS
  Confirmations,  \* DS Configuration Confirmations, prepared on one baseline
  Structures,     \* DocTypes, and the list of workflow masters
  Requests,       \* processes that confirm
  NoOne,
  Documents,      \* [Confirmations -> Seq of what is written, in order]
  Locks           \* [Confirmations -> the structures locked for it]

Kinds == {"doctype", "field",      \* their DDL commits by itself
          "master", "workflow"}    \* durable with the step's own commit

Standings == {"authorized", "receipt"}

\* A new DocType is no structure of the Site before it is written, and a
\* package locks what it writes (targets in _confirm).
ASSUME PackagesAssumption ==
  /\ Documents \in [Confirmations -> Seq([kind : Kinds, of : Structures])]
  /\ Locks \in [Confirmations -> SUBSET Structures]
  /\ \A c \in Confirmations : \A i \in DOMAIN Documents[c] :
       Documents[c][i].of \in Locks[c]
  /\ NoOne \notin Requests

VARIABLES
  status,    \* of a confirmation, and of its execution once it has one
  steps,     \* the execution's recorded steps
  written,   \* the documents of a package that are durable because of it
  standing,  \* what a package's authorization and preview receipt still say
  late,      \* documents begun after one of them was withdrawn
  touched,   \* by whom a structure was changed since the packages were prepared
  records,   \* the new DocTypes that hold business records
  holder,    \* of a structure's advisory lock
  req        \* where each request stands

vars == <<status, steps, written, standing, late, touched, records, holder, req>>

Results == {"Succeeded", "Partial", "Failed", "Unknown"}

StepStatuses == {"Running", "Succeeded", "Failed", "Unknown"}

Idle == [stage |-> "idle", of |-> NoOne]

Stages == {"idle",
           "asked",      \* holds the confirmation's row, has its view
           "between",    \* the intent, or the last step, is committed
           "announced",  \* a step is recorded as Running
           "started",    \* checked, the native insert may begin
           "inserted"}   \* the native insert returned

TypeOK ==
  /\ status \in [Confirmations -> {"Pending", "Running"} \cup Results]
  /\ steps \in [Confirmations -> Seq(StepStatuses)]
  /\ written \in [Confirmations -> SUBSET Nat]
  /\ standing \in [Confirmations -> SUBSET Standings]
  /\ late \in [Confirmations -> Nat]
  /\ touched \in [Structures -> SUBSET (Confirmations \cup {NoOne})]
  /\ records \subseteq Structures
  /\ holder \in [Structures -> Requests \cup {NoOne}]
  /\ req \in [Requests -> [stage : Stages, of : Confirmations \cup {NoOne}]]

Init ==
  /\ status = [c \in Confirmations |-> "Pending"]
  /\ steps = [c \in Confirmations |-> <<>>]
  /\ written = [c \in Confirmations |-> {}]
  /\ standing = [c \in Confirmations |-> Standings]
  /\ late = [c \in Confirmations |-> 0]
  /\ touched = [s \in Structures |-> {}]
  /\ records = {}
  /\ holder = [s \in Structures |-> NoOne]
  /\ req = [q \in Requests |-> Idle]

-----------------------------------------------------------------------------
\* The step a request is at, and the document it writes.
At(q) == Len(steps[req[q].of])
Document(q) == Documents[req[q].of][At(q)]

Go(q, stage) == req' = [req EXCEPT ![q].stage = stage]

Recorded(c, s) == steps' = [steps EXCEPT ![c][Len(steps[c])] = s]

\* A new DocType is there once it was written, here or by hand.
Exists(d) ==
  \/ \E c \in Confirmations : \E i \in written[c] : Documents[c][i] = d
  \/ d.kind = "doctype" /\ touched[d.of] # {}

\* inspect_baseline, as far as the structures written are concerned.
BaselineStands(c) ==
  \A i \in DOMAIN Documents[c] : touched[Documents[c][i].of] = {}

Released(q) == [s \in Structures |-> IF holder[s] = q THEN NoOne ELSE holder[s]]

\* Variation: the locks are the transaction's.
ReleasedByCommit(q) == Released(q)

\* They are the connection's: no commit gives them up.
AfterCommit(q) == holder

-----------------------------------------------------------------------------
\* _confirm, up to its intent.  All it reads until then it reads by one view.
Ask(q, c) ==
  /\ req[q].stage = "idle"
  /\ \A p \in Requests : req[p].stage = "asked" => req[p].of # c
  /\ status[c] = "Pending"
  /\ "receipt" \in standing[c]
  /\ BaselineStands(c)
  /\ req' = [req EXCEPT ![q] = [stage |-> "asked", of |-> c]]
  /\ UNCHANGED <<status, steps, written, standing, late, touched, records, holder>>

Refuse(q) ==
  /\ req[q].stage = "asked"
  /\ req' = [req EXCEPT ![q] = Idle]
  /\ UNCHANGED <<status, steps, written, standing, late, touched, records, holder>>

Intend(q) ==
  LET c == req[q].of
  IN /\ req[q].stage = "asked"
     /\ \A s \in Locks[c] : holder[s] = NoOne
     /\ "authorized" \in standing[c]
     /\ status' = [status EXCEPT ![c] = "Running"]
     /\ holder' = [s \in Structures |-> IF s \in Locks[c] THEN q ELSE holder[s]]
     /\ Go(q, "between")
     /\ UNCHANGED <<steps, written, standing, late, touched, records>>

-----------------------------------------------------------------------------
\* Its steps.

Announce(q) ==
  LET c == req[q].of
  IN /\ req[q].stage = "between"
     /\ Len(steps[c]) < Len(Documents[c])
     /\ steps' = [steps EXCEPT ![c] = Append(@, "Running")]
     /\ holder' = AfterCommit(q)
     /\ Go(q, "announced")
     /\ UNCHANGED <<status, written, standing, late, touched, records>>

\* Variation: what was checked before the first step is taken to hold.
StoodAtFirst(c) == TRUE

\* check_authorization, and the receipt read from the preview Site once more.
StillStands(c) == standing[c] = Standings

Begin(q) ==
  /\ req[q].stage = "announced"
  /\ StillStands(req[q].of)
  /\ Document(q).kind = "workflow" => Document(q).of \notin records
  /\ Go(q, "started")
  /\ UNCHANGED <<status, steps, written, standing, late, touched, records, holder>>

\* The document under way becomes durable.
Write(q) ==
  /\ written' = [written EXCEPT ![req[q].of] = @ \cup {At(q)}]
  /\ touched' = [touched EXCEPT ![Document(q).of] = @ \cup {req[q].of}]

CommitsItself(d) == d.kind \in {"doctype", "field"}

\* The native insert.
Insert(q) ==
  LET c == req[q].of
  IN /\ req[q].stage = "started"
     /\ ~ Exists(Document(q))
     /\ IF CommitsItself(Document(q)) THEN Write(q) ELSE UNCHANGED <<written, touched>>
     /\ late' = IF standing[c] = Standings THEN late ELSE [late EXCEPT ![c] = @ + 1]
     /\ Go(q, "inserted")
     /\ UNCHANGED <<status, steps, standing, records, holder>>

Record(q) ==
  LET c == req[q].of
  IN /\ req[q].stage = "inserted"
     /\ Recorded(c, "Succeeded")
     /\ Write(q)
     /\ holder' = AfterCommit(q)
     /\ Go(q, "between")
     /\ UNCHANGED <<status, standing, late, records>>

\* Variation: a step that raised has not happened.
StoppedAsFailed(q) == "Failed"

StoppedAs(q) == IF req[q].stage = "announced" THEN "Failed" ELSE "Unknown"

\* Anything raises: what can be rolled back is, and the execution ends here.
Stop(q) ==
  LET c == req[q].of
      some == \E i \in DOMAIN steps[c] : steps[c][i] = "Succeeded"
  IN /\ req[q].stage \in {"announced", "started", "inserted"}
     /\ Recorded(c, StoppedAs(q))
     /\ status' = [status EXCEPT ![c] = IF some THEN "Partial" ELSE StoppedAs(q)]
     /\ holder' = Released(q)
     /\ req' = [req EXCEPT ![q] = Idle]
     /\ UNCHANGED <<written, standing, late, touched, records>>

Conclude(q) ==
  LET c == req[q].of
  IN /\ req[q].stage = "between"
     /\ Len(steps[c]) = Len(Documents[c])
     /\ status' = [status EXCEPT ![c] = "Succeeded"]
     /\ holder' = Released(q)
     /\ req' = [req EXCEPT ![q] = Idle]
     /\ UNCHANGED <<steps, written, standing, late, touched, records>>

\* The process dies, or an error leaves its loop: nobody resumes the execution,
\* it stays Running and is shown as Unknown.
Crash(q) ==
  /\ req[q].stage # "idle"
  /\ req' = [req EXCEPT ![q] = Idle]
  /\ holder' = Released(q)
  /\ UNCHANGED <<status, steps, written, standing, late, touched, records>>

-----------------------------------------------------------------------------
\* Everybody else on the Site.

\* A native save of a structure, under its lock from lock_native to its commit.
Save(s) ==
  /\ holder[s] = NoOne
  /\ touched' = [touched EXCEPT ![s] = @ \cup {NoOne}]
  /\ UNCHANGED <<status, steps, written, standing, late, records, holder, req>>

\* The DocTypes a package brings.
Brought ==
  {s \in Structures : \E c \in Confirmations : \E i \in DOMAIN Documents[c] :
                        Documents[c][i] = [kind |-> "doctype", of |-> s]}

\* Somebody makes the first business record of one (check_new_custom_record).
CreateRecord(s) ==
  /\ s \in Brought \ records
  /\ Exists([kind |-> "doctype", of |-> s])
  /\ holder[s] = NoOne
  /\ records' = records \cup {s}
  /\ UNCHANGED <<status, steps, written, standing, late, touched, holder, req>>

\* A membership or permission is withdrawn, a preview is changed or expires.
Withdraw(c) ==
  /\ \E x \in standing[c] : standing' = [standing EXCEPT ![c] = @ \ {x}]
  /\ UNCHANGED <<status, steps, written, late, touched, records, holder, req>>

RequestStep(q) ==
  \/ \E c \in Confirmations : Ask(q, c)
  \/ Refuse(q) \/ Intend(q) \/ Announce(q) \/ Begin(q) \/ Insert(q) \/ Record(q)
  \/ Stop(q) \/ Conclude(q) \/ Crash(q)

Next ==
  \/ \E q \in Requests : RequestStep(q)
  \/ \E s \in Structures : Save(s) \/ CreateRecord(s)
  \/ \E c \in Confirmations : Withdraw(c)

Spec == Init /\ [][Next]_vars

-----------------------------------------------------------------------------
(* What must hold.                                                         *)

\* An execution's record tells what became of the package, wherever it stopped
\* and although DDL does not roll back: a step recorded as done is there, one
\* recorded as failed or never begun is not (_confirm's inner except).
StepsAreTrue ==
  \A c \in Confirmations :
    /\ \A i \in DOMAIN steps[c] :
         /\ steps[c][i] = "Succeeded" => i \in written[c]
         /\ steps[c][i] = "Failed" => i \notin written[c]
    /\ written[c] \subseteq DOMAIN steps[c]
    /\ status[c] = "Succeeded" => written[c] = DOMAIN Documents[c]
    /\ status[c] = "Failed" => written[c] = {}
    /\ status[c] = "Partial" => written[c] # {}

\* The structures a request is applying a package to: from its intent on.
Applying(q) == req[q].stage \in {"between", "announced", "started", "inserted"}

\* While a package is applied, nobody else changes a structure it locked and
\* nobody makes a record of a DocType it creates, across all the commits
\* between its steps (acquire, lock_native and check_new_custom_record).
StructuresStand ==
  [][\A q \in Requests : Applying(q) =>
       \A s \in Locks[req[q].of] :
         /\ touched'[s] \subseteq touched[s] \cup {req[q].of}
         /\ s \in records' => s \in records]_vars

\* Once the authorization or the preview's receipt is withdrawn, at most the
\* document under way is still written (the checks before each step).
StopsWhenWithdrawn == \A c \in Confirmations : late[c] <= 1
=============================================================================
